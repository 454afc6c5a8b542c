-------------------------- MODULE LiveOutputProofs --------------------------
(***************************************************************************)
(* Live delivery, for every text, every set of secrets, capacity and drain *)
(* budget: however the output is cut into pieces, the redacted text is     *)
(* that of the whole; a sink that keeps its contract is called with every  *)
(* accepted chunk, in order, and any sink is called with all of the        *)
(* redacted text unless finish reports a truncation.                       *)
(***************************************************************************)
EXTENDS LiveOutput, SequenceTheorems, FiniteSetTheorems, WellFoundedInduction, TLAPS

(* Induction over the natural numbers, as a fact about sets.               *)
LEMMA Induction ==
  ASSUME NEW S, 0 \in S, \A n \in Nat : n \in S => n + 1 \in S
  PROVE  Nat \subseteq S
<1> SUFFICES ASSUME Nat \ S # {} PROVE FALSE
  OBVIOUS
<1> DEFINE T == Nat \ S
<1>1. PICK n \in T : \A m \in T : ~(<<m, n>> \in OpToRel(<, Nat))
  BY NatLessThanWellFounded, WFMin
<1>2. \A m \in T : ~(m < n)
  BY <1>1 DEF OpToRel
<1>3. n # 0 /\ n - 1 \in Nat /\ n - 1 \in S
  BY <1>2
<1> QED
  BY <1>3

(* A function may be defined by recursion along anything of bounded rank:  *)
(* next[i] is the argument that the value at i depends on, H how.          *)
Recursion(D, V, n, rank, next, H) ==
    /\ n \in Nat /\ rank \in [D -> 0..n] /\ next \in [D -> D] /\ H \in [D \X V -> V]
    /\ \A i \in D : rank[i] # 0 => rank[next[i]] < rank[i]
    /\ \A i \in D : rank[i] = 0 => \A v, w \in V : H[<<i, v>>] = H[<<i, w>>]

(* Such a function exists: it is built up rank by rank.                    *)
LEMMA RecursionExists ==
  ASSUME NEW D, NEW V, NEW n, NEW rank, NEW next, NEW H, NEW v0 \in V,
         Recursion(D, V, n, rank, next, H)
  PROVE  \E f \in [D -> V] : \A i \in D : f[i] = H[<<i, f[next[i]]>>]
<1> USE DEF Recursion
<1> DEFINE Up(k) == \E f \in [D -> V] : \A i \in D : rank[i] <= k => f[i] = H[<<i, f[next[i]]>>]
           S == {k \in Nat : Up(k)}
<1>1. 0 \in S
  <2> DEFINE f == [i \in D |-> H[<<i, v0>>]]
  <2>1. f \in [D -> V]
    OBVIOUS
  <2>2. ASSUME NEW i \in D, rank[i] <= 0 PROVE f[i] = H[<<i, f[next[i]]>>]
    <3>1. rank[i] = 0 /\ f[next[i]] \in V
      BY <2>1, <2>2
    <3> QED
      BY <3>1
  <2> HIDE DEF f
  <2> QED
    BY <2>1, <2>2
<1>2. ASSUME NEW k \in Nat, k \in S PROVE k + 1 \in S
  <2>1. PICK g \in [D -> V] : \A i \in D : rank[i] <= k => g[i] = H[<<i, g[next[i]]>>]
    BY <1>2
  <2> DEFINE f == [i \in D |-> IF rank[i] = k + 1 THEN H[<<i, g[next[i]]>>] ELSE g[i]]
  <2>2. f \in [D -> V]
    OBVIOUS
  <2>3. ASSUME NEW i \in D, rank[i] <= k + 1 PROVE f[i] = H[<<i, f[next[i]]>>]
    <3>1. rank[i] \in Nat /\ rank[next[i]] \in Nat /\ next[i] \in D
      OBVIOUS
    <3>2. CASE rank[i] = 0
      <4>1. f[i] = g[i] /\ g[i] = H[<<i, g[next[i]]>>]
        BY <2>1, <3>2
      <4>2. f[next[i]] \in V /\ g[next[i]] \in V
        BY <2>2
      <4> HIDE DEF f
      <4> QED
        BY <3>2, <4>1, <4>2
    <3>3. CASE rank[i] # 0
      <4>1. rank[next[i]] < rank[i]
        BY <3>3
      <4>2. f[next[i]] = g[next[i]]
        BY <2>3, <3>1, <4>1
      <4>3. f[i] = H[<<i, g[next[i]]>>]
        BY <2>1, <2>3, <3>1
      <4> HIDE DEF f
      <4> QED
        BY <4>2, <4>3
    <3> QED
      BY <3>2, <3>3
  <2> HIDE DEF f
  <2> QED
    BY <2>2, <2>3
<1>3. n \in S
  <2> HIDE DEF S
  <2> QED
    BY <1>1, <1>2, Induction
<1>4. PICK f \in [D -> V] : \A i \in D : rank[i] <= n => f[i] = H[<<i, f[next[i]]>>]
  BY <1>3
<1> QED
  BY <1>4


-----------------------------------------------------------------------------
Symbol == Letter \cup {Marker}

(* A secret stands in a text at a position.                                *)
Stands(w, i, x) ==
    i + Len(x) - 1 <= Len(w) /\ \A k \in 1..Len(x) : w[i + k - 1] = x[k]

(* A secret is a text of at least one letter.                              *)
LEMMA SecretType ==
  ASSUME NEW x \in Secrets
  PROVE  x \in Seq(Letter) /\ Len(x) \in Nat /\ Len(x) >= 1
BY RedactionAssumption, LenProperties, EmptySeq

(* What a piece of a sequence is.                                          *)
LEMMA Piece ==
  ASSUME NEW S, NEW s \in Seq(S), NEW a \in 1..Len(s) + 1, NEW b \in a - 1..Len(s)
  PROVE  /\ SubSeq(s, a, b) \in Seq(S) /\ Len(SubSeq(s, a, b)) = b - a + 1
         /\ \A k \in 1..b - a + 1 : SubSeq(s, a, b)[k] = s[a + k - 1]
<1>1. a \in Int /\ b \in Int /\ Len(s) \in Nat
  BY LenProperties
<1>2. \A k \in a..b : s[k] \in S
  BY <1>1, ElementOfSeq
<1> QED
  BY <1>1, <1>2, SubSeqProperties

(* A secret is a prefix of the rest of a text where it stands in it.       *)
LEMMA PrefixFrom ==
  ASSUME NEW w \in Seq(Letter), NEW i \in 1..Len(w) + 1, NEW x \in Seq(Letter)
  PROVE  IsPrefix(x, SubSeq(w, i, Len(w))) <=> Stands(w, i, x)
<1> DEFINE n == Len(w)
           rest == SubSeq(w, i, n)
           m == Len(x)
<1>1. n \in Nat /\ m \in Nat /\ i \in Nat
  BY LenProperties
<1>2. \A k \in i..n : w[k] \in Letter
  BY <1>1, ElementOfSeq
<1>3. /\ rest \in Seq(Letter) /\ Len(rest) = n - i + 1
      /\ \A k \in 1..n - i + 1 : rest[k] = w[i + k - 1]
  BY <1>1, <1>2, SubSeqProperties
<1>4. SubSeq(x, 1, m) = x
  BY SubSeqFull
<1>5. CASE ~(m <= n - i + 1)
  BY <1>1, <1>3, <1>5 DEF IsPrefix, Stands
<1>6. CASE m <= n - i + 1
  <2>1. \A k \in 1..m : rest[k] \in Letter
    BY <1>1, <1>3, <1>6, ElementOfSeq
  <2> DEFINE start == SubSeq(rest, 1, m)
  <2>2. /\ start \in Seq(Letter) /\ Len(start) = m
        /\ \A k \in 1..m : start[k] = rest[k]
    <3>1. 1 \in 1..Len(rest) + 1 /\ m \in 1 - 1..Len(rest)
      <4> HIDE DEF rest
      <4> QED
        BY <1>1, <1>3, <1>6
    <3> HIDE DEF rest, m
    <3>2. /\ start \in Seq(Letter) /\ Len(start) = m - 1 + 1
          /\ \A k \in 1..m - 1 + 1 : start[k] = rest[1 + k - 1]
      BY <1>3, <3>1, Piece
    <3> HIDE DEF start
    <3>3. m - 1 + 1 = m /\ \A k \in 1..m : 1 + k - 1 = k
      BY <1>1
    <3> QED
      BY <3>2, <3>3
  <2>3. start = x <=> \A k \in 1..m : rest[k] = x[k]
    <3> HIDE DEF start, rest
    <3> QED
      BY <2>2, SeqEqual
  <2>4. (\A k \in 1..m : rest[k] = x[k]) <=> (\A k \in 1..m : w[i + k - 1] = x[k])
    <3> HIDE DEF start, rest
    <3> QED
      BY <1>1, <1>3, <1>6
  <2>5. IsPrefix(x, rest) <=> start = x
    <3> HIDE DEF rest
    <3> QED
      BY <1>3, <1>4, <1>6 DEF IsPrefix
  <2>6. Stands(w, i, x) <=> \A k \in 1..m : w[i + k - 1] = x[k]
    BY <1>1, <1>6 DEF Stands
  <2> HIDE DEF start
  <2> QED
    BY <2>3, <2>4, <2>5, <2>6, Zenon
<1> QED
  BY <1>5, <1>6

(* MatchesAt in terms of where secrets stand.                              *)
LEMMA MatchesAre ==
  ASSUME NEW w \in Seq(Letter), NEW i \in 1..Len(w) + 1
  PROVE  /\ MatchesAt(w, i) = {Len(x) : x \in {y \in Secrets : Stands(w, i, y)}}
         /\ MatchesAt(w, i) \subseteq 1..Len(w) - i + 1
<1>1. \A y \in Secrets : IsPrefix(y, SubSeq(w, i, Len(w))) <=> Stands(w, i, y)
  BY SecretType, PrefixFrom
<1>2. MatchesAt(w, i) = {Len(x) : x \in {y \in Secrets : Stands(w, i, y)}}
  BY <1>1 DEF MatchesAt
<1>3. ASSUME NEW x \in Secrets, Stands(w, i, x) PROVE Len(x) \in 1..Len(w) - i + 1
  BY <1>3, SecretType, LenProperties DEF Stands
<1> QED
  BY <1>2, <1>3

(* A bounded set of numbers has a least and a greatest.                    *)
LEMMA Least ==
  ASSUME NEW S, S \subseteq Nat, S # {}
  PROVE  Min(S) \in S /\ \A m \in S : Min(S) <= m
<1>1. PICK n \in S : \A m \in S : ~(<<m, n>> \in OpToRel(<, Nat))
  BY NatLessThanWellFounded, WFMin
<1>2. \A m \in S : ~(m < n)
  BY <1>1 DEF OpToRel
<1>3. \A m \in S : n <= m
  BY <1>2
<1> QED
  BY <1>3 DEF Min

LEMMA Greatest ==
  ASSUME NEW S, NEW b \in Nat, S \subseteq 0..b, S # {}
  PROVE  Max(S) \in S /\ \A m \in S : m <= Max(S)
<1> DEFINE T == {b - m : m \in S}
<1>1. T \subseteq Nat /\ T # {}
  <2>1. \A m \in S : b - m \in Nat
    OBVIOUS
  <2> QED
    BY <2>1
<1>2. Min(T) \in T /\ \A m \in T : Min(T) <= m
  <2> HIDE DEF T
  <2> QED
    BY <1>1, Least
<1>3. PICK k \in S : Min(T) = b - k
  BY <1>2
<1>4. \A m \in S : b - k <= b - m
  BY <1>2, <1>3
<1>5. \A m \in S : k >= m
  BY <1>4
<1> QED
  BY <1>5 DEF Max

(* No secret is longer than the longest, however many there are.           *)
LEMMA LongestBounds == Longest \in Nat /\ \A x \in Secrets : Len(x) <= Longest
<1>1. PICK n \in Nat : ExistsBijection(1..n, Secrets)
  BY RedactionAssumption, FS_CardinalityType
<1>2. PICK f \in [1..n -> Secrets] : \A x \in Secrets : \E i \in 1..n : f[i] = x
  BY <1>1 DEF ExistsBijection, Bijection, Surjection, Injection
<1> DEFINE S == {k \in Nat : \E b \in Nat : \A i \in 1..n : i <= k => Len(f[i]) <= b}
<1>3. 0 \in S
  OBVIOUS
<1>4. ASSUME NEW k \in Nat, k \in S PROVE k + 1 \in S
  <2>1. PICK b \in Nat : \A i \in 1..n : i <= k => Len(f[i]) <= b
    BY <1>4
  <2>2. CASE k + 1 \in 1..n
    <3>1. Len(f[k + 1]) \in Nat /\ \A i \in 1..n : Len(f[i]) \in Nat
      BY <2>2, SecretType
    <3>2. \A i \in 1..n : i <= k + 1 => Len(f[i]) <= b + Len(f[k + 1])
      <4> SUFFICES ASSUME NEW i \in 1..n, i <= k + 1 PROVE Len(f[i]) <= b + Len(f[k + 1])
        OBVIOUS
      <4>1. CASE i = k + 1
        BY <3>1, <4>1
      <4>2. CASE i # k + 1
        BY <2>1, <3>1, <4>2
      <4> QED
        BY <4>1, <4>2
    <3>3. b + Len(f[k + 1]) \in Nat
      BY <3>1
    <3>4. \E c \in Nat : \A i \in 1..n : i <= k + 1 => Len(f[i]) <= c
      BY <3>2, <3>3, Zenon
    <3> QED
      BY <3>4
  <2>3. CASE k + 1 \notin 1..n
    <3>1. \A i \in 1..n : i <= k + 1 => i <= k
      BY <2>3
    <3>2. \E c \in Nat : \A i \in 1..n : i <= k + 1 => Len(f[i]) <= c
      BY <2>1, <3>1, Zenon
    <3> QED
      BY <3>2
  <2> QED
    BY <2>2, <2>3
<1>5. n \in S
  <2> HIDE DEF S
  <2> QED
    BY <1>3, <1>4, Induction
<1>6. PICK b \in Nat : \A i \in 1..n : Len(f[i]) <= b
  BY <1>5
<1> DEFINE L == {Len(x) : x \in Secrets} \cup {0}
<1>7. L \subseteq 0..b /\ L # {}
  BY <1>2, <1>6, SecretType
<1>8. Max(L) \in L /\ \A m \in L : m <= Max(L)
  <2> HIDE DEF L
  <2> QED
    BY <1>7, Greatest
<1>9. Max(L) = Longest
  BY DEF Longest
<1> QED
  BY <1>7, <1>8, <1>9

-----------------------------------------------------------------------------
(* One step of redact_text at position i, v being the rest's redaction.    *)
RedactStep(w, i, v) ==
    IF i > Len(w) THEN <<>>
    ELSE LET matches == MatchesAt(w, i)
         IN  IF matches = {} THEN <<w[i]>> \o v ELSE <<Marker>> \o v

RedactNext(w, i) ==
    IF i > Len(w) THEN i
    ELSE LET matches == MatchesAt(w, i)
         IN  IF matches = {} THEN i + 1 ELSE i + Max(matches)

(* A match is within the text, and the longest is among the matches.       *)
LEMMA LongestMatch ==
  ASSUME NEW w \in Seq(Letter), NEW i \in 1..Len(w) + 1, MatchesAt(w, i) # {}
  PROVE  /\ Max(MatchesAt(w, i)) \in MatchesAt(w, i)
         /\ \A m \in MatchesAt(w, i) : m <= Max(MatchesAt(w, i))
         /\ Max(MatchesAt(w, i)) \in 1..Len(w) - i + 1
<1>1. Len(w) \in Nat /\ Len(w) - i + 1 \in Nat
  BY LenProperties
<1>2. MatchesAt(w, i) \subseteq 0..Len(w) - i + 1
  BY <1>1, MatchesAre
<1>3. /\ Max(MatchesAt(w, i)) \in MatchesAt(w, i)
      /\ \A m \in MatchesAt(w, i) : m <= Max(MatchesAt(w, i))
  BY <1>1, <1>2, Greatest
<1> QED
  BY <1>3, MatchesAre

(* redact_text goes on behind the position it is at.                       *)
LEMMA RedactNextType ==
  ASSUME NEW w \in Seq(Letter), NEW i \in 1..Len(w) + 1
  PROVE  /\ RedactNext(w, i) \in 1..Len(w) + 1
         /\ i <= Len(w) => RedactNext(w, i) > i
<1>1. Len(w) \in Nat
  BY LenProperties
<1>2. CASE MatchesAt(w, i) = {}
  BY <1>1, <1>2 DEF RedactNext
<1>3. CASE MatchesAt(w, i) # {}
  BY <1>1, <1>3, LongestMatch DEF RedactNext
<1> QED
  BY <1>2, <1>3

(* A step makes symbols of symbols.                                        *)
LEMMA RedactStepType ==
  ASSUME NEW w \in Seq(Letter), NEW i \in 1..Len(w) + 1, NEW v \in Seq(Symbol)
  PROVE  RedactStep(w, i, v) \in Seq(Symbol)
<1>1. CASE i > Len(w)
  BY <1>1, EmptySeq DEF RedactStep
<1>2. CASE i <= Len(w)
  <2>1. w[i] \in Symbol /\ Marker \in Symbol
    BY <1>2, LenProperties, ElementOfSeq DEF Symbol
  <2>2. <<w[i]>> \in Seq(Symbol) /\ <<Marker>> \in Seq(Symbol)
    BY <2>1
  <2>3. <<w[i]>> \o v \in Seq(Symbol) /\ <<Marker>> \o v \in Seq(Symbol)
    BY <2>2, ConcatProperties
  <2> QED
    BY <1>2, <2>3, EmptySeq DEF RedactStep
<1> QED
  BY <1>1, <1>2, LenProperties

(* The recursion of redact_text has a value at each position, and it is    *)
(* one step on the value of the next.                                      *)
LEMMA RedactedUnfolds ==
  ASSUME NEW w \in Seq(Letter)
  PROVE  \A i \in 1..Len(w) + 1 :
            /\ RedactedFrom(w)[i] \in Seq(Symbol)
            /\ RedactedFrom(w)[i] =
                 RedactStep(w, i, RedactedFrom(w)[RedactNext(w, i)])
<1> DEFINE n == Len(w)
           D == 1..n + 1
           V == Seq(Symbol)
           rank == [i \in D |-> n - i + 1]
           next == [i \in D |-> RedactNext(w, i)]
           H == [d \in D \X V |-> RedactStep(w, d[1], d[2])]
           Body(f, i) == RedactStep(w, i, f[RedactNext(w, i)])
           R == RedactedFrom(w)
<1>1. n \in Nat
  BY LenProperties
<1>2. Recursion(D, V, n, rank, next, H) /\ <<>> \in V
  <2>1. rank \in [D -> 0..n]
    BY <1>1
  <2>2. next \in [D -> D]
    BY RedactNextType
  <2>3. H \in [D \X V -> V]
    BY RedactStepType
  <2>4. \A i \in D : rank[i] # 0 => rank[next[i]] < rank[i]
    <3> SUFFICES ASSUME NEW i \in D, rank[i] # 0 PROVE rank[next[i]] < rank[i]
      OBVIOUS
    <3>1. rank[i] = n - i + 1 /\ next[i] = RedactNext(w, i) /\ i <= n
      BY <1>1
    <3>2. RedactNext(w, i) \in D /\ RedactNext(w, i) > i
      BY <3>1, RedactNextType
    <3>3. rank[next[i]] = n - RedactNext(w, i) + 1
      BY <3>1, <3>2
    <3> HIDE DEF rank, next, H
    <3> QED
      BY <1>1, <3>1, <3>2, <3>3
  <2>5. \A i \in D : rank[i] = 0 => i > n
    BY <1>1
  <2>6. \A i \in D : i > n => \A v, x \in V : H[<<i, v>>] = H[<<i, x>>]
    BY DEF RedactStep
  <2>7. <<>> \in V
    BY EmptySeq
  <2> HIDE DEF D, V, rank, next, H, n
  <2> QED
    BY <1>1, <2>1, <2>2, <2>3, <2>4, <2>5, <2>6, <2>7 DEF Recursion
<1>3. PICK g \in [D -> V] : \A i \in D : g[i] = H[<<i, g[next[i]]>>]
  <2> HIDE DEF D, V, rank, next, H, n
  <2> QED
    BY <1>2, RecursionExists
<1>4. \A i \in D : g[i] = Body(g, i)
  BY <1>3, RedactNextType
<1>5. g = [i \in D |-> Body(g, i)]
  <2>1. g = [i \in D |-> g[i]]
    BY <1>3
  <2> HIDE DEF Body, D, V
  <2> QED
    BY <1>4, <2>1
<1>6. R = CHOOSE f : f = [i \in D |-> Body(f, i)]
  <2>1. ASSUME NEW f, NEW i
        PROVE  Body(f, i) = IF i > Len(w) THEN <<>>
                            ELSE LET matches == MatchesAt(w, i)
                                 IN  IF matches = {} THEN <<w[i]>> \o f[i + 1]
                                     ELSE <<Marker>> \o f[i + Max(matches)]
    BY DEF RedactStep, RedactNext
  <2>2. R = CHOOSE f : f = [i \in D |->
                  IF i > Len(w) THEN <<>>
                            ELSE LET matches == MatchesAt(w, i)
                                 IN  IF matches = {} THEN <<w[i]>> \o f[i + 1]
                                     ELSE <<Marker>> \o f[i + Max(matches)]]
    BY DEF RedactedFrom
  <2> HIDE DEF Body, D, R
  <2> QED
    BY <2>1, <2>2, Zenon
<1>7. R = [i \in D |-> Body(R, i)]
  <2> HIDE DEF Body, D, R
  <2> QED
    BY <1>5, <1>6, Zenon
<1>8. \A i \in D : R[i] = Body(R, i)
  <2>1. \A i \in D : [k \in D |-> Body(R, k)][i] = Body(R, i)
    OBVIOUS
  <2> HIDE DEF Body, D, R
  <2> QED
    BY <1>7, <2>1, Zenon
<1>9. \A i \in D : R[i] \in V
  <2> DEFINE S == {k \in Nat : \A i \in D : n - i + 1 <= k => R[i] \in V}
  <2> HIDE DEF R
  <2>1. 0 \in S
    <3>1. \A i \in D : n - i + 1 <= 0 => i > n
      BY <1>1
    <3>2. \A i \in D : i > n => R[i] \in V
      BY <1>8, EmptySeq DEF RedactStep
    <3> QED
      BY <3>1, <3>2
  <2>2. ASSUME NEW k \in Nat, k \in S PROVE k + 1 \in S
    <3> SUFFICES ASSUME NEW i \in D, n - i + 1 <= k + 1 PROVE R[i] \in V
      OBVIOUS
    <3>1. CASE i > n
      BY <1>1, <1>8, <3>1, EmptySeq DEF RedactStep
    <3>2. CASE i <= n
      <4>1. RedactNext(w, i) \in D /\ n - RedactNext(w, i) + 1 <= k
        BY <1>1, <3>2, RedactNextType
      <4>2. R[RedactNext(w, i)] \in V
        BY <2>2, <4>1
      <4> QED
        BY <1>8, <4>2, RedactStepType
    <3> QED
      BY <1>1, <3>1, <3>2
  <2>3. n \in S
    <3> HIDE DEF S
    <3> QED
      BY <1>1, <2>1, <2>2, Induction
  <2> QED
    BY <1>1, <2>3
<1> QED
  BY <1>8, <1>9

-----------------------------------------------------------------------------
(* The steps of _feed_text.                                                *)
LEMMA SymbolPiece ==
  ASSUME NEW w \in Seq(Letter), NEW a \in 1..Len(w) + 1, NEW b \in a - 1..Len(w)
  PROVE  SubSeq(w, a, b) \in Seq(Letter) /\ SubSeq(w, a, b) \in Seq(Symbol)
<1>1. SubSeq(w, a, b) \in Seq(Letter)
  BY Piece
<1> QED
  BY <1>1, SeqMonotonic DEF Symbol

(* The greater of two numbers.                                             *)
LEMMA MaxOfTwo ==
  ASSUME NEW a \in Int, NEW b \in Int
  PROVE  Max({a, b}) = IF a >= b THEN a ELSE b
BY DEF Max

(* Where there are matches from i on.                                      *)
Found(w, i) == {j \in i..Len(w) : MatchesAt(w, j) # {}}

(* The first match from a position on.                                     *)
LEMMA FirstFound ==
  ASSUME NEW w \in Seq(Letter), NEW i \in 1..Len(w) + 1, Found(w, i) # {}
  PROVE  /\ Min(Found(w, i)) \in i..Len(w) /\ MatchesAt(w, Min(Found(w, i))) # {}
         /\ \A p \in i..Min(Found(w, i)) - 1 : MatchesAt(w, p) = {}
<1> DEFINE F == Found(w, i)
           j == Min(F)
<1>1. F \subseteq Nat /\ F # {} /\ Len(w) \in Nat
  BY LenProperties DEF Found
<1>2. j \in F /\ \A m \in F : j <= m
  <2> HIDE DEF F
  <2> QED
    BY <1>1, Least
<1>3. \A p \in i..j - 1 : p \notin F
  <2> HIDE DEF F
  <2>1. j \in Nat
    BY <1>1, <1>2
  <2> HIDE DEF j
  <2> QED
    BY <1>2, <2>1
<1>4. j \in i..Len(w) /\ MatchesAt(w, j) # {}
  BY <1>2 DEF Found
<1>5. \A p \in i..j - 1 : MatchesAt(w, p) = {}
  <2> SUFFICES ASSUME NEW p \in i..j - 1 PROVE MatchesAt(w, p) = {}
    OBVIOUS
  <2>1. p \in i..Len(w)
    <3> HIDE DEF j
    <3> QED
      BY <1>1, <1>4
  <2> QED
    BY <1>3, <2>1 DEF Found
<1> QED
  BY <1>4, <1>5

(* One step of _feed_text at position i, v being what becomes of the rest. *)
SplitAt(w, keep, i) == Max({Len(w) - keep, i - 1})

SplitStep(w, ended, aborted, keep, i, v) ==
    LET n == Len(w)
        j == Min(Found(w, i))
    IN  IF i > n THEN [chunks |-> <<>>, pending |-> <<>>]
        ELSE IF Found(w, i) = {} /\ ended THEN
            [chunks |-> <<IF aborted THEN <<Marker>> ELSE SubSeq(w, i, n)>>, pending |-> <<>>]
        ELSE IF Found(w, i) = {} THEN
            [chunks |-> Chunk(SubSeq(w, i, SplitAt(w, keep, i))),
             pending |-> SubSeq(w, SplitAt(w, keep, i) + 1, n)]
        ELSE IF ended \/ n - j + 1 >= Longest THEN
            [chunks |-> Chunk(SubSeq(w, i, j - 1)) \o <<<<Marker>>>> \o v.chunks,
             pending |-> v.pending]
        ELSE [chunks |-> Chunk(SubSeq(w, i, j - 1)), pending |-> SubSeq(w, j, n)]

SplitNext(w, i) ==
    LET j == Min(Found(w, i))
    IN  IF i > Len(w) \/ Found(w, i) = {} THEN Len(w) + 1 ELSE j + Max(MatchesAt(w, j))

SplitResult == [chunks : Seq(Seq(Symbol)), pending : Seq(Letter)]

(* How a result is put together.                                           *)
LEMMA ResultType ==
  ASSUME NEW c \in Seq(Seq(Symbol)), NEW p \in Seq(Letter)
  PROVE  [chunks |-> c, pending |-> p] \in SplitResult
BY DEF SplitResult

(* Where a text without a match is split: Keep letters before its end.     *)
LEMMA SplitAtType ==
  ASSUME NEW w \in Seq(Letter), NEW i \in 1..Len(w) + 1, NEW keep \in Nat
  PROVE  /\ SplitAt(w, keep, i) \in i - 1..Len(w)
         /\ SplitAt(w, keep, i) = IF Len(w) - keep >= i - 1 THEN Len(w) - keep ELSE i - 1
BY LenProperties, MaxOfTwo DEF SplitAt

(* _feed_text goes on behind the match it has committed.                   *)
LEMMA SplitNextType ==
  ASSUME NEW w \in Seq(Letter), NEW i \in 1..Len(w) + 1
  PROVE  /\ SplitNext(w, i) \in 1..Len(w) + 1
         /\ i <= Len(w) => SplitNext(w, i) > i
<1>1. Len(w) \in Nat
  BY LenProperties
<1>2. CASE i > Len(w) \/ Found(w, i) = {}
  BY <1>1, <1>2 DEF SplitNext
<1>3. CASE ~(i > Len(w) \/ Found(w, i) = {})
  <2> DEFINE j == Min(Found(w, i))
  <2>1. j \in i..Len(w) /\ MatchesAt(w, j) # {}
    BY <1>3, FirstFound
  <2>2. SplitNext(w, i) = j + Max(MatchesAt(w, j))
    BY <1>3 DEF SplitNext
  <2> HIDE DEF j
  <2>3. Max(MatchesAt(w, j)) \in 1..Len(w) - j + 1
    BY <1>1, <2>1, LongestMatch
  <2> QED
    BY <1>1, <2>1, <2>2, <2>3
<1> QED
  BY <1>2, <1>3

(* A chunk is never empty.                                                 *)
LEMMA ChunkType ==
  ASSUME NEW x \in Seq(Symbol) PROVE Chunk(x) \in Seq(Seq(Symbol))
BY EmptySeq DEF Chunk

(* A step makes a result of a result.                                      *)
LEMMA SplitStepType ==
  ASSUME NEW w \in Seq(Letter), NEW ended \in BOOLEAN, NEW aborted \in BOOLEAN, NEW keep \in Nat,
         NEW i \in 1..Len(w) + 1, NEW v \in SplitResult
  PROVE  SplitStep(w, ended, aborted, keep, i, v) \in SplitResult
<1> DEFINE n == Len(w)
           j == Min(Found(w, i))
           k == SplitAt(w, keep, i)
           W == SplitStep(w, ended, aborted, keep, i, v)
<1> SUFFICES W \in SplitResult
  OBVIOUS
<1>1. n \in Nat
  BY LenProperties
<1>2. <<>> \in Seq(Seq(Symbol)) /\ <<>> \in Seq(Letter) /\ <<Marker>> \in Seq(Symbol)
  BY EmptySeq DEF Symbol
<1>3. CASE i > n
  <2>1. W = [chunks |-> <<>>, pending |-> <<>>]
    BY <1>3 DEF SplitStep
  <2> HIDE DEF W
  <2> QED
    BY <1>2, <2>1, ResultType
<1>4. CASE i <= n /\ Found(w, i) = {} /\ ended
  <2> DEFINE x == IF aborted THEN <<Marker>> ELSE SubSeq(w, i, n)
  <2>1. W = [chunks |-> <<x>>, pending |-> <<>>]
    BY <1>1, <1>4 DEF SplitStep
  <2>2. x \in Seq(Symbol)
    BY <1>1, <1>2, <1>4, SymbolPiece
  <2> HIDE DEF W, x
  <2>3. <<x>> \in Seq(Seq(Symbol))
    BY <2>2
  <2> QED
    BY <1>2, <2>1, <2>3, ResultType
<1>5. CASE i <= n /\ Found(w, i) = {} /\ ~ended
  <2>1. W = [chunks |-> Chunk(SubSeq(w, i, k)), pending |-> SubSeq(w, k + 1, n)]
    BY <1>1, <1>5 DEF SplitStep
  <2>2. k \in i - 1..n
    BY SplitAtType
  <2> HIDE DEF W, k
  <2>3. k + 1 \in 1..n + 1 /\ n \in k + 1 - 1..n
    BY <1>1, <2>2
  <2>4. SubSeq(w, i, k) \in Seq(Symbol) /\ SubSeq(w, k + 1, n) \in Seq(Letter)
    BY <2>2, <2>3, SymbolPiece
  <2>5. Chunk(SubSeq(w, i, k)) \in Seq(Seq(Symbol))
    BY <2>4, ChunkType
  <2> QED
    BY <2>1, <2>4, <2>5, ResultType
<1>6. CASE i <= n /\ Found(w, i) # {}
  <2>1. j \in i..n
    BY <1>6, FirstFound
  <2> HIDE DEF j
  <2>2. j - 1 \in i - 1..n /\ j \in 1..n + 1 /\ n \in j - 1..n
    BY <1>1, <2>1
  <2>3. SubSeq(w, i, j - 1) \in Seq(Symbol) /\ SubSeq(w, j, n) \in Seq(Letter)
    BY <2>2, SymbolPiece
  <2>4. Chunk(SubSeq(w, i, j - 1)) \in Seq(Seq(Symbol))
    BY <2>3, ChunkType
  <2>5. v.chunks \in Seq(Seq(Symbol)) /\ v.pending \in Seq(Letter)
    BY DEF SplitResult
  <2>6. <<<<Marker>>>> \in Seq(Seq(Symbol))
    BY <1>2
  <2> DEFINE c == Chunk(SubSeq(w, i, j - 1)) \o <<<<Marker>>>> \o v.chunks
  <2>7. c \in Seq(Seq(Symbol))
    <3>1. Chunk(SubSeq(w, i, j - 1)) \o <<<<Marker>>>> \in Seq(Seq(Symbol))
      BY <2>4, <2>6, ConcatProperties
    <3> QED
      BY <2>5, <3>1, ConcatProperties
  <2>8. \/ W = [chunks |-> c, pending |-> v.pending]
        \/ W = [chunks |-> Chunk(SubSeq(w, i, j - 1)), pending |-> SubSeq(w, j, n)]
    BY <1>1, <1>6 DEF SplitStep, j
  <2> HIDE DEF W, c
  <2> QED
    BY <2>3, <2>4, <2>5, <2>7, <2>8, ResultType
<1> QED
  BY <1>1, <1>3, <1>4, <1>5, <1>6

(* The same for the recursion of _feed_text.                               *)
LEMMA SplitUnfolds ==
  ASSUME NEW w \in Seq(Letter), NEW ended \in BOOLEAN, NEW aborted \in BOOLEAN, NEW keep \in Nat
  PROVE  \A i \in 1..Len(w) + 1 :
            /\ SplitFrom(w, ended, aborted, keep)[i] \in SplitResult
            /\ SplitFrom(w, ended, aborted, keep)[i] =
                 SplitStep(w, ended, aborted, keep, i,
                           SplitFrom(w, ended, aborted, keep)[SplitNext(w, i)])
<1> DEFINE n == Len(w)
           D == 1..n + 1
           V == SplitResult
           rank == [i \in D |-> n - i + 1]
           next == [i \in D |-> SplitNext(w, i)]
           H == [d \in D \X V |-> SplitStep(w, ended, aborted, keep, d[1], d[2])]
           Body(f, i) == SplitStep(w, ended, aborted, keep, i, f[SplitNext(w, i)])
           R == SplitFrom(w, ended, aborted, keep)
           nil == [chunks |-> <<>>, pending |-> <<>>]
<1>1. n \in Nat
  BY LenProperties
<1>0. nil \in V /\ \A i \in D : \A v : i > n => SplitStep(w, ended, aborted, keep, i, v) = nil
  <2>1. nil \in V
    <3>1. <<>> \in Seq(Seq(Symbol)) /\ <<>> \in Seq(Letter)
      BY EmptySeq
    <3> QED
      BY <3>1 DEF SplitResult
  <2> QED
    BY <2>1 DEF SplitStep
<1>2. Recursion(D, V, n, rank, next, H) /\ nil \in V
  <2>1. rank \in [D -> 0..n]
    BY <1>1
  <2>2. next \in [D -> D]
    BY SplitNextType
  <2>3. H \in [D \X V -> V]
    BY SplitStepType
  <2>4. \A i \in D : rank[i] # 0 => rank[next[i]] < rank[i]
    <3> SUFFICES ASSUME NEW i \in D, rank[i] # 0 PROVE rank[next[i]] < rank[i]
      OBVIOUS
    <3>1. rank[i] = n - i + 1 /\ next[i] = SplitNext(w, i) /\ i <= n
      BY <1>1
    <3>2. SplitNext(w, i) \in D /\ SplitNext(w, i) > i
      BY <3>1, SplitNextType
    <3>3. rank[next[i]] = n - SplitNext(w, i) + 1
      BY <3>1, <3>2
    <3> HIDE DEF rank, next, H
    <3> QED
      BY <1>1, <3>1, <3>2, <3>3
  <2>5. \A i \in D : rank[i] = 0 => i > n
    BY <1>1
  <2>6. \A i \in D : i > n => \A v, x \in V : H[<<i, v>>] = H[<<i, x>>]
    BY <1>0
  <2> HIDE DEF D, V, rank, next, H, n
  <2> QED
    BY <1>0, <1>1, <2>1, <2>2, <2>3, <2>4, <2>5, <2>6 DEF Recursion
<1>3. PICK g \in [D -> V] : \A i \in D : g[i] = H[<<i, g[next[i]]>>]
  <2> HIDE DEF D, V, rank, next, H, n, nil
  <2> QED
    BY <1>2, RecursionExists
<1>4. \A i \in D : g[i] = Body(g, i)
  BY <1>3, SplitNextType
<1>5. g = [i \in D |-> Body(g, i)]
  <2>1. g = [i \in D |-> g[i]]
    BY <1>3
  <2> HIDE DEF Body, D, V
  <2> QED
    BY <1>4, <2>1
<1> DEFINE Code(from, i) ==
             LET matches == {j \in i..n : MatchesAt(w, j) # {}}
                 j == Min(matches)
                 split == Max({n - keep, i - 1})
                 after == from[j + Max(MatchesAt(w, j))]
             IN  IF i > n THEN [chunks |-> <<>>, pending |-> <<>>]
                 ELSE IF matches = {} /\ ended THEN
                     [chunks |-> <<IF aborted THEN <<Marker>> ELSE SubSeq(w, i, n)>>,
                      pending |-> <<>>]
                 ELSE IF matches = {} THEN
                     [chunks |-> Chunk(SubSeq(w, i, split)),
                      pending |-> SubSeq(w, split + 1, n)]
                 ELSE IF ended \/ n - j + 1 >= Longest THEN
                     [chunks |-> Chunk(SubSeq(w, i, j - 1)) \o <<<<Marker>>>> \o after.chunks,
                      pending |-> after.pending]
                 ELSE [chunks |-> Chunk(SubSeq(w, i, j - 1)), pending |-> SubSeq(w, j, n)]
<1>6. R = CHOOSE f : f = [i \in D |-> Body(f, i)]
  <2>1. ASSUME NEW f, NEW i PROVE Body(f, i) = Code(f, i)
    <3>1. CASE i > n \/ Found(w, i) = {}
      BY <3>1 DEF SplitStep, SplitAt, Found
    <3>2. CASE ~(i > n \/ Found(w, i) = {})
      <4>1. SplitNext(w, i) = Min(Found(w, i)) + Max(MatchesAt(w, Min(Found(w, i))))
        BY <3>2 DEF SplitNext
      <4> QED
        BY <3>2, <4>1 DEF SplitStep, Found
    <3> QED
      BY <3>1, <3>2
  <2>2. R = CHOOSE f : f = [i \in D |-> Code(f, i)]
    BY DEF SplitFrom
  <2> HIDE DEF Body, D, R, Code
  <2> QED
    BY <2>1, <2>2, Zenon
<1>7. R = [i \in D |-> Body(R, i)]
  <2> HIDE DEF Body, D, R
  <2> QED
    BY <1>5, <1>6, Zenon
<1>8. \A i \in D : R[i] = Body(R, i)
  <2>1. \A i \in D : [k \in D |-> Body(R, k)][i] = Body(R, i)
    OBVIOUS
  <2> HIDE DEF Body, D, R
  <2> QED
    BY <1>7, <2>1, Zenon
<1>9. \A i \in D : R[i] \in V
  <2> DEFINE S == {k \in Nat : \A i \in D : n - i + 1 <= k => R[i] \in V}
  <2> HIDE DEF R
  <2>1. 0 \in S
    <3>1. \A i \in D : n - i + 1 <= 0 => i > n
      BY <1>1
    <3>2. \A i \in D : i > n => R[i] \in V
      BY <1>8, <1>0
    <3> QED
      BY <3>1, <3>2
  <2>2. ASSUME NEW k \in Nat, k \in S PROVE k + 1 \in S
    <3> SUFFICES ASSUME NEW i \in D, n - i + 1 <= k + 1 PROVE R[i] \in V
      OBVIOUS
    <3>1. CASE i > n
      BY <1>8, <1>0, <3>1
    <3>2. CASE i <= n
      <4>1. SplitNext(w, i) \in D /\ n - SplitNext(w, i) + 1 <= k
        BY <1>1, <3>2, SplitNextType
      <4>2. R[SplitNext(w, i)] \in V
        BY <2>2, <4>1
      <4> QED
        BY <1>8, <4>2, SplitStepType
    <3> QED
      BY <1>1, <3>1, <3>2
  <2>3. n \in S
    <3> HIDE DEF S
    <3> QED
      BY <1>1, <2>1, <2>2, Induction
  <2> QED
    BY <1>1, <2>3
<1> QED
  BY <1>8, <1>9

-----------------------------------------------------------------------------
(* The values that FlattenSeq is computed from.                            *)
LEMMA FlattenUnfolds ==
  ASSUME NEW S, NEW q \in Seq(Seq(S)), q # <<>>
  PROVE  /\ Len(q) \in Nat /\ Len(q) >= 1
         /\ \E f \in [1..Len(q) -> Seq(S)] :
               /\ FlattenSeq(q) = f[Len(q)]
               /\ \A i \in 1..Len(q) : f[i] = IF i = 1 THEN q[i] ELSE f[i - 1] \o q[i]
<1> DEFINE n == Len(q)
           D == 1..n
           V == Seq(S)
           rank == [i \in D |-> i - 1]
           next == [i \in D |-> IF i = 1 THEN 1 ELSE i - 1]
           H == [d \in D \X V |-> IF d[1] = 1 THEN q[d[1]] ELSE d[2] \o q[d[1]]]
           Body(f, i) == IF i = 1 THEN q[i] ELSE f[i - 1] \o q[i]
           R == CHOOSE f : f = [i \in D |-> Body(f, i)]
<1>1. n \in Nat /\ n >= 1 /\ \A i \in D : q[i] \in V
  BY LenProperties, EmptySeq, ElementOfSeq
<1>2. Recursion(D, V, n, rank, next, H) /\ <<>> \in V
  <2>1. rank \in [D -> 0..n] /\ next \in [D -> D]
    BY <1>1
  <2>2. H \in [D \X V -> V]
    <3>1. \A i \in D, v \in V : (IF i = 1 THEN q[i] ELSE v \o q[i]) \in V
      BY <1>1, ConcatProperties
    <3> QED
      BY <3>1
  <2>3. \A i \in D : rank[i] # 0 => rank[next[i]] < rank[i]
    BY <1>1
  <2>4. \A i \in D : rank[i] = 0 => \A v, x \in V : H[<<i, v>>] = H[<<i, x>>]
    BY <1>1
  <2>5. <<>> \in V
    BY EmptySeq
  <2> HIDE DEF D, V, rank, next, H, n
  <2> QED
    BY <1>1, <2>1, <2>2, <2>3, <2>4, <2>5 DEF Recursion
<1>3. PICK g \in [D -> V] : \A i \in D : g[i] = H[<<i, g[next[i]]>>]
  <2> HIDE DEF D, V, rank, next, H, n
  <2> QED
    BY <1>2, RecursionExists
<1>4. \A i \in D : g[i] = Body(g, i)
  <2> SUFFICES ASSUME NEW i \in D PROVE g[i] = Body(g, i)
    OBVIOUS
  <2>1. next[i] \in D /\ g[next[i]] \in V /\ g[i] = H[<<i, g[next[i]]>>]
    <3>1. next[i] \in D
      BY <1>1
    <3>2. g[i] = H[<<i, g[next[i]]>>] /\ \A k \in D : g[k] \in V
      <4> HIDE DEF H, next, V, D
      <4> QED
        BY <1>3
    <3> HIDE DEF H, next, V, D
    <3> QED
      BY <3>1, <3>2
  <2>2. g[i] = IF i = 1 THEN q[i] ELSE g[next[i]] \o q[i]
    <3> HIDE DEF next
    <3> QED
      BY <2>1
  <2> QED
    BY <2>2
<1>5. g = [i \in D |-> Body(g, i)]
  <2>1. g = [i \in D |-> g[i]]
    BY <1>3
  <2> HIDE DEF Body, D, V
  <2> QED
    BY <1>4, <2>1
<1>6. R = [i \in D |-> Body(R, i)]
  <2> HIDE DEF Body, D
  <2> QED
    BY <1>5, Zenon
<1>7. \A i \in D : R[i] = Body(R, i)
  <2>1. \A i \in D : [k \in D |-> Body(R, k)][i] = Body(R, i)
    OBVIOUS
  <2> HIDE DEF Body, D, R
  <2> QED
    BY <1>6, <2>1, Zenon
<1>8. \A i \in D : R[i] \in V
  <2> DEFINE T == {k \in Nat : \A i \in D : i <= k => R[i] \in V}
  <2> HIDE DEF R
  <2>1. 0 \in T
    OBVIOUS
  <2>2. ASSUME NEW k \in Nat, k \in T PROVE k + 1 \in T
    <3> SUFFICES ASSUME NEW i \in D, i <= k + 1 PROVE R[i] \in V
      OBVIOUS
    <3>1. CASE i = 1
      BY <1>1, <1>7, <3>1
    <3>2. CASE i # 1
      <4>1. R[i - 1] \in V
        BY <1>1, <2>2, <3>2
      <4>2. R[i - 1] \o q[i] \in V
        BY <1>1, <4>1, ConcatProperties
      <4> QED
        BY <1>7, <3>2, <4>2
    <3> QED
      BY <3>1, <3>2
  <2>3. n \in T
    <3> HIDE DEF T
    <3> QED
      BY <1>1, <2>1, <2>2, Induction
  <2> QED
    BY <1>1, <2>3
<1>9. R \in [D -> V]
  <2> HIDE DEF Body, D, R, V
  <2> QED
    BY <1>6, <1>8
<1>10. FlattenSeq(q) = R[n]
  BY <1>1 DEF FlattenSeq
<1> HIDE DEF R
<1> QED
  BY <1>1, <1>7, <1>9, <1>10

(* Nothing, one sequence, and one that may be left out.                    *)
LEMMA FlattenEmpty == FlattenSeq(<<>>) = <<>>
BY EmptySeq DEF FlattenSeq

(* A concatenation of sequences of symbols is one.                         *)
LEMMA FlattenType ==
  ASSUME NEW S, NEW q \in Seq(Seq(S))
  PROVE  FlattenSeq(q) \in Seq(S)
<1>1. CASE q = <<>>
  BY <1>1, FlattenEmpty, EmptySeq
<1>2. CASE q # <<>>
  BY <1>2, FlattenUnfolds
<1> QED
  BY <1>1, <1>2

(* A sequence at the end of the others.                                    *)
LEMMA FlattenAppend ==
  ASSUME NEW S, NEW q \in Seq(Seq(S)), NEW x \in Seq(S)
  PROVE  FlattenSeq(Append(q, x)) = FlattenSeq(q) \o x
<1> DEFINE r == Append(q, x)
           n == Len(q)
<1>1. /\ r \in Seq(Seq(S)) /\ r # <<>> /\ n \in Nat /\ Len(r) = n + 1 /\ r[n + 1] = x
      /\ \A i \in 1..n : r[i] = q[i]
  BY AppendProperties, LenProperties
<1> HIDE DEF r
<1>2. PICK g \in [1..n + 1 -> Seq(S)] :
          /\ FlattenSeq(r) = g[n + 1]
          /\ \A i \in 1..n + 1 : g[i] = IF i = 1 THEN r[i] ELSE g[i - 1] \o r[i]
  <2> DEFINE m == Len(r)
  <2>1. \E g \in [1..m -> Seq(S)] :
          /\ FlattenSeq(r) = g[m]
          /\ \A i \in 1..m : g[i] = IF i = 1 THEN r[i] ELSE g[i - 1] \o r[i]
    BY <1>1, FlattenUnfolds
  <2>2. m = n + 1
    BY <1>1
  <2> HIDE DEF m, n
  <2> QED
    BY <2>1, <2>2
<1>3. CASE q = <<>>
  <2>1. n = 0
    BY <1>3, EmptySeq
  <2>2. FlattenSeq(r) = x
    BY <1>1, <1>2, <2>1
  <2> QED
    BY <1>3, <2>2, FlattenEmpty, ConcatEmptySeq DEF r
<1>4. CASE q # <<>>
  <2>1. PICK f \in [1..n -> Seq(S)] :
          /\ FlattenSeq(q) = f[n]
          /\ \A i \in 1..n : f[i] = IF i = 1 THEN q[i] ELSE f[i - 1] \o q[i]
    BY <1>4, FlattenUnfolds
  <2> DEFINE T == {k \in Nat : \A i \in 1..n : i <= k => g[i] = f[i]}
  <2>2. 0 \in T
    OBVIOUS
  <2>3. ASSUME NEW k \in Nat, k \in T PROVE k + 1 \in T
    <3> SUFFICES ASSUME NEW i \in 1..n, i <= k + 1 PROVE g[i] = f[i]
      OBVIOUS
    <3>1. i \in 1..n + 1 /\ r[i] = q[i]
      BY <1>1
    <3>2. CASE i = 1
      BY <1>2, <2>1, <3>1, <3>2
    <3>3. CASE i # 1
      <4>1. i - 1 \in 1..n /\ i - 1 <= k
        BY <1>1, <3>3
      <4>2. \A l \in 1..n : l <= k => g[l] = f[l]
        BY <2>3
      <4>3. g[i - 1] = f[i - 1]
        BY <4>1, <4>2
      <4>4. g[i] = g[i - 1] \o r[i]
        BY <1>2, <3>1, <3>3
      <4>5. f[i] = f[i - 1] \o q[i]
        BY <2>1, <3>3
      <4> QED
        BY <3>1, <4>3, <4>4, <4>5, Zenon
    <3> QED
      BY <3>2, <3>3
  <2>4. n \in T
    <3> HIDE DEF T
    <3> QED
      BY <1>1, <2>2, <2>3, Induction
  <2>5. n >= 1
    BY <1>4, <1>1, EmptySeq
  <2>6. g[n] = f[n]
    BY <1>1, <2>4, <2>5
  <2>7. g[n + 1] = g[n] \o x
    <3> DEFINE k == n + 1
    <3>1. k \in 1..n + 1 /\ k # 1 /\ k - 1 = n
      BY <1>1, <2>5
    <3>2. \A i \in 1..n + 1 : i # 1 => g[i] = g[i - 1] \o r[i]
      BY <1>2
    <3>3. g[k] = g[k - 1] \o r[k]
      <4> HIDE DEF k, n
      <4> QED
        BY <3>1, <3>2, Zenon
    <3>4. r[k] = x
      BY <1>1
    <3>5. g[k] = g[n] \o x
      <4> HIDE DEF k
      <4> QED
        BY <3>1, <3>3, <3>4, Zenon
    <3> QED
      BY <3>5
  <2> QED
    BY <1>2, <2>1, <2>6, <2>7 DEF r
<1> QED
  BY <1>3, <1>4

(* What is appended at the end of a concatenation.                         *)
LEMMA ConcatAppend ==
  ASSUME NEW V, NEW p \in Seq(V), NEW s \in Seq(V), NEW x \in V
  PROVE  p \o Append(s, x) = Append(p \o s, x)
<1>1. <<x>> \in Seq(V) /\ p \o s \in Seq(V)
  BY ConcatProperties
<1>2. Append(s, x) = s \o <<x>> /\ Append(p \o s, x) = (p \o s) \o <<x>>
  BY <1>1, AppendIsConcat
<1>3. (p \o s) \o <<x>> = p \o (s \o <<x>>)
  BY <1>1, ConcatAssociative
<1> QED
  BY <1>2, <1>3

(* Two lists of sequences.                                                 *)
LEMMA FlattenConcat ==
  ASSUME NEW S, NEW p \in Seq(Seq(S)), NEW q \in Seq(Seq(S))
  PROVE  FlattenSeq(p \o q) = FlattenSeq(p) \o FlattenSeq(q)
<1> DEFINE V == Seq(S)
           T == {k \in Nat : \A r \in Seq(V) :
                    Len(r) = k => FlattenSeq(p \o r) = FlattenSeq(p) \o FlattenSeq(r)}
<1>1. FlattenSeq(p) \in V /\ \A r \in Seq(V) : FlattenSeq(r) \in V /\ Len(r) \in Nat
  BY FlattenType, LenProperties
<1>2. 0 \in T
  <2> SUFFICES ASSUME NEW r \in Seq(V), Len(r) = 0
               PROVE  FlattenSeq(p \o r) = FlattenSeq(p) \o FlattenSeq(r)
    OBVIOUS
  <2>1. r = <<>>
    BY EmptySeq
  <2>2. p \o r = p /\ FlattenSeq(p) \o <<>> = FlattenSeq(p)
    BY <1>1, <2>1, ConcatEmptySeq
  <2> QED
    BY <2>1, <2>2, FlattenEmpty
<1>3. ASSUME NEW k \in Nat, k \in T PROVE k + 1 \in T
  <2> SUFFICES ASSUME NEW r \in Seq(V), Len(r) = k + 1
               PROVE  FlattenSeq(p \o r) = FlattenSeq(p) \o FlattenSeq(r)
    OBVIOUS
  <2>1. r # <<>>
    BY EmptySeq
  <2>2. PICK s \in Seq(V), x \in V : r = Append(s, x)
    BY <2>1, SequenceEmptyOrAppend
  <2>3. Len(s) = k /\ r = s \o <<x>>
    BY <2>2, LenProperties, AppendProperties, AppendIsConcat
  <2>4. <<x>> \in Seq(V) /\ p \o s \in Seq(V)
    BY ConcatProperties
  <2>5. p \o r = Append(p \o s, x)
    BY <2>2, ConcatAppend
  <2>6. FlattenSeq(p \o r) = FlattenSeq(p \o s) \o x
    BY <2>4, <2>5, FlattenAppend
  <2>7. FlattenSeq(p \o s) = FlattenSeq(p) \o FlattenSeq(s)
    BY <1>3, <2>3
  <2>8. FlattenSeq(r) = FlattenSeq(s) \o x
    BY <2>2, FlattenAppend
  <2>9. (FlattenSeq(p) \o FlattenSeq(s)) \o x = FlattenSeq(p) \o (FlattenSeq(s) \o x)
    <3> DEFINE a == FlattenSeq(p)
               b == FlattenSeq(s)
    <3>1. a \in Seq(S) /\ b \in Seq(S) /\ x \in Seq(S)
      BY <1>1
    <3> HIDE DEF a, b, T, V
    <3>2. (a \o b) \o x = a \o (b \o x)
      BY <3>1, ConcatAssociative
    <3> QED
      BY <3>2 DEF a, b
  <2> QED
    BY <2>6, <2>7, <2>8, <2>9
<1>4. Len(q) \in T
  <2>1. Len(q) \in Nat
    BY LenProperties
  <2> HIDE DEF T
  <2> QED
    BY <1>2, <1>3, <2>1, Induction
<1> QED
  BY <1>4

(* One sequence.                                                           *)
LEMMA FlattenOne ==
  ASSUME NEW S, NEW x \in Seq(S)
  PROVE  FlattenSeq(<<x>>) = x
<1>1. <<>> \in Seq(Seq(S)) /\ Append(<<>>, x) = <<x>>
  BY EmptySeq
<1>2. FlattenSeq(Append(<<>>, x)) = FlattenSeq(<<>>) \o x
  BY <1>1, FlattenAppend
<1> QED
  BY <1>1, <1>2, FlattenEmpty, ConcatEmptySeq

(* A chunk, left out when it would be empty.                               *)
LEMMA FlattenChunk ==
  ASSUME NEW S, NEW x \in Seq(S)
  PROVE  FlattenSeq(Chunk(x)) = x
BY FlattenOne, FlattenEmpty DEF Chunk

(* The first of the sequences.                                             *)
LEMMA FlattenHead ==
  ASSUME NEW S, NEW q \in Seq(Seq(S)), q # <<>>
  PROVE  /\ Head(q) \in Seq(S) /\ Tail(q) \in Seq(Seq(S))
         /\ FlattenSeq(q) = Head(q) \o FlattenSeq(Tail(q))
<1>1. Head(q) \in Seq(S) /\ Tail(q) \in Seq(Seq(S)) /\ <<Head(q)>> \in Seq(Seq(S))
  BY HeadTailProperties
<1>2. q = <<Head(q)>> \o Tail(q)
  <2>1. /\ Len(q) \in Nat /\ Len(q) >= 1 /\ SubSeq(q, 1, Len(q)) = q
        /\ SubSeq(q, 1, Len(q)) = <<q[1]>> \o SubSeq(q, 2, Len(q))
    BY LenProperties, EmptySeq, SubSeqFull, SubSeqRecursiveFirst
  <2>2. Tail(q) = SubSeq(q, 2, Len(q)) /\ Head(q) = q[1]
    BY TailIsSubSeq
  <2> QED
    BY <2>1, <2>2
<1>3. FlattenSeq(<<Head(q)>> \o Tail(q)) = FlattenSeq(<<Head(q)>>) \o FlattenSeq(Tail(q))
  BY <1>1, FlattenConcat
<1> QED
  BY <1>1, <1>2, <1>3, FlattenOne

-----------------------------------------------------------------------------
(* Concatenation, with its type.                                           *)
LEMMA Associates ==
  ASSUME NEW S, NEW a \in Seq(S), NEW b \in Seq(S), NEW c \in Seq(S)
  PROVE  (a \o b) \o c = a \o (b \o c) /\ a \o b \in Seq(S)
BY ConcatAssociative, ConcatProperties

(* t is a part of whole: what follows position q, up to position u.        *)
Part(whole, q, u, t) ==
    whole \in Seq(Letter) /\ q \in 0..Len(whole) /\ u \in q..Len(whole) /\ t = SubSeq(whole, q + 1, u)

(* A part of a text, letter by letter.                                     *)
LEMMA PartType ==
  ASSUME NEW whole, NEW q, NEW u, NEW t, Part(whole, q, u, t)
  PROVE  /\ Len(whole) \in Nat /\ q \in Nat /\ u \in Nat /\ q <= u /\ u <= Len(whole)
         /\ whole \in Seq(Letter) /\ t \in Seq(Letter) /\ Len(t) = u - q
         /\ \A p \in 1..Len(t) : t[p] = whole[q + p]
<1>1. /\ Len(whole) \in Nat /\ q \in Nat /\ u \in Nat /\ q <= u /\ u <= Len(whole)
      /\ whole \in Seq(Letter) /\ q + 1 \in 1..Len(whole) + 1 /\ u \in (q + 1) - 1..Len(whole)
  BY LenProperties DEF Part
<1>2. /\ t \in Seq(Letter) /\ Len(t) = u - (q + 1) + 1
      /\ \A p \in 1..u - (q + 1) + 1 : t[p] = whole[(q + 1) + p - 1]
  BY <1>1, Piece DEF Part
<1>3. u - (q + 1) + 1 = u - q /\ \A p \in 1..u - q : (q + 1) + p - 1 = q + p
  BY <1>1
<1> QED
  BY <1>1, <1>2, <1>3

(* A piece of a text, as an operator that the provers do not look into.    *)
Cut(w, a, b) == SubSeq(w, a, b)

(* A piece of a text is text.                                              *)
LEMMA CutType ==
  ASSUME NEW w \in Seq(Letter), NEW a \in 1..Len(w) + 1, NEW b \in a - 1..Len(w)
  PROVE  Cut(w, a, b) \in Seq(Letter) /\ Cut(w, a, b) \in Seq(Symbol)
BY SymbolPiece DEF Cut

(* A piece of the part is a piece of the whole.                            *)
LEMMA CutOfPart ==
  ASSUME NEW whole, NEW q, NEW u, NEW t, Part(whole, q, u, t),
         NEW a \in 1..Len(t) + 1, NEW b \in a - 1..Len(t)
  PROVE  Cut(t, a, b) = Cut(whole, q + a, q + b)
<1>0. /\ Len(whole) \in Nat /\ q \in Nat /\ u \in Nat /\ q <= u /\ u <= Len(whole)
      /\ whole \in Seq(Letter) /\ t \in Seq(Letter) /\ Len(t) = u - q
      /\ \A p \in 1..Len(t) : t[p] = whole[q + p]
  BY PartType
<1>1. /\ SubSeq(t, a, b) \in Seq(Letter) /\ Len(SubSeq(t, a, b)) = b - a + 1
      /\ \A k \in 1..b - a + 1 : SubSeq(t, a, b)[k] = t[a + k - 1]
  BY <1>0, Piece
<1>2. q + a \in 1..Len(whole) + 1 /\ q + b \in q + a - 1..Len(whole)
  BY <1>0
<1>3. /\ SubSeq(whole, q + a, q + b) \in Seq(Letter)
      /\ Len(SubSeq(whole, q + a, q + b)) = (q + b) - (q + a) + 1
      /\ \A k \in 1..(q + b) - (q + a) + 1 :
            SubSeq(whole, q + a, q + b)[k] = whole[(q + a) + k - 1]
  BY <1>0, <1>2, Piece
<1>4. (q + b) - (q + a) + 1 = b - a + 1
  <2>1. a \in Int /\ b \in Int /\ q \in Int
    BY <1>0
  <2> QED
    BY <2>1
<1>5. ASSUME NEW k \in 1..b - a + 1 PROVE t[a + k - 1] = whole[(q + a) + k - 1]
  <2>1. a + k - 1 \in 1..Len(t) /\ q + (a + k - 1) = (q + a) + k - 1
    <3>1. a \in Nat /\ a >= 1 /\ b \in Int /\ b <= Len(t) /\ Len(t) \in Int /\ q \in Int
      BY <1>0
    <3> QED
      BY <3>1
  <2> QED
    BY <1>0, <2>1
<1> DEFINE x == SubSeq(t, a, b)
           y == SubSeq(whole, q + a, q + b)
<1>6. x \in Seq(Letter) /\ y \in Seq(Letter) /\ Len(x) = Len(y) /\ \A k \in 1..Len(x) : x[k] = y[k]
  BY <1>1, <1>3, <1>4, <1>5
<1> HIDE DEF x, y
<1>7. x = y
  BY <1>6, SeqEqual
<1> QED
  BY <1>7 DEF x, y, Cut

(* A secret stands in the part if it does in the whole and ends there.     *)
LEMMA StandsInPart ==
  ASSUME NEW whole, NEW q, NEW u, NEW t, Part(whole, q, u, t),
         NEW p \in 1..Len(t) + 1, NEW x \in Secrets
  PROVE  /\ q + p \in 1..Len(whole) + 1
         /\ Stands(t, p, x) <=> Stands(whole, q + p, x) /\ q + p + Len(x) - 1 <= u
<1>1. /\ Len(whole) \in Nat /\ q \in Nat /\ u \in Nat /\ q <= u /\ u <= Len(whole)
      /\ Len(t) = u - q /\ \A k \in 1..Len(t) : t[k] = whole[q + k]
  BY PartType
<1>2. Len(x) \in Nat /\ Len(x) >= 1
  BY SecretType
<1>3. q + p + Len(x) - 1 <= u <=> p + Len(x) - 1 <= Len(t)
  BY <1>1, <1>2
<1>4. CASE p + Len(x) - 1 <= Len(t)
  <2>1. ASSUME NEW k \in 1..Len(x) PROVE t[p + k - 1] = whole[q + p + k - 1]
    <3>1. p + k - 1 \in 1..Len(t) /\ q + (p + k - 1) = q + p + k - 1
      BY <1>1, <1>2, <1>4
    <3> QED
      BY <1>1, <3>1
  <2>2. q + p + Len(x) - 1 <= Len(whole)
    BY <1>1, <1>2, <1>4
  <2> QED
    BY <1>1, <1>3, <1>4, <2>1, <2>2 DEF Stands
<1>5. CASE ~(p + Len(x) - 1 <= Len(t))
  BY <1>1, <1>3, <1>5 DEF Stands
<1> QED
  BY <1>4, <1>5

(* No secret stands strictly inside another in a text.                     *)
LEMMA NotInside ==
  ASSUME Unnested, NEW whole, NEW a \in Nat, NEW b \in Nat, NEW x \in Secrets, NEW y \in Secrets,
         Stands(whole, a, x), Stands(whole, b, y), a < b
  PROVE  a + Len(x) <= b + Len(y)
<1> SUFFICES ASSUME b + Len(y) < a + Len(x) PROVE FALSE
  BY SecretType
<1>1. /\ x \in Seq(Letter) /\ Len(x) \in Nat /\ y \in Seq(Letter) /\ Len(y) \in Nat
      /\ Len(y) >= 1
  BY SecretType
<1> DEFINE i == b - a + 1
           e == i + Len(y) - 1
           z == SubSeq(x, i, e)
<1>2. i \in 2..Len(x) /\ e < Len(x) /\ i \in 1..Len(x) + 1 /\ e \in i - 1..Len(x) /\ e - i + 1 = Len(y)
  BY <1>1
<1>3. z # y
  <2> HIDE DEF z
  <2> QED
    BY <1>2 DEF Unnested, z
<1>4. z \in Seq(Letter) /\ Len(z) = Len(y) /\ \A k \in 1..Len(y) : z[k] = x[i + k - 1]
  <2> HIDE DEF e, i
  <2> QED
    BY <1>1, <1>2, Piece
<1>5. ASSUME NEW k \in 1..Len(y) PROVE x[i + k - 1] = y[k]
  <2>1. y[k] = whole[b + k - 1]
    BY DEF Stands
  <2>2. i + k - 1 \in 1..Len(x) /\ a + (i + k - 1) - 1 = b + k - 1
    BY <1>1, <1>2
  <2>3. x[i + k - 1] = whole[a + (i + k - 1) - 1]
    <3> HIDE DEF i
    <3> QED
      BY <2>2 DEF Stands
  <2> QED
    BY <2>1, <2>2, <2>3
<1>6. z = y
  <2> HIDE DEF z, i
  <2> QED
    BY <1>1, <1>4, <1>5, SeqEqual
<1> QED
  BY <1>3, <1>6

(* What is redacted where no secret stands, where one does, at the end.    *)
LEMMA RedactSkip ==
  ASSUME NEW whole \in Seq(Letter), NEW a \in 1..Len(whole) + 1, NEW b \in a - 1..Len(whole),
         \A p \in a..b : MatchesAt(whole, p) = {}
  PROVE  RedactedFrom(whole)[a] = SubSeq(whole, a, b) \o RedactedFrom(whole)[b + 1]
<1> DEFINE n == Len(whole)
           R == RedactedFrom(whole)
           T == {k \in Nat : \A c \in a - 1..b :
                    c - (a - 1) = k => R[a] = SubSeq(whole, a, c) \o R[c + 1]}
<1>1. n \in Nat /\ a \in Nat /\ b \in Int /\ b <= n
  BY LenProperties
<1>2. \A i \in 1..n + 1 : R[i] \in Seq(Symbol) /\ R[i] = RedactStep(whole, i, R[RedactNext(whole, i)])
  BY RedactedUnfolds
<1> HIDE DEF R
<1>3. 0 \in T
  <2> SUFFICES ASSUME NEW c \in a - 1..b, c - (a - 1) = 0 PROVE R[a] = SubSeq(whole, a, c) \o R[c + 1]
    OBVIOUS
  <2>1. c + 1 = a /\ c < a /\ c \in Int
    BY <1>1
  <2>2. SubSeq(whole, a, c) = <<>>
    BY <1>1, <2>1, SubSeqEmpty
  <2>3. R[a] \in Seq(Symbol)
    BY <1>2
  <2>4. <<>> \o R[a] = R[a]
    BY <2>3, ConcatEmptySeq
  <2> QED
    BY <2>1, <2>2, <2>4
<1>4. ASSUME NEW k \in Nat, k \in T PROVE k + 1 \in T
  <2> SUFFICES ASSUME NEW c \in a - 1..b, c - (a - 1) = k + 1
               PROVE  R[a] = SubSeq(whole, a, c) \o R[c + 1]
    <3>1. k + 1 \in Nat
      OBVIOUS
    <3> QED
      BY <3>1, Zenon
  <2>1. /\ c - 1 \in a - 1..b /\ (c - 1) - (a - 1) = k /\ c - 1 + 1 = c /\ c \in 1..n + 1 /\ c <= n
        /\ c + 1 \in 1..n + 1 /\ c \in a..b /\ a \in 1..n /\ c \in a..n /\ c - 1 \in a - 1..n
    BY <1>1
  <2>2. R[a] = SubSeq(whole, a, c - 1) \o R[c - 1 + 1]
    BY <1>4, <2>1
  <2>3. R[c] = <<whole[c]>> \o R[c + 1]
    <3>1. MatchesAt(whole, c) = {}
      BY <2>1
    <3>2. RedactNext(whole, c) = c + 1
      BY <1>1, <2>1, <3>1 DEF RedactNext
    <3>3. R[c] = RedactStep(whole, c, R[c + 1])
      BY <1>2, <2>1, <3>2
    <3>4. ~(c > n)
      BY <1>1, <2>1
    <3> QED
      BY <3>1, <3>3, <3>4 DEF RedactStep
  <2>4. SubSeq(whole, a, c) = SubSeq(whole, a, c - 1) \o <<whole[c]>>
    BY <2>1, SubSeqRecursiveSecond
  <2> DEFINE x == SubSeq(whole, a, c - 1)
             y == <<whole[c]>>
             z == R[c + 1]
  <2>5. x \in Seq(Symbol) /\ y \in Seq(Symbol) /\ z \in Seq(Symbol)
    <3>1. x \in Seq(Symbol)
      BY <2>1, SymbolPiece
    <3>2. whole[c] \in Symbol
      BY <1>1, <2>1, ElementOfSeq DEF Symbol
    <3> QED
      BY <1>2, <2>1, <3>1, <3>2
  <2>6. (x \o y) \o z = x \o (y \o z)
    <3> HIDE DEF x, y, z, T
    <3> QED
      BY <2>5, Associates
  <2> QED
    BY <2>1, <2>2, <2>3, <2>4, <2>6
<1>5. b - (a - 1) \in Nat
  BY <1>1
<1>6. b - (a - 1) \in T
  <2> HIDE DEF T
  <2> QED
    BY <1>3, <1>4, <1>5, Induction
<1>7. b \in a - 1..b
  BY <1>1
<1> QED
  BY <1>6, <1>7 DEF R

(* Where a secret stands, a marker and what is behind the longest.         *)
LEMMA RedactHit ==
  ASSUME NEW whole \in Seq(Letter), NEW a \in 1..Len(whole), MatchesAt(whole, a) # {}
  PROVE  /\ a + Max(MatchesAt(whole, a)) \in 1..Len(whole) + 1
         /\ RedactedFrom(whole)[a] =
              <<Marker>> \o RedactedFrom(whole)[a + Max(MatchesAt(whole, a))]
<1>1. Len(whole) \in Nat /\ a \in 1..Len(whole) + 1
  BY LenProperties
<1>2. RedactNext(whole, a) = a + Max(MatchesAt(whole, a))
  BY <1>1 DEF RedactNext
<1>3. RedactNext(whole, a) \in 1..Len(whole) + 1
  BY <1>1, RedactNextType
<1>4. RedactedFrom(whole)[a] =
        RedactStep(whole, a, RedactedFrom(whole)[a + Max(MatchesAt(whole, a))])
  BY <1>1, <1>2, RedactedUnfolds
<1>5. ~(a > Len(whole))
  BY <1>1
<1> QED
  BY <1>2, <1>3, <1>4, <1>5 DEF RedactStep

(* Nothing is left at the end.                                             *)
LEMMA RedactEnd ==
  ASSUME NEW whole \in Seq(Letter)
  PROVE  RedactedFrom(whole)[Len(whole) + 1] = <<>>
<1>1. Len(whole) \in Nat /\ Len(whole) + 1 \in 1..Len(whole) + 1 /\ Len(whole) + 1 > Len(whole)
  BY LenProperties
<1> QED
  BY <1>1, RedactedUnfolds DEF RedactStep

-----------------------------------------------------------------------------
(* There is no match where no secret stands.                               *)
LEMMA NoMatch ==
  ASSUME NEW w \in Seq(Letter), NEW i \in 1..Len(w) + 1
  PROVE  MatchesAt(w, i) = {} <=> \A x \in Secrets : ~Stands(w, i, x)
<1> DEFINE Y == {y \in Secrets : Stands(w, i, y)}
<1>1. MatchesAt(w, i) = {Len(x) : x \in Y}
  BY MatchesAre
<1>2. {Len(x) : x \in Y} = {} <=> Y = {}
  <2> HIDE DEF Y
  <2> QED
    OBVIOUS
<1> QED
  BY <1>1, <1>2

(* Concatenation, as an operator that the provers do not look into.        *)
Joined(x, y) == x \o y

LEMMA JoinedType ==
  ASSUME NEW x \in Seq(Symbol), NEW y \in Seq(Symbol)
  PROVE  Joined(x, y) \in Seq(Symbol)
BY ConcatProperties DEF Joined

LEMMA JoinedAssociates ==
  ASSUME NEW x \in Seq(Symbol), NEW y \in Seq(Symbol), NEW z \in Seq(Symbol)
  PROVE  Joined(Joined(x, y), z) = Joined(x, Joined(y, z))
BY ConcatAssociative DEF Joined

LEMMA JoinedEmpty ==
  ASSUME NEW x \in Seq(Symbol)
  PROVE  Joined(<<>>, x) = x /\ Joined(x, <<>>) = x
BY ConcatEmptySeq DEF Joined

MarkerText == <<Marker>>

LEMMA MarkerType == MarkerText \in Seq(Symbol)
BY DEF MarkerText, Symbol

(* RedactSkip in these terms.                                              *)
LEMMA CutSkip ==
  ASSUME NEW whole \in Seq(Letter), NEW a \in 1..Len(whole) + 1, NEW b \in a - 1..Len(whole),
         \A p \in a..b : MatchesAt(whole, p) = {}
  PROVE  RedactedFrom(whole)[a] = Joined(Cut(whole, a, b), RedactedFrom(whole)[b + 1])
BY RedactSkip DEF Cut, Joined

(* The rest of the part.                                                   *)
LEMMA PartRest ==
  ASSUME NEW whole, NEW q, NEW u, NEW t, Part(whole, q, u, t), NEW c \in 1..Len(t) + 1
  PROVE  Cut(t, c, Len(t)) = Cut(whole, q + c, u)
<1>1. Len(t) \in Nat /\ q \in Nat /\ u \in Nat /\ Len(t) = u - q
  BY PartType
<1>2. Len(t) \in c - 1..Len(t) /\ q + Len(t) = u
  BY <1>1
<1>3. Cut(t, c, Len(t)) = Cut(whole, q + c, q + Len(t))
  BY <1>1, <1>2, CutOfPart
<1> QED
  BY <1>2, <1>3

(* Nothing is done at the end.                                             *)
LEMMA StepEnd ==
  ASSUME NEW w, NEW ended, NEW aborted, NEW keep, NEW i, NEW v, i > Len(w)
  PROVE  SplitStep(w, ended, aborted, keep, i, v) = [chunks |-> <<>>, pending |-> <<>>]
BY DEF SplitStep, Cut

(* The first match in a text from i on is at j.                            *)
FirstAt(t, i, j) == i \in 1..Len(t) + 1 /\ i <= Len(t) /\ Found(t, i) # {} /\ j = Min(Found(t, i))

(* Where the first match is, and what is behind it.                        *)
LEMMA FirstType ==
  ASSUME NEW t \in Seq(Letter), NEW i, NEW j, FirstAt(t, i, j)
  PROVE  /\ i \in 1..Len(t) + 1 /\ i \in 1..Len(t) /\ ~(i > Len(t))
         /\ Found(t, i) # {} /\ j = Min(Found(t, i))
         /\ j \in i..Len(t) /\ MatchesAt(t, j) # {} /\ j \in 1..Len(t) /\ j \in 1..Len(t) + 1
         /\ j - 1 \in i - 1..Len(t)
         /\ SplitNext(t, i) = j + Max(MatchesAt(t, j))
         /\ SplitNext(t, i) \in 1..Len(t) + 1 /\ SplitNext(t, i) > i
<1>1. Len(t) \in Nat /\ i \in 1..Len(t) + 1 /\ i <= Len(t) /\ Found(t, i) # {} /\ j = Min(Found(t, i))
  BY LenProperties DEF FirstAt
<1>2. j \in i..Len(t) /\ MatchesAt(t, j) # {}
  BY <1>1, FirstFound
<1>3. /\ j \in 1..Len(t) /\ j \in 1..Len(t) + 1 /\ j - 1 \in i - 1..Len(t)
      /\ i \in 1..Len(t) /\ ~(i > Len(t))
  BY <1>1, <1>2
<1>4. SplitNext(t, i) = j + Max(MatchesAt(t, j))
  BY <1>1, <1>3 DEF SplitNext
<1>5. SplitNext(t, i) \in 1..Len(t) + 1 /\ SplitNext(t, i) > i
  BY <1>1, SplitNextType
<1> QED
  BY <1>1, <1>2, <1>3, <1>4, <1>5

(* What stands at a position of the whole ends in the part.                *)
EndsWithin(whole, p, u) == \A x \in Secrets : Stands(whole, p, x) => p + Len(x) - 1 <= u

(* Before the first match in a part none begins in the whole either.       *)
LEMMA BeforeFirst ==
  ASSUME Unnested, NEW whole, NEW q, NEW u, NEW t, Part(whole, q, u, t),
         NEW i, NEW j, FirstAt(t, i, j)
  PROVE  RedactedFrom(whole)[q + i] = Joined(Cut(t, i, j - 1), RedactedFrom(whole)[q + j])
<1>0. i \in 1..Len(t) + 1 /\ i <= Len(t) /\ Found(t, i) # {} /\ j = Min(Found(t, i))
  BY DEF FirstAt
<1>1. /\ Len(whole) \in Nat /\ q \in Nat /\ u \in Nat /\ q <= u /\ u <= Len(whole)
      /\ whole \in Seq(Letter) /\ t \in Seq(Letter) /\ Len(t) = u - q
  BY PartType
<1>2. j \in i..Len(t) /\ MatchesAt(t, j) # {} /\ \A p \in i..j - 1 : MatchesAt(t, p) = {}
  BY <1>0, <1>1, FirstFound
<1>3. /\ j \in Nat /\ j >= 1 /\ j >= i /\ j <= Len(t) /\ Len(t) \in Nat /\ i \in Nat /\ i >= 1
      /\ j \in 1..Len(t) + 1 /\ j - 1 \in i - 1..Len(t) /\ i \in 1..Len(t) + 1
  BY <1>0, <1>1, <1>2
<1>4. PICK y \in Secrets : Stands(t, j, y)
  BY <1>1, <1>2, <1>3, MatchesAre
<1>5. ASSUME NEW p \in i..j - 1 PROVE MatchesAt(whole, q + p) = {}
  <2>1. p \in 1..Len(t) + 1 /\ p \in Nat /\ p < j
    BY <1>3
  <2>2. ASSUME NEW x \in Secrets PROVE ~Stands(whole, q + p, x)
    <3> SUFFICES ASSUME Stands(whole, q + p, x) PROVE FALSE
      OBVIOUS
    <3>1. ~Stands(t, p, x)
      BY <1>1, <1>2, <2>1, NoMatch
    <3>2. ~(q + p + Len(x) - 1 <= u)
      BY <2>1, <3>1, StandsInPart
    <3>3. Stands(whole, q + j, y) /\ q + j + Len(y) - 1 <= u
      BY <1>3, <1>4, StandsInPart
    <3>4. q + p \in Nat /\ q + j \in Nat /\ q + p < q + j
      BY <1>1, <1>3, <2>1
    <3>5. q + p + Len(x) <= q + j + Len(y)
      BY <3>3, <3>4, NotInside
    <3>6. Len(x) \in Nat /\ Len(y) \in Nat
      BY SecretType
    <3>7. q \in Int /\ p \in Int /\ j \in Int /\ u \in Int
      BY <1>1, <1>3, <2>1
    <3>8. q + j + Len(y) - 1 <= u
      BY <3>3
    <3> QED
      BY <3>2, <3>5, <3>6, <3>7, <3>8
  <2>3. q + p \in 1..Len(whole) + 1
    BY <1>1, <1>3, <2>1
  <2> QED
    BY <1>1, <2>2, <2>3, NoMatch
<1> DEFINE a == q + i
           b == q + (j - 1)
<1>6. a \in 1..Len(whole) + 1 /\ b \in a - 1..Len(whole) /\ b + 1 = q + j
  <2>1. q \in Nat /\ i \in Nat /\ j \in Nat /\ i >= 1 /\ j >= i /\ Len(whole) \in Nat
    BY <1>1, <1>3
  <2>2. q + j <= Len(whole)
    BY <1>1, <1>3
  <2> QED
    BY <2>1, <2>2
<1>7. \A p \in a..b : MatchesAt(whole, p) = {}
  <2> SUFFICES ASSUME NEW p \in a..b PROVE MatchesAt(whole, p) = {}
    OBVIOUS
  <2>1. p - q \in i..j - 1 /\ q + (p - q) = p
    <3>1. q \in Int /\ i \in Int /\ j \in Int
      BY <1>1, <1>3
    <3> QED
      BY <3>1
  <2> QED
    BY <1>5, <2>1
<1>8. Cut(t, i, j - 1) = Cut(whole, a, b)
  BY <1>3, CutOfPart
<1> HIDE DEF a, b
<1>9. RedactedFrom(whole)[a] = Joined(Cut(whole, a, b), RedactedFrom(whole)[b + 1])
  BY <1>1, <1>6, <1>7, CutSkip
<1> QED
  BY <1>6, <1>8, <1>9 DEF a

(* If every secret that stands at j in the whole ends in the part, the     *)
(* longest is the same in both.                                            *)
LEMMA SameHit ==
  ASSUME NEW whole, NEW q, NEW u, NEW t, Part(whole, q, u, t),
         NEW i, NEW j, FirstAt(t, i, j), EndsWithin(whole, q + j, u)
  PROVE  RedactedFrom(whole)[q + j] = Joined(MarkerText, RedactedFrom(whole)[q + SplitNext(t, i)])
<1>1. /\ Len(whole) \in Nat /\ q \in Nat /\ u \in Nat /\ q <= u /\ u <= Len(whole)
      /\ whole \in Seq(Letter) /\ t \in Seq(Letter) /\ Len(t) = u - q
  BY PartType
<1>0. j \in 1..Len(t) /\ MatchesAt(t, j) # {} /\ SplitNext(t, i) = j + Max(MatchesAt(t, j))
  BY <1>1, FirstType
<1>2. q + j \in 1..Len(whole) /\ q + j \in 1..Len(whole) + 1 /\ j \in 1..Len(t) + 1 /\ Len(t) \in Nat
  BY <1>0, <1>1
<1>3. \A x \in Secrets : Stands(whole, q + j, x) <=> Stands(t, j, x)
  BY <1>2, StandsInPart DEF EndsWithin
<1>4. MatchesAt(whole, q + j) = MatchesAt(t, j)
  BY <1>1, <1>2, <1>3, MatchesAre
<1>5. Max(MatchesAt(t, j)) \in 1..Len(t) - j + 1
  BY <1>0, <1>1, <1>2, LongestMatch
<1>6. RedactedFrom(whole)[q + j] = <<Marker>> \o RedactedFrom(whole)[q + j + Max(MatchesAt(t, j))]
  BY <1>0, <1>1, <1>2, <1>4, RedactHit
<1> DEFINE k == Max(MatchesAt(t, j))
<1>7. q + j + k = q + (j + k) /\ j + k \in 1..Len(t) + 1
  <2> HIDE DEF k
  <2>1. k \in Int /\ k >= 1 /\ k <= Len(t) - j + 1 /\ j \in Int /\ j >= 1
    BY <1>0, <1>2, <1>5 DEF k
  <2> QED
    BY <1>1, <1>2, <2>1
<1> QED
  BY <1>0, <1>6, <1>7 DEF MarkerText, Joined

(* The chunks of a committed match.                                        *)
LEMMA FlattenCommitted ==
  ASSUME NEW x \in Seq(Symbol), NEW c \in Seq(Seq(Symbol))
  PROVE  FlattenSeq(Chunk(x) \o <<<<Marker>>>> \o c) = Joined(x, Joined(MarkerText, FlattenSeq(c)))
<1> DEFINE m == <<<<Marker>>>>
           k == Chunk(x)
           f == FlattenSeq(c)
           o == <<Marker>>
<1>1. o \in Seq(Symbol) /\ m \in Seq(Seq(Symbol)) /\ k \in Seq(Seq(Symbol)) /\ f \in Seq(Symbol)
  BY ChunkType, FlattenType DEF Symbol
<1>2. FlattenSeq(m) = o /\ FlattenSeq(k) = x
  BY <1>1, FlattenOne, FlattenChunk
<1> HIDE DEF m, k, f, o
<1>3. k \o m \in Seq(Seq(Symbol))
  BY <1>1, Associates
<1>4. FlattenSeq(k \o m \o c) = FlattenSeq(k \o m) \o f
  BY <1>1, <1>3, FlattenConcat DEF f
<1>5. FlattenSeq(k \o m) = x \o o
  BY <1>1, <1>2, FlattenConcat
<1>6. (x \o o) \o f = x \o (o \o f)
  <2>1. x \in Seq(Symbol) /\ o \in Seq(Symbol) /\ f \in Seq(Symbol)
    BY <1>1
  <2> QED
    BY <2>1, ConcatAssociative
<1> QED
  BY <1>4, <1>5, <1>6 DEF m, k, f, o, MarkerText, Joined

(* Redaction makes symbols.                                                *)
LEMMA SymbolFacts ==
  ASSUME NEW whole \in Seq(Letter), NEW i \in 1..Len(whole) + 1
  PROVE  RedactedFrom(whole)[i] \in Seq(Symbol)
BY RedactedUnfolds

Keep == Max({0, Longest - 1})

(* What is held back: one letter less than the longest secret has.         *)
LEMMA KeepType == Keep \in Nat /\ Keep = IF Longest = 0 THEN 0 ELSE Longest - 1
BY LongestBounds, MaxOfTwo DEF Keep


(* What is split off w from i on, and what is kept back.                   *)
SplitOf(w, ended, aborted, i) == SplitFrom(w, ended, aborted, Keep)[i]
Shown(w, ended, aborted, i) == FlattenSeq(SplitOf(w, ended, aborted, i).chunks)
Kept(w, ended, aborted, i) == SplitOf(w, ended, aborted, i).pending

(* Each position has its result, one step on that of the next.             *)
LEMMA SplitType ==
  ASSUME NEW w \in Seq(Letter), NEW ended \in BOOLEAN, NEW aborted \in BOOLEAN,
         NEW i \in 1..Len(w) + 1
  PROVE  /\ SplitOf(w, ended, aborted, i) \in SplitResult
         /\ SplitOf(w, ended, aborted, i).chunks \in Seq(Seq(Symbol))
         /\ Shown(w, ended, aborted, i) \in Seq(Symbol)
         /\ SplitOf(w, ended, aborted, i) =
              SplitStep(w, ended, aborted, Keep, i, SplitOf(w, ended, aborted, SplitNext(w, i)))
<1>1. /\ SplitOf(w, ended, aborted, i) \in SplitResult
      /\ SplitOf(w, ended, aborted, i) =
              SplitStep(w, ended, aborted, Keep, i, SplitOf(w, ended, aborted, SplitNext(w, i)))
  BY KeepType, SplitUnfolds DEF SplitOf
<1>2. SplitOf(w, ended, aborted, i).chunks \in Seq(Seq(Symbol))
  BY <1>1 DEF SplitResult
<1>3. Shown(w, ended, aborted, i) \in Seq(Symbol)
  BY <1>2, FlattenType DEF Shown
<1> QED
  BY <1>1, <1>2, <1>3

(* At the end of the text nothing is shown and nothing kept.               *)
LEMMA SplitEnd ==
  ASSUME NEW w \in Seq(Letter), NEW ended \in BOOLEAN, NEW aborted \in BOOLEAN,
         NEW i \in 1..Len(w) + 1, i > Len(w)
  PROVE  Shown(w, ended, aborted, i) = <<>> /\ Kept(w, ended, aborted, i) = <<>>
<1>1. SplitOf(w, ended, aborted, i) = [chunks |-> <<>>, pending |-> <<>>]
  BY SplitType, StepEnd
<1> QED
  BY <1>1, FlattenEmpty DEF Shown, Kept

(* Without a match: all but the last letters, all at the end of the        *)
(* stream, or one marker for all of it after a failed read.                *)
LEMMA SplitNone ==
  ASSUME NEW w \in Seq(Letter), NEW i \in 1..Len(w) + 1, i <= Len(w), Found(w, i) = {}
  PROVE  /\ Shown(w, FALSE, FALSE, i) = Cut(w, i, SplitAt(w, Keep, i))
         /\ Kept(w, FALSE, FALSE, i) = Cut(w, SplitAt(w, Keep, i) + 1, Len(w))
         /\ Shown(w, TRUE, FALSE, i) = Cut(w, i, Len(w)) /\ Kept(w, TRUE, FALSE, i) = <<>>
         /\ Shown(w, TRUE, TRUE, i) = MarkerText /\ Kept(w, TRUE, TRUE, i) = <<>>
<1>0. ~(i > Len(w)) /\ Len(w) \in Nat /\ Len(w) \in i - 1..Len(w)
  BY LenProperties
<1> DEFINE k == SplitAt(w, Keep, i)
<1>1. k \in i - 1..Len(w)
  BY <1>0, KeepType, SplitAtType
<1>2. Cut(w, i, k) \in Seq(Symbol) /\ Cut(w, i, Len(w)) \in Seq(Symbol) /\ MarkerText \in Seq(Symbol)
  BY <1>0, <1>1, CutType, MarkerType
<1>3. /\ SplitOf(w, FALSE, FALSE, i).chunks = Chunk(Cut(w, i, k))
      /\ SplitOf(w, FALSE, FALSE, i).pending = Cut(w, k + 1, Len(w))
  <2> DEFINE g == SplitOf(w, FALSE, FALSE, i)
             v == SplitOf(w, FALSE, FALSE, SplitNext(w, i))
  <2>1. g = SplitStep(w, FALSE, FALSE, Keep, i, v)
    BY SplitType
  <2> HIDE DEF g, v
  <2>2. g = [chunks |-> Chunk(Cut(w, i, k)), pending |-> Cut(w, k + 1, Len(w))]
    BY <1>0, <2>1 DEF SplitStep, Cut, MarkerText
  <2>3. g.chunks = Chunk(Cut(w, i, k)) /\ g.pending = Cut(w, k + 1, Len(w))
    BY <2>2
  <2> QED
    BY <2>3 DEF g
<1>4. /\ SplitOf(w, TRUE, FALSE, i).chunks = <<Cut(w, i, Len(w))>>
      /\ SplitOf(w, TRUE, FALSE, i).pending = <<>>
  <2> DEFINE g == SplitOf(w, TRUE, FALSE, i)
             v == SplitOf(w, TRUE, FALSE, SplitNext(w, i))
  <2>1. g = SplitStep(w, TRUE, FALSE, Keep, i, v)
    BY SplitType
  <2> HIDE DEF g, v
  <2>2. g = [chunks |-> <<Cut(w, i, Len(w))>>, pending |-> <<>>]
    BY <1>0, <2>1 DEF SplitStep, Cut, MarkerText
  <2>3. g.chunks = <<Cut(w, i, Len(w))>> /\ g.pending = <<>>
    BY <2>2
  <2> QED
    BY <2>3 DEF g
<1>5. /\ SplitOf(w, TRUE, TRUE, i).chunks = <<MarkerText>>
      /\ SplitOf(w, TRUE, TRUE, i).pending = <<>>
  <2> DEFINE g == SplitOf(w, TRUE, TRUE, i)
             v == SplitOf(w, TRUE, TRUE, SplitNext(w, i))
  <2>1. g = SplitStep(w, TRUE, TRUE, Keep, i, v)
    BY SplitType
  <2> HIDE DEF g, v
  <2>2. g = [chunks |-> <<MarkerText>>, pending |-> <<>>]
    BY <1>0, <2>1 DEF SplitStep, Cut, MarkerText
  <2>3. g.chunks = <<MarkerText>> /\ g.pending = <<>>
    BY <2>2
  <2> QED
    BY <2>3 DEF g
<1> HIDE DEF k
<1>6. /\ FlattenSeq(Chunk(Cut(w, i, k))) = Cut(w, i, k)
      /\ FlattenSeq(<<Cut(w, i, Len(w))>>) = Cut(w, i, Len(w))
      /\ FlattenSeq(<<MarkerText>>) = MarkerText
  BY <1>2, FlattenChunk, FlattenOne
<1>7. Shown(w, FALSE, FALSE, i) = Cut(w, i, k) /\ Kept(w, FALSE, FALSE, i) = Cut(w, k + 1, Len(w))
  BY <1>3, <1>6 DEF Shown, Kept
<1>8. Shown(w, TRUE, FALSE, i) = Cut(w, i, Len(w)) /\ Kept(w, TRUE, FALSE, i) = <<>>
  BY <1>4, <1>6 DEF Shown, Kept
<1>9. Shown(w, TRUE, TRUE, i) = MarkerText /\ Kept(w, TRUE, TRUE, i) = <<>>
  BY <1>5, <1>6 DEF Shown, Kept
<1> QED
  BY <1>7, <1>8, <1>9 DEF k

(* A match is committed, and the rest is split.                            *)
LEMMA SplitHit ==
  ASSUME NEW w \in Seq(Letter), NEW ended \in BOOLEAN, NEW aborted \in BOOLEAN,
         NEW i, NEW j, FirstAt(w, i, j), ended \/ Len(w) - j + 1 >= Longest
  PROVE  /\ Shown(w, ended, aborted, i) =
              Joined(Cut(w, i, j - 1), Joined(MarkerText, Shown(w, ended, aborted, SplitNext(w, i))))
         /\ Kept(w, ended, aborted, i) = Kept(w, ended, aborted, SplitNext(w, i))
<1> DEFINE v == SplitOf(w, ended, aborted, SplitNext(w, i))
           x == Cut(w, i, j - 1)
<1>1. /\ i \in 1..Len(w) + 1 /\ ~(i > Len(w)) /\ Found(w, i) # {} /\ j = Min(Found(w, i))
      /\ j - 1 \in i - 1..Len(w) /\ SplitNext(w, i) \in 1..Len(w) + 1
  BY FirstType
<1>2. SplitOf(w, ended, aborted, i) = SplitStep(w, ended, aborted, Keep, i, v)
  BY <1>1, SplitType
<1>4. x \in Seq(Symbol) /\ v.chunks \in Seq(Seq(Symbol))
  BY <1>1, CutType, SplitType
<1> DEFINE c == v.chunks
<1>5. FlattenSeq(Chunk(x) \o <<<<Marker>>>> \o c) = Joined(x, Joined(MarkerText, FlattenSeq(c)))
  <2> HIDE DEF c, x
  <2> QED
    BY <1>4, FlattenCommitted DEF c
<1> HIDE DEF x
<1>6. /\ SplitOf(w, ended, aborted, i).chunks = Chunk(x) \o <<<<Marker>>>> \o c
      /\ SplitOf(w, ended, aborted, i).pending = v.pending
  <2> DEFINE g == SplitOf(w, ended, aborted, i)
  <2>1. g = SplitStep(w, ended, aborted, Keep, i, v)
    BY <1>2
  <2> HIDE DEF g, v
  <2>2. g = [chunks |-> Chunk(x) \o <<<<Marker>>>> \o v.chunks, pending |-> v.pending]
    BY <1>1, <2>1 DEF SplitStep, Cut, x
  <2>3. g.chunks = Chunk(x) \o <<<<Marker>>>> \o v.chunks /\ g.pending = v.pending
    BY <2>2
  <2> QED
    BY <2>3 DEF g
<1> QED
  BY <1>5, <1>6 DEF Shown, Kept, x

(* A match that a longer one might replace is kept.                        *)
LEMMA SplitHold ==
  ASSUME NEW w \in Seq(Letter), NEW i, NEW j, FirstAt(w, i, j), ~(Len(w) - j + 1 >= Longest)
  PROVE  /\ Shown(w, FALSE, FALSE, i) = Cut(w, i, j - 1)
         /\ Kept(w, FALSE, FALSE, i) = Cut(w, j, Len(w))
<1> DEFINE v == SplitOf(w, FALSE, FALSE, SplitNext(w, i))
           x == Cut(w, i, j - 1)
<1>1. /\ i \in 1..Len(w) + 1 /\ ~(i > Len(w)) /\ Found(w, i) # {} /\ j = Min(Found(w, i))
      /\ j - 1 \in i - 1..Len(w)
  BY FirstType
<1>2. SplitOf(w, FALSE, FALSE, i) = SplitStep(w, FALSE, FALSE, Keep, i, v)
  BY <1>1, SplitType
<1>3. /\ SplitOf(w, FALSE, FALSE, i).chunks = Chunk(x)
      /\ SplitOf(w, FALSE, FALSE, i).pending = Cut(w, j, Len(w))
  <2> DEFINE g == SplitOf(w, FALSE, FALSE, i)
  <2>1. g = SplitStep(w, FALSE, FALSE, Keep, i, v)
    BY <1>2
  <2> HIDE DEF g, v
  <2>2. g = [chunks |-> Chunk(x), pending |-> Cut(w, j, Len(w))]
    BY <1>1, <2>1 DEF SplitStep, Cut, x
  <2>3. g.chunks = Chunk(x) /\ g.pending = Cut(w, j, Len(w))
    BY <2>2
  <2> QED
    BY <2>3 DEF g
<1>4. FlattenSeq(Chunk(x)) = x
  BY <1>1, CutType, FlattenChunk
<1> HIDE DEF v, x
<1> QED
  BY <1>3, <1>4 DEF Shown, Kept, x

-----------------------------------------------------------------------------
(* Three pieces and what follows.                                          *)
LEMMA Regroup ==
  ASSUME NEW x \in Seq(Symbol), NEW o \in Seq(Symbol), NEW f \in Seq(Symbol), NEW z \in Seq(Symbol)
  PROVE  Joined(Joined(x, Joined(o, f)), z) = Joined(x, Joined(o, Joined(f, z)))
BY JoinedType, JoinedAssociates

(* The redaction of the whole where a match is committed in a part.        *)
LEMMA HitRedacts ==
  ASSUME Unnested, NEW whole, NEW q, NEW u, NEW t, Part(whole, q, u, t),
         NEW i, NEW j, FirstAt(t, i, j), EndsWithin(whole, q + j, u)
  PROVE  RedactedFrom(whole)[q + i] =
              Joined(Cut(t, i, j - 1), Joined(MarkerText, RedactedFrom(whole)[q + SplitNext(t, i)]))
BY BeforeFirst, SameHit

(* Without a match in a part that ends keep letters before it does none    *)
(* begins there in the whole.                                              *)
LEMMA NoneRedacts ==
  ASSUME NEW whole, NEW q, NEW u, NEW t, Part(whole, q, u, t),
         NEW i \in 1..Len(t) + 1, Found(t, i) = {}, NEW k \in i - 1..Len(t),
         \A p \in i..k : EndsWithin(whole, q + p, u)
  PROVE  RedactedFrom(whole)[q + i] = Joined(Cut(t, i, k), RedactedFrom(whole)[q + (k + 1)])
<1>1. /\ Len(whole) \in Nat /\ q \in Nat /\ u \in Nat /\ q <= u /\ u <= Len(whole)
      /\ whole \in Seq(Letter) /\ t \in Seq(Letter) /\ Len(t) = u - q /\ Len(t) \in Nat
  BY PartType
<1>2. ASSUME NEW p \in i..k PROVE MatchesAt(whole, q + p) = {}
  <2>1. p \in 1..Len(t) /\ p \in i..Len(t) /\ p \in 1..Len(t) + 1
    BY <1>1
  <2>2. MatchesAt(t, p) = {}
    BY <2>1 DEF Found
  <2>3. ASSUME NEW x \in Secrets, Stands(whole, q + p, x) PROVE FALSE
    <3>1. ~Stands(t, p, x)
      BY <1>1, <2>1, <2>2, NoMatch
    <3> QED
      BY <2>1, <2>3, <3>1, StandsInPart DEF EndsWithin
  <2>4. q + p \in 1..Len(whole) + 1
    BY <1>1, <2>1
  <2> QED
    BY <1>1, <2>3, <2>4, NoMatch
<1> DEFINE a == q + i
           b == q + k
<1>3. a \in 1..Len(whole) + 1 /\ b \in a - 1..Len(whole) /\ b + 1 = q + (k + 1)
  <2>1. i \in Nat /\ i >= 1 /\ k \in Int /\ k >= i - 1 /\ q \in Nat /\ Len(whole) \in Nat
    BY <1>1
  <2>2. q + k <= Len(whole)
    BY <1>1, <2>1
  <2> QED
    BY <2>1, <2>2
<1>4. \A p \in a..b : MatchesAt(whole, p) = {}
  <2> SUFFICES ASSUME NEW p \in a..b PROVE MatchesAt(whole, p) = {}
    OBVIOUS
  <2>1. p - q \in i..k /\ q + (p - q) = p
    <3>1. i \in Int /\ k \in Int /\ q \in Int
      BY <1>1
    <3> QED
      BY <3>1
  <2> QED
    BY <1>2, <2>1
<1>5. Cut(t, i, k) = Cut(whole, a, b)
  BY CutOfPart
<1> HIDE DEF a, b
<1>6. RedactedFrom(whole)[a] = Joined(Cut(whole, a, b), RedactedFrom(whole)[b + 1])
  BY <1>1, <1>3, <1>4, CutSkip
<1> QED
  BY <1>3, <1>5, <1>6 DEF a

(* What is shown of a part from i on continues into what redaction makes   *)
(* of the whole from c on, and the part from c on is kept.                 *)
Continues(whole, q, u, t, i, c) ==
    /\ c \in 1..Len(t) + 1
    /\ Kept(t, FALSE, FALSE, i) = Cut(whole, q + c, u)
    /\ Joined(Shown(t, FALSE, FALSE, i), RedactedFrom(whole)[q + c]) = RedactedFrom(whole)[q + i]

(* The cases of the induction below: at the end of the part, ...           *)
LEMMA OpenEnd ==
  ASSUME NEW whole, NEW q, NEW u, NEW t, Part(whole, q, u, t), NEW i \in 1..Len(t) + 1, i > Len(t)
  PROVE  Continues(whole, q, u, t, i, i)
<1>1. /\ Len(whole) \in Nat /\ q \in Nat /\ u \in Nat /\ q <= u /\ u <= Len(whole)
      /\ whole \in Seq(Letter) /\ t \in Seq(Letter) /\ Len(t) = u - q /\ Len(t) \in Nat
  BY PartType
<1>2. q + i \in 1..Len(whole) + 1 /\ q + i = u + 1
  BY <1>1
<1>3. Shown(t, FALSE, FALSE, i) = <<>> /\ Kept(t, FALSE, FALSE, i) = <<>>
  BY <1>1, SplitEnd
<1>4. RedactedFrom(whole)[q + i] \in Seq(Symbol)
  BY <1>1, <1>2, SymbolFacts
<1>5. Cut(whole, q + i, u) = <<>>
  BY <1>1, <1>2, SubSeqEmpty DEF Cut
<1> QED
  BY <1>3, <1>4, <1>5, JoinedEmpty DEF Continues

(* ... without a match, ...                                                *)
LEMMA OpenNone ==
  ASSUME NEW whole, NEW q, NEW u, NEW t, Part(whole, q, u, t),
         NEW i \in 1..Len(t) + 1, i <= Len(t), Found(t, i) = {}
  PROVE  \E c \in 1..Len(t) + 1 : Continues(whole, q, u, t, i, c)
<1> DEFINE n == Len(t)
           k == SplitAt(t, Keep, i)
<1>1. /\ q \in Nat /\ u \in Nat /\ t \in Seq(Letter) /\ n = u - q /\ n \in Nat
  BY PartType
<1>2. Keep \in Nat
  BY KeepType
<1>3. k \in i - 1..n /\ k = IF n - Keep >= i - 1 THEN n - Keep ELSE i - 1
  BY <1>1, <1>2, SplitAtType
<1>4. Shown(t, FALSE, FALSE, i) = Cut(t, i, k) /\ Kept(t, FALSE, FALSE, i) = Cut(t, k + 1, n)
  BY <1>1, SplitNone
<1> HIDE DEF k
<1>5. k \in Int /\ k + 1 \in 1..n + 1 /\ k <= n /\ k >= i - 1
  <2>1. i \in Nat /\ i >= 1 /\ k \in Int /\ k >= i - 1 /\ k <= n
    BY <1>1, <1>3
  <2> QED
    BY <1>1, <2>1
<1>6. Cut(t, k + 1, n) = Cut(whole, q + (k + 1), u)
  BY <1>5, PartRest
<1>7. ASSUME NEW y \in Secrets, NEW p \in i..k PROVE q + p + Len(y) - 1 <= u
  <2>1. Len(y) \in Nat /\ Len(y) >= 1 /\ Len(y) <= Longest /\ Longest \in Nat
    BY SecretType, LongestBounds
  <2>2. Keep = Longest - 1
    BY <2>1, KeepType
  <2>3. p \in Int /\ i \in Int /\ p >= i /\ p <= k
    BY <1>5
  <2>4. k = n - Keep
    BY <1>3, <1>5, <2>3, <1>2
  <2> QED
    BY <1>1, <2>1, <2>2, <2>3, <2>4
<1>8. \A p \in i..k : EndsWithin(whole, q + p, u)
  BY <1>7 DEF EndsWithin
<1>9. RedactedFrom(whole)[q + i] = Joined(Cut(t, i, k), RedactedFrom(whole)[q + (k + 1)])
  BY <1>3, <1>8, NoneRedacts
<1>10. Continues(whole, q, u, t, i, k + 1)
  BY <1>4, <1>5, <1>6, <1>9 DEF Continues
<1> QED
  BY <1>5, <1>10

(* ... with a match that is committed, ...                                 *)
LEMMA OpenHit ==
  ASSUME Unnested, NEW whole, NEW q, NEW u, NEW t, Part(whole, q, u, t),
         NEW i, NEW j, FirstAt(t, i, j), Len(t) - j + 1 >= Longest,
         NEW c, Continues(whole, q, u, t, SplitNext(t, i), c)
  PROVE  Continues(whole, q, u, t, i, c)
<1> DEFINE m == SplitNext(t, i)
           x == Cut(t, i, j - 1)
           f == Shown(t, FALSE, FALSE, m)
           R == RedactedFrom(whole)
<1>1. /\ Len(whole) \in Nat /\ q \in Nat /\ u \in Nat /\ q <= u /\ u <= Len(whole)
      /\ whole \in Seq(Letter) /\ t \in Seq(Letter) /\ Len(t) = u - q /\ Len(t) \in Nat
  BY PartType
<1>2. i \in 1..Len(t) + 1 /\ m \in 1..Len(t) + 1 /\ j - 1 \in i - 1..Len(t) /\ j \in 1..Len(t)
  BY <1>1, FirstType
<1>3. EndsWithin(whole, q + j, u)
  <2> SUFFICES ASSUME NEW y \in Secrets PROVE q + j + Len(y) - 1 <= u
    BY DEF EndsWithin
  <2>1. Len(y) \in Nat /\ Len(y) <= Longest /\ Longest \in Nat /\ j \in Int
    BY <1>2, SecretType, LongestBounds
  <2> QED
    BY <1>1, <2>1
<1>4. R[q + i] = Joined(x, Joined(MarkerText, R[q + m]))
  BY <1>3, HitRedacts
<1>5. /\ Shown(t, FALSE, FALSE, i) = Joined(x, Joined(MarkerText, f))
      /\ Kept(t, FALSE, FALSE, i) = Kept(t, FALSE, FALSE, m)
  BY <1>1, SplitHit
<1>6. /\ c \in 1..Len(t) + 1 /\ Kept(t, FALSE, FALSE, m) = Cut(whole, q + c, u)
      /\ Joined(f, R[q + c]) = R[q + m]
  BY DEF Continues
<1>7. x \in Seq(Symbol) /\ f \in Seq(Symbol) /\ MarkerText \in Seq(Symbol)
  BY <1>1, <1>2, CutType, SplitType, MarkerType
<1>8. R[q + c] \in Seq(Symbol)
  <2>1. q + c \in 1..Len(whole) + 1
    BY <1>1, <1>6
  <2> QED
    BY <1>1, <2>1, SymbolFacts
<1> DEFINE z == R[q + c]
<1>9. Joined(Joined(x, Joined(MarkerText, f)), z) = Joined(x, Joined(MarkerText, Joined(f, z)))
  <2> HIDE DEF x, f, z
  <2> QED
    BY <1>7, <1>8, Regroup DEF z
<1>10. Joined(Shown(t, FALSE, FALSE, i), z) = R[q + i]
  <2> HIDE DEF x, f, R, m
  <2> QED
    BY <1>4, <1>5, <1>6, <1>9
<1> QED
  BY <1>5, <1>6, <1>10 DEF Continues

(* ... with one that is kept.                                              *)
LEMMA OpenHold ==
  ASSUME Unnested, NEW whole, NEW q, NEW u, NEW t, Part(whole, q, u, t),
         NEW i, NEW j, FirstAt(t, i, j), ~(Len(t) - j + 1 >= Longest)
  PROVE  Continues(whole, q, u, t, i, j)
<1>1. t \in Seq(Letter)
  BY PartType
<1>2. j \in 1..Len(t) + 1
  BY <1>1, FirstType
<1>3. Shown(t, FALSE, FALSE, i) = Cut(t, i, j - 1) /\ Kept(t, FALSE, FALSE, i) = Cut(t, j, Len(t))
  BY <1>1, SplitHold
<1>4. Cut(t, j, Len(t)) = Cut(whole, q + j, u)
  BY <1>2, PartRest
<1>5. RedactedFrom(whole)[q + i] = Joined(Cut(t, i, j - 1), RedactedFrom(whole)[q + j])
  BY BeforeFirst
<1> QED
  BY <1>2, <1>3, <1>4, <1>5 DEF Continues

(* An induction along the matches of a text, from its end.                 *)
LEMMA AlongMatches ==
  ASSUME NEW t \in Seq(Letter), NEW OK,
         \A i \in 1..Len(t) + 1 : i > Len(t) \/ Found(t, i) = {} => i \in OK,
         \A i \in 1..Len(t) + 1 : i <= Len(t) /\ Found(t, i) # {} /\ SplitNext(t, i) \in OK => i \in OK
  PROVE  \A i \in 1..Len(t) + 1 : i \in OK
<1> DEFINE n == Len(t)
           T == {k \in Nat : \A i \in 1..n + 1 : n - i + 1 <= k => i \in OK}
<1>1. n \in Nat
  BY LenProperties
<1>2. 0 \in T
  BY <1>1
<1>3. ASSUME NEW k \in Nat, k \in T PROVE k + 1 \in T
  <2> SUFFICES ASSUME NEW i \in 1..n + 1, n - i + 1 <= k + 1 PROVE i \in OK
    OBVIOUS
  <2>1. CASE i > n
    BY <2>1
  <2>2. CASE i <= n
    <3>1. SplitNext(t, i) \in 1..n + 1 /\ SplitNext(t, i) > i
      BY <1>1, <2>2, SplitNextType
    <3>2. n - SplitNext(t, i) + 1 <= k
      BY <1>1, <3>1
    <3>3. SplitNext(t, i) \in OK
      BY <1>3, <3>1, <3>2
    <3> QED
      BY <2>2, <3>3
  <2> QED
    BY <1>1, <2>1, <2>2
<1>4. n \in T
  <2> HIDE DEF T
  <2> QED
    BY <1>1, <1>2, <1>3, Induction
<1> QED
  BY <1>1, <1>4

(* While the stream goes on, what is split off a part is what the whole's  *)
(* redaction has there, and what is kept is where that goes on.            *)
LEMMA OpenSplit ==
  ASSUME Unnested, NEW whole, NEW q, NEW u, NEW t, Part(whole, q, u, t)
  PROVE  \A i \in 1..Len(t) + 1 : \E c \in 1..Len(t) + 1 : Continues(whole, q, u, t, i, c)
<1> DEFINE n == Len(t)
           OK == {i \in 1..n + 1 : \E c \in 1..n + 1 : Continues(whole, q, u, t, i, c)}
<1>1. t \in Seq(Letter) /\ n \in Nat
  BY PartType
<1>2. ASSUME NEW i \in 1..n + 1, i > n \/ Found(t, i) = {} PROVE i \in OK
  BY <1>1, <1>2, OpenEnd, OpenNone
<1>3. ASSUME NEW i \in 1..n + 1, i <= n, Found(t, i) # {}, SplitNext(t, i) \in OK PROVE i \in OK
  <2> DEFINE j == Min(Found(t, i))
  <2>1. FirstAt(t, i, j)
    BY <1>3 DEF FirstAt
  <2> HIDE DEF j
  <2>2. PICK c \in 1..n + 1 : Continues(whole, q, u, t, SplitNext(t, i), c)
    BY <1>3
  <2>3. j \in 1..n + 1
    BY <1>1, <2>1, FirstType
  <2>4. CASE n - j + 1 >= Longest
    BY <2>1, <2>2, <2>4, OpenHit
  <2>5. CASE ~(n - j + 1 >= Longest)
    <3>1. Continues(whole, q, u, t, i, j)
      BY <2>1, <2>5, OpenHold
    <3> QED
      BY <2>3, <3>1
  <2> QED
    BY <2>4, <2>5
<1>4. \A i \in 1..n + 1 : i \in OK
  <2> HIDE DEF OK
  <2> QED
    BY <1>1, <1>2, <1>3, AlongMatches
<1> QED
  BY <1>4

-----------------------------------------------------------------------------
(* At the end of the stream all that is left is shown as the whole's       *)
(* redaction has it.                                                       *)
Completes(whole, q, t, i) ==
    /\ Kept(t, TRUE, FALSE, i) = <<>>
    /\ Shown(t, TRUE, FALSE, i) = RedactedFrom(whole)[q + i]

(* What stands in the whole ends in it.                                    *)
LEMMA EndOfWhole ==
  ASSUME NEW whole, NEW p, NEW u, u = Len(whole)
  PROVE  EndsWithin(whole, p, u)
BY DEF EndsWithin, Stands

(* At the end of the stream what is split off the last part is all that    *)
(* the redaction of the whole has there.                                   *)
LEMMA CleanSplit ==
  ASSUME Unnested, NEW whole, NEW q, NEW u, NEW t, Part(whole, q, u, t), u = Len(whole)
  PROVE  \A i \in 1..Len(t) + 1 : Completes(whole, q, t, i)
<1> DEFINE n == Len(t)
           R == RedactedFrom(whole)
           OK == {i \in 1..n + 1 : Completes(whole, q, t, i)}
<1>1. /\ Len(whole) \in Nat /\ q \in Nat /\ u \in Nat /\ q <= u /\ u <= Len(whole)
      /\ whole \in Seq(Letter) /\ t \in Seq(Letter) /\ n = u - q /\ n \in Nat /\ q + (n + 1) = u + 1
  BY PartType
<1>2. R[q + (n + 1)] = <<>>
  BY <1>1, RedactEnd
<1>3. ASSUME NEW i \in 1..n + 1, i > n PROVE i \in OK
  <2>1. i = n + 1
    BY <1>1, <1>3
  <2>2. Shown(t, TRUE, FALSE, i) = <<>> /\ Kept(t, TRUE, FALSE, i) = <<>>
    BY <1>1, <1>3, SplitEnd
  <2> QED
    BY <1>2, <2>1, <2>2 DEF Completes
<1>4. ASSUME NEW i \in 1..n + 1, i <= n, Found(t, i) = {} PROVE i \in OK
  <2>1. Shown(t, TRUE, FALSE, i) = Cut(t, i, n) /\ Kept(t, TRUE, FALSE, i) = <<>>
    BY <1>1, <1>4, SplitNone
  <2>2. n \in i - 1..n
    BY <1>1, <1>4
  <2>3. \A p \in i..n : EndsWithin(whole, q + p, u)
    BY EndOfWhole
  <2>4. R[q + i] = Joined(Cut(t, i, n), R[q + (n + 1)])
    BY <1>4, <2>2, <2>3, NoneRedacts
  <2>5. Cut(t, i, n) \in Seq(Symbol)
    BY <1>1, <2>2, CutType
  <2>6. R[q + i] = Cut(t, i, n)
    BY <1>2, <2>4, <2>5, JoinedEmpty
  <2> QED
    BY <2>1, <2>6 DEF Completes
<1>5. ASSUME NEW i \in 1..n + 1, i <= n, Found(t, i) # {}, SplitNext(t, i) \in OK PROVE i \in OK
  <2> DEFINE j == Min(Found(t, i))
  <2>1. FirstAt(t, i, j)
    BY <1>5 DEF FirstAt
  <2> HIDE DEF j
  <2>2. EndsWithin(whole, q + j, u)
    BY EndOfWhole
  <2>3. R[q + i] = Joined(Cut(t, i, j - 1), Joined(MarkerText, R[q + SplitNext(t, i)]))
    BY <2>1, <2>2, HitRedacts
  <2>4. /\ Shown(t, TRUE, FALSE, i) =
             Joined(Cut(t, i, j - 1), Joined(MarkerText, Shown(t, TRUE, FALSE, SplitNext(t, i))))
        /\ Kept(t, TRUE, FALSE, i) = Kept(t, TRUE, FALSE, SplitNext(t, i))
    BY <1>1, <2>1, SplitHit
  <2> QED
    BY <1>5, <2>3, <2>4 DEF Completes
<1>6. \A i \in 1..n + 1 : i \in OK
  <2> HIDE DEF OK
  <2> QED
    <3>1. ASSUME NEW i \in 1..n + 1, i > n \/ Found(t, i) = {} PROVE i \in OK
      BY <1>1, <1>3, <1>4, <3>1
    <3> QED
      BY <1>1, <1>5, <3>1, AlongMatches
<1> QED
  BY <1>6

(* After a failed read one marker may follow what the whole's redaction    *)
(* begins with.                                                            *)
Breaks(shown, whole) ==
    \E g, z \in Seq(Symbol) :
        Joined(g, z) = whole /\ (shown = g \/ shown = Joined(g, MarkerText))

(* A committed match before what breaks off.                               *)
LEMMA BrokenHit ==
  ASSUME NEW x \in Seq(Symbol), NEW f, NEW w, Breaks(f, w)
  PROVE  Breaks(Joined(x, Joined(MarkerText, f)), Joined(x, Joined(MarkerText, w)))
<1>1. PICK g \in Seq(Symbol), z \in Seq(Symbol) :
          Joined(g, z) = w /\ (f = g \/ f = Joined(g, MarkerText))
  BY DEF Breaks
<1> DEFINE h == Joined(x, Joined(MarkerText, g))
<1>2. h \in Seq(Symbol)
  BY MarkerType, JoinedType
<1>3. Joined(h, z) = Joined(x, Joined(MarkerText, Joined(g, z)))
  BY MarkerType, Regroup
<1>4. Joined(h, MarkerText) = Joined(x, Joined(MarkerText, Joined(g, MarkerText)))
  BY MarkerType, Regroup
<1>5. \/ Joined(x, Joined(MarkerText, f)) = h
      \/ Joined(x, Joined(MarkerText, f)) = Joined(h, MarkerText)
  BY <1>1, <1>4
<1> HIDE DEF h
<1> QED
  BY <1>1, <1>2, <1>3, <1>5 DEF Breaks

(* If a secret stands at j in the whole and goes on behind the part, then  *)
(* no secret stands in the part behind j.                                  *)
LEMMA NoneBehind ==
  ASSUME Unnested, NEW whole, NEW q, NEW u, NEW t, Part(whole, q, u, t),
         NEW j \in 1..Len(t), NEW y \in Secrets, Stands(whole, q + j, y), ~(q + j + Len(y) - 1 <= u),
         NEW m \in 1..Len(t) + 1, m > j
  PROVE  Found(t, m) = {}
<1>1. /\ Len(whole) \in Nat /\ q \in Nat /\ u \in Nat /\ q <= u /\ u <= Len(whole)
      /\ whole \in Seq(Letter) /\ t \in Seq(Letter) /\ Len(t) = u - q /\ Len(t) \in Nat
  BY PartType
<1>2. ASSUME NEW p \in m..Len(t) PROVE MatchesAt(t, p) = {}
  <2>1. p \in 1..Len(t) + 1 /\ p > j /\ p \in Nat /\ j \in Nat
    BY <1>1
  <2>2. ASSUME NEW x \in Secrets PROVE ~Stands(t, p, x)
    <3> SUFFICES ASSUME Stands(t, p, x) PROVE FALSE
      OBVIOUS
    <3>1. Stands(whole, q + p, x) /\ q + p + Len(x) - 1 <= u
      BY <2>1, StandsInPart
    <3>2. q + p \in Nat /\ q + j \in Nat /\ q + j < q + p
      BY <1>1, <2>1
    <3>3. q + j + Len(y) <= q + p + Len(x)
      BY <3>1, <3>2, NotInside
    <3>4. Len(x) \in Nat /\ Len(y) \in Nat
      BY SecretType
    <3>5. q + p + Len(x) - 1 <= u
      BY <3>1
    <3> QED
      BY <1>1, <2>1, <3>3, <3>4, <3>5
  <2> QED
    BY <1>1, <2>1, <2>2, NoMatch
<1> QED
  BY <1>2 DEF Found

(* A failed read cuts a secret in two, at whose start a shorter one        *)
(* stands: it is shown as a marker, and nothing or one marker more.        *)
LEMMA AbortedBeyond ==
  ASSUME Unnested, NEW whole, NEW q, NEW u, NEW t, Part(whole, q, u, t),
         NEW i, NEW j, FirstAt(t, i, j), ~EndsWithin(whole, q + j, u)
  PROVE  /\ Kept(t, TRUE, TRUE, i) = <<>>
         /\ Breaks(Shown(t, TRUE, TRUE, i), RedactedFrom(whole)[q + i])
<1> DEFINE m == SplitNext(t, i)
           x == Cut(t, i, j - 1)
           f == Shown(t, TRUE, TRUE, m)
           R == RedactedFrom(whole)
<1>1. /\ Len(whole) \in Nat /\ q \in Nat /\ u \in Nat /\ q <= u /\ u <= Len(whole)
      /\ whole \in Seq(Letter) /\ t \in Seq(Letter) /\ Len(t) = u - q /\ Len(t) \in Nat
  BY PartType
<1>2. /\ i \in 1..Len(t) + 1 /\ m \in 1..Len(t) + 1 /\ j - 1 \in i - 1..Len(t) /\ j \in 1..Len(t)
      /\ MatchesAt(t, j) # {} /\ m = j + Max(MatchesAt(t, j)) /\ j \in 1..Len(t) + 1
  BY <1>1, FirstType
<1>3. m > j
  <2>1. Max(MatchesAt(t, j)) \in 1..Len(t) - j + 1
    BY <1>1, <1>2, LongestMatch
  <2> DEFINE l == Max(MatchesAt(t, j))
  <2>2. l \in Int /\ l >= 1 /\ m = j + l /\ j \in Int
    BY <1>1, <1>2, <2>1
  <2> HIDE DEF l, m
  <2> QED
    BY <2>2
<1>4. PICK y \in Secrets : Stands(whole, q + j, y) /\ ~(q + j + Len(y) - 1 <= u)
  BY DEF EndsWithin
<1> HIDE DEF m
<1>5. Found(t, m) = {}
  BY <1>2, <1>3, <1>4, NoneBehind
<1>6. /\ Kept(t, TRUE, TRUE, m) = <<>> /\ (f = <<>> \/ f = MarkerText)
  <2>1. CASE m > Len(t)
    BY <1>1, <1>2, <2>1, SplitEnd
  <2>2. CASE m <= Len(t)
    BY <1>1, <1>2, <1>5, <2>2, SplitNone
  <2>3. m \in Nat
    BY <1>2
  <2>4. m > Len(t) \/ m <= Len(t)
    BY <1>1, <2>3
  <2> QED
    BY <2>1, <2>2, <2>4
<1>7. Shown(t, TRUE, TRUE, i) = Joined(x, Joined(MarkerText, f)) /\ Kept(t, TRUE, TRUE, i) = <<>>
  BY <1>1, <1>6, SplitHit DEF m
<1>8. R[q + i] = Joined(x, R[q + j])
  BY BeforeFirst
<1> DEFINE z == R[q + j + Max(MatchesAt(whole, q + j))]
<1>9. R[q + j] = Joined(MarkerText, z) /\ z \in Seq(Symbol)
  <2>1. q + j \in 1..Len(whole) /\ q + j \in 1..Len(whole) + 1
    BY <1>1, <1>2
  <2>2. MatchesAt(whole, q + j) # {}
    BY <1>1, <1>4, <2>1, NoMatch
  <2>3. /\ q + j + Max(MatchesAt(whole, q + j)) \in 1..Len(whole) + 1
        /\ R[q + j] = <<Marker>> \o R[q + j + Max(MatchesAt(whole, q + j))]
    BY <1>1, <2>1, <2>2, RedactHit
  <2>4. z \in Seq(Symbol)
    BY <1>1, <2>3, SymbolFacts
  <2> QED
    BY <2>3, <2>4 DEF Joined, MarkerText
<1>10. x \in Seq(Symbol) /\ MarkerText \in Seq(Symbol)
  BY <1>1, <1>2, CutType, MarkerType
<1> HIDE DEF x, z, f, R
<1>11. Joined(MarkerText, z) \in Seq(Symbol) /\ Joined(x, MarkerText) \in Seq(Symbol)
  BY <1>9, <1>10, JoinedType
<1>12. CASE f = <<>>
  <2>1. Shown(t, TRUE, TRUE, i) = Joined(x, MarkerText)
    BY <1>7, <1>10, <1>12, JoinedEmpty
  <2>2. Joined(x, Joined(MarkerText, z)) = R[q + i]
    BY <1>8, <1>9
  <2>3. Breaks(Shown(t, TRUE, TRUE, i), R[q + i])
    BY <1>10, <1>11, <2>1, <2>2 DEF Breaks
  <2> QED
    BY <1>7, <2>3 DEF R
<1>13. CASE f = MarkerText
  <2>1. Shown(t, TRUE, TRUE, i) = Joined(Joined(x, MarkerText), MarkerText)
    BY <1>7, <1>10, <1>13, JoinedAssociates
  <2>2. Joined(Joined(x, MarkerText), z) = R[q + i]
    BY <1>8, <1>9, <1>10, JoinedAssociates
  <2>3. Breaks(Shown(t, TRUE, TRUE, i), R[q + i])
    BY <1>9, <1>11, <2>1, <2>2 DEF Breaks
  <2> QED
    BY <1>7, <2>3 DEF R
<1> QED
  BY <1>6, <1>12, <1>13

(* When a read fails nothing is kept, and what is shown breaks off.        *)
LEMMA AbortedSplit ==
  ASSUME Unnested, NEW whole, NEW q, NEW u, NEW t, Part(whole, q, u, t)
  PROVE  \A i \in 1..Len(t) + 1 :
            /\ Kept(t, TRUE, TRUE, i) = <<>>
            /\ Breaks(Shown(t, TRUE, TRUE, i), RedactedFrom(whole)[q + i])
<1> DEFINE n == Len(t)
           R == RedactedFrom(whole)
           OK == {i \in 1..n + 1 : /\ Kept(t, TRUE, TRUE, i) = <<>>
                                /\ Breaks(Shown(t, TRUE, TRUE, i), R[q + i])}
<1>1. /\ Len(whole) \in Nat /\ q \in Nat /\ u \in Nat /\ q <= u /\ u <= Len(whole)
      /\ whole \in Seq(Letter) /\ t \in Seq(Letter) /\ n = u - q /\ n \in Nat
  BY PartType
<1>2. ASSUME NEW i \in 1..n + 1 PROVE R[q + i] \in Seq(Symbol)
  <2>1. q + i \in 1..Len(whole) + 1
    BY <1>1
  <2> QED
    BY <1>1, <2>1, SymbolFacts
<1>3. <<>> \in Seq(Symbol)
  BY EmptySeq
<1> HIDE DEF R
<1>4. ASSUME NEW i \in 1..n + 1, i > n PROVE i \in OK
  <2>1. Shown(t, TRUE, TRUE, i) = <<>> /\ Kept(t, TRUE, TRUE, i) = <<>>
    BY <1>1, <1>4, SplitEnd
  <2>2. Joined(<<>>, R[q + i]) = R[q + i]
    BY <1>2, JoinedEmpty
  <2>3. Breaks(Shown(t, TRUE, TRUE, i), R[q + i])
    BY <1>2, <1>3, <2>1, <2>2 DEF Breaks
  <2> QED
    BY <2>1, <2>3
<1>5. ASSUME NEW i \in 1..n + 1, i <= n, Found(t, i) = {} PROVE i \in OK
  <2>1. Shown(t, TRUE, TRUE, i) = MarkerText /\ Kept(t, TRUE, TRUE, i) = <<>>
    BY <1>1, <1>5, SplitNone
  <2>2. Joined(<<>>, R[q + i]) = R[q + i] /\ Joined(<<>>, MarkerText) = MarkerText
    BY <1>2, MarkerType, JoinedEmpty
  <2>3. Breaks(Shown(t, TRUE, TRUE, i), R[q + i])
    BY <1>2, <1>3, <2>1, <2>2 DEF Breaks
  <2> QED
    BY <2>1, <2>3
<1>6. ASSUME NEW i \in 1..n + 1, i <= n, Found(t, i) # {}, SplitNext(t, i) \in OK PROVE i \in OK
  <2> DEFINE j == Min(Found(t, i))
  <2>1. FirstAt(t, i, j)
    BY <1>6 DEF FirstAt
  <2> HIDE DEF j
  <2>2. CASE EndsWithin(whole, q + j, u)
    <3>1. R[q + i] = Joined(Cut(t, i, j - 1), Joined(MarkerText, R[q + SplitNext(t, i)]))
      BY <2>1, <2>2, HitRedacts DEF R
    <3>2. /\ Shown(t, TRUE, TRUE, i) =
               Joined(Cut(t, i, j - 1), Joined(MarkerText, Shown(t, TRUE, TRUE, SplitNext(t, i))))
          /\ Kept(t, TRUE, TRUE, i) = Kept(t, TRUE, TRUE, SplitNext(t, i))
      BY <1>1, <2>1, SplitHit
    <3>3. Cut(t, i, j - 1) \in Seq(Symbol)
      <4>1. i \in 1..n + 1 /\ j - 1 \in i - 1..n
        BY <1>1, <2>1, FirstType
      <4> QED
        BY <1>1, <4>1, CutType
    <3>4. /\ Kept(t, TRUE, TRUE, SplitNext(t, i)) = <<>>
          /\ Breaks(Shown(t, TRUE, TRUE, SplitNext(t, i)), R[q + SplitNext(t, i)])
      BY <1>6
    <3> QED
      BY <3>1, <3>2, <3>3, <3>4, BrokenHit
  <2>3. CASE ~EndsWithin(whole, q + j, u)
    BY <2>1, <2>3, AbortedBeyond DEF R
  <2> QED
    BY <2>2, <2>3
<1>7. \A i \in 1..n + 1 : i \in OK
  <2> HIDE DEF OK
  <2> QED
    <3>1. ASSUME NEW i \in 1..n + 1, i > n \/ Found(t, i) = {} PROVE i \in OK
      BY <1>1, <1>4, <1>5, <3>1
    <3> QED
      BY <1>1, <1>6, <3>1, AlongMatches
<1> QED
  BY <1>7 DEF R

-----------------------------------------------------------------------------
(* What is shown and what is kept of a text of which k letters were read.  *)
Follows(whole, k, shown, kept) ==
    \E q \in 0..k : /\ kept = Cut(whole, q + 1, k)
                    /\ Joined(shown, RedactedFrom(whole)[q + 1]) = RedactedFrom(whole)[1]

(* PartType without its letters.                                           *)
LEMMA PartFacts ==
  ASSUME NEW whole, NEW q, NEW u, NEW t, Part(whole, q, u, t)
  PROVE  /\ Len(whole) \in Nat /\ q \in Nat /\ u \in Nat /\ q <= u /\ u <= Len(whole)
         /\ t \in Seq(Letter) /\ Len(t) \in Nat /\ Len(t) = u - q
BY PartType

(* What was kept and the piece that has come are a part of the text.       *)
LEMMA FollowsPart ==
  ASSUME NEW whole \in Seq(Letter), NEW k \in 0..Len(whole), NEW u \in k..Len(whole),
         NEW q \in 0..k, NEW t, t = Cut(whole, q + 1, k) \o SubSeq(whole, k + 1, u)
  PROVE  /\ Part(whole, q, u, t) /\ 1 \in 1..Len(t) + 1 /\ t \in Seq(Letter)
         /\ RedactedFrom(whole)[q + 1] \in Seq(Symbol)
<1>1. Len(whole) \in Nat
  BY LenProperties
<1>2. /\ q + 1 \in 1..Len(whole) + 1 /\ k \in (q + 1) - 1..Len(whole)
      /\ q \in 0..Len(whole) /\ u \in q..Len(whole)
  BY <1>1
<1>3. t = SubSeq(whole, q + 1, u)
  BY <1>2, ConcatAdjacentSubSeq DEF Cut
<1>4. Part(whole, q, u, t)
  BY <1>2, <1>3 DEF Part
<1>5. t \in Seq(Letter) /\ Len(t) \in Nat
  BY <1>4, PartFacts, Zenon
<1> QED
  BY <1>2, <1>4, <1>5, SymbolFacts

(* No piece is an empty piece.                                             *)
LEMMA FollowsRest ==
  ASSUME NEW whole \in Seq(Letter), NEW k \in 0..Len(whole), NEW q \in 0..k
  PROVE  Cut(whole, q + 1, k) \o <<>> = Cut(whole, q + 1, k) \o SubSeq(whole, k + 1, k)
<1>1. k + 1 \in Int /\ k \in Int /\ k + 1 > k
  BY LenProperties
<1> QED
  BY <1>1, SubSeqEmpty

(* A piece is read.                                                        *)
LEMMA FeedOpen ==
  ASSUME Unnested, NEW whole \in Seq(Letter), NEW k \in 0..Len(whole), NEW u \in k..Len(whole),
         NEW shown \in Seq(Symbol), NEW kept, Follows(whole, k, shown, kept),
         NEW t, t = kept \o SubSeq(whole, k + 1, u)
  PROVE  Follows(whole, u, Joined(shown, Shown(t, FALSE, FALSE, 1)), Kept(t, FALSE, FALSE, 1))
<1> DEFINE R == RedactedFrom(whole)
<1>1. PICK q \in 0..k : kept = Cut(whole, q + 1, k) /\ Joined(shown, R[q + 1]) = R[1]
  BY DEF Follows
<1>2. Part(whole, q, u, t) /\ 1 \in 1..Len(t) + 1 /\ t \in Seq(Letter)
  BY <1>1, FollowsPart
<1>3. PICK c \in 1..Len(t) + 1 : Continues(whole, q, u, t, 1, c)
  BY <1>2, OpenSplit
<1>4. /\ Kept(t, FALSE, FALSE, 1) = Cut(whole, q + c, u)
      /\ Joined(Shown(t, FALSE, FALSE, 1), R[q + c]) = R[q + 1]
  BY <1>3 DEF Continues
<1>5. /\ Len(whole) \in Nat /\ q \in Nat /\ u \in Nat /\ q <= u /\ u <= Len(whole)
      /\ Len(t) = u - q /\ Len(t) \in Nat
  BY <1>2, PartFacts, Zenon
<1>6. q + c - 1 \in 0..u /\ (q + c - 1) + 1 = q + c /\ q + c \in 1..Len(whole) + 1
  BY <1>3, <1>5
<1>7. R[q + c] \in Seq(Symbol) /\ Shown(t, FALSE, FALSE, 1) \in Seq(Symbol)
  BY <1>2, <1>6, SymbolFacts, SplitType
<1>8. Joined(Joined(shown, Shown(t, FALSE, FALSE, 1)), R[q + c]) =
        Joined(shown, Joined(Shown(t, FALSE, FALSE, 1), R[q + c]))
  BY <1>7, JoinedAssociates
<1>9. Joined(Joined(shown, Shown(t, FALSE, FALSE, 1)), R[q + c]) = R[1]
  BY <1>1, <1>4, <1>8
<1> QED
  BY <1>4, <1>6, <1>9 DEF Follows

(* The stream ends, all of it read.                                        *)
LEMMA FeedEnded ==
  ASSUME Unnested, NEW whole \in Seq(Letter), NEW k, k = Len(whole),
         NEW shown \in Seq(Symbol), NEW kept, Follows(whole, k, shown, kept),
         NEW t, t = kept \o <<>>
  PROVE  Joined(shown, Shown(t, TRUE, FALSE, 1)) = RedactedFrom(whole)[1]
<1> DEFINE R == RedactedFrom(whole)
<1>0. k \in 0..Len(whole) /\ k \in k..Len(whole)
  BY LenProperties
<1>1. PICK q \in 0..k : kept = Cut(whole, q + 1, k) /\ Joined(shown, R[q + 1]) = R[1]
  BY DEF Follows
<1>2. t = Cut(whole, q + 1, k) \o SubSeq(whole, k + 1, k)
  BY <1>0, <1>1, FollowsRest
<1>3. Part(whole, q, k, t) /\ 1 \in 1..Len(t) + 1
  BY <1>0, <1>2, FollowsPart
<1>4. Completes(whole, q, t, 1)
  BY <1>3, CleanSplit
<1>5. Shown(t, TRUE, FALSE, 1) = R[q + 1]
  BY <1>4 DEF Completes
<1> QED
  BY <1>1, <1>5

(* A read fails.                                                           *)
LEMMA FeedFailed ==
  ASSUME Unnested, NEW whole \in Seq(Letter), NEW k \in 0..Len(whole),
         NEW shown \in Seq(Symbol), NEW kept, Follows(whole, k, shown, kept),
         NEW t, t = kept \o <<>>
  PROVE  Breaks(Joined(shown, Shown(t, TRUE, TRUE, 1)), RedactedFrom(whole)[1])
<1> DEFINE R == RedactedFrom(whole)
           f == Shown(t, TRUE, TRUE, 1)
<1>0. k \in k..Len(whole)
  BY LenProperties
<1>1. PICK q \in 0..k : kept = Cut(whole, q + 1, k) /\ Joined(shown, R[q + 1]) = R[1]
  BY DEF Follows
<1>2. t = Cut(whole, q + 1, k) \o SubSeq(whole, k + 1, k)
  BY <1>0, <1>1, FollowsRest
<1>3. Part(whole, q, k, t) /\ 1 \in 1..Len(t) + 1
  BY <1>0, <1>2, FollowsPart
<1>4. Breaks(f, R[q + 1])
  BY <1>3, AbortedSplit
<1> HIDE DEF f
<1>5. PICK g \in Seq(Symbol), z \in Seq(Symbol) :
         Joined(g, z) = R[q + 1] /\ (f = g \/ f = Joined(g, MarkerText))
  BY <1>4 DEF Breaks
<1>6. /\ Joined(shown, g) \in Seq(Symbol)
      /\ Joined(Joined(shown, g), z) = Joined(shown, Joined(g, z))
      /\ Joined(Joined(shown, g), MarkerText) = Joined(shown, Joined(g, MarkerText))
  BY MarkerType, JoinedType, JoinedAssociates
<1>7. Joined(Joined(shown, g), z) = R[1]
  BY <1>1, <1>5, <1>6
<1>8. Joined(shown, f) = Joined(shown, g) \/ Joined(shown, f) = Joined(Joined(shown, g), MarkerText)
  BY <1>5, <1>6
<1> QED
  BY <1>6, <1>7, <1>8 DEF Breaks, f

-----------------------------------------------------------------------------
(* What something begins with is a prefix of it.                           *)
LEMMA JoinedPrefix ==
  ASSUME NEW g \in Seq(Symbol), NEW z \in Seq(Symbol)
  PROVE  IsPrefix(g, Joined(g, z))
<1> DEFINE w == g \o z
<1>1. w \in Seq(Symbol) /\ Len(w) = Len(g) + Len(z) /\ Len(g) \in Nat /\ Len(z) \in Nat
  BY ConcatProperties, LenProperties
<1>2. SubSeq(w, 1, Len(g)) = SubSeq(g, 1, Len(g))
  <2>1. CASE g = <<>>
    BY <1>1, <2>1, SubSeqEmpty, EmptySeq
  <2>2. CASE g # <<>>
    <3>1. 1 \in 1..Len(g) /\ Len(g) \in 1..Len(g)
      BY <1>1, <2>2, EmptySeq
    <3> QED
      BY <3>1, SubSeqOfConcat1
  <2> QED
    BY <2>1, <2>2
<1>3. Len(g) <= Len(w)
  BY <1>1
<1> QED
  BY <1>2, <1>3 DEF IsPrefix, Joined

(* The marker that may follow is the last symbol.                          *)
LEMMA FrontOfMarked ==
  ASSUME NEW g \in Seq(Symbol), NEW e, e = Joined(g, MarkerText)
  PROVE  e # <<>> /\ Last(e) = Marker /\ Front(e) = g
<1>1. e = g \o <<Marker>> /\ <<Marker>> \in Seq(Symbol) /\ Len(<<Marker>>) = 1 /\ Len(g) \in Nat
  BY MarkerType, LenProperties DEF MarkerText, Joined
<1>2. e \in Seq(Symbol) /\ Len(e) = Len(g) + 1 /\ e[Len(g) + 1] = Marker
  <2>1. /\ e \in Seq(Symbol) /\ Len(e) = Len(g) + 1
        /\ \A i \in 1..Len(g) + 1 : e[i] = IF i <= Len(g) THEN g[i] ELSE <<Marker>>[i - Len(g)]
    BY <1>1, ConcatProperties
  <2>2. Len(g) + 1 \in 1..Len(g) + 1 /\ ~(Len(g) + 1 <= Len(g)) /\ Len(g) + 1 - Len(g) = 1
    BY <1>1
  <2> QED
    BY <2>1, <2>2
<1>3. e # <<>>
  BY <1>1, <1>2, EmptySeq
<1>4. Last(e) = Marker
  BY <1>2 DEF Last
<1>5. Front(e) = SubSeq(e, 1, Len(g))
  <2>1. Len(e) - 1 = Len(g)
    BY <1>1, <1>2
  <2> QED
    BY <2>1 DEF Front
<1>6. SubSeq(e, 1, Len(g)) = g
  <2>1. CASE g = <<>>
    BY <1>1, <2>1, SubSeqEmpty, EmptySeq
  <2>2. CASE g # <<>>
    <3>1. 1 \in 1..Len(g) /\ Len(g) \in 1..Len(g)
      BY <1>1, <2>2, EmptySeq
    <3>2. SubSeq(g \o <<Marker>>, 1, Len(g)) = SubSeq(g, 1, Len(g))
      BY <1>1, <3>1, SubSeqOfConcat1
    <3> QED
      BY <1>1, <3>2, SubSeqFull
  <2> QED
    BY <2>1, <2>2
<1> QED
  BY <1>3, <1>4, <1>5, <1>6

-----------------------------------------------------------------------------
IsSequence(q) == q \in Seq({q[i] : i \in DOMAIN q})

Threads == {"get", "got", "call", "sink", "judge", "discard", "ended"}
Finishers == {"waiting", "sentinel", "join", "done"}

(* Neither depends on what the sink does.                                  *)
Shape ==
    /\ IsSequence(queue) /\ IsSequence(accepted) /\ IsSequence(received)
    /\ thread \in Threads /\ finisher \in Finishers
    /\ spent \in Nat /\ Len(queue) <= Capacity
    /\ accepting \in BOOLEAN /\ (accepting <=> finisher = "waiting")
    /\ accepting => spent = 0
    /\ \A i \in 1..Len(accepted) : accepted[i] # Sentinel

(* The sentinel is the last of the queue; what stands before it waits.     *)
Closed == finisher \in {"join", "done"} /\ thread # "ended"
Waiting == Len(queue) - (IF Closed THEN 1 ELSE 0)
InHand == IF thread \in {"got", "call"} THEN 1 ELSE 0
Uncounted == IF thread \in {"got", "call", "sink"} THEN 1 ELSE 0

(* As long as live delivery has not failed, the dispatcher goes on up to   *)
(* the sentinel, ...                                                       *)
GoingOn ==
    /\ thread # "discard"
    /\ finisher = "done" => thread = "ended"
    /\ thread = "ended" => finisher \in {"join", "done"} /\ queue = <<>>
    /\ Closed => queue # <<>> /\ queue[Len(queue)] = Sentinel

(* ... what was accepted has been received, is in hand, or waits.          *)
Accounted ==
    /\ Len(accepted) = Len(received) + InHand + Waiting
    /\ \A i \in 1..Len(received) : received[i] = accepted[i]
    /\ InHand = 1 => item = accepted[Len(received) + 1]
    /\ \A i \in 1..Waiting : queue[i] = accepted[Len(received) + InHand + i]

(* The calls still to come fit into the drain budget.                      *)
WithinBudget == ~accepting => spent + Uncounted + Waiting <= Capacity + 1

(* A sink that has kept its contract has not made delivery fail.           *)
Undisturbed == ~failed /\ pace = "prompt" /\ WithinBudget

(* A failure is noted, and told by finish.                                 *)
Told == failed => notice /\ (finisher = "done" => returned)

Inv ==
    /\ Shape
    /\ Told
    /\ ~failed => GoingOn /\ Accounted
    /\ ~misbehaved => Undisturbed

-----------------------------------------------------------------------------
(* Sequences of anything.                                                  *)
LEMMA EmptySequence == IsSequence(<<>>)
BY DEF IsSequence

LEMMA LengthIsNatural == ASSUME NEW q, IsSequence(q) PROVE Len(q) \in Nat
BY DEF IsSequence

LEMMA AppendIsSequence ==
  ASSUME NEW q, IsSequence(q), NEW x
  PROVE  /\ IsSequence(Append(q, x)) /\ Len(q) \in Nat
         /\ Len(Append(q, x)) = Len(q) + 1 /\ Append(q, x)[Len(q) + 1] = x
         /\ \A i \in 1..Len(q) : Append(q, x)[i] = q[i]
<1> DEFINE S == {q[i] : i \in DOMAIN q} \cup {x}
           r == Append(q, x)
<1>1. q \in Seq(S)
  BY DEF IsSequence
<1> HIDE DEF S
<1>2. /\ r \in Seq(S) /\ Len(q) \in Nat
      /\ Len(r) = Len(q) + 1 /\ r[Len(q) + 1] = x /\ \A i \in 1..Len(q) : r[i] = q[i]
  BY <1>1 DEF S
<1> HIDE DEF r
<1>3. r \in Seq({r[i] : i \in DOMAIN r})
  BY <1>2
<1> QED
  BY <1>2, <1>3 DEF IsSequence, r

LEMMA TailIsSequence ==
  ASSUME NEW q, IsSequence(q), q # <<>>
  PROVE  /\ IsSequence(Tail(q)) /\ Len(q) \in Nat /\ Len(q) >= 1
         /\ Len(Tail(q)) = Len(q) - 1 /\ Head(q) = q[1]
         /\ \A i \in 1..Len(q) - 1 : Tail(q)[i] = q[i + 1]
<1> DEFINE S == {q[i] : i \in DOMAIN q}
           r == Tail(q)
<1>1. q \in Seq(S)
  BY DEF IsSequence
<1> HIDE DEF S
<1>2. /\ r \in Seq(S) /\ Len(q) \in Nat /\ Len(q) >= 1
      /\ Len(r) = Len(q) - 1 /\ Head(q) = q[1]
      /\ \A i \in 1..Len(q) - 1 : r[i] = q[i + 1]
  BY <1>1
<1> HIDE DEF r
<1>3. r \in Seq({r[i] : i \in DOMAIN r})
  BY <1>2
<1> QED
  BY <1>2, <1>3 DEF IsSequence, r

LEMMA SameSequence ==
  ASSUME NEW p, NEW q, IsSequence(p), IsSequence(q), Len(p) = Len(q),
         \A i \in 1..Len(p) : p[i] = q[i]
  PROVE  p = q
<1>1. DOMAIN p = 1..Len(p) /\ DOMAIN q = 1..Len(q)
  BY DEF IsSequence
<1>2. p = [i \in DOMAIN p |-> p[i]] /\ q = [i \in DOMAIN q |-> q[i]]
  BY DEF IsSequence
<1> QED
  BY <1>1, <1>2

-----------------------------------------------------------------------------
(* The steps.                                                              *)
LEMMA InitInv == Init => Inv
<1> SUFFICES ASSUME Init PROVE Inv
  OBVIOUS
<1>1. /\ queue = <<>> /\ accepted = <<>> /\ received = <<>> /\ thread = "get"
      /\ finisher = "waiting" /\ accepting = TRUE /\ spent = 0 /\ ~failed
      /\ pace = "prompt" /\ ~misbehaved
  BY DEF Init, DispatchInit
<1> QED
  BY <1>1, EmptySequence, DispatcherAssumption DEF Inv, Shape, Told, GoingOn, Accounted, Undisturbed,
     WithinBudget, Threads, Finishers, Closed, Waiting, InHand, Uncounted

LEMMA SubmitStep ==
  ASSUME Inv, NEW chunk, chunk # Sentinel, Submit(chunk)
  PROVE  Inv'
<1> USE DEF Inv, Told, GoingOn, Undisturbed, Accounted, WithinBudget, Threads, Finishers, Closed, Waiting,
        InHand, Uncounted, threadVars
<1>1. CASE failed \/ ~accepting \/ Len(queue) = Capacity
  BY <1>1 DEF Submit, Shape
<1>2. CASE ~(failed \/ ~accepting \/ Len(queue) = Capacity)
  <2>1. /\ queue' = Append(queue, chunk) /\ accepted' = Append(accepted, chunk)
        /\ accepting /\ ~Closed /\ ~Closed'
    BY <1>2 DEF Submit, Shape
  <2>2. /\ UNCHANGED <<failed, accepting, thread, item, pace, spent, finisher, received,
                      misbehaved>>
    BY <1>2 DEF Submit
  <2>3. /\ IsSequence(queue') /\ Len(queue) \in Nat /\ Len(queue') = Len(queue) + 1
        /\ queue'[Len(queue) + 1] = chunk /\ \A i \in 1..Len(queue) : queue'[i] = queue[i]
    BY <2>1, AppendIsSequence DEF Shape
  <2>4. /\ IsSequence(accepted') /\ Len(accepted) \in Nat
        /\ Len(accepted') = Len(accepted) + 1
        /\ accepted'[Len(accepted) + 1] = chunk
        /\ \A i \in 1..Len(accepted) : accepted'[i] = accepted[i]
    BY <2>1, AppendIsSequence DEF Shape
  <2>5. Shape'
    BY <1>2, <2>1, <2>2, <2>3, <2>4, DispatcherAssumption DEF Shape
  <2>6. Len(received) \in Nat
    BY LengthIsNatural DEF Shape
  <2>0. ~failed /\ GoingOn /\ Accounted
    BY <1>2
  <2>7. GoingOn' /\ Told' /\ (~misbehaved => Undisturbed')
    <3>1. thread # "ended"
      BY <2>0, <2>1 DEF Shape
    <3> QED
      BY <2>0, <2>1, <2>2, <3>1
  <2>8. Accounted'
    <3>1. Len(accepted) = Len(received) + InHand + Len(queue)
      <4>1. Waiting = Len(queue)
        BY <2>1, <2>3
      <4>2. Len(accepted) = Len(received) + InHand + Waiting
        BY <2>0
      <4> HIDE DEF Waiting, InHand
      <4> QED
        BY <4>1, <4>2
    <3>2. InHand' = InHand /\ Waiting = Len(queue) /\ Waiting' = Len(queue)+1 /\ InHand \in {0, 1}
      BY <2>1, <2>2, <2>3
    <3>3. ASSUME NEW i \in 1..Len(queue) + 1
          PROVE  queue'[i] = accepted'[Len(received) + InHand + i]
      <4>1. CASE i \in 1..Len(queue)
        <5>1. queue'[i] = queue[i] /\ queue[i] = accepted[Len(received) + InHand + i]
          BY <2>3, <2>0, <3>2, <4>1
        <5>2. Len(received) + InHand + i \in 1..Len(accepted)
          <6>1. /\ Len(received) \in Nat /\ InHand \in {0, 1} /\ Len(queue) \in Nat
                /\ i \in Nat /\ i >= 1 /\ i <= Len(queue)
            BY <2>3, <2>6, <3>2, <4>1
          <6> HIDE DEF InHand
          <6> QED
            BY <3>1, <6>1
        <5> QED
          BY <2>4, <5>1, <5>2
      <4>2. CASE i = Len(queue) + 1
        <5> HIDE DEF InHand
        <5>1. Len(received) + InHand + i = Len(accepted) + 1
          BY <2>3, <2>4, <2>6, <3>2, <3>1, <4>2
        <5> QED
          BY <2>3, <2>4, <4>2, <5>1
      <4> QED
        BY <2>3, <4>1, <4>2
    <3>4. \A i \in 1..Len(received) : received[i] = accepted'[i]
      BY <2>1, <2>3, <2>4, <2>6, <2>0, <3>1
    <3>5. InHand = 1 => item = accepted'[Len(received) + 1]
      BY <2>1, <2>3, <2>4, <2>6, <2>0, <3>1
    <3>6. Len(accepted') = Len(received') + InHand' + Waiting'
      <4> HIDE DEF InHand, Waiting
      <4> QED
        BY <2>2, <2>3, <2>4, <2>6, <3>2, <3>1
    <3>7. \A i \in 1..Waiting' : queue'[i] = accepted'[Len(received') + InHand' + i]
      <4> HIDE DEF InHand, Waiting
      <4> QED
        BY <2>2, <3>2, <3>3
    <3> HIDE DEF InHand, Waiting
    <3> QED
      BY <2>2, <3>2, <3>4, <3>5, <3>6, <3>7
  <2> QED
    BY <2>2, <2>5, <2>7, <2>8
<1> QED
  BY <1>1, <1>2

LEMMA GetStep == ASSUME Inv, Get PROVE Inv'
<1> USE DEF Inv, GoingOn, Undisturbed, Accounted, WithinBudget, Threads, Finishers, Closed, Waiting,
        InHand, Uncounted, threadVars, historyVars
<1>1. /\ thread = "get" /\ queue # <<>> /\ item' = Head(queue) /\ queue' = Tail(queue)
      /\ thread' = IF Head(queue) = Sentinel THEN "ended" ELSE "got"
      /\ UNCHANGED <<failed, accepting, pace, spent, finisher, accepted, received, misbehaved>>
  BY DEF Get
<1>2. /\ IsSequence(queue') /\ Len(queue) \in Nat /\ Len(queue) >= 1
      /\ Len(queue') = Len(queue) - 1 /\ Head(queue) = queue[1]
      /\ \A i \in 1..Len(queue) - 1 : queue'[i] = queue[i + 1]
  BY <1>1, TailIsSequence DEF Shape
<1>3. Len(accepted) \in Nat /\ Len(received) \in Nat
  BY LengthIsNatural DEF Shape
<1>4. Shape'
  BY <1>1, <1>2, DispatcherAssumption DEF Shape
<1>6. Told'
  BY <1>1 DEF Told, Get
<1>5. ASSUME ~failed PROVE GoingOn' /\ Accounted' /\ (~misbehaved => Undisturbed')
  <2>1. CASE Waiting = 0
    <3>1. Closed /\ Len(queue) = 1 /\ Head(queue) = Sentinel
      BY <1>1, <1>2, <1>5, <2>1
    <3>2. Len(queue') = 0
      BY <1>2, <3>1
    <3>3. queue' = <<>>
      BY <1>2, <3>2 DEF IsSequence
    <3>4. thread' = "ended" /\ ~Closed' /\ Waiting' = 0 /\ InHand' = 0 /\ InHand = 0
      BY <1>1, <3>1, <3>2
    <3>5. GoingOn'
      BY <1>1, <1>5, <3>1, <3>3, <3>4
    <3>6. Accounted'
      BY <1>1, <1>3, <1>5, <2>1, <3>4
    <3>7. ~misbehaved => Undisturbed'
      BY <1>1, <1>5, <2>1, <3>4, DispatcherAssumption DEF Shape
    <3> QED
      BY <3>5, <3>6, <3>7
  <2>2. CASE Waiting # 0
    <3>1. Waiting \in Nat /\ Waiting >= 1 /\ 1 \in 1..Waiting
      BY <1>1, <1>2, <2>2
    <3>2. queue[1] = accepted[Len(received) + 1] /\ Len(received) + 1 \in 1..Len(accepted)
      BY <1>1, <1>3, <1>5, <3>1
    <3>3. Head(queue) # Sentinel
      BY <1>2, <3>2 DEF Shape
    <3>4. thread' = "got" /\ Waiting' = Waiting - 1 /\ item' = accepted'[Len(received') + 1]
      BY <1>1, <1>2, <3>2, <3>3
    <3>5. GoingOn'
      <4>1. Closed' = Closed
        BY <1>1, <3>4
      <4>2. CASE Closed
        <5>1. Len(queue) >= 2 /\ queue'[Len(queue')] = Sentinel /\ Len(queue') >= 1
          BY <1>1, <1>2, <1>5, <3>1, <4>2
        <5>2. queue' # <<>>
          BY <5>1
        <5> QED
          BY <1>1, <1>5, <3>4, <5>1, <5>2
      <4> QED
        BY <1>1, <1>5, <3>4, <4>1, <4>2
    <3>6. \A i \in 1..Waiting' : queue'[i] = accepted'[Len(received') + InHand' + i]
      <4> SUFFICES ASSUME NEW i \in 1..Waiting'
                   PROVE  queue'[i] = accepted'[Len(received') + InHand' + i]
        OBVIOUS
      <4>1. i \in 1..Len(queue) - 1 /\ i + 1 \in 1..Waiting
        BY <1>2, <3>1, <3>4
      <4>2. queue'[i] = queue[i + 1]
        BY <1>2, <4>1
      <4>3. queue[i + 1] = accepted[Len(received) + (i + 1)]
        BY <1>1, <1>3, <1>5, <4>1
      <4>4. Len(received) + (i + 1) = Len(received') + InHand' + i
        BY <1>1, <1>3, <3>4
      <4> QED
        BY <1>1, <4>2, <4>3, <4>4
    <3>7. Accounted'
      BY <1>1, <1>3, <1>5, <3>1, <3>4, <3>6
    <3>8. ~misbehaved => Undisturbed'
      BY <1>1, <1>3, <1>5, <3>1, <3>4, DispatcherAssumption DEF Shape
    <3> QED
      BY <3>5, <3>7, <3>8
  <2> QED
    BY <2>1, <2>2
<1> QED
  BY <1>1, <1>4, <1>5, <1>6

LEMMA DecideStep == ASSUME Inv, Decide PROVE Inv'
<1> USE DEF Inv, Threads, Finishers, threadVars, historyVars
<1>1. /\ thread = "got" /\ thread' \in {"get", "discard", "call"}
      /\ UNCHANGED <<queue, accepting, item, pace, spent, finisher, returned, accepted, received,
                     misbehaved>>
  BY DEF Decide
<1>2. Shape'
  BY <1>1 DEF Shape
<1>3. Told'
  <2>1. failed \/ finisher # "done"
    BY <1>1 DEF GoingOn
  <2> QED
    <3>1. CASE failed
      BY <1>1, <3>1 DEF Told, Decide
    <3>2. CASE ~failed
      <4>1. failed' => notice'
        BY <3>2 DEF Decide, Fail
      <4> QED
        BY <1>1, <2>1, <3>2, <4>1 DEF Told
    <3> QED
      BY <3>1, <3>2
<1>4. ASSUME ~failed' PROVE GoingOn' /\ Accounted'
  <2>1. ~failed /\ thread' = "call"
    BY <1>4 DEF Decide, Fail
  <2> QED
    BY <1>1, <2>1 DEF GoingOn, Accounted, Closed, Waiting, InHand
<1>5. ASSUME ~misbehaved PROVE Undisturbed'
  <2>1. Len(queue) \in Nat
    BY LengthIsNatural DEF Shape
  <2>2. Waiting \in Nat
    <3>1. CASE Closed
      <4>1. queue # <<>>
        BY <1>5, <3>1 DEF Undisturbed, GoingOn
      <4> QED
        BY <2>1, <3>1, <4>1, TailIsSequence DEF Waiting, Shape
    <3> QED
      BY <2>1, <3>1 DEF Waiting
  <2>3. ~Overdue
    BY <1>1, <1>5, <2>2, DispatcherAssumption DEF Overdue, Undisturbed, WithinBudget, Uncounted, Shape
  <2>4. thread' = "call" /\ failed' = failed
    BY <1>5, <2>3 DEF Decide, Undisturbed
  <2> QED
    BY <1>1, <1>5, <2>4 DEF Undisturbed, WithinBudget, Closed, Waiting, Uncounted
<1> QED
  BY <1>1, <1>2, <1>3, <1>4, <1>5

LEMMA CallStep == ASSUME Inv, Call PROVE Inv'
<1> USE DEF Inv, Threads, Finishers, threadVars, historyVars
<1>1. /\ thread = "call" /\ thread' = "sink" /\ received' = Append(received, item)
      /\ UNCHANGED <<queue, failed, notice, accepting, item, spent, finisher, returned, accepted>>
      /\ ~misbehaved' => ~misbehaved /\ pace' = "prompt"
  BY DEF Call
<1>2. /\ IsSequence(received') /\ Len(received) \in Nat
      /\ Len(received') = Len(received) + 1 /\ received'[Len(received) + 1] = item
      /\ \A i \in 1..Len(received) : received'[i] = received[i]
  BY <1>1, AppendIsSequence DEF Shape
<1>3. Shape'
  BY <1>1, <1>2 DEF Shape
<1>4. Told' /\ (~misbehaved' => Undisturbed')
  BY <1>1 DEF Told, Undisturbed, WithinBudget, Closed, Waiting, Uncounted
<1>6. ASSUME ~failed' PROVE GoingOn'
  BY <1>1, <1>6 DEF GoingOn, Closed
<1>5. ASSUME ~failed' PROVE Accounted'
  <2>1. Len(queue) \in Nat /\ Len(accepted) \in Nat
    BY LengthIsNatural DEF Shape
  <2>2. Accounted /\ InHand = 1 /\ InHand' = 0 /\ Waiting' = Waiting /\ Waiting \in Int
    BY <1>1, <1>5, <2>1 DEF InHand, Waiting, Closed
  <2>3. item = accepted[Len(received) + 1]
    BY <2>2 DEF Accounted
  <2>4. \A i \in 1..Len(received') : received'[i] = accepted'[i]
    BY <1>1, <1>2, <2>2, <2>3 DEF Accounted
  <2>5. Len(accepted') = Len(received') + InHand' + Waiting'
    BY <1>1, <1>2, <2>1, <2>2 DEF Accounted
  <2>6. \A i \in 1..Waiting : Len(received) + InHand + i = Len(received') + InHand' + i
    BY <1>2, <2>2
  <2>7. \A i \in 1..Waiting' : queue'[i] = accepted'[Len(received') + InHand' + i]
    BY <1>1, <2>2, <2>6 DEF Accounted
  <2> QED
    BY <2>2, <2>4, <2>5, <2>7 DEF Accounted
<1> QED
  BY <1>3, <1>4, <1>5, <1>6

LEMMA SinkReturnsStep == ASSUME Inv, SinkReturns PROVE Inv'
<1> USE DEF Inv, Threads, Finishers, threadVars, historyVars
<1>1. /\ thread = "sink" /\ thread' = "judge"
      /\ spent' = IF accepting THEN spent ELSE spent + 1
      /\ UNCHANGED <<queue, accepting, item, pace, finisher, returned, accepted, received,
                     misbehaved>>
      /\ pace = "prompt" => failed' = failed /\ notice' = notice
      /\ pace # "prompt" => failed' /\ notice'
  BY DEF SinkReturns, Fail
<1>2. Shape'
  BY <1>1 DEF Shape
<1>3. Told'
  <2>1. failed \/ finisher # "done"
    BY <1>1 DEF GoingOn
  <2>2. failed' => notice'
    <3>1. failed => notice
      BY DEF Told
    <3>2. CASE pace = "prompt"
      <4>1. failed' = failed /\ notice' = notice
        BY <1>1, <3>2
      <4> HIDE DEF Inv
      <4> QED
        BY <3>1, <4>1
    <3>3. CASE pace # "prompt"
      BY <1>1, <3>3
    <3> QED
      BY <3>2, <3>3
  <2>3. finisher' = "done" => returned'
    BY <1>1, <2>1 DEF Told
  <2> QED
    BY <2>2, <2>3 DEF Told
<1>4. ASSUME ~failed' PROVE GoingOn' /\ Accounted'
  BY <1>1, <1>4 DEF GoingOn, Accounted, Closed, Waiting, InHand
<1>5. ASSUME ~misbehaved PROVE WithinBudget'
  <2>1. Waiting' = Waiting /\ Uncounted = 1 /\ Uncounted' = 0 /\ Len(queue) \in Nat
    BY <1>1, LengthIsNatural DEF Waiting, Closed, Uncounted, Shape
  <2>2. Waiting \in Int
    BY <2>1 DEF Waiting
  <2>3. ASSUME ~accepting PROVE spent' + Uncounted' + Waiting' <= Capacity + 1
    BY <1>1, <1>5, <2>1, <2>2, <2>3, DispatcherAssumption DEF Undisturbed, WithinBudget, Shape
  <2> QED
    BY <1>1, <2>3 DEF WithinBudget
<1>6. ASSUME ~misbehaved PROVE Undisturbed'
  BY <1>1, <1>5, <1>6 DEF Undisturbed
<1> QED
  BY <1>1, <1>2, <1>3, <1>4, <1>6

LEMMA JudgeStep == ASSUME Inv, Judge PROVE Inv'
<1> USE DEF Inv, Threads, Finishers, threadVars, historyVars
<1>1. /\ thread = "judge" /\ thread' \in {"get", "discard"} /\ (~failed => thread' = "get")
      /\ UNCHANGED <<queue, failed, notice, accepting, item, pace, spent, finisher, returned,
                     accepted, received, misbehaved>>
  BY DEF Judge
<1>2. Shape'
  BY <1>1 DEF Shape
<1>3. Told' /\ (~failed => GoingOn' /\ Accounted') /\ (~misbehaved => Undisturbed')
  BY <1>1 DEF Told, GoingOn, Undisturbed, Accounted, WithinBudget, Closed, Waiting, InHand,
     Uncounted
<1> QED
  BY <1>1, <1>2, <1>3

(* Nothing is discarded unless delivery has failed.                        *)
LEMMA DiscardStep == ASSUME Inv, Discard PROVE Inv'
<1>1. /\ thread = "discard" /\ thread' = "ended" /\ queue' = <<>>
      /\ UNCHANGED <<failed, notice, accepting, spent, finisher, returned, accepted, received,
                     misbehaved>>
  BY DEF Discard, historyVars
<1>2. failed /\ misbehaved
  BY <1>1 DEF Inv, GoingOn, Undisturbed
<1>3. Shape'
  BY <1>1, EmptySequence, DispatcherAssumption DEF Inv, Shape, Threads
<1> QED
  BY <1>1, <1>2, <1>3 DEF Inv, Told

LEMMA CloseStep == ASSUME Inv, CloseAcceptance PROVE Inv'
<1> USE DEF Inv, Threads, Finishers, threadVars, historyVars
<1>1. /\ finisher = "waiting" /\ finisher' = "sentinel" /\ accepting /\ accepting' = FALSE
      /\ spent = 0
      /\ UNCHANGED <<queue, failed, notice, thread, item, pace, spent, returned, accepted,
                     received, misbehaved>>
  BY DEF CloseAcceptance, Shape
<1>2. Shape'
  BY <1>1 DEF Shape
<1>3. Told' /\ (~failed => GoingOn' /\ Accounted')
  BY <1>1 DEF Told, GoingOn, Accounted, Closed, Waiting, InHand
<1>4. WithinBudget'
  <2>1. Waiting' = Len(queue) /\ Len(queue) \in Nat /\ Len(queue) <= Capacity
    BY <1>1, LengthIsNatural DEF Waiting, Closed, Shape
  <2> QED
    BY <1>1, <2>1, DispatcherAssumption DEF WithinBudget, Uncounted
<1> QED
  BY <1>1, <1>2, <1>3, <1>4 DEF Undisturbed

LEMMA PutStep == ASSUME Inv, PutSentinel PROVE Inv'
<1> USE DEF Inv, Threads, Finishers, threadVars, historyVars
<1>1. /\ finisher = "sentinel" /\ finisher' = "join" /\ ~accepting
      /\ UNCHANGED <<accepting, thread, item, pace, spent, returned, accepted, received,
                     misbehaved>>
  BY DEF PutSentinel, Shape
<1>2. CASE Len(queue) < Capacity /\ queue' = Append(queue, Sentinel) /\ UNCHANGED <<failed, notice>>
  <2>1. /\ IsSequence(queue') /\ Len(queue) \in Nat /\ Len(queue') = Len(queue) + 1
        /\ queue'[Len(queue) + 1] = Sentinel /\ \A i \in 1..Len(queue) : queue'[i] = queue[i]
    BY <1>2, AppendIsSequence DEF Shape
  <2>2. Shape' /\ Told'
    BY <1>1, <1>2, <2>1, DispatcherAssumption DEF Shape, Told
  <2>3. ASSUME ~failed PROVE GoingOn' /\ Accounted' /\ (~misbehaved => Undisturbed')
    <3>1. thread # "ended" /\ Closed' /\ ~Closed
      BY <1>1, <2>3 DEF GoingOn, Closed
    <3>2. Waiting = Len(queue) /\ Waiting' = Waiting /\ InHand' = InHand
          /\ Uncounted' = Uncounted
      BY <1>1, <2>1, <3>1 DEF Waiting, InHand, Uncounted
    <3>3. queue' # <<>>
      BY <2>1
    <3>4. GoingOn'
      BY <1>1, <1>2, <2>1, <2>3, <3>1, <3>3 DEF GoingOn
    <3>5. Accounted' /\ (~misbehaved => Undisturbed')
      BY <1>1, <1>2, <2>1, <2>3, <3>2 DEF Accounted, Undisturbed, WithinBudget
    <3> QED
      BY <3>4, <3>5
  <2> QED
    BY <1>1, <1>2, <2>2, <2>3 DEF Undisturbed
<1>3. CASE Stuck /\ Fail /\ UNCHANGED queue
  <2>1. misbehaved
    BY <1>3 DEF Stuck, Undisturbed
  <2> QED
    BY <1>1, <1>3, <2>1 DEF Shape, Told, Fail
<1> QED
  BY <1>2, <1>3 DEF PutSentinel

LEMMA JoinStep == ASSUME Inv, Join PROVE Inv'
<1> USE DEF Inv, Threads, Finishers, threadVars, historyVars
<1>1. /\ finisher = "join" /\ finisher' = "done" /\ returned' = notice'
      /\ UNCHANGED <<queue, accepting, thread, item, pace, spent, accepted, received, misbehaved>>
  BY DEF Join
<1>2. Shape'
  BY <1>1 DEF Shape
<1>3. Told'
  <2>1. failed' => notice'
    BY DEF Join, Fail, Told
  <2> QED
    BY <1>1, <2>1 DEF Told
<1>4. ASSUME ~failed' PROVE GoingOn' /\ Accounted'
  <2>1. thread = "ended" /\ ~failed
    BY <1>4 DEF Join, Fail
  <2> QED
    BY <1>1, <2>1 DEF GoingOn, Accounted, Closed, Waiting, InHand
<1>5. ASSUME ~misbehaved PROVE Undisturbed'
  <2>1. thread = "ended" /\ failed' = failed
    BY <1>5 DEF Join, Stuck, Undisturbed
  <2> QED
    BY <1>1, <1>5, <2>1 DEF Undisturbed, WithinBudget, Closed, Waiting, Uncounted
<1> QED
  BY <1>1, <1>2, <1>3, <1>4, <1>5

(* The invariant holds, whatever the sink does.                            *)
THEOREM Invariance == Spec => []Inv
<1>1. Inv /\ [Next]_vars => Inv'
  <2> SUFFICES ASSUME Inv, [Next]_vars PROVE Inv'
    OBVIOUS
  <2>1. CASE UNCHANGED dispatchVars
    BY <2>1 DEF dispatchVars, threadVars, historyVars, Inv, Shape, Told, GoingOn, Undisturbed,
       Accounted, WithinBudget, Closed, Waiting, InHand, Uncounted
  <2>2. ASSUME NEW s \in Stream, SubmitChunk(s) PROVE Inv'
    <3> DEFINE chunk == [stream |-> s, text |-> Head(outbox[s])]
    <3>1. chunk # Sentinel
      BY OutputAssumption DEF Sentinel
    <3>2. Submit(chunk)
      BY <2>2 DEF SubmitChunk
    <3> HIDE DEF chunk
    <3> QED
      BY <3>1, <3>2, SubmitStep
  <2>3. CASE Collect
    BY <2>3, CloseStep, PutStep, JoinStep DEF Collect, Finish
  <2>4. CASE Deliver
    BY <2>4, GetStep, DecideStep, CallStep, SinkReturnsStep, JudgeStep, DiscardStep
       DEF Deliver, Dispatch
  <2> QED
    BY <2>1, <2>2, <2>3, <2>4 DEF Next, Read, ReadPiece, EndStream, vars
<1> QED
  BY <1>1, InitInv, PTL DEF Spec

-----------------------------------------------------------------------------
(* Once finish is done, what was accepted has been received, unless live   *)
(* delivery has failed.                                                    *)
LEMMA AllReceived ==
  ASSUME Inv, finisher = "done", ~failed
  PROVE  received = accepted
<1>1. thread = "ended" /\ queue = <<>>
  BY DEF Inv, GoingOn
<1>2. Waiting = 0 /\ InHand = 0
  BY <1>1 DEF Waiting, InHand, Closed
<1>3. Len(received) \in Nat
  BY LengthIsNatural DEF Inv, Shape
<1>4. Len(received) = Len(accepted) /\ \A i \in 1..Len(received) : received[i] = accepted[i]
  BY <1>2, <1>3 DEF Inv, Accounted
<1> QED
  BY <1>4, SameSequence DEF Inv, Shape

(* Every accepted chunk is delivered before finish returns, in the order   *)
(* of acceptance, to a sink that keeps its contract (SinkDispatcher.finish *)
(* and its drain budget), however full the queue was when it closed.       *)
THEOREM CompliantServed == Spec => []CompliantGetsAll
<1>1. Inv => CompliantGetsAll
  BY AllReceived DEF CompliantGetsAll, Inv, Undisturbed
<1> QED
  BY <1>1, Invariance, PTL

(* The dispatcher's half of LossIsTold, for a sink that may raise, exceed  *)
(* its budget or never return: unless finish reports a truncation, the     *)
(* sink was called with every accepted chunk, in the order of acceptance.  *)
QuietIsComplete == finisher = "done" /\ ~returned => received = accepted

THEOREM QuietServed == Spec => []QuietIsComplete
<1>1. Inv => QuietIsComplete
  BY AllReceived DEF QuietIsComplete, Inv, Told
<1> QED
  BY <1>1, Invariance, PTL

-----------------------------------------------------------------------------
(* The redacted text on its way: what submit took and what a reader still  *)
(* holds are sequences of symbols, ...                                     *)
Readers == {"reading", "ended", "failed"}

ReaderShape ==
    /\ text \in [Stream -> Seq(Letter)]
    /\ taken \in [Stream -> Nat] /\ \A s \in Stream : taken[s] <= Len(text[s])
    /\ reader \in [Stream -> Readers]
    /\ pending \in [Stream -> Seq(Letter)]
    /\ outbox \in [Stream -> Seq(Seq(Symbol))]
    /\ emitted \in [Stream -> Seq(Symbol)]

(* What Feed does to the state of its stream, and that it is of the type.  *)
Fed(s, w, ended, aborted) ==
    /\ w \in Seq(Letter)
    /\ pending' = [pending EXCEPT ![s] = Kept(w, ended, aborted, 1)]
    /\ outbox' = [outbox EXCEPT ![s] = SplitOf(w, ended, aborted, 1).chunks]
    /\ emitted' = [emitted EXCEPT ![s] = Joined(emitted[s], Shown(w, ended, aborted, 1))]
    /\ Kept(w, ended, aborted, 1) \in Seq(Letter)
    /\ SplitOf(w, ended, aborted, 1).chunks \in Seq(Seq(Symbol))
    /\ Joined(emitted[s], Shown(w, ended, aborted, 1)) \in Seq(Symbol)

LEMMA FeedDoes ==
  ASSUME ReaderShape, NEW s \in Stream, NEW piece \in Seq(Letter),
         NEW ended \in BOOLEAN, NEW aborted \in BOOLEAN, Feed(s, piece, ended, aborted)
  PROVE  Fed(s, pending[s] \o piece, ended, aborted)
<1> DEFINE w == pending[s] \o piece
<1>1. pending[s] \in Seq(Letter) /\ emitted[s] \in Seq(Symbol) /\ w \in Seq(Letter)
  BY ConcatProperties DEF ReaderShape
<1>2. 1 \in 1..Len(w) + 1
  BY <1>1, LenProperties
<1>3. /\ SplitOf(w, ended, aborted, 1) \in SplitResult
      /\ SplitOf(w, ended, aborted, 1).chunks \in Seq(Seq(Symbol))
      /\ Shown(w, ended, aborted, 1) \in Seq(Symbol)
  BY <1>1, <1>2, SplitType
<1>4. Kept(w, ended, aborted, 1) \in Seq(Letter)
  BY <1>3 DEF SplitResult, Kept
<1>5. Joined(emitted[s], Shown(w, ended, aborted, 1)) \in Seq(Symbol)
  BY <1>1, <1>3, JoinedType
<1>6. Emitted(w, ended, aborted) = SplitOf(w, ended, aborted, 1)
  BY DEF Emitted, Split, SplitOf, Keep
<1>7. /\ pending' = [pending EXCEPT ![s] = Emitted(w, ended, aborted).pending]
      /\ outbox' = [outbox EXCEPT ![s] = Emitted(w, ended, aborted).chunks]
      /\ emitted' = [emitted EXCEPT ![s] = @ \o FlattenSeq(Emitted(w, ended, aborted).chunks)]
  BY DEF Feed
<1>8. emitted' = [emitted EXCEPT ![s] = Joined(emitted[s], Shown(w, ended, aborted, 1))]
  BY <1>6, <1>7 DEF Joined, Shown
<1> HIDE DEF w
<1>9. Fed(s, w, ended, aborted)
  BY <1>1, <1>3, <1>4, <1>5, <1>6, <1>7, <1>8 DEF Fed, Kept
<1> QED
  BY <1>9 DEF w

(* The cases of a step, each with the text it feeds.                       *)
LEMMA PieceRead ==
  ASSUME ReaderShape, NEW s \in Stream, ReadPiece(s)
  PROVE  \E u \in taken[s] + 1..Len(text[s]) :
            /\ taken' = [taken EXCEPT ![s] = u]
            /\ taken[s] \in 0..Len(text[s]) /\ u \in taken[s]..Len(text[s])
            /\ SubSeq(text[s], taken[s] + 1, u) \in Seq(Letter)
            /\ Feed(s, SubSeq(text[s], taken[s] + 1, u), FALSE, FALSE)
<1>1. PICK u \in taken[s] + 1..Len(text[s]) :
          /\ taken' = [taken EXCEPT ![s] = u]
          /\ Feed(s, SubSeq(text[s], taken[s] + 1, u), FALSE, FALSE)
  BY DEF ReadPiece
<1>2. text[s] \in Seq(Letter) /\ taken[s] \in Nat /\ Len(text[s]) \in Nat /\ taken[s] <= Len(text[s])
  BY LenProperties DEF ReaderShape
<1>3. /\ taken[s] \in 0..Len(text[s]) /\ u \in taken[s]..Len(text[s])
      /\ taken[s] + 1 \in 1..Len(text[s]) + 1 /\ u \in (taken[s] + 1) - 1..Len(text[s])
  BY <1>2
<1>4. SubSeq(text[s], taken[s] + 1, u) \in Seq(Letter)
  BY <1>2, <1>3, Piece
<1> QED
  BY <1>1, <1>3, <1>4

(* Both hold at the start and are kept by every step of a reader; the      *)
(* dispatcher does not touch them.                                         *)
LEMMA ReaderShapeInit == Init => ReaderShape
<1> SUFFICES ASSUME Init PROVE ReaderShape
  OBVIOUS
<1>1. /\ text \in Texts /\ taken = [s \in Stream |-> 0] /\ pending = [s \in Stream |-> <<>>]
      /\ outbox = pending /\ emitted = pending /\ reader = [s \in Stream |-> "reading"]
  BY DEF Init
<1>2. text \in [Stream -> Seq(Letter)]
  BY <1>1, OutputAssumption
<1>3. <<>> \in Seq(Letter) /\ <<>> \in Seq(Symbol) /\ <<>> \in Seq(Seq(Symbol))
  BY EmptySeq
<1>4. \A s \in Stream : taken[s] <= Len(text[s])
  BY <1>1, <1>2, LenProperties
<1> QED
  BY <1>1, <1>2, <1>3, <1>4 DEF ReaderShape, Readers

LEMMA ReaderShapeStep ==
  ASSUME ReaderShape, [Next]_vars
  PROVE  ReaderShape'
<1>1. CASE UNCHANGED readerVars
  BY <1>1 DEF readerVars, ReaderShape
<1>2. ASSUME NEW s \in Stream, ReadPiece(s) PROVE ReaderShape'
  <2>1. PICK u \in taken[s] + 1..Len(text[s]) :
            /\ taken' = [taken EXCEPT ![s] = u] /\ u \in taken[s]..Len(text[s])
            /\ SubSeq(text[s], taken[s] + 1, u) \in Seq(Letter)
            /\ Feed(s, SubSeq(text[s], taken[s] + 1, u), FALSE, FALSE)
    BY <1>2, PieceRead
  <2> DEFINE w == pending[s] \o SubSeq(text[s], taken[s] + 1, u)
             k == Kept(w, FALSE, FALSE, 1)
             c == SplitOf(w, FALSE, FALSE, 1).chunks
             e == Joined(emitted[s], Shown(w, FALSE, FALSE, 1))
  <2>2. /\ pending' = [pending EXCEPT ![s] = k] /\ outbox' = [outbox EXCEPT ![s] = c]
        /\ emitted' = [emitted EXCEPT ![s] = e]
        /\ k \in Seq(Letter) /\ c \in Seq(Seq(Symbol)) /\ e \in Seq(Symbol)
    <3>1. Fed(s, w, FALSE, FALSE)
      BY <2>1, FeedDoes
    <3> QED
      BY <3>1 DEF Fed
  <2>3. UNCHANGED <<text, reader>>
    BY <1>2 DEF ReadPiece
  <2> HIDE DEF w, k, c, e
  <2>4. u \in Nat /\ u <= Len(text[s])
    BY <2>1, LenProperties DEF ReaderShape
  <2>5. taken' \in [Stream -> Nat] /\ \A r \in Stream : taken'[r] <= Len(text'[r])
    BY <2>1, <2>3, <2>4 DEF ReaderShape
  <2>6. pending' \in [Stream -> Seq(Letter)] /\ outbox' \in [Stream -> Seq(Seq(Symbol))]
        /\ emitted' \in [Stream -> Seq(Symbol)]
    BY <2>2 DEF ReaderShape
  <2> QED
    BY <2>3, <2>5, <2>6 DEF ReaderShape
<1>3. ASSUME NEW s \in Stream, EndStream(s) PROVE ReaderShape'
  <2>1. PICK a \in BOOLEAN : Feed(s, <<>>, TRUE, a)
    BY <1>3 DEF EndStream
  <2>2. <<>> \in Seq(Letter)
    BY EmptySeq
  <2> DEFINE w == pending[s] \o <<>>
             k == Kept(w, TRUE, a, 1)
             c == SplitOf(w, TRUE, a, 1).chunks
             e == Joined(emitted[s], Shown(w, TRUE, a, 1))
  <2>3. /\ pending' = [pending EXCEPT ![s] = k] /\ outbox' = [outbox EXCEPT ![s] = c]
        /\ emitted' = [emitted EXCEPT ![s] = e]
        /\ k \in Seq(Letter) /\ c \in Seq(Seq(Symbol)) /\ e \in Seq(Symbol)
    <3>1. Fed(s, w, TRUE, a)
      BY <2>1, <2>2, FeedDoes
    <3> QED
      BY <3>1 DEF Fed
  <2>4. UNCHANGED <<text, taken>>
    BY <1>3 DEF EndStream
  <2>5. reader' \in [Stream -> Readers]
    BY <1>3 DEF EndStream, ReaderShape, Readers
  <2> HIDE DEF w, k, c, e
  <2>6. pending' \in [Stream -> Seq(Letter)] /\ outbox' \in [Stream -> Seq(Seq(Symbol))]
        /\ emitted' \in [Stream -> Seq(Symbol)]
    BY <2>3 DEF ReaderShape
  <2> QED
    BY <2>4, <2>5, <2>6 DEF ReaderShape
<1>4. ASSUME NEW s \in Stream, SubmitChunk(s) PROVE ReaderShape'
  <2>1. outbox[s] # <<>> /\ outbox' = [outbox EXCEPT ![s] = Tail(@)]
        /\ UNCHANGED <<text, taken, pending, emitted, reader>>
    BY <1>4 DEF SubmitChunk
  <2>2. outbox[s] \in Seq(Seq(Symbol))
    BY DEF ReaderShape
  <2>3. Tail(outbox[s]) \in Seq(Seq(Symbol))
    BY <2>1, <2>2, FlattenHead
  <2> QED
    BY <2>1, <2>3 DEF ReaderShape
<1> QED
  BY <1>1, <1>2, <1>3, <1>4 DEF Next, Read, Collect, Deliver, vars

-----------------------------------------------------------------------------
(* Of each stream, what was shown continues into the whole's redaction.    *)
Progress(s) ==
    /\ reader[s] = "reading" => Follows(text[s], taken[s], emitted[s], pending[s])
    /\ reader[s] = "ended" => emitted[s] = RedactedFrom(text[s])[1]
    /\ reader[s] = "failed" => Breaks(emitted[s], RedactedFrom(text[s])[1])

AllProgress == ReaderShape /\ (Unnested => \A s \in Stream : Progress(s))

(* Nothing is shown, and all is to come.                                   *)
LEMMA ProgressInit == ASSUME Init PROVE AllProgress
<1>1. ReaderShape
  BY ReaderShapeInit
<1>2. ASSUME NEW s \in Stream PROVE Progress(s)
  <2>1. /\ taken[s] = 0 /\ pending[s] = <<>> /\ emitted[s] = <<>> /\ reader[s] = "reading"
        /\ text[s] \in Seq(Letter)
    BY <1>1 DEF Init, ReaderShape
  <2>2. 1 \in 1..Len(text[s]) + 1 /\ 0 \in 0..0 /\ 0 + 1 = 1
    BY <2>1, LenProperties
  <2>3. RedactedFrom(text[s])[1] \in Seq(Symbol)
    BY <2>1, <2>2, SymbolFacts
  <2>4. Cut(text[s], 0 + 1, 0) = <<>>
    BY <2>1, SubSeqEmpty DEF Cut
  <2>5. Joined(<<>>, RedactedFrom(text[s])[0 + 1]) = RedactedFrom(text[s])[1]
    BY <2>2, <2>3, JoinedEmpty
  <2>6. Follows(text[s], 0, <<>>, <<>>)
    BY <2>2, <2>4, <2>5 DEF Follows
  <2> QED
    BY <2>1, <2>6 DEF Progress
<1> QED
  BY <1>1, <1>2 DEF AllProgress

(* A piece, the end of the stream and a failed read each continue what was *)
(* shown before; submitting changes nothing.                               *)
LEMMA ProgressStep ==
  ASSUME AllProgress, [Next]_vars
  PROVE  AllProgress'
<1>1. ReaderShape /\ ReaderShape'
  BY ReaderShapeStep DEF AllProgress
<1>2. ASSUME Unnested, NEW r \in Stream PROVE Progress(r)'
  <2>0. Progress(r) /\ \A s \in Stream : Progress(s)
    BY <1>2 DEF AllProgress
  <2>1. CASE UNCHANGED <<text, taken, pending, emitted, reader>>
    BY <2>0, <2>1 DEF Progress
  <2>2. ASSUME NEW s \in Stream, ReadPiece(s) PROVE Progress(r)'
    <3>1. PICK u \in taken[s] + 1..Len(text[s]) :
              /\ taken' = [taken EXCEPT ![s] = u]
              /\ taken[s] \in 0..Len(text[s]) /\ u \in taken[s]..Len(text[s])
              /\ SubSeq(text[s], taken[s] + 1, u) \in Seq(Letter)
              /\ Feed(s, SubSeq(text[s], taken[s] + 1, u), FALSE, FALSE)
      BY <1>1, <2>2, PieceRead
    <3> DEFINE w == pending[s] \o SubSeq(text[s], taken[s] + 1, u)
               k == Kept(w, FALSE, FALSE, 1)
               e == Joined(emitted[s], Shown(w, FALSE, FALSE, 1))
    <3>2. pending' = [pending EXCEPT ![s] = k] /\ emitted' = [emitted EXCEPT ![s] = e]
      <4>1. Fed(s, w, FALSE, FALSE)
        BY <1>1, <3>1, FeedDoes
      <4> QED
        BY <4>1 DEF Fed
    <3>3. reader[s] = "reading" /\ UNCHANGED <<text, reader>>
      BY <2>2 DEF ReadPiece
    <3>4. text[s] \in Seq(Letter) /\ emitted[s] \in Seq(Symbol)
      BY <1>1 DEF ReaderShape
    <3>5. Follows(text[s], taken[s], emitted[s], pending[s])
      BY <2>0, <3>3 DEF Progress
    <3>6. Follows(text[s], u, e, k)
      BY <1>2, <3>1, <3>4, <3>5, FeedOpen
    <3> HIDE DEF w, k, e
    <3>7. /\ pending'[r] = IF r = s THEN k ELSE pending[r]
          /\ emitted'[r] = IF r = s THEN e ELSE emitted[r]
          /\ taken'[r] = IF r = s THEN u ELSE taken[r]
      BY <1>1, <3>1, <3>2 DEF ReaderShape
    <3> QED
      BY <2>0, <3>3, <3>6, <3>7 DEF Progress
  <2>3. ASSUME NEW s \in Stream, EndStream(s), reader' = [reader EXCEPT ![s] = "ended"],
               taken[s] = Len(text[s]), Feed(s, <<>>, TRUE, FALSE)
        PROVE  Progress(r)'
    <3> DEFINE w == pending[s] \o <<>>
               e == Joined(emitted[s], Shown(w, TRUE, FALSE, 1))
    <3>1. <<>> \in Seq(Letter)
      BY EmptySeq
    <3>2. emitted' = [emitted EXCEPT ![s] = e] /\ \E k : pending' = [pending EXCEPT ![s] = k]
      <4>1. Fed(s, w, TRUE, FALSE)
        BY <1>1, <2>3, <3>1, FeedDoes
      <4> QED
        BY <4>1 DEF Fed
    <3>3. reader[s] = "reading" /\ UNCHANGED <<text, taken>>
      BY <2>3 DEF EndStream
    <3>4. text[s] \in Seq(Letter) /\ emitted[s] \in Seq(Symbol)
      BY <1>1 DEF ReaderShape
    <3>5. Follows(text[s], taken[s], emitted[s], pending[s])
      BY <2>0, <3>3 DEF Progress
    <3>6. e = RedactedFrom(text[s])[1]
      BY <1>2, <2>3, <3>4, <3>5, FeedEnded
    <3> HIDE DEF w, e
    <3>7. /\ emitted'[r] = IF r = s THEN e ELSE emitted[r]
          /\ reader'[r] = IF r = s THEN "ended" ELSE reader[r]
          /\ r # s => pending'[r] = pending[r]
      BY <1>1, <2>3, <3>2 DEF ReaderShape
    <3> QED
      BY <2>0, <3>3, <3>6, <3>7 DEF Progress
  <2>4. ASSUME NEW s \in Stream, EndStream(s), reader' = [reader EXCEPT ![s] = "failed"],
               Feed(s, <<>>, TRUE, TRUE)
        PROVE  Progress(r)'
    <3> DEFINE w == pending[s] \o <<>>
               e == Joined(emitted[s], Shown(w, TRUE, TRUE, 1))
    <3>1. <<>> \in Seq(Letter)
      BY EmptySeq
    <3>2. emitted' = [emitted EXCEPT ![s] = e] /\ \E k : pending' = [pending EXCEPT ![s] = k]
      <4>1. Fed(s, w, TRUE, TRUE)
        BY <1>1, <2>4, <3>1, FeedDoes
      <4> QED
        BY <4>1 DEF Fed
    <3>3. reader[s] = "reading" /\ UNCHANGED <<text, taken>>
      BY <2>4 DEF EndStream
    <3>4. /\ text[s] \in Seq(Letter) /\ emitted[s] \in Seq(Symbol) /\ taken[s] \in 0..Len(text[s])
      BY <1>1, LenProperties DEF ReaderShape
    <3>5. Follows(text[s], taken[s], emitted[s], pending[s])
      BY <2>0, <3>3 DEF Progress
    <3>6. Breaks(e, RedactedFrom(text[s])[1])
      BY <1>2, <3>4, <3>5, FeedFailed
    <3> HIDE DEF w, e
    <3>7. /\ emitted'[r] = IF r = s THEN e ELSE emitted[r]
          /\ reader'[r] = IF r = s THEN "failed" ELSE reader[r]
          /\ r # s => pending'[r] = pending[r]
      BY <1>1, <2>4, <3>2 DEF ReaderShape
    <3> QED
      BY <2>0, <3>3, <3>6, <3>7 DEF Progress
  <2>5. ASSUME NEW s \in Stream, EndStream(s) PROVE Progress(r)'
    BY <2>3, <2>4, <2>5 DEF EndStream
  <2>6. ASSUME NEW s \in Stream, SubmitChunk(s) PROVE Progress(r)'
    BY <2>1, <2>6 DEF SubmitChunk
  <2> QED
    BY <2>1, <2>2, <2>5, <2>6 DEF Next, Read, Collect, Deliver, vars, readerVars
<1>3. Unnested' => Unnested
  BY DEF Unnested
<1> QED
  BY <1>1, <1>2, <1>3 DEF AllProgress

(* What continues into the whole is a prefix of it.                        *)
LEMMA ProgressShows == ASSUME AllProgress PROVE CuttingIsInvisible
<1> SUFFICES ASSUME Unnested, NEW s \in Stream
    PROVE LET whole == RedactText(text[s])
          IN  CASE reader[s] = "ended" -> emitted[s] = whole
                [] reader[s] = "reading" -> IsPrefix(emitted[s], whole)
                [] OTHER -> \/ IsPrefix(emitted[s], whole)
                            \/ /\ emitted[s] # <<>> /\ Last(emitted[s]) = Marker
                               /\ IsPrefix(Front(emitted[s]), whole)
  BY DEF CuttingIsInvisible
<1> DEFINE W == RedactText(text[s])
           e == emitted[s]
<1>1. /\ ReaderShape /\ Progress(s) /\ W = RedactedFrom(text[s])[1] /\ e \in Seq(Symbol)
      /\ text[s] \in Seq(Letter) /\ taken[s] \in 0..Len(text[s]) /\ Len(text[s]) \in Nat
      /\ reader[s] \in Readers
  BY LenProperties DEF AllProgress, RedactText, ReaderShape
<1>2. CASE reader[s] = "ended"
  BY <1>1, <1>2 DEF Progress
<1>3. CASE reader[s] = "reading"
  <2>1. PICK q \in 0..taken[s] : Joined(e, RedactedFrom(text[s])[q + 1]) = W
    BY <1>1, <1>3 DEF Progress, Follows
  <2>2. q + 1 \in 1..Len(text[s]) + 1
    BY <1>1
  <2>3. RedactedFrom(text[s])[q + 1] \in Seq(Symbol)
    BY <1>1, <2>2, SymbolFacts
  <2>4. IsPrefix(e, Joined(e, RedactedFrom(text[s])[q + 1]))
    BY <1>1, <2>3, JoinedPrefix
  <2> QED
    BY <1>3, <2>1, <2>4
<1>4. CASE reader[s] = "failed"
  <2>1. PICK g \in Seq(Symbol), z \in Seq(Symbol) :
           Joined(g, z) = W /\ (e = g \/ e = Joined(g, MarkerText))
    BY <1>1, <1>4 DEF Progress, Breaks
  <2> HIDE DEF e, W
  <2>2. IsPrefix(g, W)
    <3>1. IsPrefix(g, Joined(g, z))
      BY JoinedPrefix
    <3> QED
      BY <2>1, <3>1
  <2>3. e = Joined(g, MarkerText) => e # <<>> /\ Last(e) = Marker /\ Front(e) = g
    BY FrontOfMarked
  <2>4. \/ IsPrefix(e, W)
        \/ e # <<>> /\ Last(e) = Marker /\ IsPrefix(Front(e), W)
    BY <2>1, <2>2, <2>3
  <2> QED
    BY <1>4, <2>4 DEF e, W
<1> QED
  BY <1>1, <1>2, <1>3, <1>4 DEF Readers

(* However a pipe is read in pieces, and whatever the secrets are, as long *)
(* as none stands strictly inside another: what RedactingStream has shown of *)
(* a stream is a prefix of redact_text of the whole, all of it at the end, *)
(* and after a failed read at most one marker more (CuttingIsInvisible).   *)
THEOREM CutsUnseen == Spec => []CuttingIsInvisible
<1>1. Init => AllProgress
  BY ProgressInit
<1>2. AllProgress /\ [Next]_vars => AllProgress'
  BY ProgressStep
<1>3. AllProgress => CuttingIsInvisible
  BY ProgressShows
<1> QED
  BY <1>1, <1>2, <1>3, PTL DEF Spec

-----------------------------------------------------------------------------
(* What of a stream is in a sequence of chunks.                            *)
LiveChunk == [stream : Stream, text : Seq(Symbol)]
OfStream(c, s) == IF c.stream = s THEN c.text ELSE <<>>

(* The texts of the chunks of a stream.                                    *)
LEMMA TextOfPieces ==
  ASSUME NEW chunks \in Seq(LiveChunk), NEW s
  PROVE  [i \in DOMAIN chunks |-> OfStream(chunks[i], s)] \in Seq(Seq(Symbol))
<1>1. DOMAIN chunks = 1..Len(chunks) /\ Len(chunks) \in Nat
  BY LenProperties
<1>2. ASSUME NEW i \in 1..Len(chunks) PROVE OfStream(chunks[i], s) \in Seq(Symbol)
  <2>1. chunks[i] \in LiveChunk
    BY ElementOfSeq
  <2>2. chunks[i].text \in Seq(Symbol) /\ <<>> \in Seq(Symbol)
    BY <2>1, EmptySeq DEF LiveChunk
  <2> QED
    BY <2>2 DEF OfStream
<1> QED
  BY <1>1, <1>2, IsASeq

LEMMA TextOfIs ==
  ASSUME NEW chunks, NEW s
  PROVE  TextOf(chunks, s) = FlattenSeq([i \in DOMAIN chunks |-> OfStream(chunks[i], s)])
BY DEF TextOf, OfStream

LEMMA TextOfType ==
  ASSUME NEW chunks \in Seq(LiveChunk), NEW s
  PROVE  TextOf(chunks, s) \in Seq(Symbol)
<1> DEFINE p == [i \in DOMAIN chunks |-> OfStream(chunks[i], s)]
<1>1. p \in Seq(Seq(Symbol)) /\ TextOf(chunks, s) = FlattenSeq(p)
  BY TextOfPieces, TextOfIs
<1> HIDE DEF p
<1> QED
  BY <1>1, FlattenType

(* Of no chunk there is no text.                                           *)
LEMMA TextOfNothing == ASSUME NEW s PROVE TextOf(<<>>, s) = <<>>
<1> DEFINE p == [i \in DOMAIN <<>> |-> OfStream(<<>>[i], s)]
<1>1. <<>> \in Seq(LiveChunk) /\ DOMAIN <<>> = 1..0
  BY EmptySeq, LenProperties
<1>2. p \in Seq(Seq(Symbol)) /\ TextOf(<<>>, s) = FlattenSeq(p)
  BY <1>1, TextOfPieces, TextOfIs
<1>3. DOMAIN p = 1..0
  BY <1>1
<1> HIDE DEF p
<1>4. Len(p) = 0
  BY <1>2, <1>3, LenProperties
<1>5. p = <<>>
  BY <1>2, <1>4, EmptySeq
<1> QED
  BY <1>2, <1>5, FlattenEmpty

(* A chunk at the end adds its text to that of its stream.                 *)
LEMMA TextOfAppend ==
  ASSUME NEW chunks \in Seq(LiveChunk), NEW c \in LiveChunk, NEW s
  PROVE  /\ Append(chunks, c) \in Seq(LiveChunk)
         /\ TextOf(Append(chunks, c), s) = Joined(TextOf(chunks, s), OfStream(c, s))
<1> DEFINE r == Append(chunks, c)
           n == Len(chunks)
           p == [i \in DOMAIN chunks |-> OfStream(chunks[i], s)]
           t == [i \in DOMAIN r |-> OfStream(r[i], s)]
           o == OfStream(c, s)
           a == Append(p, o)
<1>1. /\ r \in Seq(LiveChunk) /\ Len(r) = n + 1 /\ r[n + 1] = c /\ \A i \in 1..n : r[i] = chunks[i]
      /\ n \in Nat /\ DOMAIN chunks = 1..n /\ DOMAIN r = 1..n + 1
  <2>1. /\ r \in Seq(LiveChunk) /\ Len(r) = n + 1 /\ r[n + 1] = c /\ \A i \in 1..n : r[i] = chunks[i]
    BY AppendProperties
  <2> HIDE DEF r
  <2> QED
    BY <2>1, LenProperties
<1>2. p \in Seq(Seq(Symbol)) /\ TextOf(chunks, s) = FlattenSeq(p)
  BY TextOfPieces, TextOfIs
<1> HIDE DEF r
<1>3. t \in Seq(Seq(Symbol)) /\ TextOf(r, s) = FlattenSeq(t)
  BY <1>1, TextOfPieces, TextOfIs
<1>4. o \in Seq(Symbol)
  BY EmptySeq DEF OfStream, LiveChunk
<1>5. Len(p) = n /\ \A i \in 1..n : p[i] = OfStream(chunks[i], s)
  <2>1. DOMAIN p = 1..n /\ \A i \in 1..n : p[i] = OfStream(chunks[i], s)
    BY <1>1
  <2> HIDE DEF p
  <2> QED
    BY <1>1, <1>2, <2>1, LenProperties
<1>6. Len(t) = n + 1 /\ \A i \in 1..n + 1 : t[i] = OfStream(r[i], s)
  <2>1. DOMAIN t = 1..n + 1 /\ \A i \in 1..n + 1 : t[i] = OfStream(r[i], s)
    BY <1>1
  <2> HIDE DEF t
  <2> QED
    BY <1>1, <1>3, <2>1, LenProperties
<1> HIDE DEF p, t
<1>7. /\ a \in Seq(Seq(Symbol)) /\ Len(a) = n + 1 /\ a[n + 1] = o /\ \A i \in 1..n : a[i] = p[i]
  <2> HIDE DEF o, n
  <2> QED
    BY <1>2, <1>4, <1>5, AppendProperties
<1>8. \A i \in 1..n + 1 : t[i] = a[i]
  <2> SUFFICES ASSUME NEW i \in 1..n + 1 PROVE t[i] = a[i]
    OBVIOUS
  <2> HIDE DEF a
  <2>1. CASE i = n + 1
    BY <1>1, <1>6, <1>7, <2>1
  <2>2. CASE i \in 1..n
    BY <1>1, <1>5, <1>6, <1>7, <2>2
  <2> QED
    BY <1>1, <2>1, <2>2
<1>9. t = a
  <2> HIDE DEF a
  <2> QED
    BY <1>3, <1>6, <1>7, <1>8, SeqEqual
<1>10. FlattenSeq(a) = FlattenSeq(p) \o o
  <2> HIDE DEF o
  <2> QED
    BY <1>2, <1>4, FlattenAppend
<1> QED
  BY <1>1, <1>2, <1>3, <1>9, <1>10 DEF Joined, r

-----------------------------------------------------------------------------
(* Without a notice all that was emitted was accepted, or is about to be   *)
(* submitted; the dispatcher is finished when both readers are over.       *)
NothingLost == ~notice => \A s \in Stream :
    emitted[s] = Joined(TextOf(accepted, s), FlattenSeq(outbox[s]))
ReadersOver == finisher # "waiting" => \A s \in Stream : Over(s)
ReturnTells == finisher = "done" /\ ~returned => ~notice

Complete ==
    /\ ReaderShape /\ accepted \in Seq(LiveChunk)
    /\ NothingLost /\ ReadersOver /\ ReturnTells

(* At the start nothing has been emitted.                                  *)
LEMMA CompleteInit == ASSUME Init PROVE Complete
<1>1. ReaderShape
  BY ReaderShapeInit
<1>2. accepted = <<>> /\ finisher = "waiting"
  BY DEF Init, DispatchInit
<1>3. ASSUME NEW s \in Stream PROVE emitted[s] = Joined(TextOf(accepted, s), FlattenSeq(outbox[s]))
  <2>1. emitted[s] = <<>> /\ outbox[s] = <<>> /\ <<>> \in Seq(Symbol)
    BY EmptySeq DEF Init
  <2> QED
    BY <1>2, <2>1, TextOfNothing, FlattenEmpty, JoinedEmpty
<1> QED
  BY <1>1, <1>2, <1>3, EmptySeq DEF Complete, NothingLost, ReadersOver, ReturnTells

(* A reader that feeds a piece holds all of it for submission.             *)
LEMMA FeedKeeps ==
  ASSUME Complete, NEW s \in Stream, outbox[s] = <<>>, NEW piece \in Seq(Letter),
         NEW ended \in BOOLEAN, NEW aborted \in BOOLEAN, Feed(s, piece, ended, aborted),
         UNCHANGED <<notice, accepted>>
  PROVE  NothingLost'
<1> DEFINE w == pending[s] \o piece
           c == SplitOf(w, ended, aborted, 1).chunks
           f == Shown(w, ended, aborted, 1)
<1>1. Fed(s, w, ended, aborted)
  BY FeedDoes DEF Complete
<1>2. /\ outbox' = [outbox EXCEPT ![s] = c] /\ emitted' = [emitted EXCEPT ![s] = Joined(emitted[s], f)]
      /\ f = FlattenSeq(c)
  BY <1>1 DEF Fed, Shown
<1> HIDE DEF w, c, f
<1>3. ASSUME ~notice, NEW r \in Stream
      PROVE  emitted'[r] = Joined(TextOf(accepted, r), FlattenSeq(outbox'[r]))
  <2>1. emitted[r] = Joined(TextOf(accepted, r), FlattenSeq(outbox[r]))
    BY <1>3 DEF Complete, NothingLost
  <2>2. /\ outbox'[r] = IF r = s THEN c ELSE outbox[r]
        /\ emitted'[r] = IF r = s THEN Joined(emitted[s], f) ELSE emitted[r]
    BY <1>2 DEF Complete, ReaderShape
  <2>3. CASE r = s
    <3>1. TextOf(accepted, r) \in Seq(Symbol)
      BY TextOfType DEF Complete
    <3>2. emitted[s] = TextOf(accepted, s)
      BY <2>1, <2>3, <3>1, FlattenEmpty, JoinedEmpty
    <3> QED
      BY <1>2, <2>2, <2>3, <3>2
  <2> QED
    BY <2>1, <2>2, <2>3
<1> QED
  BY <1>3 DEF NothingLost

(* A chunk that is submitted is accepted, or its loss is noted.            *)
LEMMA SubmitKeeps ==
  ASSUME Complete, NEW s \in Stream, SubmitChunk(s)
  PROVE  accepted' \in Seq(LiveChunk) /\ NothingLost'
<1> DEFINE h == Head(outbox[s])
           l == Tail(outbox[s])
           c == [stream |-> s, text |-> h]
<1>1. /\ outbox[s] # <<>> /\ outbox' = [outbox EXCEPT ![s] = l] /\ emitted' = emitted
      /\ \/ notice' /\ accepted' = accepted
         \/ notice' = notice /\ accepted' = Append(accepted, c)
  BY DEF SubmitChunk, Submit
<1>2. outbox[s] \in Seq(Seq(Symbol)) /\ accepted \in Seq(LiveChunk)
  BY DEF Complete, ReaderShape
<1>3. h \in Seq(Symbol) /\ l \in Seq(Seq(Symbol)) /\ FlattenSeq(outbox[s]) = h \o FlattenSeq(l)
  BY <1>1, <1>2, FlattenHead
<1> HIDE DEF h, l
<1>4. c \in LiveChunk /\ OfStream(c, s) = h /\ \A r : r # s => OfStream(c, r) = <<>>
  BY <1>3 DEF LiveChunk, OfStream
<1> HIDE DEF c
<1>5. accepted' \in Seq(LiveChunk)
  BY <1>1, <1>2, <1>4, TextOfAppend
<1>6. ASSUME ~notice', NEW r \in Stream
      PROVE  emitted'[r] = Joined(TextOf(accepted', r), FlattenSeq(outbox'[r]))
  <2>0. ~notice /\ accepted' = Append(accepted, c)
    BY <1>1, <1>6
  <2>1. emitted[r] = Joined(TextOf(accepted, r), FlattenSeq(outbox[r]))
    BY <2>0 DEF Complete, NothingLost
  <2>2. /\ TextOf(accepted, r) \in Seq(Symbol)
        /\ TextOf(accepted', r) = Joined(TextOf(accepted, r), OfStream(c, r))
    BY <1>2, <1>4, <2>0, TextOfType, TextOfAppend
  <2>3. outbox'[r] = IF r = s THEN l ELSE outbox[r]
    BY <1>1 DEF Complete, ReaderShape
  <2>4. CASE r = s
    <3> DEFINE g == FlattenSeq(l)
    <3>1. g \in Seq(Symbol) /\ FlattenSeq(outbox[s]) = Joined(h, g)
      BY <1>3, FlattenType DEF Joined
    <3> HIDE DEF g
    <3>2. Joined(Joined(TextOf(accepted, r), h), g) = Joined(TextOf(accepted, r), Joined(h, g))
      BY <1>3, <2>2, <3>1, JoinedAssociates
    <3>3. emitted'[r] = Joined(Joined(TextOf(accepted, r), h), g)
      BY <1>1, <2>1, <2>4, <3>1, <3>2
    <3>4. TextOf(accepted', r) = Joined(TextOf(accepted, r), h)
      BY <1>4, <2>2, <2>4
    <3> QED
      BY <2>3, <2>4, <3>3, <3>4 DEF g
  <2>5. CASE r # s
    <3>1. TextOf(accepted', r) = TextOf(accepted, r)
      BY <1>4, <2>2, <2>5, JoinedEmpty
    <3> QED
      BY <1>1, <2>1, <2>3, <2>5, <3>1
  <2> QED
    BY <2>4, <2>5
<1> QED
  BY <1>5, <1>6 DEF NothingLost

(* Every step keeps it: a notice is never taken back, and once the readers *)
(* are over none of them submits again.                                    *)
LEMMA CompleteStep ==
  ASSUME Inv, Complete, [Next]_vars
  PROVE  Complete'
<1>1. ReaderShape'
  BY ReaderShapeStep DEF Complete
<1>2. CASE UNCHANGED vars
  BY <1>1, <1>2 DEF Complete, NothingLost, ReadersOver, ReturnTells, Over, vars, readerVars,
     dispatchVars, threadVars, historyVars
<1>3. ASSUME NEW s \in Stream, ReadPiece(s) \/ EndStream(s) PROVE Complete'
  <2>1. /\ outbox[s] = <<>> /\ reader[s] = "reading"
        /\ UNCHANGED <<notice, accepted, finisher, returned>>
    BY <1>3 DEF ReadPiece, EndStream, dispatchVars, historyVars
  <2>2. \E piece \in Seq(Letter), e \in BOOLEAN, a \in BOOLEAN : Feed(s, piece, e, a)
    <3>1. CASE ReadPiece(s)
      BY <3>1, PieceRead DEF Complete
    <3>2. CASE EndStream(s)
      BY <3>2, EmptySeq DEF EndStream
    <3> QED
      BY <1>3, <3>1, <3>2
  <2>3. PICK piece \in Seq(Letter), e \in BOOLEAN, a \in BOOLEAN : Feed(s, piece, e, a)
    BY <2>2
  <2>4. NothingLost'
    BY <2>1, <2>3, FeedKeeps
  <2>5. finisher = "waiting"
    BY <2>1 DEF Complete, ReadersOver, Over
  <2> QED
    BY <1>1, <2>1, <2>4, <2>5 DEF Complete, ReadersOver, ReturnTells
<1>4. ASSUME NEW s \in Stream, SubmitChunk(s) PROVE Complete'
  <2>1. outbox[s] # <<>> /\ UNCHANGED <<finisher, returned>>
    BY <1>4 DEF SubmitChunk, Submit
  <2>2. finisher = "waiting"
    BY <2>1 DEF Complete, ReadersOver, Over
  <2> QED
    BY <1>1, <1>4, <2>1, <2>2, SubmitKeeps DEF Complete, ReadersOver, ReturnTells
<1>5. CASE Collect
  <2>1. /\ \A s \in Stream : Over(s)
        /\ UNCHANGED <<reader, outbox, emitted>>
    BY <1>5 DEF Collect, readerVars
  <2>2. accepted' = accepted /\ (notice => notice') /\ ReturnTells'
    BY <1>5 DEF Collect, Finish, CloseAcceptance, PutSentinel, Join, Fail, historyVars, ReturnTells,
       Complete
  <2>3. NothingLost'
    BY <2>1, <2>2 DEF Complete, NothingLost
  <2>4. ReadersOver'
    BY <2>1 DEF ReadersOver, Over
  <2> QED
    BY <1>1, <2>2, <2>3, <2>4 DEF Complete
<1>6. CASE Deliver
  <2>1. /\ UNCHANGED <<reader, outbox, emitted, accepted, finisher, returned>>
        /\ notice => notice'
    BY <1>6 DEF Deliver, Dispatch, Get, Decide, Call, SinkReturns, Judge, Discard, Fail, readerVars,
       historyVars, threadVars
  <2>2. ASSUME finisher = "done", ~returned PROVE notice' = notice
    <3>1. thread = "ended"
      BY <2>2 DEF Inv, Told, GoingOn
    <3> QED
      BY <1>6, <3>1 DEF Deliver, Dispatch, Get, Decide, Call, SinkReturns, Judge, Discard
  <2>3. NothingLost' /\ ReadersOver' /\ ReturnTells'
    BY <2>1, <2>2 DEF Complete, NothingLost, ReadersOver, ReturnTells, Over
  <2> QED
    BY <1>1, <2>1, <2>3 DEF Complete
<1> QED
  BY <1>2, <1>3, <1>4, <1>5, <1>6 DEF Next, Read

(* With the dispatcher done, what was accepted was received.               *)
LEMMA CompleteTells == ASSUME Inv, Complete PROVE LossIsTold
<1> SUFFICES ASSUME finisher = "done", ~returned, NEW s \in Stream
             PROVE  TextOf(received, s) = emitted[s]
  BY DEF LossIsTold
<1>1. ~notice /\ outbox[s] = <<>>
  BY DEF Complete, ReturnTells, ReadersOver, Over
<1>2. received = accepted
  BY AllReceived DEF Inv, Told
<1>3. emitted[s] = Joined(TextOf(accepted, s), <<>>)
  BY <1>1, FlattenEmpty DEF Complete, NothingLost
<1>4. TextOf(accepted, s) \in Seq(Symbol)
  BY TextOfType DEF Complete
<1> QED
  BY <1>2, <1>3, <1>4, JoinedEmpty

(* Unless finish reports a truncation, the sink was called with all of the *)
(* redacted text of each stream, in its order: no chunk is lost silently   *)
(* between the readers, the queue and a sink that may raise, be late or    *)
(* never return (LossIsTold).                                              *)
THEOREM LossesTold == Spec => []LossIsTold
<1>1. Init => Complete
  BY CompleteInit
<1>2. Inv /\ Complete /\ [Next]_vars => Complete'
  BY CompleteStep
<1>3. Inv /\ Complete => LossIsTold
  BY CompleteTells
<1> QED
  BY <1>1, <1>2, <1>3, Invariance, PTL DEF Spec
=============================================================================
