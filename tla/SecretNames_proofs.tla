------------------------- MODULE SecretNames_proofs -------------------------
(***************************************************************************)
(* What the names of the token stores keep apart, for words of any length  *)
(* and any alphabet.                                                       *)
(***************************************************************************)
EXTENDS SecretNames, FiniteSetTheorems, SequenceTheorems, TLAPS

\* Letters, and dashes between them.
SafeWord(r) ==
    /\ r \in Seq(Letters \union {Dash}) /\ r # <<>>
    /\ r[1] # Dash /\ r[Len(r)] # Dash
    /\ \A i \in 1 .. Len(r) - 1 : r[i] # Dash \/ r[i + 1] # Dash

-------------------------------------------------------------------------------
(* The k-th element of a finite set of numbers *)

\* A larger element has a larger rank.
LEMMA RankGrows ==
    ASSUME NEW n \in Nat, NEW S \in SUBSET (1 .. n), NEW i \in S, NEW j \in S, i < j
    PROVE  Rank(S, i) < Rank(S, j)
  <1> DEFINE low == S \intersect (1 .. i)
             high == S \intersect (1 .. j)
  <1>1. IsFiniteSet(1 .. n)
    BY FS_Interval
  <1>2. IsFiniteSet(high)
    BY <1>1, FS_Subset
  <1>3. low \in SUBSET high /\ j \in high /\ j \notin low
    OBVIOUS
  <1> HIDE DEF low, high
  <1>4. Cardinality(low) <= Cardinality(high) /\ Cardinality(high) # Cardinality(low)
    BY <1>2, <1>3, FS_Subset
  <1>5. IsFiniteSet(low)
    BY <1>2, <1>3, FS_Subset
  <1>6. Cardinality(low) \in Nat /\ Cardinality(high) \in Nat
    BY <1>2, <1>5, FS_CardinalityType
  <1> QED
    BY <1>4, <1>6 DEF Rank, low, high

\* Ranks go from one to the size of the set, and each is that of one element.
LEMMA RankOnto ==
    ASSUME NEW n \in Nat, NEW S \in SUBSET (1 .. n)
    PROVE  /\ IsFiniteSet(S) /\ Cardinality(S) \in Nat
           /\ \A i \in S : Rank(S, i) \in 1 .. Cardinality(S)
           /\ \A k \in 1 .. Cardinality(S) : \E i \in S : Rank(S, i) = k
  <1> DEFINE N == Cardinality(S)
             f == [i \in S |-> Rank(S, i)]
  <1>1. IsFiniteSet(S)
    <2>1. IsFiniteSet(1 .. n)
      BY FS_Interval
    <2> QED
      BY <2>1, FS_Subset
  <1>2. N \in Nat
    BY <1>1, FS_CardinalityType
  <1>3. ASSUME NEW i \in S PROVE Rank(S, i) \in 1 .. N
    <2> DEFINE low == S \intersect (1 .. i)
    <2>1. low \in SUBSET S /\ i \in low
      OBVIOUS
    <2> HIDE DEF low
    <2>2. IsFiniteSet(low) /\ Cardinality(low) <= N
      BY <1>1, <2>1, FS_Subset
    <2>3. Cardinality(low) \in Nat /\ Cardinality(low) # 0
      BY <2>1, <2>2, FS_CardinalityType, FS_EmptySet
    <2> QED
      BY <1>2, <2>2, <2>3 DEF Rank, low
  <1>4. f \in Injection(S, 1 .. N)
    <2>1. f \in [S -> 1 .. N]
      BY <1>3
    <2>2. ASSUME NEW i \in S, NEW j \in S, i # j PROVE f[i] # f[j]
      <3>1. i \in Nat /\ j \in Nat /\ Rank(S, i) \in Nat /\ Rank(S, j) \in Nat
        BY <1>2, <1>3
      <3>2. i < j => Rank(S, i) < Rank(S, j)
        BY RankGrows
      <3>3. j < i => Rank(S, j) < Rank(S, i)
        BY RankGrows
      <3> QED
        BY <2>2, <3>1, <3>2, <3>3
    <2> QED
      BY <2>1, <2>2 DEF Injection, IsInjective
  <1>5. IsFiniteSet(1 .. N) /\ Cardinality(1 .. N) = N
    BY <1>2, FS_Interval
  <1>6. f \in Surjection(S, 1 .. N)
    BY <1>4, <1>5, FS_Injection
  <1> QED
    BY <1>1, <1>2, <1>3, <1>6 DEF Surjection

\* Place lists the set in its order.
LEMMA PlaceLists ==
    ASSUME NEW n \in Nat, NEW S \in SUBSET (1 .. n)
    PROVE  /\ Cardinality(S) \in Nat
           /\ \A k \in 1 .. Cardinality(S) : Place(S, k) \in S /\ Rank(S, Place(S, k)) = k
           /\ \A i \in S : Rank(S, i) \in 1 .. Cardinality(S) /\ Place(S, Rank(S, i)) = i
           /\ \A k, m \in 1 .. Cardinality(S) : k < m => Place(S, k) < Place(S, m)
  <1> DEFINE N == Cardinality(S)
  <1>0. /\ N \in Nat /\ S \subseteq Nat
        /\ \A i \in S : Rank(S, i) \in 1 .. N
        /\ \A k \in 1 .. N : \E i \in S : Rank(S, i) = k
    <2>1. S \subseteq Nat
      OBVIOUS
    <2> QED
      BY ONLY <2>1, n \in Nat, S \in SUBSET (1 .. n), RankOnto, Zenon
  <1>1. ASSUME NEW k \in 1 .. N PROVE Place(S, k) \in S /\ Rank(S, Place(S, k)) = k
    BY <1>0 DEF Place
  <1>2. ASSUME NEW i \in S, NEW j \in S, Rank(S, i) <= Rank(S, j) PROVE i <= j
    <2>1. j < i => Rank(S, j) < Rank(S, i)
      BY RankGrows
    <2> HIDE DEF N
    <2> QED
      BY <1>0, <1>2, <2>1
  <1> HIDE DEF N
  <1>3. ASSUME NEW i \in S PROVE Rank(S, i) \in 1 .. N /\ Place(S, Rank(S, i)) = i
    <2>1. Rank(S, i) \in 1 .. N
      BY <1>0
    <2>2. PICK j : j = Place(S, Rank(S, i))
      OBVIOUS
    <2>3. j \in S /\ Rank(S, j) = Rank(S, i)
      BY <1>1, <2>1, <2>2
    <2>4. Rank(S, i) \in Nat
      BY <1>0, <2>1
    <2>5. j <= i /\ i <= j
      BY <1>2, <2>3, <2>4
    <2>6. j \in Nat /\ i \in Nat
      BY <1>0, <2>3
    <2> QED
      BY <2>1, <2>2, <2>5, <2>6
  <1>4. ASSUME NEW k \in 1 .. N, NEW m \in 1 .. N, k < m PROVE Place(S, k) < Place(S, m)
    <2>1. PICK i, j : i = Place(S, k) /\ j = Place(S, m)
      OBVIOUS
    <2>2. i \in S /\ j \in S /\ Rank(S, i) = k /\ Rank(S, j) = m
      BY <1>1, <2>1
    <2>3. k \in Nat /\ m \in Nat /\ i \in Nat /\ j \in Nat
      BY <1>0, <2>2
    <2>4. i <= j /\ i # j
      BY <1>2, <1>4, <2>2, <2>3
    <2> QED
      BY <2>1, <2>3, <2>4
  <1> QED
    BY <1>0, <1>1, <1>3, <1>4 DEF N

-------------------------------------------------------------------------------
(* _sanitize *)

\* The places of a word that Sanitize keeps, and the list of them.
LEMMA KeptLists ==
    ASSUME NEW Char, NEW word \in Seq(Char),
           NEW K, K = Kept(word), NEW L, L = LetterPlaces(word)
    PROVE  /\ Cardinality(K) \in Nat
           /\ L \subseteq K /\ K \subseteq 1 .. Len(word) /\ Len(word) \in Nat
           /\ \A k \in 1 .. Cardinality(K) : Place(K, k) \in K
           /\ \A i \in K : \E k \in 1 .. Cardinality(K) : Place(K, k) = i
           /\ \A k, m \in 1 .. Cardinality(K) : k < m => Place(K, k) < Place(K, m)
           /\ \A i \in K \ L : i - 1 \in L /\ \E j \in L : j > i
  <1>1. Len(word) \in Nat /\ DOMAIN word = 1 .. Len(word)
    BY LenProperties
  <1>2. L \subseteq K /\ K \in SUBSET (1 .. Len(word))
    BY <1>1 DEF Kept, LetterPlaces
  <1>3. \A i \in K \ L : i - 1 \in L /\ \E j \in L : j > i
    BY DEF Kept
  <1>4. /\ Cardinality(K) \in Nat
        /\ \A k \in 1 .. Cardinality(K) : Place(K, k) \in K
        /\ \A i \in K : Rank(K, i) \in 1 .. Cardinality(K) /\ Place(K, Rank(K, i)) = i
        /\ \A k, m \in 1 .. Cardinality(K) : k < m => Place(K, k) < Place(K, m)
    BY <1>1, <1>2, PlaceLists, Zenon
  <1> QED
    BY <1>1, <1>2, <1>3, <1>4

\* The name of any word has only the characters that the vault takes
\* ("KV-secret-name-safe", kv_stores.py:40): it is not empty, and a dash is always
\* between two letters.  How long it is, the code does not look at.
THEOREM SanitizeIsSafe ==
    ASSUME NEW Char, NEW word \in Seq(Char) PROVE SafeWord(Sanitize(word))
  <1>1. CASE Kept(word) = {}
    <2>1. Sanitize(word) = Anonymous
      BY <1>1 DEF Sanitize
    <2>2. /\ Len(Anonymous) \in Nat \ {0}
          /\ \A i \in 1 .. Len(Anonymous) : Anonymous[i] \in Letters
      BY WordAssumption, EmptySeq, ElementOfSeq
    <2>3. Anonymous \in Seq(Letters \union {Dash})
      BY WordAssumption, SeqMonotonic
    <2> QED
      BY <2>1, <2>2, <2>3, WordAssumption DEF SafeWord
  <1>2. CASE Kept(word) # {}
    <2>1. PICK K, L, N : K = Kept(word) /\ L = LetterPlaces(word) /\ N = Cardinality(K)
      OBVIOUS
    <2>2. /\ N \in Nat
          /\ L \subseteq K /\ K \subseteq 1 .. Len(word) /\ Len(word) \in Nat
          /\ \A k \in 1 .. N : Place(K, k) \in K
          /\ \A i \in K : \E k \in 1 .. N : Place(K, k) = i
          /\ \A k, m \in 1 .. N : k < m => Place(K, k) < Place(K, m)
          /\ \A i \in K \ L : i - 1 \in L /\ \E j \in L : j > i
      BY <2>1, KeptLists
    <2>3. PICK at : at = [k \in 1 .. N |-> Place(K, k)]
      OBVIOUS
    <2>4. /\ at \in [1 .. N -> K]
          /\ \A i \in K : \E k \in 1 .. N : at[k] = i
          /\ \A k, m \in 1 .. N : k < m => at[k] < at[m]
      BY <2>2, <2>3
    <2>5. PICK r : r = Sanitize(word)
      OBVIOUS
    <2>6. r = [k \in 1 .. N |-> Dashed(word[at[k]])]
      BY <1>2, <2>1, <2>3, <2>5 DEF Sanitize
    <2>7. \A k \in 1 .. N : r[k] \in Letters \union {Dash} /\ (r[k] = Dash <=> at[k] \notin L)
      <3>1. \A i \in K : i \in L <=> word[i] \in Letters
        BY <2>1, <2>2, LenProperties DEF LetterPlaces
      <3> QED
        BY <2>4, <2>6, <3>1, WordAssumption DEF Dashed
    <2>8. N # 0
      BY <1>2, <2>1, <2>4
    <2>9. r \in Seq(Letters \union {Dash}) /\ Len(r) = N
      <3>1. r \in [1 .. N -> Letters \union {Dash}]
        BY <2>6, <2>7
      <3> QED
        BY <2>2, <3>1
    <2>10. ASSUME NEW k \in 1 .. N, r[k] = Dash
           PROVE  k # 1 /\ k # N /\ r[k - 1] # Dash
      <3>1. at[k] \in K \ L
        BY <2>4, <2>7, <2>10
      <3>2. PICK j \in L : j > at[k]
        BY <2>2, <3>1
      <3>3. PICK m \in 1 .. N : at[m] = j
        BY <2>2, <2>4
      <3>4. at[k] - 1 \in L
        BY <2>2, <3>1
      <3>5. PICK b \in 1 .. N : at[b] = at[k] - 1
        BY <2>2, <2>4, <3>4
      <3>6. \A x \in 1 .. N : at[x] \in Nat
        <4>1. K \subseteq Nat
          BY <2>2
        <4> QED
          BY <2>4, <4>1
      <3>7. \A x, y \in 1 .. N : x <= y => at[x] <= at[y]
        <4> SUFFICES ASSUME NEW x \in 1 .. N, NEW y \in 1 .. N, x <= y PROVE at[x] <= at[y]
          OBVIOUS
        <4>1. x < y => at[x] < at[y]
          BY <2>4
        <4> QED
          BY <2>2, <3>6, <4>1
      <3>8. k < m
        BY <2>2, <3>2, <3>3, <3>6, <3>7
      <3>9. b < k
        BY <2>2, <3>5, <3>6, <3>7
      <3>10. b = k - 1
        <4>1. CASE b + 1 < k
          <5>1. b + 1 \in 1 .. N
            BY <2>2, <4>1
          <5>2. at[b] < at[b + 1] /\ at[b + 1] < at[k]
            BY <2>2, <2>4, <4>1, <5>1
          <5> QED
            BY <3>5, <3>6, <5>1, <5>2
        <4> QED
          BY <2>2, <3>9, <4>1
      <3> QED
        BY <2>2, <2>7, <3>4, <3>5, <3>8, <3>10
    <2>11. \A i \in 1 .. N - 1 : r[i] # Dash \/ r[i + 1] # Dash
      BY <2>2, <2>10
    <2> QED
      BY <2>2, <2>5, <2>8, <2>9, <2>10, <2>11 DEF SafeWord
  <1> QED
    BY <1>1, <1>2

\* A safe word is its own name.
THEOREM SafeWordsStay == ASSUME NEW r, SafeWord(r) PROVE Sanitize(r) = r
  <1> DEFINE N == Len(r)
             L == LetterPlaces(r)
  <1>1. /\ N \in Nat \ {0} /\ DOMAIN r = 1 .. N
        /\ \A i \in 1 .. N : r[i] \in Letters \union {Dash}
    BY EmptySeq, LenProperties, ElementOfSeq DEF SafeWord
  <1> HIDE DEF N
  <1>2. L \subseteq 1 .. N /\ \A i \in 1 .. N : i \in L <=> r[i] # Dash
    BY <1>1, WordAssumption DEF LetterPlaces
  <1>3. N \in L
    BY <1>1, <1>2 DEF SafeWord, N
  <1>4. ASSUME NEW i \in 1 .. N, i \notin L PROVE i - 1 \in L /\ \E j \in L : j > i
    <2>1. r[i] = Dash /\ i # 1 /\ i # N
      BY <1>1, <1>2, <1>4 DEF SafeWord, N
    <2>2. i - 1 \in 1 .. N - 1 /\ i - 1 + 1 = i /\ N > i
      BY <1>1, <2>1
    <2>3. r[i - 1] # Dash
      BY <2>1, <2>2 DEF SafeWord, N
    <2> QED
      BY <1>1, <1>2, <1>3, <2>2, <2>3
  <1>5. Kept(r) = 1 .. N
    BY <1>1, <1>2, <1>4 DEF Kept
  <1>6. Cardinality(1 .. N) = N
    BY <1>1, FS_Interval
  <1>7. ASSUME NEW k \in 1 .. N PROVE Place(1 .. N, k) = k
    <2>1. \A i \in 1 .. N : Rank(1 .. N, i) = i
      <3> SUFFICES ASSUME NEW i \in 1 .. N PROVE Rank(1 .. N, i) = i
        OBVIOUS
      <3>1. (1 .. N) \intersect (1 .. i) = 1 .. i
        BY <1>1
      <3>2. i \in Int /\ ~(1 > i) /\ i - 1 + 1 = i
        BY <1>1
      <3>3. Cardinality(1 .. i) = i
        BY <3>2, FS_Interval
      <3> QED
        BY <3>1, <3>3 DEF Rank
    <2> QED
      BY <2>1 DEF Place
  <1>8. \A k \in 1 .. N : Dashed(r[k]) = r[k]
    BY <1>1 DEF Dashed
  <1>9. Sanitize(r) = [k \in 1 .. N |-> Dashed(r[Place(1 .. N, k)])]
    BY <1>1, <1>5, <1>6 DEF Sanitize
  <1>10. Sanitize(r) = [k \in 1 .. N |-> r[k]]
    BY <1>7, <1>8, <1>9
  <1> QED
    BY <1>1, <1>10 DEF SafeWord, N

\* The tag of a secret's server or principal is the tag of the tag: what oauth-ls
\* finds under a tag is what a call for the tag finds (kv_stores.py:62, 90).
THEOREM SanitizeTwice ==
    ASSUME NEW Char, NEW word \in Seq(Char) PROVE Sanitize(Sanitize(word)) = Sanitize(word)
  BY SanitizeIsSafe, SafeWordsStay

\* A word of letters is its own name.
LEMMA PlainWordsStay ==
    ASSUME NEW word \in Seq(Letters), word # <<>>
    PROVE  Sanitize(word) = word /\ \A i \in 1 .. Len(word) : word[i] # Dash
  <1>1. /\ Len(word) \in Nat \ {0}
        /\ \A i \in 1 .. Len(word) : word[i] \in Letters
    BY EmptySeq, ElementOfSeq
  <1>2. word \in Seq(Letters \union {Dash})
    BY SeqMonotonic
  <1>3. \A i \in 1 .. Len(word) : word[i] # Dash
    BY <1>1, WordAssumption
  <1>4. SafeWord(word)
    BY <1>1, <1>2, <1>3 DEF SafeWord
  <1> QED
    BY <1>3, <1>4, SafeWordsStay

-------------------------------------------------------------------------------
(* Names and paths *)

\* b begins with a and a separator.
Begins(a, c, b) ==
    /\ Len(a) < Len(b)
    /\ \A i \in 1 .. Len(a) : b[i] = a[i]
    /\ b[Len(a) + 1] = c

\* Two words with a separator between them.
Joined(v, c, w) == Append(v, c) \o w
IsJoin(s, v, c, w) ==
    /\ Len(v) \in Nat /\ Len(w) \in Nat
    /\ Len(s) = Len(v) + 1 + Len(w)
    /\ \A i \in 1 .. Len(v) : s[i] = v[i]
    /\ s[Len(v) + 1] = c
    /\ \A i \in 1 .. Len(w) : s[Len(v) + 1 + i] = w[i]

LEMMA JoinedMeans ==
    ASSUME NEW Char, NEW c \in Char, NEW v \in Seq(Char), NEW w \in Seq(Char)
    PROVE  IsJoin(Joined(v, c, w), v, c, w)
  <1>1. PICK u, m, n : u = Append(v, c) /\ m = Len(v) /\ n = Len(w)
    OBVIOUS
  <1>2. m \in Nat /\ n \in Nat
    BY <1>1, LenProperties
  <1>3. /\ u \in Seq(Char) /\ Len(u) = m + 1
        /\ \A i \in 1 .. m : u[i] = v[i]
        /\ u[m + 1] = c
    BY <1>1, AppendProperties
  <1>4. PICK s : s = u \o w
    OBVIOUS
  <1>5. Len(s) = Len(u) + n /\ \A i \in 1 .. Len(u) + n : s[i] = IF i <= Len(u) THEN u[i] ELSE w[i - Len(u)]
    BY <1>1, <1>3, <1>4, ConcatProperties
  <1>6. /\ Len(s) = m + 1 + n
        /\ \A i \in 1 .. m + 1 : s[i] = u[i]
        /\ \A i \in 1 .. n : s[m + 1 + i] = w[i]
    <2>1. \A i \in 1 .. n : m + 1 + i \in 1 .. m + 1 + n /\ ~(m + 1 + i <= m + 1) /\ m + 1 + i - (m + 1) = i
      BY <1>2
    <2> QED
      BY <1>2, <1>3, <1>5, <2>1
  <1>7. (\A i \in 1 .. m : s[i] = v[i]) /\ s[m + 1] = c
    <2>1. m + 1 \in 1 .. m + 1 /\ \A i \in 1 .. m : i \in 1 .. m + 1
      BY <1>2
    <2> QED
      BY <1>3, <1>6, <2>1, Zenon
  <1>8. s = Joined(v, c, w)
    BY <1>1, <1>4 DEF Joined
  <1> QED
    BY <1>1, <1>2, <1>6, <1>7, <1>8 DEF IsJoin

\* Two words are read back if no first word begins with another and a separator.
LEMMA SplitAtSeparator ==
    ASSUME NEW Char, NEW c \in Char,
           NEW a \in Seq(Char), NEW b \in Seq(Char), NEW x \in Seq(Char), NEW y \in Seq(Char),
           ~Begins(a, c, b), ~Begins(b, c, a), Joined(a, c, x) = Joined(b, c, y)
    PROVE  a = b /\ x = y
  <1>1. PICK s : s = Joined(a, c, x) /\ s = Joined(b, c, y)
    OBVIOUS
  <1>2. IsJoin(Joined(a, c, x), a, c, x) /\ IsJoin(Joined(b, c, y), b, c, y)
    BY JoinedMeans
  <1>3. IsJoin(s, a, c, x)
    BY <1>1, <1>2
  <1>4. IsJoin(s, b, c, y)
    BY <1>1, <1>2
  <1> USE DEF IsJoin
  <1>5. Len(a) = Len(b)
    <2>1. ~(Len(a) < Len(b))
      <3> SUFFICES ASSUME Len(a) < Len(b) PROVE FALSE
        OBVIOUS
      <3>1. Len(a) + 1 \in 1 .. Len(b) /\ \A i \in 1 .. Len(a) : i \in 1 .. Len(b)
        BY <1>3, <1>4
      <3> QED
        BY <1>3, <1>4, <3>1 DEF Begins
    <2>2. ~(Len(b) < Len(a))
      <3> SUFFICES ASSUME Len(b) < Len(a) PROVE FALSE
        OBVIOUS
      <3>1. Len(b) + 1 \in 1 .. Len(a) /\ \A i \in 1 .. Len(b) : i \in 1 .. Len(a)
        BY <1>3, <1>4
      <3> QED
        BY <1>3, <1>4, <3>1 DEF Begins
    <2> QED
      BY <1>3, <1>4, <2>1, <2>2
  <1>6. a = b
    BY <1>3, <1>4, <1>5, SeqEqual
  <1>7. Len(x) = Len(y)
    BY <1>3, <1>4, <1>5
  <1>8. x = y
    BY <1>3, <1>4, <1>5, <1>7, SeqEqual
  <1> QED
    BY <1>6, <1>8

\* The vault mixes up two pairs of principal and server only when their sanitized
\* words agree, or when the sanitized name of one server begins with that of the
\* other and a dash (kv_stores.py:53-54: the dash also separates the two).
THEOREM SecretNamesApart ==
    ASSUME NEW Char, NEW p \in Seq(Char), NEW q \in Seq(Char),
           NEW s \in Seq(Char), NEW t \in Seq(Char),
           ~Begins(Sanitize(s), Dash, Sanitize(t)), ~Begins(Sanitize(t), Dash, Sanitize(s)),
           SecretName(p, s) = SecretName(q, t)
    PROVE  Sanitize(p) = Sanitize(q) /\ Sanitize(s) = Sanitize(t)
  <1> DEFINE Safe == Letters \union {Dash}
  <1>1. \A w \in Seq(Char) : Sanitize(w) \in Seq(Safe)
    BY SanitizeIsSafe DEF SafeWord
  <1>2. Joined(Sanitize(s), Dash, Sanitize(p)) = Joined(Sanitize(t), Dash, Sanitize(q))
    BY DEF SecretName, Joined
  <1>3. Dash \in Safe
    OBVIOUS
  <1> HIDE DEF Safe
  <1>4. PICK a, b, x, y : /\ a = Sanitize(s) /\ b = Sanitize(t)
                          /\ x = Sanitize(p) /\ y = Sanitize(q)
    OBVIOUS
  <1>5. /\ a \in Seq(Safe) /\ b \in Seq(Safe) /\ x \in Seq(Safe) /\ y \in Seq(Safe)
        /\ Joined(a, Dash, x) = Joined(b, Dash, y)
    BY <1>1, <1>2, <1>4
  <1>6. ~Begins(a, Dash, b) /\ ~Begins(b, Dash, a)
    BY <1>4
  <1>7. a = b /\ x = y
    BY <1>3, <1>5, <1>6, SplitAtSeparator
  <1> QED
    BY <1>4, <1>7

\* The vault keeps any pairs of plain words apart.
THEOREM PlainNamesApart ==
    ASSUME NEW p \in Seq(Letters) \ {<<>>}, NEW q \in Seq(Letters) \ {<<>>},
           NEW s \in Seq(Letters) \ {<<>>}, NEW t \in Seq(Letters) \ {<<>>},
           SecretName(p, s) = SecretName(q, t)
    PROVE  p = q /\ s = t
  <1>1. \A w \in Seq(Letters) \ {<<>>} :
            Sanitize(w) = w /\ Len(w) \in Nat /\ \A i \in 1 .. Len(w) : w[i] # Dash
    BY PlainWordsStay, LenProperties
  <1>2. \A v, w \in Seq(Letters) \ {<<>>} : ~Begins(v, Dash, w)
    BY <1>1 DEF Begins
  <1> QED
    BY <1>1, <1>2, SecretNamesApart

-------------------------------------------------------------------------------
(* Paths *)

\* A step to a directory gives a directory.
LEMMA EnterType ==
    ASSUME NEW Word, NEW dir \in Seq(Word), NEW name \in Word PROVE Enter(dir, name) \in Seq(Word)
  <1>1. Len(dir) \in Nat /\ Append(dir, name) \in Seq(Word)
    BY LenProperties, AppendProperties
  <1>2. dir # <<>> => SubSeq(dir, 1, Len(dir) - 1) \in Seq(Word)
    <2>1. ASSUME dir # <<>> PROVE \A i \in 1 .. Len(dir) - 1 : i \in 1 .. Len(dir)
      BY <1>1
    <2> QED
      BY <1>1, <2>1, SubSeqProperties
  <1> QED
    BY <1>1, <1>2 DEF Enter

\* Two servers without slashes share a file only in one directory, and with one name.
LEMMA PathsOfOneDirectory ==
    ASSUME NEW p, NEW q, NEW s, NEW t, Slashes(s) = {}, Slashes(t) = {},
           TokenPath(p, s) = TokenPath(q, t)
    PROVE  Home(p) = Home(q) /\ s = t
  <1> DEFINE Word == Seq(STRING) \union {SafePrincipal(p), SafePrincipal(q), s, t}
  <1>1. BaseDir \in Seq(Word)
    BY WordAssumption, SeqMonotonic
  <1>2. PICK a, b : a = Home(p) /\ b = Home(q)
    OBVIOUS
  <1>3. /\ SafePrincipal(p) \in Word /\ SafePrincipal(q) \in Word
        /\ s \in Word /\ t \in Word
    OBVIOUS
  <1>4. TokenPath(p, s) = Append(Home(p), s) /\ TokenPath(q, t) = Append(Home(q), t)
    BY DEF TokenPath, Directory, FileName
  <1> HIDE DEF Word
  <1>5. a \in Seq(Word) /\ b \in Seq(Word)
    BY <1>1, <1>2, <1>3, EnterType DEF Home
  <1>6. Append(a, s) = Append(b, t)
    BY <1>2, <1>4
  <1> QED
    BY <1>2, <1>3, <1>5, <1>6, AppendInjective

\* A name that leads down to a directory of its own.
Ordinary(name) == name \notin {<<>>, <<".">>, <<".", ".">>}

\* For servers without slashes and principals that are ordinary names, the file
\* store mixes up two pairs only when the principals differ in nothing but slashes
\* and underscores; without these conditions, names of other servers and
\* principals lead to the same file (local_stores.py:29-33).
THEOREM TokenPathsApart ==
    ASSUME NEW p, NEW q, NEW s, NEW t, Slashes(s) = {}, Slashes(t) = {},
           Ordinary(SafePrincipal(p)), Ordinary(SafePrincipal(q)),
           TokenPath(p, s) = TokenPath(q, t)
    PROVE  SafePrincipal(p) = SafePrincipal(q) /\ s = t
  <1>1. PICK a, b : a = SafePrincipal(p) /\ b = SafePrincipal(q)
    OBVIOUS
  <1>2. Home(p) = Append(BaseDir, a) /\ Home(q) = Append(BaseDir, b)
    BY <1>1 DEF Home, Enter, Ordinary
  <1>3. Append(BaseDir, a) = Append(BaseDir, b) /\ s = t
    BY <1>2, PathsOfOneDirectory
  <1>4. BaseDir \in Seq(Seq(STRING) \union {a, b})
    BY WordAssumption, SeqMonotonic
  <1>5. a = b
    BY <1>3, <1>4, AppendInjective
  <1> QED
    BY <1>1, <1>3, <1>5

\* The name of a file has no slashes: what oauth-ls takes for the server of a file
\* leads back to the file (local_stores.py:66).
LEMMA FileNameStays ==
    ASSUME NEW Char, NEW word \in Seq(Char) PROVE Slashes(FileName(word)) = {}
  <1>1. PICK n, S, N : n = Len(word) /\ S = Slashes(word) /\ N = Cardinality(S)
    OBVIOUS
  <1>2. n \in Nat /\ S \in SUBSET (1 .. n)
    BY <1>1, LenProperties DEF Slashes
  <1>3. /\ N \in Nat
        /\ \A k \in 1 .. N : Place(S, k) \in S
        /\ \A i \in S : Rank(S, i) \in 1 .. N /\ Place(S, Rank(S, i)) = i
        /\ \A k, m \in 1 .. N : k < m => Place(S, k) < Place(S, m)
    BY <1>1, <1>2, PlaceLists, Zenon
  <1>4. CASE S = {}
    BY <1>1, <1>4 DEF FileName
  <1>5. CASE S # {}
    <2>1. PICK last : last = Place(S, N)
      OBVIOUS
    <2>2. N \in 1 .. N
      BY <1>3, <1>5
    <2>3. last \in 1 .. n /\ \A i \in S : i <= last
      <3>1. last \in S
        BY <1>3, <2>1, <2>2
      <3>2. ASSUME NEW i \in S PROVE i <= last
        <4>1. PICK k \in 1 .. N : Place(S, k) = i
          BY <1>3
        <4>2. k = N \/ k < N
          BY <1>3
        <4>3. i = last \/ i < last
          BY <1>3, <2>1, <2>2, <4>1, <4>2
        <4> QED
          BY <1>2, <3>1, <4>3
      <3> QED
        BY <1>2, <3>1, <3>2
    <2>4. PICK r : r = FileName(word)
      OBVIOUS
    <2>5. r = SubSeq(word, last + 1, n)
      BY <1>1, <1>5, <2>1, <2>4 DEF FileName
    <2>6. Len(r) = n - last /\ r \in Seq(Char) /\ \A i \in 1 .. n - last : r[i] = word[last + i]
      <3>1. \A i \in last + 1 .. n : i \in 1 .. n
        BY <1>2, <2>3
      <3>2. CASE last + 1 <= n
        BY <1>1, <1>2, <2>3, <2>5, <3>1, <3>2, SubSeqProperties
      <3>3. CASE last = n
        BY <1>1, <1>2, <2>5, <3>1, <3>3, SubSeqProperties
      <3> QED
        BY <1>2, <2>3, <3>2, <3>3
    <2>7. ASSUME NEW i \in Slashes(r) PROVE FALSE
      <3>1. i \in 1 .. n - last /\ r[i] = Slash
        BY <2>6, <2>7, LenProperties DEF Slashes
      <3>2. last + i \in 1 .. n /\ last + i > last
        BY <1>2, <2>3, <3>1
      <3>3. last + i \in S
        BY <1>1, <2>6, <3>1, <3>2, LenProperties DEF Slashes
      <3> QED
        BY <1>2, <2>3, <3>2, <3>3
    <2> QED
      BY <2>4, <2>7
  <1> QED
    BY <1>4, <1>5
=============================================================================
