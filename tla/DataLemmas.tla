----------------------------- MODULE DataLemmas -----------------------------
(***************************************************************************)
(* What the proofs need to know of the community modules' operators on     *)
(* sets of numbers and on sequences.                                       *)
(***************************************************************************)
EXTENDS Integers, FiniteSetsExt, SequencesExt,
        SequenceTheorems, FiniteSetTheorems, TLAPS

\* Min returns the least element of a set of natural numbers: the intervals
\* 0..n, for n in the set, are well founded under strict inclusion.
LEMMA MinProperties ==
  ASSUME NEW S \in SUBSET Nat, S # {}
  PROVE  /\ Min(S) \in S
         /\ \A n \in S : Min(S) <= n
  <1> DEFINE intervals == {0..n : n \in S}
  <1>1. intervals \subseteq FiniteSubsetsOf(Nat) /\ intervals # {}
    <2>1. ASSUME NEW n \in S
          PROVE  0..n \in FiniteSubsetsOf(Nat)
      <3>1. IsFiniteSet(0..n)
        BY FS_Interval
      <3>2. 0..n \in SUBSET Nat
        OBVIOUS
      <3>3. QED
        BY <3>1, <3>2, Zenon DEF FiniteSubsetsOf
    <2>2. QED
      BY <2>1, Zenon
  <1>2. PICK least \in intervals :
          \A i \in intervals : ~(<<i, least>> \in StrictSubsetOrdering(Nat))
    BY <1>1, FS_StrictSubsetOrderingWellFounded, WFMin
  <1>3. PICK m \in S : least = 0..m
    OBVIOUS
  <1>4. ASSUME NEW n \in S
        PROVE  m <= n
    <2>1. ~(0..n \subseteq 0..m /\ 0..n # 0..m)
      <3>1. <<0..n, 0..m>> \notin StrictSubsetOrdering(Nat)
        BY <1>2, <1>3, Zenon
      <3>2. <<0..n, 0..m>> \in (SUBSET Nat) \X (SUBSET Nat)
        OBVIOUS
      <3> DEFINE pair == <<0..n, 0..m>>
      <3>3. pair[1] = 0..n /\ pair[2] = 0..m
        OBVIOUS
      <3> HIDE DEF pair
      <3>4. QED
        BY <3>1, <3>2, <3>3, Zenon DEF StrictSubsetOrdering, pair
    <2>2. QED
      BY <2>1
  <1>5. QED
    BY <1>4 DEF Min

\* RemoveAt closes the gap at the index and changes nothing else.
LEMMA RemoveAtProperties ==
  ASSUME NEW T, NEW s \in Seq(T), NEW i \in 1..Len(s)
  PROVE  /\ RemoveAt(s, i) \in Seq(T)
         /\ Len(RemoveAt(s, i)) = Len(s) - 1
         /\ \A n \in 1..Len(s)-1 : RemoveAt(s, i)[n] = IF n < i THEN s[n] ELSE s[n+1]
  <1> DEFINE front == SubSeq(s, 1, i-1)
             back  == SubSeq(s, i+1, Len(s))
             both  == front \o back
  <1>1. /\ front \in Seq(T) /\ Len(front) = i - 1
        /\ \A n \in 1..i-1 : front[n] = s[n]
    BY SubSeqProperties
  <1>2. /\ back \in Seq(T) /\ Len(back) = Len(s) - i
        /\ \A n \in 1..Len(s)-i : back[n] = s[i+n]
    BY SubSeqProperties
  <1>3. RemoveAt(s, i) = both
    BY DEF RemoveAt
  <1> HIDE DEF front, back
  <1>4. /\ both \in Seq(T)
        /\ Len(both) = Len(front) + Len(back)
        /\ \A n \in 1 .. Len(front) + Len(back) :
             both[n] = IF n <= Len(front) THEN front[n] ELSE back[n - Len(front)]
    BY <1>1, <1>2, ConcatProperties, Zenon
  <1> HIDE DEF both
  <1>5. Len(s) \in Nat /\ i \in Int /\ i <= Len(s) /\ 1 <= i
    OBVIOUS
  <1>6. ASSUME NEW n \in 1..Len(s)-1
        PROVE  both[n] = IF n < i THEN s[n] ELSE s[n+1]
    <2>1. /\ Len(front) = i - 1 /\ Len(back) = Len(s) - i
          /\ n \in 1 .. Len(front) + Len(back)
      BY <1>1, <1>2, <1>5
    <2>2. both[n] = IF n <= i - 1 THEN front[n] ELSE back[n - (i-1)]
      BY <1>4, <2>1
    <2>3. CASE n < i
      <3>1. n \in 1..i-1 /\ n <= i - 1
        BY <1>5, <2>3
      <3>2. both[n] = s[n]
        BY <1>1, <2>2, <3>1
      <3>3. QED
        BY <2>3, <3>2
    <2>4. CASE ~(n < i)
      <3>1. n - (i-1) \in 1..Len(s)-i /\ i + (n - (i-1)) = n + 1 /\ ~(n <= i - 1)
        BY <1>5, <2>4
      <3>2. both[n] = s[n+1]
        BY <1>2, <2>2, <3>1
      <3>3. QED
        BY <2>4, <3>2
    <2>5. QED
      BY <2>3, <2>4
  <1>7. QED
    BY <1>1, <1>2, <1>3, <1>4, <1>5, <1>6

\* Without duplicates in the sequence, exactly the element at the index is
\* gone and there are still no duplicates.
LEMMA RemoveAtInjective ==
  ASSUME NEW T, NEW s \in Seq(T), NEW i \in 1..Len(s),
         \A m, n \in 1..Len(s) : s[m] = s[n] => m = n
  PROVE  /\ \A m, n \in 1..Len(s)-1 : RemoveAt(s, i)[m] = RemoveAt(s, i)[n] => m = n
         /\ {RemoveAt(s, i)[n] : n \in 1..Len(s)-1} = {s[n] : n \in 1..Len(s)} \ {s[i]}
  <1> DEFINE rest == RemoveAt(s, i)
             old(n) == IF n < i THEN n ELSE n + 1
  <1>1. Len(s) \in Nat /\ i \in Int /\ 1 <= i /\ i <= Len(s)
    OBVIOUS
  <1>2. \A n \in 1..Len(s)-1 : rest[n] = s[old(n)]
    BY RemoveAtProperties
  <1> HIDE DEF rest
  <1>3. \A n \in 1..Len(s)-1 : old(n) \in 1..Len(s) /\ old(n) # i
    BY <1>1
  <1>4. \A m, n \in 1..Len(s)-1 : old(m) = old(n) => m = n
    BY <1>1
  <1>5. ASSUME NEW m \in 1..Len(s), m # i
        PROVE  \E n \in 1..Len(s)-1 : old(n) = m
    <2>1. CASE m < i
      <3>1. m \in 1..Len(s)-1 /\ old(m) = m
        BY <1>1, <2>1
      <3>2. QED
        BY <3>1
    <2>2. CASE m > i
      <3>1. m - 1 \in 1..Len(s)-1 /\ old(m-1) = m
        BY <1>1, <2>2
      <3>2. QED
        BY <3>1
    <2>3. QED
      BY <1>1, <1>5, <2>1, <2>2
  <1> HIDE DEF old
  <1>6. \A m, n \in 1..Len(s)-1 : rest[m] = rest[n] => m = n
    BY <1>2, <1>3, <1>4, Zenon
  <1>7. {rest[n] : n \in 1..Len(s)-1} = {s[n] : n \in 1..Len(s)} \ {s[i]}
    <2>1. ASSUME NEW n \in 1..Len(s)-1
          PROVE  rest[n] \in {s[m] : m \in 1..Len(s)} \ {s[i]}
      BY <1>2, <1>3, Zenon
    <2>2. ASSUME NEW m \in 1..Len(s), s[m] # s[i]
          PROVE  s[m] \in {rest[n] : n \in 1..Len(s)-1}
      <3>1. PICK n \in 1..Len(s)-1 : old(n) = m
        BY <1>5, <2>2, Zenon
      <3>2. QED
        BY <1>2, <3>1, Zenon
    <2>3. {rest[n] : n \in 1..Len(s)-1} \subseteq {s[n] : n \in 1..Len(s)} \ {s[i]}
      BY <2>1
    <2>4. {s[n] : n \in 1..Len(s)} \ {s[i]} \subseteq {rest[n] : n \in 1..Len(s)-1}
      BY <2>2
    <2>5. QED
      BY <2>3, <2>4
  <1>8. QED
    BY <1>6, <1>7 DEF rest
-----------------------------------------------------------------------------
(* Induction over a sequence, for a set rather than a predicate.           *)

\* A set that has 1 and the successor of each of its members has all of 1..n.
LEMMA SetInduction ==
  ASSUME NEW n \in Nat, NEW S,
         1 \in S,
         \A m \in 1..n : m \in S /\ m + 1 <= n => m + 1 \in S
  PROVE  1..n \subseteq S
  <1> DEFINE missing == {m \in 1..n : m \notin S}
  <1>1. SUFFICES ASSUME missing # {} PROVE FALSE
    OBVIOUS
  <1>2. missing \in SUBSET Nat
    OBVIOUS
  <1>3. /\ Min(missing) \in missing
        /\ \A m \in missing : Min(missing) <= m
    BY <1>1, <1>2, MinProperties
  <1>4. PICK least \in 1..n : least \notin S /\ \A m \in missing : least <= m
    BY <1>3
  <1>5. least - 1 \in 1..n /\ least - 1 \in S
    BY <1>4
  <1>6. QED
    BY <1>4, <1>5

\* The recursive function in FlattenSeq exists.
LEMMA FlattenSeqRecursion ==
  ASSUME NEW T, NEW seqs \in Seq(Seq(T)), Len(seqs) # 0
  PROVE  \E f : /\ f = [i \in 1..Len(seqs) |->
                         IF i = 1 THEN seqs[i] ELSE f[i-1] \o seqs[i]]
               /\ FlattenSeq(seqs) = f[Len(seqs)]
  <1> DEFINE n == Len(seqs)
             Solves(f, m) == f = [i \in 1..m |-> IF i = 1 THEN seqs[i] ELSE f[i-1] \o seqs[i]]
             solved == {m \in 1..n : \E f : Solves(f, m)}
             flatten == CHOOSE f : Solves(f, n)
  <1>1. n \in Nat /\ n >= 1
    OBVIOUS
  <1>2. 1 \in solved
    <2> DEFINE g == [i \in 1..1 |-> seqs[i]]
    <2>1. Solves(g, 1)
      OBVIOUS
    <2> HIDE DEF g
    <2>2. \E f : Solves(f, 1)
      BY <2>1, Zenon
    <2>3. 1 \in 1..n
      BY <1>1
    <2>4. QED
      BY <2>2, <2>3
  <1>3. ASSUME NEW m \in 1..n, m \in solved, m + 1 <= n
        PROVE  m + 1 \in solved
    <2>1. PICK f : Solves(f, m)
      BY <1>3
    <2> DEFINE g == [i \in 1..m+1 |-> IF i = m + 1 THEN f[m] \o seqs[i] ELSE f[i]]
    <2>2. \A i \in 1..m+1 : g[i] = IF i = 1 THEN seqs[i] ELSE g[i-1] \o seqs[i]
      <3> TAKE i \in 1..m+1
      <3>1. CASE i = m + 1
        <4>1. m \in 1..m /\ i # 1 /\ i - 1 = m /\ m \in 1..m+1 /\ m # m + 1
          BY <3>1, <1>1
        <4>2. g[m] = f[m]
          BY <4>1
        <4>3. g[i] = f[m] \o seqs[i]
          BY <3>1
        <4>4. QED
          BY <4>1, <4>2, <4>3, Zenon
      <3>2. CASE i # m + 1
        <4>1. i \in 1..m /\ g[i] = f[i] /\ (i # 1 => i - 1 \in 1..m /\ g[i-1] = f[i-1])
          BY <3>2, <1>1
        <4>2. f[i] = IF i = 1 THEN seqs[i] ELSE f[i-1] \o seqs[i]
          BY <2>1, <4>1
        <4>3. QED
          BY <4>1, <4>2
      <3>3. QED
        BY <3>1, <3>2
    <2> DEFINE rhs == [i \in 1..m+1 |-> IF i = 1 THEN seqs[i] ELSE g[i-1] \o seqs[i]]
    <2>3. DOMAIN g = 1..m+1 /\ g = [i \in 1..m+1 |-> g[i]]
      OBVIOUS
    <2> HIDE DEF g
    <2>4. g = rhs
      BY <2>2, <2>3
    <2>5. m + 1 \in 1..n
      BY <1>3
    <2>6. QED
      BY <2>4, <2>5
  <1> HIDE DEF solved
  <1>4. 1..n \subseteq solved
    BY <1>1, <1>2, <1>3, SetInduction
  <1>5. Solves(flatten, n)
    <2>1. n \in solved
      BY <1>1, <1>4
    <2>2. QED
      BY <2>1 DEF solved
  <1>6. FlattenSeq(seqs) = flatten[n]
    BY DEF FlattenSeq
  <1>7. QED
    BY <1>5, <1>6

\* Flattening sequences over T gives a sequence over T.
LEMMA FlattenSeqType ==
  ASSUME NEW T, NEW seqs \in Seq(Seq(T))
  PROVE  FlattenSeq(seqs) \in Seq(T)
  <1>1. CASE Len(seqs) = 0
    <2>1. seqs = <<>>
      BY <1>1, EmptySeq
    <2>2. FlattenSeq(seqs) = seqs
      BY <1>1 DEF FlattenSeq
    <2>3. QED
      BY <2>1, <2>2, EmptySeq
  <1>2. CASE Len(seqs) # 0
    <2>1. PICK f : /\ f = [i \in 1..Len(seqs) |->
                            IF i = 1 THEN seqs[i] ELSE f[i-1] \o seqs[i]]
                   /\ FlattenSeq(seqs) = f[Len(seqs)]
      BY <1>2, FlattenSeqRecursion
    <2>2. Len(seqs) \in Nat /\ Len(seqs) >= 1
      BY <1>2
    <2> DEFINE typed == {i \in 1..Len(seqs) : f[i] \in Seq(T)}
    <2>3. 1 \in typed
      <3>1. f[1] = seqs[1] /\ 1 \in 1..Len(seqs)
        BY <2>1, <2>2
      <3>2. QED
        BY <3>1, ElementOfSeq
    <2>4. ASSUME NEW m \in 1..Len(seqs), m \in typed, m + 1 <= Len(seqs)
          PROVE  m + 1 \in typed
      <3>1. m + 1 \in 1..Len(seqs) /\ (m + 1) - 1 = m /\ m + 1 # 1
        BY <2>2, <2>4
      <3>2. f[m+1] = f[m] \o seqs[m+1]
        BY <2>1, <3>1
      <3>3. f[m] \in Seq(T) /\ seqs[m+1] \in Seq(T)
        BY <2>4, <3>1, ElementOfSeq
      <3>4. QED
        BY <3>1, <3>2, <3>3, ConcatProperties
    <2> HIDE DEF typed
    <2>5. 1..Len(seqs) \subseteq typed
      BY <2>2, <2>3, <2>4, SetInduction
    <2>6. Len(seqs) \in typed
      <3>1. Len(seqs) \in 1..Len(seqs)
        BY <2>2
      <3>2. QED
        BY <2>5, <3>1, Zenon
    <2>7. QED
      BY <2>1, <2>6 DEF typed
  <1>3. QED
    BY <1>1, <1>2

\* Sequences without a common element, joined.
LEMMA ConcatInjective ==
  ASSUME NEW T, NEW s \in Seq(T), NEW t \in Seq(T),
         IsInjective(s), IsInjective(t), Range(s) \cap Range(t) = {}
  PROVE  IsInjective(s \o t) /\ Range(s \o t) \subseteq Range(s) \cup Range(t)
  <1> DEFINE both == s \o t
  <1>1. /\ Len(s) \in Nat /\ DOMAIN s = 1..Len(s)
        /\ Len(t) \in Nat /\ DOMAIN t = 1..Len(t)
    BY LenProperties
  <1>2. /\ DOMAIN both = 1 .. Len(s) + Len(t)
        /\ \A i \in 1 .. Len(s) + Len(t) :
             both[i] = IF i <= Len(s) THEN s[i] ELSE t[i - Len(s)]
    <2>1. /\ both \in Seq(T) /\ Len(both) = Len(s) + Len(t)
          /\ \A i \in 1 .. Len(s) + Len(t) :
               both[i] = IF i <= Len(s) THEN s[i] ELSE t[i - Len(s)]
      BY ConcatProperties
    <2>2. DOMAIN both = 1..Len(both)
      BY <2>1, LenProperties
    <2>3. QED
      BY <2>1, <2>2
  <1> HIDE DEF both
  <1>3. ASSUME NEW i \in 1 .. Len(s) + Len(t)
        PROVE  \/ i \in DOMAIN s /\ both[i] = s[i]
               \/ i - Len(s) \in DOMAIN t /\ both[i] = t[i - Len(s)]
    BY <1>1, <1>2
  <1>4. Range(both) \subseteq Range(s) \cup Range(t)
    BY <1>2, <1>3 DEF Range
  <1>5. ASSUME NEW i \in DOMAIN both, NEW j \in DOMAIN both, both[i] = both[j]
        PROVE  i = j
    <2>1. i \in 1 .. Len(s) + Len(t) /\ j \in 1 .. Len(s) + Len(t)
      BY <1>2
    <2>2. ASSUME NEW m \in DOMAIN s, NEW n \in DOMAIN t
          PROVE  s[m] # t[n]
      BY DEF Range
    <2>3. CASE i \in DOMAIN s /\ both[i] = s[i]
      <3>1. j \in DOMAIN s /\ both[j] = s[j]
        BY <1>3, <1>5, <2>1, <2>2, <2>3
      <3>2. QED
        BY <1>5, <2>3, <3>1, Zenon DEF IsInjective
    <2>4. CASE i - Len(s) \in DOMAIN t /\ both[i] = t[i - Len(s)]
      <3>1. j - Len(s) \in DOMAIN t /\ both[j] = t[j - Len(s)]
        BY <1>3, <1>5, <2>1, <2>2, <2>4
      <3>2. i - Len(s) = j - Len(s)
        BY <1>5, <2>4, <3>1, Zenon DEF IsInjective
      <3>3. QED
        BY <1>1, <2>1, <3>2
    <2>5. QED
      BY <1>3, <2>1, <2>3, <2>4
  <1>6. IsInjective(both)
    BY <1>5, Zenon DEF IsInjective
  <1>7. QED
    BY <1>4, <1>6 DEF both

\* Sequences without duplicates and without common elements, flattened.
LEMMA FlattenSeqInjective ==
  ASSUME NEW T, NEW seqs \in Seq(Seq(T)),
         \A i \in 1..Len(seqs) : IsInjective(seqs[i]),
         \A i, j \in 1..Len(seqs) : i # j => Range(seqs[i]) \cap Range(seqs[j]) = {}
  PROVE  IsInjective(FlattenSeq(seqs))
  <1>1. CASE Len(seqs) = 0
    <2>1. seqs = <<>>
      BY <1>1, EmptySeq
    <2>2. FlattenSeq(seqs) = seqs
      BY <1>1 DEF FlattenSeq
    <2>3. QED
      BY <2>1, <2>2 DEF IsInjective
  <1>2. CASE Len(seqs) # 0
    <2>1. PICK f : /\ f = [i \in 1..Len(seqs) |->
                            IF i = 1 THEN seqs[i] ELSE f[i-1] \o seqs[i]]
                   /\ FlattenSeq(seqs) = f[Len(seqs)]
      BY <1>2, FlattenSeqRecursion
    <2>2. Len(seqs) \in Nat /\ Len(seqs) >= 1
      BY <1>2
    <2> DEFINE From(i) == UNION {Range(seqs[j]) : j \in 1..i}
               good == {i \in 1..Len(seqs) : /\ f[i] \in Seq(T)
                                              /\ IsInjective(f[i])
                                              /\ Range(f[i]) \subseteq From(i)}
    <2>3. 1 \in good
      <3>1. f[1] = seqs[1] /\ 1 \in 1..Len(seqs) /\ 1 \in 1..1
        BY <2>1, <2>2
      <3>2. seqs[1] \in Seq(T) /\ IsInjective(seqs[1])
        BY <3>1, ElementOfSeq
      <3>3. Range(seqs[1]) \subseteq From(1)
        BY <3>1
      <3>4. QED
        BY <3>1, <3>2, <3>3
    <2>4. ASSUME NEW m \in 1..Len(seqs), m \in good, m + 1 <= Len(seqs)
          PROVE  m + 1 \in good
      <3>1. /\ m + 1 \in 1..Len(seqs) /\ (m + 1) - 1 = m /\ m + 1 # 1
            /\ 1..m \subseteq 1..Len(seqs) /\ 1..m+1 = 1..m \cup {m+1} /\ m + 1 \notin 1..m
        BY <2>2, <2>4
      <3>2. f[m+1] = f[m] \o seqs[m+1]
        BY <2>1, <3>1
      <3>3. f[m] \in Seq(T) /\ seqs[m+1] \in Seq(T) /\ IsInjective(f[m]) /\ IsInjective(seqs[m+1])
        BY <2>4, <3>1, ElementOfSeq
      <3>4. From(m) \cap Range(seqs[m+1]) = {}
        <4>1. ASSUME NEW j \in 1..m
              PROVE  Range(seqs[j]) \cap Range(seqs[m+1]) = {}
          <5>1. j \in 1..Len(seqs) /\ j # m + 1
            BY <3>1
          <5>2. QED
            BY <3>1, <5>1, Zenon
        <4>2. QED
          BY <4>1
      <3>5. Range(f[m]) \subseteq From(m)
        BY <2>4
      <3>6. /\ IsInjective(f[m] \o seqs[m+1])
            /\ Range(f[m] \o seqs[m+1]) \subseteq Range(f[m]) \cup Range(seqs[m+1])
        <4>1. Range(f[m]) \cap Range(seqs[m+1]) = {}
          BY <3>4, <3>5
        <4>2. QED
          BY <3>3, <4>1, ConcatInjective
      <3>7. f[m] \o seqs[m+1] \in Seq(T)
        BY <3>3, ConcatProperties
      <3>8. From(m) \cup Range(seqs[m+1]) \subseteq From(m+1)
        BY <3>1
      <3> HIDE DEF From
      <3>9. QED
        BY <3>1, <3>2, <3>5, <3>6, <3>7, <3>8
    <2> HIDE DEF good
    <2>5. 1..Len(seqs) \subseteq good
      BY <2>2, <2>3, <2>4, SetInduction
    <2>6. Len(seqs) \in good
      <3>1. Len(seqs) \in 1..Len(seqs)
        BY <2>2
      <3>2. QED
        BY <2>5, <3>1, Zenon
    <2>7. QED
      BY <2>1, <2>6 DEF good
  <1>3. QED
    BY <1>1, <1>2

-----------------------------------------------------------------------------
(* Prefixes.                                                               *)

LEMMA PrefixProperties ==
  ASSUME NEW T, NEW s \in Seq(T), NEW c \in Prefixes(s)
  PROVE  /\ c \in Seq(T)
         /\ Len(c) <= Len(s)
         /\ \A i \in 1..Len(c) : c[i] = s[i]
  <1>1. Len(s) \in Nat /\ \A i \in 1..Len(s) : s[i] \in T
    BY LenProperties, ElementOfSeq
  <1>2. PICK l \in 0..Len(s) : c = SubSeq(s, 1, l)
    BY DEF Prefixes
  <1>3. /\ SubSeq(s, 1, l) \in Seq(T)
        /\ Len(SubSeq(s, 1, l)) = l
        /\ \A i \in 1..l : SubSeq(s, 1, l)[i] = s[i]
    BY <1>1, SubSeqProperties
  <1>4. QED
    BY <1>1, <1>2, <1>3

LEMMA PrefixIntro ==
  ASSUME NEW T, NEW s \in Seq(T), NEW c \in Seq(T), Len(c) <= Len(s),
         \A i \in 1..Len(c) : c[i] = s[i]
  PROVE  c \in Prefixes(s) /\ IsPrefix(c, s)
  <1>1. /\ Len(s) \in Nat /\ Len(c) \in Nat
        /\ \A i \in 1..Len(s) : s[i] \in T
        /\ \A i \in 1..Len(c) : c[i] \in T
    BY LenProperties, ElementOfSeq
  <1>2. /\ SubSeq(s, 1, Len(c)) \in Seq(T)
        /\ Len(SubSeq(s, 1, Len(c))) = Len(c)
        /\ \A i \in 1..Len(c) : SubSeq(s, 1, Len(c))[i] = s[i]
    BY <1>1, SubSeqProperties
  <1>3. /\ SubSeq(c, 1, Len(c)) \in Seq(T)
        /\ Len(SubSeq(c, 1, Len(c))) = Len(c)
        /\ \A i \in 1..Len(c) : SubSeq(c, 1, Len(c))[i] = c[i]
    BY <1>1, SubSeqProperties
  <1>4. c = SubSeq(s, 1, Len(c))
    BY <1>2, SeqEqual
  <1>5. SubSeq(c, 1, Len(c)) = SubSeq(s, 1, Len(c))
    BY <1>2, <1>3, SeqEqual
  <1>6. Len(c) \in 0..Len(s)
    BY <1>1
  <1>7. c \in Prefixes(s)
    BY <1>4, <1>6, Zenon DEF Prefixes
  <1>8. IsPrefix(c, s)
    BY <1>5, Zenon DEF IsPrefix
  <1>9. QED
    BY <1>7, <1>8

\* The shortest prefix and the longest.
LEMMA PrefixExtremes ==
  ASSUME NEW T, NEW s \in Seq(T)
  PROVE  <<>> \in Prefixes(s) /\ s \in Prefixes(s) /\ IsPrefix(s, s)
  <1>1. Len(s) \in Nat /\ <<>> \in Seq(T) /\ Len(<<>>) = 0
    BY LenProperties, EmptySeq
  <1>2. <<>> \in Prefixes(s)
    <2> DEFINE e == <<>>
    <2>1. e \in Seq(T) /\ Len(e) = 0
      BY <1>1
    <2> HIDE DEF e
    <2>2. Len(e) <= Len(s) /\ \A i \in 1..Len(e) : e[i] = s[i]
      BY <1>1, <2>1
    <2>3. e \in Prefixes(s)
      BY <2>1, <2>2, PrefixIntro
    <2>4. QED
      BY <2>3 DEF e
  <1>3. s \in Prefixes(s) /\ IsPrefix(s, s)
    <2>1. Len(s) <= Len(s) /\ \A i \in 1..Len(s) : s[i] = s[i]
      BY <1>1
    <2>2. QED
      BY <2>1, PrefixIntro
  <1>4. QED
    BY <1>2, <1>3

\* A prefix of the second part is one of the whole, after the first part;
\* a prefix of the first part is one of the whole.
LEMMA PrefixOfConcat ==
  ASSUME NEW T, NEW s \in Seq(T), NEW t \in Seq(T), NEW c \in Prefixes(t), NEW d \in Prefixes(s)
  PROVE  /\ s \o c \in Prefixes(s \o t) /\ IsPrefix(s \o c, s \o t)
         /\ d \in Prefixes(s \o t) /\ IsPrefix(d, s \o t)
  <1>1. /\ c \in Seq(T) /\ Len(c) <= Len(t) /\ \A i \in 1..Len(c) : c[i] = t[i]
        /\ d \in Seq(T) /\ Len(d) <= Len(s) /\ \A i \in 1..Len(d) : d[i] = s[i]
    BY PrefixProperties
  <1>2. Len(s) \in Nat /\ Len(t) \in Nat /\ Len(c) \in Nat /\ Len(d) \in Nat
    BY <1>1, LenProperties
  <1>3. /\ s \o t \in Seq(T) /\ Len(s \o t) = Len(s) + Len(t)
        /\ \A i \in 1..Len(s) + Len(t) :
             (s \o t)[i] = IF i <= Len(s) THEN s[i] ELSE t[i - Len(s)]
    BY ConcatProperties
  <1>4. /\ s \o c \in Seq(T) /\ Len(s \o c) = Len(s) + Len(c)
        /\ \A i \in 1..Len(s) + Len(c) :
             (s \o c)[i] = IF i <= Len(s) THEN s[i] ELSE c[i - Len(s)]
    BY <1>1, ConcatProperties
  <1>5. \A i \in 1..Len(s \o c) : (s \o c)[i] = (s \o t)[i]
    <2>1. ASSUME NEW i \in 1..Len(s) + Len(c)
          PROVE  (s \o c)[i] = (s \o t)[i]
      <3>1. i \in 1..Len(s) + Len(t)
        BY <1>1, <1>2
      <3>2. CASE i <= Len(s)
        BY <1>3, <1>4, <3>1, <3>2
      <3>3. CASE ~(i <= Len(s))
        <4>1. i - Len(s) \in 1..Len(c)
          BY <1>2, <3>3
        <4>2. QED
          BY <1>1, <1>3, <1>4, <3>1, <3>3, <4>1
      <3>4. QED
        BY <3>2, <3>3
    <2>2. QED
      BY <1>4, <2>1
  <1>6. Len(s \o c) <= Len(s \o t)
    BY <1>1, <1>2, <1>3, <1>4
  <1>7. Len(d) <= Len(s \o t) /\ \A i \in 1..Len(d) : d[i] = (s \o t)[i]
    BY <1>1, <1>2, <1>3
  <1>8. QED
    BY <1>1, <1>3, <1>4, <1>5, <1>6, <1>7, PrefixIntro

-----------------------------------------------------------------------------
(* Queues: two sequences of which the second is behind the first.          *)

LEMMA ConcatHead ==
  ASSUME NEW T, NEW s \in Seq(T), s # <<>>, NEW t \in Seq(T)
  PROVE  s \o t # <<>> /\ Head(s \o t) = Head(s) /\ Tail(s \o t) = Tail(s) \o t
  <1>1. /\ Len(s) \in Nat \ {0} /\ Len(t) \in Nat
        /\ s \o t \in Seq(T) /\ Len(s \o t) = Len(s) + Len(t)
        /\ \A i \in 1..Len(s) + Len(t) :
             (s \o t)[i] = IF i <= Len(s) THEN s[i] ELSE t[i - Len(s)]
    BY LenProperties, EmptySeq, ConcatProperties
  <1>2. s \o t # <<>>
    BY <1>1, EmptySeq
  <1>3. /\ Tail(s) \in Seq(T) /\ Len(Tail(s)) = Len(s) - 1
        /\ \A i \in 1..Len(Tail(s)) : Tail(s)[i] = s[i+1]
    BY HeadTailProperties
  <1>4. /\ Tail(s \o t) \in Seq(T) /\ Len(Tail(s \o t)) = Len(s \o t) - 1
        /\ \A i \in 1..Len(Tail(s \o t)) : Tail(s \o t)[i] = (s \o t)[i+1]
    BY <1>1, <1>2, HeadTailProperties
  <1>5. /\ Tail(s) \o t \in Seq(T) /\ Len(Tail(s) \o t) = Len(Tail(s)) + Len(t)
        /\ \A i \in 1..Len(Tail(s)) + Len(t) :
             (Tail(s) \o t)[i] = IF i <= Len(Tail(s)) THEN Tail(s)[i] ELSE t[i - Len(Tail(s))]
    BY <1>3, ConcatProperties
  <1>6. Len(Tail(s \o t)) = Len(Tail(s) \o t)
    BY <1>1, <1>3, <1>4, <1>5
  <1>7. ASSUME NEW i \in 1..Len(Tail(s \o t))
        PROVE  Tail(s \o t)[i] = (Tail(s) \o t)[i]
    <2>1. i + 1 \in 1..Len(s) + Len(t) /\ i \in 1..Len(Tail(s)) + Len(t)
      BY <1>1, <1>3, <1>4
    <2>2. Tail(s \o t)[i] = IF i + 1 <= Len(s) THEN s[i+1] ELSE t[(i + 1) - Len(s)]
      BY <1>1, <1>4, <2>1
    <2>3. (Tail(s) \o t)[i] = IF i <= Len(s) - 1 THEN Tail(s)[i] ELSE t[i - (Len(s) - 1)]
      BY <1>3, <1>5, <2>1
    <2>4. CASE i <= Len(s) - 1
      <3>1. i \in 1..Len(Tail(s)) /\ i + 1 <= Len(s)
        BY <1>1, <1>3, <2>4
      <3>2. QED
        BY <1>3, <2>2, <2>3, <2>4, <3>1
    <2>5. CASE ~(i <= Len(s) - 1)
      <3>1. ~(i + 1 <= Len(s)) /\ (i + 1) - Len(s) = i - (Len(s) - 1)
        BY <1>1, <2>5
      <3>2. QED
        BY <2>2, <2>3, <2>5, <3>1
    <2>6. QED
      BY <2>4, <2>5
  <1>8. Tail(s \o t) = Tail(s) \o t
    BY <1>4, <1>5, <1>6, <1>7, SeqEqual
  <1>9. Head(s \o t) = Head(s)
    <2>1. Head(s \o t) = (s \o t)[1] /\ Head(s) = s[1]
      BY <1>1, <1>2
    <2>2. 1 \in 1..Len(s) + Len(t) /\ 1 <= Len(s)
      BY <1>1
    <2>3. QED
      BY <1>1, <2>1, <2>2
  <1>10. QED
    BY <1>2, <1>8, <1>9

LEMMA ConcatAppend ==
  ASSUME NEW T, NEW s \in Seq(T), NEW t \in Seq(T), NEW e \in T
  PROVE  s \o Append(t, e) = Append(s \o t, e)
  <1>1. <<e>> \in Seq(T) /\ s \o t \in Seq(T)
    BY ConcatProperties
  <1>2. Append(t, e) = t \o <<e>> /\ Append(s \o t, e) = (s \o t) \o <<e>>
    BY <1>1, AppendIsConcat
  <1>3. QED
    BY <1>1, <1>2, ConcatAssociative

\* The head of the second becomes the end of the first.
LEMMA ConcatMove ==
  ASSUME NEW T, NEW s \in Seq(T), NEW t \in Seq(T), t # <<>>
  PROVE  Append(s, Head(t)) \o Tail(t) = s \o t
  <1> DEFINE h == <<Head(t)>>
  <1>1. Head(t) \in T /\ Tail(t) \in Seq(T) /\ h \in Seq(T)
    BY HeadTailProperties
  <1>2. h \o Tail(t) = t
    <2>1. /\ h \o Tail(t) \in Seq(T) /\ Len(h \o Tail(t)) = 1 + Len(Tail(t))
          /\ \A i \in 1..1 + Len(Tail(t)) :
               (h \o Tail(t))[i] = IF i <= 1 THEN h[i] ELSE Tail(t)[i - 1]
      BY <1>1, ConcatProperties
    <2>2. /\ Len(t) \in Nat \ {0} /\ Len(Tail(t)) = Len(t) - 1
          /\ \A i \in 1..Len(Tail(t)) : Tail(t)[i] = t[i+1]
          /\ h[1] = t[1]
      BY LenProperties, EmptySeq, HeadTailProperties
    <2>3. ASSUME NEW i \in 1..Len(t)
          PROVE  (h \o Tail(t))[i] = t[i]
      <3>1. CASE i = 1
        BY <2>1, <2>2, <3>1
      <3>2. CASE i # 1
        <4>1. i - 1 \in 1..Len(Tail(t)) /\ (i - 1) + 1 = i /\ ~(i <= 1) /\ i \in 1..1 + Len(Tail(t))
          BY <2>2, <3>2
        <4>2. QED
          BY <2>1, <2>2, <4>1
      <3>3. QED
        BY <3>1, <3>2
    <2>4. Len(h \o Tail(t)) = Len(t)
      BY <2>1, <2>2
    <2>5. QED
      BY <2>1, <2>3, <2>4, SeqEqual
  <1>3. Append(s, Head(t)) = s \o h
    BY <1>1, AppendIsConcat
  <1> HIDE DEF h
  <1>4. (s \o h) \o Tail(t) = s \o (h \o Tail(t))
    BY <1>1, ConcatAssociative
  <1>5. QED
    BY <1>2, <1>3, <1>4, Zenon

-----------------------------------------------------------------------------
(* Recursive functions. *)

\* A function that calls itself, with an argument of a lower rank or not at
\* all, exists.
Terminates(D, V, done, rank, next, init, step) ==
  /\ done \in SUBSET D /\ rank \in [D -> Nat] /\ next \in [D -> D]
  /\ init \in [D -> V] /\ step \in [D \X V -> V]
  /\ \A d \in D \ done : rank[next[d]] < rank[d]

Computes(f, D, V, done, next, init, step) ==
  /\ f \in [D -> V]
  /\ \A d \in D : f[d] = IF d \in done THEN init[d] ELSE step[<<d, f[next[d]]>>]

LEMMA Recursion ==
  ASSUME NEW D, NEW V, NEW done, NEW rank, NEW next, NEW init, NEW step,
         Terminates(D, V, done, rank, next, init, step)
  PROVE  \E f : Computes(f, D, V, done, next, init, step)
  <1> USE DEF Terminates
  <1> DEFINE Value(f, d) == IF d \in done THEN init[d] ELSE step[<<d, f[next[d]]>>]
             Solves(f, n) == /\ f \in [D -> V]
                             /\ \A d \in D : rank[d] < n => f[d] = Value(f, d)
             missing == {n \in Nat : ~\E f : Solves(f, n)}
             solution(n) == CHOOSE f : Solves(f, n)
  <1>1. ASSUME NEW f \in [D -> V], NEW d \in D
        PROVE  Value(f, d) \in V
    <2>1. next[d] \in D /\ f[next[d]] \in V
      OBVIOUS
    <2>2. QED
      BY <2>1
  <1>2. missing = {}
    <2>1. SUFFICES ASSUME missing # {} PROVE FALSE
      OBVIOUS
    <2>2. PICK m \in missing : \A n \in missing : m <= n
      <3>1. missing \in SUBSET Nat
        OBVIOUS
      <3>2. QED
        BY <2>1, <3>1, MinProperties
    <2>3. m # 0
      <3>1. Solves(init, 0)
        OBVIOUS
      <3>2. 0 \notin missing
        BY <3>1
      <3>3. QED
        BY <3>2
    <2>4. m - 1 \in Nat /\ m - 1 \notin missing
      BY <2>2, <2>3
    <2>5. PICK f : Solves(f, m - 1)
      BY <2>4
    <2> DEFINE g == [d \in D |-> IF rank[d] < m - 1 THEN f[d] ELSE Value(f, d)]
    <2>6. g \in [D -> V]
      <3>1. \A d \in D : Value(f, d) \in V /\ f[d] \in V
        BY <1>1, <2>5
      <3> HIDE DEF Value
      <3>2. QED
        BY <3>1
    <2>7. ASSUME NEW d \in D, rank[d] < m
          PROVE  g[d] = Value(g, d)
      <3>1. g[d] = Value(f, d)
        <4>1. rank[d] < m - 1 => f[d] = Value(f, d)
          BY <2>5
        <4> HIDE DEF Value
        <4>2. QED
          BY <4>1
      <3>2. CASE d \in done
        BY <3>1, <3>2
      <3>3. CASE d \notin done
        <4>1. next[d] \in D /\ rank[next[d]] < m - 1
          <5>1. rank[d] \in Nat /\ rank[next[d]] \in Nat /\ rank[next[d]] < rank[d] /\ m \in Nat
            BY <3>3
          <5>2. QED
            BY <2>7, <5>1
        <4>2. g[next[d]] = f[next[d]]
          BY <4>1
        <4> HIDE DEF g
        <4>3. QED
          BY <3>1, <3>3, <4>2
      <3>4. QED
        BY <3>2, <3>3
    <2> HIDE DEF g
    <2>8. Solves(g, m)
      BY <2>6, <2>7
    <2>9. QED
      BY <2>8
  <1>3. ASSUME NEW n \in Nat
        PROVE  Solves(solution(n), n)
    <2>1. \E f : Solves(f, n)
      BY <1>2
    <2> HIDE DEF Solves
    <2>2. QED
      BY <2>1, Zenon
  <1>4. ASSUME NEW n \in Nat, NEW f, NEW g, Solves(f, n), Solves(g, n),
               NEW d \in D, rank[d] < n
        PROVE  f[d] = g[d]
    <2> DEFINE Differ(e) == e \in D /\ rank[e] < n /\ f[e] # g[e]
               differ == {m \in Nat : \E e : Differ(e) /\ rank[e] = m}
    <2>1. SUFFICES ASSUME f[d] # g[d] PROVE FALSE
      OBVIOUS
    <2>2. differ \in SUBSET Nat /\ differ # {}
      <3>1. Differ(d) /\ rank[d] \in Nat
        BY <1>4, <2>1
      <3> HIDE DEF Differ
      <3>2. rank[d] \in differ
        BY <3>1
      <3>3. QED
        BY <3>2
    <2>3. PICK m \in differ : \A k \in differ : m <= k
      BY <2>2, MinProperties
    <2>4. PICK e \in D : rank[e] = m /\ rank[e] < n /\ f[e] # g[e]
      BY <2>3
    <2>5. f[e] = Value(f, e) /\ g[e] = Value(g, e)
      BY <1>4, <2>4
    <2>6. e \notin done
      BY <2>4, <2>5
    <2>7. next[e] \in D /\ rank[next[e]] < rank[e] /\ rank[next[e]] < n /\ rank[e] \in Nat
          /\ rank[next[e]] \in Nat
      BY <2>4, <2>6
    <2>8. f[next[e]] # g[next[e]]
      BY <2>4, <2>5, <2>6
    <2>9. rank[next[e]] \in differ
      <3>1. Differ(next[e]) /\ rank[next[e]] \in Nat
        BY <2>7, <2>8
      <3> HIDE DEF Differ
      <3>2. QED
        BY <3>1
    <2>10. QED
      BY <2>3, <2>4, <2>7, <2>9
  <1> DEFINE h == [d \in D |-> solution(rank[d] + 1)[d]]
  <1>5. ASSUME NEW d \in D
        PROVE  /\ h[d] = solution(rank[d] + 1)[d] /\ rank[d] \in Nat /\ rank[d] + 1 \in Nat
               /\ Solves(solution(rank[d] + 1), rank[d] + 1)
    <2>1. rank[d] \in Nat /\ rank[d] + 1 \in Nat
      OBVIOUS
    <2> HIDE DEF Solves, solution
    <2>2. Solves(solution(rank[d] + 1), rank[d] + 1)
      BY <1>3, <2>1
    <2>3. QED
      BY <2>1, <2>2
  <1>6. h \in [D -> V]
    <2>1. ASSUME NEW d \in D
          PROVE  solution(rank[d] + 1)[d] \in V
      <3>1. solution(rank[d] + 1) \in [D -> V]
        BY <1>5
      <3> HIDE DEF solution
      <3>2. QED
        BY <3>1
    <2> HIDE DEF solution
    <2>2. QED
      BY <2>1
  <1> HIDE DEF h, solution
  <1>7. ASSUME NEW d \in D
        PROVE  h[d] = Value(h, d)
    <2> DEFINE own == solution(rank[d] + 1)
    <2>1. Solves(own, rank[d] + 1) /\ h[d] = own[d] /\ rank[d] < rank[d] + 1
      BY <1>5
    <2> HIDE DEF own
    <2>2. h[d] = Value(own, d)
      BY <2>1
    <2>3. CASE d \in done
      BY <2>2, <2>3
    <2>4. CASE d \notin done
      <3> DEFINE its == solution(rank[next[d]] + 1)
      <3>1. next[d] \in D /\ rank[next[d]] < rank[d]
        BY <2>4
      <3>2. Solves(its, rank[next[d]] + 1) /\ h[next[d]] = its[next[d]] /\ rank[next[d]] \in Nat
            /\ rank[next[d]] + 1 \in Nat
        BY <1>5, <3>1
      <3> HIDE DEF its
      <3>3. Solves(own, rank[next[d]] + 1)
        <4>1. \A e \in D : rank[e] < rank[next[d]] + 1 => rank[e] < rank[d] + 1
          BY <3>1, <3>2, <1>5
        <4> HIDE DEF Value
        <4>2. QED
          BY <2>1, <4>1
      <3>4. rank[next[d]] < rank[next[d]] + 1
        BY <3>2
      <3> HIDE DEF Solves
      <3>5. its[next[d]] = own[next[d]]
        BY <1>4, <3>1, <3>2, <3>3, <3>4
      <3>6. QED
        BY <2>2, <2>4, <3>2, <3>5
    <2>5. QED
      BY <2>3, <2>4
  <1>8. Computes(h, D, V, done, next, init, step)
    BY <1>6, <1>7 DEF Computes
  <1>9. QED
    BY <1>8
-----------------------------------------------------------------------------
(* Flattening, step by step. *)

\* The flattened first elements, up to all of them.
Flattens(G, T, seqs) ==
  /\ G \in [1..Len(seqs)+1 -> Seq(T)]
  /\ G[1] = <<>>
  /\ \A p \in 1..Len(seqs) : G[p + 1] = G[p] \o seqs[p]

LEMMA FlattenSeqSteps ==
  ASSUME NEW T, NEW seqs \in Seq(Seq(T))
  PROVE  \E G : Flattens(G, T, seqs) /\ FlattenSeq(seqs) = G[Len(seqs) + 1]
  <1>1. Len(seqs) \in Nat /\ <<>> \in Seq(T) /\ \A p \in 1..Len(seqs) : seqs[p] \in Seq(T)
    BY EmptySeq
  <1>2. CASE Len(seqs) = 0
    <2> DEFINE G == [p \in 1..1 |-> <<>>]
    <2>1. G \in [1..1 -> Seq(T)] /\ G[1] = <<>>
      BY <1>1
    <2> HIDE DEF G
    <2>2. Flattens(G, T, seqs)
      BY <1>2, <2>1 DEF Flattens
    <2>3. FlattenSeq(seqs) = <<>>
      BY <1>2, EmptySeq DEF FlattenSeq
    <2>4. QED
      BY <1>2, <2>1, <2>2, <2>3
  <1>3. CASE Len(seqs) # 0
    <2> DEFINE n == Len(seqs)
    <2>1. PICK f : /\ f = [i \in 1..n |-> IF i = 1 THEN seqs[i] ELSE f[i-1] \o seqs[i]]
                   /\ FlattenSeq(seqs) = f[n]
      BY <1>3, FlattenSeqRecursion
    <2> DEFINE G == [p \in 1..n+1 |-> IF p = 1 THEN <<>> ELSE f[p - 1]]
               typed == {p \in 1..n+1 : G[p] \in Seq(T)}
    <2>2. /\ n \in Nat /\ n >= 1 /\ G[1] = <<>> /\ G[n + 1] = f[n]
      BY <1>1, <1>3
    <2>3. ASSUME NEW p \in 1..n
          PROVE  G[p + 1] = IF p = 1 THEN seqs[1] ELSE G[p] \o seqs[p]
      <3>1. /\ p + 1 \in 1..n+1 /\ p + 1 # 1 /\ (p + 1) - 1 = p /\ p \in 1..n+1
            /\ (p # 1 => p - 1 \in 1..n)
        BY <2>2
      <3>2. G[p + 1] = f[p] /\ (p # 1 => G[p] = f[p - 1])
        BY <3>1
      <3>3. f[p] = IF p = 1 THEN seqs[p] ELSE f[p-1] \o seqs[p]
        BY <2>1
      <3> HIDE DEF G
      <3>4. QED
        BY <3>2, <3>3
    <2>4. DOMAIN G = 1..n+1 /\ G = [p \in 1..n+1 |-> G[p]]
      OBVIOUS
    <2> HIDE DEF G, n
    <2>5. ASSUME NEW p \in 1..n, G[p] \in Seq(T)
          PROVE  G[p + 1] = G[p] \o seqs[p] /\ G[p + 1] \in Seq(T)
      <3>1. seqs[p] \in Seq(T)
        BY <1>1 DEF n
      <3>2. G[p] \o seqs[p] \in Seq(T)
        BY <2>5, <3>1, ConcatProperties
      <3>3. p = 1 => G[p] \o seqs[p] = seqs[1]
        BY <2>2, <3>1, ConcatEmptySeq
      <3>4. QED
        BY <2>3, <3>2, <3>3
    <2>6. 1 \in typed
      <3>1. 1 \in 1..n+1
        BY <2>2
      <3>2. QED
        BY <1>1, <2>2, <3>1
    <2>7. ASSUME NEW p \in 1..n+1, p \in typed, p + 1 <= n + 1
          PROVE  p + 1 \in typed
      <3>1. p \in 1..n /\ p + 1 \in 1..n+1
        BY <2>2, <2>7
      <3>2. QED
        BY <2>5, <2>7, <3>1
    <2>8. 1..n+1 \subseteq typed
      <3>1. n + 1 \in Nat
        BY <2>2
      <3> HIDE DEF typed
      <3>2. QED
        BY <2>6, <2>7, <3>1, SetInduction
    <2>9. \A p \in 1..n+1 : G[p] \in Seq(T)
      BY <2>8
    <2>10. \A p \in 1..n : G[p + 1] = G[p] \o seqs[p]
      <3>1. \A p \in 1..n : p \in 1..n+1
        BY <2>2
      <3>2. QED
        BY <2>5, <2>9, <3>1
    <2>11. G \in [1..n+1 -> Seq(T)]
      BY <2>4, <2>9
    <2>12. Flattens(G, T, seqs)
      BY <2>2, <2>10, <2>11 DEF Flattens, n
    <2>13. QED
      BY <2>1, <2>2, <2>12 DEF n
  <1>4. QED
    BY <1>2, <1>3

\* Empty elements add nothing.
Nothing(seqs, p, q) == \A n \in p..q-1 : seqs[n] = <<>>

LEMMA FlattenNothing ==
  ASSUME NEW T, NEW seqs \in Seq(Seq(T)), NEW G, Flattens(G, T, seqs),
         NEW p \in 1..Len(seqs)+1, NEW q \in p..Len(seqs)+1, Nothing(seqs, p, q)
  PROVE  G[q] = G[p]
  <1> DEFINE same == {k \in 1..q-p+1 : G[p + k - 1] = G[p]}
             last == q - p + 1
  <1>1. /\ G \in [1..Len(seqs)+1 -> Seq(T)]
        /\ \A k \in 1..Len(seqs) : G[k + 1] = G[k] \o seqs[k]
    BY Zenon DEF Flattens
  <1>2. Len(seqs) \in Nat /\ last \in Nat /\ last >= 1 /\ p + last - 1 = q
    OBVIOUS
  <1>3. 1 \in same
    <2>1. p + 1 - 1 = p /\ 1 \in 1..q-p+1
      OBVIOUS
    <2>2. QED
      BY <2>1
  <1>4. ASSUME NEW k \in 1..last, k \in same, k + 1 <= last
        PROVE  k + 1 \in same
    <2> DEFINE i == p + k - 1
    <2>1. /\ i \in 1..Len(seqs) /\ i \in p..q-1 /\ p + (k + 1) - 1 = i + 1 /\ k + 1 \in 1..q-p+1
          /\ i \in 1..Len(seqs)+1
      BY <1>2, <1>4
    <2>2. G[i] = G[p]
      BY <1>4
    <2> HIDE DEF i
    <2>3. G[i + 1] = G[i] \o seqs[i] /\ seqs[i] = <<>> /\ G[i] \in Seq(T)
      BY <1>1, <2>1 DEF Nothing
    <2>4. G[i] \o <<>> = G[i]
      BY <2>3, ConcatEmptySeq
    <2>5. G[i + 1] = G[p]
      BY <2>2, <2>3, <2>4
    <2>6. QED
      BY <2>1, <2>5
  <1> HIDE DEF same, last
  <1>5. 1..last \subseteq same
    BY <1>2, <1>3, <1>4, SetInduction
  <1>6. last \in same
    <2>1. last \in 1..last
      BY <1>2
    <2>2. QED
      BY <1>5, <2>1
  <1>7. QED
    BY <1>2, <1>6 DEF same

\* The same first elements flatten to the same.
SameBefore(x, y, n) == \A i \in 1..n-1 : x[i] = y[i]

EqualAt(G, H, n) == G[n] = H[n]

LEMMA FlattenSame ==
  ASSUME NEW T, NEW x \in Seq(Seq(T)), NEW y \in Seq(Seq(T)), NEW G, NEW H,
         Flattens(G, T, x), Flattens(H, T, y),
         NEW n \in 1..Len(x)+1, n <= Len(y) + 1, SameBefore(x, y, n)
  PROVE  EqualAt(G, H, n)
  <1> DEFINE same == {k \in 1..n : G[k] = H[k]}
  <1>1. /\ G[1] = <<>> /\ H[1] = <<>>
        /\ \A k \in 1..Len(x) : G[k + 1] = G[k] \o x[k]
        /\ \A k \in 1..Len(y) : H[k + 1] = H[k] \o y[k]
    BY Zenon DEF Flattens
  <1>2. 1 \in same /\ Len(x) \in Nat /\ Len(y) \in Nat
    BY <1>1
  <1>3. ASSUME NEW k \in 1..n, k \in same, k + 1 <= n
        PROVE  k + 1 \in same
    <2>1. k \in 1..Len(x) /\ k \in 1..Len(y) /\ k \in 1..n-1 /\ k + 1 \in 1..n
      BY <1>2, <1>3
    <2>2. G[k] = H[k] /\ x[k] = y[k]
      BY <1>3, <2>1 DEF SameBefore
    <2>3. G[k + 1] = H[k + 1]
      <3>1. G[k + 1] = G[k] \o x[k] /\ H[k + 1] = H[k] \o y[k]
        BY <1>1, <2>1
      <3>2. QED
        BY <2>2, <3>1, Zenon
    <2>4. QED
      BY <2>1, <2>3
  <1> HIDE DEF same
  <1>4. n \in Nat
    BY <1>2
  <1>5. 1..n \subseteq same
    BY <1>2, <1>3, <1>4, SetInduction
  <1>6. n \in 1..n
    BY <1>4
  <1>7. QED
    BY <1>5, <1>6 DEF same, EqualAt
=============================================================================
