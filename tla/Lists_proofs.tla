---------------------------- MODULE Lists_proofs ----------------------------
(* What the list operations keep: types, elements and distinctness.        *)
EXTENDS Lists, SequenceTheorems, FiniteSetTheorems, WellFoundedInduction, TLAPS

(* Splice, entry by entry.                                                 *)
LEMMA SpliceEntries ==
  ASSUME NEW S, NEW q \in Seq(S), NEW s \in Seq(S), NEW i \in 1 .. Len(q) + 1
  PROVE  /\ Splice(q, i, s) \in Seq(S)
         /\ Len(Splice(q, i, s)) = Len(q) + Len(s)
         /\ \A n \in 1 .. Len(q) + Len(s) :
              Splice(q, i, s)[n] = IF n < i THEN q[n]
                                   ELSE IF n < i + Len(s) THEN s[n - i + 1]
                                   ELSE q[n - Len(s)]
<1> DEFINE a == SubSeq(q, 1, i - 1)
           b == SubSeq(q, i, Len(q))
<1>1. /\ a \in Seq(S) /\ Len(a) = i - 1
      /\ \A n \in 1 .. i - 1 : a[n] = q[n]
  OBVIOUS
<1>2. /\ b \in Seq(S) /\ Len(b) = Len(q) - i + 1
      /\ \A n \in 1 .. Len(q) - i + 1 : b[n] = q[n + i - 1]
  OBVIOUS
<1> HIDE DEF a, b
<1>3. /\ a \o s \in Seq(S) /\ Len(a \o s) = i - 1 + Len(s)
      /\ \A n \in 1 .. i - 1 + Len(s) :
           (a \o s)[n] = IF n < i THEN q[n] ELSE s[n - i + 1]
  BY <1>1, SMTT(30)
<1> DEFINE x == a \o s
<1>4. x \in Seq(S) /\ Len(x) = i - 1 + Len(s)
  BY <1>3
<1>5. \A n \in 1 .. i - 1 + Len(s) :
        x[n] = IF n < i THEN q[n] ELSE s[n - i + 1]
  BY <1>3
<1> HIDE DEF x
<1>6. /\ x \o b \in Seq(S) /\ Len(x \o b) = Len(q) + Len(s)
      /\ \A n \in 1 .. Len(x) + Len(b) :
           (x \o b)[n] = IF n <= Len(x) THEN x[n] ELSE b[n - Len(x)]
  <2>1. x \in Seq(S) /\ b \in Seq(S)
    BY <1>2, <1>4
  <2>2. x \o b \in Seq(S) /\ Len(x \o b) = Len(x) + Len(b)
    BY <2>1, ConcatProperties
  <2>3. Len(x) + Len(b) = Len(q) + Len(s)
    BY <1>2, <1>4
  <2> QED BY <2>1, <2>2, <2>3, ConcatProperties
<1>7. Splice(q, i, s) = x \o b
  BY DEF Splice, a, b, x
<1>8. ASSUME NEW n \in 1 .. Len(q) + Len(s)
      PROVE  (x \o b)[n] = IF n < i THEN q[n]
                           ELSE IF n < i + Len(s) THEN s[n - i + 1]
                           ELSE q[n - Len(s)]
  <2>1. Len(q) \in Nat /\ Len(s) \in Nat /\ n \in 1 .. Len(x) + Len(b)
    BY <1>2, <1>4
  <2>2. CASE n < i
    BY <1>4, <1>5, <1>6, <2>1, <2>2, SMTT(30)
  <2>3. CASE ~(n < i) /\ n < i + Len(s)
    BY <1>4, <1>5, <1>6, <2>1, <2>3
  <2>4. CASE ~(n < i + Len(s))
    <3>1. (x \o b)[n] = b[n - Len(x)]
      BY <1>4, <1>6, <2>1, <2>4
    <3>2. /\ n - Len(x) \in 1 .. Len(q) - i + 1
          /\ (n - Len(x)) + i - 1 = n - Len(s)
      BY <1>4, <2>1, <2>4
    <3>3. b[n - Len(x)] = q[n - Len(s)]
      BY <1>2, <3>2
    <3>4. ~(n < i)
      BY <2>1, <2>4
    <3> QED BY <2>4, <3>1, <3>3, <3>4
  <2> QED BY <2>1, <2>2, <2>3, <2>4
<1> QED BY <1>6, <1>7, <1>8

(* A splice holds the elements of both sequences ...                       *)
LEMMA SpliceElements ==
  ASSUME NEW S, NEW q \in Seq(S), NEW s \in Seq(S), NEW i \in 1 .. Len(q) + 1
  PROVE  /\ Splice(q, i, s) \in Seq(S)
         /\ ToSet(Splice(q, i, s)) = ToSet(q) \cup ToSet(s)
<1> DEFINE r == Splice(q, i, s)
<1>1. /\ r \in Seq(S)
      /\ DOMAIN r = 1 .. Len(q) + Len(s)
      /\ \A n \in 1 .. Len(q) + Len(s) :
              r[n] = IF n < i THEN q[n]
                     ELSE IF n < i + Len(s) THEN s[n - i + 1]
                     ELSE q[n - Len(s)]
  BY SpliceEntries
<1> HIDE DEF r
<1>2. ASSUME NEW x \in ToSet(r) PROVE x \in ToSet(q) \cup ToSet(s)
  <2>1. PICK n \in DOMAIN r : r[n] = x
    BY DEF ToSet
  <2>2. CASE n < i
    BY <1>1, <2>1, <2>2, SMTT(30) DEF ToSet
  <2>3. CASE ~(n < i) /\ n < i + Len(s)
    <3>1. n - i + 1 \in DOMAIN s
      BY <1>1, <2>3
    <3> QED BY <1>1, <2>1, <2>3, <3>1 DEF ToSet
  <2>4. CASE ~(n < i) /\ ~(n < i + Len(s))
    <3>1. n - Len(s) \in DOMAIN q
      BY <1>1, <2>4
    <3> QED BY <1>1, <2>1, <2>4, <3>1 DEF ToSet
  <2> QED BY <2>2, <2>3, <2>4
<1>3. ASSUME NEW n \in DOMAIN q PROVE q[n] \in ToSet(r)
  <2>1. CASE n < i
    BY <1>1, <2>1, SMTT(30) DEF ToSet
  <2>2. CASE ~(n < i)
    <3>1. n + Len(s) \in DOMAIN r /\ r[n + Len(s)] = q[n]
      BY <1>1, <2>2
    <3> QED BY <3>1 DEF ToSet
  <2> QED BY <2>1, <2>2
<1>4. ASSUME NEW n \in DOMAIN s PROVE s[n] \in ToSet(r)
  <2>1. n + i - 1 \in DOMAIN r /\ r[n + i - 1] = s[n]
    BY <1>1, SMTT(30)
  <2> QED BY <2>1 DEF ToSet
<1>5. ToSet(r) = ToSet(q) \cup ToSet(s)
  BY <1>2, <1>3, <1>4 DEF ToSet
<1> QED BY <1>1, <1>5 DEF r

(* Insertion of one element moves those from its position on up by one.    *)
LEMMA SpliceOne ==
  ASSUME NEW S, NEW q \in Seq(S), NEW c \in S, NEW i \in 1 .. Len(q) + 1
  PROVE  /\ DOMAIN Splice(q, i, <<c>>) = 1 .. Len(q) + 1
         /\ \A n \in 1 .. Len(q) + 1 :
              /\ n < i => Splice(q, i, <<c>>)[n] = q[n]
              /\ n = i => Splice(q, i, <<c>>)[n] = c
              /\ n > i => Splice(q, i, <<c>>)[n] = q[n - 1]
<1> DEFINE s == <<c>>
           r == Splice(q, i, s)
<1>1. s \in Seq(S) /\ Len(s) = 1 /\ s[1] = c /\ Len(q) \in Nat
  OBVIOUS
<1> HIDE DEF s
<1>2. /\ r \in Seq(S) /\ Len(r) = Len(q) + Len(s)
      /\ \A n \in 1 .. Len(q) + Len(s) :
              r[n] = IF n < i THEN q[n]
                     ELSE IF n < i + Len(s) THEN s[n - i + 1]
                     ELSE q[n - Len(s)]
  BY <1>1, SpliceEntries
<1> HIDE DEF r
<1>3. /\ DOMAIN r = 1 .. Len(q) + 1
      /\ \A n \in 1 .. Len(q) + 1 :
              r[n] = IF n < i THEN q[n]
                     ELSE IF n < i + 1 THEN s[n - i + 1]
                     ELSE q[n - 1]
  BY <1>1, <1>2
<1>4. \A n \in 1 .. Len(q) + 1 :
        n = i => n - i + 1 = 1 /\ ~(n < i) /\ n < i + 1
  BY <1>1
<1>5. \A n \in 1 .. Len(q) + 1 : n > i => ~(n < i) /\ ~(n < i + 1)
  BY <1>1
<1>6. /\ DOMAIN r = 1 .. Len(q) + 1
      /\ \A n \in 1 .. Len(q) + 1 :
              /\ n < i => r[n] = q[n]
              /\ n = i => r[n] = c
              /\ n > i => r[n] = q[n - 1]
  BY <1>1, <1>3, <1>4, <1>5
<1> QED BY <1>6 DEF r, s

(* So it adds that element, and no other.                                  *)
LEMMA SpliceOneElements ==
  ASSUME NEW S, NEW q \in Seq(S), NEW c \in S, NEW i \in 1 .. Len(q) + 1
  PROVE  ToSet(Splice(q, i, <<c>>)) \subseteq ToSet(q) \cup {c}
<1> DEFINE r == Splice(q, i, <<c>>)
<1>1. /\ DOMAIN r = 1 .. Len(q) + 1
      /\ \A n \in 1 .. Len(q) + 1 :
            /\ n < i => r[n] = q[n]
            /\ n = i => r[n] = c
            /\ n > i => r[n] = q[n - 1]
  BY SpliceOne
<1>2. Len(q) \in Nat /\ DOMAIN q = 1 .. Len(q) /\ i \in Nat /\ i >= 1
  OBVIOUS
<1> HIDE DEF r
<1>3. ASSUME NEW n \in 1 .. Len(q) + 1
      PROVE  r[n] = c \/ \E m \in DOMAIN q : r[n] = q[m]
  <2>1. CASE n < i
    <3>1. n \in DOMAIN q /\ r[n] = q[n]
      BY <1>1, <1>2, <2>1
    <3> QED BY <3>1
  <2>2. CASE n = i
    BY <1>1, <2>2
  <2>3. CASE n > i
    <3>1. n - 1 \in DOMAIN q /\ r[n] = q[n - 1]
      BY <1>1, <1>2, <2>3
    <3> QED BY <3>1
  <2> QED BY <1>2, <2>1, <2>2, <2>3
<1>4. ToSet(r) \subseteq ToSet(q) \cup {c}
  BY <1>1, <1>3 DEF ToSet
<1> QED BY <1>4 DEF r

(* ... and each once, when the two are disjoint.                           *)
LEMMA SpliceNoDup ==
  ASSUME NEW S, NEW q \in Seq(S), NEW s \in Seq(S), NEW i \in 1 .. Len(q) + 1,
         NoDup(q), NoDup(s), ToSet(q) \cap ToSet(s) = {}
  PROVE  NoDup(Splice(q, i, s))
<1> DEFINE r == Splice(q, i, s)
<1>1. /\ DOMAIN r = 1 .. Len(q) + Len(s)
      /\ \A n \in 1 .. Len(q) + Len(s) :
              r[n] = IF n < i THEN q[n]
                     ELSE IF n < i + Len(s) THEN s[n - i + 1]
                     ELSE q[n - Len(s)]
  BY SpliceEntries
<1> HIDE DEF r
<1>2. \A m \in DOMAIN q, n \in DOMAIN s : q[m] # s[n]
  BY DEF ToSet
<1>3. \A m, n \in DOMAIN q : q[m] = q[n] => m = n
  BY DEF NoDup
<1>4. \A m, n \in DOMAIN s : s[m] = s[n] => m = n
  BY DEF NoDup
<1>5. /\ DOMAIN q = 1 .. Len(q) /\ DOMAIN s = 1 .. Len(s)
      /\ Len(q) \in Nat /\ Len(s) \in Nat
  OBVIOUS
<1>6. ASSUME NEW m \in DOMAIN r
      PROVE  \/ m < i /\ m \in DOMAIN q /\ r[m] = q[m]
             \/ /\ m >= i /\ m < i + Len(s) /\ m - i + 1 \in DOMAIN s
                /\ r[m] = s[m - i + 1]
             \/ /\ m >= i + Len(s) /\ m - Len(s) \in DOMAIN q
                /\ r[m] = q[m - Len(s)]
  <2>1. m \in Nat /\ i \in Nat
    BY <1>1, <1>5
  <2>2. CASE m < i
    BY <1>1, <1>5, <2>1, <2>2
  <2>3. CASE ~(m < i) /\ m < i + Len(s)
    BY <1>1, <1>5, <2>1, <2>3
  <2>4. CASE ~(m < i) /\ ~(m < i + Len(s))
    BY <1>1, <1>5, <2>1, <2>4
  <2> QED BY <2>2, <2>3, <2>4
<1>7. ASSUME NEW m \in DOMAIN r, NEW n \in DOMAIN r, r[m] = r[n]
      PROVE  m = n
  <2>1. m \in Nat /\ n \in Nat /\ i \in Nat
    BY <1>1, <1>5
  <2>2. CASE m < i
    <3>1. ~(n >= i /\ n < i + Len(s) /\ n - i + 1 \in DOMAIN s /\ r[n] = s[n - i + 1])
      BY <1>2, <1>6, <1>7, <2>1, <2>2, <1>5, SMTT(30)
    <3>2. ~(n >= i + Len(s) /\ n - Len(s) \in DOMAIN q /\ r[n] = q[n - Len(s)])
      BY <1>3, <1>6, <1>7, <2>1, <2>2, <1>5, SMTT(30)
    <3> QED BY <1>3, <1>6, <1>7, <2>1, <2>2, <3>1, <3>2, <1>5, SMTT(30)
  <2>3. CASE m >= i /\ m < i + Len(s)
    <3>1. n >= i /\ n < i + Len(s) /\ n - i + 1 \in DOMAIN s /\ r[n] = s[n - i + 1]
      BY <1>2, <1>6, <1>7, <2>1, <2>3, <1>5, SMTT(30)
    <3>2. m - i + 1 = n - i + 1
      BY <1>4, <1>6, <1>7, <2>1, <2>3, <3>1, <1>5, SMTT(30)
    <3> QED BY <3>2, <2>1
  <2>4. CASE m >= i + Len(s)
    <3>1. ~(n < i)
      BY <1>3, <1>6, <1>7, <2>1, <2>4, <1>5, SMTT(30)
    <3>2. ~(n >= i /\ n < i + Len(s) /\ n - i + 1 \in DOMAIN s /\ r[n] = s[n - i + 1])
      BY <1>2, <1>6, <1>7, <2>1, <2>4, <1>5, SMTT(30)
    <3>3. m - Len(s) = n - Len(s)
      BY <1>3, <1>6, <1>7, <2>1, <2>4, <3>1, <3>2, <1>5, SMTT(30)
    <3> QED BY <3>3, <2>1, <1>5
  <2> QED BY <2>1, <2>2, <2>3, <2>4, <1>5
<1> QED BY <1>7 DEF NoDup, r

(* RemoveAt closes the gap it makes.                                       *)
LEMMA RemoveAtEntries ==
  ASSUME NEW S, NEW q \in Seq(S), NEW i \in DOMAIN q
  PROVE  /\ RemoveAt(q, i) \in Seq(S)
         /\ Len(RemoveAt(q, i)) = Len(q) - 1
         /\ \A n \in 1 .. Len(q) - 1 :
              RemoveAt(q, i)[n] = IF n < i THEN q[n] ELSE q[n + 1]
<1> DEFINE a == SubSeq(q, 1, i - 1)
           b == SubSeq(q, i + 1, Len(q))
<1>1. /\ a \in Seq(S) /\ Len(a) = i - 1
      /\ \A n \in 1 .. i - 1 : a[n] = q[n]
  OBVIOUS
<1>2. /\ b \in Seq(S) /\ Len(b) = Len(q) - i
      /\ \A n \in 1 .. Len(q) - i : b[n] = q[n + i]
  OBVIOUS
<1> HIDE DEF a, b
<1>3. /\ a \o b \in Seq(S) /\ Len(a \o b) = Len(q) - 1
      /\ \A n \in 1 .. Len(q) - 1 :
           (a \o b)[n] = IF n <= Len(a) THEN a[n] ELSE b[n - Len(a)]
  <2>1. a \in Seq(S) /\ b \in Seq(S)
    BY <1>1, <1>2
  <2>2. Len(a) + Len(b) = Len(q) - 1
    BY <1>1, <1>2
  <2> QED BY <2>1, <2>2, ConcatProperties
<1>4. RemoveAt(q, i) = a \o b
  BY DEF RemoveAt, a, b
<1>5. ASSUME NEW n \in 1 .. Len(q) - 1
      PROVE  (a \o b)[n] = IF n < i THEN q[n] ELSE q[n + 1]
  <2>1. CASE n < i
    BY <1>1, <1>3, <2>1
  <2>2. CASE ~(n < i)
    <3>1. (a \o b)[n] = b[n - Len(a)]
      BY <1>1, <1>3, <2>2
    <3>2. n - Len(a) \in 1 .. Len(q) - i /\ (n - Len(a)) + i = n + 1
      BY <1>1, <2>2
    <3> QED BY <1>2, <2>2, <3>1, <3>2
  <2> QED BY <2>1, <2>2
<1> QED BY <1>3, <1>4, <1>5

(* list_del takes out e and nothing else.                                  *)
LEMMA UnlistedElements ==
  ASSUME NEW S, NEW q \in Seq(S), NoDup(q), NEW e, NEW r \in Unlisted(q, e)
  PROVE  r \in Seq(S) /\ ToSet(r) = ToSet(q) \ {e} /\ NoDup(r)
<1>1. CASE e \notin ToSet(q)
  BY <1>1 DEF Unlisted
<1>2. CASE e \in ToSet(q)
  <2>1. PICK i \in DOMAIN q : q[i] = e /\ r = RemoveAt(q, i)
    BY <1>2 DEF Unlisted
  <2>2. /\ r \in Seq(S)
        /\ DOMAIN r = 1 .. Len(q) - 1
        /\ \A n \in 1 .. Len(q) - 1 : r[n] = IF n < i THEN q[n] ELSE q[n + 1]
    BY <2>1, RemoveAtEntries
  <2>3. \A m, n \in DOMAIN q : q[m] = q[n] => m = n
    BY DEF NoDup
  <2>4. DOMAIN q = 1 .. Len(q) /\ Len(q) \in Nat
    OBVIOUS
  <2>5. ASSUME NEW m \in DOMAIN r, NEW n \in DOMAIN r, r[m] = r[n]
        PROVE  m = n
    <3>1. /\ m \in DOMAIN q /\ n \in DOMAIN q
          /\ m + 1 \in DOMAIN q /\ n + 1 \in DOMAIN q
      BY <2>2, <2>4
    <3>2. CASE m < i
      BY <2>2, <2>3, <2>4, <2>5, <3>1, <3>2
    <3>3. CASE ~(m < i)
      BY <2>2, <2>3, <2>4, <2>5, <3>1, <3>3
    <3> QED BY <3>2, <3>3
  <2>6. \A n \in DOMAIN r : r[n] \in ToSet(q) \ {e}
    BY <2>1, <2>2, <2>3, <2>4 DEF ToSet
  <2>7. ASSUME NEW n \in DOMAIN q, q[n] # e
        PROVE  q[n] \in ToSet(r)
    <3>1. CASE n < i
      BY <2>2, <2>4, <3>1 DEF ToSet
    <3>2. CASE n > i
      <4>1. n - 1 \in DOMAIN r /\ r[n - 1] = q[n]
        BY <2>2, <2>4, <3>2
      <4> QED BY <4>1 DEF ToSet
    <3> QED BY <3>1, <3>2, <2>1, <2>4, <2>7
  <2> QED BY <2>2, <2>5, <2>6, <2>7 DEF ToSet, NoDup
<1> QED BY <1>1, <1>2

(* An enumeration of S lists S, each element once.                         *)
LEMMA SetToSeqsElements ==
  ASSUME NEW T, NEW S \in SUBSET T, IsFiniteSet(S), NEW s \in SetToSeqs(S)
  PROVE  s \in Seq(T) /\ ToSet(s) = S /\ NoDup(s)
<1> DEFINE n == Cardinality(S)
<1>1. n \in Nat
  BY FS_CardinalityType
<1>2. /\ s \in [1 .. n -> S]
      /\ \A i, j \in 1 .. n : i # j => s[i] # s[j]
  BY DEF SetToSeqs
<1>3. s \in Seq(T) /\ NoDup(s)
  BY <1>1, <1>2 DEF NoDup
<1>4. /\ IsFiniteSet(1 .. n) /\ Cardinality(1 .. n) = n
  BY <1>1, FS_Interval
<1>5. s \in Injection(1 .. n, S)
  BY <1>2 DEF Injection, IsInjective
<1>6. ToSet(s) = S
  <2>1. s \in Surjection(1 .. n, S)
    BY <1>4, <1>5, FS_Injection
  <2> QED BY <1>2, <2>1 DEF Surjection, ToSet
<1> QED BY <1>3, <1>6

(* A traversal of q that visits S lists S, each element once.              *)
LEMMA InListOrderElements ==
  ASSUME NEW T, NEW S \in SUBSET T, IsFiniteSet(S), NEW q,
         NEW s \in InListOrder(S, q)
  PROVE  s \in Seq(T) /\ ToSet(s) = S /\ NoDup(s)
<1>1. s \in SetToSeqs(S)
  BY DEF InListOrder
<1> QED BY <1>1, SetToSeqsElements

(* What Append adds, and when it makes no duplicate.                       *)
LEMMA AppendElements ==
  ASSUME NEW S, NEW q \in Seq(S), NEW e \in S
  PROVE  /\ Append(q, e) \in Seq(S)
         /\ ToSet(Append(q, e)) = ToSet(q) \cup {e}
         /\ NoDup(q) /\ e \notin ToSet(q) => NoDup(Append(q, e))
<1>1. /\ Append(q, e) \in Seq(S)
      /\ DOMAIN Append(q, e) = 1 .. Len(q) + 1
      /\ DOMAIN q = 1 .. Len(q) /\ Len(q) \in Nat
      /\ \A n \in 1 .. Len(q) + 1 :
            Append(q, e)[n] = IF n <= Len(q) THEN q[n] ELSE e
  OBVIOUS
<1>2. ToSet(Append(q, e)) = ToSet(q) \cup {e}
  BY <1>1 DEF ToSet
<1>3. ASSUME NoDup(q), e \notin ToSet(q) PROVE NoDup(Append(q, e))
  BY <1>1, <1>3 DEF ToSet, NoDup
<1> QED BY <1>1, <1>2, <1>3

(* A non-empty sequence holds its head and the elements of its tail.       *)
LEMMA TailElements ==
  ASSUME NEW S, NEW q \in Seq(S), q # <<>>
  PROVE  /\ Head(q) \in S /\ Tail(q) \in Seq(S)
         /\ ToSet(q) = ToSet(Tail(q)) \cup {Head(q)}
         /\ NoDup(q) => NoDup(Tail(q)) /\ Head(q) \notin ToSet(Tail(q))
<1>1. /\ Tail(q) \in Seq(S) /\ Head(q) = q[1]
      /\ DOMAIN q = 1 .. Len(q) /\ Len(q) \in Nat /\ Len(q) > 0
      /\ DOMAIN Tail(q) = 1 .. Len(q) - 1
      /\ \A n \in 1 .. Len(q) - 1 : Tail(q)[n] = q[n + 1]
  OBVIOUS
<1>2. ASSUME NEW n \in DOMAIN q
      PROVE  q[n] \in ToSet(Tail(q)) \cup {Head(q)}
  <2>1. CASE n = 1
    BY <1>1, <2>1
  <2>2. CASE n # 1
    <3>1. n - 1 \in DOMAIN Tail(q) /\ Tail(q)[n - 1] = q[n]
      BY <1>1, <2>2
    <3> QED BY <3>1 DEF ToSet
  <2> QED BY <2>1, <2>2
<1>3. ASSUME NEW n \in DOMAIN Tail(q)
      PROVE  n + 1 \in DOMAIN q /\ Tail(q)[n] = q[n + 1]
  BY <1>1
<1>4. ToSet(q) = ToSet(Tail(q)) \cup {Head(q)}
  <2>1. ToSet(q) \subseteq ToSet(Tail(q)) \cup {Head(q)}
    BY <1>2, Zenon DEF ToSet
  <2>2. ToSet(Tail(q)) \subseteq ToSet(q)
    BY <1>3, Zenon DEF ToSet
  <2>3. 1 \in DOMAIN q
    BY <1>1
  <2>4. Head(q) \in ToSet(q)
    BY <1>1, <2>3, Zenon DEF ToSet
  <2> QED BY <2>1, <2>2, <2>4
<1>5. ASSUME NoDup(q) PROVE NoDup(Tail(q)) /\ Head(q) \notin ToSet(Tail(q))
  <2>1. NoDup(Tail(q))
    BY <1>1, <1>5 DEF NoDup
  <2>2. ASSUME NEW n \in DOMAIN Tail(q) PROVE Tail(q)[n] # Head(q)
    BY <1>1, <1>5 DEF NoDup
  <2>3. Head(q) \notin ToSet(Tail(q))
    BY <2>2, Zenon DEF ToSet
  <2> QED BY <2>1, <2>3
<1> QED BY <1>1, <1>4, <1>5

(* A concatenation holds the elements of both sequences.                   *)
LEMMA ConcatElements ==
  ASSUME NEW S, NEW p \in Seq(S), NEW q \in Seq(S)
  PROVE  /\ p \o q \in Seq(S)
         /\ ToSet(p \o q) = ToSet(p) \cup ToSet(q)
         /\ NoDup(p) /\ NoDup(q) /\ ToSet(p) \cap ToSet(q) = {} => NoDup(p \o q)
<1>1. /\ p \o q \in Seq(S)
      /\ DOMAIN (p \o q) = 1 .. Len(p) + Len(q)
      /\ DOMAIN q = 1 .. Len(q) /\ Len(q) \in Nat
      /\ DOMAIN p = 1 .. Len(p) /\ Len(p) \in Nat
      /\ \A n \in 1 .. Len(p) + Len(q) :
            (p \o q)[n] = IF n <= Len(p) THEN p[n] ELSE q[n - Len(p)]
  OBVIOUS
<1>2. ASSUME NEW n \in DOMAIN q PROVE q[n] \in ToSet(p \o q)
  <2>1. n + Len(p) \in DOMAIN (p \o q) /\ (p \o q)[n + Len(p)] = q[n]
    BY <1>1
  <2> QED BY <2>1 DEF ToSet
<1>3. ToSet(p \o q) = ToSet(p) \cup ToSet(q)
  <2>1. ASSUME NEW n \in DOMAIN (p \o q)
        PROVE  (p \o q)[n] \in ToSet(p) \cup ToSet(q)
    <3>1. CASE n <= Len(p)
      <4>1. n \in DOMAIN p /\ (p \o q)[n] = p[n]
        BY <1>1, <3>1
      <4> QED BY <4>1 DEF ToSet
    <3>2. CASE ~(n <= Len(p))
      <4>1. n - Len(p) \in DOMAIN q /\ (p \o q)[n] = q[n - Len(p)]
        BY <1>1, <3>2
      <4> QED BY <4>1 DEF ToSet
    <3> QED BY <3>1, <3>2
  <2>2. ASSUME NEW n \in DOMAIN p PROVE p[n] \in ToSet(p \o q)
    <3>1. n \in DOMAIN (p \o q) /\ (p \o q)[n] = p[n]
      BY <1>1
    <3> QED BY <3>1 DEF ToSet
  <2>3. ToSet(p \o q) \subseteq ToSet(p) \cup ToSet(q)
    BY <2>1, Zenon DEF ToSet
  <2>4. ToSet(p) \subseteq ToSet(p \o q)
    BY <2>2, Zenon DEF ToSet
  <2>5. ToSet(q) \subseteq ToSet(p \o q)
    BY <1>2, Zenon DEF ToSet
  <2> QED BY <2>3, <2>4, <2>5
<1>4. ASSUME NoDup(p), NoDup(q), ToSet(p) \cap ToSet(q) = {}
      PROVE  NoDup(p \o q)
  <2>1. \A m \in DOMAIN p, n \in DOMAIN q : p[m] # q[n]
    BY <1>4 DEF ToSet
  <2> QED BY <1>1, <1>4, <2>1 DEF NoDup
<1> QED BY <1>1, <1>3, <1>4

(* A set of naturals has a least element, which Min chooses.               *)
LEMMA MinOfNats ==
  ASSUME NEW T \in SUBSET Nat, T # {}
  PROVE  Min(T) \in T /\ \A y \in T : Min(T) =< y
<1> DEFINE R == OpToRel(<, Nat)
<1>1. IsWellFoundedOn(R, Nat)
  BY NatLessThanWellFounded
<1>2. PICK x \in T : \A y \in T : ~ (<<y, x>> \in R)
  BY <1>1, WFMin
<1>3. \A y \in T : ~(y < x)
  BY <1>2 DEF OpToRel
<1>4. \E z \in T : \A y \in T : z =< y
  BY <1>3
<1> QED BY <1>4 DEF Min

(* RemoveFirst takes out one e and nothing else.                           *)
LEMMA RemoveFirstElements ==
  ASSUME NEW S, NEW q \in Seq(S), NEW e
  PROVE  /\ RemoveFirst(q, e) \in Seq(S)
         /\ \A a : a # e /\ Contains(q, a) => Contains(RemoveFirst(q, e), a)
<1>1. CASE ~\E i \in 1 .. Len(q) : q[i] = e
  BY <1>1 DEF RemoveFirst
<1>2. CASE \E i \in 1 .. Len(q) : q[i] = e
  <2> DEFINE T == {i \in 1 .. Len(q) : q[i] = e}
             m == Min(T)
             r == RemoveAt(q, m)
  <2>1. RemoveFirst(q, e) = r
    BY <1>2 DEF RemoveFirst, SelectInSeq
  <2>2. T \in SUBSET Nat /\ T # {}
    BY <1>2
  <2>3. m \in T
    <3> HIDE DEF T
    <3> QED BY <2>2, MinOfNats
  <2> HIDE DEF m
  <2>4. m \in 1 .. Len(q) /\ q[m] = e /\ Len(q) \in Nat /\ DOMAIN q = 1 .. Len(q)
    BY <2>3
  <2>5. /\ r \in Seq(S) /\ Len(r) = Len(q) - 1
        /\ \A n \in 1 .. Len(q) - 1 : r[n] = IF n < m THEN q[n] ELSE q[n + 1]
    BY <2>4, RemoveAtEntries
  <2> HIDE DEF r
  <2>6. ASSUME NEW a, a # e, Contains(q, a)
        PROVE  Contains(r, a)
    <3>1. PICK k \in 1 .. Len(q) : q[k] = a
      BY <2>6 DEF Contains
    <3>2. CASE k < m
      <4>1. k \in 1 .. Len(q) - 1 /\ r[k] = a
        BY <2>4, <2>5, <3>1, <3>2
      <4> QED BY <2>5, <4>1 DEF Contains
    <3>3. CASE ~(k < m)
      <4>1. k # m
        BY <2>4, <2>6, <3>1
      <4>2. k - 1 \in 1 .. Len(q) - 1 /\ ~(k - 1 < m) /\ (k - 1) + 1 = k
        BY <2>4, <3>1, <3>3, <4>1
      <4>3. r[k - 1] = a
        BY <2>5, <3>1, <4>2
      <4> QED BY <2>5, <4>2, <4>3 DEF Contains
    <3> QED BY <3>2, <3>3
  <2> QED BY <2>1, <2>5, <2>6
<1> QED BY <1>1, <1>2
=============================================================================
