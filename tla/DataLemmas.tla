----------------------------- MODULE DataLemmas -----------------------------
(***************************************************************************)
(* Facts about the data of the components: sequences and their sets of     *)
(* elements, remainders and divisions, induction over the naturals, with   *)
(* it folds and sums, and what a set of nodes of a graph reaches.          *)
(*                                                                         *)
(* Induction is stated for a set of naturals: the elements of which a      *)
(* formula holds form one, so that it needs no operator as a parameter.    *)
(***************************************************************************)
EXTENDS SequencesExt, FiniteSetTheorems, SequenceTheorems, WellFoundedInduction, TLAPS
-----------------------------------------------------------------------------
(* Sequences.                                                              *)

\* Taking the head off a sequence without repetitions takes one element out of
\* its set of elements and leaves a sequence without repetitions.
LEMMA TailFacts ==
  ASSUME NEW S, NEW s \in Seq(S), s # <<>>, IsInjective(s)
  PROVE  /\ Head(s) \in ToSet(s)
         /\ Head(s) \in S
         /\ Tail(s) \in Seq(S)
         /\ IsInjective(Tail(s))
         /\ ToSet(Tail(s)) = ToSet(s) \ {Head(s)}
<1>1. /\ Len(s) \in Nat \ {0}
      /\ DOMAIN s = 1 .. Len(s)
      /\ Head(s) = s[1]
      /\ Head(s) \in S
  BY EmptySeq, LenProperties, HeadTailProperties
<1>2. /\ Tail(s) \in Seq(S)
      /\ Len(Tail(s)) = Len(s) - 1
      /\ DOMAIN Tail(s) = 1 .. Len(s) - 1
      /\ \A i \in 1 .. Len(s) - 1 : Tail(s)[i] = s[i + 1]
  <2>1. /\ Tail(s) \in Seq(S)
        /\ Len(Tail(s)) = Len(s) - 1
        /\ \A i \in 1 .. Len(Tail(s)) : Tail(s)[i] = s[i + 1]
    BY HeadTailProperties
  <2> QED BY <2>1, LenProperties
<1>3. \A i, j \in 1 .. Len(s) : s[i] = s[j] => i = j
  BY <1>1 DEF IsInjective
<1>4. IsInjective(Tail(s))
  <2> SUFFICES ASSUME NEW i \in 1 .. Len(s) - 1, NEW j \in 1 .. Len(s) - 1,
                      Tail(s)[i] = Tail(s)[j]
               PROVE  i = j
    BY <1>2 DEF IsInjective
  <2>1. s[i + 1] = s[j + 1] /\ i + 1 \in 1 .. Len(s) /\ j + 1 \in 1 .. Len(s)
    BY <1>1, <1>2
  <2> QED BY <2>1, <1>3
<1>5. ToSet(Tail(s)) \subseteq ToSet(s) \ {Head(s)}
  <2> SUFFICES ASSUME NEW i \in 1 .. Len(s) - 1
               PROVE  Tail(s)[i] \in ToSet(s) \ {s[1]}
    BY <1>1, <1>2 DEF ToSet
  <2>1. i + 1 \in 1 .. Len(s) /\ 1 \in 1 .. Len(s) /\ i + 1 # 1
    BY <1>1
  <2> QED BY <1>1, <1>2, <1>3, <2>1 DEF ToSet
<1>6. ToSet(s) \ {Head(s)} \subseteq ToSet(Tail(s))
  <2> SUFFICES ASSUME NEW i \in 1 .. Len(s), s[i] # s[1]
               PROVE  s[i] \in ToSet(Tail(s))
    BY <1>1 DEF ToSet
  <2>1. i - 1 \in 1 .. Len(s) - 1 /\ (i - 1) + 1 = i
    BY <1>1
  <2>2. Tail(s)[i - 1] = s[i]
    BY <1>2, <2>1
  <2> QED BY <1>2, <2>1, <2>2 DEF ToSet
<1>7. Head(s) \in ToSet(s)
  BY <1>1 DEF ToSet
<1> QED BY <1>1, <1>2, <1>4, <1>5, <1>6, <1>7

\* Concatenation unites the sets of elements, and repeats none if the parts
\* repeat none and are disjoint.
LEMMA ConcatFacts ==
  ASSUME NEW S, NEW s \in Seq(S), NEW t \in Seq(S)
  PROVE  /\ s \o t \in Seq(S)
         /\ ToSet(s \o t) = ToSet(s) \cup ToSet(t)
         /\ IsInjective(s) /\ IsInjective(t) /\ ToSet(s) \cap ToSet(t) = {}
              => IsInjective(s \o t)
<1>1. /\ s \o t \in Seq(S)
      /\ Len(s) \in Nat /\ Len(t) \in Nat
      /\ DOMAIN s = 1 .. Len(s)
      /\ DOMAIN t = 1 .. Len(t)
      /\ DOMAIN (s \o t) = 1 .. Len(s) + Len(t)
      /\ \A i \in 1 .. Len(s) + Len(t) :
            (s \o t)[i] = IF i <= Len(s) THEN s[i] ELSE t[i - Len(s)]
  BY ConcatProperties, LenProperties
<1>2. ToSet(s \o t) = ToSet(s) \cup ToSet(t)
  <2>1. ASSUME NEW i \in 1 .. Len(s) + Len(t)
        PROVE  (s \o t)[i] \in ToSet(s) \cup ToSet(t)
    <3>1. CASE i <= Len(s)
      BY <1>1, <3>1 DEF ToSet
    <3>2. CASE ~(i <= Len(s))
      <4>1. i - Len(s) \in 1 .. Len(t)
        BY <1>1, <3>2
      <4> QED BY <1>1, <3>2, <4>1 DEF ToSet
    <3> QED BY <3>1, <3>2
  <2>2. ASSUME NEW i \in 1 .. Len(s) PROVE s[i] \in ToSet(s \o t)
    <3>1. i \in 1 .. Len(s) + Len(t) /\ i <= Len(s)
      BY <1>1
    <3> QED BY <1>1, <3>1 DEF ToSet
  <2>3. ASSUME NEW i \in 1 .. Len(t) PROVE t[i] \in ToSet(s \o t)
    <3>1. /\ i + Len(s) \in 1 .. Len(s) + Len(t)
          /\ ~(i + Len(s) <= Len(s)) /\ (i + Len(s)) - Len(s) = i
      BY <1>1
    <3>2. (s \o t)[i + Len(s)] = t[i]
      BY <1>1, <3>1
    <3> QED BY <1>1, <3>1, <3>2 DEF ToSet
  <2> QED BY <1>1, <2>1, <2>2, <2>3 DEF ToSet
<1>3. ASSUME IsInjective(s), IsInjective(t), ToSet(s) \cap ToSet(t) = {},
             NEW i \in 1 .. Len(s) + Len(t), NEW j \in 1 .. Len(s) + Len(t),
             (s \o t)[i] = (s \o t)[j]
      PROVE  i = j
  <2>1. CASE i <= Len(s) /\ j <= Len(s)
    BY <1>1, <1>3, <2>1 DEF IsInjective
  <2>2. CASE i <= Len(s) /\ ~(j <= Len(s))
    <3>1. i \in 1 .. Len(s) /\ j - Len(s) \in 1 .. Len(t)
      BY <1>1, <2>2
    <3>2. s[i] \in ToSet(s) /\ t[j - Len(s)] \in ToSet(t)
      BY <1>1, <3>1 DEF ToSet
    <3> QED BY <1>1, <1>3, <2>2, <3>2
  <2>3. CASE ~(i <= Len(s)) /\ j <= Len(s)
    <3>1. j \in 1 .. Len(s) /\ i - Len(s) \in 1 .. Len(t)
      BY <1>1, <2>3
    <3>2. s[j] \in ToSet(s) /\ t[i - Len(s)] \in ToSet(t)
      BY <1>1, <3>1 DEF ToSet
    <3> QED BY <1>1, <1>3, <2>3, <3>2
  <2>4. CASE ~(i <= Len(s)) /\ ~(j <= Len(s))
    <3>1. i - Len(s) \in 1 .. Len(t) /\ j - Len(s) \in 1 .. Len(t)
      BY <1>1, <2>4
    <3>2. t[i - Len(s)] = t[j - Len(s)]
      BY <1>1, <1>3, <2>4
    <3>3. i - Len(s) = j - Len(s)
      BY <1>1, <1>3, <3>1, <3>2 DEF IsInjective
    <3> QED BY <1>1, <3>3
  <2> QED BY <2>1, <2>2, <2>3, <2>4
<1> QED BY <1>1, <1>2, <1>3 DEF IsInjective

\* Appending a new element adds it to the set of elements and repeats none.
LEMMA AppendFacts ==
  ASSUME NEW S, NEW s \in Seq(S), NEW e \in S
  PROVE  /\ Append(s, e) \in Seq(S)
         /\ ToSet(Append(s, e)) = ToSet(s) \cup {e}
         /\ IsInjective(s) /\ e \notin ToSet(s) => IsInjective(Append(s, e))
         /\ Append(s, e) # <<>>
<1>1. /\ Append(s, e) \in Seq(S) /\ Len(s) \in Nat
      /\ DOMAIN s = 1 .. Len(s) /\ DOMAIN Append(s, e) = 1 .. Len(s) + 1
      /\ \A i \in 1 .. Len(s) : Append(s, e)[i] = s[i]
      /\ Append(s, e)[Len(s) + 1] = e /\ Append(s, e) # <<>>
  BY AppendProperties, LenProperties
<1>2. ASSUME NEW i \in 1 .. Len(s) + 1 PROVE i \in 1 .. Len(s) \/ i = Len(s) + 1
  BY <1>1
<1>3. Len(s) + 1 \in 1 .. Len(s) + 1 /\ 1 .. Len(s) \subseteq 1 .. Len(s) + 1
  BY <1>1
<1>4. ToSet(Append(s, e)) = ToSet(s) \cup {e}
  BY <1>1, <1>2, <1>3 DEF ToSet
<1>5. IsInjective(s) /\ e \notin ToSet(s) => IsInjective(Append(s, e))
  <2> SUFFICES ASSUME IsInjective(s), e \notin ToSet(s),
                      NEW i \in 1 .. Len(s) + 1, NEW j \in 1 .. Len(s) + 1,
                      Append(s, e)[i] = Append(s, e)[j]
               PROVE  i = j
    BY <1>1 DEF IsInjective
  <2>1. \A k \in 1 .. Len(s) : s[k] # e
    BY <1>1 DEF ToSet
  <2> QED BY <1>1, <1>2, <2>1 DEF IsInjective
<1> QED BY <1>1, <1>4, <1>5

\* The first n positive numbers are n.
LEMMA IntervalSize ==
  ASSUME NEW n \in Nat
  PROVE  IsFiniteSet(1 .. n) /\ Cardinality(1 .. n) = n
<1>1. 1 \in Int /\ n \in Int
  OBVIOUS
<1>2. IsFiniteSet(1 .. n) /\ Cardinality(1 .. n) = IF 1 > n THEN 0 ELSE n - 1 + 1
  BY <1>1, FS_Interval
<1>3. (IF 1 > n THEN 0 ELSE n - 1 + 1) = n
  OBVIOUS
<1> QED BY <1>2, <1>3

\* SetToSeqs lists every element of a finite set once.
LEMMA ListingFacts ==
  ASSUME NEW S, IsFiniteSet(S), NEW s \in SetToSeqs(S)
  PROVE  /\ s \in Seq(S)
         /\ IsInjective(s)
         /\ ToSet(s) = S
<1> DEFINE D == 1 .. Cardinality(S)
<1>1. Cardinality(S) \in Nat
  BY FS_CardinalityType
<1>2. s \in [D -> S] /\ \A i, j \in D : i # j => s[i] # s[j]
  BY DEF SetToSeqs
<1>3. s \in Seq(S)
  BY <1>1, <1>2, SeqDef
<1>4. IsInjective(s)
  BY <1>2 DEF IsInjective
<1>5. s \in Injection(D, S)
  BY <1>2 DEF Injection, IsInjective
<1>6. Cardinality(D) = Cardinality(S) /\ IsFiniteSet(D)
  BY <1>1, IntervalSize
<1>7. s \in Surjection(D, S)
  <2> HIDE DEF D
  <2> QED BY <1>5, <1>6, FS_Injection
<1>8. ToSet(s) = S
  BY <1>2, <1>7 DEF ToSet, Surjection
<1> QED BY <1>3, <1>4, <1>8

-----------------------------------------------------------------------------
(* Remainders and divisions.                                               *)

\* A number is a multiple and its remainder.
LEMMA Remainder ==
  ASSUME NEW n \in Nat \ {0}, NEW k \in Nat
  PROVE  k % n \in 0 .. n - 1 /\ \E q \in Int : k = n * q + (k % n)
<1>1. k % n \in 0 .. n - 1 /\ k \div n \in Int
  OBVIOUS
<1>2. k = n * (k \div n) + (k % n)
  OBVIOUS
<1> QED BY <1>1, <1>2

\* The remainder of the next number.
LEMMA ModuloNext ==
  ASSUME NEW n \in Nat \ {0}, NEW k \in Nat
  PROVE  /\ k % n \in 0 .. n - 1
         /\ (k + 1) % n = IF k % n = n - 1 THEN 0 ELSE (k % n) + 1
<1>1. PICK q \in Int : k = n * q + (k % n)
  BY Remainder
<1> DEFINE j == k + 1
<1>0. j \in Nat
  OBVIOUS
<1> HIDE DEF j
<1>2. PICK p \in Int : j = n * p + (j % n)
  BY <1>0, Remainder
<1>3. PICK r \in 0 .. n - 1, s \in 0 .. n - 1 : r = k % n /\ s = j % n
  BY <1>0, Remainder
<1>4. PICK m \in Int : m = p - q
  OBVIOUS
<1>5. n * m = n * p - n * q /\ n * m \in Int /\ n * p \in Int /\ n * q \in Int
  BY <1>4
<1>6. n * m = (r - s) + 1
  BY <1>1, <1>2, <1>3, <1>5 DEF j
<1>7. ASSUME m >= 2 PROVE n * m >= 2 * n
  BY <1>7
<1>8. ASSUME m <= -1 PROVE n * m <= -n
  BY <1>8
<1>9. m = 0 \/ m = 1
  BY <1>6, <1>7, <1>8, <1>3
<1>10. s = IF r = n - 1 THEN 0 ELSE r + 1
  <2>1. m = 0 => s = r + 1 /\ r # n - 1
    BY <1>3, <1>6
  <2>2. m = 1 => s = (r + 1) - n
    BY <1>3, <1>6
  <2>3. m = 1 => r = n - 1 /\ s = 0
    BY <1>3, <2>2
  <2> QED BY <1>9, <2>1, <2>3
<1> QED BY <1>3, <1>10 DEF j

\* Adding a multiple does not change a remainder.
LEMMA WholeTurns ==
  ASSUME NEW n \in Nat \ {0}, NEW w \in 0 .. n - 1, NEW d \in Nat, d % n = 0
  PROVE  (w + d) % n = w
<1> DEFINE k == w + d
<1>0. k \in Nat
  OBVIOUS
<1> HIDE DEF k
<1>1. PICK q \in Int : d = n * q + (d % n)
  BY Remainder
<1>2. PICK p \in Int : k = n * p + (k % n)
  BY <1>0, Remainder
<1>3. PICK s \in 0 .. n - 1 : s = k % n
  BY <1>0, Remainder
<1>4. PICK m \in Int : m = p - q
  OBVIOUS
<1>5. n * m = n * p - n * q /\ n * m \in Int /\ n * p \in Int /\ n * q \in Int
  BY <1>4
<1>6. n * m = w - s
  <2>1. n * q = d
    BY <1>1, <1>5
  <2>2. n * p = (w + d) - s
    BY <1>2, <1>3, <1>5 DEF k
  <2>3. \A a, b, c \in Int : c = a - b /\ b = d /\ a = (w + d) - s => c = w - s
    BY <1>3
  <2> QED BY <2>1, <2>2, <2>3, <1>5
<1>7. ASSUME m >= 1 PROVE n * m >= n
  BY <1>7
<1>8. ASSUME m <= -1 PROVE n * m <= -n
  BY <1>8
<1>9. m = 0
  BY <1>6, <1>7, <1>8, <1>3
<1>10. s = w
  BY <1>9, <1>6, <1>3
<1> QED BY <1>3, <1>10 DEF k

\* The remainder of the next number, from the remainder.
LEMMA NextTurn ==
  ASSUME NEW n \in Nat \ {0}, NEW k \in Nat
  PROVE  ((k % n) + 1) % n = (k + 1) % n
<1>1. PICK r \in 0 .. n - 1 : r = k % n
  BY ModuloNext
<1>2. r % n = r
  BY WholeTurns
<1>3. (r + 1) % n = IF r = n - 1 THEN 0 ELSE r + 1
  <2>1. r \in Nat
    BY <1>1
  <2>2. (r + 1) % n = IF r % n = n - 1 THEN 0 ELSE (r % n) + 1
    BY <2>1, ModuloNext
  <2> QED BY <1>2, <2>2
<1>4. (k + 1) % n = IF r = n - 1 THEN 0 ELSE r + 1
  BY <1>1, ModuloNext
<1> QED BY <1>1, <1>3, <1>4

\* Division rounds down.
LEMMA DivisionFacts ==
  ASSUME NEW a \in Nat, NEW b \in Nat \ {0}
  PROVE  /\ a \div b \in Int
         /\ (a \div b) * b <= a
         /\ a < (a \div b) * b + b
OBVIOUS

\* A number is taken apart in one way only.
LEMMA DivisionUnique ==
  ASSUME NEW n \in Nat \ {0}, NEW k \in Nat, NEW q \in Int, NEW r \in 0 .. n - 1, k = n * q + r
  PROVE  k % n = r /\ k \div n = q
<1>1. PICK p \in Int, s \in 0 .. n - 1 : p = k \div n /\ s = k % n
  <2>1. k \div n \in Int
    OBVIOUS
  <2>2. k % n \in 0 .. n - 1
    BY ModuloNext
  <2> QED BY <2>1, <2>2
<1>2. k = n * p + s
  <2>1. k = n * (k \div n) + (k % n)
    OBVIOUS
  <2> QED BY <1>1, <2>1
<1>3. PICK m \in Int : m = p - q
  OBVIOUS
<1>4. n * m = n * p - n * q /\ n * m \in Int /\ n * p \in Int /\ n * q \in Int
  BY <1>3
<1>5. n * m = r - s
  BY <1>2, <1>4
<1>6. ASSUME m >= 1 PROVE n * m >= n
  BY <1>6
<1>7. ASSUME m <= -1 PROVE n * m <= -n
  BY <1>7
<1>8. m = 0
  BY <1>1, <1>3, <1>5, <1>6, <1>7
<1> QED BY <1>1, <1>3, <1>5, <1>8

\* The remainder of a neighbour that stays between the same multiples, or moves
\* to the ones before.
LEMMA Shifted ==
  ASSUME NEW m \in Nat \ {0}, NEW k \in Nat, NEW r \in 0 .. m - 1, k % m = r, NEW s \in 0 .. m - 1
  PROVE  /\ k + (s - r) \in Nat => (k + (s - r)) % m = s
         /\ k + (s - r) - m \in Nat => (k + (s - r) - m) % m = s
         /\ r <= k
<1>1. PICK q \in Int : k = m * q + r
  BY Remainder
<1>2. PICK p \in Int : p = q - 1
  OBVIOUS
<1>3. m * p = m * q - m /\ m * p \in Int /\ m * q \in Int
  BY <1>2
<1>4. ASSUME NEW j \in Nat, j = k + (s - r) PROVE j % m = s
  <2>1. j = m * q + s
    BY <1>1, <1>3, <1>4
  <2> QED BY <2>1, DivisionUnique
<1>5. ASSUME NEW j \in Nat, j = k + (s - r) - m PROVE j % m = s
  <2>1. j = m * p + s
    BY <1>1, <1>3, <1>5
  <2> QED BY <2>1, DivisionUnique
<1>6. ASSUME q <= -1 PROVE m * q <= -m
  BY <1>6
<1>7. ASSUME q >= 0 PROVE m * q >= 0
  BY <1>7
<1>8. r <= k
  BY <1>1, <1>3, <1>6, <1>7
<1> QED BY <1>4, <1>5, <1>8

\* The first k of a rotation over m whose turn is r.
Turn(k, m, r) == {i \in 1 .. k : (i - 1) % m = r}

\* In a rotation nobody gets two turns more than another.
LEMMA TurnsEven ==
  ASSUME NEW k \in Nat, NEW m \in Nat \ {0}, NEW r \in 0 .. m - 1, NEW s \in 0 .. m - 1
  PROVE  /\ Cardinality(Turn(k, m, r)) \in Nat /\ Cardinality(Turn(k, m, s)) \in Nat
         /\ Cardinality(Turn(k, m, r)) <= Cardinality(Turn(k, m, s)) + 1
<1>1. IsFiniteSet(1 .. k)
  BY FS_Interval
<1>2. PICK R \in SUBSET (1 .. k) : R = Turn(k, m, r)
  BY DEF Turn
<1>3. PICK S \in SUBSET (1 .. k) : S = Turn(k, m, s)
  BY DEF Turn
<1>4. \A i \in R : i \in 1 .. k /\ i - 1 \in Nat /\ (i - 1) % m = r
  BY <1>2 DEF Turn
<1>5. ASSUME NEW j \in 1 .. k, (j - 1) % m = s PROVE j \in S
  BY <1>3, <1>5 DEF Turn
<1>6. /\ IsFiniteSet(R) /\ Cardinality(R) \in Nat
      /\ IsFiniteSet(S) /\ Cardinality(S) \in Nat
  BY <1>1, FS_Subset, FS_CardinalityType
<1>7. CASE s <= r
  <2>1. PICK f : f = [i \in R |-> i + (s - r)]
    OBVIOUS
  <2>2. ASSUME NEW i \in R PROVE i + (s - r) \in S
    <3>1. PICK j \in Nat : j = i - 1
      BY <1>4
    <3>2. j % m = r
      BY <1>4, <3>1
    <3>3. r <= j /\ (j + (s - r) \in Nat => (j + (s - r)) % m = s)
      BY <3>2, Shifted
    <3>4. PICK h \in Nat : h = j + (s - r)
      BY <3>3, <1>7
    <3>5. PICK g \in 1 .. k : g = h + 1 /\ g = i + (s - r)
      BY <1>4, <3>1, <3>3, <3>4, <1>7
    <3>6. g - 1 = h
      BY <3>4, <3>5
    <3>7. (g - 1) % m = s
      BY <3>3, <3>4, <3>6
    <3> QED BY <1>5, <3>5, <3>7
  <2>3. f \in Injection(R, S)
    <3>1. f \in [R -> S]
      BY <2>1, <2>2
    <3>2. \A a, b \in R : f[a] = f[b] => a = b
      BY <2>1
    <3> QED BY <3>1, <3>2 DEF Injection, IsInjective
  <2>4. Cardinality(R) <= Cardinality(S)
    BY <1>6, <2>3, FS_Injection
  <2> QED BY <1>2, <1>3, <1>6, <2>4
<1>8. CASE r < s
  <2>1. PICK Q \in SUBSET R : Q = R \ {r + 1}
    OBVIOUS
  <2>2. PICK f : f = [i \in Q |-> i + (s - r) - m]
    OBVIOUS
  <2>3. ASSUME NEW i \in Q PROVE i + (s - r) - m \in S
    <3>1. PICK j \in Nat : j = i - 1
      BY <1>4, <2>1
    <3>2. j % m = r /\ j # r
      BY <1>4, <2>1, <3>1
    <3>3. r <= j /\ (j + (s - r) - m \in Nat => (j + (s - r) - m) % m = s)
      BY <3>2, Shifted
    <3>4. j >= m
      <4>1. PICK q \in Int : j = m * q + r
        BY <3>2, Remainder
      <4>2. ASSUME q <= 0 PROVE m * q <= 0
        BY <4>2
      <4>3. ASSUME q >= 1 PROVE m * q >= m
        BY <4>3
      <4>4. m * q \in Int
        OBVIOUS
      <4> QED BY <3>2, <3>3, <4>1, <4>2, <4>3, <4>4
    <3>5. PICK h \in Nat : h = j + (s - r) - m
      BY <3>4, <1>8
    <3>6. PICK g \in 1 .. k : g = h + 1 /\ g = i + (s - r) - m
      BY <1>4, <2>1, <3>1, <3>5
    <3>7. g - 1 = h
      BY <3>6
    <3>8. (g - 1) % m = s
      BY <3>3, <3>5, <3>7
    <3> QED BY <1>5, <3>6, <3>8
  <2>4. f \in Injection(Q, S)
    <3>1. f \in [Q -> S]
      BY <2>2, <2>3
    <3>2. \A a, b \in Q : f[a] = f[b] => a = b
      BY <2>2, <2>1
    <3> QED BY <3>1, <3>2 DEF Injection, IsInjective
  <2>5. Cardinality(Q) <= Cardinality(S)
    BY <1>6, <2>4, FS_Injection
  <2>6. Cardinality(Q) \in Nat /\ Cardinality(R) <= Cardinality(Q) + 1
    BY <1>6, <2>1, FS_RemoveElement, FS_CardinalityType, FS_Subset
  <2> QED BY <1>2, <1>3, <1>6, <2>5, <2>6
<1> QED BY <1>7, <1>8

\* In a rotation over N nodes, and in turn over the L places of each, number
\* w is on node n and takes the place i there.
OnPlace(w, N, L, n, i) == w % N = n /\ (w \div N) % L = i
InRotation(w, N, L, n, i) == OnPlace(w, N, L, n, i) <=> w % (N * L) = N * i + n

\* Round robin over nodes and within them is a rotation over both.
LEMMA TwoRounds ==
  ASSUME NEW N \in Nat \ {0}, NEW L \in Nat \ {0}, NEW n \in 0 .. N - 1, NEW i \in 0 .. L - 1, NEW w \in Nat
  PROVE  /\ N * L \in Nat \ {0} /\ N * i + n \in 0 .. N * L - 1
         /\ InRotation(w, N, L, n, i)
<1>1. PICK M \in Nat \ {0} : M = N * L
  <2>1. N * L >= N /\ N * L \in Int
    OBVIOUS
  <2> QED BY <2>1
<1>2. PICK x \in Nat : x = N * i
  <2>1. N * i >= 0 /\ N * i \in Int
    OBVIOUS
  <2> QED BY <2>1
<1>3. x + n \in 0 .. M - 1
  <2>1. PICK d \in Nat : L = i + 1 + d
    <3>1. L - i - 1 \in Nat /\ L = i + 1 + (L - i - 1)
      OBVIOUS
    <3> QED BY <3>1
  <2>2. N * L = N * i + N + N * d
    BY <2>1
  <2>3. N * d >= 0 /\ N * d \in Int
    OBVIOUS
  <2> QED BY <1>1, <1>2, <2>2, <2>3
<1>4. PICK r \in 0 .. M - 1 : r = x + n
  BY <1>3
<1>5. ASSUME w % N = n, (w \div N) % L = i PROVE w % M = r
  <2>1. PICK a \in Int : a = w \div N /\ w = N * a + n
    <3>1. w \div N \in Int /\ w = N * (w \div N) + (w % N)
      OBVIOUS
    <3> QED BY <3>1, <1>5
  <2>2. a \in Nat
    <3>1. ASSUME a <= -1 PROVE N * a <= -N
      BY <3>1
    <3>2. N * a \in Int
      OBVIOUS
    <3> QED BY <2>1, <3>1, <3>2
  <2>3. PICK b \in Int : a = L * b + i
    <3>1. a % L = i
      BY <2>1, <1>5
    <3> QED BY <2>2, <3>1, Remainder
  <2>4. w = M * b + r
    <3>1. N * a = N * (L * b) + N * i
      BY <2>3
    <3>2. N * (L * b) = (N * L) * b
      OBVIOUS
    <3>3. M * b \in Int /\ N * a \in Int
      OBVIOUS
    <3> QED BY <1>1, <1>2, <1>4, <2>1, <3>1, <3>2, <3>3
  <2> QED BY <2>4, DivisionUnique
<1>6. ASSUME w % M = r PROVE w % N = n /\ (w \div N) % L = i
  <2>1. PICK b \in Int : w = M * b + r
    BY <1>6, Remainder
  <2>2. PICK a \in Int : a = L * b + i
    OBVIOUS
  <2>3. w = N * a + n
    <3>1. N * a = N * (L * b) + N * i
      BY <2>2
    <3>2. N * (L * b) = (N * L) * b
      OBVIOUS
    <3>3. M * b \in Int /\ N * a \in Int
      OBVIOUS
    <3> QED BY <1>1, <1>2, <1>4, <2>1, <3>1, <3>2, <3>3
  <2>4. w % N = n /\ w \div N = a
    BY <2>3, DivisionUnique
  <2>5. a \in Nat
    <3>1. ASSUME a <= -1 PROVE N * a <= -N
      BY <3>1
    <3>2. N * a \in Int
      OBVIOUS
    <3> QED BY <2>3, <3>1, <3>2
  <2>6. a % L = i
    BY <2>2, <2>5, DivisionUnique
  <2> QED BY <2>4, <2>6
<1> QED BY <1>1, <1>2, <1>3, <1>4, <1>5, <1>6 DEF OnPlace, InRotation

\* The smaller of two numbers.
LEMMA LeastOfTwo ==
  ASSUME NEW a \in Int, NEW b \in Int
  PROVE  Min({a, b}) = IF a <= b THEN a ELSE b
<1>1. PICK x \in {a, b} : x = (IF a <= b THEN a ELSE b) /\ \A y \in {a, b} : x <= y
  OBVIOUS
<1>2. \A z \in {a, b} : (\A y \in {a, b} : z <= y) => z = x
  BY <1>1
<1> QED BY <1>1, <1>2 DEF Min

-----------------------------------------------------------------------------
(* Induction.                                                              *)

\* A set of naturals has a least element.
LEMMA LeastNatural ==
  ASSUME NEW S \in SUBSET Nat, S # {}
  PROVE  \E m \in S : \A n \in S : m <= n
<1>1. IsWellFoundedOn(OpToRel(<, Nat), Nat)
  BY NatLessThanWellFounded
<1>2. \E x \in S : \A y \in S : ~ (<<y, x>> \in OpToRel(<, Nat))
  BY <1>1, WFMin
<1>3. PICK m \in S : \A y \in S : ~ (<<y, m>> \in OpToRel(<, Nat))
  BY <1>2
<1>4. \A y \in S : ~(y < m)
  BY <1>3 DEF OpToRel
<1> QED BY <1>4

\* A set of positions has a greatest, which Max chooses.
LEMMA GreatestIn ==
  ASSUME NEW n \in Nat, NEW S \in SUBSET (1 .. n), S # {}
  PROVE  Max(S) \in S /\ \A y \in S : Max(S) >= y
<1>1. PICK R : R = {n - x : x \in S}
  OBVIOUS
<1>2. R \subseteq Nat /\ R # {}
  <2>1. \A x \in S : x \in 1 .. n /\ n - x \in Nat
    OBVIOUS
  <2>2. R \subseteq Nat
    BY <1>1, <2>1
  <2>3. PICK x : x \in S
    OBVIOUS
  <2>4. n - x \in R
    BY <1>1, <2>3
  <2> QED BY <2>2, <2>4
<1>3. PICK m \in R : \A r \in R : m <= r
  BY <1>2, LeastNatural
<1>4. PICK x \in S : m = n - x
  BY <1>1, <1>3
<1>5. \A y \in S : x >= y
  <2>1. \A y \in S : y \in Nat /\ n - y \in R
    BY <1>1
  <2> QED BY <1>3, <1>4, <2>1
<1> QED BY <1>5 DEF Max

\* What holds of zero and, with a number, of the next holds of every number.
LEMMA SetInduction ==
  ASSUME NEW S, 0 \in S, \A n \in S \cap Nat : n + 1 \in S
  PROVE  Nat \subseteq S
<1> SUFFICES ASSUME Nat \ S # {} PROVE FALSE
  OBVIOUS
<1>1. PICK m \in Nat \ S : \A n \in Nat \ S : m <= n
  BY LeastNatural
<1>2. m - 1 \in Nat /\ m - 1 \notin Nat \ S /\ (m - 1) + 1 = m
  BY <1>1
<1> QED BY <1>1, <1>2

-----------------------------------------------------------------------------
(* Folds and sums.                                                         *)

\* g folds h over the subsets of T, c being the element that is taken off.
Folds(g, T, V, base, c, h) ==
  /\ g \in [SUBSET T -> V]
  /\ \A s \in SUBSET T : g[s] = IF s = {} THEN base ELSE h[<<c[s], g[s \ {c[s]}]>>]

LEMMA CardinalityWithout ==
  ASSUME NEW T, IsFiniteSet(T), NEW s \in SUBSET T
  PROVE  /\ IsFiniteSet(s) /\ Cardinality(s) \in Nat /\ Cardinality(s) <= Cardinality(T)
         /\ Cardinality(s) = 0 <=> s = {}
         /\ \A x \in s : Cardinality(s \ {x}) = Cardinality(s) - 1
<1>1. IsFiniteSet(s) /\ Cardinality(s) <= Cardinality(T)
  BY FS_Subset
<1>2. Cardinality(s) \in Nat /\ (Cardinality(s) = 0 <=> s = {})
  BY <1>1, FS_CardinalityType, FS_EmptySet
<1>3. \A x \in s : Cardinality(s \ {x}) = Cardinality(s) - 1
  BY <1>1, FS_RemoveElement
<1> QED BY <1>1, <1>2, <1>3

\* The function that a fold defines exists: it is built one size of sets after
\* the other.
LEMMA FoldExists ==
  ASSUME NEW T, IsFiniteSet(T), NEW V, NEW base \in V,
         NEW c, \A s \in SUBSET T : s # {} => c[s] \in s,
         NEW h \in [T \X V -> V]
  PROVE  \E g : Folds(g, T, V, base, c, h)
<1> DEFINE Equation(g, s) == g[s] = IF s = {} THEN base ELSE h[<<c[s], g[s \ {c[s]}]>>]
           S == {n \in Nat : \E g \in [SUBSET T -> V] :
                               \A s \in SUBSET T : Cardinality(s) <= n => Equation(g, s)}
<1>1. 0 \in S
  <2>1. PICK g : g = [s \in SUBSET T |-> base]
    OBVIOUS
  <2>2. g \in [SUBSET T -> V] /\ \A s \in SUBSET T : g[s] = base
    BY <2>1
  <2>3. \A s \in SUBSET T : Cardinality(s) <= 0 => s = {}
    BY CardinalityWithout
  <2>4. \A s \in SUBSET T : Cardinality(s) <= 0 => Equation(g, s)
    BY <2>2, <2>3
  <2> QED BY <2>2, <2>4
<1>2. ASSUME NEW n \in S \cap Nat PROVE n + 1 \in S
  <2>1. PICK g \in [SUBSET T -> V] : \A s \in SUBSET T : Cardinality(s) <= n => Equation(g, s)
    OBVIOUS
  <2>2. PICK k : k = [s \in SUBSET T |-> IF s = {} THEN base ELSE h[<<c[s], g[s \ {c[s]}]>>]]
    OBVIOUS
  <2>3. \A s \in SUBSET T : s \ {c[s]} \in SUBSET T
    OBVIOUS
  <2>4. \A s \in SUBSET T : k[s] = IF s = {} THEN base ELSE h[<<c[s], g[s \ {c[s]}]>>]
    BY <2>2
  <2>5. k \in [SUBSET T -> V]
    <3>1. \A s \in SUBSET T : s # {} => c[s] \in T /\ g[s \ {c[s]}] \in V
      BY <2>3
    <3>2. \A s \in SUBSET T : s # {} => <<c[s], g[s \ {c[s]}]>> \in T \X V
      BY <3>1
    <3>3. \A s \in SUBSET T : s # {} => h[<<c[s], g[s \ {c[s]}]>>] \in V
      BY <3>2
    <3> QED BY <2>2, <3>3
  <2>6. \A s \in SUBSET T : Cardinality(s) <= n => k[s] = g[s]
    BY <2>1, <2>4
  <2>7. ASSUME NEW s \in SUBSET T, Cardinality(s) <= n + 1 PROVE Equation(k, s)
    <3>1. CASE s = {}
      BY <2>4, <3>1
    <3>2. CASE s # {}
      <4>1. c[s] \in s
        BY <3>2
      <4>2. Cardinality(s \ {c[s]}) = Cardinality(s) - 1 /\ Cardinality(s) \in Nat
        BY <4>1, CardinalityWithout
      <4>3. Cardinality(s \ {c[s]}) <= n
        BY <2>7, <4>2
      <4>4. k[s \ {c[s]}] = g[s \ {c[s]}]
        BY <2>3, <2>6, <4>3
      <4> QED BY <2>4, <3>2, <4>4
    <3> QED BY <3>1, <3>2
  <2> HIDE DEF Equation
  <2> QED BY <2>5, <2>7
<1> HIDE DEF S
<1>3. Nat \subseteq S
  BY <1>1, <1>2, SetInduction
<1>4. Cardinality(T) \in S
  BY <1>3, FS_CardinalityType
<1>5. PICK g \in [SUBSET T -> V] : \A s \in SUBSET T : Cardinality(s) <= Cardinality(T) => Equation(g, s)
  BY <1>4 DEF S
<1>6. \A s \in SUBSET T : Cardinality(s) <= Cardinality(T)
  BY CardinalityWithout
<1> QED BY <1>5, <1>6 DEF Folds

\* k follows the recursion of g.
Follows(k, g, T, c) ==
  /\ k[{}] = g[{}]
  /\ \A s \in SUBSET T : s # {} =>
       c[s] \in s /\ (k[s \ {c[s]}] = g[s \ {c[s]}] => k[s] = g[s])

\* Two functions that follow the same recursion are equal.
LEMMA FoldUnique ==
  ASSUME NEW T, IsFiniteSet(T), NEW c, NEW g, NEW k, Follows(k, g, T, c)
  PROVE  \A s \in SUBSET T : k[s] = g[s]
<1> USE DEF Follows
<1> DEFINE S == {n \in Nat : \A s \in SUBSET T : Cardinality(s) = n => k[s] = g[s]}
<1>1. 0 \in S
  BY CardinalityWithout
<1>2. ASSUME NEW n \in S \cap Nat PROVE n + 1 \in S
  <2> SUFFICES ASSUME NEW s \in SUBSET T, Cardinality(s) = n + 1 PROVE k[s] = g[s]
    OBVIOUS
  <2>1. s # {}
    BY CardinalityWithout
  <2>2. c[s] \in s
    BY <2>1
  <2>3. Cardinality(s \ {c[s]}) = n /\ s \ {c[s]} \in SUBSET T
    BY <2>2, CardinalityWithout
  <2> QED BY <2>1, <2>3
<1> HIDE DEF S
<1>3. Nat \subseteq S
  BY <1>1, <1>2, SetInduction
<1> QED BY <1>3, CardinalityWithout DEF S

\* g sums f over the subsets of T.
Sums(g, f, T) ==
  /\ g \in [SUBSET T -> Nat] /\ g[{}] = 0
  /\ \A s \in SUBSET T : \A x \in s : g[s] = f[x] + g[s \ {x}]

\* One member's share of the sum over the whole set.
LEMMA SumsAt ==
  ASSUME NEW T, NEW f, NEW g, Sums(g, f, T), NEW x \in T
  PROVE  g[T] = f[x] + g[T \ {x}]
BY DEF Sums

\* A sum does not depend on the order in which its elements are taken.
LEMMA SumAnyOrder ==
  ASSUME NEW T, IsFiniteSet(T), NEW f \in [T -> Nat], NEW g \in [SUBSET T -> Nat], NEW c,
         \A s \in SUBSET T : s # {} => c[s] \in s,
         \A s \in SUBSET T : g[s] = IF s = {} THEN 0 ELSE f[c[s]] + g[s \ {c[s]}]
  PROVE  Sums(g, f, T)
<1> DEFINE S == {n \in Nat : \A s \in SUBSET T : Cardinality(s) = n =>
                               \A x \in s : g[s] = f[x] + g[s \ {x}]}
<1>1. 0 \in S
  BY CardinalityWithout
<1>2. ASSUME NEW n \in S \cap Nat PROVE n + 1 \in S
  <2> SUFFICES ASSUME NEW s \in SUBSET T, Cardinality(s) = n + 1, NEW x \in s
               PROVE  g[s] = f[x] + g[s \ {x}]
    OBVIOUS
  <2>1. PICK y \in s : y = c[s] /\ g[s] = f[y] + g[s \ {y}]
    OBVIOUS
  <2>2. CASE x = y
    BY <2>1, <2>2
  <2>3. CASE x # y
    <3>1. Cardinality(s \ {x}) = n /\ Cardinality(s \ {y}) = n
      BY CardinalityWithout
    <3>2. g[s \ {y}] = f[x] + g[(s \ {y}) \ {x}]
      BY <2>3, <3>1
    <3>3. g[s \ {x}] = f[y] + g[(s \ {x}) \ {y}]
      BY <2>3, <3>1
    <3>4. (s \ {x}) \ {y} = (s \ {y}) \ {x} /\ (s \ {x}) \ {y} \in SUBSET T
      OBVIOUS
    <3>5. f[x] \in Nat /\ f[y] \in Nat /\ g[(s \ {y}) \ {x}] \in Nat
      BY <3>4
    <3>6. PICK m \in Nat : m = g[(s \ {y}) \ {x}] /\ m = g[(s \ {x}) \ {y}]
      BY <3>4, <3>5
    <3>7. g[s] = f[y] + (f[x] + m) /\ g[s \ {x}] = f[y] + m
      BY <2>1, <3>2, <3>3, <3>6
    <3> QED BY <3>5, <3>6, <3>7
  <2> QED BY <2>2, <2>3
<1> HIDE DEF S
<1>3. Nat \subseteq S
  BY <1>1, <1>2, SetInduction
<1>4. \A s \in SUBSET T : Cardinality(s) \in S
  BY <1>3, CardinalityWithout
<1>5. \A s \in SUBSET T : \A x \in s : g[s] = f[x] + g[s \ {x}]
  BY <1>4 DEF S
<1> QED BY <1>5 DEF Sums

\* What is not larger anywhere has no larger sum.
LEMMA SumMonotone ==
  ASSUME NEW T, IsFiniteSet(T), NEW e \in [T -> Nat], NEW f \in [T -> Nat],
         NEW d, NEW g, Sums(d, e, T), Sums(g, f, T), NEW R \in SUBSET T, \A x \in R : e[x] <= f[x]
  PROVE  d[R] <= g[R]
<1> DEFINE S == {n \in Nat : \A s \in SUBSET R : Cardinality(s) = n => d[s] <= g[s]}
<1>0. d \in [SUBSET T -> Nat] /\ g \in [SUBSET T -> Nat]
  BY DEF Sums
<1>1. 0 \in S
  <2>1. \A s \in SUBSET R : Cardinality(s) = 0 => s = {}
    BY CardinalityWithout
  <2>2. d[{}] <= g[{}]
    BY DEF Sums
  <2> QED BY <2>1, <2>2
<1>2. ASSUME NEW n \in S \cap Nat PROVE n + 1 \in S
  <2> SUFFICES ASSUME NEW s \in SUBSET R, Cardinality(s) = n + 1 PROVE d[s] <= g[s]
    OBVIOUS
  <2>1. s # {} /\ s \in SUBSET T
    BY CardinalityWithout
  <2>2. PICK x \in s : TRUE
    BY <2>1
  <2>3. Cardinality(s \ {x}) = n /\ s \ {x} \in SUBSET R
    BY <2>1, CardinalityWithout
  <2>4. d[s \ {x}] <= g[s \ {x}]
    BY <2>3
  <2>5. d[s] = e[x] + d[s \ {x}] /\ g[s] = f[x] + g[s \ {x}]
    BY <2>1 DEF Sums
  <2>6. e[x] \in Nat /\ f[x] \in Nat /\ d[s \ {x}] \in Nat /\ g[s \ {x}] \in Nat /\ e[x] <= f[x]
    BY <1>0, <2>1
  <2> QED BY <2>4, <2>5, <2>6
<1> HIDE DEF S
<1>3. Nat \subseteq S
  BY <1>1, <1>2, SetInduction
<1>4. Cardinality(R) \in S
  BY <1>3, CardinalityWithout
<1> QED BY <1>4 DEF S

-----------------------------------------------------------------------------
(* Graphs, whose nodes name their successors.                              *)

\* The nodes that start reaches in the graph g.
Reach(g, start) ==
  {t \in DOMAIN g : \A S \in SUBSET DOMAIN g :
     start \subseteq S /\ (\A p \in S : g[p].succ \subseteq S) => t \in S}

\* Sets that share no member have as many members together as pairs of a set
\* and a member of it.
LEMMA DisjointUnion ==
  ASSUME NEW I, IsFiniteSet(I), NEW U, IsFiniteSet(U), NEW f \in [I -> SUBSET U],
         \A i, j \in I : i # j => f[i] \cap f[j] = {}
  PROVE  Cardinality(UNION {{i} \X f[i] : i \in I}) = Cardinality(UNION {f[i] : i \in I})
<1> DEFINE pairs == UNION {{i} \X f[i] : i \in I}
<1> DEFINE union == UNION {f[i] : i \in I}
<1>1. pairs \subseteq I \X U /\ union \subseteq U
  OBVIOUS
<1>2. IsFiniteSet(pairs)
  BY <1>1, FS_Product, FS_Subset
<1>3. \A p \in pairs : p = <<p[1], p[2]>> /\ p[1] \in I /\ p[2] \in f[p[1]]
  OBVIOUS
<1>4. \A i \in I : \A x \in f[i] : <<i, x>> \in pairs
  OBVIOUS
<1>5. \A x : x \in union <=> \E i \in I : x \in f[i]
  OBVIOUS
<1> HIDE DEF pairs, union
<1>6. PICK h : h = [p \in pairs |-> p[2]]
  OBVIOUS
<1>7. DOMAIN h = pairs /\ h \in [pairs -> union] /\ \A p, q \in pairs : h[p] = h[q] => p = q
  <2>1. DOMAIN h = pairs /\ \A p \in pairs : h[p] = p[2]
    BY <1>6
  <2>2. \A p \in pairs : p[2] \in union
    BY <1>3, <1>5
  <2>3. h \in [pairs -> union]
    BY <1>6, <2>1, <2>2
  <2> QED BY <1>3, <2>1, <2>3
<1>8. h \in Surjection(pairs, union) /\ h \in Injection(pairs, union)
  <2>1. ASSUME NEW x \in union PROVE \E p \in pairs : h[p] = x
    <3>1. PICK i \in I : x \in f[i]
      BY <1>5
    <3>2. <<i, x>> \in pairs
      BY <1>4, <3>1
    <3>3. h[<<i, x>>] = <<i, x>>[2]
      BY <1>6, <3>2
    <3> QED BY <3>2, <3>3
  <2>2. IsInjective(h)
    BY <1>7 DEF IsInjective
  <2> QED BY <1>7, <2>1, <2>2 DEF Surjection, Injection
<1>9. Cardinality(union) = Cardinality(pairs)
  BY <1>2, <1>8, FS_Surjection
<1> QED BY <1>9 DEF pairs, union

=============================================================================
