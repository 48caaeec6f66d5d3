---------------------------- MODULE Lemmas_proof ----------------------------
(***************************************************************************)
(* What the other proofs need to know of data, in four parts.              *)
(*                                                                         *)
(* Division with remainder and offsets into tables: the provers know that  *)
(* a % n lies in 0 .. n - 1 and how it relates to a \div n; the rest is    *)
(* derived here.  Powers of two, which a reduction halves.  Induction, as  *)
(* a fact about sets of numbers.  And sequences: FlattenSeq places its     *)
(* sequences one after the other and goes element by element, and a        *)
(* recursive scan over a sequence has a result.                            *)
(***************************************************************************)
EXTENDS Integers, SequencesExt, SequenceTheorems, FiniteSetTheorems, TLAPS

(* A multiple of n strictly between -n and n is 0. *)
LEMMA MultipleBound ==
    ASSUME NEW n \in Nat \ {0}, NEW d \in Int, -n < n * d, n * d < n
    PROVE  d = 0
<1>1. CASE d >= 1
    <2>1. n * d >= n * 1  BY <1>1
    <2> QED BY <2>1
<1>2. CASE d <= -1
    <2>1. n * d <= n * (-1)  BY <1>2
    <2> QED BY <2>1
<1> QED BY <1>1, <1>2

(* The remainder of a division by n is unique. *)
LEMMA RemainderUnique ==
    ASSUME NEW n \in Nat \ {0}, NEW q \in Int, NEW r \in 0 .. n - 1,
           NEW p \in Int, NEW s \in 0 .. n - 1, n * q + r = n * p + s
    PROVE  r = s
<1>1. n * (q - p) = s - r  OBVIOUS
<1>2. q - p = 0  BY <1>1, MultipleBound
<1> QED BY <1>1, <1>2

(* Division with remainder. *)
LEMMA Division ==
    ASSUME NEW n \in Nat \ {0}, NEW a \in Nat
    PROVE  /\ a = (n * (a \div n)) + (a % n)
           /\ a \div n \in Int
           /\ a % n \in 0 .. n - 1
OBVIOUS

(* A ring of the rows from s below m: the row of p is one of them. *)
LEMMA RingRow ==
    ASSUME NEW m \in Nat \ {0}, NEW s \in 0 .. m - 1, NEW p \in Nat, p >= m
    PROVE  s + ((p - s) % (m - s)) \in s .. m - 1
<1> DEFINE a == p - s  n == m - s
<1>1. a \in Nat /\ n \in Nat \ {0}  OBVIOUS
<1>2. (a % n) \in 0 .. n - 1  BY <1>1, Division
<1>3. m = s + n /\ s \in Nat  OBVIOUS
<1> HIDE DEF a, n
<1>4. s + (a % n) \in s .. m - 1  BY <1>1, <1>2, <1>3
<1> QED BY <1>4 DEF a, n

(* The remainder of a successor is the next one, or 0. *)
LEMMA RemainderOfSuccessor ==
    ASSUME NEW a \in Nat, NEW n \in Nat \ {0}
    PROVE  (a + 1) % n = IF a % n = n - 1 THEN 0 ELSE (a % n) + 1
<1> DEFINE q == a \div n  r == a % n  p == (a + 1) \div n  s == (a + 1) % n
<1>1. a = n * q + r /\ q \in Int /\ r \in 0 .. n - 1  BY Division
<1>2. a + 1 = n * p + s /\ p \in Int /\ s \in 0 .. n - 1  BY Division
<1> HIDE DEF q, r, p, s
<1>3. CASE r = n - 1
    <2>1. n * (q + 1) = n * q + n  BY <1>1
    <2>2. n * (q + 1) + 0 = n * p + s  BY <1>1, <1>2, <1>3, <2>1
    <2>3. s = 0  BY <2>2, <1>1, <1>2, RemainderUnique
    <2> QED BY <2>3, <1>3 DEF s, r
<1>4. CASE r # n - 1
    <2>1. n * q + (r + 1) = n * p + s /\ r + 1 \in 0 .. n - 1  BY <1>1, <1>2, <1>4
    <2>2. s = r + 1  BY <2>1, <1>1, <1>2, RemainderUnique
    <2> QED BY <2>2, <1>4 DEF s, r
<1> QED BY <1>3, <1>4

(* Dividing an index below a * n by n gives a number below a. *)
LEMMA QuotientBound ==
    ASSUME NEW n \in Nat \ {0}, NEW a \in Nat, NEW i \in Nat, i < a * n
    PROVE  /\ i \div n \in 0 .. a - 1
           /\ i % n \in 0 .. n - 1
           /\ i = ((i \div n) * n) + (i % n)
<1> DEFINE q == i \div n  r == i % n
<1>1. i = n * q + r /\ q \in Int /\ r \in 0 .. n - 1  BY Division
<1> HIDE DEF q, r
<1>2. q * n = n * q  BY <1>1
<1>3. q >= 0
    <2> SUFFICES ASSUME q <= -1 PROVE FALSE  BY <1>1
    <2>1. n * q <= n * (-1)  BY <1>1
    <2> QED BY <2>1, <1>1
<1>4. q <= a - 1
    <2> SUFFICES ASSUME q >= a PROVE FALSE  BY <1>1
    <2>1. n * q >= n * a  BY <1>1
    <2> QED BY <2>1, <1>1
<1> QED BY <1>1, <1>2, <1>3, <1>4 DEF q, r

(* The offset of column j of row i, in rows of w columns, is in the table, *)
(* and two offsets are equal only in the same row.                         *)
LEMMA Offsets ==
    ASSUME NEW w \in Nat \ {0}
    PROVE  /\ \A a \in Nat : \A i \in 0 .. a - 1, j \in 0 .. w - 1 :
                (i * w) + j \in 0 .. (a * w) - 1
           /\ \A a, b \in Nat : \A i, j \in 0 .. w - 1 :
                (a * w) + i = (b * w) + j => a = b /\ i = j
<1>1. ASSUME NEW a \in Nat, NEW i \in 0 .. a - 1, NEW j \in 0 .. w - 1
      PROVE  (i * w) + j \in 0 .. (a * w) - 1
    <2>1. i * w \in Nat /\ a * w \in Nat  OBVIOUS
    <2>2. (i + 1) * w <= a * w  OBVIOUS
    <2>3. (i + 1) * w = (i * w) + w  OBVIOUS
    <2> QED BY <2>1, <2>2, <2>3
<1>2. ASSUME NEW a \in Nat, NEW b \in Nat, NEW i \in 0 .. w - 1, NEW j \in 0 .. w - 1,
             (a * w) + i = (b * w) + j
      PROVE  a = b /\ i = j
    <2>1. w * (a - b) = j - i  BY <1>2
    <2>2. a - b = 0  BY <2>1, MultipleBound
    <2> QED BY <2>1, <2>2
<1> QED BY <1>1, <1>2

(* An index is below a * n when its quotient is below a. *)
LEMMA QuotientBelow ==
    ASSUME NEW n \in Nat \ {0}, NEW a \in Nat, NEW i \in Nat
    PROVE  /\ i \div n \in Nat
           /\ i \div n < a <=> i < a * n
<1> DEFINE q == i \div n  r == i % n
<1>1. i = n * q + r /\ q \in Int /\ r \in 0 .. n - 1  BY Division
<1>2. i + 1 \in Nat /\ i < (i + 1) * n
    <2>1. (i + 1) * n >= (i + 1) * 1  OBVIOUS
    <2> QED BY <2>1
<1>3. q \in Nat  BY <1>2, QuotientBound
<1>4. i < a * n => q < a
    <2> HAVE i < a * n
    <2>1. i \div n \in 0 .. a - 1  BY QuotientBound
    <2> QED BY <2>1
<1> HIDE DEF q, r
<1>5. q < a => i < a * n
    <2> SUFFICES ASSUME q + 1 <= a PROVE i < a * n  BY <1>3
    <2>1. (q + 1) * n <= a * n  BY <1>3
    <2>2. (q + 1) * n = n * q + n /\ n * q \in Nat /\ a * n \in Nat  BY <1>3
    <2> QED BY <2>1, <2>2, <1>1
<1> QED BY <1>3, <1>4, <1>5 DEF q

(* The row of an offset. *)
LEMMA QuotientOfOffset ==
    ASSUME NEW w \in Nat \ {0}, NEW p \in Nat, NEW j \in 0 .. w - 1
    PROVE  ((p * w) + j) \div w = p
<1> DEFINE i == (p * w) + j  q == i \div w  r == i % w
<1>1. i \in Nat /\ p + 1 \in Nat /\ i < (p + 1) * w
    <2>1. p * w \in Nat /\ (p + 1) * w = (p * w) + w  OBVIOUS
    <2> QED BY <2>1
<1>2. q \in Nat /\ r \in 0 .. w - 1 /\ i = (q * w) + r
    <2>1. q \in 0 .. (p + 1) - 1 /\ r \in 0 .. w - 1 /\ i = (q * w) + r
        BY <1>1, QuotientBound
    <2> QED BY <2>1
<1> HIDE DEF q, r
<1>3. q = p  BY <1>2, Offsets
<1> QED BY <1>3 DEF q

(* The quotient of a successor is the same, or the next one. *)
LEMMA QuotientOfSuccessor ==
    ASSUME NEW a \in Nat, NEW n \in Nat \ {0}
    PROVE  (a + 1) \div n = IF a % n = n - 1 THEN (a \div n) + 1 ELSE a \div n
<1> DEFINE q == a \div n  r == a % n
<1>1. a = n * q + r /\ q \in Nat /\ r \in 0 .. n - 1  BY Division, QuotientBelow
<1>2. CASE r = n - 1
    <2> HIDE DEF q, r
    <2>1. (q + 1) * n = n * q + n  BY <1>1
    <2>2. n * q \in Nat  BY <1>1
    <2>3. a + 1 = ((q + 1) * n) + 0  BY <1>1, <1>2, <2>1, <2>2
    <2>4. (((q + 1) * n) + 0) \div n = q + 1  BY <1>1, QuotientOfOffset
    <2> QED BY <1>2, <2>3, <2>4 DEF q, r
<1>3. CASE r # n - 1
    <2> HIDE DEF q, r
    <2>1. q * n = n * q /\ n * q \in Nat  BY <1>1
    <2>2. a + 1 = (q * n) + (r + 1) /\ r + 1 \in 0 .. n - 1  BY <1>1, <1>3, <2>1
    <2>3. ((q * n) + (r + 1)) \div n = q  BY <1>1, <2>2, QuotientOfOffset
    <2> QED BY <1>3, <2>2, <2>3 DEF q, r
<1> QED BY <1>2, <1>3

(* One more multiple of n leaves the remainder. *)
LEMMA RemainderOfSum ==
    ASSUME NEW a \in Nat, NEW n \in Nat \ {0}
    PROVE  (a + n) % n = a % n
<1> DEFINE q == a \div n  r == a % n  p == (a + n) \div n  s == (a + n) % n
<1>1. a = n * q + r /\ q \in Int /\ r \in 0 .. n - 1  BY Division
<1>2. a + n = n * p + s /\ p \in Int /\ s \in 0 .. n - 1
    <2>1. a + n \in Nat  OBVIOUS
    <2> HIDE DEF q, r
    <2> QED BY <2>1, Division
<1> HIDE DEF q, r, p, s
<1>3. n * (q + 1) = n * q + n  BY <1>1
<1>4. n * (q + 1) + r = n * p + s  BY <1>1, <1>2, <1>3
<1>5. q + 1 \in Int  BY <1>1
<1>6. r = s  BY <1>1, <1>2, <1>4, <1>5, RemainderUnique
<1> QED BY <1>6 DEF r, s

(* Members of h in g groups of the same size: the group of a member. *)
LEMMA Grouped ==
    ASSUME NEW h \in Nat \ {0}, NEW g \in Nat \ {0}, h % g = 0, NEW member \in 0 .. h - 1
    PROVE  member \div (h \div g) \in 0 .. g - 1
<1> DEFINE size == h \div g
<1>1. h = (g * size) + (h % g) /\ size \in Int  BY Division
<1> HIDE DEF size
<1>2. h = g * size  BY <1>1
<1>3. size \in Nat \ {0}
    <2> SUFFICES ASSUME size <= 0 PROVE FALSE  BY <1>1
    <2>1. g * size <= g * 0  BY <1>1
    <2> QED BY <2>1, <1>2
<1>4. member \in Nat /\ member < g * size  BY <1>2
<1>5. member \div size \in 0 .. g - 1  BY <1>3, <1>4, QuotientBound
<1> QED BY <1>5 DEF size
(* A number with no odd divisor but 1: a power of two.  A tree reduction   *)
(* over so many slots halves its stride down to 1 and misses none.         *)
PowerOfTwo(b) ==
    b \in Nat \ {0} /\ \A d \in 1 .. b : b % d = 0 /\ d % 2 = 1 => d = 1

(* A residue modulo s is one of two residues modulo 2 * s. *)
LEMMA ResidueSplit ==
    ASSUME NEW s \in Nat \ {0}, NEW n \in Nat, NEW t \in 0 .. s - 1
    PROVE  n % s = t <=> n % (2 * s) = t \/ n % (2 * s) = t + s
<1> DEFINE q == n \div (2 * s)  r == n % (2 * s)  p == n \div s  m == n % s
<1>1. n = ((2 * s) * q) + r /\ q \in Int /\ r \in 0 .. (2 * s) - 1
    <2>1. 2 * s \in Nat \ {0}  OBVIOUS
    <2> QED BY <2>1, Division
<1>2. n = (s * p) + m /\ p \in Int /\ m \in 0 .. s - 1  BY Division
<1> HIDE DEF q, r, p, m
<1>3. (2 * s) * q = s * (2 * q) /\ s * (2 * q + 1) = s * (2 * q) + s /\ s * (2 * q) \in Int
    BY <1>1
<1>4. CASE r < s
    <2>1. r \in 0 .. s - 1 /\ 2 * q \in Int /\ s * p + m = s * (2 * q) + r  BY <1>1, <1>2, <1>3, <1>4
    <2>2. m = r  BY <2>1, <1>2, RemainderUnique
    <2> QED BY <2>1, <2>2, <1>1 DEF m, r
<1>5. CASE r >= s
    <2>1. r - s \in 0 .. s - 1 /\ 2 * q + 1 \in Int /\ s * p + m = s * (2 * q + 1) + (r - s)
        BY <1>1, <1>2, <1>3, <1>5
    <2>2. m = r - s  BY <2>1, <1>2, RemainderUnique
    <2> QED BY <2>1, <2>2, <1>1 DEF m, r
<1> QED BY <1>1, <1>4, <1>5

(* The next number of a residue class is n further on. *)
LEMMA NextOfClass ==
    ASSUME NEW n \in Nat \ {0}, NEW a \in Nat, NEW b \in Nat, a % n = b % n, a <= b, b < a + n
    PROVE  a = b
<1> DEFINE q == a \div n  r == a % n  p == b \div n  m == b % n
<1>1. a = (n * q) + r /\ q \in Int /\ r \in 0 .. n - 1  BY Division
<1>2. b = (n * p) + m /\ p \in Int /\ m \in 0 .. n - 1  BY Division
<1>3. r = m  OBVIOUS
<1> HIDE DEF q, r, p, m
<1>4. n * (p - q) = b - a  BY <1>1, <1>2, <1>3
<1>5. p - q = 0  BY <1>1, <1>2, <1>4, MultipleBound
<1> QED BY <1>1, <1>2, <1>4, <1>5

(* A multiple of n has no remainder. *)
LEMMA MultipleRemainder ==
    ASSUME NEW n \in Nat \ {0}, NEW q \in Int, NEW a \in Nat, a = n * q
    PROVE  a % n = 0
<1> DEFINE p == a \div n  m == a % n
<1>1. a = (n * p) + m /\ p \in Int /\ m \in 0 .. n - 1  BY Division
<1> HIDE DEF p, m
<1>2. n * q + 0 = n * p + m /\ 0 \in 0 .. n - 1  BY <1>1
<1>3. m = 0  BY <1>1, <1>2, RemainderUnique
<1> QED BY <1>3 DEF m

(* The strides of a reduction over b slots: half of b, and half of that, down to 0. *)
Halved(b, s) == s \in Nat /\ (s > 0 => b % (2 * s) = 0)
Width(s) == IF s = 0 THEN 1 ELSE 2 * s

(* The first stride halves the block. *)
LEMMA FirstStride ==
    ASSUME NEW b, PowerOfTwo(b)
    PROVE  Halved(b, b \div 2) /\ Width(b \div 2) = b
<1>1. b \in Nat \ {0}  BY DEF PowerOfTwo
<1>2. b = (2 * (b \div 2)) + (b % 2) /\ b \div 2 \in Int /\ b % 2 \in 0 .. 1  BY <1>1
<1>3. b \in 1 .. b /\ b % b = 0
    <2>1. b = b * 1  BY <1>1
    <2> QED BY <1>1, <2>1, MultipleRemainder
<1>4. b = 1 \/ b = 2 * (b \div 2)  BY <1>2, <1>3 DEF PowerOfTwo
<1>5. CASE b = 1
    <2>1. b \div 2 = 0  BY <1>5, <1>2
    <2> QED BY <1>5, <2>1 DEF Halved, Width
<1>6. CASE b = 2 * (b \div 2)
    <2>1. b \div 2 \in Nat \ {0}  BY <1>1, <1>2, <1>6
    <2>2. b % (2 * (b \div 2)) = 0  BY <1>3, <1>6
    <2> QED BY <1>6, <2>1, <2>2 DEF Halved, Width
<1> QED BY <1>4, <1>5, <1>6

(* The next stride halves the one before, down to 0. *)
LEMMA NextStride ==
    ASSUME NEW b, PowerOfTwo(b), NEW s \in Nat \ {0}, Halved(b, s)
    PROVE  Halved(b, s \div 2) /\ Width(s \div 2) = s /\ 2 * s <= b
<1> DEFINE h == s \div 2  q == b \div (2 * s)
<1>1. b \in Nat \ {0}  BY DEF PowerOfTwo
<1>2. s = (2 * h) + (s % 2) /\ h \in Nat /\ s % 2 \in 0 .. 1  OBVIOUS
<1>3. b = (2 * s) * q /\ q \in Int
    <2>1. 2 * s \in Nat \ {0}  OBVIOUS
    <2>2. b = ((2 * s) * q) + (b % (2 * s)) /\ q \in Int  BY <2>1, <1>1, Division
    <2>3. b % (2 * s) = 0  BY DEF Halved
    <2> HIDE DEF q
    <2> QED BY <2>1, <2>2, <2>3
<1> HIDE DEF q, h
<1>4. q >= 1
    <2> SUFFICES ASSUME q <= 0 PROVE FALSE  BY <1>3
    <2>1. (2 * s) * q <= 0  BY <1>3
    <2> QED BY <2>1, <1>1, <1>3
<1>5. 2 * s <= b
    <2>1. (2 * s) * q >= (2 * s) * 1  BY <1>3, <1>4
    <2> QED BY <2>1, <1>3
<1>6. b % s = 0
    <2>1. b = s * (2 * q) /\ 2 * q \in Int  BY <1>3
    <2> QED BY <2>1, <1>1, MultipleRemainder
<1>7. CASE s % 2 = 1
    <2>1. s = 1  BY <1>1, <1>5, <1>6, <1>7 DEF PowerOfTwo
    <2>2. h = 0  BY <2>1, <1>2
    <2> QED BY <2>1, <2>2, <1>5 DEF Halved, Width, h
<1>8. CASE s % 2 = 0
    <2>1. s = 2 * h /\ h > 0  BY <1>2, <1>8
    <2>2. b % (2 * h) = 0  BY <2>1, <1>6
    <2> QED BY <2>1, <2>2, <1>2, <1>5 DEF Halved, Width, h
<1> QED BY <1>2, <1>7, <1>8
-----------------------------------------------------------------------------
(***************************************************************************)
(* Numbers and sequences.                                                  *)
(***************************************************************************)

(* A set of numbers that is not empty has a least one. *)
LEMMA Least ==
    ASSUME NEW T \in SUBSET Nat, T # {}
    PROVE  \E n \in T : \A m \in T : n <= m
<1> DEFINE R == {ss \in Nat \X Nat : ss[1] < ss[2]}
<1>1. IsWellFoundedOn(R, Nat)  BY NatLessThanWellFounded DEF OpToRel
<1>2. \A a, b \in Nat : <<a, b>> \in R <=> a < b  OBVIOUS
<1> HIDE DEF R
<1>3. \E n \in T : \A m \in T : ~(<<m, n>> \in R)  BY <1>1, WFMin
<1>4. PICK n \in T : \A m \in T : ~(<<m, n>> \in R)  BY <1>3
<1>5. ASSUME NEW m \in T PROVE n <= m
    <2>1. m \in Nat /\ n \in Nat /\ ~(<<m, n>> \in R)  BY <1>4
    <2>2. ~(m < n)  BY <1>2, <2>1
    <2> QED BY <2>1, <2>2
<1> QED BY <1>5

(* Induction, for a property given as the set of the numbers that have it. *)
LEMMA Induction ==
    ASSUME NEW T, 0 \in T, \A n \in Nat : n \in T => n + 1 \in T
    PROVE  \A n \in Nat : n \in T
<1> SUFFICES ASSUME {n \in Nat : n \notin T} # {} PROVE FALSE
    OBVIOUS
<1>1. PICK n \in Nat : n \notin T /\ \A m \in Nat : m \notin T => n <= m
    BY Least
<1>2. n # 0 /\ n - 1 \in Nat /\ (n - 1) + 1 = n  BY <1>1
<1>3. n - 1 \in T  BY <1>1, <1>2
<1> QED BY <1>1, <1>2, <1>3

(* The definition of FlattenSeq is a recursive function; there is one. *)
Flattens(F, s) ==
    F = [i \in 1 .. Len(s) |-> IF i = 1 THEN s[i] ELSE F[i - 1] \o s[i]]

(* FlattenSeq has a result. *)
LEMMA FlattenDefined ==
    ASSUME NEW S, NEW s \in Seq(Seq(S)), Len(s) # 0
    PROVE  \E F : Flattens(F, s) /\ FlattenSeq(s) = F[Len(s)]
<1> DEFINE N == Len(s)
           Is(F, n) == F = [i \in 1 .. n |-> IF i = 1 THEN s[i] ELSE F[i - 1] \o s[i]]
           T == {n \in Nat : \E F : Is(F, n)}
<1>1. 0 \in T
    <2>1. Is([i \in 1 .. 0 |-> 0], 0)  OBVIOUS
    <2> QED BY <2>1
<1>2. ASSUME NEW n \in Nat, n \in T PROVE n + 1 \in T
    <2>1. PICK F : Is(F, n)  BY <1>2
    <2> DEFINE G == [i \in 1 .. n + 1 |->
                       IF i <= n THEN F[i] ELSE IF i = 1 THEN s[i] ELSE F[i - 1] \o s[i]]
    <2>2. ASSUME NEW i \in 1 .. n + 1
          PROVE  G[i] = IF i = 1 THEN s[i] ELSE G[i - 1] \o s[i]
        <3>1. CASE i <= n
            <4>1. i \in 1 .. n /\ G[i] = F[i]  BY <3>1
            <4>2. F[i] = IF i = 1 THEN s[i] ELSE F[i - 1] \o s[i]  BY <2>1, <4>1
            <4>3. i # 1 => G[i - 1] = F[i - 1]  BY <3>1
            <4> QED BY <4>1, <4>2, <4>3
        <3>2. CASE ~(i <= n)
            <4>1. i = n + 1 /\ G[i] = IF i = 1 THEN s[i] ELSE F[i - 1] \o s[i]  BY <3>2
            <4>2. i # 1 => G[i - 1] = F[i - 1]  BY <4>1
            <4> QED BY <4>1, <4>2
        <3> QED BY <3>1, <3>2
    <2>3. Is(G, n + 1)
        <3>1. DOMAIN G = 1 .. n + 1 /\ G = [i \in 1 .. n + 1 |-> G[i]]  OBVIOUS
        <3> HIDE DEF G
        <3>2. [i \in 1 .. n + 1 |-> G[i]]
                = [i \in 1 .. n + 1 |-> IF i = 1 THEN s[i] ELSE G[i - 1] \o s[i]]
            BY <2>2
        <3> QED BY <3>1, <3>2
    <2> HIDE DEF Is, G
    <2>4. n + 1 \in Nat /\ \E H : Is(H, n + 1)  BY <2>3
    <2> QED BY <2>4
<1>3. \A n \in Nat : n \in T
    <2> HIDE DEF T
    <2> QED BY <1>1, <1>2, Induction
<1>4. \E F : Is(F, N)
    <2>1. N \in Nat  OBVIOUS
    <2> HIDE DEF Is, N
    <2> QED BY <1>3, <2>1
<1>5. FlattenSeq(s) = (CHOOSE F : Is(F, N))[N]
    BY DEF FlattenSeq
<1> QED BY <1>4, <1>5 DEF Flattens

(***************************************************************************)
(* Where each sequence of s begins in the flattened one: p[k] elements     *)
(* come before s[k], and p[Len(s) + 1] is the length of all.               *)
(***************************************************************************)
Places(p, s, f) ==
    /\ p \in [1 .. Len(s) + 1 -> Nat] /\ p[1] = 0
    /\ \A k \in 1 .. Len(s) : p[k + 1] = p[k] + Len(s[k])
    /\ Len(f) = p[Len(s) + 1]
    /\ \A k \in 1 .. Len(s) : \A i \in 1 .. Len(s[k]) :
          p[k] + i \in 1 .. Len(f) /\ f[p[k] + i] = s[k][i]
    /\ \A n \in 1 .. Len(f) : \E k \in 1 .. Len(s) : \E i \in 1 .. Len(s[k]) : n = p[k] + i

(* It places the sequences one after the other. *)
LEMMA Flattened ==
    ASSUME NEW S, NEW s \in Seq(Seq(S))
    PROVE  FlattenSeq(s) \in Seq(S) /\ \E p : Places(p, s, FlattenSeq(s))
<1>1. CASE Len(s) = 0
    <2>1. s = <<>> /\ FlattenSeq(s) = s  BY <1>1 DEF FlattenSeq
    <2>2. FlattenSeq(s) \in Seq(S) /\ Len(FlattenSeq(s)) = 0
        <3>1. FlattenSeq(s) = <<>>  BY <2>1, Zenon
        <3> QED BY <3>1, EmptySeq
    <2>3. Places([k \in 1 .. 1 |-> 0], s, FlattenSeq(s))  BY <1>1, <2>2 DEF Places
    <2> QED BY <2>2, <2>3
<1>2. CASE Len(s) # 0
    <2> DEFINE N == Len(s)
    <2>1. N \in Nat \ {0} /\ \A k \in 1 .. N : s[k] \in Seq(S)  BY <1>2
    <2>2. PICK F : Flattens(F, s) /\ FlattenSeq(s) = F[N]  BY <1>2, FlattenDefined
    <2>3. F[1] = s[1] /\ \A k \in 1 .. N : k # 1 => F[k] = F[k - 1] \o s[k]
        <3>1. F = [i \in 1 .. N |-> IF i = 1 THEN s[i] ELSE F[i - 1] \o s[i]]
            BY <2>2 DEF Flattens
        <3>2. \A k \in 1 .. N : F[k] = IF k = 1 THEN s[k] ELSE F[k - 1] \o s[k]
            BY <3>1, Zenon
        <3>3. 1 \in 1 .. N  BY <2>1
        <3> QED BY <3>2, <3>3
    <2> DEFINE p == [k \in 1 .. N + 1 |-> IF k = 1 THEN 0 ELSE Len(F[k - 1])]
               Good(n) ==
                  /\ F[n] \in Seq(S) /\ p[n + 1] = p[n] + Len(s[n])
                  /\ Len(F[n]) = p[n + 1]
                  /\ \A k \in 1 .. n : \A i \in 1 .. Len(s[k]) :
                        p[k] + i \in 1 .. Len(F[n]) /\ F[n][p[k] + i] = s[k][i]
                  /\ \A j \in 1 .. Len(F[n]) :
                        \E k \in 1 .. n : \E i \in 1 .. Len(s[k]) : j = p[k] + i
               T == {n \in Nat : n \in 1 .. N => Good(n)}
    <2>4. 0 \in T  OBVIOUS
    <2>5. ASSUME NEW n \in Nat, n \in T PROVE n + 1 \in T
        <3> SUFFICES ASSUME n + 1 \in 1 .. N PROVE Good(n + 1)
            <4> HIDE DEF Good
            <4> QED OBVIOUS
        <3>1. s[n + 1] \in Seq(S)  BY <2>1
        <3>2. CASE n = 0
            <4>1. F[1] = s[1] /\ p[1] = 0 /\ p[2] = Len(F[1])  BY <2>1, <2>3
            <4>2. s[1] \in Seq(S) /\ Len(s[1]) \in Nat  BY <3>1, <3>2
            <4> HIDE DEF p
            <4> QED BY <3>2, <4>1, <4>2
        <3>3. CASE n # 0
            <4>1. n \in 1 .. N /\ Good(n)  
                <5>1. n \in 1 .. N  BY <2>1, <3>3
                <5> HIDE DEF Good
                <5> QED BY <2>5, <5>1
            <4>2. F[n + 1] = F[n] \o s[n + 1]
                <5>1. n + 1 # 1 /\ (n + 1) - 1 = n  BY <3>3
                <5> QED BY <2>3, <5>1
            <4>3. p[n + 1] = Len(F[n]) /\ p[n + 2] = Len(F[n + 1])
                <5>1. n + 1 \in 1 .. N + 1 /\ n + 2 \in 1 .. N + 1 /\ n + 1 # 1 /\ n + 2 # 1
                    BY <3>3, <2>1
                <5>2. (n + 1) - 1 = n /\ (n + 2) - 1 = n + 1  OBVIOUS
                <5> QED BY <5>1, <5>2
            <4> DEFINE a == F[n]  b == s[n + 1]
            <4>4. a \in Seq(S) /\ b \in Seq(S)  BY <3>1, <4>1
            <4>5. /\ F[n + 1] \in Seq(S) /\ Len(F[n + 1]) = Len(a) + Len(b)
                  /\ \A i \in 1 .. Len(a) + Len(b) :
                        F[n + 1][i] = IF i <= Len(a) THEN a[i] ELSE b[i - Len(a)]
                <5>1. F[n + 1] = a \o b  BY <4>2
                <5> HIDE DEF a, b
                <5>2. /\ a \o b \in Seq(S) /\ Len(a \o b) = Len(a) + Len(b)
                      /\ \A i \in 1 .. Len(a) + Len(b) :
                            (a \o b)[i] = IF i <= Len(a) THEN a[i] ELSE b[i - Len(a)]
                    BY <4>4, ConcatProperties, Zenon
                <5> QED BY <5>1, <5>2, Zenon
            <4>6. Len(a) \in Nat /\ Len(b) \in Nat  BY <4>4
            <4>7. ASSUME NEW k \in 1 .. n, NEW i \in 1 .. Len(s[k])
                  PROVE  p[k] + i \in 1 .. Len(F[n + 1]) /\ F[n + 1][p[k] + i] = s[k][i]
                <5>1. p[k] + i \in 1 .. Len(a) /\ a[p[k] + i] = s[k][i]  BY <4>1
                <5> DEFINE j == p[k] + i
                <5>2. j \in 1 .. Len(a) /\ a[j] = s[k][i]  BY <5>1
                <5> HIDE DEF j, a, b
                <5>3. j \in 1 .. Len(a) + Len(b) /\ j <= Len(a)  BY <4>6, <5>2
                <5>4. F[n + 1][j] = a[j]  BY <4>5, <5>3
                <5>5. j \in 1 .. Len(F[n + 1]) /\ F[n + 1][j] = s[k][i]
                    BY <4>5, <5>2, <5>3, <5>4
                <5> QED BY <5>5 DEF j
            <4>8. ASSUME NEW i \in 1 .. Len(b)
                  PROVE  p[n + 1] + i \in 1 .. Len(F[n + 1]) /\ F[n + 1][p[n + 1] + i] = b[i]
                <5> HIDE DEF p, a, b
                <5>1. p[n + 1] = Len(a)  BY <4>3 DEF a
                <5>2. Len(a) + i \in 1 .. Len(a) + Len(b) /\ ~(Len(a) + i <= Len(a))
                      /\ (Len(a) + i) - Len(a) = i
                    BY <4>6
                <5> QED BY <4>5, <5>1, <5>2
            <4>9. ASSUME NEW j \in 1 .. Len(F[n + 1])
                  PROVE  \E k \in 1 .. n + 1 : \E i \in 1 .. Len(s[k]) : j = p[k] + i
                <5>1. CASE j <= Len(a)
                    <6>1. j \in 1 .. Len(a)  BY <4>6, <4>5, <5>1
                    <6>2. \E k \in 1 .. n : \E i \in 1 .. Len(s[k]) : j = p[k] + i  BY <4>1, <6>1
                    <6> HIDE DEF p
                    <6> QED BY <6>2
                <5>2. CASE ~(j <= Len(a))
                    <6>1. j - Len(a) \in 1 .. Len(b)
                        <7> HIDE DEF a, b
                        <7> QED BY <4>5, <4>6, <5>2
                    <6>2. p[n + 1] = Len(a) /\ n + 1 \in 1 .. n + 1  BY <4>3
                    <6>3. j = p[n + 1] + (j - Len(a))
                        <7> HIDE DEF a, p
                        <7> QED BY <4>5, <4>6, <6>2
                    <6> HIDE DEF p, a
                    <6> QED BY <6>1, <6>2, <6>3 DEF b
                <5> QED BY <5>1, <5>2
            <4>10. \A k \in 1 .. n + 1 : k \in 1 .. n \/ k = n + 1  OBVIOUS
            <4>11. p[(n + 1) + 1] = Len(F[n + 1])
                <5>1. (n + 1) + 1 = n + 2  OBVIOUS
                <5> HIDE DEF p
                <5> QED BY <4>3, <5>1
            <4>12. p[n + 2] = p[n + 1] + Len(s[n + 1])
                <5> HIDE DEF p
                <5> QED BY <4>3, <4>5
            <4> HIDE DEF p, a
            <4> QED BY <4>5, <4>7, <4>8, <4>9, <4>10, <4>11, <4>12, <4>3 DEF b
        <3> QED BY <3>2, <3>3
    <2>6. \A n \in Nat : n \in T
        <3> HIDE DEF T
        <3> QED BY <2>4, <2>5, Induction
    <2>7. \A n \in 1 .. N : Good(n)
        <3> HIDE DEF Good
        <3> QED BY <2>6
    <2>8. Good(N)
        <3> HIDE DEF Good
        <3> QED BY <2>1, <2>7
    <2>9. \A k \in 1 .. N : p[k + 1] = p[k] + Len(s[k])  BY <2>7
    <2>10. p \in [1 .. N + 1 -> Nat] /\ p[1] = 0
        <3>1. \A k \in 1 .. N : Len(F[k]) \in Nat  BY <2>7
        <3>2. \A k \in 1 .. N + 1 : k # 1 => k - 1 \in 1 .. N  BY <2>1
        <3>3. 1 \in 1 .. N + 1  BY <2>1
        <3> QED BY <3>1, <3>2, <3>3
    <2>11. Places(p, s, F[N])
        <3> HIDE DEF p
        <3> QED BY <2>8, <2>9, <2>10 DEF Places
    <2> QED BY <2>2, <2>8, <2>11
<1> QED BY <1>1, <1>2
-----------------------------------------------------------------------------
(* The sequence e stands in f after the first at elements. *)
Stands(f, at, e) ==
    /\ at \in Nat /\ at + Len(e) <= Len(f)
    /\ \A i \in 1 .. Len(e) : f[at + i] = e[i]

(* What SubSeq cuts out is e exactly when e stands there. *)
LEMMA CutOut ==
    ASSUME NEW S, NEW f \in Seq(S), NEW e \in Seq(S), NEW at \in Nat, at + Len(e) <= Len(f)
    PROVE  SubSeq(f, at + 1, at + Len(e)) = e <=> Stands(f, at, e)
<1> DEFINE n == Len(e)  c == SubSeq(f, at + 1, at + n)
<1>1. n \in Nat /\ Len(f) \in Nat  OBVIOUS
<1>2. \A i \in at + 1 .. at + n : f[i] \in S
    <2>1. \A i \in at + 1 .. at + n : i \in 1 .. Len(f)  BY <1>1
    <2> QED BY <2>1
<1>3. /\ c \in Seq(S) /\ Len(c) = IF at + 1 <= at + n THEN at + n - (at + 1) + 1 ELSE 0
      /\ \A i \in 1 .. at + n - (at + 1) + 1 : c[i] = f[at + 1 + i - 1]
    <2> DEFINE lo == at + 1  hi == at + n
    <2>1. lo \in Int /\ hi \in Int /\ \A i \in lo .. hi : f[i] \in S  BY <1>1, <1>2
    <2> HIDE DEF lo, hi
    <2>2. /\ SubSeq(f, lo, hi) \in Seq(S)
          /\ Len(SubSeq(f, lo, hi)) = IF lo <= hi THEN hi - lo + 1 ELSE 0
          /\ \A i \in 1 .. hi - lo + 1 : SubSeq(f, lo, hi)[i] = f[lo + i - 1]
        BY <2>1, SubSeqProperties
    <2> QED BY <2>2 DEF lo, hi
<1> HIDE DEF c, n
<1>4. Len(c) = n  BY <1>1, <1>3
<1>5. \A i \in 1 .. n : c[i] = f[at + i]
    <2>1. at + n - (at + 1) + 1 = n /\ \A i \in 1 .. n : at + 1 + i - 1 = at + i  BY <1>1
    <2> QED BY <1>3, <2>1
<1>6. ASSUME Stands(f, at, e) PROVE c = e
    <2>1. Len(c) = Len(e) /\ \A i \in 1 .. Len(c) : c[i] = e[i]
        BY <1>4, <1>5, <1>6 DEF Stands, n
    <2> QED BY <1>3, <2>1, SeqEqual
<1>7. ASSUME c = e PROVE Stands(f, at, e)
    BY <1>5, <1>7 DEF Stands, n
<1> QED BY <1>6, <1>7 DEF c, n
-----------------------------------------------------------------------------
(* Concatenation is associative. *)
Regroups(S) == \A a, b, c \in Seq(S) : (a \o b) \o c = a \o (b \o c)

(* It is, for the sequences over any set. *)
LEMMA Regroup == \A S : Regroups(S)
BY DEF Regroups

(* The same facts with no quantifier over S to be found. *)
Joins(S) ==
    \A a, b \in Seq(S) :
        /\ a \o b \in Seq(S) /\ Len(a \o b) = Len(a) + Len(b)
        /\ \A i \in 1 .. Len(a) + Len(b) :
              (a \o b)[i] = IF i <= Len(a) THEN a[i] ELSE b[i - Len(a)]

(* They hold for the sequences over any set. *)
LEMMA Join == \A S : Joins(S)
BY DEF Joins

(* Flattening goes element by element. *)
LEMMA FlattenAppend ==
    ASSUME NEW S, NEW s \in Seq(Seq(S)), NEW x \in Seq(S)
    PROVE  FlattenSeq(Append(s, x)) = FlattenSeq(s) \o x
<1> DEFINE t == Append(s, x)  n == Len(s)
<1>1. t \in Seq(Seq(S)) /\ n \in Nat /\ Len(t) = n + 1 /\ t[n + 1] = x
      /\ \A i \in 1 .. n : t[i] = s[i]
    OBVIOUS
<1> HIDE DEF t, n
<1>2. PICK G : Flattens(G, t) /\ FlattenSeq(t) = G[n + 1]
    <2>1. Len(t) # 0  BY <1>1
    <2> QED BY <1>1, <2>1, FlattenDefined
<1>3. \A i \in 1 .. n + 1 : G[i] = IF i = 1 THEN t[i] ELSE G[i - 1] \o t[i]
    <2>1. G = [i \in 1 .. n + 1 |-> IF i = 1 THEN t[i] ELSE G[i - 1] \o t[i]]
        BY <1>1, <1>2 DEF Flattens
    <2> QED BY <2>1, Zenon
<1>4. n + 1 \in 1 .. n + 1 /\ (n + 1) - 1 = n  BY <1>1
<1>5. CASE n = 0
    <2>1. G[1] = x  BY <1>1, <1>3, <1>4, <1>5
    <2>2. FlattenSeq(s) = <<>>
        <3>1. s = <<>> /\ Len(s) = 0  BY <1>5 DEF n
        <3>2. FlattenSeq(s) = s  BY <3>1 DEF FlattenSeq
        <3> QED BY <3>1, <3>2
    <2>3. <<>> \o x = x  BY ConcatEmptySeq
    <2> QED BY <1>2, <1>5, <2>1, <2>2, <2>3 DEF t
<1>6. CASE n # 0
    <2>1. PICK F : Flattens(F, s) /\ FlattenSeq(s) = F[n]
        <3>1. Len(s) # 0  BY <1>6 DEF n
        <3> QED BY <3>1, FlattenDefined DEF n
    <2>2. \A i \in 1 .. n : F[i] = IF i = 1 THEN s[i] ELSE F[i - 1] \o s[i]
        <3>1. F = [i \in 1 .. n |-> IF i = 1 THEN s[i] ELSE F[i - 1] \o s[i]]
            BY <2>1 DEF Flattens, n
        <3> QED BY <3>1, Zenon
    <2> DEFINE T == {i \in Nat : i \in 1 .. n => F[i] = G[i]}
    <2>3. 0 \in T  OBVIOUS
    <2>4. ASSUME NEW i \in Nat, i \in T PROVE i + 1 \in T
        <3> SUFFICES ASSUME i + 1 \in 1 .. n PROVE F[i + 1] = G[i + 1]
            OBVIOUS
        <3>1. /\ F[i + 1] = IF i + 1 = 1 THEN s[i + 1] ELSE F[(i + 1) - 1] \o s[i + 1]
              /\ G[i + 1] = IF i + 1 = 1 THEN t[i + 1] ELSE G[(i + 1) - 1] \o t[i + 1]
            <4>1. i + 1 \in 1 .. n + 1  BY <1>1
            <4> QED BY <1>3, <2>2, <4>1
        <3>2. t[i + 1] = s[i + 1] /\ (i + 1) - 1 = i  BY <1>1
        <3>3. i + 1 # 1 => F[i] = G[i]
            <4>1. i + 1 # 1 => i \in 1 .. n  BY <1>1
            <4> QED BY <2>4, <4>1
        <3> QED BY <3>1, <3>2, <3>3
    <2>5. n \in T
        <3> HIDE DEF T
        <3> QED BY <1>1, <2>3, <2>4, Induction
    <2>6. F[n] = G[n]  BY <1>1, <1>6, <2>5
    <2>7. G[n + 1] = G[n] \o x
        <3>1. G[n + 1] = IF n + 1 = 1 THEN t[n + 1] ELSE G[(n + 1) - 1] \o t[n + 1]
            BY <1>3, <1>4, Zenon
        <3>2. n + 1 # 1  BY <1>1, <1>6
        <3> QED BY <1>1, <1>4, <3>1, <3>2, Zenon
    <2> QED BY <1>2, <2>1, <2>6, <2>7 DEF t
<1> QED BY <1>5, <1>6

(* Flattening a concatenation. *)
LEMMA FlattenConcat ==
    ASSUME NEW S, NEW s \in Seq(Seq(S)), NEW t \in Seq(Seq(S))
    PROVE  FlattenSeq(s \o t) = FlattenSeq(s) \o FlattenSeq(t)
<1>0. Regroups(S)  BY Regroup, Zenon
<1> DEFINE T == {n \in Nat : \A u \in Seq(Seq(S)) :
                    Len(u) = n => FlattenSeq(s \o u) = FlattenSeq(s) \o FlattenSeq(u)}
<1>1. 0 \in T
    <2> SUFFICES ASSUME NEW u \in Seq(Seq(S)), Len(u) = 0
                 PROVE  FlattenSeq(s \o u) = FlattenSeq(s) \o FlattenSeq(u)
        OBVIOUS
    <2>1. u = <<>> /\ FlattenSeq(u) = u
        <3>1. FlattenSeq(u) = u  BY DEF FlattenSeq
        <3> QED BY <3>1
    <2>2. FlattenSeq(s) \in Seq(S)  BY Flattened
    <2>3. FlattenSeq(s) \o <<>> = FlattenSeq(s)
        <3> DEFINE f == FlattenSeq(s)
        <3> HIDE DEF f
        <3>1. f \in Seq(S) => f \o <<>> = f  BY ConcatEmptySeq
        <3> QED BY <2>2, <3>1 DEF f
    <2>4. s \o <<>> = s  BY ConcatEmptySeq
    <2> QED BY <2>1, <2>3, <2>4
<1>2. ASSUME NEW n \in Nat, n \in T PROVE n + 1 \in T
    <2> SUFFICES ASSUME NEW u \in Seq(Seq(S)), Len(u) = n + 1
                 PROVE  FlattenSeq(s \o u) = FlattenSeq(s) \o FlattenSeq(u)
        OBVIOUS
    <2>1. PICK v \in Seq(Seq(S)), x \in Seq(S) : u = Append(v, x)
        <3>1. u # <<>>  OBVIOUS
        <3> QED BY <3>1, SequenceEmptyOrAppend
    <2>2. Len(v) = n  BY <2>1
    <2>3. s \o u = Append(s \o v, x)  BY <2>1
    <2>4. s \o v \in Seq(Seq(S))  OBVIOUS
    <2>5. FlattenSeq(s \o u) = FlattenSeq(s \o v) \o x  BY <2>3, <2>4, FlattenAppend
    <2>6. FlattenSeq(s \o v) = FlattenSeq(s) \o FlattenSeq(v)  BY <1>2, <2>2
    <2>7. FlattenSeq(u) = FlattenSeq(v) \o x  BY <2>1, FlattenAppend
    <2>8. FlattenSeq(s) \in Seq(S) /\ FlattenSeq(v) \in Seq(S)  BY Flattened
    <2>9. (FlattenSeq(s) \o FlattenSeq(v)) \o x = FlattenSeq(s) \o (FlattenSeq(v) \o x)
        BY <1>0, <2>8, Zenon DEF Regroups
    <2> QED BY <2>5, <2>6, <2>7, <2>9
<1>3. Len(t) \in T
    <2>1. Len(t) \in Nat  OBVIOUS
    <2> HIDE DEF T
    <2> QED BY <1>1, <1>2, <2>1, Induction
<1> QED BY <1>3

(* Flattening one sequence, or none. *)
LEMMA FlattenOne ==
    ASSUME NEW S, NEW x \in Seq(S)
    PROVE  /\ FlattenSeq(<<x>>) = x
           /\ FlattenSeq(<<>>) = <<>>
<1>1. FlattenSeq(<<>>) = <<>>
    <2>1. Len(<<>>) = 0  OBVIOUS
    <2> QED BY <2>1 DEF FlattenSeq
<1>2. <<>> \in Seq(Seq(S)) /\ Append(<<>>, x) = <<x>>  OBVIOUS
<1>3. FlattenSeq(<<x>>) = FlattenSeq(<<>>) \o x  BY <1>2, FlattenAppend
<1>4. <<>> \o x = x  BY ConcatEmptySeq
<1> QED BY <1>1, <1>3, <1>4

(***************************************************************************)
(* A scan of L places that passes one or two at a time and takes head[n]   *)
(* at place n; such a recursive definition has a solution.                 *)
(***************************************************************************)
Scans(F, L, head, step) ==
    F = [n \in 1 .. L + 2 |-> IF n > L THEN <<>> ELSE head[n] \o F[n + step[n]]]

(* By induction over the part of its domain, from the end, where it is defined. *)
LEMMA ScanDefined ==
    ASSUME NEW L \in Nat, NEW head, NEW step \in [1 .. L -> {1, 2}]
    PROVE  \E F : Scans(F, L, head, step)
<1> DEFINE Is(F, m) ==
               F = [n \in L + 3 - m .. L + 2 |->
                      IF n > L THEN <<>> ELSE head[n] \o F[n + step[n]]]
           T == {m \in Nat : m <= L + 2 => \E F : Is(F, m)}
<1>1. 0 \in T
    <2> DEFINE F == [n \in L + 3 .. L + 2 |-> <<>>]
    <2>1. L + 3 - 0 = L + 3 /\ \A n : n \notin L + 3 .. L + 2  OBVIOUS
    <2>2. F = [n \in L + 3 .. L + 2 |-> IF n > L THEN <<>> ELSE head[n] \o F[n + step[n]]]
        BY <2>1
    <2>3. Is(F, 0)  BY <2>1, <2>2
    <2> HIDE DEF Is, F
    <2> QED BY <2>3
<1>2. ASSUME NEW m \in Nat, m \in T PROVE m + 1 \in T
    <2> SUFFICES ASSUME m + 1 <= L + 2 PROVE \E F : Is(F, m + 1)
        <3> HIDE DEF Is
        <3> QED OBVIOUS
    <2>1. PICK F : Is(F, m)
        <3> HIDE DEF Is
        <3> QED BY <1>2
    <2> DEFINE k == L + 2 - m
               G == [n \in k .. L + 2 |->
                       IF n > k THEN F[n] ELSE IF n > L THEN <<>> ELSE head[n] \o F[n + step[n]]]
    <2>2. /\ k \in 1 .. L + 2 /\ k = L + 3 - (m + 1) /\ k + 1 = L + 3 - m
          /\ \A n \in k .. L + 2 : n > k <=> n \in k + 1 .. L + 2
        OBVIOUS
    <2>3. \A n \in k + 1 .. L + 2 :
             F[n] = IF n > L THEN <<>> ELSE head[n] \o F[n + step[n]]
        <3>1. F = [n \in k + 1 .. L + 2 |->
                     IF n > L THEN <<>> ELSE head[n] \o F[n + step[n]]]
            BY <2>1, <2>2
        <3> HIDE DEF k
        <3> QED BY <3>1, Zenon
    <2>4. \A n \in k .. L : n + step[n] \in k + 1 .. L + 2
        <3>1. \A n \in k .. L : n \in 1 .. L  BY <2>2
        <3>2. \A n \in k .. L : step[n] \in {1, 2}  BY <3>1
        <3> HIDE DEF k
        <3> QED BY <2>2, <3>2
    <2> HIDE DEF k
    <2>5. \A n \in k .. L + 2 : G[n] = IF n > L THEN <<>> ELSE head[n] \o G[n + step[n]]
        <3> TAKE n \in k .. L + 2
        <3>1. G[n] = IF n > k THEN F[n] ELSE IF n > L THEN <<>> ELSE head[n] \o F[n + step[n]]
            OBVIOUS
        <3>2. \A i \in k + 1 .. L + 2 : G[i] = F[i]
            <4>1. \A i \in k + 1 .. L + 2 : i \in k .. L + 2 /\ i > k  BY <2>2
            <4> QED BY <4>1
        <3>3. G[n] = IF n > L THEN <<>> ELSE head[n] \o F[n + step[n]]
            <4>1. n > k => n \in k + 1 .. L + 2  BY <2>2
            <4> HIDE DEF G
            <4> QED BY <2>3, <3>1, <4>1
        <3>4. ~(n > L) => n \in k .. L  BY <2>2
        <3>5. ~(n > L) => G[n + step[n]] = F[n + step[n]]
            <4> HIDE DEF G
            <4> QED BY <2>4, <3>2, <3>4
        <3> HIDE DEF G
        <3> QED BY <3>3, <3>5
    <2>6. Is(G, m + 1)
        <3>1. G = [n \in k .. L + 2 |-> G[n]]  OBVIOUS
        <3> HIDE DEF G
        <3>2. [n \in k .. L + 2 |-> G[n]]
                = [n \in k .. L + 2 |-> IF n > L THEN <<>> ELSE head[n] \o G[n + step[n]]]
            BY <2>5
        <3> QED BY <2>2, <3>1, <3>2
    <2> HIDE DEF Is, G
    <2> QED BY <2>6
<1>3. L + 2 \in T
    <2>1. L + 2 \in Nat  OBVIOUS
    <2> HIDE DEF T
    <2> QED BY <1>1, <1>2, <2>1, Induction
<1>4. PICK F : Is(F, L + 2)
    <2> HIDE DEF Is
    <2> QED BY <1>3
<1>5. L + 3 - (L + 2) = 1  OBVIOUS
<1>6. Scans(F, L, head, step)  BY <1>4, <1>5 DEF Scans
<1> QED BY <1>6

(* Flattening the first sequences of s gives the bytes before the next. *)
LEMMA PrefixPlace ==
    ASSUME NEW S, NEW s \in Seq(Seq(S)), NEW p, Places(p, s, FlattenSeq(s)),
           NEW n \in 0 .. Len(s)
    PROVE  Len(FlattenSeq(SubSeq(s, 1, n))) = p[n + 1]
<1> DEFINE T == {m \in Nat : m <= Len(s) => Len(FlattenSeq(SubSeq(s, 1, m))) = p[m + 1]}
<1>1. 0 \in T
    <2>1. SubSeq(s, 1, 0) = <<>>  BY SubSeqEmpty
    <2>2. FlattenSeq(<<>>) = <<>>  BY FlattenOne
    <2>3. p[1] = 0 /\ 0 + 1 = 1  BY DEF Places
    <2>4. FlattenSeq(SubSeq(s, 1, 0)) = <<>>  BY <2>1, <2>2
    <2>5. Len(FlattenSeq(SubSeq(s, 1, 0))) = 0  BY <2>4
    <2> QED BY <2>3, <2>5
<1>2. ASSUME NEW m \in Nat, m \in T PROVE m + 1 \in T
    <2> SUFFICES ASSUME m + 1 <= Len(s)
                 PROVE  Len(FlattenSeq(SubSeq(s, 1, m + 1))) = p[(m + 1) + 1]
        OBVIOUS
    <2>1. m + 1 \in 1 .. Len(s) /\ m <= Len(s)  OBVIOUS
    <2> DEFINE u == SubSeq(s, 1, m)  x == s[m + 1]
    <2>2. u \in Seq(Seq(S)) /\ x \in Seq(S)  BY <2>1
    <2>3. SubSeq(s, 1, m + 1) = Append(u, x)
        <3>1. SubSeq(s, 1, m + 1) \in Seq(Seq(S)) /\ Append(u, x) \in Seq(Seq(S))  BY <2>1, <2>2
        <3>2. Len(SubSeq(s, 1, m + 1)) = m + 1 /\ Len(u) = m  BY <2>1
        <3>3. \A i \in 1 .. m + 1 : SubSeq(s, 1, m + 1)[i] = s[i]  BY <2>1
        <3>4. \A i \in 1 .. m + 1 : Append(u, x)[i] = s[i]  BY <2>1, <3>2
        <3>5. Len(Append(u, x)) = m + 1  BY <3>2
        <3> HIDE DEF u, x
        <3> QED BY <3>1, <3>2, <3>3, <3>4, <3>5, SeqEqual
    <2>4. FlattenSeq(SubSeq(s, 1, m + 1)) = FlattenSeq(u) \o x  BY <2>2, <2>3, FlattenAppend
    <2>5. FlattenSeq(u) \in Seq(S)  BY <2>2, Flattened
    <2>6. Len(FlattenSeq(u)) = p[m + 1]  BY <1>2, <2>1
    <2>7. p[(m + 1) + 1] = p[m + 1] + Len(x)  BY <2>1 DEF Places
    <2>8. Len(FlattenSeq(u) \o x) = Len(FlattenSeq(u)) + Len(x)
        <3> DEFINE f == FlattenSeq(u)
        <3>1. f \in Seq(S)  BY <2>5
        <3> HIDE DEF f, u, x
        <3> QED BY <2>2, <3>1 DEF f
    <2> QED BY <2>4, <2>6, <2>7, <2>8
<1>3. n \in T
    <2>1. n \in Nat  OBVIOUS
    <2> HIDE DEF T
    <2> QED BY <1>1, <1>2, <2>1, Induction
<1> QED BY <1>3

(* How a least element is recognised. *)
LEMMA MinIs ==
    ASSUME NEW T \in SUBSET Int, NEW x \in T, \A y \in T : x <= y
    PROVE  Min(T) = x
<1>1. Min(T) \in T /\ \A y \in T : Min(T) <= y  BY DEF Min
<1>2. Min(T) \in Int /\ x \in Int /\ x <= Min(T) /\ Min(T) <= x  BY <1>1
<1> HIDE DEF Min
<1> QED BY <1>2

(* How a greatest element is recognised. *)
LEMMA MaxIs ==
    ASSUME NEW T \in SUBSET Int, NEW x \in T, \A y \in T : y <= x
    PROVE  Max(T) = x
<1>1. Max(T) \in T /\ \A y \in T : Max(T) >= y  BY DEF Max
<1>2. Max(T) \in Int /\ x \in Int /\ x <= Max(T) /\ Max(T) <= x  BY <1>1
<1> HIDE DEF Max
<1> QED BY <1>2

(* A bounded set of numbers that is not empty has a greatest element. *)
LEMMA Greatest ==
    ASSUME NEW N \in Nat, NEW T \in SUBSET (0 .. N), T # {}
    PROVE  \E x \in T : \A y \in T : y <= x
<1> DEFINE U == {n \in Nat : \E x \in T : n = N - x}
<1>1. U \in SUBSET Nat /\ U # {}
    <2>1. PICK x \in T : TRUE  OBVIOUS
    <2>2. N - x \in U  BY <2>1
    <2> QED BY <2>2
<1>2. PICK n \in U : \A m \in U : n <= m
    <2> HIDE DEF U
    <2> QED BY <1>1, Least
<1>3. PICK x \in T : n = N - x  BY <1>2
<1>4. ASSUME NEW y \in T PROVE y <= x
    <2>1. N - y \in U  OBVIOUS
    <2>2. n <= N - y  BY <1>2, <2>1
    <2> QED BY <1>3, <2>2
<1> QED BY <1>4

(* Flattening from the front. *)
Prepends(S) ==
    \A x \in Seq(S), t \in Seq(Seq(S)) :
        /\ <<x>> \o t \in Seq(Seq(S))
        /\ FlattenSeq(<<x>> \o t) = x \o FlattenSeq(t)
        /\ \A i \in 1 .. Len(<<x>> \o t) :
              (<<x>> \o t)[i] = x \/ \E j \in 1 .. Len(t) : (<<x>> \o t)[i] = t[j]

(* It holds for the sequences over any set. *)
LEMMA FlattenCons == \A S : Prepends(S)
<1> SUFFICES ASSUME NEW S, NEW x \in Seq(S), NEW t \in Seq(Seq(S))
             PROVE  /\ <<x>> \o t \in Seq(Seq(S))
                    /\ FlattenSeq(<<x>> \o t) = x \o FlattenSeq(t)
                    /\ \A i \in 1 .. Len(<<x>> \o t) :
                          (<<x>> \o t)[i] = x \/ \E j \in 1 .. Len(t) : (<<x>> \o t)[i] = t[j]
    BY Zenon DEF Prepends
<1>1. <<x>> \in Seq(Seq(S)) /\ Len(<<x>>) = 1 /\ <<x>>[1] = x  OBVIOUS
<1>2. FlattenSeq(<<x>>) = x  BY FlattenOne
<1>3. FlattenSeq(<<x>> \o t) = FlattenSeq(<<x>>) \o FlattenSeq(t)  BY <1>1, FlattenConcat
<1> DEFINE h == <<x>>
<1> HIDE DEF h
<1>4. Joins(Seq(S))  BY Join, Zenon
<1>5. h \in Seq(Seq(S)) /\ Len(h) = 1 /\ h[1] = x  BY <1>1 DEF h
<1>6. /\ h \o t \in Seq(Seq(S)) /\ Len(h \o t) = Len(h) + Len(t)
      /\ \A i \in 1 .. Len(h) + Len(t) : (h \o t)[i] = IF i <= Len(h) THEN h[i] ELSE t[i - Len(h)]
    BY <1>4, <1>5, Zenon DEF Joins
<1>7. ASSUME NEW i \in 1 .. Len(h \o t)
      PROVE  (h \o t)[i] = x \/ \E j \in 1 .. Len(t) : (h \o t)[i] = t[j]
    <2>1. Len(t) \in Nat  OBVIOUS
    <2>2. i <= 1 => i = 1  BY <1>5, <1>6, <2>1
    <2>3. ~(i <= 1) => i - 1 \in 1 .. Len(t)  BY <1>5, <1>6, <2>1
    <2>4. (h \o t)[i] = IF i <= 1 THEN h[i] ELSE t[i - 1]  BY <1>5, <1>6
    <2> QED BY <1>5, <2>2, <2>3, <2>4, Zenon
<1> QED BY <1>2, <1>3, <1>6, <1>7 DEF h

(* A part of a sequence, cut in two. *)
LEMMA SplitAt ==
    ASSUME NEW S, NEW x \in Seq(S), NEW a \in Nat, NEW b \in Nat, NEW c \in Nat,
           a <= b, b <= c, c <= Len(x)
    PROVE  /\ SubSeq(x, a + 1, c) = SubSeq(x, a + 1, b) \o SubSeq(x, b + 1, c)
           /\ SubSeq(x, a + 1, c) \in Seq(S) /\ Len(SubSeq(x, a + 1, c)) = c - a
           /\ \A i \in 1 .. c - a : SubSeq(x, a + 1, c)[i] = x[a + i]
<1>1. \A p, q \in Nat : p <= q /\ q <= Len(x) =>
          /\ SubSeq(x, p + 1, q) \in Seq(S) /\ Len(SubSeq(x, p + 1, q)) = q - p
          /\ \A i \in 1 .. q - p : SubSeq(x, p + 1, q)[i] = x[p + i]
    OBVIOUS
<1> DEFINE u == SubSeq(x, a + 1, b)  v == SubSeq(x, b + 1, c)  w == SubSeq(x, a + 1, c)
<1>2. /\ u \in Seq(S) /\ Len(u) = b - a /\ \A i \in 1 .. b - a : u[i] = x[a + i]
      /\ v \in Seq(S) /\ Len(v) = c - b /\ \A i \in 1 .. c - b : v[i] = x[b + i]
      /\ w \in Seq(S) /\ Len(w) = c - a /\ \A i \in 1 .. c - a : w[i] = x[a + i]
    <2>1. b <= Len(x) /\ a <= c /\ Len(x) \in Nat  OBVIOUS
    <2> QED BY <1>1, <2>1
<1> HIDE DEF u, v, w
<1>3. /\ u \o v \in Seq(S) /\ Len(u \o v) = c - a
      /\ \A i \in 1 .. c - a : (u \o v)[i] = IF i <= b - a THEN u[i] ELSE v[i - (b - a)]
    <2>1. Joins(S)  BY Join, Zenon
    <2>2. /\ u \o v \in Seq(S) /\ Len(u \o v) = Len(u) + Len(v)
          /\ \A i \in 1 .. Len(u) + Len(v) :
                (u \o v)[i] = IF i <= Len(u) THEN u[i] ELSE v[i - Len(u)]
        BY <1>2, <2>1, Zenon DEF Joins
    <2> DEFINE y == u \o v
    <2> HIDE DEF y
    <2>3. Len(u) + Len(v) = c - a /\ Len(u) = b - a  BY <1>2
    <2> QED BY <2>2, <2>3
<1>4. ASSUME NEW i \in 1 .. c - a PROVE (u \o v)[i] = w[i]
    <2>1. CASE i <= b - a
        <3>1. i \in 1 .. b - a  BY <2>1
        <3> QED BY <1>2, <1>3, <2>1, <3>1
    <2>2. CASE ~(i <= b - a)
        <3>1. i - (b - a) \in 1 .. c - b /\ b + (i - (b - a)) = a + i  BY <2>2
        <3> QED BY <1>2, <1>3, <2>2, <3>1
    <2> QED BY <2>1, <2>2
<1>5. u \o v = w  BY <1>2, <1>3, <1>4, SeqEqual
<1> QED BY <1>2, <1>5 DEF u, v, w

(* What stands in the middle of three sequences. *)
LEMMA Middle ==
    ASSUME NEW S, NEW x, NEW a \in Seq(S), NEW b \in Seq(S), NEW c \in Seq(S), x = (a \o b) \o c
    PROVE  /\ x \in Seq(S) /\ Len(x) = (Len(a) + Len(b)) + Len(c)
           /\ \A i \in 1 .. Len(b) : Len(a) + i \in 1 .. Len(x) /\ x[Len(a) + i] = b[i]
<1>1. Joins(S)  BY Join, Zenon
<1> DEFINE y == a \o b
<1>2. /\ y \in Seq(S) /\ Len(y) = Len(a) + Len(b)
      /\ \A i \in 1 .. Len(a) + Len(b) : y[i] = IF i <= Len(a) THEN a[i] ELSE b[i - Len(a)]
    BY <1>1, Zenon DEF Joins
<1> HIDE DEF y
<1>3. /\ y \o c \in Seq(S) /\ Len(y \o c) = Len(y) + Len(c)
      /\ \A i \in 1 .. Len(y) + Len(c) : (y \o c)[i] = IF i <= Len(y) THEN y[i] ELSE c[i - Len(y)]
    BY <1>1, <1>2, Zenon DEF Joins
<1>4. x = y \o c  BY DEF y
<1> DEFINE z == y \o c
<1>5. /\ z \in Seq(S) /\ Len(z) = Len(y) + Len(c)
      /\ \A i \in 1 .. Len(y) + Len(c) : z[i] = IF i <= Len(y) THEN y[i] ELSE c[i - Len(y)]
    BY <1>3
<1>6. x = z  BY <1>4
<1> HIDE DEF z
<1>7. Len(a) \in Nat /\ Len(b) \in Nat /\ Len(c) \in Nat  OBVIOUS
<1>8. ASSUME NEW i \in 1 .. Len(b) PROVE Len(a) + i \in 1 .. Len(x) /\ x[Len(a) + i] = b[i]
    <2>1. Len(a) + i \in 1 .. Len(a) + Len(b) /\ ~(Len(a) + i <= Len(a)) /\ (Len(a) + i) - Len(a) = i
        BY <1>7
    <2>2. y[Len(a) + i] = b[i]  BY <1>2, <2>1
    <2>3. Len(a) + i \in 1 .. Len(y) + Len(c) /\ Len(a) + i <= Len(y)  BY <1>2, <1>7, <2>1
    <2> QED BY <1>5, <1>6, <2>2, <2>3
<1> QED BY <1>2, <1>5, <1>6, <1>8

(* Flattening nothing, over whatever set. *)
LEMMA FlattenNone == FlattenSeq(<<>>) = <<>>
<1>1. <<>> \in Seq({})  OBVIOUS
<1> QED BY <1>1, FlattenOne
=============================================================================
