-------------------------- MODULE Tokenizer_proof --------------------------
(***************************************************************************)
(* Proofs about the tokenizer, for every vocabulary, table of merges and   *)
(* text: the tables in memory are those the converter wrote; Encode keeps  *)
(* every byte of the text; special tokens stay whole; it throws only if    *)
(* the vocabulary is incomplete; PreTokenize cuts where the pattern of     *)
(* Qwen does; and the rounds of merges are byte-pair encoding.             *)
(*                                                                         *)
(* The loops of the code are recursive functions of the model.  What one   *)
(* computes for every input is proved in two steps: a function that        *)
(* satisfies the recursive equation exists (by induction over the part of  *)
(* its domain where it is already defined), and the equation then gives    *)
(* the result place by place.  That Encode's loop as a whole keeps its     *)
(* promises is an inductive invariant over its steps (TextInv).            *)
(*                                                                         *)
(* Byte-pair encoding merges one pair at a time.  A round of Encode is a   *)
(* run of such merges: merging one occurrence of the pair of lowest rank   *)
(* makes no pair of a lower rank, since a merge that takes its product     *)
(* was learnt later, so the next occurrence comes next (RoundReplayed).    *)
(***************************************************************************)
EXTENDS Tokenizer, Lemmas_proof

-----------------------------------------------------------------------------
(***************************************************************************)
(* The byte alphabet.                                                      *)
(***************************************************************************)
(* The bytes below b that have no place of their own. *)
Moved(b) == {c \in Byte : c < b /\ c \notin Direct}

(* What the loop of ByteDecoder carries: the table and the letters handed out. *)
Tables == [decoder : [0 .. 511 -> Int], extra : Nat]

DirectTable == [decoder |-> [c \in 0 .. 511 |-> IF c \in Direct THEN c ELSE -1], extra |-> 0]

(* The table once byte b has been looked at. *)
Placed(before, b) ==
    IF b \in Direct THEN before
    ELSE [decoder |-> [before.decoder EXCEPT ![256 + before.extra] = b], extra |-> before.extra + 1]

(* F[b] is what the loop has built before it looks at byte b. *)
Places256(F) == F = [b \in 0 .. 256 |-> IF b = 0 THEN DirectTable ELSE Placed(F[b - 1], b - 1)]

(* The loop over the 256 bytes has a result, and ByteDecoder is its table. *)
LEMMA DecoderDefined == \E F : Places256(F) /\ ByteDecoder = F[256].decoder
<1> DEFINE Is(F, n) == F = [b \in 0 .. n |-> IF b = 0 THEN DirectTable ELSE Placed(F[b - 1], b - 1)]
           T == {n \in Nat : \E F : Is(F, n)}
<1>1. 0 \in T
    <2> DEFINE F == [b \in 0 .. 0 |-> DirectTable]
    <2>1. \A b \in 0 .. 0 : b = 0  OBVIOUS
    <2>2. F = [b \in 0 .. 0 |-> IF b = 0 THEN DirectTable ELSE Placed(F[b - 1], b - 1)]
        <3> HIDE DEF DirectTable, Placed
        <3> QED BY <2>1
    <2>3. Is(F, 0)  BY <2>2
    <2> HIDE DEF Is, F
    <2> QED BY <2>3
<1>2. ASSUME NEW n \in Nat, n \in T PROVE n + 1 \in T
    <2>1. PICK F : Is(F, n)
        <3> HIDE DEF Is
        <3> QED BY <1>2
    <2> DEFINE G == [b \in 0 .. n + 1 |-> IF b <= n THEN F[b] ELSE Placed(F[b - 1], b - 1)]
    <2>2. \A b \in 0 .. n : F[b] = IF b = 0 THEN DirectTable ELSE Placed(F[b - 1], b - 1)
        BY <2>1, Zenon
    <2>3. \A b \in 0 .. n + 1 : G[b] = IF b = 0 THEN DirectTable ELSE Placed(G[b - 1], b - 1)
        <3> TAKE b \in 0 .. n + 1
        <3>1. G[b] = IF b = 0 THEN DirectTable ELSE Placed(F[b - 1], b - 1)
            <4>1. b <= n => b \in 0 .. n  OBVIOUS
            <4>2. ~(b <= n) => b # 0  OBVIOUS
            <4>3. G[b] = IF b <= n THEN F[b] ELSE Placed(F[b - 1], b - 1)  BY Zenon
            <4> HIDE DEF G
            <4> QED BY <2>2, <4>1, <4>2, <4>3
        <3>2. b # 0 => G[b - 1] = F[b - 1]
            <4>1. b # 0 => b - 1 \in 0 .. n + 1 /\ b - 1 <= n  OBVIOUS
            <4>2. \A i \in 0 .. n + 1 : G[i] = IF i <= n THEN F[i] ELSE Placed(F[i - 1], i - 1)
                BY Zenon
            <4> HIDE DEF G
            <4> QED BY <4>1, <4>2
        <3> HIDE DEF G
        <3> QED BY <3>1, <3>2, Zenon
    <2>4. Is(G, n + 1)
        <3>1. G = [b \in 0 .. n + 1 |-> G[b]]  BY Zenon
        <3> HIDE DEF G
        <3>2. [b \in 0 .. n + 1 |-> G[b]]
                = [b \in 0 .. n + 1 |-> IF b = 0 THEN DirectTable ELSE Placed(G[b - 1], b - 1)]
            BY <2>3, Zenon
        <3> QED BY <3>1, <3>2, Zenon
    <2> HIDE DEF Is, G
    <2> QED BY <2>4
<1>3. PICK F : Is(F, 256)
    <2>1. 256 \in T
        <3> HIDE DEF T
        <3> QED BY <1>1, <1>2, Induction
    <2> HIDE DEF Is
    <2> QED BY <2>1
<1>4. \E G : Is(G, 256)
    <2> HIDE DEF Is
    <2> QED BY <1>3
<1>5. ByteDecoder = (CHOOSE G : Is(G, 256))[256].decoder
    BY Zenon DEF ByteDecoder, DirectTable, Placed
<1>6. Is(CHOOSE G : Is(G, 256), 256)
    <2> HIDE DEF Is
    <2> QED BY <1>4
<1>7. \E G : Is(G, 256) /\ ByteDecoder = G[256].decoder
    <2> HIDE DEF Is
    <2> QED BY <1>5, <1>6
<1> QED BY <1>7, Zenon DEF Places256

(***************************************************************************)
(* Every byte is read back from its letter: the alphabet of convert.py and *)
(* the table of tokenizer.cpp are each other's inverse.                    *)
(***************************************************************************)
LEMMA AlphabetInverts ==
    \A b \in Byte : BytesToUnicode[b] \in 0 .. 511 /\ ByteDecoder[BytesToUnicode[b]] = b
<1>1. PICK F : Places256(F) /\ ByteDecoder = F[256].decoder  BY DecoderDefined
<1>2. \A b \in 0 .. 256 : F[b] = IF b = 0 THEN DirectTable ELSE Placed(F[b - 1], b - 1)
    BY <1>1, Zenon DEF Places256
<1> DEFINE extra(b) == Cardinality(Moved(b))
           Good(b) ==
             /\ IsFiniteSet(Moved(b)) /\ extra(b) <= b /\ F[b] \in Tables /\ F[b].extra = extra(b)
             /\ \A c \in Direct : F[b].decoder[c] = c
             /\ \A c \in Moved(b) : extra(c) \in Nat /\ extra(c) < extra(b)
                                    /\ F[b].decoder[256 + extra(c)] = c
           T == {b \in Nat : b <= 256 => Good(b)}
<1>3. 0 \in T
    <2>1. Moved(0) = {}  BY DEF Moved, Byte
    <2>2. F[0] = DirectTable
        <3>1. 0 \in 0 .. 256  OBVIOUS
        <3> QED BY <1>2, <3>1
    <2>3. \A c \in Direct : c \in 0 .. 511  BY DEF Direct
    <2>4. DirectTable \in Tables /\ DirectTable.extra = 0
          /\ \A c \in Direct : DirectTable.decoder[c] = c
        BY <2>3 DEF DirectTable, Tables
    <2>5. IsFiniteSet(Moved(0)) /\ extra(0) = 0  BY <2>1, FS_EmptySet
    <2> QED BY <2>1, <2>2, <2>4, <2>5
<1>4. ASSUME NEW b \in Nat, b \in T PROVE b + 1 \in T
    <2> SUFFICES ASSUME b + 1 <= 256 PROVE Good(b + 1)
        <3> HIDE DEF Good
        <3> QED OBVIOUS
    <2>1. Good(b) /\ b \in Byte
        <3>1. b <= 256 /\ b \in Byte  BY DEF Byte
        <3> HIDE DEF Good
        <3> QED BY <1>4, <3>1
    <2>2. F[b + 1] = Placed(F[b], b)
        <3>1. b + 1 \in 0 .. 256 /\ b + 1 # 0 /\ (b + 1) - 1 = b  OBVIOUS
        <3> QED BY <1>2, <3>1
    <2>3. CASE b \in Direct
        <3>1. Moved(b + 1) = Moved(b)
            <4>1. \A c \in Byte : c < b + 1 /\ c \notin Direct <=> c < b /\ c \notin Direct
                BY <2>3 DEF Byte
            <4> QED BY <4>1, Zenon DEF Moved
        <3>2. F[b + 1] = F[b]  BY <2>2, <2>3 DEF Placed
        <3>3. \A n \in Nat : n <= b => n <= b + 1  OBVIOUS
        <3>4. extra(b) \in Nat  BY <2>1 DEF Tables
        <3> HIDE DEF Tables
        <3> QED BY <2>1, <3>1, <3>2, <3>3, <3>4
    <2>4. CASE b \notin Direct
        <3>1. Moved(b + 1) = Moved(b) \cup {b} /\ b \notin Moved(b)
            <4>1. \A c \in Byte : c < b + 1 /\ c \notin Direct <=> (c < b /\ c \notin Direct) \/ c = b
                BY <2>4 DEF Byte
            <4>2. ~(b < b)  OBVIOUS
            <4> QED BY <2>1, <4>1, <4>2 DEF Moved
        <3>2. IsFiniteSet(Moved(b + 1)) /\ extra(b + 1) = extra(b) + 1
            BY <2>1, <3>1, FS_AddElement
        <3> DEFINE x == extra(b)
        <3>3. x \in 0 .. 255
            <4>1. F[b].extra \in Nat /\ F[b].extra = x /\ x <= b  BY <2>1 DEF Tables
            <4> HIDE DEF x
            <4> QED BY <4>1
        <3> DEFINE d == F[b].decoder  e == [d EXCEPT ![256 + x] = b]
        <3>4. F[b + 1] = [decoder |-> e, extra |-> x + 1]
            BY <2>1, <2>2, <2>4 DEF Placed
        <3>5. d \in [0 .. 511 -> Int]  BY <2>1 DEF Tables
        <3>6. /\ e \in [0 .. 511 -> Int] /\ e[256 + x] = b
              /\ \A c \in 0 .. 511 : c # 256 + x => e[c] = d[c]
            <4>1. 256 + x \in 0 .. 511  BY <3>3
            <4> HIDE DEF d
            <4> QED BY <3>5, <4>1, SMTT(40)
        <3>7. \A c \in Direct : e[c] = c
            <4>1. \A c \in Direct : c \in 0 .. 511 /\ c < 256  BY DEF Direct
            <4>2. \A c \in Direct : d[c] = c  BY <2>1
            <4> HIDE DEF d, e, x
            <4>3. \A c \in Direct : c # 256 + x  BY <3>3, <4>1
            <4> QED BY <3>6, <4>1, <4>2, <4>3
        <3>8. ASSUME NEW c \in Moved(b)
              PROVE  extra(c) \in Nat /\ extra(c) < x + 1 /\ e[256 + extra(c)] = c
            <4>1. extra(c) \in Nat /\ extra(c) < x /\ d[256 + extra(c)] = c  BY <2>1
            <4>2. 256 + extra(c) \in 0 .. 511 /\ 256 + extra(c) # 256 + x  BY <3>3, <4>1
            <4> HIDE DEF d, e
            <4> QED BY <3>3, <3>6, <4>1, <4>2, SMTT(40)
        <3>9. F[b + 1] \in Tables /\ F[b + 1].extra = x + 1 /\ F[b + 1].decoder = e
            <4>1. x + 1 \in Nat  BY <3>3
            <4> HIDE DEF e, x
            <4>2. e \in [0 .. 511 -> Int]  BY <3>6
            <4>3. [decoder |-> e, extra |-> x + 1] \in Tables  BY <4>1, <4>2 DEF Tables
            <4> QED BY <3>4, <4>3
        <3>10. \A c \in Moved(b + 1) : extra(c) \in Nat /\ extra(c) < x + 1
                                       /\ e[256 + extra(c)] = c
            <4>1. extra(b) \in Nat /\ extra(b) < x + 1 /\ extra(b) = x  BY <3>3
            <4>2. e[256 + extra(b)] = b  BY <3>6
            <4> HIDE DEF e, x
            <4>3. \A c \in Moved(b + 1) : c \in Moved(b) \/ c = b  BY <3>1
            <4> HIDE DEF extra
            <4> QED BY <3>8, <4>1, <4>2, <4>3, Zenon
        <3>11. x + 1 <= b + 1  BY <2>1, <3>3
        <3> HIDE DEF e, d
        <3> QED BY <3>2, <3>7, <3>9, <3>10, <3>11
    <2> HIDE DEF Good
    <2> QED BY <2>3, <2>4
<1>5. Good(256)
    <2>1. 256 \in T
        <3> HIDE DEF T
        <3> QED BY <1>3, <1>4, Induction
    <2> HIDE DEF Good
    <2> QED BY <2>1
<1> SUFFICES ASSUME NEW b \in Byte
             PROVE  BytesToUnicode[b] \in 0 .. 511 /\ ByteDecoder[BytesToUnicode[b]] = b
    OBVIOUS
<1>6. BytesToUnicode[b] = IF b \in Direct THEN b ELSE 256 + extra(b)
    BY DEF BytesToUnicode, Moved
<1>7. CASE b \in Direct
    BY <1>1, <1>5, <1>6, <1>7 DEF Byte
<1>8. CASE b \notin Direct
    <2>1. b \in Moved(256)  BY <1>8 DEF Moved, Byte
    <2>2. extra(b) \in Nat /\ extra(b) < extra(256) /\ F[256].decoder[256 + extra(b)] = b
        BY <1>5, <2>1
    <2>3. extra(256) \in Nat /\ extra(256) <= 256  BY <1>5 DEF Tables
    <2> QED BY <1>1, <1>6, <1>8, <2>2, <2>3
<1> QED BY <1>7, <1>8

(* A side of a merge is read back as it was. *)
LEMMA MergesSurvive ==
    ASSUME NEW s \in Seq(Byte)
    PROVE  DecodeByteAlphabet(InAlphabet(s)) = s
<1> DEFINE a == InAlphabet(s)  n == Len(s)
<1>1. n \in Nat /\ \A i \in 1 .. n : s[i] \in Byte  OBVIOUS
<1>2. a = [i \in 1 .. n |-> BytesToUnicode[s[i]]]  BY DEF InAlphabet
<1>3. a \in Seq(0 .. 511) /\ Len(a) = n
    <2>1. \A i \in 1 .. n : BytesToUnicode[s[i]] \in 0 .. 511  BY <1>1, AlphabetInverts
    <2> HIDE DEF a, n
    <2> QED BY <1>1, <1>2, <2>1
<1>4. DecodeByteAlphabet(a) = [i \in 1 .. n |-> ByteDecoder[a[i]]]
    <2> HIDE DEF a, n
    <2> QED BY <1>3 DEF DecodeByteAlphabet
<1>5. \A i \in 1 .. n : ByteDecoder[a[i]] = s[i]
    <2>1. \A i \in 1 .. n : a[i] = BytesToUnicode[s[i]]
        <3> HIDE DEF a, n
        <3> QED BY <1>2, Zenon
    <2> HIDE DEF a, n
    <2> QED BY <1>1, <2>1, AlphabetInverts
<1>6. s = [i \in 1 .. n |-> s[i]]  OBVIOUS
<1>7. [i \in 1 .. n |-> ByteDecoder[a[i]]] = [i \in 1 .. n |-> s[i]]
    <2> HIDE DEF a, n
    <2> QED BY <1>5, Zenon
<1> QED BY <1>4, <1>6, <1>7, Zenon

-----------------------------------------------------------------------------
(***************************************************************************)
(* The table of tokens.                                                    *)
(***************************************************************************)
(* How a byte is written, and a token byte by byte. *)
EscapeOf(b) == IF b = 7 THEN <<7, 7>> ELSE IF b = 0 THEN <<7, 8>> ELSE <<b>>
Escapes(s) == [n \in 1 .. Len(s) |-> EscapeOf(s[n])]

(* A byte is written as one byte or as two. *)
LEMMA EscapesType ==
    /\ \A b \in Byte : EscapeOf(b) \in Seq(Byte) /\ Len(EscapeOf(b)) \in {1, 2}
    /\ \A s \in Seq(Byte) : Escapes(s) \in Seq(Seq(Byte)) /\ Len(Escapes(s)) = Len(s)
<1>1. \A b \in Byte : EscapeOf(b) \in Seq(Byte) /\ Len(EscapeOf(b)) \in {1, 2}
    <2>1. 7 \in Byte /\ 8 \in Byte  BY DEF Byte
    <2>2. <<7, 7>> \in Seq(Byte) /\ <<7, 8>> \in Seq(Byte)  BY <2>1
    <2>3. \A b \in Byte : <<b>> \in Seq(Byte) /\ Len(<<b>>) = 1  OBVIOUS
    <2>4. Len(<<7, 7>>) = 2 /\ Len(<<7, 8>>) = 2  OBVIOUS
    <2> QED BY <2>2, <2>3, <2>4 DEF EscapeOf
<1> HIDE DEF EscapeOf
<1> QED BY <1>1 DEF Escapes

(* bytes.replace goes byte by byte. *)
LEMMA ReplaceConcat ==
    ASSUME NEW b, NEW by \in Seq(Byte)
    PROVE  /\ \A s \in Seq(Byte) : ReplaceByte(s, b, by) \in Seq(Byte)
           /\ \A s, t \in Seq(Byte) :
                 ReplaceByte(s \o t, b, by) = ReplaceByte(s, b, by) \o ReplaceByte(t, b, by)
           /\ \A c \in Byte : ReplaceByte(<<c>>, b, by) = IF c = b THEN by ELSE <<c>>
<1> DEFINE code(c) == IF c = b THEN by ELSE <<c>>
           M(s) == [n \in 1 .. Len(s) |-> code(s[n])]
<1>1. \A c \in Byte : code(c) \in Seq(Byte)  OBVIOUS
<1>2. \A s : ReplaceByte(s, b, by) = FlattenSeq(M(s))  BY DEF ReplaceByte
<1> HIDE DEF code
<1>3. \A s \in Seq(Byte) : M(s) \in Seq(Seq(Byte)) /\ Len(M(s)) = Len(s)
                           /\ \A i \in 1 .. Len(s) : M(s)[i] = code(s[i])
    BY <1>1
<1>4. \A s, t \in Seq(Byte) : M(s \o t) = M(s) \o M(t)
    <2> SUFFICES ASSUME NEW s \in Seq(Byte), NEW t \in Seq(Byte) PROVE M(s \o t) = M(s) \o M(t)
        OBVIOUS
    <2>1. s \o t \in Seq(Byte) /\ Len(s \o t) = Len(s) + Len(t)  OBVIOUS
    <2>2. \A i \in 1 .. Len(s) + Len(t) : (s \o t)[i] = IF i <= Len(s) THEN s[i] ELSE t[i - Len(s)]
        OBVIOUS
    <2> DEFINE a == M(s)  d == M(t)  e == M(s \o t)
    <2>3. /\ a \in Seq(Seq(Byte)) /\ d \in Seq(Seq(Byte)) /\ e \in Seq(Seq(Byte))
          /\ Len(a) = Len(s) /\ Len(d) = Len(t) /\ Len(e) = Len(s) + Len(t)
          /\ \A i \in 1 .. Len(s) : a[i] = code(s[i])
          /\ \A i \in 1 .. Len(t) : d[i] = code(t[i])
          /\ \A i \in 1 .. Len(s) + Len(t) : e[i] = code((s \o t)[i])
        <3> HIDE DEF M
        <3> QED BY <1>3, <2>1
    <2> HIDE DEF a, d, e
    <2>4. Len(s) \in Nat /\ Len(t) \in Nat  OBVIOUS
    <2>5. /\ a \o d \in Seq(Seq(Byte)) /\ Len(a \o d) = Len(s) + Len(t)
          /\ \A i \in 1 .. Len(s) + Len(t) :
                (a \o d)[i] = IF i <= Len(s) THEN a[i] ELSE d[i - Len(s)]
        <3>1. /\ a \o d \in Seq(Seq(Byte)) /\ Len(a \o d) = Len(a) + Len(d)
              /\ \A i \in 1 .. Len(a) + Len(d) :
                    (a \o d)[i] = IF i <= Len(a) THEN a[i] ELSE d[i - Len(a)]
            <4>1. Joins(Seq(Byte))  BY Join, Zenon
            <4> QED BY <2>3, <4>1, Zenon DEF Joins
        <3> QED BY <2>3, <3>1, Zenon
    <2>6. ASSUME NEW i \in 1 .. Len(s) + Len(t) PROVE (a \o d)[i] = e[i]
        <3>1. i <= Len(s) => i \in 1 .. Len(s)  BY <2>4
        <3>2. ~(i <= Len(s)) => i - Len(s) \in 1 .. Len(t)  BY <2>4
        <3> QED BY <2>2, <2>3, <2>5, <3>1, <3>2
    <2>7. a \o d = e  BY <2>3, <2>5, <2>6, SeqEqual
    <2> QED BY <2>7 DEF a, d, e
<1>5. \A c \in Byte : M(<<c>>) = <<code(c)>>
    OBVIOUS
<1> HIDE DEF M
<1>6. \A s \in Seq(Byte) : ReplaceByte(s, b, by) \in Seq(Byte)
    <2> TAKE s \in Seq(Byte)
    <2>1. M(s) \in Seq(Seq(Byte))  BY <1>3
    <2>2. FlattenSeq(M(s)) \in Seq(Byte)  BY <2>1, Flattened
    <2> QED BY <1>2, <2>2
<1>7. \A s, t \in Seq(Byte) :
         ReplaceByte(s \o t, b, by) = ReplaceByte(s, b, by) \o ReplaceByte(t, b, by)
    <2> TAKE s, t \in Seq(Byte)
    <2>1. M(s) \in Seq(Seq(Byte)) /\ M(t) \in Seq(Seq(Byte))  BY <1>3
    <2>2. FlattenSeq(M(s) \o M(t)) = FlattenSeq(M(s)) \o FlattenSeq(M(t))  BY <2>1, FlattenConcat
    <2>3. ReplaceByte(s \o t, b, by) = FlattenSeq(M(s \o t))  BY <1>2
    <2>4. ReplaceByte(s, b, by) = FlattenSeq(M(s)) /\ ReplaceByte(t, b, by) = FlattenSeq(M(t))
        BY <1>2
    <2>5. M(s \o t) = M(s) \o M(t)  BY <1>4
    <2> QED BY <2>2, <2>3, <2>4, <2>5, Zenon
<1>8. \A c \in Byte : ReplaceByte(<<c>>, b, by) = code(c)
    <2> TAKE c \in Byte
    <2>1. FlattenSeq(<<code(c)>>) = code(c)  BY <1>1, FlattenOne
    <2> QED BY <1>2, <1>5, <2>1, Zenon
<1> QED BY <1>6, <1>7, <1>8 DEF code

(***************************************************************************)
(* The two replacements in a row escape each byte on its own: the second   *)
(* touches nothing that the first has written.                             *)
(***************************************************************************)
LEMMA EscapedBytes ==
    ASSUME NEW s \in Seq(Byte)
    PROVE  Escaped(s) = FlattenSeq(Escapes(s))
<1> DEFINE A(u) == ReplaceByte(u, 7, <<7, 7>>)  B(u) == ReplaceByte(u, 0, <<7, 8>>)
           T == {n \in Nat : \A u \in Seq(Byte) : Len(u) = n => B(A(u)) = FlattenSeq(Escapes(u))}
<1>1. <<7, 7>> \in Seq(Byte) /\ <<7, 8>> \in Seq(Byte) /\ 7 \in Byte /\ 0 \in Byte
    BY DEF Byte
<1>2. /\ \A u \in Seq(Byte) : A(u) \in Seq(Byte) /\ B(u) \in Seq(Byte)
      /\ \A u, v \in Seq(Byte) : A(u \o v) = A(u) \o A(v) /\ B(u \o v) = B(u) \o B(v)
      /\ \A c \in Byte : A(<<c>>) = IF c = 7 THEN <<7, 7>> ELSE <<c>>
      /\ \A c \in Byte : B(<<c>>) = IF c = 0 THEN <<7, 8>> ELSE <<c>>
    <2>1. /\ \A u \in Seq(Byte) : A(u) \in Seq(Byte)
          /\ \A u, v \in Seq(Byte) : A(u \o v) = A(u) \o A(v)
          /\ \A c \in Byte : A(<<c>>) = IF c = 7 THEN <<7, 7>> ELSE <<c>>
        BY <1>1, ReplaceConcat, ZenonT(40)
    <2>2. /\ \A u \in Seq(Byte) : B(u) \in Seq(Byte)
          /\ \A u, v \in Seq(Byte) : B(u \o v) = B(u) \o B(v)
          /\ \A c \in Byte : B(<<c>>) = IF c = 0 THEN <<7, 8>> ELSE <<c>>
        BY <1>1, ReplaceConcat, ZenonT(40)
    <2> HIDE DEF A, B
    <2> QED BY <2>1, <2>2
<1> HIDE DEF A, B
<1>0. \A x \in Seq(Byte) : x \o x = x => x = <<>>
    <2> TAKE x \in Seq(Byte)
    <2>1. Len(x \o x) = Len(x) + Len(x) /\ Len(x) \in Nat  OBVIOUS
    <2> QED BY <2>1
<1>3. \A c \in Byte : B(A(<<c>>)) = EscapeOf(c)
    <2> TAKE c \in Byte
    <2>1. <<7>> \in Seq(Byte) /\ <<7>> \o <<7>> = <<7, 7>>
        <3> DEFINE x == <<7>>  y == x \o x  z == <<7, 7>>
        <3>1. x \in Seq(Byte) /\ Len(x) = 1 /\ x[1] = 7  BY <1>1
        <3>2. z \in Seq(Byte) /\ Len(z) = 2 /\ z[1] = 7 /\ z[2] = 7  BY <1>1
        <3> HIDE DEF x, z
        <3>3. y \in Seq(Byte) /\ Len(y) = 2 /\ y[1] = 7 /\ y[2] = 7
            <4>1. Joins(Byte)  BY Join, Zenon
            <4>2. /\ y \in Seq(Byte) /\ Len(y) = Len(x) + Len(x)
                  /\ \A i \in 1 .. Len(x) + Len(x) : y[i] = IF i <= Len(x) THEN x[i] ELSE x[i - Len(x)]
                BY <3>1, <4>1, Zenon DEF Joins
            <4> HIDE DEF y
            <4> QED BY <3>1, <4>2
        <3> HIDE DEF y
        <3>4. \A i \in 1 .. 2 : i = 1 \/ i = 2  OBVIOUS
        <3>5. y = z  BY <3>2, <3>3, <3>4, SeqEqual
        <3> QED BY <3>1, <3>5 DEF x, y, z
    <2>2. B(<<7, 7>>) = B(<<7>>) \o B(<<7>>)  BY <1>2, <2>1
    <2>3. B(<<7>>) = <<7>>
        <3>1. B(<<7>>) = IF 7 = 0 THEN <<7, 8>> ELSE <<7>>  BY <1>1, <1>2, Zenon
        <3> QED BY <3>1
    <2>4. B(<<7, 7>>) = <<7, 7>>  BY <2>1, <2>2, <2>3
    <2> QED BY <1>2, <2>4 DEF EscapeOf
<1>4. 0 \in T
    <2> SUFFICES ASSUME NEW u \in Seq(Byte), Len(u) = 0 PROVE B(A(u)) = FlattenSeq(Escapes(u))
        OBVIOUS
    <2>1. u = <<>> /\ u \o u = u  OBVIOUS
    <2>2. FlattenSeq(Escapes(u)) = <<>>
        <3>1. Escapes(u) = <<>>  BY <2>1 DEF Escapes
        <3> QED BY <3>1, FlattenOne, Zenon
    <2>3. A(u) = <<>>
        <3>1. A(u) \o A(u) = A(u) /\ A(u) \in Seq(Byte)
            <4>1. A(u \o u) = A(u) \o A(u) /\ A(u) \in Seq(Byte)  BY <1>2, Zenon
            <4> QED BY <2>1, <4>1, Zenon
        <3> QED BY <1>0, <3>1, Zenon
    <2>4. B(u) = <<>>
        <3>1. B(u) \o B(u) = B(u) /\ B(u) \in Seq(Byte)
            <4>1. B(u \o u) = B(u) \o B(u) /\ B(u) \in Seq(Byte)  BY <1>2, Zenon
            <4> QED BY <2>1, <4>1, Zenon
        <3> QED BY <1>0, <3>1, Zenon
    <2> QED BY <2>1, <2>2, <2>3, <2>4
<1>5. ASSUME NEW n \in Nat, n \in T PROVE n + 1 \in T
    <2> SUFFICES ASSUME NEW u \in Seq(Byte), Len(u) = n + 1
                 PROVE  B(A(u)) = FlattenSeq(Escapes(u))
        OBVIOUS
    <2>1. PICK v \in Seq(Byte), c \in Byte : u = Append(v, c)
        <3>1. u # <<>>  OBVIOUS
        <3> QED BY <3>1, SequenceEmptyOrAppend
    <2>2. Len(v) = n /\ u = v \o <<c>> /\ <<c>> \in Seq(Byte)
        <3>1. u = v \o <<c>>  BY <2>1, AppendIsConcat
        <3> QED BY <2>1, <3>1
    <2>3. A(u) = A(v) \o A(<<c>>)  BY <1>2, <2>2
    <2>4. B(A(u)) = B(A(v)) \o EscapeOf(c)
        <3>1. A(v) \in Seq(Byte) /\ A(<<c>>) \in Seq(Byte)  BY <1>2, <2>2
        <3>2. B(A(v) \o A(<<c>>)) = B(A(v)) \o B(A(<<c>>))  BY <1>2, <3>1, Zenon
        <3> QED BY <1>3, <2>3, <3>2
    <2>5. Escapes(u) = Append(Escapes(v), EscapeOf(c))
        <3>1. /\ Escapes(u) \in Seq(Seq(Byte)) /\ Escapes(v) \in Seq(Seq(Byte))
              /\ EscapeOf(c) \in Seq(Byte) /\ Len(Escapes(u)) = n + 1 /\ Len(Escapes(v)) = n
            BY <2>2, EscapesType
        <3>2. \A i \in 1 .. n + 1 : Escapes(u)[i] = EscapeOf(u[i])  BY DEF Escapes
        <3>3. \A i \in 1 .. n : Escapes(v)[i] = EscapeOf(v[i])  BY <2>2 DEF Escapes
        <3>4. \A i \in 1 .. n + 1 : u[i] = IF i <= n THEN v[i] ELSE c  BY <2>1, <2>2
        <3> DEFINE x == EscapeOf(c)  a == Escapes(u)  d == Escapes(v)
        <3>5. \A i \in 1 .. n : i \in 1 .. n + 1 /\ i <= n  OBVIOUS
        <3>6. \A i \in 1 .. n + 1 : a[i] = IF i <= n THEN d[i] ELSE x
            <4> TAKE i \in 1 .. n + 1
            <4>1. i <= n => i \in 1 .. n  OBVIOUS
            <4> QED BY <3>2, <3>3, <3>4, <4>1, Zenon
        <3> HIDE DEF x, a, d
        <3>7. /\ a \in Seq(Seq(Byte)) /\ d \in Seq(Seq(Byte)) /\ x \in Seq(Byte)
              /\ Len(a) = n + 1 /\ Len(d) = n
            BY <3>1 DEF x, a, d
        <3>8. /\ Append(d, x) \in Seq(Seq(Byte)) /\ Len(Append(d, x)) = n + 1
              /\ \A i \in 1 .. n + 1 : Append(d, x)[i] = IF i <= n THEN d[i] ELSE x
            BY <3>7
        <3>9. a = Append(d, x)  BY <3>6, <3>7, <3>8, SeqEqual
        <3> QED BY <3>9 DEF a, d, x
    <2>6. FlattenSeq(Escapes(u)) = FlattenSeq(Escapes(v)) \o EscapeOf(c)
        <3>1. Escapes(v) \in Seq(Seq(Byte)) /\ EscapeOf(c) \in Seq(Byte)  BY EscapesType
        <3> QED BY <2>5, <3>1, FlattenAppend
    <2>7. B(A(v)) = FlattenSeq(Escapes(v))  BY <1>5, <2>2
    <2> QED BY <2>4, <2>6, <2>7
<1>6. Len(s) \in T
    <2>1. Len(s) \in Nat  OBVIOUS
    <2> HIDE DEF T
    <2> QED BY <1>4, <1>5, <2>1, Induction
<1>7. Escaped(s) = B(A(s))  BY DEF Escaped, A, B
<1> QED BY <1>6, <1>7

(* Unescaped is a scan: at a 7 with a 7 or an 8 after it, of two bytes. *)
Paired(s, n) == s[n] = 7 /\ n < Len(s) /\ s[n + 1] \in {7, 8}

ReadByte(s, n) == IF s[n] # 7 THEN s[n] ELSE IF Paired(s, n) /\ s[n + 1] = 7 THEN 7 ELSE 0

ByteHeads(s) == [n \in 1 .. Len(s) |-> <<ReadByte(s, n)>>]

ByteSteps(s) == [n \in 1 .. Len(s) |-> IF Paired(s, n) THEN 2 ELSE 1]

(* LoadVocabulary's loop, as such a scan. *)
LEMMA UnescapeScans ==
    ASSUME NEW s \in Seq(Byte)
    PROVE  \E F : Scans(F, Len(s), ByteHeads(s), ByteSteps(s)) /\ Unescaped(s) = F[1]
<1> DEFINE L == Len(s)  head == ByteHeads(s)  step == ByteSteps(s)
           body(F, n) == IF n > Len(s) THEN <<>>
                         ELSE IF s[n] # 7 THEN <<s[n]>> \o F[n + 1]
                         ELSE IF n < Len(s) /\ s[n + 1] \in {7, 8}
                              THEN <<IF s[n + 1] = 7 THEN 7 ELSE 0>> \o F[n + 2]
                         ELSE <<0>> \o F[n + 1]
           Is(F) == F = [n \in 1 .. Len(s) + 2 |-> body(F, n)]
<1>1. L \in Nat /\ step \in [1 .. L -> {1, 2}]  BY DEF ByteSteps
<1>2. PICK F : Scans(F, L, head, step)
    <2> HIDE DEF L, head, step
    <2> QED BY <1>1, ScanDefined
<1>3. ASSUME NEW G PROVE Is(G) <=> Scans(G, L, head, step)
    <2>1. ASSUME NEW n \in 1 .. L + 2
          PROVE  body(G, n) = IF n > L THEN <<>> ELSE head[n] \o G[n + step[n]]
        <3>1. CASE n > L
            BY <3>1
        <3>2. CASE ~(n > L)
            <4>1. n \in 1 .. L  BY <3>2
            <4>2. head[n] = <<ReadByte(s, n)>> /\ step[n] = IF Paired(s, n) THEN 2 ELSE 1
                BY <4>1 DEF ByteHeads, ByteSteps
            <4> HIDE DEF head, step
            <4> QED BY <3>2, <4>2 DEF ReadByte, Paired
        <3> QED BY <3>1, <3>2
    <2>2. [n \in 1 .. L + 2 |-> body(G, n)]
            = [n \in 1 .. L + 2 |-> IF n > L THEN <<>> ELSE head[n] \o G[n + step[n]]]
        <3> HIDE DEF body, head, step
        <3> QED BY <2>1
    <2> HIDE DEF body, head, step
    <2> QED BY <2>2, Zenon DEF Scans
<1>4. Unescaped(s) = (CHOOSE G : Is(G))[1]
    BY Zenon DEF Unescaped
<1> HIDE DEF Is, L, head, step
<1>5. Is(CHOOSE G : Is(G))  BY <1>2, <1>3
<1> QED BY <1>3, <1>4, <1>5 DEF L, head, step

(* An escaped token holds no byte 0 and is read back as it was. *)
LEMMA UnescapesEscaped ==
    ASSUME NEW s \in Seq(Byte)
    PROVE  /\ Escaped(s) \in Seq(Byte)
           /\ \A i \in 1 .. Len(Escaped(s)) : Escaped(s)[i] # 0
           /\ Unescaped(Escaped(s)) = s
<1> DEFINE e == Escaped(s)  c == Escapes(s)  N == Len(s)
<1>1. N \in Nat /\ c \in Seq(Seq(Byte)) /\ Len(c) = N /\ \A k \in 1 .. N : s[k] \in Byte
    BY EscapesType
<1>2. e \in Seq(Byte) /\ \E p : Places(p, c, e)  BY <1>1, EscapedBytes, Flattened
<1>3. PICK p : Places(p, c, e)  BY <1>2
<1>4. \A k \in 1 .. N : c[k] = EscapeOf(s[k])  BY DEF Escapes
<1> HIDE DEF e, c, N
<1>5. \A i \in 1 .. Len(e) : e[i] # 0
    <2> TAKE i \in 1 .. Len(e)
    <2>1. PICK k \in 1 .. N : \E j \in 1 .. Len(c[k]) : i = p[k] + j  BY <1>1, <1>3 DEF Places
    <2>2. PICK j \in 1 .. Len(c[k]) : i = p[k] + j  BY <2>1
    <2>3. e[i] = c[k][j]  BY <1>1, <1>3, <2>2 DEF Places
    <2>4. \A b \in Byte : \A n \in 1 .. Len(EscapeOf(b)) : EscapeOf(b)[n] # 0
        <3> TAKE b \in Byte
        <3>1. CASE b \in {0, 7}
            <4>1. EscapeOf(b) = <<7, 7>> \/ EscapeOf(b) = <<7, 8>>  BY <3>1 DEF EscapeOf
            <4>2. \A n \in 1 .. 2 : n = 1 \/ n = 2  OBVIOUS
            <4> QED BY <4>1, <4>2
        <3>2. CASE b \notin {0, 7}
            BY <3>2 DEF EscapeOf
        <3> QED BY <3>1, <3>2
    <2> QED BY <1>1, <1>4, <2>1, <2>2, <2>3, <2>4
<1>6. PICK F : Scans(F, Len(e), ByteHeads(e), ByteSteps(e)) /\ Unescaped(e) = F[1]
    BY <1>2, UnescapeScans
<1>7. \A n \in 1 .. Len(e) + 2 :
         F[n] = IF n > Len(e) THEN <<>> ELSE <<ReadByte(e, n)>> \o F[n + IF Paired(e, n) THEN 2 ELSE 1]
    <2> TAKE n \in 1 .. Len(e) + 2
    <2>1. F[n] = IF n > Len(e) THEN <<>> ELSE ByteHeads(e)[n] \o F[n + ByteSteps(e)[n]]
        BY <1>6, Zenon DEF Scans
    <2>2. ~(n > Len(e)) => n \in 1 .. Len(e)  BY <1>2
    <2>3. ~(n > Len(e)) => /\ ByteHeads(e)[n] = <<ReadByte(e, n)>>
                           /\ ByteSteps(e)[n] = IF Paired(e, n) THEN 2 ELSE 1
        BY <2>2, Zenon DEF ByteHeads, ByteSteps
    <2> QED BY <2>1, <2>3, Zenon
<1>8. /\ p[1] = 0 /\ p[N + 1] = Len(e) /\ p \in [1 .. N + 1 -> Nat]
      /\ \A k \in 1 .. N : p[k + 1] = p[k] + Len(EscapeOf(s[k]))
      /\ \A k \in 1 .. N : \A j \in 1 .. Len(EscapeOf(s[k])) :
            p[k] + j \in 1 .. Len(e) /\ e[p[k] + j] = EscapeOf(s[k])[j]
    <2>1. /\ p \in [1 .. N + 1 -> Nat] /\ p[1] = 0 /\ Len(e) = p[N + 1]
          /\ \A k \in 1 .. N : p[k + 1] = p[k] + Len(c[k])
          /\ \A k \in 1 .. N : \A j \in 1 .. Len(c[k]) :
                p[k] + j \in 1 .. Len(e) /\ e[p[k] + j] = c[k][j]
        BY <1>1, <1>3, Zenon DEF Places
    <2> QED BY <1>4, <2>1, Zenon
<1>9. ASSUME NEW k \in 1 .. N
      PROVE  F[p[k] + 1] = <<s[k]>> \o F[p[k + 1] + 1]
    <2> DEFINE b == s[k]  n == p[k] + 1
    <2>1. b \in Byte /\ p[k] \in Nat /\ Len(EscapeOf(b)) \in {1, 2}
        <3>1. k \in 1 .. N + 1  BY <1>1
        <3> QED BY <1>1, <1>8, <3>1, EscapesType
    <2>2. n \in 1 .. Len(e) /\ e[n] = EscapeOf(b)[1]  BY <1>8, <2>1
    <2>3. F[n] = <<ReadByte(e, n)>> \o F[n + IF Paired(e, n) THEN 2 ELSE 1]
        <3>1. n \in 1 .. Len(e) + 2 /\ ~(n > Len(e))  BY <1>2, <2>2
        <3> QED BY <1>7, <3>1, Zenon
    <2>4. CASE b \in {0, 7}
        <3>1. Len(EscapeOf(b)) = 2 /\ EscapeOf(b)[1] = 7 /\ EscapeOf(b)[2] = IF b = 7 THEN 7 ELSE 8
            BY <2>4 DEF EscapeOf
        <3>2. p[k] + 2 \in 1 .. Len(e) /\ e[p[k] + 2] = EscapeOf(b)[2] /\ p[k + 1] = p[k] + 2
            <4>1. 2 \in 1 .. Len(EscapeOf(b))  BY <3>1
            <4>2. p[k + 1] = p[k] + Len(EscapeOf(b))  BY <1>8
            <4> QED BY <1>8, <3>1, <4>1, <4>2
        <3>3. n + 1 = p[k] + 2 /\ n < Len(e) /\ n + 2 = p[k + 1] + 1  BY <1>2, <2>1, <3>2
        <3>4. Paired(e, n) /\ ReadByte(e, n) = b
            BY <2>2, <2>4, <3>1, <3>2, <3>3 DEF Paired, ReadByte
        <3> QED BY <2>3, <3>3, <3>4
    <2>5. CASE b \notin {0, 7}
        <3>1. Len(EscapeOf(b)) = 1 /\ EscapeOf(b)[1] = b  BY <2>5 DEF EscapeOf
        <3>2. p[k + 1] = p[k] + 1  BY <1>8, <3>1
        <3>3. ~Paired(e, n) /\ ReadByte(e, n) = b  BY <2>2, <2>5, <3>1 DEF Paired, ReadByte
        <3>4. n + 1 = p[k + 1] + 1  BY <3>2
        <3> QED BY <2>3, <3>3, <3>4
    <2> QED BY <2>4, <2>5
<1> DEFINE T == {m \in Nat : m <= N => F[p[N + 1 - m] + 1] = SubSeq(s, N + 1 - m, N)}
<1>10. 0 \in T
    <2>1. N + 1 - 0 = N + 1 /\ N < N + 1  BY <1>1
    <2>2. SubSeq(s, N + 1, N) = <<>>  BY <1>1, <2>1, SubSeqEmpty
    <2>3. Len(e) + 1 \in 1 .. Len(e) + 2 /\ Len(e) + 1 > Len(e)  BY <1>2
    <2>4. F[p[N + 1] + 1] = <<>>  BY <1>7, <1>8, <2>3, Zenon
    <2> QED BY <2>1, <2>2, <2>4
<1>11. ASSUME NEW m \in Nat, m \in T PROVE m + 1 \in T
    <2> SUFFICES ASSUME m + 1 <= N
                 PROVE  F[p[N + 1 - (m + 1)] + 1] = SubSeq(s, N + 1 - (m + 1), N)
        OBVIOUS
    <2> DEFINE k == N + 1 - (m + 1)
    <2>1. k \in 1 .. N /\ k + 1 = N + 1 - m /\ m <= N  BY <1>1
    <2>2. F[p[k + 1] + 1] = SubSeq(s, k + 1, N)  BY <1>11, <2>1
    <2> HIDE DEF k
    <2>3. SubSeq(s, k, N) = <<s[k]>> \o SubSeq(s, k + 1, N)
        <3>1. k \in 1 .. Len(s) /\ N \in k .. Len(s)  BY <1>1, <2>1 DEF N
        <3> QED BY <3>1, SubSeqRecursiveFirst
    <2> QED BY <1>9, <2>1, <2>2, <2>3 DEF k
<1>12. N \in T
    <2> HIDE DEF T
    <2> QED BY <1>1, <1>10, <1>11, Induction
<1>13. F[p[1] + 1] = SubSeq(s, 1, N)
    <2>1. N <= N /\ N + 1 - N = 1  BY <1>1
    <2> QED BY <1>12, <2>1
<1>14. SubSeq(s, 1, N) = s  BY SubSeqFull DEF N
<1>15. p[1] + 1 = 1  BY <1>8
<1>16. Unescaped(e) = s  BY <1>6, <1>13, <1>14, <1>15
<1> QED BY <1>2, <1>5, <1>16 DEF e

(* The entries of the table. *)
Entries(tokens) == [n \in 1 .. Len(tokens) |-> Append(Escaped(tokens[n]), 0)]

(* An entry is the escaped token and a byte 0, its only one. *)
LEMMA EntryType ==
    ASSUME NEW tokens \in Seq(Seq(Byte))
    PROVE  /\ Entries(tokens) \in Seq(Seq(Byte)) /\ Len(Entries(tokens)) = Len(tokens)
           /\ \A n \in 1 .. Len(tokens) :
                /\ Len(Entries(tokens)[n]) = Len(Escaped(tokens[n])) + 1
                /\ Entries(tokens)[n][Len(Escaped(tokens[n])) + 1] = 0
                /\ \A i \in 1 .. Len(Escaped(tokens[n])) :
                      Entries(tokens)[n][i] = Escaped(tokens[n])[i]
<1>1. ASSUME NEW e \in Seq(Byte)
      PROVE  /\ Append(e, 0) \in Seq(Byte) /\ Len(Append(e, 0)) = Len(e) + 1
             /\ Append(e, 0)[Len(e) + 1] = 0
             /\ \A i \in 1 .. Len(e) : Append(e, 0)[i] = e[i]
    <2>1. 0 \in Byte  BY DEF Byte
    <2> QED BY <2>1
<1>2. \A n \in 1 .. Len(tokens) : tokens[n] \in Seq(Byte) /\ Escaped(tokens[n]) \in Seq(Byte)
    <2>1. \A n \in 1 .. Len(tokens) : tokens[n] \in Seq(Byte)  OBVIOUS
    <2> QED BY <2>1, UnescapesEscaped
<1>3. \A n \in 1 .. Len(tokens) : Entries(tokens)[n] = Append(Escaped(tokens[n]), 0)
    BY Zenon DEF Entries
<1>4. Entries(tokens) \in Seq(Seq(Byte)) /\ Len(Entries(tokens)) = Len(tokens)
    <2>1. \A n \in 1 .. Len(tokens) : Append(Escaped(tokens[n]), 0) \in Seq(Byte)  BY <1>1, <1>2
    <2>2. Len(tokens) \in Nat  OBVIOUS
    <2> QED BY <2>1, <2>2 DEF Entries
<1> QED BY <1>1, <1>2, <1>3, <1>4, ZenonT(40)

(* Every token of the table is read back as it was, whatever bytes it holds. *)
LEMMA TokensSurvive ==
    ASSUME NEW tokens \in Seq(Seq(Byte)), NEW n \in 1 .. Len(tokens)
    PROVE  LoadedToken(TokenBytes(tokens), TokenOffset(tokens, n)) = tokens[n]
<1> DEFINE s == Entries(tokens)  bytes == TokenBytes(tokens)  e == Escaped(tokens[n])
           before == SubSeq(tokens, 1, n - 1)
<1>1. s \in Seq(Seq(Byte)) /\ Len(s) = Len(tokens) /\ Len(tokens) \in Nat  BY EntryType
<1>2. bytes = FlattenSeq(s)  BY DEF TokenBytes, Entries
<1>3. /\ tokens[n] \in Seq(Byte) /\ e \in Seq(Byte) /\ Len(e) \in Nat
      /\ \A i \in 1 .. Len(e) : e[i] # 0
      /\ Unescaped(e) = tokens[n]
    <2>1. tokens[n] \in Seq(Byte)  OBVIOUS
    <2>2. e \in Seq(Byte) /\ (\A i \in 1 .. Len(e) : e[i] # 0) /\ Unescaped(e) = tokens[n]
        BY <2>1, UnescapesEscaped
    <2> HIDE DEF e
    <2> QED BY <2>1, <2>2
<1>4. bytes \in Seq(Byte) /\ \E p : Places(p, s, bytes)  BY <1>1, <1>2, Flattened
<1>5. PICK p : Places(p, s, bytes)  BY <1>4
<1>6. TokenOffset(tokens, n) = p[n]
    <2>1. before \in Seq(Seq(Byte)) /\ Len(before) = n - 1
          /\ \A i \in 1 .. n - 1 : before[i] = tokens[i]
        OBVIOUS
    <2>2. Entries(before) = SubSeq(s, 1, n - 1)
        <3> DEFINE a == Entries(before)  d == SubSeq(s, 1, n - 1)
        <3>1. a \in Seq(Seq(Byte)) /\ Len(a) = n - 1  
            <4> HIDE DEF before
            <4> QED BY <2>1, EntryType
        <3>2. \A i \in 1 .. n - 1 : a[i] = Append(Escaped(tokens[i]), 0)
            <4>1. \A i \in 1 .. n - 1 : a[i] = Append(Escaped(before[i]), 0)
                <5>1. 1 .. Len(before) = 1 .. n - 1  BY <2>1
                <5> HIDE DEF before
                <5> QED BY <5>1, Zenon DEF Entries
            <4> HIDE DEF before, a
            <4> QED BY <2>1, <4>1
        <3>3. d \in Seq(Seq(Byte)) /\ Len(d) = n - 1 /\ \A i \in 1 .. n - 1 : d[i] = s[i]
            <4> HIDE DEF s
            <4> QED BY <1>1
        <3>4. \A i \in 1 .. n - 1 : s[i] = Append(Escaped(tokens[i]), 0)
            <4>1. \A i \in 1 .. n - 1 : i \in 1 .. Len(tokens)  OBVIOUS
            <4> QED BY <4>1, Zenon DEF Entries
        <3> HIDE DEF a, d, s, before
        <3>5. \A i \in 1 .. n - 1 : a[i] = d[i]  BY <3>2, <3>3, <3>4
        <3>6. a = d  BY <3>1, <3>3, <3>5, SeqEqual
        <3> QED BY <3>6 DEF a, d
    <2>3. TokenOffset(tokens, n) = Len(FlattenSeq(SubSeq(s, 1, n - 1)))
        <3>1. TokenOffset(tokens, n) = Len(TokenBytes(before))  BY Zenon DEF TokenOffset
        <3>2. TokenBytes(before) = FlattenSeq(Entries(before))  BY Zenon DEF TokenBytes, Entries
        <3> QED BY <2>2, <3>1, <3>2, Zenon
    <2> HIDE DEF s, bytes
    <2>4. n - 1 \in 0 .. Len(s) /\ (n - 1) + 1 = n  BY <1>1
    <2>5. Places(p, s, FlattenSeq(s))  BY <1>2, <1>5
    <2>6. Len(FlattenSeq(SubSeq(s, 1, n - 1))) = p[(n - 1) + 1]  BY <1>1, <2>4, <2>5, PrefixPlace
    <2> QED BY <2>3, <2>4, <2>6
<1>7. /\ Len(s[n]) = Len(e) + 1 /\ s[n][Len(e) + 1] = 0
      /\ \A i \in 1 .. Len(e) : s[n][i] = e[i]
    BY EntryType
<1> HIDE DEF s, bytes, e
<1> DEFINE from == p[n]  last == from + Len(e) + 1
           nuls == {m \in from + 1 .. Len(bytes) : bytes[m] = 0}
<1>8. /\ from \in Nat
      /\ \A i \in 1 .. Len(e) + 1 : from + i \in 1 .. Len(bytes) /\ bytes[from + i] = s[n][i]
    <2>1. n \in 1 .. Len(s) + 1 /\ n \in 1 .. Len(s)  BY <1>1
    <2> QED BY <1>5, <1>7, <2>1 DEF Places
<1>9. Min(nuls) = last
    <2>1. Len(e) + 1 \in 1 .. Len(e) + 1 /\ from + (Len(e) + 1) = last
        <3>1. from \in Nat  BY <1>8
        <3> HIDE DEF from
        <3> QED BY <1>3, <3>1
    <2>2. last \in 1 .. Len(bytes) /\ bytes[last] = 0  BY <1>7, <1>8, <2>1
    <2>3. last \in from + 1 .. Len(bytes)  BY <1>3, <1>8, <2>2
    <2>4. ASSUME NEW m \in nuls PROVE last <= m
        <3> SUFFICES ASSUME m < last PROVE FALSE
            <4>1. m \in Int /\ last \in Int  BY <1>3, <1>8
            <4> HIDE DEF last
            <4> QED BY <4>1
        <3>1. m - from \in 1 .. Len(e) /\ from + (m - from) = m
            <4> DEFINE L == Len(e)
            <4>1. L \in Nat /\ from \in Nat  BY <1>3, <1>8
            <4>2. m \in from + 1 .. Len(bytes) /\ m < from + L + 1  OBVIOUS
            <4> HIDE DEF L, from
            <4>3. m \in Int /\ m >= from + 1  BY <4>1, <4>2
            <4>4. m - from \in Int /\ m - from >= 1 /\ m - from <= L  BY <4>1, <4>2, <4>3
            <4>5. from + (m - from) = m  BY <4>1, <4>3
            <4> QED BY <4>1, <4>4, <4>5 DEF L
        <3>2. bytes[m] = e[m - from]
            <4>1. m - from \in 1 .. Len(e) + 1  BY <1>3, <3>1
            <4> QED BY <1>7, <1>8, <3>1, <4>1
        <3> QED BY <1>3, <3>1, <3>2
    <2>5. nuls \in SUBSET Int /\ last \in nuls  BY <2>2, <2>3
    <2> HIDE DEF nuls, last
    <2> QED BY <2>4, <2>5, MinIs
<1>10. SubSeq(bytes, from + 1, last - 1) = e
    <2>1. last - 1 = from + Len(e) /\ from + Len(e) <= Len(bytes)
        <3>1. from + (Len(e) + 1) \in 1 .. Len(bytes) /\ Len(bytes) \in Nat  BY <1>3, <1>4, <1>8
        <3> QED BY <1>3, <1>8, <3>1
    <2>2. \A i \in 1 .. Len(e) : bytes[from + i] = e[i]
        <3>1. \A i \in 1 .. Len(e) : i \in 1 .. Len(e) + 1  BY <1>3
        <3> QED BY <1>7, <1>8, <3>1
    <2>3. Stands(bytes, from, e)  BY <1>8, <2>1, <2>2 DEF Stands
    <2>4. from \in Nat  BY <1>8
    <2> HIDE DEF from, last
    <2>5. SubSeq(bytes, from + 1, from + Len(e)) = e <=> Stands(bytes, from, e)
        BY <1>3, <1>4, <2>1, <2>4, CutOut
    <2> QED BY <2>1, <2>3, <2>5
<1>11. LoadedToken(bytes, from) = Unescaped(SubSeq(bytes, from + 1, Min(nuls) - 1))
    BY DEF LoadedToken
<1> QED BY <1>3, <1>6, <1>9, <1>10, <1>11 DEF bytes, e

-----------------------------------------------------------------------------
(***************************************************************************)
(* A round of merging.                                                     *)
(***************************************************************************)
(* The pair stands at place n of s. *)
PairAt(s, pair, n) == n < Len(s) /\ <<s[n], s[n + 1]>> = pair

(* MergeAll as a scan: two symbols at once where the pair stands. *)
MergeHeads(s, pair) ==
    [n \in 1 .. Len(s) |-> IF PairAt(s, pair, n) THEN <<s[n] \o s[n + 1]>> ELSE <<s[n]>>]

MergeSteps(s, pair) == [n \in 1 .. Len(s) |-> IF PairAt(s, pair, n) THEN 2 ELSE 1]

(* The recursive definition of MergeAll has a solution, and it is that scan. *)
LEMMA MergeScans ==
    ASSUME NEW S, NEW s \in Seq(S), NEW pair
    PROVE  \E F : Scans(F, Len(s), MergeHeads(s, pair), MergeSteps(s, pair)) /\ MergeAll(s, pair) = F[1]
<1> DEFINE L == Len(s)  head == MergeHeads(s, pair)  step == MergeSteps(s, pair)
           body(F, n) == IF n > Len(s) THEN <<>>
                         ELSE IF n < Len(s) /\ <<s[n], s[n + 1]>> = pair
                              THEN <<s[n] \o s[n + 1]>> \o F[n + 2]
                         ELSE <<s[n]>> \o F[n + 1]
           Is(F) == F = [n \in 1 .. Len(s) + 2 |-> body(F, n)]
<1>1. L \in Nat /\ step \in [1 .. L -> {1, 2}]  BY DEF MergeSteps
<1>2. PICK F : Scans(F, L, head, step)
    <2> HIDE DEF L, head, step
    <2> QED BY <1>1, ScanDefined
<1>3. ASSUME NEW G PROVE Is(G) <=> Scans(G, L, head, step)
    <2>1. ASSUME NEW n \in 1 .. L + 2
          PROVE  body(G, n) = IF n > L THEN <<>> ELSE head[n] \o G[n + step[n]]
        <3>1. CASE n > L
            BY <3>1
        <3>2. CASE ~(n > L)
            <4>1. n \in 1 .. L  BY <3>2
            <4>2. /\ head[n] = IF PairAt(s, pair, n) THEN <<s[n] \o s[n + 1]>> ELSE <<s[n]>>
                  /\ step[n] = IF PairAt(s, pair, n) THEN 2 ELSE 1
                BY <4>1, Zenon DEF MergeHeads, MergeSteps
            <4> HIDE DEF head, step
            <4>3. PairAt(s, pair, n) <=> n < Len(s) /\ <<s[n], s[n + 1]>> = pair  BY Zenon DEF PairAt
            <4> QED BY <3>2, <4>2, <4>3, Zenon
        <3> QED BY <3>1, <3>2
    <2>2. [n \in 1 .. L + 2 |-> body(G, n)]
            = [n \in 1 .. L + 2 |-> IF n > L THEN <<>> ELSE head[n] \o G[n + step[n]]]
        <3> HIDE DEF body, head, step
        <3> QED BY <2>1
    <2> HIDE DEF body, head, step
    <2> QED BY <2>2, Zenon DEF Scans
<1>4. MergeAll(s, pair) = (CHOOSE G : Is(G))[1]
    BY Zenon DEF MergeAll
<1> HIDE DEF Is, L, head, step
<1>5. Is(CHOOSE G : Is(G))  BY <1>2, <1>3
<1> QED BY <1>3, <1>4, <1>5 DEF L, head, step

(* What a round of merging makes of s. *)
MergedFrom(m, s, pair) ==
    /\ m \in Seq(Seq(Byte)) /\ FlattenSeq(m) = FlattenSeq(s)
    /\ \A i \in 1 .. Len(m) : \E n \in 1 .. Len(s) :
          m[i] = s[n] \/ (PairAt(s, pair, n) /\ m[i] = s[n] \o s[n + 1])

(* A round of merging keeps the text, and a new symbol is the product of the pair. *)
LEMMA MergeKeepsText ==
    ASSUME NEW s \in Seq(Seq(Byte)), NEW pair
    PROVE  MergedFrom(MergeAll(s, pair), s, pair)
<1>0. Prepends(Byte)  BY FlattenCons, Zenon
<1>1. PICK F : /\ Scans(F, Len(s), MergeHeads(s, pair), MergeSteps(s, pair))
               /\ MergeAll(s, pair) = F[1]
    BY MergeScans
<1> DEFINE L == Len(s)
<1>2. L \in Nat /\ \A n \in 1 .. L : s[n] \in Seq(Byte)  OBVIOUS
<1>3. \A n \in 1 .. L + 2 :
         F[n] = IF n > L THEN <<>>
                ELSE IF PairAt(s, pair, n) THEN <<s[n] \o s[n + 1]>> \o F[n + 2]
                ELSE <<s[n]>> \o F[n + 1]
    <2> TAKE n \in 1 .. L + 2
    <2>1. F[n] = IF n > L THEN <<>> ELSE MergeHeads(s, pair)[n] \o F[n + MergeSteps(s, pair)[n]]
        BY <1>1, Zenon DEF Scans
    <2>2. ~(n > L) => n \in 1 .. L  BY <1>2
    <2>3. ~(n > L) =>
             /\ MergeHeads(s, pair)[n] = IF PairAt(s, pair, n) THEN <<s[n] \o s[n + 1]>> ELSE <<s[n]>>
             /\ MergeSteps(s, pair)[n] = IF PairAt(s, pair, n) THEN 2 ELSE 1
        BY <2>2, Zenon DEF MergeHeads, MergeSteps
    <2> QED BY <2>1, <2>3, Zenon
<1> DEFINE From(x) == \E n \in 1 .. L : x = s[n] \/ (PairAt(s, pair, n) /\ x = s[n] \o s[n + 1])
           Good(n) == /\ F[n] \in Seq(Seq(Byte))
                      /\ FlattenSeq(F[n]) = FlattenSeq(SubSeq(s, n, L))
                      /\ \A i \in 1 .. Len(F[n]) : From(F[n][i])
           T == {m \in Nat : m <= L + 1 => Good(L + 2 - m) /\ (m # 0 => Good(L + 3 - m))}
<1>4. ASSUME NEW n \in L + 1 .. L + 2 PROVE Good(n)
    <2>1. n \in 1 .. L + 2 /\ n > L  BY <1>2
    <2>2. F[n] = <<>>  BY <1>3, <2>1
    <2>3. SubSeq(s, n, L) = <<>>  BY <1>2, <2>1, SubSeqEmpty
    <2>4. <<>> \in Seq(Seq(Byte)) /\ Len(<<>>) = 0  OBVIOUS
    <2> HIDE DEF From
    <2> QED BY <2>2, <2>3, <2>4
<1>5. ASSUME NEW n \in 1 .. L, Good(n + 1), Good(n + 2) PROVE Good(n)
    <2>1. n \in 1 .. L + 2 /\ ~(n > L) /\ L \in n .. Len(s)  BY <1>2
    <2>2. SubSeq(s, n, L) = <<s[n]>> \o SubSeq(s, n + 1, L)  BY <2>1, SubSeqRecursiveFirst
    <2>3. \A m \in 1 .. L + 1 : SubSeq(s, m, L) \in Seq(Seq(Byte))
        <3> TAKE m \in 1 .. L + 1
        <3>1. m \in Int /\ L \in Int /\ \A i \in m .. L : s[i] \in Seq(Byte)  BY <1>2
        <3> HIDE DEF L
        <3> QED BY <3>1, SubSeqProperties
    <2>4. FlattenSeq(SubSeq(s, n, L)) = s[n] \o FlattenSeq(SubSeq(s, n + 1, L))
        <3>1. n + 1 \in 1 .. L + 1  BY <1>2
        <3>2. SubSeq(s, n + 1, L) \in Seq(Seq(Byte)) /\ s[n] \in Seq(Byte)  BY <1>2, <2>3, <3>1
        <3> QED BY <1>0, <2>2, <3>2, Zenon DEF Prepends
    <2>5. CASE PairAt(s, pair, n)
        <3> DEFINE x == s[n] \o s[n + 1]
        <3>1. n + 1 \in 1 .. L /\ n + 2 \in 1 .. L + 1 /\ n + 1 + 1 = n + 2
            <4>1. n < L  BY <2>5, Zenon DEF PairAt
            <4> QED BY <1>2, <4>1
        <3>2. s[n] \in Seq(Byte) /\ s[n + 1] \in Seq(Byte)  BY <1>2, <3>1
        <3>3. F[n] = <<x>> \o F[n + 2]  BY <1>3, <2>1, <2>5, Zenon
        <3>4. x \in Seq(Byte)  BY <3>2
        <3>5. F[n + 2] \in Seq(Seq(Byte))  BY <1>5
        <3>6. /\ F[n] \in Seq(Seq(Byte)) /\ FlattenSeq(F[n]) = x \o FlattenSeq(F[n + 2])
              /\ \A i \in 1 .. Len(F[n]) :
                    F[n][i] = x \/ \E j \in 1 .. Len(F[n + 2]) : F[n][i] = F[n + 2][j]
            <4> HIDE DEF x
            <4> DEFINE f == F[n]  g == F[n + 2]
            <4> HIDE DEF f, g
            <4>1. f = <<x>> \o g /\ x \in Seq(Byte) /\ g \in Seq(Seq(Byte))
                BY <3>3, <3>4, <3>5 DEF f, g
            <4>2. /\ <<x>> \o g \in Seq(Seq(Byte)) /\ FlattenSeq(<<x>> \o g) = x \o FlattenSeq(g)
                  /\ \A i \in 1 .. Len(<<x>> \o g) :
                        (<<x>> \o g)[i] = x \/ \E j \in 1 .. Len(g) : (<<x>> \o g)[i] = g[j]
                BY <1>0, <4>1, Zenon DEF Prepends
            <4> QED BY <4>1, <4>2, Zenon DEF f, g
        <3>7. FlattenSeq(SubSeq(s, n + 1, L)) = s[n + 1] \o FlattenSeq(SubSeq(s, n + 2, L))
            <4>1. SubSeq(s, n + 1, L) = <<s[n + 1]>> \o SubSeq(s, n + 1 + 1, L)
                <5>1. n + 1 \in 1 .. Len(s) /\ L \in n + 1 .. Len(s)  BY <1>2, <3>1
                <5> QED BY <5>1, SubSeqRecursiveFirst
            <4>2. SubSeq(s, n + 2, L) \in Seq(Seq(Byte))  BY <2>3, <3>1
            <4>3. n + 1 + 1 = n + 2  BY <3>1
            <4>4. FlattenSeq(<<s[n + 1]>> \o SubSeq(s, n + 2, L))
                    = s[n + 1] \o FlattenSeq(SubSeq(s, n + 2, L))
                BY <1>0, <3>2, <4>2, Zenon DEF Prepends
            <4> QED BY <4>1, <4>3, <4>4
        <3>8. FlattenSeq(F[n]) = FlattenSeq(SubSeq(s, n, L))
            <4> DEFINE rest == FlattenSeq(SubSeq(s, n + 2, L))
            <4>1. rest \in Seq(Byte)
                <5>1. SubSeq(s, n + 2, L) \in Seq(Seq(Byte))  BY <2>3, <3>1
                <5> QED BY <5>1, Flattened
            <4>2. FlattenSeq(F[n + 2]) = rest  BY <1>5
            <4>3. Regroups(Byte)  BY Regroup, Zenon
            <4>4. (s[n] \o s[n + 1]) \o rest = s[n] \o (s[n + 1] \o rest)
                <5> HIDE DEF rest
                <5> QED BY <3>2, <4>1, <4>3, Zenon DEF Regroups
            <4> QED BY <2>4, <3>6, <3>7, <4>2, <4>4, Zenon
        <3>9. From(x)  BY <2>5
        <3>10. \A j \in 1 .. Len(F[n + 2]) : From(F[n + 2][j])  BY <1>5
        <3> HIDE DEF From, x
        <3> QED BY <3>6, <3>8, <3>9, <3>10
    <2>6. CASE ~PairAt(s, pair, n)
        <3>1. s[n] \in Seq(Byte)  BY <1>2
        <3>2. F[n] = <<s[n]>> \o F[n + 1]  BY <1>3, <2>1, <2>6, Zenon
        <3>3. F[n + 1] \in Seq(Seq(Byte))  BY <1>5
        <3>4. /\ F[n] \in Seq(Seq(Byte)) /\ FlattenSeq(F[n]) = s[n] \o FlattenSeq(F[n + 1])
              /\ \A i \in 1 .. Len(F[n]) :
                    F[n][i] = s[n] \/ \E j \in 1 .. Len(F[n + 1]) : F[n][i] = F[n + 1][j]
            <4> DEFINE f == F[n]  g == F[n + 1]  x == s[n]
            <4> HIDE DEF f, g, x
            <4>1. f = <<x>> \o g /\ x \in Seq(Byte) /\ g \in Seq(Seq(Byte))
                BY <3>1, <3>2, <3>3 DEF f, g, x
            <4>2. /\ <<x>> \o g \in Seq(Seq(Byte)) /\ FlattenSeq(<<x>> \o g) = x \o FlattenSeq(g)
                  /\ \A i \in 1 .. Len(<<x>> \o g) :
                        (<<x>> \o g)[i] = x \/ \E j \in 1 .. Len(g) : (<<x>> \o g)[i] = g[j]
                BY <1>0, <4>1, Zenon DEF Prepends
            <4> QED BY <4>1, <4>2, Zenon DEF f, g, x
        <3>5. FlattenSeq(F[n]) = FlattenSeq(SubSeq(s, n, L))  BY <1>5, <2>4, <3>4, Zenon
        <3>6. From(s[n])  BY Zenon
        <3>7. \A j \in 1 .. Len(F[n + 1]) : From(F[n + 1][j])  BY <1>5
        <3> HIDE DEF From
        <3> QED BY <3>4, <3>5, <3>6, <3>7
    <2> QED BY <2>5, <2>6
<1>6. 0 \in T
    <2>1. L + 2 \in L + 1 .. L + 2 /\ L + 2 - 0 = L + 2  BY <1>2
    <2>2. Good(L + 2)
        <3> HIDE DEF Good
        <3> QED BY <1>4, <2>1
    <2> HIDE DEF Good
    <2> QED BY <2>1, <2>2
<1>7. ASSUME NEW m \in Nat, m \in T PROVE m + 1 \in T
    <2> SUFFICES ASSUME m + 1 <= L + 1 PROVE Good(L + 2 - (m + 1)) /\ Good(L + 3 - (m + 1))
        <3> HIDE DEF Good
        <3> QED OBVIOUS
    <2> DEFINE n == L + 1 - m
    <2>1. /\ n \in 1 .. L + 1 /\ n = L + 2 - (m + 1) /\ n + 1 = L + 3 - (m + 1)
          /\ n + 1 = L + 2 - m /\ n + 2 = L + 3 - m /\ m <= L + 1
        BY <1>2
    <2> HIDE DEF n
    <2>2. Good(n + 1)
        <3> HIDE DEF Good
        <3> QED BY <1>7, <2>1
    <2>3. Good(n)
        <3>1. CASE m = 0
            <4>1. n \in L + 1 .. L + 2  BY <1>2, <2>1, <3>1
            <4> HIDE DEF Good
            <4> QED BY <1>4, <4>1
        <3>2. CASE m # 0
            <4>1. Good(n + 2)
                <5> HIDE DEF Good
                <5> QED BY <1>7, <2>1, <3>2
            <4>2. n \in 1 .. L  BY <1>2, <2>1, <3>2
            <4> HIDE DEF Good
            <4> QED BY <1>5, <2>2, <4>1, <4>2
        <3> HIDE DEF Good
        <3> QED BY <3>1, <3>2
    <2> HIDE DEF Good
    <2> QED BY <2>1, <2>2, <2>3
<1>8. Good(1)
    <2>1. L + 1 \in T
        <3>1. L + 1 \in Nat  BY <1>2
        <3> HIDE DEF T
        <3> QED BY <1>6, <1>7, <3>1, Induction
    <2>2. L + 2 - (L + 1) = 1 /\ L + 1 <= L + 1  BY <1>2
    <2> HIDE DEF Good
    <2> QED BY <2>1, <2>2
<1>9. SubSeq(s, 1, L) = s  BY SubSeqFull
<1>10. /\ MergeAll(s, pair) \in Seq(Seq(Byte))
       /\ FlattenSeq(MergeAll(s, pair)) = FlattenSeq(s)
       /\ \A i \in 1 .. Len(MergeAll(s, pair)) : \E n \in 1 .. Len(s) :
             \/ MergeAll(s, pair)[i] = s[n]
             \/ PairAt(s, pair, n) /\ MergeAll(s, pair)[i] = s[n] \o s[n + 1]
    BY <1>1, <1>8, <1>9
<1> QED BY <1>10, Zenon DEF MergedFrom

-----------------------------------------------------------------------------
(***************************************************************************)
(* Splitting.                                                              *)
(***************************************************************************)
All(s, from, to, C) == \A n \in from .. to : s[n] \in C

(* RunEnd goes to the end of the run of bytes of C and no further. *)
LEMMA RunEnds ==
    ASSUME NEW s \in Seq(Byte), NEW n \in 1 .. Len(s) + 1, NEW C
    PROVE  /\ RunEnd(s, n, C) \in n .. Len(s) + 1
           /\ \A j \in n .. RunEnd(s, n, C) - 1 : s[j] \in C
           /\ RunEnd(s, n, C) <= Len(s) => s[RunEnd(s, n, C)] \notin C
<1> DEFINE T == {j \in n .. Len(s) : s[j] \notin C} \cup {Len(s) + 1}  r == RunEnd(s, n, C)
<1>1. Len(s) \in Nat  OBVIOUS
<1>2. T \in SUBSET Nat /\ T # {}  BY <1>1
<1>3. PICK x \in T : \A y \in T : x <= y
    <2> HIDE DEF T
    <2> QED BY <1>2, Least
<1>4. r = x
    <2>1. RunEnd(s, n, C) = Min(T)  BY DEF RunEnd
    <2>2. T \in SUBSET Int  BY <1>2
    <2> HIDE DEF T
    <2> QED BY <1>3, <2>1, <2>2, MinIs
<1>5. r \in n .. Len(s) + 1  BY <1>1, <1>3, <1>4
<1>6. \A j \in n .. r - 1 : s[j] \in C
    <2> SUFFICES ASSUME NEW j \in n .. r - 1, s[j] \notin C PROVE FALSE
        OBVIOUS
    <2>1. j \in n .. Len(s) /\ ~(r <= j)  BY <1>1, <1>5
    <2>2. j \in T  BY <2>1
    <2> QED BY <1>3, <1>4, <2>1, <2>2
<1>7. r <= Len(s) => s[r] \notin C  BY <1>1, <1>3, <1>4
<1> HIDE DEF r
<1> QED BY <1>5, <1>6, <1>7 DEF r

(* The alternatives of the pattern, one by one. *)
Contracted(s) == {n \in 1 .. Len(s) : [m \in 1 .. n |-> Lower(s[m])] \in Contractions}

Word(s) ==
    {n \in 1 .. Len(s) : \E k \in {0, 1} :
        /\ k < n /\ All(s, 1, k, Byte \ (Newline \cup Letter \cup Number))
        /\ All(s, k + 1, n, Letter)}

Digit(s) == {n \in 1 .. Len(s) : n = 1 /\ s[1] \in Number}

Signs(s) ==
    {n \in 1 .. Len(s) : \E k \in {0, 1} : \E m \in k + 1 .. n :
        All(s, 1, k, {32}) /\ All(s, k + 1, m, Punctuation) /\ All(s, m + 1, n, Newline)}

Lines(s) == {n \in 1 .. Len(s) : All(s, 1, n, Space) /\ s[n] \in Newline}

Trailing(s) == {n \in 1 .. Len(s) : All(s, 1, n, Space) /\ (n = Len(s) \/ s[n + 1] \in Space)}

Blanks(s) == {n \in 1 .. Len(s) : All(s, 1, n, Space)}

(* The alternatives of the pattern by their names. *)
LEMMA PatternAlternatives ==
    ASSUME NEW s
    PROVE  /\ DOMAIN Alternatives(s) = 1 .. 7
           /\ Alternatives(s)[1] = Contracted(s) /\ Alternatives(s)[2] = Word(s)
           /\ Alternatives(s)[3] = Digit(s) /\ Alternatives(s)[4] = Signs(s)
           /\ Alternatives(s)[5] = Lines(s) /\ Alternatives(s)[6] = Trailing(s)
           /\ Alternatives(s)[7] = Blanks(s)
<1>1. Alternatives(s) = <<Contracted(s), Word(s), Digit(s), Signs(s), Lines(s), Trailing(s), Blanks(s)>>
    BY Zenon DEF Alternatives, Contracted, Word, Digit, Signs, Lines, Trailing, Blanks, All
<1> QED BY <1>1

(* The first alternative that matches at all. *)
LEMMA FirstAlternative ==
    ASSUME NEW s, NEW a \in 1 .. 7, Alternatives(s)[a] # {},
           \A b \in 1 .. a - 1 : Alternatives(s)[b] = {}
    PROVE  Min({b \in DOMAIN Alternatives(s) : Alternatives(s)[b] # {}}) = a
<1> DEFINE T == {b \in DOMAIN Alternatives(s) : Alternatives(s)[b] # {}}
<1>1. DOMAIN Alternatives(s) = 1 .. 7  BY PatternAlternatives
<1>2. T \in SUBSET Int /\ a \in T  BY <1>1
<1>3. ASSUME NEW b \in T PROVE a <= b
    <2>1. b \in 1 .. 7 /\ Alternatives(s)[b] # {}  BY <1>1
    <2>2. ~(b < a)
        <3>1. b < a => b \in 1 .. a - 1  BY <2>1
        <3> QED BY <2>1, <3>1
    <2> QED BY <2>1, <2>2
<1> HIDE DEF T
<1>4. Min(T) = a  BY <1>2, <1>3, MinIs
<1> QED BY <1>4 DEF T

(* Contractions. *)
LEMMA ContractionIs ==
    ASSUME NEW s \in Seq(Byte)
    PROVE  ContractionLength(s) = Max(Contracted(s) \cup {0})
<1> DEFINE low == [n \in 1 .. Len(s) |-> Lower(s[n])]
           lengths == {Len(c) : c \in {c \in Contractions : IsPrefix(c, low)}}
<1>1. \A b \in Byte : Lower(b) \in Nat  BY DEF Lower, Byte
<1>2. Len(s) \in Nat /\ \A n \in 1 .. Len(s) : s[n] \in Byte  OBVIOUS
<1>3. low \in Seq(Nat) /\ Len(low) = Len(s) /\ \A n \in 1 .. Len(s) : low[n] = Lower(s[n])
    <2>1. \A n \in 1 .. Len(s) : Lower(s[n]) \in Nat  BY <1>1, <1>2
    <2> QED BY <1>2, <2>1
<1>4. \A c \in Contractions : c \in Seq(Nat) /\ Len(c) \in Nat \ {0}
    <2>1. \A a, b \in Nat : <<a, b>> \in Seq(Nat) /\ Len(<<a, b>>) \in Nat \ {0}  OBVIOUS
    <2>2. \A a, b, d \in Nat : <<a, b, d>> \in Seq(Nat) /\ Len(<<a, b, d>>) \in Nat \ {0}
        OBVIOUS
    <2>3. /\ 39 \in Nat /\ 115 \in Nat /\ 116 \in Nat /\ 114 \in Nat /\ 101 \in Nat
          /\ 118 \in Nat /\ 109 \in Nat /\ 108 \in Nat /\ 100 \in Nat
        OBVIOUS
    <2> DEFINE Good(c) == c \in Seq(Nat) /\ Len(c) \in Nat \ {0}
    <2>4. /\ Good(<<39, 115>>) /\ Good(<<39, 116>>) /\ Good(<<39, 109>>) /\ Good(<<39, 100>>)
        BY <2>1, <2>3, Zenon
    <2>5. Good(<<39, 114, 101>>) /\ Good(<<39, 118, 101>>) /\ Good(<<39, 108, 108>>)
        BY <2>2, <2>3, Zenon
    <2> HIDE DEF Good
    <2>6. ASSUME NEW c \in Contractions PROVE Good(c)
        <3>1. \/ c = <<39, 115>> \/ c = <<39, 116>> \/ c = <<39, 109>> \/ c = <<39, 100>>
              \/ c = <<39, 114, 101>> \/ c = <<39, 118, 101>> \/ c = <<39, 108, 108>>
            BY DEF Contractions
        <3>2. CASE c = <<39, 115>> \/ c = <<39, 116>> \/ c = <<39, 109>> \/ c = <<39, 100>>
            BY <2>4, <3>2, ZenonT(40)
        <3>3. CASE c = <<39, 114, 101>> \/ c = <<39, 118, 101>> \/ c = <<39, 108, 108>>
            BY <2>5, <3>3, Zenon
        <3> QED BY <3>1, <3>2, <3>3, Zenon
    <2> QED BY <2>6 DEF Good
<1> HIDE DEF low
<1>5. ASSUME NEW c \in Contractions
      PROVE  IsPrefix(c, low) <=> Len(c) <= Len(s) /\ [m \in 1 .. Len(c) |-> Lower(s[m])] = c
    <2> DEFINE n == Len(c)
    <2>1. c \in Seq(Nat) /\ n \in Nat \ {0}  BY <1>4
    <2>2. SubSeq(c, 1, n) = c  BY <2>1, SubSeqFull
    <2>3. ASSUME n <= Len(s)
          PROVE  SubSeq(low, 1, n) = [m \in 1 .. n |-> Lower(s[m])]
        <3>1. \A m \in 1 .. n : m \in 1 .. Len(s) /\ m \in 1 .. Len(low)  BY <1>2, <1>3, <2>1, <2>3
        <3>2. SubSeq(low, 1, n) = [m \in 1 .. n |-> low[m]]
            <4> HIDE DEF n
            <4> QED BY <1>3, <2>1, <3>1
        <3>3. \A m \in 1 .. n : low[m] = Lower(s[m])  BY <1>3, <3>1
        <3> HIDE DEF n
        <3> QED BY <3>2, <3>3
    <2>4. IsPrefix(c, low) <=> n <= Len(low) /\ SubSeq(c, 1, n) = SubSeq(low, 1, n)
        BY Zenon DEF IsPrefix
    <2> HIDE DEF n
    <2> QED BY <1>3, <2>2, <2>3, <2>4 DEF n
<1>6. lengths = Contracted(s)
    <2>1. ASSUME NEW n \in lengths PROVE n \in Contracted(s)
        <3>1. PICK c \in Contractions : IsPrefix(c, low) /\ n = Len(c)  OBVIOUS
        <3>2. n \in 1 .. Len(s)
            <4>1. Len(c) <= Len(s)  BY <1>5, <3>1
            <4>2. Len(c) \in Nat \ {0}  BY <1>4
            <4> QED BY <1>2, <3>1, <4>1, <4>2
        <3>3. [m \in 1 .. n |-> Lower(s[m])] = c  BY <1>5, <3>1
        <3> QED BY <3>1, <3>2, <3>3 DEF Contracted
    <2>2. ASSUME NEW n \in Contracted(s) PROVE n \in lengths
        <3> DEFINE c == [m \in 1 .. n |-> Lower(s[m])]
        <3>1. n \in 1 .. Len(s) /\ c \in Contractions  BY DEF Contracted
        <3>2. c \in Seq(Nat) /\ DOMAIN c = 1 .. n /\ n \in Nat  BY <1>4, <3>1
        <3>3. Len(c) = n  BY <3>2
        <3>4. n <= Len(s) /\ [m \in 1 .. Len(c) |-> Lower(s[m])] = c  BY <1>2, <3>1, <3>3
        <3> HIDE DEF c
        <3>5. IsPrefix(c, low)  BY <1>5, <3>1, <3>3, <3>4
        <3> QED BY <3>1, <3>3, <3>5
    <2> HIDE DEF lengths
    <2> QED BY <2>1, <2>2
<1>7. ContractionLength(s) = Max(lengths \cup {0})  BY Zenon DEF ContractionLength, low
<1> HIDE DEF lengths
<1> QED BY <1>6, <1>7

(* Where the pattern cuts: at the greatest match of the first alternative. *)
Cuts(s, a, n) ==
    /\ a \in 1 .. 7
    /\ \A b \in 1 .. a - 1 : Alternatives(s)[b] = {}
    /\ n \in Alternatives(s)[a]
    /\ \A m \in Alternatives(s)[a] : m <= n

(* Such a cut is the one the pattern makes: the longest of the first alternative. *)
LEMMA CutIs ==
    ASSUME NEW s \in Seq(Byte), NEW a, NEW n, Cuts(s, a, n)
    PROVE  LET alternatives == Alternatives(s)
               matching == {b \in DOMAIN alternatives : alternatives[b] # {}}
           IN n = Max(alternatives[Min(matching)])
<1> DEFINE T == Alternatives(s)[a]
<1>1. Min({b \in DOMAIN Alternatives(s) : Alternatives(s)[b] # {}}) = a
    BY FirstAlternative DEF Cuts
<1>2. \A b \in 1 .. 7 : Alternatives(s)[b] \in SUBSET Int
    <2>1. /\ Contracted(s) \in SUBSET Int /\ Word(s) \in SUBSET Int /\ Digit(s) \in SUBSET Int
          /\ Signs(s) \in SUBSET Int /\ Lines(s) \in SUBSET Int /\ Trailing(s) \in SUBSET Int
          /\ Blanks(s) \in SUBSET Int
        BY DEF Contracted, Word, Digit, Signs, Lines, Trailing, Blanks
    <2> SUFFICES ASSUME NEW b \in 1 .. 7 PROVE Alternatives(s)[b] \in SUBSET Int
        OBVIOUS
    <2>2. b = 1 \/ b = 2 \/ b = 3 \/ b = 4 \/ b = 5 \/ b = 6 \/ b = 7  OBVIOUS
    <2> QED BY <2>1, <2>2, PatternAlternatives, Zenon
<1>3. T \in SUBSET Int /\ n \in T /\ \A m \in T : m <= n  BY <1>2 DEF Cuts
<1> HIDE DEF T
<1>4. Max(T) = n  BY <1>3, MaxIs
<1> QED BY <1>1, <1>4 DEF T

(* The cases of PieceLength. *)
LEMMA ContractionCase ==
    ASSUME NEW s \in Seq(Byte), s # <<>>
    PROVE  IF ContractionLength(s) # 0 THEN Cuts(s, 1, ContractionLength(s))
           ELSE Alternatives(s)[1] = {}
<1> DEFINE T == Contracted(s) \cup {0}
<1>1. Len(s) \in Nat /\ T \in SUBSET (0 .. Len(s)) /\ T # {}
    BY DEF Contracted
<1>2. PICK x \in T : \A y \in T : y <= x
    <2> HIDE DEF T
    <2> QED BY <1>1, Greatest
<1>3. ContractionLength(s) = x
    <2>1. T \in SUBSET Int  BY <1>1
    <2>2. ContractionLength(s) = Max(T)  BY ContractionIs
    <2> HIDE DEF T
    <2> QED BY <1>2, <2>1, <2>2, MaxIs
<1>4. x # 0 => x \in Contracted(s)  BY <1>2
<1>5. x = 0 => Contracted(s) = {}
    <2> SUFFICES ASSUME x = 0, NEW y \in Contracted(s) PROVE FALSE
        OBVIOUS
    <2>1. y \in 1 .. Len(s)  BY DEF Contracted
    <2>2. y <= 0  BY <1>2
    <2> QED BY <1>1, <2>1, <2>2
<1>6. \A y \in Contracted(s) : y <= x  BY <1>2
<1>7. Alternatives(s)[1] = Contracted(s)  BY PatternAlternatives
<1> QED BY <1>3, <1>4, <1>5, <1>6, <1>7 DEF Cuts

(* A word begins with a letter, or with one other byte before a letter. *)
LEMMA WordCase ==
    ASSUME NEW s \in Seq(Byte), s # <<>>, Alternatives(s)[1] = {}
    PROVE  /\ s[1] \in Letter => Cuts(s, 2, RunEnd(s, 1, Letter) - 1)
           /\ s[1] \notin Letter \cup Newline \cup Number /\ Len(s) > 1 /\ s[2] \in Letter
                => Cuts(s, 2, RunEnd(s, 2, Letter) - 1)
           /\ s[1] \notin Letter
              /\ ~(s[1] \notin Newline \cup Number /\ Len(s) > 1 /\ s[2] \in Letter)
                => Alternatives(s)[2] = {}
<1>1. Len(s) \in Nat \ {0} /\ s[1] \in Byte  OBVIOUS
<1>2. Alternatives(s)[2] = Word(s)  BY PatternAlternatives
<1>3. \A b \in 1 .. 2 - 1 : Alternatives(s)[b] = {}
    <2>1. \A b \in 1 .. 2 - 1 : b = 1  OBVIOUS
    <2> QED BY <2>1
<1>4. ASSUME NEW n \in Word(s)
      PROVE  /\ n \in 1 .. Len(s)
             /\ \/ All(s, 1, n, Letter)
                \/ n >= 2 /\ s[1] \in Byte \ (Newline \cup Letter \cup Number) /\ All(s, 2, n, Letter)
    <2>1. PICK k \in {0, 1} :
              /\ k < n /\ All(s, 1, k, Byte \ (Newline \cup Letter \cup Number))
              /\ All(s, k + 1, n, Letter)
        BY DEF Word
    <2>2. n \in 1 .. Len(s)  BY DEF Word
    <2>3. CASE k = 0  BY <2>1, <2>2, <2>3
    <2>4. CASE k = 1  BY <2>1, <2>2, <2>4 DEF All
    <2> QED BY <2>3, <2>4
<1>5. ASSUME s[1] \in Letter PROVE Cuts(s, 2, RunEnd(s, 1, Letter) - 1)
    <2> DEFINE r == RunEnd(s, 1, Letter)
    <2>1. /\ r \in 1 .. Len(s) + 1 /\ \A j \in 1 .. r - 1 : s[j] \in Letter
          /\ r <= Len(s) => s[r] \notin Letter
        BY <1>1, RunEnds
    <2> HIDE DEF r
    <2>2. r - 1 \in 1 .. Len(s)
        <3>1. r # 1  BY <1>1, <1>5, <2>1
        <3> QED BY <1>1, <2>1, <3>1
    <2>3. r - 1 \in Word(s)
        <3>1. 0 \in {0, 1} /\ 0 < r - 1  BY <2>2
        <3>2. All(s, 1, 0, Byte \ (Newline \cup Letter \cup Number))  BY DEF All
        <3>3. All(s, 0 + 1, r - 1, Letter)  BY <2>1 DEF All
        <3> QED BY <2>2, <3>1, <3>2, <3>3 DEF Word
    <2>4. ASSUME NEW n \in Word(s) PROVE n <= r - 1
        <3> SUFFICES ASSUME ~(n <= r - 1) PROVE FALSE
            OBVIOUS
        <3>1. All(s, 1, n, Letter) /\ n \in 1 .. Len(s)  BY <1>4, <1>5
        <3>2. r \in 1 .. n /\ r <= Len(s)  BY <1>1, <2>1, <3>1
        <3> QED BY <2>1, <3>1, <3>2 DEF All
    <2> QED BY <1>2, <1>3, <2>3, <2>4 DEF Cuts, r
<1>6. ASSUME s[1] \notin Letter \cup Newline \cup Number, Len(s) > 1, s[2] \in Letter
      PROVE  Cuts(s, 2, RunEnd(s, 2, Letter) - 1)
    <2> DEFINE r == RunEnd(s, 2, Letter)
    <2>1. /\ r \in 2 .. Len(s) + 1 /\ \A j \in 2 .. r - 1 : s[j] \in Letter
          /\ r <= Len(s) => s[r] \notin Letter
        <3>1. 2 \in 1 .. Len(s) + 1  BY <1>1, <1>6
        <3> QED BY <3>1, RunEnds
    <2> HIDE DEF r
    <2>2. r - 1 \in 2 .. Len(s)
        <3>1. r # 2  BY <1>1, <1>6, <2>1
        <3> QED BY <1>1, <2>1, <3>1
    <2>3. r - 1 \in Word(s)
        <3>1. 1 \in {0, 1} /\ 1 < r - 1 + 0  BY <2>2
        <3>2. All(s, 1, 1, Byte \ (Newline \cup Letter \cup Number))  BY <1>1, <1>6 DEF All
        <3>3. All(s, 1 + 1, r - 1, Letter)  BY <2>1 DEF All
        <3>4. 1 < r - 1 /\ r - 1 \in 1 .. Len(s)  BY <1>1, <2>2
        <3> QED BY <3>1, <3>2, <3>3, <3>4 DEF Word
    <2>4. ASSUME NEW n \in Word(s) PROVE n <= r - 1
        <3> SUFFICES ASSUME ~(n <= r - 1) PROVE FALSE
            OBVIOUS
        <3>1. n \in 1 .. Len(s)  BY <1>4
        <3>2. ~All(s, 1, n, Letter)  BY <1>6, <3>1 DEF All
        <3>3. All(s, 2, n, Letter) /\ n >= 2  BY <1>4, <3>2
        <3>4. r \in 2 .. n /\ r <= Len(s)  BY <1>1, <2>1, <3>1
        <3> QED BY <2>1, <3>3, <3>4 DEF All
    <2> QED BY <1>2, <1>3, <2>3, <2>4 DEF Cuts, r
<1>7. ASSUME s[1] \notin Letter,
             ~(s[1] \notin Newline \cup Number /\ Len(s) > 1 /\ s[2] \in Letter)
      PROVE  Alternatives(s)[2] = {}
    <2> SUFFICES ASSUME NEW n \in Word(s) PROVE FALSE
        BY <1>2
    <2>1. n \in 1 .. Len(s)  BY <1>4
    <2>2. ~All(s, 1, n, Letter)  BY <1>7, <2>1 DEF All
    <2>3. /\ n >= 2 /\ s[1] \in Byte \ (Newline \cup Letter \cup Number) /\ All(s, 2, n, Letter)
        BY <1>4, <2>2
    <2>4. s[2] \in Letter /\ Len(s) > 1  BY <1>1, <2>1, <2>3 DEF All
    <2> QED BY <1>7, <2>3, <2>4
<1> QED BY <1>5, <1>6, <1>7

(* A digit stands alone. *)
LEMMA DigitCase ==
    ASSUME NEW s \in Seq(Byte), s # <<>>, \A b \in 1 .. 2 : Alternatives(s)[b] = {}
    PROVE  IF s[1] \in Number THEN Cuts(s, 3, 1) ELSE Alternatives(s)[3] = {}
<1>1. Len(s) \in Nat \ {0}  OBVIOUS
<1>2. Alternatives(s)[3] = Digit(s)  BY PatternAlternatives
<1>3. \A n \in Digit(s) : n = 1 /\ s[1] \in Number  BY DEF Digit
<1>4. s[1] \in Number => 1 \in Digit(s)  BY <1>1 DEF Digit
<1>5. \A b \in 1 .. 3 - 1 : b \in 1 .. 2  OBVIOUS
<1>6. \A n \in Digit(s) : n <= 1  BY <1>3
<1>7. s[1] \notin Number => Digit(s) = {}  BY <1>3
<1>8. 3 \in 1 .. 7  OBVIOUS
<1> HIDE DEF Digit
<1> QED BY <1>2, <1>4, <1>5, <1>6, <1>7, <1>8 DEF Cuts

(* Punctuation, with a blank before it and newlines after it. *)
LEMMA SignsCase ==
    ASSUME NEW s \in Seq(Byte), s # <<>>, \A b \in 1 .. 3 : Alternatives(s)[b] = {},
           NEW from, from = IF s[1] = 32 /\ Len(s) > 1 /\ s[2] \in Punctuation THEN 2 ELSE 1
    PROVE  IF s[from] \in Punctuation
           THEN Cuts(s, 4, RunEnd(s, RunEnd(s, from, Punctuation), Newline) - 1)
           ELSE Alternatives(s)[4] = {}
<1>1. Len(s) \in Nat \ {0} /\ s[1] \in Byte /\ from \in 1 .. Len(s) /\ from \in {1, 2}  OBVIOUS
<1>2. Alternatives(s)[4] = Signs(s)  BY PatternAlternatives
<1>3. \A b \in 1 .. 4 - 1 : Alternatives(s)[b] = {}
    <2>1. \A b \in 1 .. 4 - 1 : b \in 1 .. 3  OBVIOUS
    <2> QED BY <2>1
<1>4. 32 \notin Punctuation  BY DEF Punctuation, Space
<1>5. ASSUME NEW n \in Signs(s)
      PROVE  /\ n \in 1 .. Len(s) /\ s[from] \in Punctuation
             /\ \E m \in from .. n : All(s, from, m, Punctuation) /\ All(s, m + 1, n, Newline)
    <2>1. n \in 1 .. Len(s)  BY DEF Signs
    <2>0. PICK k \in {0, 1} : \E m \in k + 1 .. n :
              All(s, 1, k, {32}) /\ All(s, k + 1, m, Punctuation) /\ All(s, m + 1, n, Newline)
        BY DEF Signs
    <2>2. PICK m \in k + 1 .. n :
              All(s, 1, k, {32}) /\ All(s, k + 1, m, Punctuation) /\ All(s, m + 1, n, Newline)
        BY <2>0
    <2>3. s[k + 1] \in Punctuation  BY <2>2 DEF All
    <2>4. k + 1 = from
        <3>1. CASE k = 0
            <4>1. s[1] \in Punctuation  BY <2>3, <3>1
            <4> QED BY <1>4, <3>1, <4>1
        <3>2. CASE k = 1
            <4>1. s[2] \in Punctuation  BY <2>3, <3>2
            <4>2. s[1] = 32  BY <2>2, <3>2 DEF All
            <4>3. Len(s) > 1  BY <1>1, <2>1, <2>2, <3>2
            <4> QED BY <3>2, <4>1, <4>2, <4>3
        <3> QED BY <3>1, <3>2
    <2> QED BY <2>1, <2>2, <2>3, <2>4
<1>6. CASE s[from] \in Punctuation
    <2> DEFINE m == RunEnd(s, from, Punctuation)  r == RunEnd(s, m, Newline)
    <2>1. /\ m \in from .. Len(s) + 1 /\ \A j \in from .. m - 1 : s[j] \in Punctuation
          /\ m <= Len(s) => s[m] \notin Punctuation
        <3>1. from \in 1 .. Len(s) + 1  BY <1>1
        <3> QED BY <3>1, RunEnds
    <2> HIDE DEF m
    <2>2. /\ r \in m .. Len(s) + 1 /\ \A j \in m .. r - 1 : s[j] \in Newline
          /\ r <= Len(s) => s[r] \notin Newline
        <3>1. m \in 1 .. Len(s) + 1  BY <1>1, <2>1
        <3> QED BY <3>1, RunEnds
    <2> HIDE DEF r
    <2>3. m \in Nat /\ r \in Nat /\ m > from /\ m <= r /\ r <= Len(s) + 1
        <3>1. m # from  BY <1>1, <1>6, <2>1
        <3> QED BY <1>1, <2>1, <2>2, <3>1
    <2>4. r - 1 \in Signs(s)
        <3>1. from - 1 \in {0, 1}  BY <1>1
        <3>2. m - 1 \in (from - 1) + 1 .. r - 1  BY <1>1, <2>3
        <3>3. All(s, 1, from - 1, {32})
            <4>1. CASE from = 1  BY <4>1 DEF All
            <4>2. CASE from = 2
                <5>1. s[1] = 32  BY <4>2
                <5>2. \A j \in 1 .. from - 1 : j = 1  BY <4>2
                <5> QED BY <5>1, <5>2 DEF All
            <4> QED BY <1>1, <4>1, <4>2
        <3>4. All(s, (from - 1) + 1, m - 1, Punctuation)
            <4>1. (from - 1) + 1 = from  BY <1>1
            <4> QED BY <2>1, <4>1 DEF All
        <3>5. All(s, (m - 1) + 1, r - 1, Newline)
            <4>1. (m - 1) + 1 = m  BY <2>3
            <4> QED BY <2>2, <4>1 DEF All
        <3>6. r - 1 \in 1 .. Len(s)  BY <1>1, <2>3
        <3> QED BY <3>1, <3>2, <3>3, <3>4, <3>5, <3>6 DEF Signs
    <2>5. ASSUME NEW n \in Signs(s) PROVE n <= r - 1
        <3> SUFFICES ASSUME ~(n <= r - 1) PROVE FALSE
            OBVIOUS
        <3>1. PICK l \in from .. n : All(s, from, l, Punctuation) /\ All(s, l + 1, n, Newline)
            BY <1>5
        <3>2. n \in 1 .. Len(s) /\ r <= n /\ r <= Len(s)
            <4>1. n \in 1 .. Len(s)  BY <1>5
            <4> QED BY <1>1, <2>3, <4>1
        <3>3. l < m
            <4> SUFFICES ASSUME ~(l < m) PROVE FALSE
                OBVIOUS
            <4>1. m \in from .. l /\ m <= Len(s)  BY <1>1, <2>3, <3>2
            <4> QED BY <2>1, <3>1, <4>1 DEF All
        <3>4. r \in l + 1 .. n  BY <1>1, <2>3, <3>2, <3>3
        <3> QED BY <2>2, <3>1, <3>2, <3>4 DEF All
    <2>6. 4 \in 1 .. 7  OBVIOUS
    <2> QED BY <1>2, <1>3, <1>6, <2>4, <2>5, <2>6 DEF Cuts, m, r
<1>7. CASE s[from] \notin Punctuation
    <2>1. Signs(s) = {}  BY <1>5, <1>7
    <2> QED BY <1>2, <1>7, <2>1
<1> QED BY <1>6, <1>7

(* White space, of which the last byte is left to a word after it. *)
LEMMA BlankCase ==
    ASSUME NEW s \in Seq(Byte), s # <<>>, \A b \in 1 .. 4 : Alternatives(s)[b] = {},
           s[1] \in Space
    PROVE  \E a : Cuts(s, a, Max({1, BlankLength(s)}))
<1> DEFINE end == RunEnd(s, 1, Space)
           newlines == {n \in 1 .. end - 1 : s[n] \in Newline}
<1>1. Len(s) \in Nat \ {0}  OBVIOUS
<1>2. /\ end \in 1 .. Len(s) + 1 /\ \A j \in 1 .. end - 1 : s[j] \in Space
      /\ end <= Len(s) => s[end] \notin Space
    BY <1>1, RunEnds
<1>0. BlankLength(s) = IF newlines # {} THEN Max(newlines)
                       ELSE IF end <= Len(s) /\ end > 2 THEN end - 2
                       ELSE end - 1
    BY DEF BlankLength
<1> HIDE DEF end
<1>3. end \in 2 .. Len(s) + 1
    <2>1. end # 1  BY <1>1, <1>2
    <2> QED BY <1>1, <1>2, <2>1
<1>4. \A n \in 1 .. Len(s) : All(s, 1, n, Space) <=> n <= end - 1
    <2> TAKE n \in 1 .. Len(s)
    <2>1. ASSUME n <= end - 1 PROVE All(s, 1, n, Space)
        <3>1. \A j \in 1 .. n : j \in 1 .. end - 1  BY <1>1, <1>3, <2>1
        <3> QED BY <1>2, <3>1 DEF All
    <2>2. ASSUME ~(n <= end - 1) PROVE ~All(s, 1, n, Space)
        <3>1. end \in 1 .. n /\ end <= Len(s)  BY <1>1, <1>3, <2>2
        <3> QED BY <1>2, <3>1 DEF All
    <2> QED BY <2>1, <2>2
<1>5. /\ Alternatives(s)[5] = Lines(s) /\ Alternatives(s)[6] = Trailing(s)
      /\ Alternatives(s)[7] = Blanks(s)
    BY PatternAlternatives
<1>6. newlines = Lines(s) /\ newlines \in SUBSET (1 .. Len(s))
    <2>1. \A n : n \in 1 .. end - 1 <=> n \in 1 .. Len(s) /\ n <= end - 1  BY <1>1, <1>3
    <2> QED BY <1>4, <2>1 DEF Lines
<1>7. \A x \in Int : x >= 1 => Max({1, x}) = x
    <2> TAKE x \in Int
    <2> SUFFICES ASSUME x >= 1 PROVE Max({1, x}) = x
        OBVIOUS
    <2> DEFINE T == {1, x}
    <2>1. T \in SUBSET Int /\ x \in T /\ \A y \in T : y <= x  OBVIOUS
    <2> HIDE DEF T
    <2>2. Max(T) = x  BY <2>1, MaxIs
    <2> QED BY <2>2 DEF T
<1>8. CASE newlines # {}
    <2> HIDE DEF newlines
    <2>1. newlines \in SUBSET (0 .. Len(s))  BY <1>1, <1>6
    <2>2. PICK x \in newlines : \A y \in newlines : y <= x  BY <1>1, <1>8, <2>1, Greatest
    <2>3. newlines \in SUBSET Int  BY <1>6
    <2>4. Max(newlines) = x  BY <2>2, <2>3, MaxIs
    <2>5. x \in Int /\ x >= 1  BY <1>6, <2>2
    <2>6. Max({1, BlankLength(s)}) = x  BY <1>0, <1>7, <1>8, <2>4, <2>5
    <2>7. \A b \in 1 .. 5 - 1 : b \in 1 .. 4  OBVIOUS
    <2>8. 5 \in 1 .. 7  OBVIOUS
    <2>9. Cuts(s, 5, x)  BY <1>5, <1>6, <2>2, <2>7, <2>8 DEF Cuts
    <2> QED BY <2>6, <2>9
<1>9. CASE newlines = {}
    <2>1. Lines(s) = {}  BY <1>6, <1>9
    <2> HIDE DEF newlines
    <2>2. \A b \in 1 .. 5 : Alternatives(s)[b] = {}
        <3>1. \A b \in 1 .. 5 : b \in 1 .. 4 \/ b = 5  OBVIOUS
        <3> QED BY <1>5, <2>1, <3>1
    <2>3. CASE ~(end <= Len(s) /\ end = 2)
        <3> DEFINE x == IF end <= Len(s) THEN end - 2 ELSE end - 1
        <3>1. x \in 1 .. Len(s) /\ x <= end - 1  BY <1>1, <1>3, <2>3
        <3>2. BlankLength(s) = x  BY <1>0, <1>1, <1>3, <1>9, <2>3
        <3>3. x \in Trailing(s)
            <4>1. All(s, 1, x, Space)  BY <1>4, <3>1
            <4>2. CASE end <= Len(s)
                <5>1. x + 1 \in 1 .. end - 1  BY <1>1, <1>3, <2>3, <4>2
                <5>2. s[x + 1] \in Space  BY <1>2, <5>1
                <5> HIDE DEF x
                <5> QED BY <3>1, <4>1, <5>2 DEF Trailing
            <4>3. CASE ~(end <= Len(s))
                <5>1. x = Len(s)  BY <1>1, <1>3, <4>3
                <5> HIDE DEF x
                <5> QED BY <3>1, <4>1, <5>1 DEF Trailing
            <4> QED BY <4>2, <4>3
        <3>4. ASSUME NEW n \in Trailing(s) PROVE n <= x
            <4>1. n \in 1 .. Len(s) /\ All(s, 1, n, Space) /\ (n = Len(s) \/ s[n + 1] \in Space)
                BY DEF Trailing
            <4>2. n <= end - 1  BY <1>4, <4>1
            <4>3. CASE end <= Len(s)
                <5>1. n # end - 1
                    <6> SUFFICES ASSUME n = end - 1 PROVE FALSE
                        OBVIOUS
                    <6>1. n + 1 = end /\ n # Len(s)  BY <1>1, <1>3, <4>3
                    <6> QED BY <1>2, <4>1, <4>3, <6>1
                <5> QED BY <1>1, <1>3, <4>1, <4>2, <4>3, <5>1
            <4>4. CASE ~(end <= Len(s))  BY <4>2, <4>4
            <4> QED BY <4>3, <4>4
        <3> HIDE DEF x
        <3>5. \A b \in 1 .. 6 - 1 : b \in 1 .. 5  OBVIOUS
        <3>6. 6 \in 1 .. 7 /\ x \in Int /\ x >= 1  BY <3>1
        <3>7. Max({1, BlankLength(s)}) = x  BY <1>7, <3>2, <3>6
        <3>8. Cuts(s, 6, x)  BY <1>5, <2>2, <3>3, <3>4, <3>5, <3>6 DEF Cuts
        <3> QED BY <3>7, <3>8
    <2>4. CASE end <= Len(s) /\ end = 2
        <3>1. BlankLength(s) = 1  BY <1>0, <1>9, <2>4
        <3>2. Max({1, BlankLength(s)}) = 1  BY <1>7, <3>1
        <3>3. \A n \in 1 .. Len(s) : All(s, 1, n, Space) <=> n = 1  BY <1>1, <1>4, <2>4
        <3>4. Trailing(s) = {}
            <4> SUFFICES ASSUME NEW n \in Trailing(s) PROVE FALSE
                OBVIOUS
            <4>1. n \in 1 .. Len(s) /\ All(s, 1, n, Space) /\ (n = Len(s) \/ s[n + 1] \in Space)
                BY DEF Trailing
            <4>2. n = 1  BY <3>3, <4>1
            <4>3. n + 1 = end /\ n # Len(s)
                <5>1. end = 2 /\ end <= Len(s)  BY <2>4
                <5>2. Len(s) # 1
                    <6>1. 2 <= Len(s)  BY <5>1
                    <6>2. ~(2 <= 1)  OBVIOUS
                    <6> QED BY <6>1, <6>2, Zenon
                <5>3. n + 1 = 2  BY <4>2
                <5> QED BY <4>2, <5>1, <5>2, <5>3
            <4> QED BY <1>2, <2>4, <4>1, <4>3
        <3>5. 1 \in Blanks(s) /\ \A n \in Blanks(s) : n <= 1
            <4>1. 1 \in 1 .. Len(s)  BY <1>1
            <4>2. \A n \in Blanks(s) : n \in 1 .. Len(s) /\ All(s, 1, n, Space)  BY DEF Blanks
            <4>3. \A n \in Blanks(s) : n = 1  BY <3>3, <4>2
            <4>4. 1 \in Blanks(s)  BY <3>3, <4>1 DEF Blanks
            <4> QED BY <4>3, <4>4
        <3>6. \A b \in 1 .. 7 - 1 : b \in 1 .. 5 \/ b = 6  OBVIOUS
        <3>7. \A b \in 1 .. 7 - 1 : Alternatives(s)[b] = {}  BY <1>5, <2>2, <3>4, <3>6
        <3>8. 7 \in 1 .. 7  OBVIOUS
        <3>9. Cuts(s, 7, 1)  BY <1>5, <3>5, <3>7, <3>8 DEF Cuts
        <3> QED BY <3>2, <3>9
    <2> QED BY <2>3, <2>4
<1> QED BY <1>8, <1>9

(* PreTokenize cuts where the pattern does, within the text. *)
LEMMA Cut ==
    ASSUME NEW s \in Seq(Byte), s # <<>>
    PROVE  /\ \E a : Cuts(s, a, PieceLength(s))
           /\ PieceLength(s) \in 1 .. Len(s)
<1> DEFINE from == IF s[1] = 32 /\ Len(s) > 1 /\ s[2] \in Punctuation THEN 2 ELSE 1
           letter == s[1] \notin Newline \cup Number /\ Len(s) > 1 /\ s[2] \in Letter
<1>1. PieceLength(s) =
        IF ContractionLength(s) # 0 THEN ContractionLength(s)
        ELSE IF s[1] \in Letter THEN RunEnd(s, 1, Letter) - 1
        ELSE IF letter THEN RunEnd(s, 2, Letter) - 1
        ELSE IF s[1] \in Number THEN 1
        ELSE IF s[from] \in Punctuation THEN RunEnd(s, RunEnd(s, from, Punctuation), Newline) - 1
        ELSE Max({1, BlankLength(s)})
    BY Zenon DEF PieceLength
<1>2. Len(s) \in Nat \ {0} /\ s[1] \in Byte  OBVIOUS
<1>3. \E a : Cuts(s, a, PieceLength(s))
    <2>1. CASE ContractionLength(s) # 0  BY <1>1, <2>1, ContractionCase
    <2>2. CASE ContractionLength(s) = 0
        <3>1. Alternatives(s)[1] = {}  BY <2>2, ContractionCase
        <3>2. CASE s[1] \in Letter  BY <1>1, <2>2, <3>1, <3>2, WordCase
        <3>3. CASE s[1] \notin Letter /\ letter
            <4>1. s[1] \notin Letter \cup Newline \cup Number /\ Len(s) > 1 /\ s[2] \in Letter
                BY <3>3
            <4> QED BY <1>1, <2>2, <3>1, <3>3, <4>1, WordCase
        <3>4. CASE s[1] \notin Letter /\ ~letter
            <4>1. Alternatives(s)[2] = {}  BY <3>1, <3>4, WordCase
            <4>2. \A b \in 1 .. 2 : Alternatives(s)[b] = {}
                <5>1. \A b \in 1 .. 2 : b = 1 \/ b = 2  OBVIOUS
                <5> QED BY <3>1, <4>1, <5>1
            <4>3. CASE s[1] \in Number
                <5>1. PieceLength(s) = 1  BY <1>1, <2>2, <3>4, <4>3
                <5> QED BY <4>2, <4>3, <5>1, DigitCase
            <4>4. CASE s[1] \notin Number
                <5>1. \A b \in 1 .. 3 : Alternatives(s)[b] = {}
                    <6>1. Alternatives(s)[3] = {}  BY <4>2, <4>4, DigitCase
                    <6>2. \A b \in 1 .. 3 : b \in 1 .. 2 \/ b = 3  OBVIOUS
                    <6> QED BY <4>2, <6>1, <6>2
                <5>2. IF s[from] \in Punctuation
                      THEN Cuts(s, 4, RunEnd(s, RunEnd(s, from, Punctuation), Newline) - 1)
                      ELSE Alternatives(s)[4] = {}
                    BY <5>1, SignsCase
                <5>3. CASE s[from] \in Punctuation
                    <6> HIDE DEF from
                    <6> QED BY <1>1, <2>2, <3>4, <4>4, <5>2, <5>3
                <5>4. CASE s[from] \notin Punctuation
                    <6>1. \A b \in 1 .. 4 : Alternatives(s)[b] = {}
                        <7>1. \A b \in 1 .. 4 : b \in 1 .. 3 \/ b = 4  OBVIOUS
                        <7> QED BY <5>1, <5>2, <5>4, <7>1
                    <6>2. s[1] \in Space
                        <7>1. s[1] # 32 => s[1] \notin Punctuation  BY <5>4
                        <7>2. 32 \in Space  BY DEF Space
                        <7> QED BY <1>2, <3>4, <4>4, <7>1, <7>2 DEF Punctuation
                    <6>3. PieceLength(s) = Max({1, BlankLength(s)})
                        <7> HIDE DEF from
                        <7> QED BY <1>1, <2>2, <3>4, <4>4, <5>4
                    <6> QED BY <6>1, <6>2, <6>3, BlankCase
                <5> QED BY <5>3, <5>4
            <4> QED BY <4>3, <4>4
        <3> QED BY <3>2, <3>3, <3>4
    <2> QED BY <2>1, <2>2
<1>4. PieceLength(s) \in 1 .. Len(s)
    <2>1. PICK a : Cuts(s, a, PieceLength(s))  BY <1>3
    <2>2. a = 1 \/ a = 2 \/ a = 3 \/ a = 4 \/ a = 5 \/ a = 6 \/ a = 7  BY <2>1 DEF Cuts
    <2>3. PieceLength(s) \in Alternatives(s)[a]  BY <2>1 DEF Cuts
    <2> DEFINE l == PieceLength(s)
    <2>4. l \in Contracted(s) \/ l \in Word(s) \/ l \in Digit(s) \/ l \in Signs(s)
          \/ l \in Lines(s) \/ l \in Trailing(s) \/ l \in Blanks(s)
        BY <2>2, <2>3, PatternAlternatives, Zenon
    <2> HIDE DEF l
    <2>5. l \in 1 .. Len(s)
        BY <2>4 DEF Contracted, Word, Digit, Signs, Lines, Trailing, Blanks
    <2> QED BY <2>5 DEF l
<1> QED BY <1>3, <1>4

(* PreTokenize cuts every text where the pattern does. *)
LEMMA Splits ==
    ASSUME NEW s \in Seq(Byte), s # <<>>
    PROVE  LET alternatives == Alternatives(s)
               matching == {b \in DOMAIN alternatives : alternatives[b] # {}}
           IN PieceLength(s) = Max(alternatives[Min(matching)])
<1>1. PICK a : Cuts(s, a, PieceLength(s))  BY Cut
<1> QED BY <1>1, CutIs

(* The regroupings that the steps of Encode come down to. *)
Found(d, o, a, r) ==
    (((d \o <<>>) \o <<>>) \o <<>>) \o ((o \o a) \o r) = (((d \o <<>>) \o o) \o a) \o r

Taken(d, f, o, a, r) ==
    (((d \o <<>>) \o (f \o o)) \o a) \o r = (((d \o f) \o o) \o a) \o r

Emitted(d, f, o, a, r) ==
    (((d \o f) \o o) \o a) \o r = ((((d \o f) \o <<>>) \o o) \o a) \o r

Pushed(d, a, r) ==
    (((d \o <<>>) \o <<>>) \o a) \o r = ((((d \o a) \o <<>>) \o <<>>) \o <<>>) \o r

(* Each of them holds: only the brackets differ. *)
LEMMA Regrouped ==
    ASSUME NEW S
    PROVE  /\ \A d, o, a, r \in Seq(S) : Found(d, o, a, r)
           /\ \A d, f, o, a, r \in Seq(S) : Taken(d, f, o, a, r) /\ Emitted(d, f, o, a, r)
           /\ \A d, a, r \in Seq(S) : Pushed(d, a, r)
           /\ \A r \in Seq(S) : (((<<>> \o <<>>) \o <<>>) \o <<>>) \o r = r
<1>0. Regroups(S)  BY Regroup, Zenon
<1>1. \A x \in Seq(S) : x \o <<>> = x /\ <<>> \o x = x /\ <<>> \in Seq(S)  OBVIOUS
<1>2. \A x, y \in Seq(S) : x \o y \in Seq(S)  OBVIOUS
<1>3. \A d, o, a, r \in Seq(S) : Found(d, o, a, r)
    <2> TAKE d, o, a, r \in Seq(S)
    <2>1. d \o <<>> = d  BY <1>1, Zenon
    <2>2. ((d \o o) \o a) \o r = (d \o (o \o a)) \o r
        <3>1. (d \o o) \o a = d \o (o \o a)  BY <1>0, Zenon DEF Regroups
        <3> QED BY <3>1, Zenon
    <2>3. (d \o (o \o a)) \o r = d \o ((o \o a) \o r)
        <3>1. o \o a \in Seq(S)  BY <1>2, Zenon
        <3> QED BY <1>0, <3>1, ZenonT(40) DEF Regroups
    <2> QED BY <2>1, <2>2, <2>3, Zenon DEF Found
<1>4. \A d, f, o, a, r \in Seq(S) : Taken(d, f, o, a, r) /\ Emitted(d, f, o, a, r)
    <2> TAKE d, f, o, a, r \in Seq(S)
    <2>1. d \o <<>> = d /\ d \o f \in Seq(S)  BY <1>1, <1>2, Zenon
    <2>2. (d \o f) \o <<>> = d \o f  BY <1>1, <2>1, Zenon
    <2>3. d \o (f \o o) = (d \o f) \o o  BY <1>0, Zenon DEF Regroups
    <2> QED BY <2>1, <2>2, <2>3, Zenon DEF Taken, Emitted
<1>5. \A d, a, r \in Seq(S) : Pushed(d, a, r)
    <2> TAKE d, a, r \in Seq(S)
    <2>1. d \o <<>> = d /\ d \o a \in Seq(S)  BY <1>1, <1>2, Zenon
    <2>2. (d \o a) \o <<>> = d \o a  BY <1>1, <2>1, Zenon
    <2> QED BY <2>1, <2>2, Zenon DEF Pushed
<1>6. \A r \in Seq(S) : (((<<>> \o <<>>) \o <<>>) \o <<>>) \o r = r
    <2> TAKE r \in Seq(S)
    <2>1. <<>> \o <<>> = <<>> /\ <<>> \o r = r  BY <1>1, Zenon
    <2> QED BY <2>1, Zenon
<1> QED BY <1>3, <1>4, <1>5, <1>6

-----------------------------------------------------------------------------
(***************************************************************************)
(* The steps of Encode.                                                    *)
(***************************************************************************)
(* Decoding goes token by token. *)
Texts(v, ids) == [n \in DOMAIN ids |-> v[ids[n]]]

(* Decoding two lists of tokens in a row is decoding them one by one. *)
LEMMA Decodes ==
    ASSUME NEW v \in Seq(Seq(Byte)), NEW a \in Seq(DOMAIN v), NEW b \in Seq(DOMAIN v)
    PROVE  /\ Texts(v, a) \in Seq(Seq(Byte)) /\ FlattenSeq(Texts(v, a)) \in Seq(Byte)
           /\ a \o b \in Seq(DOMAIN v)
           /\ FlattenSeq(Texts(v, a \o b)) = FlattenSeq(Texts(v, a)) \o FlattenSeq(Texts(v, b))
<1>1. /\ \A i \in DOMAIN v : v[i] \in Seq(Byte)
      /\ a \o b \in Seq(DOMAIN v)
    OBVIOUS
<1>2. \A ids \in Seq(DOMAIN v) :
         /\ Texts(v, ids) \in Seq(Seq(Byte)) /\ Len(Texts(v, ids)) = Len(ids)
         /\ \A i \in 1 .. Len(ids) : Texts(v, ids)[i] = v[ids[i]]
    <2> TAKE ids \in Seq(DOMAIN v)
    <2>1. DOMAIN ids = 1 .. Len(ids) /\ Len(ids) \in Nat
          /\ \A i \in 1 .. Len(ids) : ids[i] \in DOMAIN v
        OBVIOUS
    <2>2. \A i \in 1 .. Len(ids) : v[ids[i]] \in Seq(Byte)  BY <1>1, <2>1, Zenon
    <2>3. Texts(v, ids) = [i \in 1 .. Len(ids) |-> v[ids[i]]]  BY <2>1, Zenon DEF Texts
    <2> DEFINE w(i) == v[ids[i]]
    <2>4. \A i \in 1 .. Len(ids) : w(i) \in Seq(Byte)  BY <2>2
    <2> HIDE DEF w
    <2>5. /\ [i \in 1 .. Len(ids) |-> w(i)] \in Seq(Seq(Byte))
          /\ Len([i \in 1 .. Len(ids) |-> w(i)]) = Len(ids)
          /\ \A i \in 1 .. Len(ids) : [j \in 1 .. Len(ids) |-> w(j)][i] = w(i)
        BY <2>1, <2>4
    <2> QED BY <2>3, <2>5 DEF w
<1> DEFINE x == Texts(v, a)  y == Texts(v, b)  z == Texts(v, a \o b)
<1>3. /\ Len(a) \in Nat /\ Len(b) \in Nat /\ Len(a \o b) = Len(a) + Len(b)
      /\ \A i \in 1 .. Len(a) + Len(b) : (a \o b)[i] = IF i <= Len(a) THEN a[i] ELSE b[i - Len(a)]
    OBVIOUS
<1>4. /\ x \in Seq(Seq(Byte)) /\ Len(x) = Len(a) /\ \A i \in 1 .. Len(a) : x[i] = v[a[i]]
      /\ y \in Seq(Seq(Byte)) /\ Len(y) = Len(b) /\ \A i \in 1 .. Len(b) : y[i] = v[b[i]]
      /\ z \in Seq(Seq(Byte)) /\ Len(z) = Len(a) + Len(b)
      /\ \A i \in 1 .. Len(a) + Len(b) : z[i] = v[(a \o b)[i]]
    BY <1>1, <1>2, <1>3
<1> HIDE DEF x, y, z
<1>5. /\ x \o y \in Seq(Seq(Byte)) /\ Len(x \o y) = Len(a) + Len(b)
      /\ \A i \in 1 .. Len(a) + Len(b) : (x \o y)[i] = IF i <= Len(a) THEN x[i] ELSE y[i - Len(a)]
    <2>1. Joins(Seq(Byte))  BY Join, Zenon
    <2>2. /\ x \o y \in Seq(Seq(Byte)) /\ Len(x \o y) = Len(x) + Len(y)
          /\ \A i \in 1 .. Len(x) + Len(y) : (x \o y)[i] = IF i <= Len(x) THEN x[i] ELSE y[i - Len(x)]
        BY <1>4, <2>1, Zenon DEF Joins
    <2> QED BY <1>4, <2>2, Zenon
<1>6. ASSUME NEW i \in 1 .. Len(a) + Len(b) PROVE z[i] = (x \o y)[i]
    <2>1. i <= Len(a) => i \in 1 .. Len(a)  BY <1>3
    <2>2. ~(i <= Len(a)) => i - Len(a) \in 1 .. Len(b)  BY <1>3
    <2>3. z[i] = v[(a \o b)[i]]  BY <1>4
    <2>4. (a \o b)[i] = IF i <= Len(a) THEN a[i] ELSE b[i - Len(a)]  BY <1>3
    <2>5. (x \o y)[i] = IF i <= Len(a) THEN x[i] ELSE y[i - Len(a)]  BY <1>5
    <2> QED BY <1>4, <2>1, <2>2, <2>3, <2>4, <2>5, Zenon
<1>7. z = x \o y  BY <1>4, <1>5, <1>6, SeqEqual
<1>8. FlattenSeq(x \o y) = FlattenSeq(x) \o FlattenSeq(y)  BY <1>4, FlattenConcat
<1>9. FlattenSeq(x) \in Seq(Byte)  BY <1>4, Flattened
<1> QED BY <1>1, <1>4, <1>7, <1>8, <1>9 DEF x, y, z

(* The symbols of a piece before any merge. *)
LEMMA Singles ==
    \A x \in Seq(Byte) :
        /\ Bytes(x) \in Seq(Seq(Byte)) /\ Len(Bytes(x)) = Len(x)
        /\ \A i \in 1 .. Len(x) : Bytes(x)[i] = <<x[i]>>
        /\ FlattenSeq(Bytes(x)) = x
<1>1. \A x \in Seq(Byte) :
         /\ Bytes(x) \in Seq(Seq(Byte)) /\ Len(Bytes(x)) = Len(x)
         /\ \A i \in 1 .. Len(x) : Bytes(x)[i] = <<x[i]>>
    BY DEF Bytes
<1> DEFINE T == {n \in Nat : \A x \in Seq(Byte) : Len(x) = n => FlattenSeq(Bytes(x)) = x}
<1>2. 0 \in T
    <2> SUFFICES ASSUME NEW x \in Seq(Byte), Len(x) = 0 PROVE FlattenSeq(Bytes(x)) = x
        OBVIOUS
    <2>1. x = <<>>  OBVIOUS
    <2>2. Bytes(x) = <<>>  BY <2>1 DEF Bytes
    <2>3. FlattenSeq(<<>>) = <<>>  BY FlattenOne
    <2> QED BY <2>1, <2>2, <2>3, Zenon
<1>3. ASSUME NEW n \in Nat, n \in T PROVE n + 1 \in T
    <2> SUFFICES ASSUME NEW x \in Seq(Byte), Len(x) = n + 1 PROVE FlattenSeq(Bytes(x)) = x
        OBVIOUS
    <2>1. PICK u \in Seq(Byte), c \in Byte : x = Append(u, c)
        <3>1. x # <<>>  OBVIOUS
        <3> QED BY <3>1, SequenceEmptyOrAppend
    <2>2. Len(u) = n /\ x = u \o <<c>> /\ <<c>> \in Seq(Byte)
        <3>1. x = u \o <<c>>  BY <2>1, AppendIsConcat
        <3> QED BY <2>1, <3>1
    <2>3. Bytes(x) = Append(Bytes(u), <<c>>)
        <3> DEFINE a == Bytes(x)  d == Bytes(u)  e == <<c>>
        <3>1. /\ a \in Seq(Seq(Byte)) /\ Len(a) = n + 1 /\ \A i \in 1 .. n + 1 : a[i] = <<x[i]>>
              /\ d \in Seq(Seq(Byte)) /\ Len(d) = n /\ \A i \in 1 .. n : d[i] = <<u[i]>>
              /\ e \in Seq(Byte)
            BY <1>1, <2>2
        <3>2. \A i \in 1 .. n + 1 : IF i \in 1 .. n THEN x[i] = u[i] ELSE x[i] = c /\ i = n + 1
            BY <2>1, <2>2
        <3>3. \A i \in 1 .. n + 1 : IF i \in 1 .. n THEN a[i] = d[i] ELSE a[i] = e /\ i = n + 1
            <4> TAKE i \in 1 .. n + 1
            <4>1. a[i] = <<x[i]>>  BY <3>1
            <4>2. i \in 1 .. n => d[i] = <<u[i]>>  BY <3>1
            <4> HIDE DEF a, d
            <4> QED BY <3>2, <4>1, <4>2, Zenon DEF e
        <3> HIDE DEF a, d, e
        <3>4. /\ Append(d, e) \in Seq(Seq(Byte)) /\ Len(Append(d, e)) = n + 1
              /\ \A i \in 1 .. n + 1 : Append(d, e)[i] = IF i \in 1 .. n THEN d[i] ELSE e
            BY <3>1
        <3>5. \A i \in 1 .. n + 1 : a[i] = Append(d, e)[i]  BY <3>3, <3>4, Zenon
        <3>6. a = Append(d, e)  BY <3>1, <3>4, <3>5, SeqEqual
        <3> QED BY <3>6 DEF a, d, e
    <2>4. FlattenSeq(Append(Bytes(u), <<c>>)) = FlattenSeq(Bytes(u)) \o <<c>>
        <3>1. Bytes(u) \in Seq(Seq(Byte))  BY <1>1
        <3> QED BY <2>2, <3>1, FlattenAppend
    <2>5. FlattenSeq(Bytes(u)) = u  BY <1>3, <2>2
    <2> QED BY <2>2, <2>3, <2>4, <2>5, Zenon
<1>4. ASSUME NEW x \in Seq(Byte) PROVE FlattenSeq(Bytes(x)) = x
    <2>1. Len(x) \in Nat  OBVIOUS
    <2> HIDE DEF T
    <2>2. Len(x) \in T  BY <1>2, <1>3, <2>1, Induction
    <2> QED BY <2>2 DEF T
<1> QED BY <1>1, <1>4

(* TokenId of a known text is a token with that text. *)
LEMMA KnownId ==
    ASSUME vocabulary \in Seq(Seq(Byte)), NEW t, Known(t)
    PROVE  TokenId(t) \in DOMAIN vocabulary /\ vocabulary[TokenId(t)] = t
<1> DEFINE T == {id \in DOMAIN vocabulary : vocabulary[id] = t}
<1>1. T \in SUBSET Nat /\ T # {}
    <2>1. DOMAIN vocabulary = 1 .. Len(vocabulary)  OBVIOUS
    <2>2. PICK i \in 1 .. Len(vocabulary) : vocabulary[i] = t  BY DEF Known, Contains
    <2>3. i \in T  BY <2>1, <2>2
    <2> QED BY <2>1, <2>3
<1>2. PICK x \in T : \A y \in T : x <= y
    <2> HIDE DEF T
    <2> QED BY <1>1, Least
<1>3. TokenId(t) = x
    <2>1. T \in SUBSET Int /\ TokenId(t) = Min(T)  BY <1>1 DEF TokenId
    <2> HIDE DEF T
    <2> QED BY <1>2, <2>1, MinIs
<1> QED BY <1>2, <1>3

(* No ranked pair of w has a lower rank than r. *)
NoneBelow(w, r) ==
    \A q \in 1 .. Len(w) - 1, other \in DOMAIN merges :
        merges[other] = <<w[q], w[q + 1]>> => r <= other

(* Whenever there is a ranked pair, one of them is the best. *)
LEMMA BestExists ==
    ASSUME NEW S, merges \in Seq(S), NEW w, Ranked(w) # {}
    PROVE  \E r \in DOMAIN merges : BestPair(w) = merges[r] /\ NoneBelow(w, r)
<1> DEFINE R(m) == {x \in DOMAIN merges : merges[x] = <<w[m], w[m + 1]>>}
           T == {Rank(<<w[m], w[m + 1]>>) : m \in Ranked(w)}
<1>1. DOMAIN merges = 1 .. Len(merges) /\ Len(merges) \in Nat  OBVIOUS
<1>2. ASSUME NEW m \in Ranked(w)
      PROVE  /\ Rank(<<w[m], w[m + 1]>>) \in DOMAIN merges
             /\ \A x \in R(m) : Rank(<<w[m], w[m + 1]>>) <= x
    <2> DEFINE U == R(m)
    <2>1. U # {}
        <3>1. Contains(merges, <<w[m], w[m + 1]>>)  BY DEF Ranked
        <3> QED BY <1>1, <3>1 DEF Contains
    <2>2. U \in SUBSET Nat /\ U \in SUBSET Int /\ U \in SUBSET DOMAIN merges  BY <1>1
    <2>3. Rank(<<w[m], w[m + 1]>>) = Min(U)  BY DEF Rank
    <2> HIDE DEF U
    <2>4. PICK x \in U : \A y \in U : x <= y  BY <2>1, <2>2, Least
    <2>5. Min(U) = x  BY <2>2, <2>4, MinIs
    <2>6. \A y \in U : Min(U) <= y  BY <2>4, <2>5
    <2> QED BY <2>2, <2>3, <2>4, <2>5, <2>6 DEF U
<1>3. T \in SUBSET Nat /\ T \in SUBSET Int /\ T # {} /\ T \in SUBSET DOMAIN merges
    <2>1. T \in SUBSET DOMAIN merges  BY <1>2
    <2>2. T # {}  OBVIOUS
    <2> HIDE DEF T
    <2> QED BY <1>1, <2>1, <2>2
<1>4. BestPair(w) = merges[Min(T)]  BY DEF BestPair
<1>5. PICK r \in T : \A x \in T : r <= x
    <2> HIDE DEF T
    <2> QED BY <1>3, Least
<1>6. Min(T) = r
    <2> HIDE DEF T
    <2> QED BY <1>3, <1>5, MinIs
<1>7. NoneBelow(w, r)
    <2> SUFFICES ASSUME NEW q \in 1 .. Len(w) - 1, NEW other \in DOMAIN merges,
                        merges[other] = <<w[q], w[q + 1]>>
                 PROVE  r <= other
        BY DEF NoneBelow
    <2>1. q \in Ranked(w)
        <3>1. Contains(merges, <<w[q], w[q + 1]>>)  BY <1>1 DEF Contains
        <3> QED BY <3>1 DEF Ranked
    <2>2. other \in R(q)  OBVIOUS
    <2>3. Rank(<<w[q], w[q + 1]>>) <= other /\ Rank(<<w[q], w[q + 1]>>) \in DOMAIN merges
        BY <1>2, <2>1, <2>2
    <2>4. r <= Rank(<<w[q], w[q + 1]>>)  BY <1>5, <2>1
    <2> HIDE DEF R, T
    <2>5. r \in Int /\ other \in Int /\ Rank(<<w[q], w[q + 1]>>) \in Int  BY <1>1, <1>3, <1>5, <2>3
    <2> QED BY <2>3, <2>4, <2>5
<1> QED BY <1>3, <1>4, <1>6, <1>7

-----------------------------------------------------------------------------
(***************************************************************************)
(* The inductive invariant.                                                *)
(***************************************************************************)
(* The type invariant. *)
TextType ==
    /\ instance \in Instances
    /\ vocabulary \in Seq(Seq(Byte)) /\ merges \in Seq(Seq(Byte) \X Seq(Byte))
    /\ pc \in {"load", "special", "ordinary", "merge", "done", "error"}
    /\ offset \in 0 .. Len(text) /\ special \in SpecialIds \cup {None}
    /\ ordinary \in Seq(Byte) /\ symbols \in Seq(Seq(Byte)) /\ result \in Seq(DOMAIN vocabulary)
    /\ pc = "load" => offset = 0 /\ result = <<>>
    /\ pc \in {"load", "special"} => special = None /\ ordinary = <<>>
    /\ pc \notin {"merge", "error"} => symbols = <<>>

(* What RefusesOnlyIncomplete rests on: a symbol is a byte of the text or a product. *)
SymbolsMerged ==
    pc = "merge" => \A n \in DOMAIN symbols :
        /\ symbols[n] # <<>>
        /\ \/ \E m \in DOMAIN text : symbols[n] = <<text[m]>>
           \/ \E r \in DOMAIN merges : symbols[n] = Product(r)

(* SpecialsStayWhole, while a piece is merged too. *)
NextWhole ==
    pc \in {"ordinary", "merge"} =>
        LET length == IF special = None THEN 0 ELSE Len(vocabulary[special])
            at == offset - length + 1
        IN \A id \in SpecialIds : \A n \in Occurrences(vocabulary[id], 0) :
               /\ n \notin at - Len(ordinary) .. at - 1
               /\ n = at => Len(vocabulary[id]) <= length

(* The inductive invariant. *)
TextInv ==
    TextType /\ TablesSurvive /\ NothingLost /\ SymbolsMerged /\ NextWhole /\ RefusesOnlyIncomplete

(* What the text is made of at an instant. *)
After == IF special = None THEN <<>> ELSE vocabulary[special]

Rest == SubSeq(text, offset + 1, Len(text))

(* The types of the parts of the text. *)
LEMMA Parts ==
    ASSUME TextType
    PROVE  /\ text \in Seq(Byte) /\ Len(text) \in Nat
           /\ instance.tokens \in Seq(Seq(Byte)) /\ instance.merges \in Seq(Seq(Byte) \X Seq(Byte))
           /\ Decode(result) = FlattenSeq(Texts(vocabulary, result)) /\ Decode(result) \in Seq(Byte)
           /\ FlattenSeq(symbols) \in Seq(Byte)
           /\ After \in Seq(Byte)
           /\ Rest \in Seq(Byte) /\ Len(Rest) = Len(text) - offset
<1>1. /\ text \in Seq(Byte) /\ instance.tokens \in Seq(Seq(Byte))
      /\ instance.merges \in Seq(Seq(Byte) \X Seq(Byte))
    BY InstancesAssumption DEF TextType, text
<1> HIDE DEF text
<1>2. Len(text) \in Nat  BY <1>1
<1>3. Decode(result) = FlattenSeq(Texts(vocabulary, result))  BY DEF Decode, Texts
<1>4. FlattenSeq(Texts(vocabulary, result)) \in Seq(Byte)  BY Decodes DEF TextType
<1>5. FlattenSeq(symbols) \in Seq(Byte)  BY Flattened DEF TextType
<1>6. After \in Seq(Byte)
    <2>1. special # None => special \in DOMAIN vocabulary  BY DEF TextType, SpecialIds
    <2>2. \A id \in DOMAIN vocabulary : vocabulary[id] \in Seq(Byte)  BY DEF TextType
    <2>3. <<>> \in Seq(Byte)  OBVIOUS
    <2> QED BY <2>1, <2>2, <2>3, Zenon DEF After
<1>7. Rest \in Seq(Byte) /\ Len(Rest) = Len(text) - offset
    <2>1. offset \in Nat /\ offset <= Len(text)  BY <1>2 DEF TextType
    <2>2. Len(text) <= Len(text)  BY <1>2
    <2> QED BY <1>1, <1>2, <2>1, <2>2, SplitAt DEF Rest
<1> QED BY <1>1, <1>2, <1>3, <1>4, <1>5, <1>6, <1>7

(* NothingLost, by these parts. *)
LEMMA PartsOfText ==
    NothingLost <=> (pc \notin {"load", "error"} =>
        text = (((Decode(result) \o FlattenSeq(symbols)) \o ordinary) \o After) \o Rest)
BY Zenon DEF NothingLost, After, Rest

(* The special token chosen is the first in the text, and of those the longest. *)
LEMMA FirstAndLongest ==
    ASSUME TextType, NEW id \in BestSpecials(offset), SpecialAhead,
           NEW at, at = Min(Occurrences(vocabulary[id], offset))
    PROVE  /\ id \in SpecialIds /\ vocabulary[id] \in Seq(Byte)
           /\ at \in Occurrences(vocabulary[id], offset)
           /\ \A other \in SpecialIds : \A n \in Occurrences(vocabulary[other], offset) :
                /\ n >= at
                /\ n = at => Len(vocabulary[other]) <= Len(vocabulary[id])
<1> DEFINE O(i) == Occurrences(vocabulary[i], offset)
           T == UNION {O(i) : i \in SpecialIds}
           first == Min(T)
<1>1. \A i \in SpecialIds : O(i) \in SUBSET Nat
    <2> TAKE i \in SpecialIds
    <2>1. vocabulary[i] \in Seq(Byte) /\ text \in Seq(Byte)
        <3>1. i \in DOMAIN vocabulary  BY DEF SpecialIds
        <3>2. text \in Seq(Byte)  BY Parts
        <3> QED BY <3>1, <3>2 DEF TextType
    <2> DEFINE e == Len(text) - Len(vocabulary[i]) + 1
    <2>2. O(i) \in SUBSET (offset + 1 .. e)  BY DEF Occurrences
    <2>3. offset \in Nat /\ e \in Int
        <3>1. Len(text) \in Nat  BY <2>1
        <3> HIDE DEF text
        <3> QED BY <2>1, <3>1 DEF TextType
    <2> HIDE DEF e
    <2>4. (offset + 1 .. e) \in SUBSET Nat  BY <2>3
    <2> QED BY <2>2, <2>4
<1>2. T \in SUBSET Nat /\ T # {}
    <2> HIDE DEF O
    <2>1. \E i \in SpecialIds : O(i) # {}  BY DEF SpecialAhead, O
    <2> QED BY <1>1, <2>1
<1>3. PICK x \in T : \A y \in T : x <= y
    <2> HIDE DEF T
    <2> QED BY <1>2, Least
<1>4. first = x
    <2>1. T \in SUBSET Int  BY <1>2
    <2> HIDE DEF T
    <2> QED BY <1>3, <2>1, MinIs
<1>5. /\ id \in SpecialIds /\ x \in O(id)
      /\ \A other \in SpecialIds : x \in O(other) => Len(vocabulary[other]) <= Len(vocabulary[id])
    <2>1. BestSpecials(offset) =
            {i \in {j \in SpecialIds : first \in O(j)} :
                \A other \in {j \in SpecialIds : first \in O(j)} :
                    Len(vocabulary[other]) <= Len(vocabulary[i])}
        BY Zenon DEF BestSpecials
    <2> HIDE DEF O, first
    <2> QED BY <1>4, <2>1
<1>6. at = x
    <2> DEFINE U == O(id)
    <2>1. at = Min(U)  OBVIOUS
    <2>2. U \in SUBSET Int /\ x \in U  BY <1>1, <1>5
    <2>3. \A y \in U : x <= y
        <3> HIDE DEF O
        <3> QED BY <1>3, <1>5
    <2> HIDE DEF U
    <2> QED BY <2>1, <2>2, <2>3, MinIs
<1>7. ASSUME NEW other \in SpecialIds, NEW n \in O(other)
      PROVE  n >= at /\ (n = at => Len(vocabulary[other]) <= Len(vocabulary[id]))
    <2>1. x <= n /\ n \in Nat /\ x \in Nat
        <3> HIDE DEF O
        <3> QED BY <1>1, <1>2, <1>3
    <2> QED BY <1>5, <1>6, <2>1
<1>8. vocabulary[id] \in Seq(Byte)
    <2>1. id \in DOMAIN vocabulary  BY <1>5 DEF SpecialIds
    <2> QED BY <2>1 DEF TextType
<1> QED BY <1>5, <1>6, <1>7, <1>8

(* The state before loading. *)
LEMMA InitInv == Init => TextInv
<1> SUFFICES ASSUME Init PROVE TextInv
    OBVIOUS
<1>1. TextType
    <2>1. <<>> \in Seq(Byte) /\ <<>> \in Seq(Seq(Byte)) /\ <<>> \in Seq(Seq(Byte) \X Seq(Byte))
          /\ \A S : <<>> \in Seq(S)
        OBVIOUS
    <2>2. Len(text) \in Nat
        <3>1. text \in Seq(Byte)  BY InstancesAssumption DEF Init, text
        <3> QED BY <3>1
    <2> QED BY <2>1, <2>2 DEF Init, TextType
<1>2. TablesSurvive /\ NothingLost /\ SymbolsMerged /\ NextWhole /\ RefusesOnlyIncomplete
    BY DEF Init, TablesSurvive, NothingLost, SymbolsMerged, NextWhole, RefusesOnlyIncomplete
<1> QED BY <1>1, <1>2 DEF TextInv

(* NothingLost after a step that leaves the tables. *)
LEMMA NothingLostNext ==
    ASSUME instance' = instance, vocabulary' = vocabulary,
           text = (((FlattenSeq(Texts(vocabulary, result')) \o FlattenSeq(symbols')) \o ordinary')
                   \o (IF special' = None THEN <<>> ELSE vocabulary[special']))
                  \o SubSeq(text, offset' + 1, Len(text))
    PROVE  NothingLost'
<1>1. Decode(result)' = FlattenSeq(Texts(vocabulary, result'))  BY DEF Decode, Texts
<1>2. text' = text  BY DEF text
<1>3. None' = None  BY DEF None
<1> HIDE DEF text, None
<1> QED BY <1>1, <1>2, <1>3 DEF NothingLost

(* Loading: the tables read back are those written. *)
LEMMA LoadStep ==
    ASSUME TextInv, Load
    PROVE  TextInv'
<1> USE DEF TextInv
<1>1. /\ pc = "load" /\ offset = 0 /\ result = <<>> /\ special = None /\ ordinary = <<>>
      /\ symbols = <<>>
    BY DEF TextType, Load
<1>2. vocabulary' = instance.tokens
    <2> DEFINE w(n) == LoadedToken(TokenBytes(instance.tokens), TokenOffset(instance.tokens, n))
    <2>1. vocabulary' = [n \in 1 .. Len(instance.tokens) |-> w(n)]  BY Zenon DEF Load
    <2>2. instance.tokens \in Seq(Seq(Byte))  BY Parts
    <2>3. \A n \in 1 .. Len(instance.tokens) : w(n) = instance.tokens[n]  BY <2>2, TokensSurvive
    <2> HIDE DEF w
    <2>4. vocabulary' = [n \in 1 .. Len(instance.tokens) |-> instance.tokens[n]]
        BY <2>1, <2>3
    <2>5. instance.tokens = [n \in 1 .. Len(instance.tokens) |-> instance.tokens[n]]
        BY <2>2
    <2> QED BY <2>4, <2>5, Zenon
<1>3. merges' = instance.merges
    <2> DEFINE table == instance.merges
               w(n) == <<DecodeByteAlphabet(InAlphabet(table[n][1])),
                         DecodeByteAlphabet(InAlphabet(table[n][2]))>>
    <2>1. merges' = [n \in 1 .. Len(table) |-> w(n)]  BY Zenon DEF Load
    <2>2. table \in Seq(Seq(Byte) \X Seq(Byte))  BY Parts
    <2>3. \A n \in 1 .. Len(table) : w(n) = table[n]
        <3> TAKE n \in 1 .. Len(table)
        <3>1. table[n] \in Seq(Byte) \X Seq(Byte)  BY <2>2
        <3> DEFINE a == table[n][1]  b == table[n][2]
        <3>2. a \in Seq(Byte) /\ b \in Seq(Byte) /\ table[n] = <<a, b>>  BY <3>1
        <3> HIDE DEF a, b
        <3>3. DecodeByteAlphabet(InAlphabet(a)) = a /\ DecodeByteAlphabet(InAlphabet(b)) = b
            BY <3>2, MergesSurvive
        <3>4. w(n) = <<DecodeByteAlphabet(InAlphabet(a)), DecodeByteAlphabet(InAlphabet(b))>>
            BY Zenon DEF a, b
        <3> HIDE DEF w
        <3> QED BY <3>2, <3>3, <3>4, Zenon
    <2> HIDE DEF w, table
    <2>4. merges' = [n \in 1 .. Len(table) |-> table[n]]
        BY <2>1, <2>3
    <2>5. table = [n \in 1 .. Len(table) |-> table[n]]
        BY <2>2
    <2> QED BY <2>4, <2>5, Zenon DEF table
<1>4. /\ instance' = instance /\ pc' = "special" /\ offset' = offset /\ special' = special
      /\ ordinary' = ordinary /\ symbols' = symbols /\ result' = result
    BY DEF Load
<1>5. TextType'
    <2>1. /\ instance.tokens \in Seq(Seq(Byte)) /\ instance.merges \in Seq(Seq(Byte) \X Seq(Byte))
          /\ Len(text) \in Nat /\ text' = text
        BY <1>4, Parts DEF text
    <2>2. \A S : <<>> \in Seq(S)  OBVIOUS
    <2> HIDE DEF text
    <2> QED BY <1>1, <1>2, <1>3, <1>4, <2>1, <2>2 DEF TextType
<1>6. TablesSurvive'  BY <1>2, <1>3, <1>4 DEF TablesSurvive
<1>7. NothingLost'
    <2>1. text' = text /\ text \in Seq(Byte)  BY <1>4, Parts DEF text
    <2>2. Decode(result)' = <<>>
        <3>1. Decode(result)' = FlattenSeq([n \in DOMAIN result' |-> vocabulary'[result'[n]]])
            BY DEF Decode
        <3>2. [n \in DOMAIN result' |-> vocabulary'[result'[n]]] = <<>>
            <4>1. result' = <<>>  BY <1>1, <1>4
            <4> QED BY <4>1
        <3>3. FlattenSeq(<<>>) = <<>>  BY FlattenNone
        <3> QED BY <3>1, <3>2, <3>3, Zenon
    <2>3. FlattenSeq(symbols') = <<>>
        <3>1. FlattenSeq(<<>>) = <<>>  BY FlattenNone
        <3> QED BY <1>1, <1>4, <3>1, Zenon
    <2>4. SubSeq(text, offset' + 1, Len(text)) = text
        <3>1. offset' + 1 = 1  BY <1>1, <1>4
        <3>2. SubSeq(text, 1, Len(text)) = text  BY <2>1, SubSeqFull
        <3> QED BY <3>1, <3>2, Zenon
    <2>5. (((<<>> \o <<>>) \o <<>>) \o <<>>) \o text = text
        <3>1. \A r \in Seq(Byte) : (((<<>> \o <<>>) \o <<>>) \o <<>>) \o r = r  BY Regrouped
        <3> QED BY <2>1, <3>1, Zenon
    <2>6. special' = None' /\ ordinary' = <<>>  BY <1>1, <1>4 DEF None
    <2> HIDE DEF text
    <2>7. text' = (((Decode(result)' \o FlattenSeq(symbols')) \o ordinary')
                  \o (IF special' = None' THEN <<>> ELSE vocabulary'[special']))
                  \o SubSeq(text', offset' + 1, Len(text'))
        BY <2>1, <2>2, <2>3, <2>4, <2>5, <2>6, Zenon
    <2> QED BY <2>7, Zenon DEF NothingLost
<1>8. SymbolsMerged' /\ NextWhole' /\ RefusesOnlyIncomplete'
    BY <1>4 DEF SymbolsMerged, NextWhole, RefusesOnlyIncomplete
<1> QED BY <1>5, <1>6, <1>7, <1>8

(* The steps of Encode leave the tables as they are. *)
LEMMA Kept ==
    ASSUME TextInv, pc # "load", pc' # "load",
           UNCHANGED <<instance, vocabulary, merges>>
    PROVE  /\ TablesSurvive' /\ text' = text /\ SpecialIds' = SpecialIds
           /\ \A token, from : Occurrences(token, from)' = Occurrences(token, from)
           /\ \A r : Product(r)' = Product(r)
BY DEF TextInv, TablesSurvive, text, SpecialIds, Occurrences, Product

(* The next special token is found: the text before it holds the beginning of none. *)
LEMMA FindSpecialStep ==
    ASSUME TextInv, FindSpecial
    PROVE  TextInv'
<1> USE DEF TextInv
<1>0. /\ pc = "special" /\ pc' = "ordinary" /\ SpecialAhead
      /\ UNCHANGED <<instance, vocabulary, merges, symbols, result>>
    BY DEF FindSpecial
<1>1. PICK id \in BestSpecials(offset) :
         LET at == Min(Occurrences(vocabulary[id], offset)) IN
         /\ special' = id
         /\ ordinary' = SubSeq(text, offset + 1, at - 1)
         /\ offset' = at - 1 + Len(vocabulary[id])
    BY DEF FindSpecial
<1> DEFINE at == Min(Occurrences(vocabulary[id], offset))  token == vocabulary[id]
<1>2. special' = id /\ ordinary' = SubSeq(text, offset + 1, at - 1) /\ offset' = at - 1 + Len(token)
    BY <1>1
<1>3. /\ id \in SpecialIds /\ token \in Seq(Byte) /\ at \in Occurrences(token, offset)
      /\ \A other \in SpecialIds : \A n \in Occurrences(vocabulary[other], offset) :
            /\ n >= at
            /\ n = at => Len(vocabulary[other]) <= Len(token)
    BY <1>0, FirstAndLongest
<1> HIDE DEF at
<1>4. /\ text \in Seq(Byte) /\ Len(text) \in Nat /\ offset \in Nat /\ offset <= Len(text)
      /\ symbols = <<>> /\ ordinary = <<>> /\ special = None /\ id # None /\ Len(token) \in Nat
      /\ Decode(result) = FlattenSeq(Texts(vocabulary, result)) /\ Decode(result) \in Seq(Byte)
    <2>1. /\ text \in Seq(Byte) /\ Len(text) \in Nat
          /\ Decode(result) = FlattenSeq(Texts(vocabulary, result)) /\ Decode(result) \in Seq(Byte)
        BY Parts
    <2>2. id # None
        <3>1. DOMAIN vocabulary = 1 .. Len(vocabulary)  BY DEF TextType
        <3> QED BY <1>3, <3>1 DEF SpecialIds, None
    <2>3. Len(token) \in Nat  BY <1>3
    <2> HIDE DEF text, token
    <2> QED BY <1>0, <2>1, <2>2, <2>3 DEF TextType
<1>5. /\ at \in Nat /\ offset + 1 <= at /\ at - 1 + Len(token) <= Len(text)
      /\ SubSeq(text, at, at - 1 + Len(token)) = token
    <2> HIDE DEF text, token
    <2>1. /\ at \in offset + 1 .. Len(text) - Len(token) + 1
          /\ SubSeq(text, at, at + Len(token) - 1) = token
        BY <1>3 DEF Occurrences
    <2>2. at \in Nat /\ at + Len(token) - 1 = at - 1 + Len(token)  BY <1>4, <2>1
    <2>3. SubSeq(text, at, at - 1 + Len(token)) = token  BY <2>1, <2>2, Zenon
    <2> QED BY <1>4, <2>1, <2>2, <2>3
<1>6. /\ TablesSurvive' /\ text' = text /\ SpecialIds' = SpecialIds
      /\ \A t, from : Occurrences(t, from)' = Occurrences(t, from)
    <2>1. "special" # "load" /\ "ordinary" # "load"  OBVIOUS
    <2> QED BY <1>0, <2>1, Kept
<1> DEFINE o == SubSeq(text, offset + 1, at - 1)  r == SubSeq(text, at - 1 + Len(token) + 1, Len(text))
<1>7. /\ o \in Seq(Byte) /\ Len(o) = (at - 1) - offset /\ r \in Seq(Byte)
      /\ Rest = (o \o token) \o r
    <2> DEFINE b == at - 1  c == at - 1 + Len(token)  l == Len(text)
    <2>1. b \in Nat /\ c \in Nat /\ l \in Nat /\ offset <= b /\ b <= c /\ c <= l /\ offset <= c /\ b <= l
          /\ b + 1 = at /\ offset \in Nat /\ l <= l
        <3> HIDE DEF token, text
        <3> QED BY <1>4, <1>5
    <2>2. /\ SubSeq(text, offset + 1, l) = SubSeq(text, offset + 1, c) \o SubSeq(text, c + 1, l)
          /\ SubSeq(text, offset + 1, c) = SubSeq(text, offset + 1, b) \o SubSeq(text, b + 1, c)
          /\ SubSeq(text, offset + 1, b) \in Seq(Byte) /\ Len(SubSeq(text, offset + 1, b)) = b - offset
          /\ SubSeq(text, c + 1, l) \in Seq(Byte)
        <3> HIDE DEF b, c, l, text
        <3>1. l <= Len(text)  BY <2>1 DEF l
        <3>2. b <= Len(text) /\ c <= Len(text)  BY <2>1, <3>1 DEF l
        <3> QED BY <1>4, <2>1, <3>1, <3>2, SplitAt, SMTT(40)
    <2>3. SubSeq(text, b + 1, c) = token  BY <1>5, <2>1, Zenon
    <2>4. o = SubSeq(text, offset + 1, b) /\ r = SubSeq(text, c + 1, l) /\ Rest = SubSeq(text, offset + 1, l)
        BY Zenon DEF Rest
    <2> HIDE DEF o, r, b, c, l, token, text
    <2>5. o \in Seq(Byte) /\ Len(o) = b - offset /\ r \in Seq(Byte)  BY <2>2, <2>4
    <2>6. Rest = (o \o token) \o r  BY <2>2, <2>3, <2>4, Zenon
    <2> QED BY <2>5, <2>6 DEF b
<1>8. NothingLost'
    <2>1. text = (((Decode(result) \o FlattenSeq(symbols)) \o ordinary) \o After) \o Rest
        <3>1. "special" # "load" /\ "special" # "error"  OBVIOUS
        <3> QED BY <1>0, <3>1, PartsOfText
    <2>2. FlattenSeq(symbols) = <<>> /\ After = <<>>
        <3>1. FlattenSeq(<<>>) = <<>>  BY FlattenNone
        <3> QED BY <1>4, <3>1 DEF After
    <2> DEFINE d == Decode(result)
    <2>3. text = (((d \o <<>>) \o <<>>) \o <<>>) \o ((o \o token) \o r)
        <3> HIDE DEF o, r, token, text
        <3> QED BY <1>4, <1>7, <2>1, <2>2, Zenon
    <2>4. text = (((d \o <<>>) \o o) \o token) \o r
        <3>1. \A d1, o1, a1, r1 \in Seq(Byte) : Found(d1, o1, a1, r1)  BY Regrouped, Zenon
        <3>2. d \in Seq(Byte)  BY <1>4
        <3>3. o \in Seq(Byte) /\ r \in Seq(Byte) /\ token \in Seq(Byte)  BY <1>3, <1>7
        <3> HIDE DEF o, r, d, token, text
        <3>4. (((d \o <<>>) \o <<>>) \o <<>>) \o ((o \o token) \o r)
                = (((d \o <<>>) \o o) \o token) \o r
            <4>1. Found(d, o, token, r)  BY <3>1, <3>2, <3>3, Zenon
            <4> QED BY <4>1, Zenon DEF Found
        <3> QED BY <2>3, <3>4, Zenon
    <2>5. FlattenSeq(Texts(vocabulary, result')) = d  BY <1>0, <1>4, Zenon
    <2>6. FlattenSeq(symbols') = <<>>
        <3>1. symbols' = symbols  BY <1>0
        <3> QED BY <2>2, <3>1, Zenon
    <2>7. (IF special' = None THEN <<>> ELSE vocabulary[special']) = token  BY <1>2, <1>4, Zenon
    <2>8. SubSeq(text, offset' + 1, Len(text)) = r /\ ordinary' = o  BY <1>2, Zenon
    <2> HIDE DEF o, r, d, token, text
    <2>9. text = (((FlattenSeq(Texts(vocabulary, result')) \o FlattenSeq(symbols')) \o ordinary')
                   \o (IF special' = None THEN <<>> ELSE vocabulary[special']))
                  \o SubSeq(text, offset' + 1, Len(text))
        BY <2>4, <2>5, <2>6, <2>7, <2>8, Zenon
    <2> QED BY <1>0, <2>9, NothingLostNext
<1>9. TextType'
    <2>1. offset' \in Nat /\ offset' <= Len(text)
        <3> HIDE DEF token, text
        <3> QED BY <1>2, <1>4, <1>5
    <2>2. ordinary' \in Seq(Byte)  BY <1>2, <1>7
    <2> HIDE DEF token, text
    <2> QED BY <1>0, <1>2, <1>3, <1>4, <1>6, <2>1, <2>2 DEF TextType
<1>10. NextWhole'
    <2> DEFINE length == IF special' = None' THEN 0 ELSE Len(vocabulary'[special'])
               place == offset' - length + 1
    <2>1. length = Len(token)
        <3>1. special' # None'  BY <1>2, <1>4 DEF None
        <3> QED BY <1>0, <1>2, <3>1
    <2>2. place = at /\ place - Len(ordinary') = offset + 1
        <3>1. Len(ordinary') = (at - 1) - offset  BY <1>2, <1>7
        <3>2. offset' = at - 1 + Len(token)  BY <1>2
        <3> HIDE DEF length, token, o
        <3> QED BY <1>4, <1>5, <2>1, <3>1, <3>2
    <2>3. ASSUME NEW other \in SpecialIds, NEW n \in Occurrences(vocabulary[other], 0)
          PROVE  /\ n \notin place - Len(ordinary') .. place - 1
                 /\ n = place => Len(vocabulary[other]) <= length
        <3>1. n >= offset + 1 => n \in Occurrences(vocabulary[other], offset)
            <4> DEFINE e == Len(text) - Len(vocabulary[other]) + 1
            <4>0. e \in Int
                <5>1. vocabulary[other] \in Seq(Byte)
                    <6>1. other \in DOMAIN vocabulary  BY DEF SpecialIds
                    <6> QED BY <6>1 DEF TextType
                <5>2. Len(vocabulary[other]) \in Nat  BY <5>1
                <5> HIDE DEF text
                <5> QED BY <1>4, <5>2
            <4>1. n \in 0 + 1 .. e /\ SubSeq(text, n, n + Len(vocabulary[other]) - 1) = vocabulary[other]
                BY Zenon DEF Occurrences
            <4>2. n >= offset + 1 => n \in offset + 1 .. e
                <5> HIDE DEF e, text
                <5> QED BY <1>4, <4>0, <4>1
            <4> QED BY <4>1, <4>2, Zenon DEF Occurrences
        <3>2. n \in Int
            <4>1. \A e : n \in 0 + 1 .. e => n \in Int  OBVIOUS
            <4> QED BY <4>1 DEF Occurrences
        <3>3. n >= offset + 1 => n >= at /\ (n = at => Len(vocabulary[other]) <= Len(token))
            BY <1>3, <3>1
        <3> HIDE DEF token, place, length
        <3> QED BY <1>4, <1>5, <2>1, <2>2, <3>2, <3>3
    <2>4. \A t, from : Occurrences(t, from)' = Occurrences(t, from)  BY <1>6
    <2>5. vocabulary' = vocabulary /\ SpecialIds' = SpecialIds  BY <1>0, <1>6
    <2> HIDE DEF place, length
    <2>6. \A other \in SpecialIds' : \A n \in Occurrences(vocabulary[other], 0)' :
            /\ n \notin place - Len(ordinary') .. place - 1
            /\ n = place => Len(vocabulary'[other]) <= length
        BY <2>3, <2>4, <2>5
    <2> QED BY <2>6 DEF NextWhole, place, length
<1>11. SymbolsMerged' /\ RefusesOnlyIncomplete'
    BY <1>0 DEF SymbolsMerged, RefusesOnlyIncomplete
<1> QED BY <1>6, <1>8, <1>9, <1>10, <1>11

(* No special token is left. *)
LEMMA NoSpecialStep ==
    ASSUME TextInv, NoSpecial
    PROVE  TextInv'
<1> USE DEF TextInv
<1>0. /\ pc = "special" /\ pc' = "ordinary" /\ ~SpecialAhead /\ special' = None
      /\ ordinary' = Rest /\ offset' = Len(text)
      /\ UNCHANGED <<instance, vocabulary, merges, symbols, result>>
    BY DEF NoSpecial, Rest
<1>1. /\ text \in Seq(Byte) /\ Len(text) \in Nat /\ offset \in Nat /\ offset <= Len(text)
      /\ symbols = <<>> /\ ordinary = <<>> /\ special = None
      /\ Decode(result) = FlattenSeq(Texts(vocabulary, result)) /\ Decode(result) \in Seq(Byte)
      /\ Rest \in Seq(Byte) /\ Len(Rest) = Len(text) - offset
    <2>1. /\ text \in Seq(Byte) /\ Len(text) \in Nat
          /\ Decode(result) = FlattenSeq(Texts(vocabulary, result)) /\ Decode(result) \in Seq(Byte)
          /\ Rest \in Seq(Byte) /\ Len(Rest) = Len(text) - offset
        BY Parts
    <2> HIDE DEF text
    <2> QED BY <1>0, <2>1 DEF TextType
<1>2. /\ TablesSurvive' /\ text' = text /\ SpecialIds' = SpecialIds
      /\ \A t, from : Occurrences(t, from)' = Occurrences(t, from)
    <2>1. "special" # "load" /\ "ordinary" # "load"  OBVIOUS
    <2> QED BY <1>0, <2>1, Kept
<1>3. NothingLost'
    <2>1. text = (((Decode(result) \o FlattenSeq(symbols)) \o ordinary) \o After) \o Rest
        <3>1. "special" # "load" /\ "special" # "error"  OBVIOUS
        <3> QED BY <1>0, <3>1, PartsOfText
    <2>2. FlattenSeq(symbols) = <<>> /\ After = <<>> /\ ordinary = <<>>
        <3>1. FlattenSeq(<<>>) = <<>>  BY FlattenNone
        <3> QED BY <1>1, <3>1 DEF After
    <2> DEFINE d == Decode(result)  r == Rest  n == <<>>
    <2>3. text = (((d \o n) \o n) \o n) \o r  BY <2>1, <2>2, Zenon
    <2>4. SubSeq(text, Len(text) + 1, Len(text)) = n
        BY <1>1
    <2>5. (((d \o n) \o n) \o n) \o r = (((d \o n) \o r) \o n) \o n
        <3>1. d \in Seq(Byte) /\ r \in Seq(Byte)  BY <1>1
        <3> HIDE DEF d, r
        <3>2. d \o n = d  BY <3>1
        <3>3. d \o r \in Seq(Byte)  BY <3>1
        <3>4. (d \o r) \o n = d \o r  BY <3>3
        <3> HIDE DEF n
        <3> QED BY <3>2, <3>4, Zenon
    <2>6. FlattenSeq(Texts(vocabulary, result')) = d  BY <1>0, <1>1, Zenon
    <2>7. FlattenSeq(symbols') = n
        <3>1. symbols' = symbols  BY <1>0
        <3> QED BY <2>2, <3>1, Zenon
    <2>8. (IF special' = None THEN <<>> ELSE vocabulary[special']) = n  BY <1>0, Zenon
    <2>9. SubSeq(text, offset' + 1, Len(text)) = n /\ ordinary' = r  BY <1>0, <2>4, Zenon
    <2> HIDE DEF d, r, n, text
    <2>10. text = (((FlattenSeq(Texts(vocabulary, result')) \o FlattenSeq(symbols')) \o ordinary')
                   \o (IF special' = None THEN <<>> ELSE vocabulary[special']))
                  \o SubSeq(text, offset' + 1, Len(text))
        BY <2>3, <2>5, <2>6, <2>7, <2>8, <2>9, Zenon
    <2> QED BY <1>0, <2>10, NothingLostNext
<1>4. TextType'
    <2>1. offset' \in 0 .. Len(text)  BY <1>0, <1>1
    <2>2. special' \in SpecialIds' \cup {None'}  BY <1>0 DEF None
    <2> HIDE DEF text
    <2> QED BY <1>0, <1>1, <1>2, <2>1, <2>2 DEF TextType
<1>5. NextWhole'
    <2> DEFINE length == IF special' = None' THEN 0 ELSE Len(vocabulary'[special'])
               place == offset' - length + 1
    <2>1. length = 0
        <3>1. special' = None'  BY <1>0 DEF None
        <3> QED BY <3>1
    <2>2. place = Len(text) + 1 /\ place - Len(ordinary') = offset + 1
        <3> HIDE DEF length, text
        <3> QED BY <1>0, <1>1, <2>1
    <2>3. ASSUME NEW other \in SpecialIds, NEW n \in Occurrences(vocabulary[other], 0)
          PROVE  /\ n \notin place - Len(ordinary') .. place - 1
                 /\ n = place => Len(vocabulary[other]) <= length
        <3> DEFINE e == Len(text) - Len(vocabulary[other]) + 1
        <3>0. Len(vocabulary[other]) \in Nat
            <4>1. other \in DOMAIN vocabulary  BY DEF SpecialIds
            <4>2. vocabulary[other] \in Seq(Byte)  BY <4>1 DEF TextType
            <4> QED BY <4>2
        <3>1. e \in Int
            <4> HIDE DEF text
            <4> QED BY <1>1, <3>0
        <3>2. n \in 0 + 1 .. e /\ SubSeq(text, n, n + Len(vocabulary[other]) - 1) = vocabulary[other]
            BY Zenon DEF Occurrences
        <3>3. n \notin offset + 1 .. e
            <4> SUFFICES ASSUME n \in offset + 1 .. e PROVE FALSE
                OBVIOUS
            <4>1. n \in Occurrences(vocabulary[other], offset)  BY <3>2, Zenon DEF Occurrences
            <4> QED BY <1>0, <4>1 DEF SpecialAhead
        <3>4. n \in Nat /\ n < offset + 1
            <4> HIDE DEF e
            <4> QED BY <1>1, <3>1, <3>2, <3>3
        <3> HIDE DEF place, length, text
        <3> QED BY <1>1, <2>1, <2>2, <3>4
    <2>4. \A t, from : Occurrences(t, from)' = Occurrences(t, from)  BY <1>2
    <2>5. vocabulary' = vocabulary /\ SpecialIds' = SpecialIds  BY <1>0, <1>2
    <2> HIDE DEF place, length
    <2>6. \A other \in SpecialIds' : \A n \in Occurrences(vocabulary[other], 0)' :
            /\ n \notin place - Len(ordinary') .. place - 1
            /\ n = place => Len(vocabulary'[other]) <= length
        BY <2>3, <2>4, <2>5
    <2> QED BY <2>6 DEF NextWhole, place, length
<1>6. SymbolsMerged' /\ RefusesOnlyIncomplete'
    BY <1>0 DEF SymbolsMerged, RefusesOnlyIncomplete
<1> QED BY <1>2, <1>3, <1>4, <1>5, <1>6

(* While the special token and the place of Encode stay, the text before shrinks. *)
LEMMA WholeNext ==
    ASSUME TextInv, pc \in {"ordinary", "merge"}, pc' \in {"ordinary", "merge"},
           UNCHANGED <<instance, vocabulary, merges, offset, special>>,
           Len(ordinary') \in Nat, Len(ordinary') <= Len(ordinary)
    PROVE  NextWhole'
<1>1. /\ text' = text /\ SpecialIds' = SpecialIds
      /\ \A t, from : Occurrences(t, from)' = Occurrences(t, from)
    <2>1. pc # "load" /\ pc' # "load"  OBVIOUS
    <2> QED BY <2>1, Kept
<1> DEFINE length == IF special = None THEN 0 ELSE Len(vocabulary[special])
           place == offset - length + 1
<1>2. \A id \in SpecialIds : \A n \in Occurrences(vocabulary[id], 0) :
          /\ n \notin place - Len(ordinary) .. place - 1
          /\ n = place => Len(vocabulary[id]) <= length
    BY Zenon DEF TextInv, NextWhole
<1>3. place \in Int /\ Len(ordinary) \in Nat
    <2>1. length \in Nat
        <3>1. special # None => special \in DOMAIN vocabulary  BY DEF TextInv, TextType, SpecialIds
        <3> QED BY <3>1 DEF TextInv, TextType
    <2>2. offset \in Int
        <3>1. text \in Seq(Byte)  BY Parts DEF TextInv
        <3> HIDE DEF text
        <3> QED BY <3>1 DEF TextInv, TextType
    <2> HIDE DEF length
    <2> QED BY <2>1, <2>2 DEF TextInv, TextType
<1> HIDE DEF place
<1>4. \A n : n \in place - Len(ordinary') .. place - 1 => n \in place - Len(ordinary) .. place - 1
    BY <1>3
<1>5. \A id \in SpecialIds' : \A n \in Occurrences(vocabulary[id], 0)' :
          /\ n \notin place - Len(ordinary') .. place - 1
          /\ n = place => Len(vocabulary[id]) <= length
    BY <1>1, <1>2, <1>4, Zenon
<1>6. place = offset' - (IF special' = None' THEN 0 ELSE Len(vocabulary'[special'])) + 1
    BY DEF place, None
<1>7. length = IF special' = None' THEN 0 ELSE Len(vocabulary'[special'])
    BY DEF None
<1> HIDE DEF length
<1> QED BY <1>5, <1>6, <1>7 DEF NextWhole

(* A piece is cut off the ordinary text. *)
LEMMA NextPieceStep ==
    ASSUME TextInv, NextPiece
    PROVE  TextInv'
<1> USE DEF TextInv
<1> DEFINE length == PieceLength(ordinary)
           piece == SubSeq(ordinary, 1, length)
           left == SubSeq(ordinary, length + 1, Len(ordinary))
<1>0. /\ pc = "ordinary" /\ pc' = "merge" /\ ordinary # <<>>
      /\ symbols' = Bytes(piece) /\ ordinary' = left
      /\ UNCHANGED <<instance, vocabulary, merges, offset, special, result>>
    BY DEF NextPiece
<1>1. /\ text \in Seq(Byte) /\ ordinary \in Seq(Byte) /\ symbols = <<>>
      /\ Decode(result) = FlattenSeq(Texts(vocabulary, result)) /\ Decode(result) \in Seq(Byte)
      /\ After \in Seq(Byte) /\ Rest \in Seq(Byte)
    <2>1. ordinary \in Seq(Byte) /\ symbols = <<>>  BY <1>0 DEF TextType
    <2> QED BY <2>1, Parts
<1>2. length \in 1 .. Len(ordinary)  BY <1>0, <1>1, Cut
<1> HIDE DEF length
<1>3. /\ piece \in Seq(Byte) /\ left \in Seq(Byte) /\ ordinary = piece \o left
      /\ Len(left) \in Nat /\ Len(left) <= Len(ordinary)
      /\ Len(piece) = length /\ \A i \in 1 .. length : piece[i] = ordinary[i]
    <2> DEFINE l == Len(ordinary)
    <2>1. 0 + 1 = 1 /\ 0 \in Nat /\ l \in Nat /\ length \in Nat /\ 0 <= length /\ length <= l /\ l <= l /\ 0 <= l
          /\ length <= length /\ l <= Len(ordinary)
        BY <1>1, <1>2
    <2>2. SubSeq(ordinary, 0 + 1, l) = SubSeq(ordinary, 0 + 1, length) \o SubSeq(ordinary, length + 1, l)
        <3> DEFINE zero == 0
        <3>1. zero \in Nat /\ zero <= length  BY <2>1
        <3> HIDE DEF l, zero
        <3>2. SubSeq(ordinary, zero + 1, l)
                = SubSeq(ordinary, zero + 1, length) \o SubSeq(ordinary, length + 1, l)
            BY <1>1, <2>1, <3>1, SplitAt
        <3> QED BY <3>2 DEF zero
    <2>3. SubSeq(ordinary, 1, l) = ordinary  BY <1>1, SubSeqFull
    <2>4. /\ SubSeq(ordinary, 0 + 1, length) \in Seq(Byte)
          /\ Len(SubSeq(ordinary, 0 + 1, length)) = length - 0
          /\ \A i \in 1 .. length - 0 : SubSeq(ordinary, 0 + 1, length)[i] = ordinary[0 + i]
        BY <1>1, <2>1, SplitAt
    <2>5. SubSeq(ordinary, length + 1, l) \in Seq(Byte) /\ Len(SubSeq(ordinary, length + 1, l)) = l - length
        <3> HIDE DEF l
        <3> QED BY <1>1, <2>1, SplitAt
    <2>6. SubSeq(ordinary, 0 + 1, l) = ordinary /\ SubSeq(ordinary, 0 + 1, length) = piece
        BY <2>1, <2>3, Zenon
    <2> DEFINE p == piece  q == left
    <2>7. p \in Seq(Byte) /\ Len(p) = length - 0 /\ \A i \in 1 .. length - 0 : p[i] = ordinary[0 + i]
        BY <2>4, <2>6, Zenon
    <2>8. q \in Seq(Byte) /\ Len(q) = l - length /\ ordinary = p \o q
        <3>1. q = SubSeq(ordinary, length + 1, l)  BY Zenon
        <3> QED BY <2>2, <2>5, <2>6, <3>1, Zenon
    <2> HIDE DEF p, q
    <2>9. Len(q) \in Nat /\ Len(q) <= Len(ordinary) /\ Len(p) = length
          /\ \A i \in 1 .. length : p[i] = ordinary[i]
        BY <2>1, <2>7, <2>8
    <2> QED BY <2>7, <2>8, <2>9 DEF p, q
<1> HIDE DEF piece, left
<1>4. /\ Bytes(piece) \in Seq(Seq(Byte)) /\ Len(Bytes(piece)) = length
      /\ \A i \in 1 .. length : Bytes(piece)[i] = <<piece[i]>>
      /\ FlattenSeq(Bytes(piece)) = piece
    BY <1>3, Singles
<1>5. /\ TablesSurvive' /\ text' = text /\ SpecialIds' = SpecialIds
    <2>1. "merge" # "load" /\ "ordinary" # "load"  OBVIOUS
    <2> QED BY <1>0, <2>1, Kept
<1>6. text = (((Decode(result) \o FlattenSeq(symbols)) \o ordinary) \o After) \o Rest
    <2>1. "ordinary" # "load" /\ "ordinary" # "error"  OBVIOUS
    <2> QED BY <1>0, <2>1, PartsOfText
<1>7. FlattenSeq(symbols) = <<>>  BY <1>1, FlattenNone, Zenon
<1> DEFINE d == Decode(result)
<1>8. NothingLost'
    <2>1. text = (((d \o <<>>) \o (piece \o left)) \o After) \o Rest
        BY <1>3, <1>6, <1>7, Zenon
    <2>2. Taken(d, piece, left, After, Rest)
        <3>1. \A d1, f, o, a, r \in Seq(Byte) : Taken(d1, f, o, a, r)  BY Regrouped, Zenon
        <3>2. d \in Seq(Byte)  BY <1>1
        <3> QED BY <1>1, <1>3, <3>1, <3>2, Zenon
    <2>3. text = (((d \o piece) \o left) \o After) \o Rest  BY <2>1, <2>2, Zenon DEF Taken
    <2>4. FlattenSeq(Texts(vocabulary, result')) = d  BY <1>0, <1>1, Zenon
    <2>5. FlattenSeq(symbols') = piece /\ ordinary' = left  BY <1>0, <1>4, Zenon
    <2>6. (IF special' = None THEN <<>> ELSE vocabulary[special']) = After
        <3>1. special' = special  BY <1>0
        <3> QED BY <3>1, Zenon DEF After
    <2>7. SubSeq(text, offset' + 1, Len(text)) = Rest
        <3>1. offset' = offset  BY <1>0
        <3> QED BY <3>1, Zenon DEF Rest
    <2> HIDE DEF d, text
    <2>8. text = (((FlattenSeq(Texts(vocabulary, result')) \o FlattenSeq(symbols')) \o ordinary')
                   \o (IF special' = None THEN <<>> ELSE vocabulary[special']))
                  \o SubSeq(text, offset' + 1, Len(text))
        BY <2>3, <2>4, <2>5, <2>6, <2>7, Zenon
    <2> QED BY <1>0, <2>8, NothingLostNext
<1>9. TextType'
    <2> HIDE DEF text
    <2> QED BY <1>0, <1>3, <1>4, <1>5 DEF TextType, None
<1>10. NextWhole'  BY <1>0, <1>3, WholeNext
<1>11. SymbolsMerged'
    <2> SUFFICES ASSUME NEW n \in DOMAIN symbols'
                 PROVE  /\ symbols'[n] # <<>>
                        /\ \E m \in DOMAIN text' : symbols'[n] = <<text'[m]>>
        BY DEF SymbolsMerged
    <2>1. n \in 1 .. length
        <3>1. symbols' \in Seq(Seq(Byte)) /\ Len(symbols') = length  BY <1>0, <1>4
        <3> QED BY <3>1
    <2>2. symbols'[n] = <<ordinary[n]>>  BY <1>0, <1>3, <1>4, <2>1
    <2> DEFINE x == d \o <<>>  y == After \o Rest
    <2>3. text = (x \o ordinary) \o y
        <3> DEFINE z == x \o ordinary
        <3>1. z \in Seq(Byte)  BY <1>1
        <3>2. Regroups(Byte)  BY Regroup, Zenon
        <3> HIDE DEF z
        <3>3. (z \o After) \o Rest = z \o y  BY <1>1, <3>1, <3>2, Zenon DEF Regroups
        <3>4. z = x \o ordinary  BY DEF z
        <3> HIDE DEF y
        <3> QED BY <1>6, <1>7, <3>3, <3>4, Zenon
    <2>4. x \in Seq(Byte) /\ y \in Seq(Byte)  BY <1>1
    <2> HIDE DEF x, y, text
    <2>5. Len(x) + n \in 1 .. Len(text) /\ text[Len(x) + n] = ordinary[n]
        <3>1. n \in 1 .. Len(ordinary)  BY <1>1, <1>2, <2>1
        <3> QED BY <1>1, <2>3, <2>4, <3>1, Middle
    <2>6. DOMAIN text' = 1 .. Len(text)  BY <1>1, <1>5
    <2>7. text'[Len(x) + n] = ordinary[n]  BY <1>5, <2>5
    <2>8. <<ordinary[n]>> # <<>>  OBVIOUS
    <2> QED BY <2>2, <2>5, <2>6, <2>7, <2>8, Zenon
<1>12. RefusesOnlyIncomplete'
    BY <1>0 DEF RefusesOnlyIncomplete
<1> QED BY <1>5, <1>8, <1>9, <1>10, <1>11, <1>12

(* A round of merging. *)
LEMMA MergeRoundStep ==
    ASSUME TextInv, MergeRound
    PROVE  TextInv'
<1> USE DEF TextInv
<1> DEFINE pair == BestPair(symbols)
<1>0. /\ pc = "merge" /\ pc' = "merge" /\ Ranked(symbols) # {}
      /\ symbols' = MergeAll(symbols, pair)
      /\ UNCHANGED <<instance, vocabulary, merges, offset, special, ordinary, result>>
    BY DEF MergeRound
<1>1. /\ symbols \in Seq(Seq(Byte)) /\ ordinary \in Seq(Byte)
      /\ merges \in Seq(Seq(Byte) \X Seq(Byte))
      /\ Decode(result) = FlattenSeq(Texts(vocabulary, result))
    BY Parts DEF TextType
<1>2. PICK r \in DOMAIN merges : pair = merges[r]  BY <1>0, <1>1, BestExists
<1> HIDE DEF pair
<1>3. /\ symbols' \in Seq(Seq(Byte))
      /\ FlattenSeq(symbols') = FlattenSeq(symbols)
      /\ \A i \in 1 .. Len(symbols') : \E n \in 1 .. Len(symbols) :
            \/ symbols'[i] = symbols[n]
            \/ PairAt(symbols, pair, n) /\ symbols'[i] = symbols[n] \o symbols[n + 1]
    <2>1. MergedFrom(MergeAll(symbols, pair), symbols, pair)  BY <1>1, MergeKeepsText, Zenon
    <2>2. MergedFrom(symbols', symbols, pair)  BY <1>0, <2>1, Zenon
    <2> QED BY <2>2, Zenon DEF MergedFrom
<1>4. /\ TablesSurvive' /\ text' = text /\ SpecialIds' = SpecialIds
      /\ \A m : Product(m)' = Product(m)
    <2>1. "merge" # "load"  OBVIOUS
    <2> QED BY <1>0, <2>1, Kept
<1>5. NothingLost'
    <2>1. text = (((Decode(result) \o FlattenSeq(symbols)) \o ordinary) \o After) \o Rest
        <3>1. "merge" # "load" /\ "merge" # "error"  OBVIOUS
        <3> QED BY <1>0, <3>1, PartsOfText
    <2>2. text = (((FlattenSeq(Texts(vocabulary, result')) \o FlattenSeq(symbols')) \o ordinary')
                   \o (IF special' = None THEN <<>> ELSE vocabulary[special']))
                  \o SubSeq(text, offset' + 1, Len(text))
        <3> HIDE DEF text
        <3> QED BY <1>0, <1>1, <1>3, <2>1, Zenon DEF After, Rest
    <2> QED BY <1>0, <2>2, NothingLostNext
<1>6. TextType'
    <2> HIDE DEF text
    <2> QED BY <1>0, <1>3, <1>4 DEF TextType, None
<1>7. NextWhole'
    <2>1. Len(ordinary') \in Nat /\ Len(ordinary') <= Len(ordinary)
        <3>1. ordinary' = ordinary /\ Len(ordinary) \in Nat  BY <1>0, <1>1
        <3> QED BY <3>1
    <2> QED BY <1>0, <2>1, WholeNext
<1>8. SymbolsMerged'
    <2>1. \A n \in 1 .. Len(symbols) :
             /\ symbols[n] # <<>> /\ symbols[n] \in Seq(Byte)
             /\ \/ \E m \in DOMAIN text : symbols[n] = <<text[m]>>
                \/ \E m \in DOMAIN merges : symbols[n] = Product(m)
        <3>1. DOMAIN symbols = 1 .. Len(symbols) /\ \A n \in 1 .. Len(symbols) : symbols[n] \in Seq(Byte)
            BY <1>1
        <3> QED BY <1>0, <3>1, Zenon DEF SymbolsMerged
    <2> SUFFICES ASSUME NEW i \in 1 .. Len(symbols')
                 PROVE  /\ symbols'[i] # <<>>
                        /\ \/ \E m \in DOMAIN text : symbols'[i] = <<text[m]>>
                           \/ \E m \in DOMAIN merges : symbols'[i] = Product(m)
        <3>1. DOMAIN symbols' = 1 .. Len(symbols')  BY <1>3
        <3> HIDE DEF text
        <3> QED BY <1>0, <1>4, <3>1 DEF SymbolsMerged
    <2>2. PICK n \in 1 .. Len(symbols) :
              \/ symbols'[i] = symbols[n]
              \/ PairAt(symbols, pair, n) /\ symbols'[i] = symbols[n] \o symbols[n + 1]
        BY <1>3
    <2>3. CASE symbols'[i] = symbols[n]
        <3> HIDE DEF text
        <3> QED BY <2>1, <2>3
    <2>4. CASE PairAt(symbols, pair, n) /\ symbols'[i] = symbols[n] \o symbols[n + 1]
        <3>1. n + 1 \in 1 .. Len(symbols) /\ pair = <<symbols[n], symbols[n + 1]>>
            BY <1>1, <2>4 DEF PairAt
        <3> DEFINE a == symbols[n]  b == symbols[n + 1]
        <3>2. /\ a # <<>> /\ a \in Seq(Byte) /\ b \in Seq(Byte) /\ pair = <<a, b>>
              /\ symbols'[i] = a \o b
            BY <2>1, <2>4, <3>1
        <3> HIDE DEF a, b, text
        <3>3. a \o b # <<>>  BY <3>2
        <3>4. Product(r) = a \o b
            <4>1. merges[r] = <<a, b>>  BY <1>2, <3>2
            <4>2. merges[r][1] = a /\ merges[r][2] = b  BY <4>1
            <4> QED BY <4>2, Zenon DEF Product
        <3> QED BY <1>2, <3>2, <3>3, <3>4
    <2> QED BY <2>2, <2>3, <2>4
<1>9. RefusesOnlyIncomplete'
    BY <1>0 DEF RefusesOnlyIncomplete
<1> QED BY <1>4, <1>5, <1>6, <1>7, <1>8, <1>9

(* The tokens of a piece are appended. *)
LEMMA EmitPieceStep ==
    ASSUME TextInv, EmitPiece
    PROVE  TextInv'
<1> USE DEF TextInv
<1> DEFINE ids == [n \in DOMAIN symbols |-> TokenId(symbols[n])]
<1>0. /\ pc = "merge" /\ pc' = "ordinary"
      /\ \A n \in DOMAIN symbols : Known(symbols[n])
      /\ result' = result \o ids /\ symbols' = <<>>
      /\ UNCHANGED <<instance, vocabulary, merges, offset, special, ordinary>>
    BY DEF EmitPiece
<1>1. /\ symbols \in Seq(Seq(Byte)) /\ ordinary \in Seq(Byte) /\ vocabulary \in Seq(Seq(Byte))
      /\ result \in Seq(DOMAIN vocabulary)
      /\ Decode(result) = FlattenSeq(Texts(vocabulary, result)) /\ Decode(result) \in Seq(Byte)
      /\ FlattenSeq(symbols) \in Seq(Byte) /\ After \in Seq(Byte) /\ Rest \in Seq(Byte)
    BY Parts DEF TextType
<1>2. \A n \in DOMAIN symbols :
         TokenId(symbols[n]) \in DOMAIN vocabulary /\ vocabulary[TokenId(symbols[n])] = symbols[n]
    BY <1>0, <1>1, KnownId
<1>3. ids \in Seq(DOMAIN vocabulary) /\ Texts(vocabulary, ids) = symbols
    <2>1. DOMAIN symbols = 1 .. Len(symbols) /\ Len(symbols) \in Nat
          /\ symbols = [n \in 1 .. Len(symbols) |-> symbols[n]]
        BY <1>1
    <2> DEFINE id(n) == TokenId(symbols[n])  D == DOMAIN vocabulary
    <2>2. \A n \in 1 .. Len(symbols) : id(n) \in D  BY <1>2, <2>1
    <2>3. ids = [n \in 1 .. Len(symbols) |-> id(n)]  BY <2>1, Zenon
    <2> HIDE DEF id, D, ids
    <2>4. /\ ids \in Seq(D) /\ DOMAIN ids = 1 .. Len(symbols)
          /\ \A n \in 1 .. Len(symbols) : ids[n] = id(n)
        BY <2>1, <2>2, <2>3
    <2>5. Texts(vocabulary, ids) = [n \in 1 .. Len(symbols) |-> vocabulary[ids[n]]]
        BY <2>4, Zenon DEF Texts
    <2>6. \A n \in 1 .. Len(symbols) : vocabulary[ids[n]] = symbols[n]
        BY <1>2, <2>1, <2>4, Zenon DEF id
    <2>7. Texts(vocabulary, ids) = [n \in 1 .. Len(symbols) |-> symbols[n]]
        BY <2>5, <2>6
    <2> QED BY <2>1, <2>4, <2>7, Zenon DEF D
<1> HIDE DEF ids
<1>4. /\ result' \in Seq(DOMAIN vocabulary)
      /\ FlattenSeq(Texts(vocabulary, result')) = Decode(result) \o FlattenSeq(symbols)
    <2>1. /\ result \o ids \in Seq(DOMAIN vocabulary)
          /\ FlattenSeq(Texts(vocabulary, result \o ids))
               = FlattenSeq(Texts(vocabulary, result)) \o FlattenSeq(Texts(vocabulary, ids))
        BY <1>1, <1>3, Decodes
    <2> QED BY <1>0, <1>1, <1>3, <2>1, Zenon
<1>5. TablesSurvive' /\ text' = text /\ SpecialIds' = SpecialIds
    <2>1. "merge" # "load" /\ "ordinary" # "load"  OBVIOUS
    <2> QED BY <1>0, <2>1, Kept
<1>6. NothingLost'
    <2> DEFINE d == Decode(result)  f == FlattenSeq(symbols)
    <2>1. text = (((d \o f) \o ordinary) \o After) \o Rest
        <3>1. "merge" # "load" /\ "merge" # "error"  OBVIOUS
        <3> QED BY <1>0, <3>1, PartsOfText
    <2>2. Emitted(d, f, ordinary, After, Rest)
        <3>1. \A d1, f1, o, a, r \in Seq(Byte) : Emitted(d1, f1, o, a, r)  BY Regrouped, Zenon
        <3>2. d \in Seq(Byte) /\ f \in Seq(Byte)  BY <1>1
        <3> QED BY <1>1, <3>1, <3>2, Zenon
    <2>3. FlattenSeq(Texts(vocabulary, result')) = d \o f  BY <1>4
    <2>4. FlattenSeq(symbols') = <<>>  BY <1>0, FlattenNone, Zenon
    <2> HIDE DEF d, f, text
    <2>5. text = ((((d \o f) \o <<>>) \o ordinary) \o After) \o Rest
        BY <2>1, <2>2, Zenon DEF Emitted
    <2>6. text = (((FlattenSeq(Texts(vocabulary, result')) \o FlattenSeq(symbols')) \o ordinary')
                   \o (IF special' = None THEN <<>> ELSE vocabulary[special']))
                  \o SubSeq(text, offset' + 1, Len(text))
        BY <1>0, <2>3, <2>4, <2>5, Zenon DEF After, Rest
    <2> QED BY <1>0, <2>6, NothingLostNext
<1>7. TextType'
    <2>1. <<>> \in Seq(Seq(Byte))  OBVIOUS
    <2> HIDE DEF text
    <2> QED BY <1>0, <1>4, <1>5, <2>1 DEF TextType, None
<1>8. NextWhole'
    <2>1. Len(ordinary') \in Nat /\ Len(ordinary') <= Len(ordinary)
        <3>1. ordinary' = ordinary /\ Len(ordinary) \in Nat  BY <1>0, <1>1
        <3> QED BY <3>1
    <2> QED BY <1>0, <2>1, WholeNext
<1>9. SymbolsMerged' /\ RefusesOnlyIncomplete'
    BY <1>0 DEF SymbolsMerged, RefusesOnlyIncomplete
<1> QED BY <1>5, <1>6, <1>7, <1>8, <1>9

(* The special token is appended. *)
LEMMA PushSpecialStep ==
    ASSUME TextInv, PushSpecial
    PROVE  TextInv'
<1> USE DEF TextInv
<1>0. /\ pc = "ordinary" /\ pc' = "special" /\ ordinary = <<>> /\ special # None
      /\ result' = Append(result, special) /\ special' = None
      /\ UNCHANGED <<instance, vocabulary, merges, offset, ordinary, symbols>>
    BY DEF PushSpecial
<1>1. /\ symbols = <<>> /\ vocabulary \in Seq(Seq(Byte))
      /\ result \in Seq(DOMAIN vocabulary) /\ special \in DOMAIN vocabulary
      /\ Decode(result) = FlattenSeq(Texts(vocabulary, result)) /\ Decode(result) \in Seq(Byte)
      /\ After \in Seq(Byte) /\ Rest \in Seq(Byte) /\ After = vocabulary[special]
    <2>1. symbols = <<>> /\ special \in DOMAIN vocabulary
        BY <1>0 DEF TextType, SpecialIds
    <2>2. After = vocabulary[special]  BY <1>0 DEF After
    <2> QED BY <2>1, <2>2, Parts DEF TextType
<1>2. /\ result' \in Seq(DOMAIN vocabulary)
      /\ FlattenSeq(Texts(vocabulary, result')) = Decode(result) \o After
    <2> DEFINE one == <<special>>
    <2>1. one \in Seq(DOMAIN vocabulary) /\ DOMAIN one = {1} /\ one[1] = special  BY <1>1
    <2>2. result' = result \o one  BY <1>0, <1>1, AppendIsConcat
    <2>3. FlattenSeq(Texts(vocabulary, one)) = After
        <3>1. Texts(vocabulary, one) = <<After>>
            <4>1. Texts(vocabulary, one) = [n \in {1} |-> vocabulary[one[n]]]
                BY <2>1, Zenon DEF Texts
            <4>2. Texts(vocabulary, one) = [n \in {1} |-> After]
                <5>1. \A n \in {1} : vocabulary[one[n]] = After  BY <1>1, <2>1
                <5> QED BY <4>1, <5>1
            <4>3. <<After>> = [n \in {1} |-> After]
                <5> HIDE DEF After
                <5> QED OBVIOUS
            <4> QED BY <4>2, <4>3, Zenon
        <3>2. FlattenSeq(<<After>>) = After  BY <1>1, FlattenOne
        <3> QED BY <3>1, <3>2, Zenon
    <2> HIDE DEF one
    <2>4. /\ result \o one \in Seq(DOMAIN vocabulary)
          /\ FlattenSeq(Texts(vocabulary, result \o one))
               = FlattenSeq(Texts(vocabulary, result)) \o FlattenSeq(Texts(vocabulary, one))
        BY <1>1, <2>1, Decodes
    <2> QED BY <1>1, <2>2, <2>3, <2>4, Zenon
<1>3. TablesSurvive' /\ text' = text /\ SpecialIds' = SpecialIds
    <2>1. "special" # "load" /\ "ordinary" # "load"  OBVIOUS
    <2> QED BY <1>0, <2>1, Kept
<1>4. NothingLost'
    <2> DEFINE d == Decode(result)  n == <<>>
    <2>1. text = (((d \o FlattenSeq(symbols)) \o ordinary) \o After) \o Rest
        <3>1. "ordinary" # "load" /\ "ordinary" # "error"  OBVIOUS
        <3> QED BY <1>0, <3>1, PartsOfText
    <2>2. FlattenSeq(symbols) = <<>>  BY <1>1, FlattenNone, Zenon
    <2>3. Pushed(d, After, Rest)
        <3>1. \A d1, a, r \in Seq(Byte) : Pushed(d1, a, r)  BY Regrouped, Zenon
        <3>2. d \in Seq(Byte)  BY <1>1
        <3> QED BY <1>1, <3>1, <3>2, Zenon
    <2>4. FlattenSeq(Texts(vocabulary, result')) = d \o After  BY <1>2
    <2> HIDE DEF d, text
    <2>5. text = ((((d \o After) \o <<>>) \o <<>>) \o <<>>) \o Rest
        <3>1. text = (((d \o <<>>) \o <<>>) \o After) \o Rest  BY <1>0, <2>1, <2>2, Zenon
        <3> QED BY <2>3, <3>1, Zenon DEF Pushed
    <2>6. (IF special' = None THEN <<>> ELSE vocabulary[special']) = <<>>  BY <1>0, Zenon
    <2>7. FlattenSeq(symbols') = <<>> /\ ordinary' = <<>>
        <3>1. symbols' = symbols /\ ordinary' = ordinary  BY <1>0
        <3> QED BY <1>0, <2>2, <3>1, Zenon
    <2>8. SubSeq(text, offset' + 1, Len(text)) = Rest  BY <1>0, Zenon DEF Rest
    <2>9. text = (((FlattenSeq(Texts(vocabulary, result')) \o FlattenSeq(symbols')) \o ordinary')
                   \o (IF special' = None THEN <<>> ELSE vocabulary[special']))
                  \o SubSeq(text, offset' + 1, Len(text))
        BY <2>4, <2>5, <2>6, <2>7, <2>8, Zenon
    <2> QED BY <1>0, <2>9, NothingLostNext
<1>5. TextType'
    <2> HIDE DEF text
    <2> QED BY <1>0, <1>2, <1>3 DEF TextType, None
<1>6. SymbolsMerged' /\ NextWhole' /\ RefusesOnlyIncomplete'
    BY <1>0 DEF SymbolsMerged, NextWhole, RefusesOnlyIncomplete
<1> QED BY <1>3, <1>4, <1>5, <1>6

(* A piece is refused. *)
LEMMA PieceRefusedStep ==
    ASSUME TextInv, PieceRefused
    PROVE  TextInv'
<1> USE DEF TextInv
<1>0. /\ pc = "merge" /\ pc' = "error"
      /\ \E n \in DOMAIN symbols : ~Known(symbols[n])
      /\ UNCHANGED <<instance, vocabulary, merges, offset, special, ordinary, symbols, result>>
    BY DEF PieceRefused
<1>1. /\ TablesSurvive' /\ text' = text /\ SpecialIds' = SpecialIds
      /\ \A r : Product(r)' = Product(r)
    <2>1. "merge" # "load" /\ "error" # "load"  OBVIOUS
    <2> QED BY <1>0, <2>1, Kept
<1>2. TextType'
    <2> HIDE DEF text
    <2> QED BY <1>0, <1>1 DEF TextType, None
<1>3. RefusesOnlyIncomplete'
    <2>1. PICK n \in DOMAIN symbols : ~Known(symbols[n])  BY <1>0
    <2>2. /\ symbols[n] # <<>>
          /\ \/ \E m \in DOMAIN text : symbols[n] = <<text[m]>>
             \/ \E r \in DOMAIN merges : symbols[n] = Product(r)
        BY <1>0 DEF SymbolsMerged
    <2>3. vocabulary = instance.tokens
        <3>1. "merge" # "load"  OBVIOUS
        <3> QED BY <1>0, <3>1 DEF TablesSurvive
    <2>4. ~Contains(instance.tokens, symbols[n])  BY <2>1, <2>2, <2>3, Zenon DEF Known
    <2>5. \/ \E m \in DOMAIN text : ~Contains(instance.tokens, <<text[m]>>)
          \/ \E r \in DOMAIN merges : ~Contains(instance.tokens, Product(r))
        BY <2>2, <2>4, Zenon
    <2> HIDE DEF text
    <2>6. instance' = instance /\ merges' = merges  BY <1>0
    <2> QED BY <1>1, <2>5, <2>6, Zenon DEF RefusesOnlyIncomplete
<1>4. NothingLost' /\ SymbolsMerged' /\ NextWhole'
    BY <1>0 DEF NothingLost, SymbolsMerged, NextWhole
<1> QED BY <1>1, <1>2, <1>3, <1>4

(* Encode returns. *)
LEMMA ReturnStep ==
    ASSUME TextInv, Return
    PROVE  TextInv'
<1> USE DEF TextInv
<1>0. /\ pc \in {"ordinary", "special"} /\ pc' = "done"
      /\ UNCHANGED <<instance, vocabulary, merges, offset, special, ordinary, symbols, result>>
    BY DEF Return
<1>1. TablesSurvive' /\ text' = text /\ SpecialIds' = SpecialIds
    <2>1. pc # "load" /\ "done" # "load"  BY <1>0
    <2> QED BY <1>0, <2>1, Kept
<1>2. TextType'
    <2>1. symbols = <<>>  BY <1>0 DEF TextType
    <2> HIDE DEF text
    <2> QED BY <1>0, <1>1, <2>1 DEF TextType, None
<1>3. NothingLost'
    <2>1. text = (((Decode(result) \o FlattenSeq(symbols)) \o ordinary) \o After) \o Rest
        <3>1. pc # "load" /\ pc # "error"  BY <1>0
        <3> QED BY <3>1, PartsOfText
    <2>2. Decode(result) = FlattenSeq(Texts(vocabulary, result))  BY Parts
    <2> HIDE DEF text
    <2>3. text = (((FlattenSeq(Texts(vocabulary, result')) \o FlattenSeq(symbols')) \o ordinary')
                   \o (IF special' = None THEN <<>> ELSE vocabulary[special']))
                  \o SubSeq(text, offset' + 1, Len(text))
        BY <1>0, <2>1, <2>2, Zenon DEF After, Rest
    <2> QED BY <1>0, <2>3, NothingLostNext
<1>4. SymbolsMerged' /\ NextWhole' /\ RefusesOnlyIncomplete'
    BY <1>0 DEF SymbolsMerged, NextWhole, RefusesOnlyIncomplete
<1> QED BY <1>1, <1>2, <1>3, <1>4

(* A step that changes nothing. *)
LEMMA StutterStep ==
    ASSUME TextInv, UNCHANGED vars
    PROVE  TextInv'
BY DEF TextInv, vars, TextType, TablesSurvive, NothingLost, SymbolsMerged, NextWhole,
       RefusesOnlyIncomplete, text, SpecialIds, IsSpecial, Decode, Occurrences, Product, None

-----------------------------------------------------------------------------
(***************************************************************************)
(* Every state of Encode, at any point between two pieces, rounds or       *)
(* special tokens, satisfies the invariant: with the tables, the text and  *)
(* the special tokens of any instance.                                     *)
(***************************************************************************)
THEOREM TextInvariant == Spec => []TextInv
<1>1. Init => TextInv  BY InitInv
<1>2. TextInv /\ [Next]_vars => TextInv'
    <2> SUFFICES ASSUME TextInv, [Next]_vars PROVE TextInv'
        OBVIOUS
    <2>1. CASE Load  BY <2>1, LoadStep
    <2>2. CASE FindSpecial  BY <2>2, FindSpecialStep
    <2>3. CASE NoSpecial  BY <2>3, NoSpecialStep
    <2>4. CASE PushSpecial  BY <2>4, PushSpecialStep
    <2>5. CASE NextPiece  BY <2>5, NextPieceStep
    <2>6. CASE MergeRound  BY <2>6, MergeRoundStep
    <2>7. CASE EmitPiece  BY <2>7, EmitPieceStep
    <2>8. CASE PieceRefused  BY <2>8, PieceRefusedStep
    <2>9. CASE Return  BY <2>9, ReturnStep
    <2>10. CASE Finished \/ UNCHANGED vars  BY <2>10, StutterStep DEF Finished
    <2> QED BY <2>1, <2>2, <2>3, <2>4, <2>5, <2>6, <2>7, <2>8, <2>9, <2>10 DEF Next
<1> QED BY <1>1, <1>2, PTL DEF Spec

(***************************************************************************)
(* The vocabulary and the merges that the C++ loader reads are those the   *)
(* converter wrote, whatever bytes the tokens hold: the byte 0 that ends   *)
(* an entry and the byte 7 that escapes one included.                      *)
(***************************************************************************)
THEOREM TablesReadBack == Spec => []TablesSurvive
<1>1. TextInv => TablesSurvive  BY DEF TextInv
<1> QED BY <1>1, TextInvariant, PTL

(***************************************************************************)
(* Encode neither loses nor doubles a byte of any text: what is encoded,   *)
(* the symbols in work, the ordinary text, the special token after it and  *)
(* the rest make up the text, and at the end Decode gives it back.         *)
(***************************************************************************)
THEOREM EncodeKeepsText == Spec => []NothingLost
<1>1. TextInv => NothingLost  BY DEF TextInv
<1> QED BY <1>1, TextInvariant, PTL

(***************************************************************************)
(* A special token of the text becomes one token, the first in the text    *)
(* and of those the longest: the ordinary text that Encode hands to        *)
(* PreTokenize holds the beginning of none.                                *)
(***************************************************************************)
THEOREM SpecialTokensWhole == Spec => []SpecialsStayWhole
<1>1. TextInv => SpecialsStayWhole  BY Zenon DEF TextInv, NextWhole, SpecialsStayWhole
<1> QED BY <1>1, TextInvariant, PTL

(***************************************************************************)
(* Encode throws only if the vocabulary lacks a byte of the text or the    *)
(* product of a merge.                                                     *)
(***************************************************************************)
THEOREM RefusalsJustified == Spec => []RefusesOnlyIncomplete
<1>1. TextInv => RefusesOnlyIncomplete  BY DEF TextInv
<1> QED BY <1>1, TextInvariant, PTL

(***************************************************************************)
(* PreTokenize, written by hand with a look-ahead of one byte, cuts every  *)
(* ordinary text where the pattern of Qwen does, if every byte from 128 on *)
(* is read as a letter, as IsLetter does.  For the pattern over Unicode    *)
(* this is so of texts that hold nothing but letters outside ASCII.        *)
(***************************************************************************)
THEOREM CutsByPattern == Spec => []SplitsByPattern
<1>1. TextInv => SplitsByPattern
    <2> SUFFICES ASSUME TextInv, pc = "ordinary", ordinary # <<>>
                 PROVE  LET alternatives == Alternatives(ordinary)
                            matching == {a \in DOMAIN alternatives : alternatives[a] # {}}
                        IN PieceLength(ordinary) = Max(alternatives[Min(matching)])
        BY Zenon DEF SplitsByPattern
    <2>1. ordinary \in Seq(Byte)  BY DEF TextInv, TextType
    <2> QED BY <2>1, Splits
<1> QED BY <1>1, TextInvariant, PTL
-----------------------------------------------------------------------------
(***************************************************************************)
(* Merging by rank.                                                        *)
(***************************************************************************)
(* If the pair of rank r stands in w and none has a lower rank, it is the best. *)
LEMMA BestIs ==
    ASSUME NEW S, merges \in Seq(S), NEW w, Len(w) \in Nat, NEW r \in DOMAIN merges,
           NoneBelow(w, r), NEW n \in 1 .. Len(w) - 1, merges[r] = <<w[n], w[n + 1]>>
    PROVE  n \in Ranked(w) /\ BestPair(w) = merges[r]
<1> DEFINE R(m) == {x \in DOMAIN merges : merges[x] = <<w[m], w[m + 1]>>}
           T == {Rank(<<w[m], w[m + 1]>>) : m \in Ranked(w)}
<1>1. DOMAIN merges = 1 .. Len(merges) /\ Len(merges) \in Nat  OBVIOUS
<1>2. n \in Ranked(w)
    <2>1. Contains(merges, <<w[n], w[n + 1]>>)  BY <1>1 DEF Contains
    <2> QED BY <2>1 DEF Ranked
<1>3. ASSUME NEW m \in Ranked(w) PROVE Rank(<<w[m], w[m + 1]>>) \in Int /\ r <= Rank(<<w[m], w[m + 1]>>)
    <2> DEFINE U == R(m)
    <2>1. m \in 1 .. Len(w) - 1 /\ U # {}
        <3>1. m \in 1 .. Len(w) - 1 /\ Contains(merges, <<w[m], w[m + 1]>>)  BY DEF Ranked
        <3> QED BY <1>1, <3>1 DEF Contains
    <2>2. U \in SUBSET Nat /\ U \in SUBSET Int  BY <1>1
    <2>3. \A x \in U : r <= x  BY <2>1 DEF NoneBelow
    <2>4. Rank(<<w[m], w[m + 1]>>) = Min(U)  BY DEF Rank
    <2> HIDE DEF U
    <2>5. PICK x \in U : \A y \in U : x <= y  BY <2>1, <2>2, Least
    <2>6. Min(U) = x  BY <2>2, <2>5, MinIs
    <2> QED BY <2>2, <2>3, <2>4, <2>5, <2>6
<1>4. Rank(<<w[n], w[n + 1]>>) = r
    <2> DEFINE U == R(n)
    <2>1. U \in SUBSET Int /\ r \in U  BY <1>1
    <2>2. \A x \in U : r <= x  BY DEF NoneBelow
    <2>3. Rank(<<w[n], w[n + 1]>>) = Min(U)  BY DEF Rank
    <2> HIDE DEF U
    <2> QED BY <2>1, <2>2, <2>3, MinIs
<1>5. T \in SUBSET Int /\ r \in T /\ \A x \in T : r <= x  BY <1>2, <1>3, <1>4
<1>6. BestPair(w) = merges[Min(T)]  BY DEF BestPair
<1> HIDE DEF T
<1>7. Min(T) = r  BY <1>1, <1>5, MinIs
<1> QED BY <1>2, <1>6, <1>7

(* The first m symbols of w are done with: the pair does not begin in them. *)
Past(w, pair, m) == \A q \in 1 .. m : ~PairAt(w, pair, q)

(* The symbols of w with the two from place n made one. *)
Contracts(x, w, n) ==
    /\ x \in Seq(Seq(Byte)) /\ Len(x) = Len(w) - 1
    /\ \A q \in 1 .. Len(w) - 1 :
          x[q] = IF q < n THEN w[q] ELSE IF q = n THEN w[n] \o w[n + 1] ELSE w[q + 1]

(* Merging one occurrence merges the first that has not been done with. *)
LEMMA LeftmostIs ==
    ASSUME NEW S, merges \in Seq(S), NEW w \in Seq(Seq(Byte)), NEW r \in DOMAIN merges,
           NoneBelow(w, r), NEW n \in 1 .. Len(w) - 1, merges[r] = <<w[n], w[n + 1]>>,
           Past(w, merges[r], n - 1)
    PROVE  Contracts(MergeLeftmost(w), w, n)
<1> DEFINE T == {m \in Ranked(w) : <<w[m], w[m + 1]>> = BestPair(w)}
           x == w[n] \o w[n + 1]
           u == SubSeq(w, 1, n)
           v == SubSeq(w, n + 2, Len(w))
           y == u \o v
<1>1. Len(w) \in Nat /\ n \in Nat /\ n + 1 \in 1 .. Len(w) /\ n \in 1 .. Len(w)
    <2> DEFINE l == Len(w)
    <2>1. l \in Nat /\ n \in 1 .. l - 1  OBVIOUS
    <2> HIDE DEF l
    <2>2. n \in Nat /\ n + 1 \in 1 .. l /\ n \in 1 .. l  BY <2>1
    <2> QED BY <2>1, <2>2 DEF l
<1>2. n \in Ranked(w) /\ BestPair(w) = merges[r]  BY <1>1, BestIs
<1>3. T \in SUBSET Int /\ n \in T
    <2>1. Ranked(w) \in SUBSET Int  BY <1>1 DEF Ranked
    <2> QED BY <1>2, <2>1
<1>4. ASSUME NEW m \in T PROVE n <= m
    <2>4. m \in Int
        <3> HIDE DEF T
        <3> QED BY <1>3
    <2> SUFFICES ASSUME m < n PROVE FALSE
        <3> HIDE DEF T
        <3> QED BY <1>1, <2>4
    <2>1. m \in 1 .. Len(w) - 1  BY DEF Ranked
    <2>2. m \in 1 .. n - 1 /\ m < Len(w)  BY <1>1, <2>1
    <2>3. PairAt(w, merges[r], m)  BY <1>2, <2>2 DEF PairAt
    <2> QED BY <2>2, <2>3 DEF Past
<1>5. Min(T) = n
    <2> HIDE DEF T
    <2> QED BY <1>3, <1>4, MinIs
<1>6. MergeLeftmost(w) = [y EXCEPT ![n] = x]
    <2>1. MergeLeftmost(w) = ReplaceAt(RemoveAt(w, Min(T) + 1), Min(T), w[Min(T)] \o w[Min(T) + 1])
        BY <1>2 DEF MergeLeftmost
    <2>3. RemoveAt(w, n + 1) = y
        <3> DEFINE m == n + 1
        <3>1. m - 1 = n /\ m + 1 = n + 2  BY <1>1
        <3> HIDE DEF m
        <3>2. RemoveAt(w, m) = SubSeq(w, 1, m - 1) \o SubSeq(w, m + 1, Len(w))
            BY DEF RemoveAt
        <3> QED BY <3>1, <3>2, Zenon DEF m
    <2> HIDE DEF T, y
    <2>4. MergeLeftmost(w) = ReplaceAt(y, n, x)  BY <1>5, <2>1, <2>3, Zenon
    <2> QED BY <2>4, Zenon DEF ReplaceAt
<1>7. /\ u \in Seq(Seq(Byte)) /\ Len(u) = n /\ \A i \in 1 .. n : u[i] = w[i]
    <2> DEFINE zero == 0
    <2>1. zero \in Nat /\ zero <= n /\ n <= n /\ n <= Len(w) /\ n \in Nat  BY <1>1
    <2> HIDE DEF zero
    <2>2. /\ SubSeq(w, zero + 1, n) \in Seq(Seq(Byte)) /\ Len(SubSeq(w, zero + 1, n)) = n - zero
          /\ \A i \in 1 .. n - zero : SubSeq(w, zero + 1, n)[i] = w[zero + i]
        BY <2>1, SplitAt
    <2>3. zero + 1 = 1 /\ n - zero = n /\ \A i \in 1 .. n : zero + i = i  BY <1>1 DEF zero
    <2> QED BY <2>2, <2>3
<1>8. /\ v \in Seq(Seq(Byte)) /\ Len(v) = Len(w) - (n + 1)
      /\ \A i \in 1 .. Len(w) - (n + 1) : v[i] = w[n + 1 + i]
    <2> DEFINE a == n + 1  c == Len(w)
    <2>1. a \in Nat /\ c \in Nat /\ a <= c /\ c <= Len(w) /\ c <= c  BY <1>1
    <2>2. a + 1 = n + 2  BY <1>1
    <2> HIDE DEF a, c
    <2>3. /\ SubSeq(w, a + 1, c) \in Seq(Seq(Byte)) /\ Len(SubSeq(w, a + 1, c)) = c - a
          /\ \A i \in 1 .. c - a : SubSeq(w, a + 1, c)[i] = w[a + i]
        <3> DEFINE d == c
        <3>1. d \in Nat /\ a <= d /\ d <= c  BY <2>1
        <3> HIDE DEF d
        <3> QED BY <2>1, <3>1, SplitAt, SMTT(40)
    <2> QED BY <2>2, <2>3 DEF a, c
<1> HIDE DEF u, v
<1>9. /\ y \in Seq(Seq(Byte)) /\ Len(y) = Len(w) - 1
      /\ \A i \in 1 .. Len(w) - 1 : y[i] = IF i <= n THEN w[i] ELSE w[i + 1]
    <2>1. Joins(Seq(Byte))  BY Join, Zenon
    <2>2. /\ y \in Seq(Seq(Byte)) /\ Len(y) = Len(u) + Len(v)
          /\ \A i \in 1 .. Len(u) + Len(v) : y[i] = IF i <= Len(u) THEN u[i] ELSE v[i - Len(u)]
        BY <1>7, <1>8, <2>1, Zenon DEF Joins
    <2> HIDE DEF y
    <2>3. Len(y) = Len(w) - 1 /\ Len(u) + Len(v) = Len(w) - 1 /\ Len(u) = n
        BY <1>1, <1>7, <1>8, <2>2
    <2>4. ASSUME NEW i \in 1 .. Len(w) - 1 PROVE y[i] = IF i <= n THEN w[i] ELSE w[i + 1]
        <3>1. CASE i <= n
            <4>1. i \in 1 .. n  BY <1>1, <3>1
            <4> QED BY <1>7, <2>2, <2>3, <3>1, <4>1
        <3>2. CASE ~(i <= n)
            <4>1. i - n \in 1 .. Len(w) - (n + 1) /\ n + 1 + (i - n) = i + 1  BY <1>1, <3>2
            <4> QED BY <1>8, <2>2, <2>3, <3>2, <4>1
        <3> QED BY <3>1, <3>2
    <2> QED BY <2>2, <2>3, <2>4
<1>10. x \in Seq(Byte)
    <2>1. w[n] \in Seq(Byte) /\ w[n + 1] \in Seq(Byte)  BY <1>1
    <2> QED BY <2>1
<1> HIDE DEF x, y
<1>11. /\ [y EXCEPT ![n] = x] \in Seq(Seq(Byte)) /\ Len([y EXCEPT ![n] = x]) = Len(y)
       /\ \A i \in 1 .. Len(y) : [y EXCEPT ![n] = x][i] = IF i = n THEN x ELSE y[i]
    <2>1. n \in 1 .. Len(y) /\ Len(y) \in Nat  BY <1>1, <1>9
    <2>2. y \in Seq(Seq(Byte))  BY <1>9
    <2> QED BY <1>10, <2>1, <2>2, SMTT(40)
<1>12. ASSUME NEW q \in 1 .. Len(w) - 1
       PROVE  [y EXCEPT ![n] = x][q] = IF q < n THEN w[q] ELSE IF q = n THEN x ELSE w[q + 1]
    <2>1. n \in Int /\ q \in Int /\ q \in 1 .. Len(y)  BY <1>1, <1>9
    <2>2. (q < n => q <= n /\ q # n) /\ (~(q < n) /\ q # n => ~(q <= n))
        <3>1. \A i, j \in Int : (i < j => i <= j /\ i # j) /\ (~(i < j) /\ i # j => ~(i <= j))
            OBVIOUS
        <3> QED BY <2>1, <3>1, Zenon
    <2>3. y[q] = IF q <= n THEN w[q] ELSE w[q + 1]  BY <1>9
    <2>4. [y EXCEPT ![n] = x][q] = IF q = n THEN x ELSE y[q]  BY <1>11, <2>1
    <2> QED BY <2>2, <2>3, <2>4, Zenon
<1> QED BY <1>6, <1>9, <1>11, <1>12, Zenon DEF Contracts, x

(* A merge that takes the product of rank r comes after it. *)
LEMMA TakesLater ==
    ASSUME TrainingOrder, NEW S, merges \in Seq(S), NEW r \in DOMAIN merges, NEW other \in DOMAIN merges,
           NEW side \in 1 .. 2, merges[other][side] = Product(r), Len(Product(r)) # 1
    PROVE  r < other
<1>1. DOMAIN merges = 1 .. Len(merges) /\ Len(merges) \in Nat  OBVIOUS
<1>2. PICK earlier \in 1 .. other - 1 : Product(earlier) = Product(r)  BY DEF TrainingOrder
<1>3. earlier \in DOMAIN merges  BY <1>1
<1>4. earlier = r  BY <1>2, <1>3 DEF TrainingOrder
<1> QED BY <1>1, <1>4

(***************************************************************************)
(* A round of merging has come to place n of s and has made p of the       *)
(* symbols before; w is p followed by the rest of s.                       *)
(***************************************************************************)
Midway(p, w, n, s, r) ==
    /\ p \in Seq(Seq(Byte)) /\ w \in Seq(Seq(Byte)) /\ n \in 1 .. Len(s) + 1
    /\ Len(w) = Len(p) + (Len(s) + 1 - n)
    /\ \A q \in 1 .. Len(p) : w[q] = p[q]
    /\ \A q \in n .. Len(s) : w[Len(p) + 1 + (q - n)] = s[q]
    /\ NoneBelow(w, r) /\ Past(w, merges[r], Len(p))

(* Where the pair does not stand, the round passes one symbol. *)
LEMMA MidwaySkip ==
    ASSUME NEW s \in Seq(Seq(Byte)), NEW p, NEW w, NEW r, NEW n \in 1 .. Len(s),
           Midway(p, w, n, s, r), ~PairAt(s, merges[r], n)
    PROVE  Midway(Append(p, s[n]), w, n + 1, s, r)
<1> DEFINE m == Len(p)  t == Append(p, s[n])
<1>0. /\ p \in Seq(Seq(Byte)) /\ w \in Seq(Seq(Byte))
      /\ Len(w) = m + (Len(s) + 1 - n)
      /\ \A q \in 1 .. m : w[q] = p[q]
      /\ \A q \in n .. Len(s) : w[m + 1 + (q - n)] = s[q]
      /\ NoneBelow(w, r) /\ Past(w, merges[r], m)
    BY DEF Midway
<1>1. m \in Nat /\ Len(s) \in Nat /\ Len(w) \in Nat /\ n \in Nat /\ s[n] \in Seq(Byte)  BY <1>0
<1>2. /\ t \in Seq(Seq(Byte)) /\ Len(t) = m + 1 /\ t[m + 1] = s[n]
      /\ \A q \in 1 .. m : t[q] = p[q]
    BY <1>0, <1>1
<1> HIDE DEF m, t
<1>3. w[m + 1] = s[n]
    <2>1. n \in n .. Len(s) /\ m + 1 + (n - n) = m + 1  BY <1>1
    <2> QED BY <1>0, <2>1
<1>4. \A q \in 1 .. m + 1 : w[q] = t[q]
    <2> TAKE q \in 1 .. m + 1
    <2>1. q = m + 1 \/ q \in 1 .. m  BY <1>1
    <2> QED BY <1>0, <1>2, <1>3, <2>1
<1>5. \A q \in n + 1 .. Len(s) : w[m + 1 + 1 + (q - (n + 1))] = s[q]
    <2> TAKE q \in n + 1 .. Len(s)
    <2>1. q \in n .. Len(s) /\ m + 1 + 1 + (q - (n + 1)) = m + 1 + (q - n)  BY <1>1
    <2> QED BY <1>0, <2>1
<1>6. Past(w, merges[r], m + 1)
    <2> SUFFICES ASSUME NEW q \in 1 .. m + 1, PairAt(w, merges[r], q) PROVE FALSE
        BY DEF Past
    <2>1. q = m + 1
        <3>1. q \notin 1 .. m  BY <1>0 DEF Past
        <3> QED BY <1>1, <3>1
    <2>2. m + 1 < Len(w) /\ <<w[m + 1], w[m + 1 + 1]>> = merges[r]  BY <2>1 DEF PairAt
    <2> DEFINE i == n + 1
    <2>3. n < Len(s)
        <3>1. Len(w) = m + (Len(s) + 1 - n)  BY <1>0
        <3> QED BY <1>1, <2>2, <3>1
    <2>4. i \in n .. Len(s) /\ m + 1 + (i - n) = m + 1 + 1  BY <1>1, <2>3
    <2> HIDE DEF i
    <2>5. w[m + 1 + (i - n)] = s[i]  BY <1>0, <2>4, Zenon
    <2>6. <<s[n], s[n + 1]>> = merges[r]  BY <1>3, <2>2, <2>4, <2>5, Zenon DEF i
    <2> QED BY <2>3, <2>6, Zenon DEF PairAt
<1>7. n + 1 \in 1 .. Len(s) + 1 /\ Len(w) = m + 1 + (Len(s) + 1 - (n + 1))  BY <1>0, <1>1
<1> QED BY <1>0, <1>2, <1>4, <1>5, <1>6, <1>7, Zenon DEF Midway, t

(* Where the pair stands, the round makes one symbol of two, as merging one occurrence does. *)
LEMMA MidwayMerge ==
    ASSUME TrainingOrder, merges \in Seq(Seq(Byte) \X Seq(Byte)), NEW r \in DOMAIN merges,
           NEW s \in Seq(Seq(Byte)), \A q \in 1 .. Len(s) : s[q] # <<>>,
           NEW p, NEW w, NEW n \in 1 .. Len(s),
           Midway(p, w, n, s, r), PairAt(s, merges[r], n)
    PROVE  /\ Midway(Append(p, s[n] \o s[n + 1]), MergeLeftmost(w), n + 2, s, r)
           /\ Len(MergeLeftmost(w)) = Len(w) - 1
<1> DEFINE m == Len(p)  a == s[n]  b == s[n + 1]  c == a \o b
           t == Append(p, c)  x == MergeLeftmost(w)
<1>0. /\ p \in Seq(Seq(Byte)) /\ w \in Seq(Seq(Byte))
      /\ Len(w) = m + (Len(s) + 1 - n)
      /\ \A q \in 1 .. m : w[q] = p[q]
      /\ \A q \in n .. Len(s) : w[m + 1 + (q - n)] = s[q]
      /\ NoneBelow(w, r) /\ Past(w, merges[r], m)
    BY DEF Midway
<1>1. /\ m \in Nat /\ Len(s) \in Nat /\ Len(w) \in Nat /\ n \in Nat
      /\ n + 1 \in 1 .. Len(s) /\ merges[r] = <<a, b>>
    <2>1. n < Len(s) /\ <<a, b>> = merges[r]  BY DEF PairAt
    <2>2. n \in Nat /\ Len(s) \in Nat /\ n + 1 \in 1 .. Len(s)  BY <2>1
    <2>3. m \in Nat /\ Len(w) \in Nat  BY <1>0, SMTT(40)
    <2> QED BY <2>1, <2>2, <2>3
<1>2. a \in Seq(Byte) /\ b \in Seq(Byte) /\ a # <<>> /\ b # <<>>
    <2>1. n + 1 \in 1 .. Len(s)  BY <1>1
    <2>2. \A q \in 1 .. Len(s) : s[q] \in Seq(Byte)  OBVIOUS
    <2> QED BY <2>1, <2>2, Zenon
<1>3. /\ c \in Seq(Byte) /\ Len(c) # 1 /\ c # a /\ c # b
    <2> HIDE DEF a, b
    <2>1. Len(a) \in Nat \ {0} /\ Len(b) \in Nat \ {0} /\ Len(c) = Len(a) + Len(b)  BY <1>2
    <2>2. c \in Seq(Byte)  BY <1>2
    <2> HIDE DEF c
    <2> QED BY <2>1, <2>2
<1>4. Product(r) = c
    <2>1. merges[r][1] = a /\ merges[r][2] = b  BY <1>1
    <2> QED BY <2>1, Zenon DEF Product
<1>5. w[m + 1] = a /\ w[m + 1 + 1] = b
    <2>1. n \in n .. Len(s) /\ m + 1 + (n - n) = m + 1  BY <1>1
    <2>2. n + 1 \in n .. Len(s) /\ m + 1 + (n + 1 - n) = m + 1 + 1  BY <1>1
    <2> QED BY <1>0, <2>1, <2>2
<1>6. /\ t \in Seq(Seq(Byte)) /\ Len(t) = m + 1 /\ t[m + 1] = c
      /\ \A q \in 1 .. m : t[q] = p[q]
    <2> HIDE DEF c
    <2> QED BY <1>0, <1>1, <1>3
<1> DEFINE k == m + 1
<1> HIDE DEF m, a, b, c, t, x
<1>7. k \in 1 .. Len(w) - 1 /\ k - 1 = m /\ m = k - 1 /\ k \in Nat /\ Len(w) - 1 \in Nat
    <2> DEFINE l == Len(w)  e == Len(s)
    <2>1. l = m + (e + 1 - n)  BY <1>0
    <2>2. l \in Nat /\ e \in Nat /\ n + 1 \in 1 .. e /\ m \in Nat /\ n \in Nat  BY <1>1
    <2> HIDE DEF l, e
    <2>3. k \in 1 .. l - 1 /\ k - 1 = m /\ m = k - 1 /\ k \in Nat /\ l - 1 \in Nat
        BY <2>1, <2>2
    <2> QED BY <2>3 DEF l
<1>8. DOMAIN merges = 1 .. Len(merges) /\ DOMAIN merges \in SUBSET Nat
    <2>1. DOMAIN merges = 1 .. Len(merges) /\ Len(merges) \in Nat  OBVIOUS
    <2> QED BY <2>1
<1> DEFINE S == Seq(Byte) \X Seq(Byte)
<1>9. merges \in Seq(S)  OBVIOUS
<1> HIDE DEF S
<1>10. /\ x \in Seq(Seq(Byte)) /\ Len(x) = Len(w) - 1
       /\ \A q \in 1 .. Len(w) - 1 :
             x[q] = IF q < k THEN w[q] ELSE IF q = k THEN c ELSE w[q + 1]
    <2>1. merges[r] = <<w[k], w[k + 1]>>  BY <1>1, <1>5, Zenon DEF k
    <2>2. Past(w, merges[r], k - 1)  BY <1>0, <1>7
    <2> HIDE DEF k
    <2>3. Contracts(x, w, k)  BY <1>0, <1>7, <1>9, <2>1, <2>2, LeftmostIs DEF x
    <2>4. w[k] \o w[k + 1] = c  BY <1>5, Zenon DEF c, k
    <2> QED BY <2>3, <2>4, Zenon DEF Contracts
<1> HIDE DEF k
<1>11. \A q \in 1 .. Len(w) - 1 : /\ q < k => x[q] = w[q]
                                  /\ q = k => x[q] = c
                                  /\ q > k => x[q] = w[q + 1]
    <2> TAKE q \in 1 .. Len(w) - 1
    <2>1. (q > k => ~(q < k) /\ q # k) /\ (q = k => ~(q < k))  BY <1>7
    <2> QED BY <1>10, <2>1, Zenon
<1>12. \A q \in 1 .. k : x[q] = t[q]
    <2> TAKE q \in 1 .. k
    <2>1. q \in 1 .. Len(w) - 1 /\ (q = k \/ (q \in 1 .. m /\ q < k))  BY <1>1, <1>7, SMTT(40)
    <2>2. CASE q = k
        <3>1. x[q] = c  BY <1>11, <2>1, <2>2
        <3>2. t[k] = c  BY <1>6, Zenon DEF k
        <3> QED BY <2>2, <3>1, <3>2
    <2>3. CASE q \in 1 .. m /\ q < k
        <3>1. x[q] = w[q]  BY <1>11, <2>1, <2>3
        <3> QED BY <1>0, <1>6, <2>3, <3>1
    <2> QED BY <2>1, <2>2, <2>3
<1>13. \A q \in n + 2 .. Len(s) : x[k + 1 + (q - (n + 2))] = s[q]
    <2> TAKE q \in n + 2 .. Len(s)
    <2> DEFINE i == k + 1 + (q - (n + 2))
    <2>1. q \in n .. Len(s) /\ i \in 1 .. Len(w) - 1 /\ i > k /\ i + 1 = m + 1 + (q - n)
        <3>1. Len(w) = m + (Len(s) + 1 - n)  BY <1>0
        <3> QED BY <1>1, <1>7, <3>1
    <2> HIDE DEF i
    <2>2. x[i] = w[i + 1]  BY <1>11, <2>1
    <2>3. w[i + 1] = s[q]  BY <1>0, <2>1
    <2> QED BY <2>2, <2>3 DEF i
<1>14. NoneBelow(x, r)
    <2> SUFFICES ASSUME NEW q \in 1 .. Len(x) - 1, NEW other \in DOMAIN merges,
                        merges[other] = <<x[q], x[q + 1]>>
                 PROVE  r <= other
        BY DEF NoneBelow
    <2>0. /\ q \in 1 .. Len(w) - 1 /\ q + 1 \in 1 .. Len(w) - 1 /\ q \in Nat
          /\ r \in Nat /\ other \in Nat
        <3>1. Len(x) = Len(w) - 1  BY <1>10
        <3>2. r \in Nat /\ other \in Nat  BY <1>8
        <3> QED BY <1>7, <3>1, <3>2
    <2>1. CASE q + 1 < k
        <3>1. q < k  BY <1>7, <2>0, <2>1
        <3>2. x[q] = w[q] /\ x[q + 1] = w[q + 1]  BY <1>11, <2>0, <2>1, <3>1
        <3> QED BY <1>0, <2>0, <3>2, Zenon DEF NoneBelow
    <2>2. CASE q + 1 = k
        <3>1. x[q + 1] = c  BY <1>11, <2>0, <2>2
        <3>2. merges[other][2] = Product(r)  BY <1>4, <3>1
        <3>3. r < other
            <4> DEFINE side == 2
            <4>1. side \in 1 .. 2 /\ merges[other][side] = Product(r) /\ Len(Product(r)) # 1
                BY <1>3, <1>4, <3>2
            <4> HIDE DEF side
            <4> QED BY <1>9, <4>1, TakesLater
        <3> QED BY <2>0, <3>3
    <2>3. CASE q = k
        <3>1. x[q] = c  BY <1>11, <2>0, <2>3
        <3>2. merges[other][1] = Product(r)  BY <1>4, <3>1
        <3>3. r < other
            <4> DEFINE side == 1
            <4>1. side \in 1 .. 2 /\ merges[other][side] = Product(r) /\ Len(Product(r)) # 1
                BY <1>3, <1>4, <3>2
            <4> HIDE DEF side
            <4> QED BY <1>9, <4>1, TakesLater
        <3> QED BY <2>0, <3>3
    <2>4. CASE q > k
        <3> DEFINE i == q + 1
        <3>1. i > k /\ i \in 1 .. Len(w) - 1 /\ i \in Nat  BY <1>7, <2>0, <2>4
        <3> HIDE DEF i
        <3>2. x[q] = w[i] /\ x[i] = w[i + 1]  BY <1>11, <2>0, <2>4, <3>1 DEF i
        <3>3. merges[other] = <<w[i], w[i + 1]>>  BY <3>2 DEF i
        <3> QED BY <1>0, <3>1, <3>3, Zenon DEF NoneBelow
    <2> QED BY <1>7, <2>0, <2>1, <2>2, <2>3, <2>4
<1>15. Past(x, merges[r], k)
    <2> SUFFICES ASSUME NEW q \in 1 .. k, PairAt(x, merges[r], q) PROVE FALSE
        BY DEF Past
    <2>0. q < Len(x) /\ x[q] = a /\ x[q + 1] = b
        <3>1. q < Len(x) /\ <<x[q], x[q + 1]>> = <<a, b>>  BY <1>1 DEF PairAt
        <3> QED BY <3>1
    <2>1. q \in 1 .. Len(w) - 1 /\ q + 1 \in 1 .. Len(w) - 1 /\ q \in Nat
        <3>1. Len(x) = Len(w) - 1  BY <1>10
        <3> QED BY <1>7, <2>0, <3>1, SMTT(40)
    <2>2. CASE q + 1 < k
        <3>1. q < k /\ q \in 1 .. m /\ q < Len(w)  BY <1>1, <1>7, <2>1, <2>2
        <3>2. x[q] = w[q] /\ x[q + 1] = w[q + 1]  BY <1>11, <2>1, <2>2, <3>1
        <3>3. PairAt(w, merges[r], q)  BY <1>1, <2>0, <3>1, <3>2 DEF PairAt
        <3> QED BY <1>0, <3>1, <3>3 DEF Past
    <2>3. CASE q + 1 = k
        <3>1. x[q + 1] = c  BY <1>11, <2>1, <2>3
        <3> QED BY <1>3, <2>0, <3>1
    <2>4. CASE q = k
        <3>1. x[q] = c  BY <1>11, <2>1, <2>4
        <3> QED BY <1>3, <2>0, <3>1
    <2> QED BY <1>7, <2>1, <2>2, <2>3, <2>4
<1>16. n + 2 \in 1 .. Len(s) + 1 /\ Len(x) = k + (Len(s) + 1 - (n + 2))
    <2>1. Len(w) = m + (Len(s) + 1 - n) /\ Len(x) = Len(w) - 1  BY <1>0, <1>10
    <2> QED BY <1>1, <1>7, <2>1
<1>17. Len(t) = k /\ t \in Seq(Seq(Byte))  BY <1>6 DEF k
<1>18. Midway(t, x, n + 2, s, r)
    BY <1>10, <1>12, <1>13, <1>14, <1>15, <1>16, <1>17, Zenon DEF Midway
<1> QED BY <1>10, <1>18 DEF x, t, c, a, b

(* MergeAll, place by place: rest[n] is what is made of s from place n on. *)
MergeRest(G, s, pair) ==
    \A n \in 1 .. Len(s) + 2 :
        /\ G[n] \in Seq(Seq(Byte))
        /\ G[n] = IF n > Len(s) THEN <<>>
                  ELSE IF PairAt(s, pair, n) THEN <<s[n] \o s[n + 1]>> \o G[n + 2]
                  ELSE <<s[n]>> \o G[n + 1]

(* There is such a function. *)
LEMMA MergeRests ==
    ASSUME NEW s \in Seq(Seq(Byte)), NEW pair
    PROVE  \E G : MergeRest(G, s, pair) /\ MergeAll(s, pair) = G[1]
<1>0. Prepends(Byte)  BY FlattenCons, Zenon
<1>1. PICK G : /\ Scans(G, Len(s), MergeHeads(s, pair), MergeSteps(s, pair))
               /\ MergeAll(s, pair) = G[1]
    BY MergeScans
<1> DEFINE L == Len(s)
<1>2. L \in Nat /\ \A n \in 1 .. L : s[n] \in Seq(Byte)  OBVIOUS
<1>3. \A n \in 1 .. L + 2 :
         G[n] = IF n > L THEN <<>>
                ELSE IF PairAt(s, pair, n) THEN <<s[n] \o s[n + 1]>> \o G[n + 2]
                ELSE <<s[n]>> \o G[n + 1]
    <2> TAKE n \in 1 .. L + 2
    <2>1. G[n] = IF n > L THEN <<>> ELSE MergeHeads(s, pair)[n] \o G[n + MergeSteps(s, pair)[n]]
        BY <1>1, Zenon DEF Scans
    <2>2. ~(n > L) => n \in 1 .. L  BY <1>2
    <2>3. ~(n > L) =>
             /\ MergeHeads(s, pair)[n] = IF PairAt(s, pair, n) THEN <<s[n] \o s[n + 1]>> ELSE <<s[n]>>
             /\ MergeSteps(s, pair)[n] = IF PairAt(s, pair, n) THEN 2 ELSE 1
        BY <2>2, Zenon DEF MergeHeads, MergeSteps
    <2> QED BY <2>1, <2>3, Zenon
<1> DEFINE Good(n) == G[n] \in Seq(Seq(Byte))
           T == {d \in Nat : \A n \in 1 .. L + 2 : L + 2 - n <= d => Good(n)}
<1>4. ASSUME NEW n \in 1 .. L + 2, n > L PROVE Good(n)
    <2>1. G[n] = <<>>  BY <1>3, <1>4
    <2> QED BY <2>1
<1>5. 0 \in T
    <2>1. \A n \in 1 .. L + 2 : L + 2 - n <= 0 => n > L  BY <1>2
    <2> HIDE DEF Good, L
    <2> QED BY <1>4, <2>1
<1>6. ASSUME NEW d \in Nat, d \in T PROVE d + 1 \in T
    <2> SUFFICES ASSUME NEW n \in 1 .. L + 2, L + 2 - n <= d + 1, ~(n > L) PROVE Good(n)
        <3> HIDE DEF Good, L
        <3> QED BY <1>4
    <2>1. n \in 1 .. L /\ n + 1 \in 1 .. L + 2 /\ n + 2 \in 1 .. L + 2
          /\ L + 2 - (n + 1) <= d /\ L + 2 - (n + 2) <= d
        BY <1>2
    <2>2. G[n + 1] \in Seq(Seq(Byte)) /\ G[n + 2] \in Seq(Seq(Byte))  BY <1>6, <2>1
    <2>3. PairAt(s, pair, n) => s[n] \o s[n + 1] \in Seq(Byte)
        <3> SUFFICES ASSUME PairAt(s, pair, n) PROVE s[n] \o s[n + 1] \in Seq(Byte)
            OBVIOUS
        <3>1. n + 1 \in 1 .. L  BY <1>2, <2>1 DEF PairAt
        <3>2. s[n] \in Seq(Byte) /\ s[n + 1] \in Seq(Byte)  BY <1>2, <2>1, <3>1
        <3> QED BY <3>2
    <2>4. s[n] \in Seq(Byte)  BY <1>2, <2>1
    <2>5. G[n] = IF PairAt(s, pair, n) THEN <<s[n] \o s[n + 1]>> \o G[n + 2]
                 ELSE <<s[n]>> \o G[n + 1]
        BY <1>3, Zenon
    <2> QED BY <1>0, <2>2, <2>3, <2>4, <2>5, Zenon DEF Prepends
<1>7. \A n \in 1 .. L + 2 : Good(n)
    <2>1. L + 2 \in T
        <3> HIDE DEF T, L
        <3>1. L + 2 \in Nat  BY <1>2
        <3> QED BY <1>5, <1>6, <3>1, Induction
    <2> HIDE DEF Good
    <2> QED BY <1>2, <2>1
<1> QED BY <1>1, <1>3, <1>7, Zenon DEF MergeRest

(* What has been made so far, with a further symbol before what is still to come. *)
LEMMA Passes ==
    ASSUME NEW p \in Seq(Seq(Byte)), NEW x \in Seq(Byte), NEW g \in Seq(Seq(Byte))
    PROVE  Append(p, x) \o g = p \o (<<x>> \o g)
<1>1. Regroups(Seq(Byte))  BY Regroup, Zenon
<1> DEFINE h == <<x>>
<1>2. Append(p, x) = p \o h
    <2> DEFINE S == Seq(Byte)
    <2>1. p \in Seq(S) /\ x \in S  OBVIOUS
    <2> HIDE DEF S
    <2> QED BY <2>1, AppendIsConcat
<1>3. h \in Seq(Seq(Byte))  OBVIOUS
<1> HIDE DEF h
<1>4. (p \o h) \o g = p \o (h \o g)  BY <1>1, <1>3, Zenon DEF Regroups
<1> QED BY <1>2, <1>4, Zenon DEF h

(* F merges one occurrence at a time, and has done k of them. *)
MergesOneByOne(F, L) == \A k \in 0 .. L : k < L => F[k + 1] = MergeLeftmost(F[k])

Symbols(s) == s \in Seq(Seq(Byte)) /\ \A n \in 1 .. Len(s) : s[n] # <<>>

(* A round merges the occurrences of a pair that merging one at a time does next. *)
LEMMA RoundReplayed ==
    ASSUME TrainingOrder, merges \in Seq(Seq(Byte) \X Seq(Byte)),
           NEW L \in Nat, NEW F, MergesOneByOne(F, L),
           NEW k \in 0 .. L, Symbols(F[k]), Len(F[k]) = L - k, Ranked(F[k]) # {}
    PROVE  \E j \in 0 .. L : /\ MergeAll(F[k], BestPair(F[k])) = F[j]
                             /\ Len(F[j]) = L - j
<1> DEFINE s == F[k]  N == Len(s)
<1>1. s \in Seq(Seq(Byte)) /\ N \in Nat /\ \A q \in 1 .. N : s[q] # <<>> /\ s[q] \in Seq(Byte)
    <2>1. s \in Seq(Seq(Byte)) /\ \A q \in 1 .. N : s[q] # <<>>  BY Zenon DEF Symbols
    <2> HIDE DEF s
    <2> QED BY <2>1
<1>2. PICK r \in DOMAIN merges : BestPair(s) = merges[r] /\ NoneBelow(s, r)
    <2> DEFINE S == Seq(Byte) \X Seq(Byte)
    <2>1. merges \in Seq(S)  OBVIOUS
    <2> HIDE DEF S, s
    <2>2. Ranked(s) # {}  BY DEF s
    <2> QED BY <2>1, <2>2, BestExists
<1>3. PICK G : MergeRest(G, s, merges[r]) /\ MergeAll(s, merges[r]) = G[1]
    <2> HIDE DEF s
    <2> QED BY <1>1, MergeRests
<1> DEFINE M == MergeAll(s, BestPair(s))
           At(p, i, n) == /\ i \in 0 .. L /\ Midway(p, F[i], n, s, r) /\ Len(F[i]) = L - i
                          /\ M = p \o G[n]
           Reaches(n) == \E p, i : At(p, i, n)
           T == {d \in Nat : \A n \in 1 .. N + 1 : N + 1 - n <= d /\ Reaches(n) => Reaches(N + 1)}
<1>4. Reaches(1)
    <2>1. <<>> \in Seq(Seq(Byte)) /\ Len(<<>>) = 0  OBVIOUS
    <2> DEFINE p == <<>>
    <2>2. p \in Seq(Seq(Byte)) /\ Len(p) = 0  BY <2>1
    <2>3. M = p \o G[1]
        <3>1. 1 \in 1 .. N + 2  BY <1>1
        <3>2. G[1] \in Seq(Seq(Byte))  BY <1>3, <3>1 DEF MergeRest
        <3>3. p \o G[1] = G[1]  BY <3>2
        <3> QED BY <1>2, <1>3, <3>3, Zenon
    <2> HIDE DEF p, s
    <2>4. Midway(p, s, 1, s, r)
        <3>1. 1 \in 1 .. N + 1 /\ N = 0 + (N + 1 - 1) /\ 1 .. 0 = {}  BY <1>1
        <3>2. \A q \in 1 .. N : 0 + 1 + (q - 1) = q  OBVIOUS
        <3>3. Past(s, merges[r], 0)  BY <3>1 DEF Past
        <3> QED BY <1>1, <1>2, <2>2, <3>1, <3>2, <3>3 DEF Midway
    <2>5. At(p, k, 1)  BY <2>3, <2>4 DEF s
    <2> HIDE DEF At
    <2> QED BY <2>5
<1> HIDE DEF s, M
<1>5. ASSUME NEW n \in 1 .. N, NEW p, NEW i, At(p, i, n), ~PairAt(s, merges[r], n)
      PROVE  Reaches(n + 1)
    <2> DEFINE t == Append(p, s[n])
    <2>1. n \in 1 .. N + 2 /\ n + 1 \in 1 .. N + 2 /\ ~(n > N)  BY <1>1
    <2>2. G[n] = <<s[n]>> \o G[n + 1] /\ G[n + 1] \in Seq(Seq(Byte))
        BY <1>3, <1>5, <2>1, Zenon DEF MergeRest
    <2>3. p \in Seq(Seq(Byte)) /\ s[n] \in Seq(Byte)  BY <1>1, <1>5 DEF Midway
    <2>4. M = t \o G[n + 1]
        <3>1. t \o G[n + 1] = p \o (<<s[n]>> \o G[n + 1])  BY <2>2, <2>3, Passes
        <3> QED BY <1>5, <2>2, <3>1, Zenon
    <2>5. Midway(t, F[i], n + 1, s, r)  BY <1>1, <1>5, MidwaySkip
    <2>6. At(t, i, n + 1)
        <3> HIDE DEF t
        <3> QED BY <1>5, <2>4, <2>5
    <2> HIDE DEF At, t
    <2> QED BY <2>6
<1>6. ASSUME NEW n \in 1 .. N, NEW p, NEW i, At(p, i, n), PairAt(s, merges[r], n)
      PROVE  n < N /\ Reaches(n + 2)
    <2> DEFINE x == s[n] \o s[n + 1]  t == Append(p, x)
    <2>1. n < N /\ n \in 1 .. N + 2 /\ n + 2 \in 1 .. N + 2 /\ n + 1 \in 1 .. N /\ ~(n > N)
        <3>1. n < N  BY <1>6 DEF PairAt
        <3> QED BY <1>1, <3>1, SMTT(40)
    <2>2. G[n] = <<x>> \o G[n + 2] /\ G[n + 2] \in Seq(Seq(Byte))
        BY <1>3, <1>6, <2>1, Zenon DEF MergeRest
    <2>3. p \in Seq(Seq(Byte)) /\ x \in Seq(Byte)
        <3>1. s[n] \in Seq(Byte) /\ s[n + 1] \in Seq(Byte)  BY <1>1, <2>1
        <3>2. p \in Seq(Seq(Byte))  BY <1>6 DEF Midway
        <3> QED BY <3>1, <3>2
    <2>4. M = t \o G[n + 2]
        <3> HIDE DEF x
        <3>1. t \o G[n + 2] = p \o (<<x>> \o G[n + 2])  BY <2>2, <2>3, Passes
        <3> QED BY <1>6, <2>2, <3>1, Zenon
    <2>5. /\ Midway(t, MergeLeftmost(F[i]), n + 2, s, r)
          /\ Len(MergeLeftmost(F[i])) = Len(F[i]) - 1
        <3> DEFINE w == F[i]
        <3>1. Midway(p, w, n, s, r)  BY <1>6
        <3> HIDE DEF w
        <3>2. /\ Midway(t, MergeLeftmost(w), n + 2, s, r)
              /\ Len(MergeLeftmost(w)) = Len(w) - 1
            BY <1>1, <1>6, <3>1, MidwayMerge
        <3> QED BY <3>2 DEF w
    <2>6. i \in 0 .. L /\ i < L /\ i + 1 \in 0 .. L /\ Len(F[i]) = L - i
        <3>1. i \in 0 .. L /\ Len(F[i]) = L - i  BY <1>6
        <3>2. Len(F[i]) = Len(p) + (N + 1 - n)  BY <1>6 DEF Midway
        <3>3. Len(p) \in Nat  BY <2>3
        <3> DEFINE c == Len(F[i])  m == Len(p)  e == N
        <3>4. e \in Nat /\ n \in 1 .. e /\ n < e /\ c = L - i /\ c = m + (e + 1 - n) /\ m \in Nat
            BY <1>1, <2>1, <3>1, <3>2, <3>3
        <3> HIDE DEF c, m, e
        <3>5. i < L /\ i + 1 \in 0 .. L  BY <3>1, <3>4
        <3> QED BY <3>1, <3>5
    <2>7. F[i + 1] = MergeLeftmost(F[i])  BY <2>6 DEF MergesOneByOne
    <2>8. Len(F[i + 1]) = L - (i + 1)  BY <2>5, <2>6, <2>7
    <2>9. At(t, i + 1, n + 2)
        <3> HIDE DEF t
        <3> QED BY <2>4, <2>5, <2>6, <2>7, <2>8
    <2> HIDE DEF At, t
    <2> QED BY <2>1, <2>9
<1>7. 0 \in T
    <2>1. \A n \in 1 .. N + 1 : N + 1 - n <= 0 => n = N + 1
        <3>1. N \in Int  BY <1>1
        <3> HIDE DEF N
        <3> QED BY <3>1
    <2> HIDE DEF Reaches
    <2> QED BY <2>1
<1>8. ASSUME NEW d \in Nat, d \in T PROVE d + 1 \in T
    <2> SUFFICES ASSUME NEW n \in 1 .. N + 1, N + 1 - n <= d + 1, Reaches(n)
                 PROVE  Reaches(N + 1)
        <3> HIDE DEF Reaches
        <3> QED OBVIOUS
    <2>1. PICK p, i : At(p, i, n)
        <3> HIDE DEF At
        <3> QED OBVIOUS
    <2> HIDE DEF At
    <2>2. CASE n = N + 1  BY <2>2
    <2>3. CASE n # N + 1 /\ ~PairAt(s, merges[r], n)
        <3>1. n \in 1 .. N /\ n + 1 \in 1 .. N + 1 /\ N + 1 - (n + 1) <= d  BY <1>1, <2>3
        <3>2. Reaches(n + 1)  BY <1>5, <2>1, <2>3, <3>1
        <3> HIDE DEF Reaches
        <3> QED BY <1>8, <3>1, <3>2
    <2>4. CASE n # N + 1 /\ PairAt(s, merges[r], n)
        <3>1. n \in 1 .. N  BY <1>1, <2>4
        <3>2. n < N /\ Reaches(n + 2)  BY <1>6, <2>1, <2>4, <3>1
        <3>3. n + 2 \in 1 .. N + 1 /\ N + 1 - (n + 2) <= d  BY <1>1, <3>1, <3>2, SMTT(40)
        <3> HIDE DEF Reaches
        <3> QED BY <1>8, <3>2, <3>3
    <2> QED BY <2>2, <2>3, <2>4
<1>9. Reaches(N + 1)
    <2>1. N \in T
        <3> HIDE DEF T
        <3> QED BY <1>1, <1>7, <1>8, Induction
    <2>2. 1 \in 1 .. N + 1 /\ N + 1 - 1 <= N  BY <1>1
    <2> HIDE DEF Reaches
    <2> QED BY <1>4, <2>1, <2>2
<1>10. PICK p, i : At(p, i, N + 1)
    <2> HIDE DEF At
    <2> QED BY <1>9
<1>11. M = F[i]
    <2>1. N + 1 \in 1 .. N + 2 /\ N + 1 > N  BY <1>1
    <2>2. G[N + 1] = <<>>  BY <1>3, <2>1 DEF MergeRest
    <2> DEFINE w == F[i]
    <2>3. /\ p \in Seq(Seq(Byte)) /\ w \in Seq(Seq(Byte)) /\ Len(w) = Len(p) + (N + 1 - (N + 1))
          /\ \A q \in 1 .. Len(p) : w[q] = p[q]
        BY <1>10 DEF Midway
    <2> HIDE DEF w
    <2>4. Len(p) \in Nat /\ Len(w) = Len(p)  BY <1>1, <2>3
    <2>5. w = p
        <3>1. w = [q \in 1 .. Len(p) |-> w[q]] /\ p = [q \in 1 .. Len(p) |-> p[q]]
            BY <2>3, <2>4
        <3> QED BY <2>3, <3>1, Zenon
    <2>6. p \o <<>> = p  BY <2>3
    <2> QED BY <1>10, <2>2, <2>5, <2>6, Zenon DEF w
<1> QED BY <1>10, <1>11, Zenon DEF M, s

(* Merging one occurrence at a time begins with the bytes of the piece. *)
LEMMA OneByOneDefined ==
    ASSUME NEW piece \in Seq(Byte)
    PROVE  OneByOne(piece)[0] = Bytes(piece) /\ MergesOneByOne(OneByOne(piece), Len(piece))
<1> DEFINE L == Len(piece)
           Is(F, n) == F = [k \in 0 .. n |-> IF k = 0 THEN Bytes(piece) ELSE MergeLeftmost(F[k - 1])]
           T == {n \in Nat : \E F : Is(F, n)}
<1>0. L \in Nat  OBVIOUS
<1>1. 0 \in T
    <2> DEFINE F == [k \in 0 .. 0 |-> Bytes(piece)]
    <2>1. \A k \in 0 .. 0 : k = 0  OBVIOUS
    <2>2. F = [k \in 0 .. 0 |-> IF k = 0 THEN Bytes(piece) ELSE MergeLeftmost(F[k - 1])]
        BY <2>1
    <2>3. Is(F, 0)  BY <2>2
    <2> HIDE DEF Is, F
    <2> QED BY <2>3
<1>2. ASSUME NEW n \in Nat, n \in T PROVE n + 1 \in T
    <2>1. PICK F : Is(F, n)
        <3> HIDE DEF Is
        <3> QED BY <1>2
    <2> DEFINE G == [k \in 0 .. n + 1 |-> IF k <= n THEN F[k] ELSE MergeLeftmost(F[k - 1])]
    <2>2. \A k \in 0 .. n : F[k] = IF k = 0 THEN Bytes(piece) ELSE MergeLeftmost(F[k - 1])
        BY <2>1, Zenon
    <2>3. \A k \in 0 .. n + 1 : G[k] = IF k = 0 THEN Bytes(piece) ELSE MergeLeftmost(G[k - 1])
        <3> TAKE k \in 0 .. n + 1
        <3>1. \A i \in 0 .. n + 1 : G[i] = IF i <= n THEN F[i] ELSE MergeLeftmost(F[i - 1])
            BY Zenon
        <3> HIDE DEF G
        <3>2. G[k] = IF k = 0 THEN Bytes(piece) ELSE MergeLeftmost(F[k - 1])
            <4>1. k <= n => k \in 0 .. n  OBVIOUS
            <4>2. ~(k <= n) => k # 0  OBVIOUS
            <4> QED BY <2>2, <3>1, <4>1, <4>2, Zenon
        <3>3. k # 0 => G[k - 1] = F[k - 1]
            <4>1. k # 0 => k - 1 \in 0 .. n + 1 /\ k - 1 <= n  OBVIOUS
            <4> QED BY <3>1, <4>1, Zenon
        <3> QED BY <3>2, <3>3, Zenon
    <2>4. Is(G, n + 1)
        <3>1. G = [k \in 0 .. n + 1 |-> G[k]]  BY Zenon
        <3> HIDE DEF G
        <3>2. [k \in 0 .. n + 1 |-> G[k]]
                = [k \in 0 .. n + 1 |-> IF k = 0 THEN Bytes(piece) ELSE MergeLeftmost(G[k - 1])]
            BY <2>3, Zenon
        <3> QED BY <3>1, <3>2, Zenon
    <2> HIDE DEF Is, G
    <2> QED BY <2>4
<1>3. PICK F : Is(F, L)
    <2>1. L \in T
        <3> HIDE DEF T, L
        <3> QED BY <1>0, <1>1, <1>2, Induction
    <2> HIDE DEF Is
    <2> QED BY <2>1
<1>4. OneByOne(piece) = CHOOSE G : Is(G, L)  BY Zenon DEF OneByOne
<1>5. Is(CHOOSE G : Is(G, L), L)
    <2> HIDE DEF Is
    <2> QED BY <1>3
<1> DEFINE H == OneByOne(piece)
<1>6. Is(H, L)
    <2> HIDE DEF Is
    <2> QED BY <1>4, <1>5, Zenon
<1> HIDE DEF H
<1>7. \A k \in 0 .. L : H[k] = IF k = 0 THEN Bytes(piece) ELSE MergeLeftmost(H[k - 1])
    BY <1>6, Zenon
<1>8. H[0] = Bytes(piece)
    <2>1. 0 \in 0 .. L  BY <1>0
    <2> QED BY <1>7, <2>1, Zenon
<1>9. MergesOneByOne(H, L)
    <2> SUFFICES ASSUME NEW k \in 0 .. L, k < L PROVE H[k + 1] = MergeLeftmost(H[k])
        BY Zenon DEF MergesOneByOne
    <2> DEFINE i == k + 1
    <2>1. i \in 0 .. L /\ i # 0 /\ i - 1 = k  BY <1>0
    <2> HIDE DEF i
    <2> QED BY <1>7, <2>1, Zenon DEF i
<1> QED BY <1>8, <1>9 DEF H

(* Where no pair is ranked, merging one at a time has come to its end. *)
LEMMA OneByOneEnds ==
    ASSUME NEW F, NEW L \in Nat, MergesOneByOne(F, L), NEW k \in 0 .. L, Ranked(F[k]) = {}
    PROVE  F[L] = F[k]
<1> DEFINE T == {d \in Nat : k + d <= L => F[k + d] = F[k]}
<1>1. 0 \in T
    <2>1. k + 0 = k  OBVIOUS
    <2> QED BY <2>1
<1>2. ASSUME NEW d \in Nat, d \in T PROVE d + 1 \in T
    <2> SUFFICES ASSUME k + (d + 1) <= L PROVE F[k + (d + 1)] = F[k]
        OBVIOUS
    <2> DEFINE i == k + d
    <2>1. i \in 0 .. L /\ i < L /\ i + 1 = k + (d + 1) /\ k + d <= L  OBVIOUS
    <2>2. F[i] = F[k]  BY <1>2, <2>1
    <2> HIDE DEF i
    <2>3. F[i + 1] = MergeLeftmost(F[i])  BY <2>1, Zenon DEF MergesOneByOne
    <2>4. MergeLeftmost(F[i]) = F[k]  BY <2>2, Zenon DEF MergeLeftmost
    <2> QED BY <2>1, <2>3, <2>4, Zenon
<1>3. L - k \in Nat /\ k + (L - k) = L  OBVIOUS
<1>4. L - k \in T
    <2> HIDE DEF T
    <2> QED BY <1>1, <1>2, <1>3, Induction
<1> QED BY <1>3, <1>4

(***************************************************************************)
(* With MergesByRank: between two rounds, the symbols are those of merging *)
(* one occurrence at a time after some number of merges.                   *)
(***************************************************************************)
RankInv ==
    pc = "merge" /\ TrainingOrder =>
        \E piece \in Seq(Byte) : \E k \in 0 .. Len(piece) :
            /\ FlattenSeq(symbols) = piece
            /\ symbols = OneByOne(piece)[k] /\ Len(symbols) = Len(piece) - k

(* The definitions of merging see nothing of the state but the table of merges. *)
LEMMA SameMerges ==
    ASSUME merges' = merges
    PROVE  /\ TrainingOrder' = TrainingOrder
           /\ \A piece : OneByOne(piece)' = OneByOne(piece)
<1>1. TrainingOrder' = TrainingOrder  BY DEF TrainingOrder, Product
<1>2. \A s : MergeLeftmost(s)' = MergeLeftmost(s)
    BY DEF MergeLeftmost, Ranked, BestPair, Rank
<1>3. \A piece : OneByOne(piece)' = OneByOne(piece)
    BY <1>2, Zenon DEF OneByOne
<1> QED BY <1>1, <1>3

(* A new piece has merged nothing. *)
LEMMA RankNextPiece ==
    ASSUME TextInv, NextPiece
    PROVE  RankInv'
<1> DEFINE length == PieceLength(ordinary)
           cut == SubSeq(ordinary, 1, length)
<1>1. ordinary # <<>> /\ symbols' = Bytes(cut) /\ merges' = merges  BY DEF NextPiece
<1>2. ordinary \in Seq(Byte)  BY DEF TextInv, TextType
<1>3. length \in 1 .. Len(ordinary)  BY <1>1, <1>2, Cut
<1>4. cut \in Seq(Byte)
    <2> HIDE DEF length
    <2> QED BY <1>2, <1>3
<1>5. PICK piece \in Seq(Byte) : piece = cut  BY <1>4
<1> HIDE DEF length, cut
<1>6. FlattenSeq(symbols') = piece /\ Len(symbols') = Len(piece)
    BY <1>1, <1>5, Singles, Zenon
<1>7. symbols' = OneByOne(piece)[0]  BY <1>1, <1>5, OneByOneDefined, Zenon
<1>8. OneByOne(piece)' = OneByOne(piece)  BY <1>1, SameMerges
<1>9. 0 \in 0 .. Len(piece) /\ Len(symbols') = Len(piece) - 0  BY <1>6
<1> QED BY <1>6, <1>7, <1>8, <1>9, Zenon DEF RankInv

(* A round merges what merging one occurrence at a time merges next. *)
LEMMA RankMergeRound ==
    ASSUME TextInv, RankInv, MergeRound
    PROVE  RankInv'
<1>1. /\ pc = "merge" /\ Ranked(symbols) # {} /\ merges' = merges
      /\ symbols' = MergeAll(symbols, BestPair(symbols))
    BY DEF MergeRound
<1>2. /\ symbols \in Seq(Seq(Byte)) /\ merges \in Seq(Seq(Byte) \X Seq(Byte))
    BY DEF TextInv, TextType
<1> SUFFICES ASSUME TrainingOrder'
             PROVE  \E piece \in Seq(Byte) : \E k \in 0 .. Len(piece) :
                       /\ FlattenSeq(symbols') = piece
                       /\ symbols' = OneByOne(piece)[k] /\ Len(symbols') = Len(piece) - k
    <2>1. \A piece : OneByOne(piece)' = OneByOne(piece)  BY <1>1, SameMerges
    <2> QED BY <2>1, Zenon DEF RankInv
<1>3. TrainingOrder  BY <1>1, SameMerges
<1>4. PICK piece \in Seq(Byte) : \E k \in 0 .. Len(piece) :
          /\ FlattenSeq(symbols) = piece
          /\ symbols = OneByOne(piece)[k] /\ Len(symbols) = Len(piece) - k
    BY <1>1, <1>3, Zenon DEF RankInv
<1>5. PICK k \in 0 .. Len(piece) :
          /\ FlattenSeq(symbols) = piece
          /\ symbols = OneByOne(piece)[k] /\ Len(symbols) = Len(piece) - k
    BY <1>4
<1>6. FlattenSeq(symbols') = piece
    <2>1. MergedFrom(MergeAll(symbols, BestPair(symbols)), symbols, BestPair(symbols))
        BY <1>2, MergeKeepsText, Zenon
    <2> QED BY <1>1, <1>5, <2>1, Zenon DEF MergedFrom
<1>7. Symbols(symbols)
    <2>1. DOMAIN symbols = 1 .. Len(symbols)  BY <1>2
    <2>2. \A n \in DOMAIN symbols : symbols[n] # <<>>  BY <1>1, Zenon DEF TextInv, SymbolsMerged
    <2> QED BY <1>2, <2>1, <2>2, Zenon DEF Symbols
<1> DEFINE F == OneByOne(piece)  L == Len(piece)
<1>8. L \in Nat /\ k \in 0 .. L /\ symbols = F[k] /\ MergesOneByOne(F, L) /\ Len(F[k]) = L - k
    BY <1>5, OneByOneDefined
<1> HIDE DEF F, L
<1>9. \E j \in 0 .. L : MergeAll(F[k], BestPair(F[k])) = F[j] /\ Len(F[j]) = L - j
    <2>1. Symbols(F[k]) /\ Ranked(F[k]) # {}  BY <1>1, <1>7, <1>8, Zenon
    <2> QED BY <1>2, <1>3, <1>8, <2>1, RoundReplayed
<1>10. PICK j \in 0 .. L : symbols' = F[j] /\ Len(F[j]) = L - j  BY <1>1, <1>8, <1>9, Zenon
<1> QED BY <1>6, <1>10, Zenon DEF F, L

(* Where the rounds of a piece end, merging one occurrence at a time does. *)
LEMMA RankEnds == TextInv /\ RankInv => MergesByRank
<1> SUFFICES ASSUME TextInv, RankInv, pc = "merge", TrainingOrder, Ranked(symbols) = {}
             PROVE  symbols = BytePairs(FlattenSeq(symbols))
    BY Zenon DEF MergesByRank
<1>1. PICK piece \in Seq(Byte) : \E k \in 0 .. Len(piece) :
          /\ FlattenSeq(symbols) = piece
          /\ symbols = OneByOne(piece)[k]
    BY Zenon DEF RankInv
<1>2. PICK k \in 0 .. Len(piece) :
          /\ FlattenSeq(symbols) = piece
          /\ symbols = OneByOne(piece)[k]
    BY <1>1
<1> DEFINE F == OneByOne(piece)  L == Len(piece)
<1>3. L \in Nat /\ k \in 0 .. L /\ symbols = F[k] /\ MergesOneByOne(F, L)
    BY <1>2, OneByOneDefined
<1> HIDE DEF F, L
<1>4. F[L] = F[k]
    <2>1. Ranked(F[k]) = {}  BY <1>3, Zenon
    <2> QED BY <1>3, <2>1, OneByOneEnds
<1> QED BY <1>2, <1>3, <1>4, Zenon DEF BytePairs, F, L

(***************************************************************************)
(* Byte-pair encoding: whatever the text and the merges, in the order of   *)
(* their training, a piece comes out of the rounds of EncodePiece as it    *)
(* does of merging the leftmost pair of lowest rank, one at a time.        *)
(***************************************************************************)
THEOREM RoundsMergeByRank == Spec => []MergesByRank
<1>1. Init => RankInv  BY DEF Init, RankInv
<1>2. TextInv /\ RankInv /\ [Next]_vars => RankInv'
    <2> SUFFICES ASSUME TextInv, RankInv, [Next]_vars PROVE RankInv'
        OBVIOUS
    <2>1. CASE Load  BY <2>1 DEF Load, RankInv
    <2>2. CASE FindSpecial  BY <2>2 DEF FindSpecial, RankInv
    <2>3. CASE NoSpecial  BY <2>3 DEF NoSpecial, RankInv
    <2>4. CASE PushSpecial  BY <2>4 DEF PushSpecial, RankInv
    <2>5. CASE NextPiece  BY <2>5, RankNextPiece
    <2>6. CASE MergeRound  BY <2>6, RankMergeRound
    <2>7. CASE EmitPiece  BY <2>7 DEF EmitPiece, RankInv
    <2>8. CASE PieceRefused  BY <2>8 DEF PieceRefused, RankInv
    <2>9. CASE Return  BY <2>9 DEF Return, RankInv
    <2>10. CASE Finished \/ UNCHANGED vars
        <3>1. UNCHANGED <<pc, merges, symbols>>  BY <2>10 DEF Finished, vars
        <3>2. TrainingOrder' = TrainingOrder /\ \A piece : OneByOne(piece)' = OneByOne(piece)
            BY <3>1, SameMerges
        <3> QED BY <3>1, <3>2, Zenon DEF RankInv
    <2> QED BY <2>1, <2>2, <2>3, <2>4, <2>5, <2>6, <2>7, <2>8, <2>9, <2>10 DEF Next
<1> QED BY <1>1, <1>2, RankEnds, TextInvariant, PTL DEF Spec
=============================================================================
