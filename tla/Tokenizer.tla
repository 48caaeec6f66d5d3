----------------------------- MODULE Tokenizer -----------------------------
(***************************************************************************)
(* The byte-level BPE tokenizer: the token table as convert.py writes it   *)
(* and LoadVocabulary reads it, the merges as LoadMerges reads them, and   *)
(* Encode, which splits a text at the special tokens, the text between     *)
(* them into pieces, and each piece into the symbols its merges leave.     *)
(*                                                                         *)
(* A text is a sequence of bytes.  The JSON around the tables is left out, *)
(* and so is the UTF-8 form of the byte alphabet: a symbol of tokenizer    *)
(* .json is the sequence of its code points.                               *)
(***************************************************************************)
EXTENDS Integers, Sequences, SequencesExt, FiniteSetsExt

CONSTANT
    Instances  \* bound: the records [tokens, merges, text] considered, in bytes

Byte == 0 .. 255

(* Texts, tokens and the operands of merges are strings of bytes. *)
ASSUME InstancesAssumption ==
    \A i \in Instances :
        /\ i.tokens \in Seq(Seq(Byte))
        /\ i.merges \in Seq(Seq(Byte) \X Seq(Byte))
        /\ i.text \in Seq(Byte)

VARIABLES
    instance,    \* the checkpoint's tokens and merges, and the text to encode
    vocabulary,  \* vocabulary_, what LoadVocabulary returned
    merges,      \* what LoadMerges returned
    pc,          \* where Encode is
    offset,      \* offset of Encode: bytes of the text it has passed
    special,     \* the special token that follows the ordinary text, or None
    ordinary,    \* what EncodeOrdinary has yet to split
    symbols,     \* symbols of EncodePiece
    result       \* result of Encode

vars == <<instance, vocabulary, merges, pc, offset, special, ordinary, symbols, result>>

None == 0
text == instance.text
Bytes(s) == [n \in 1 .. Len(s) |-> <<s[n]>>]
-----------------------------------------------------------------------------
(***************************************************************************)
(* From tokenizer.json to the tables in memory.                            *)
(***************************************************************************)
\* Bytes the byte alphabet writes as themselves; the others follow from 256.
Direct == (33 .. 126) \cup (161 .. 172) \cup (174 .. 255)

\* gpt2_bytes_to_unicode of convert.py, with which the checkpoint was written.
BytesToUnicode ==
    [b \in Byte |-> IF b \in Direct THEN b
                    ELSE 256 + Cardinality({c \in Byte : c < b /\ c \notin Direct})]

(***************************************************************************)
(* ByteDecoder of tokenizer.cpp: the byte of a code point, -1 if it has    *)
(* none.  after[b] is the table, and extra, once the bytes below b that    *)
(* are not direct have been given the next code points.                    *)
(***************************************************************************)
ByteDecoder ==
    LET direct == [c \in 0 .. 511 |-> IF c \in Direct THEN c ELSE -1]
        after[b \in 0 .. 256] ==
          IF b = 0 THEN [decoder |-> direct, extra |-> 0]
          ELSE LET before == after[b - 1] IN
               IF b - 1 \in Direct THEN before
               ELSE [decoder |-> [before.decoder EXCEPT ![256 + before.extra] = b - 1],
                     extra |-> before.extra + 1]
    IN after[256].decoder

InAlphabet(s) == [n \in 1 .. Len(s) |-> BytesToUnicode[s[n]]]
DecodeByteAlphabet(s) == [n \in 1 .. Len(s) |-> ByteDecoder[s[n]]]

ReplaceByte(s, b, by) == FlattenSeq([n \in 1 .. Len(s) |-> IF s[n] = b THEN by ELSE <<s[n]>>])

\* Mutant of Escaped: NUL is escaped first, and its escape once more.
EscapedNulFirst(s) == ReplaceByte(ReplaceByte(s, 0, <<7, 8>>), 7, <<7, 7>>)

\* load_token_bytes: 7 and NUL are escaped, in that order, for NUL ends a token.
Escaped(s) == ReplaceByte(ReplaceByte(s, 7, <<7, 7>>), 0, <<7, 8>>)

\* The table convert.py writes: the tokens one after the other, each ended by NUL.
TokenBytes(tokens) == FlattenSeq([n \in 1 .. Len(tokens) |-> Append(Escaped(tokens[n]), 0)])
TokenOffset(tokens, n) == Len(TokenBytes(SubSeq(tokens, 1, n - 1)))

\* Mutant of Unescaped: the byte after an escape is read again.
UnescapedTwice(s) ==
    LET rest[n \in 1 .. Len(s) + 1] ==
          IF n > Len(s) THEN <<>>
          ELSE IF s[n] # 7 THEN <<s[n]>> \o rest[n + 1]
          ELSE IF n < Len(s) /\ s[n + 1] \in {7, 8}
               THEN <<IF s[n + 1] = 7 THEN 7 ELSE 0>> \o rest[n + 1]
          ELSE <<0>> \o rest[n + 1]
    IN rest[1]

\* LoadVocabulary: 7 7 is the byte 7, 7 8 is NUL, and so is a lone 7.
Unescaped(s) ==
    LET rest[n \in 1 .. Len(s) + 2] ==
          IF n > Len(s) THEN <<>>
          ELSE IF s[n] # 7 THEN <<s[n]>> \o rest[n + 1]
          ELSE IF n < Len(s) /\ s[n + 1] \in {7, 8}
               THEN <<IF s[n + 1] = 7 THEN 7 ELSE 0>> \o rest[n + 2]
          ELSE <<0>> \o rest[n + 1]
    IN rest[1]

\* The token at an offset of the table ends at the first NUL.
LoadedToken(bytes, from) ==
    LET end == Min({n \in from + 1 .. Len(bytes) : bytes[n] = 0})
    IN Unescaped(SubSeq(bytes, from + 1, end - 1))

(***************************************************************************)
(* The errors of both loaders (an offset outside the table, a token with   *)
(* no end, a symbol outside the alphabet) cannot occur with tables         *)
(* convert.py has written.                                                 *)
(***************************************************************************)
Load ==
    /\ pc = "load"
    /\ LET bytes == TokenBytes(instance.tokens) IN
       vocabulary' = [n \in 1 .. Len(instance.tokens) |->
                        LoadedToken(bytes, TokenOffset(instance.tokens, n))]
    /\ merges' = [n \in 1 .. Len(instance.merges) |->
                    <<DecodeByteAlphabet(InAlphabet(instance.merges[n][1])),
                      DecodeByteAlphabet(InAlphabet(instance.merges[n][2]))>>]
    /\ pc' = "special"
    /\ UNCHANGED <<instance, offset, special, ordinary, symbols, result>>

(***************************************************************************)
(* The tables Initialize builds.  Ids are positions in the vocabulary from *)
(* 1.  Of two equal tokens or merges the first counts.                     *)
(***************************************************************************)
Known(token) == token # <<>> /\ Contains(vocabulary, token)
TokenId(token) == Min({id \in DOMAIN vocabulary : vocabulary[id] = token})

IsSpecial(token) == IsPrefix(<<60, 124>>, token) /\ IsSuffix(<<124, 62>>, token)
SpecialIds == {id \in DOMAIN vocabulary : IsSpecial(vocabulary[id])}

Ranked(s) == {n \in 1 .. Len(s) - 1 : Contains(merges, <<s[n], s[n + 1]>>)}
Rank(pair) == Min({r \in DOMAIN merges : merges[r] = pair})
-----------------------------------------------------------------------------
(***************************************************************************)
(* PreTokenize: the length of the first piece of a text.                   *)
(***************************************************************************)
Letter == (65 .. 90) \cup (97 .. 122) \cup (128 .. 255)
Number == 48 .. 57
Newline == {10, 13}
Space == (9 .. 13) \cup {32}
Punctuation == Byte \ (Space \cup Letter \cup Number)

\* The first place from n on that holds no byte of class C, if only the end.
RunEnd(s, n, C) == Min({j \in n .. Len(s) : s[j] \notin C} \cup {Len(s) + 1})

Lower(b) == IF b \in 65 .. 90 THEN b + 32 ELSE b
Contractions == {<<39, 115>>, <<39, 116>>, <<39, 114, 101>>, <<39, 118, 101>>,
                 <<39, 109>>, <<39, 108, 108>>, <<39, 100>>}  \* 's 't 're 've 'm 'll 'd
ContractionLength(s) ==
    Max({Len(c) : c \in {c \in Contractions : IsPrefix(c, [n \in 1 .. Len(s) |-> Lower(s[n])])}}
        \cup {0})

\* Blanks before a word: all of them, up to the last newline, or all but one.
BlankLength(s) ==
    LET end == RunEnd(s, 1, Space)
        newlines == {n \in 1 .. end - 1 : s[n] \in Newline}
    IN IF newlines # {} THEN Max(newlines)
       ELSE IF end <= Len(s) /\ end > 2 THEN end - 2
       ELSE end - 1

\* Mutant of PieceLength: a space and the word after it are two pieces.
PieceLengthNoPrefix(s) ==
    LET next(C) == Len(s) > 1 /\ s[2] \in C
        from == IF s[1] = 32 /\ next(Punctuation) THEN 2 ELSE 1
    IN IF ContractionLength(s) # 0 THEN ContractionLength(s)
       ELSE IF s[1] \in Letter THEN RunEnd(s, 1, Letter) - 1
       ELSE IF s[1] \in Number THEN 1
       ELSE IF s[from] \in Punctuation THEN RunEnd(s, RunEnd(s, from, Punctuation), Newline) - 1
       ELSE Max({1, BlankLength(s)})

PieceLength(s) ==
    LET next(C) == Len(s) > 1 /\ s[2] \in C
        from == IF s[1] = 32 /\ next(Punctuation) THEN 2 ELSE 1
    IN IF ContractionLength(s) # 0 THEN ContractionLength(s)
       ELSE IF s[1] \in Letter THEN RunEnd(s, 1, Letter) - 1
       ELSE IF s[1] \notin Newline \cup Number /\ next(Letter) THEN RunEnd(s, 2, Letter) - 1
       ELSE IF s[1] \in Number THEN 1
       ELSE IF s[from] \in Punctuation THEN RunEnd(s, RunEnd(s, from, Punctuation), Newline) - 1
       ELSE Max({1, BlankLength(s)})
-----------------------------------------------------------------------------
(***************************************************************************)
(* Encode.                                                                 *)
(***************************************************************************)
Init ==
    /\ instance \in Instances
    /\ vocabulary = <<>> /\ merges = <<>>
    /\ pc = "load"
    /\ offset = 0 /\ special = None
    /\ ordinary = <<>> /\ symbols = <<>> /\ result = <<>>

\* Places from where text holds a token.
Occurrences(token, from) ==
    {n \in from + 1 .. Len(text) - Len(token) + 1 : SubSeq(text, n, n + Len(token) - 1) = token}

\* Mutant of BestSpecials: the order of the vocabulary instead of the longest.
BestSpecialsUnsorted(from) ==
    LET at(id) == Occurrences(vocabulary[id], from)
        first == Min(UNION {at(id) : id \in SpecialIds})
    IN {Min({id \in SpecialIds : first \in at(id)})}

(***************************************************************************)
(* The special token found first, and of those the longest.  Equal tokens  *)
(* stay in the unspecified order of std::sort.                             *)
(***************************************************************************)
BestSpecials(from) ==
    LET at(id) == Occurrences(vocabulary[id], from)
        first == Min(UNION {at(id) : id \in SpecialIds})
        here == {id \in SpecialIds : first \in at(id)}
    IN {id \in here : \A other \in here : Len(vocabulary[other]) <= Len(vocabulary[id])}

SpecialAhead == \E id \in SpecialIds : Occurrences(vocabulary[id], offset) # {}

FindSpecial ==
    /\ pc = "special" /\ offset < Len(text)
    /\ SpecialAhead
    /\ \E id \in BestSpecials(offset) :
         LET at == Min(Occurrences(vocabulary[id], offset)) IN
         /\ special' = id
         /\ ordinary' = SubSeq(text, offset + 1, at - 1)
         /\ offset' = at - 1 + Len(vocabulary[id])
    /\ pc' = "ordinary"
    /\ UNCHANGED <<instance, vocabulary, merges, symbols, result>>

NoSpecial ==
    /\ pc = "special" /\ offset < Len(text)
    /\ ~SpecialAhead
    /\ special' = None
    /\ ordinary' = SubSeq(text, offset + 1, Len(text))
    /\ offset' = Len(text)
    /\ pc' = "ordinary"
    /\ UNCHANGED <<instance, vocabulary, merges, symbols, result>>

NextPiece ==
    /\ pc = "ordinary" /\ ordinary # <<>>
    /\ LET length == PieceLength(ordinary) IN
       /\ symbols' = Bytes(SubSeq(ordinary, 1, length))
       /\ ordinary' = SubSeq(ordinary, length + 1, Len(ordinary))
    /\ pc' = "merge"
    /\ UNCHANGED <<instance, vocabulary, merges, offset, special, result>>

\* Mutant of BestPair: the first pair that has a rank.
BestPairFirst(s) == LET n == Min(Ranked(s)) IN <<s[n], s[n + 1]>>

\* The pair of the lowest rank.
BestPair(s) == merges[Min({Rank(<<s[n], s[n + 1]>>) : n \in Ranked(s)})]

\* Mutant of MergeAll: occurrences may overlap.
MergeAllOverlapping(s, pair) ==
    LET rest[n \in 1 .. Len(s) + 1] ==
          IF n > Len(s) THEN <<>>
          ELSE IF n < Len(s) /\ <<s[n], s[n + 1]>> = pair
               THEN <<s[n] \o s[n + 1]>> \o (IF n + 1 = Len(s) THEN <<>> ELSE rest[n + 1])
          ELSE <<s[n]>> \o rest[n + 1]
    IN rest[1]

\* Every occurrence of the pair that does not overlap an earlier one is merged.
MergeAll(s, pair) ==
    LET rest[n \in 1 .. Len(s) + 2] ==
          IF n > Len(s) THEN <<>>
          ELSE IF n < Len(s) /\ <<s[n], s[n + 1]>> = pair
               THEN <<s[n] \o s[n + 1]>> \o rest[n + 2]
          ELSE <<s[n]>> \o rest[n + 1]
    IN rest[1]

MergeRound ==
    /\ pc = "merge" /\ Ranked(symbols) # {}
    /\ symbols' = MergeAll(symbols, BestPair(symbols))
    /\ UNCHANGED <<instance, vocabulary, merges, pc, offset, special, ordinary, result>>

EmitPiece ==
    /\ pc = "merge" /\ Ranked(symbols) = {}
    /\ \A n \in DOMAIN symbols : Known(symbols[n])
    /\ result' = result \o [n \in DOMAIN symbols |-> TokenId(symbols[n])]
    /\ symbols' = <<>>
    /\ pc' = "ordinary"
    /\ UNCHANGED <<instance, vocabulary, merges, offset, special, ordinary>>

\* A symbol absent from the vocabulary: Encode throws.
PieceRefused ==
    /\ pc = "merge" /\ Ranked(symbols) = {}
    /\ \E n \in DOMAIN symbols : ~Known(symbols[n])
    /\ pc' = "error"
    /\ UNCHANGED <<instance, vocabulary, merges, offset, special, ordinary, symbols, result>>

PushSpecial ==
    /\ pc = "ordinary" /\ ordinary = <<>> /\ special # None
    /\ result' = Append(result, special)
    /\ special' = None
    /\ pc' = "special"
    /\ UNCHANGED <<instance, vocabulary, merges, offset, ordinary, symbols>>

Return ==
    /\ \/ pc = "ordinary" /\ ordinary = <<>> /\ special = None
       \/ pc = "special" /\ offset = Len(text)
    /\ pc' = "done"
    /\ UNCHANGED <<instance, vocabulary, merges, offset, special, ordinary, symbols, result>>

Finished == pc \in {"done", "error"} /\ UNCHANGED vars

Next ==
    \/ Load
    \/ FindSpecial \/ NoSpecial \/ PushSpecial
    \/ NextPiece \/ MergeRound \/ EmitPiece \/ PieceRefused
    \/ Return \/ Finished

Spec == Init /\ [][Next]_vars
-----------------------------------------------------------------------------
\* Decode: the texts of the tokens one after the other.
Decode(ids) == FlattenSeq([n \in DOMAIN ids |-> vocabulary[ids[n]]])

(***************************************************************************)
(* The vocabulary and the merges in memory are those of the checkpoint,    *)
(* tokens with the bytes 0, 7 and 8 included, although the table ends a    *)
(* token with the byte 0 and escapes with the byte 7.                      *)
(***************************************************************************)
TablesSurvive ==
    pc # "load" => vocabulary = instance.tokens /\ merges = instance.merges

(***************************************************************************)
(* Encode neither loses nor doubles a byte: what is encoded, the piece in  *)
(* work, the text still to be split, the special token after it and the    *)
(* rest make up the text.  At the end, Decode gives the text back.         *)
(***************************************************************************)
NothingLost ==
    pc \notin {"load", "error"} =>
        text = Decode(result) \o FlattenSeq(symbols) \o ordinary
               \o (IF special = None THEN <<>> ELSE vocabulary[special])
               \o SubSeq(text, offset + 1, Len(text))

\* The products of a table of merges, by rank.
Product(r) == merges[r][1] \o merges[r][2]

(***************************************************************************)
(* A table in the order of its training: an operand is a byte or has been  *)
(* produced by an earlier merge, and no two merges produce the same.       *)
(***************************************************************************)
TrainingOrder ==
    \A r \in DOMAIN merges :
        /\ \A side \in 1 .. 2 : Len(merges[r][side]) = 1 \/
             \E earlier \in 1 .. r - 1 : Product(earlier) = merges[r][side]
        /\ \A other \in DOMAIN merges : Product(other) = Product(r) => other = r

(***************************************************************************)
(* The definition of byte-pair encoding: as long as there is a ranked      *)
(* pair, merge one occurrence of the pair of lowest rank, the leftmost.    *)
(***************************************************************************)
MergeLeftmost(s) ==
    IF Ranked(s) = {} THEN s
    ELSE LET n == Min({m \in Ranked(s) : <<s[m], s[m + 1]>> = BestPair(s)})
         IN ReplaceAt(RemoveAt(s, n + 1), n, s[n] \o s[n + 1])

OneByOne(piece) ==
    LET after[n \in 0 .. Len(piece)] ==
            IF n = 0 THEN Bytes(piece) ELSE MergeLeftmost(after[n - 1])
    IN after

BytePairs(piece) == OneByOne(piece)[Len(piece)]

(***************************************************************************)
(* The rounds of EncodePiece, each of which merges every occurrence of a   *)
(* pair before it looks for a lower rank again, come out where merging one *)
(* occurrence at a time does.                                              *)
(***************************************************************************)
MergesByRank ==
    pc = "merge" /\ TrainingOrder /\ Ranked(symbols) = {} =>
        symbols = BytePairs(FlattenSeq(symbols))

(***************************************************************************)
(* The pattern by which Qwen splits a text, its alternatives in order:     *)
(*   (?i:'s|'t|'re|'ve|'m|'ll|'d) | [^\r\n\p{L}\p{N}]?\p{L}+ | \p{N}       *)
(*   |  ?[^\s\p{L}\p{N}]+[\r\n]* | \s*[\r\n]+ | \s+(?!\S) | \s+            *)
(* as the sets of the lengths at which each matches.  The classes are the  *)
(* code's, in which every byte from 128 on is a letter (IsLetter): the     *)
(* order and the extent of the alternatives are compared, not the classes. *)
(* Qwen's own pattern agrees wherever the text outside ASCII is letters;   *)
(* it also cuts at punctuation, digits and blanks outside ASCII, such as   *)
(* fullwidth punctuation.                                                  *)
(***************************************************************************)
Alternatives(s) ==
    LET all(from, to, C) == \A n \in from .. to : s[n] \in C
        lengths == 1 .. Len(s)
    IN <<{n \in lengths : [m \in 1 .. n |-> Lower(s[m])] \in Contractions},
         {n \in lengths : \E k \in {0, 1} :
              /\ k < n /\ all(1, k, Byte \ (Newline \cup Letter \cup Number))
              /\ all(k + 1, n, Letter)},
         {n \in lengths : n = 1 /\ s[1] \in Number},
         {n \in lengths : \E k \in {0, 1} : \E m \in k + 1 .. n :
              all(1, k, {32}) /\ all(k + 1, m, Punctuation) /\ all(m + 1, n, Newline)},
         {n \in lengths : all(1, n, Space) /\ s[n] \in Newline},
         {n \in lengths : all(1, n, Space) /\ (n = Len(s) \/ s[n + 1] \in Space)},
         {n \in lengths : all(1, n, Space)}>>

(***************************************************************************)
(* PreTokenize, written by hand as one pass with a look-ahead of one byte, *)
(* cuts a text where the pattern does, given the code's classes of bytes.  *)
(***************************************************************************)
SplitsByPattern ==
    pc = "ordinary" /\ ordinary # <<>> =>
        LET alternatives == Alternatives(ordinary)
            matching == {a \in DOMAIN alternatives : alternatives[a] # {}}
        IN PieceLength(ordinary) = Max(alternatives[Min(matching)])

(***************************************************************************)
(* A special token of the text becomes one token: the ordinary text before *)
(* the next one holds the beginning of none, and the next one is not the   *)
(* beginning of a longer one that is there too.                            *)
(***************************************************************************)
SpecialsStayWhole ==
    pc = "ordinary" =>
        LET length == IF special = None THEN 0 ELSE Len(vocabulary[special])
            at == offset - length + 1
        IN \A id \in SpecialIds : \A n \in Occurrences(vocabulary[id], 0) :
               /\ n \notin at - Len(ordinary) .. at - 1
               /\ n = at => Len(vocabulary[id]) <= length

(***************************************************************************)
(* Encode throws only if the vocabulary lacks a byte of the text or the    *)
(* product of a merge.                                                     *)
(***************************************************************************)
RefusesOnlyIncomplete ==
    pc = "error" =>
        \/ \E n \in DOMAIN text : ~Contains(instance.tokens, <<text[n]>>)
        \/ \E r \in DOMAIN merges : ~Contains(instance.tokens, Product(r))
=============================================================================
