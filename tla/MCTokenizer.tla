---------------------------- MODULE MCTokenizer ----------------------------
(* Small instances of Tokenizer for TLC: four families of texts. *)
EXTENDS Tokenizer

Texts(Alphabet, n) == UNION {[1 .. m -> Alphabet] : m \in 0 .. n}
Products(table) == {table[r][1] \o table[r][2] : r \in DOMAIN table}

\* A vocabulary that holds the bytes, the products and the other tokens, an
\* empty entry as in a padded vocabulary, and the first token a second time.
Vocabulary(bytes, table, others) ==
    Bytes(bytes) \o [r \in DOMAIN table |-> table[r][1] \o table[r][2]] \o others
    \o <<<<>>, <<bytes[1]>>>>

\* Tables with one more merge, of symbols the table can produce.
Extended(Alphabet, tables) ==
    UNION {LET known == {<<b>> : b \in Alphabet} \cup Products(table) IN
           {Append(table, <<x, y>>) : <<x, y>> \in
               {p \in known \X known : p[1] \o p[2] \notin known}} : table \in tables}

\* a b: every table of up to three merges in training order, and one that is not
AB == <<97, 98>>
Trained == LET one == Extended(ToSet(AB), {<<>>})  two == Extended(ToSet(AB), one)
           IN {<<>>} \cup one \cup two \cup Extended(ToSet(AB), two)
Untrained == <<<<<<97>>, <<98>>>>, <<<<97, 98>>, <<97>>>>, <<<<98>>, <<97>>>>,
               <<<<97>>, <<98, 97>>>>, <<<<97>>, <<98>>>>>>
MergeInstances ==
    {[tokens |-> Vocabulary(AB, table, <<>>), merges |-> table, text |-> t] :
        table \in Trained \cup {Untrained}, t \in Texts(ToSet(AB), 5)}

\* ' s S a 1 ! space tab newline: every class of byte the splitting knows
ClassBytes == <<39, 115, 83, 97, 49, 33, 32, 9, 10>>
ClassInstances ==
    {[tokens |-> Vocabulary(ClassBytes \o <<108, 76>>, <<>>, <<>>), merges |-> <<>>, text |-> t] :
        t \in Texts(ToSet(ClassBytes), 4) \cup {<<39, 108, 76, 97>>, <<97, 39, 76, 108>>, <<39, 108>>}}

\* <| |> a and whole special tokens, two of which begin alike; no token for >
Fragments == {<<60, 124>>, <<124, 62>>, <<97>>, <<60, 124, 97, 124, 62>>}
Specials == <<<<60, 124, 97, 124, 62>>, <<60, 124, 97, 124, 62, 97, 124, 62>>,
              <<60, 124, 60, 124, 62>>>>
SpecialInstances ==
    {[tokens |-> Vocabulary(<<60, 124, 97>>, <<<<<<97>>, <<124>>>>>>, Specials),
      merges |-> <<<<<<97>>, <<124>>>>>>, text |-> FlattenSeq(f)] : f \in Texts(Fragments, 4)}

\* NUL, 7 and 8, alone and in products, and the last byte of the alphabet
EscapeInstances ==
    LET table == <<<<<<7>>, <<8>>>>, <<<<0>>, <<7>>>>, <<<<7, 8>>, <<0>>>>, <<<<173>>, <<0>>>>>> IN
    {[tokens |-> Vocabulary(<<0, 7, 8, 173>>, table, <<>>), merges |-> table, text |-> t] :
        t \in Texts({0, 7, 8, 173}, 4)}

SmallInstances == MergeInstances \cup ClassInstances \cup SpecialInstances \cup EscapeInstances
=============================================================================
