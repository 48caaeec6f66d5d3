--------------------------- MODULE ModelFile_proof ---------------------------
(***************************************************************************)
(* Proofs about ModelFile for every number of layers and every list of     *)
(* weights of a layer.                                                     *)
(***************************************************************************)
EXTENDS ModelFile, Lemmas_proof

-----------------------------------------------------------------------------
(***************************************************************************)
(* The layout of the file.                                                 *)
(***************************************************************************)
(* The provers are not told that a literal is a STRING: these are named. *)
Parts == STRING \cup {"header", "embed", "norm", "output",
                      "tokenizer.json", "tokenizer.tokens", "tokenizer.offsets"}
FieldNames == {"magic", "version", "metadata_size", "metadata", "tensor_count", "name_size",
               "name", "dtype", "ndim", "dims", "byte_size", "payload"}

Tensors == [part : Parts, layer : Nat]
Fields == [name : FieldNames, width : Nat]
FileBytes == [of : Tensors, field : FieldNames, byte : Nat]

Header == Bytes(HeaderOf, WrittenHeader)
Record(x) == Bytes(x, WrittenRecord(x))

(* The bytes of a list of fields all belong to the tensor. *)
LEMMA BytesType ==
    ASSUME NEW x \in Tensors, NEW fields \in Seq(Fields)
    PROVE  /\ Bytes(x, fields) \in Seq(FileBytes)
           /\ \A i \in 1 .. Len(Bytes(x, fields)) : Bytes(x, fields)[i].of = x
           /\ Len(fields) = 1 => Len(Bytes(x, fields)) = fields[1].width
           /\ Len(fields) >= 1 /\ fields[1].width >= 1 => Len(Bytes(x, fields)) >= 1
<1> DEFINE s == [f \in 1 .. Len(fields) |->
                   [k \in 1 .. fields[f].width |-> [of |-> x, field |-> fields[f].name, byte |-> k]]]
<1>1. \A f \in 1 .. Len(fields) : fields[f] \in Fields  OBVIOUS
<1>2. \A f \in 1 .. Len(fields) :
         /\ s[f] \in Seq(FileBytes) /\ Len(s[f]) = fields[f].width
         /\ fields[f].width \in Nat
         /\ \A k \in 1 .. Len(s[f]) : s[f][k].of = x
    <2> TAKE f \in 1 .. Len(fields)
    <2>1. fields[f].width \in Nat /\ fields[f].name \in FieldNames  BY <1>1 DEF Fields
    <2> DEFINE w == fields[f].width
               u == [k \in 1 .. w |-> [of |-> x, field |-> fields[f].name, byte |-> k]]
    <2>2. \A k \in 1 .. w : [of |-> x, field |-> fields[f].name, byte |-> k] \in FileBytes
        BY <2>1 DEF FileBytes
    <2>3. u \in Seq(FileBytes) /\ Len(u) = w  BY <2>1, <2>2
    <2>4. \A k \in 1 .. w : u[k].of = x  OBVIOUS
    <2>5. s[f] = u  OBVIOUS
    <2> HIDE DEF s, u
    <2> QED BY <2>1, <2>3, <2>4, <2>5
<1>3. s \in Seq(Seq(FileBytes)) /\ Len(s) = Len(fields)
    <2>1. Len(fields) \in Nat /\ s = [f \in 1 .. Len(fields) |-> s[f]]  OBVIOUS
    <2> HIDE DEF s
    <2> QED BY <1>2, <2>1
<1>4. Bytes(x, fields) = FlattenSeq(s)  BY DEF Bytes
<1> HIDE DEF s
<1>5. PICK p : Places(p, s, FlattenSeq(s))  BY <1>3, Flattened
<1> DEFINE b == FlattenSeq(s)
<1>6. b \in Seq(FileBytes)  BY <1>3, Flattened
<1>7. ASSUME NEW i \in 1 .. Len(b) PROVE b[i].of = x
    <2>1. PICK k \in 1 .. Len(s) : \E j \in 1 .. Len(s[k]) : i = p[k] + j
        BY <1>5 DEF Places
    <2>2. PICK j \in 1 .. Len(s[k]) : i = p[k] + j  BY <2>1
    <2>3. b[i] = s[k][j]  BY <1>5, <2>2 DEF Places
    <2> QED BY <1>2, <1>3, <2>3
<1>8. Len(fields) >= 1 => Len(b) >= fields[1].width
    <2> HAVE Len(fields) >= 1
    <2>1. Len(fields) \in Nat /\ 1 \in 1 .. Len(fields)  OBVIOUS
    <2>2. CASE fields[1].width = 0
        BY <1>6, <2>2
    <2>3. CASE fields[1].width # 0
        <3>1. Len(s[1]) = fields[1].width /\ fields[1].width \in Nat  BY <1>2, <2>1
        <3>2. fields[1].width \in 1 .. Len(s[1]) /\ p[1] = 0
            BY <2>3, <3>1, <1>5 DEF Places
        <3>3. p[1] + fields[1].width \in 1 .. Len(b)  BY <1>3, <1>5, <2>1, <3>2 DEF Places
        <3> HIDE DEF b
        <3> QED BY <3>1, <3>2, <3>3
    <2> QED BY <2>2, <2>3
<1>9. Len(fields) = 1 => Len(b) = fields[1].width
    <2> HAVE Len(fields) = 1
    <2>1. 1 \in 1 .. Len(s) /\ Len(s) = 1  BY <1>3
    <2>2. p[1] = 0 /\ p[1 + 1] = p[1] + Len(s[1]) /\ Len(b) = p[1 + 1]
        BY <1>5, <2>1 DEF Places
    <2>3. Len(s[1]) = fields[1].width /\ fields[1].width \in Nat  BY <1>2, <1>3, <2>1
    <2> QED BY <2>2, <2>3
<1>10. Len(fields) >= 1 => fields[1].width \in Nat
    <2> HAVE Len(fields) >= 1
    <2>1. 1 \in 1 .. Len(fields)  OBVIOUS
    <2> QED BY <1>1, <2>1 DEF Fields
<1>11. Bytes(x, fields) = b /\ Len(b) \in Nat  BY <1>4, <1>6
<1> HIDE DEF b
<1> QED BY <1>6, <1>7, <1>8, <1>9, <1>10, <1>11

(* Sizes, and the records of converter and loader. *)
LEMMA SizeType ==
    ASSUME NEW x \in Tensors
    PROVE  Len(Shape(x)) \in Nat /\ Elements(x) \in Nat /\ RawSize(x) \in Nat /\ Valid(x)
<1>1. Shape(x) = <<2, 1>> \/ Shape(x) = <<3>> \/ Shape(x) = <<2>> \/ Shape(x) = <<1>>
    BY DEF Shape
<1>2. Len(Shape(x)) \in Nat /\ Elements(x) \in Nat  BY <1>1 DEF Elements
<1>3. CASE x.part = "tokenizer.offsets"
    <2>1. TorchType(x) = "int32"  BY <1>3 DEF TorchType
    <2>2. RawSize(x) = Elements(x) * 4 /\ DTypeEnum(TorchType(x)) = 5
        BY <2>1 DEF RawSize, DTypeEnum
    <2>3. DTypeSize(5) = 4  BY DEF DTypeSize
    <2> QED BY <1>2, <1>3, <2>2, <2>3 DEF Valid
<1>4. CASE x.part # "tokenizer.offsets" /\ x \in Tokenizer
    <2>1. TorchType(x) = "uint8"  BY <1>4 DEF TorchType
    <2>2. RawSize(x) = Elements(x) * 1 /\ DTypeEnum(TorchType(x)) = 4
        BY <2>1 DEF RawSize, DTypeEnum
    <2>3. DTypeSize(4) = 1  BY DEF DTypeSize
    <2> QED BY <1>2, <1>4, <2>2, <2>3 DEF Valid
<1>5. CASE x.part # "tokenizer.offsets" /\ x \notin Tokenizer
    <2>1. TorchType(x) = "bfloat16"  BY <1>5 DEF TorchType
    <2>2. RawSize(x) = Elements(x) * 2 /\ DTypeEnum(TorchType(x)) = 3
        BY <2>1 DEF RawSize, DTypeEnum
    <2>3. DTypeSize(3) = 2  BY DEF DTypeSize
    <2> QED BY <1>2, <1>5, <2>2, <2>3 DEF Valid
<1> QED BY <1>2, <1>3, <1>4, <1>5

LEMMA RecordType ==
    ASSUME NEW x \in Tensors
    PROVE  /\ Record(x) \in Seq(FileBytes) /\ Len(Record(x)) >= 1
           /\ \A i \in 1 .. Len(Record(x)) : Record(x)[i].of = x
           /\ Payload(x) \in Seq(FileBytes) /\ Len(Payload(x)) = RawSize(x)
           /\ Bytes(x, ReadRecord(x)) = Record(x)
<1>1. Len(Shape(x)) \in Nat /\ RawSize(x) \in Nat  BY SizeType
<1>2. WrittenRecord(x) \in Seq(Fields) /\ Len(WrittenRecord(x)) = 6
      /\ WrittenRecord(x)[1].width = 4
    <2>1. Field("dims", 8 * Len(Shape(x))) \in Fields  BY <1>1 DEF Field, Fields, FieldNames
    <2>2. /\ Field("name_size", 4) \in Fields /\ Field("name", 1) \in Fields
          /\ Field("dtype", 4) \in Fields /\ Field("ndim", 4) \in Fields
          /\ Field("byte_size", 8) \in Fields
        BY DEF Field, Fields, FieldNames
    <2>3. Field("name_size", 4).width = 4  BY DEF Field
    <2> DEFINE a == Field("name_size", 4)  b == Field("name", 1)  c == Field("dtype", 4)
               d == Field("ndim", 4)  e == Field("dims", 8 * Len(Shape(x)))
               f == Field("byte_size", 8)
    <2>4. WrittenRecord(x) = <<a, b, c, d, e, f>>  BY DEF WrittenRecord
    <2>5. /\ a \in Fields /\ b \in Fields /\ c \in Fields
          /\ d \in Fields /\ e \in Fields /\ f \in Fields /\ a.width = 4
        BY <2>1, <2>2, <2>3
    <2> HIDE DEF a, b, c, d, e, f
    <2> QED BY <2>4, <2>5
<1>3. <<Field("payload", RawSize(x))>> \in Seq(Fields)
      /\ Len(<<Field("payload", RawSize(x))>>) = 1
      /\ <<Field("payload", RawSize(x))>>[1].width = RawSize(x)
    <2> DEFINE a == Field("payload", RawSize(x))
    <2>1. a \in Fields /\ a.width = RawSize(x)  BY <1>1 DEF Field, Fields, FieldNames
    <2> HIDE DEF a
    <2>2. <<a>> \in Seq(Fields) /\ Len(<<a>>) = 1 /\ <<a>>[1].width = RawSize(x)  BY <2>1
    <2> QED BY <2>2 DEF a
<1>4. ReadRecord(x) = WrittenRecord(x)  BY DEF ReadRecord, WrittenRecord
<1>5. Record(x) \in Seq(FileBytes) /\ Len(Record(x)) >= 1
      /\ \A i \in 1 .. Len(Record(x)) : Record(x)[i].of = x
    <2>1. Len(WrittenRecord(x)) >= 1 /\ WrittenRecord(x)[1].width >= 1  BY <1>2
    <2> QED BY <1>2, <2>1, BytesType DEF Record
<1>6. Payload(x) \in Seq(FileBytes) /\ Len(Payload(x)) = RawSize(x)
    BY <1>3, BytesType DEF Payload
<1>7. Bytes(x, ReadRecord(x)) = Record(x)  BY <1>4 DEF Record
<1> QED BY <1>5, <1>6, <1>7

LEMMA HeaderType ==
    /\ Header \in Seq(FileBytes) /\ Bytes(HeaderOf, ReadHeader) = Header
    /\ \A i \in 1 .. Len(Header) : Header[i].of = HeaderOf
<1>1. HeaderOf \in Tensors  BY DEF HeaderOf, Tensor, Tensors, Parts
<1> DEFINE a == Field("magic", 8)  b == Field("version", 4)  c == Field("metadata_size", 8)
           d == Field("metadata", 2)  e == Field("tensor_count", 8)
<1>2. /\ a \in Fields /\ b \in Fields /\ c \in Fields /\ d \in Fields /\ e \in Fields
    BY DEF Field, Fields, FieldNames
<1>3. WrittenHeader = <<a, b, c, d, e>> /\ ReadHeader = WrittenHeader
    BY DEF WrittenHeader, ReadHeader
<1> HIDE DEF a, b, c, d, e
<1>4. WrittenHeader \in Seq(Fields)  BY <1>2, <1>3
<1> QED BY <1>1, <1>3, <1>4, BytesType DEF Header

(* The weights of the layers, layer by layer. *)
LayerLists == [l \in 1 .. Layers |-> [k \in 1 .. Len(LayerWeights) |-> Tensor(LayerWeights[k], l)]]
LayerList == FlattenSeq(LayerLists)

Distinct(s) == \A i, j \in 1 .. Len(s) : s[i] = s[j] => i = j

LEMMA LayerListType ==
    /\ LayerList \in Seq(Tensors) /\ Distinct(LayerList)
    /\ \A i \in 1 .. Len(LayerList) : LayerList[i].layer # 0
<1> DEFINE w == Len(LayerWeights)
<1>1. w \in Nat /\ Layers \in Nat /\ \A k \in 1 .. w : LayerWeights[k] \in STRING
    BY PlanAssumption
<1>2. \A l \in 1 .. Layers :
         /\ LayerLists[l] \in Seq(Tensors) /\ Len(LayerLists[l]) = w
         /\ \A k \in 1 .. w : LayerLists[l][k] = Tensor(LayerWeights[k], l)
    <2> TAKE l \in 1 .. Layers
    <2> DEFINE u == [k \in 1 .. w |-> Tensor(LayerWeights[k], l)]
    <2>1. LayerLists[l] = u  BY DEF LayerLists
    <2>2. \A k \in 1 .. w : Tensor(LayerWeights[k], l) \in Tensors
        BY <1>1 DEF Tensor, Tensors, Parts
    <2>3. u \in Seq(Tensors) /\ Len(u) = w  BY <1>1, <2>2
    <2>4. \A k \in 1 .. w : u[k] = Tensor(LayerWeights[k], l)  OBVIOUS
    <2> HIDE DEF u, w
    <2> QED BY <2>1, <2>3, <2>4
<1>3. LayerLists \in Seq(Seq(Tensors)) /\ Len(LayerLists) = Layers
    <2>1. LayerLists = [l \in 1 .. Layers |-> LayerLists[l]]  BY DEF LayerLists
    <2> QED BY <1>1, <1>2, <2>1
<1>4. LayerList \in Seq(Tensors)  BY <1>3, Flattened DEF LayerList
<1>5. PICK p : Places(p, LayerLists, LayerList)  BY <1>3, Flattened DEF LayerList
<1> HIDE DEF w
<1>6. ASSUME NEW i \in 1 .. Len(LayerList)
      PROVE  \E l \in 1 .. Layers : \E k \in 1 .. w :
                i = p[l] + k /\ LayerList[i] = Tensor(LayerWeights[k], l)
    <2>1. PICK l \in 1 .. Len(LayerLists) : \E k \in 1 .. Len(LayerLists[l]) : i = p[l] + k
        BY <1>5 DEF Places
    <2>2. PICK k \in 1 .. Len(LayerLists[l]) : i = p[l] + k  BY <2>1
    <2>3. LayerList[i] = LayerLists[l][k]  BY <1>5, <2>2 DEF Places
    <2>4. l \in 1 .. Layers /\ k \in 1 .. w  BY <1>2, <1>3
    <2>5. LayerLists[l][k] = Tensor(LayerWeights[k], l)  BY <1>2, <2>4
    <2> QED BY <2>2, <2>3, <2>4, <2>5
<1>7. Distinct(LayerList)
    <2> SUFFICES ASSUME NEW i \in 1 .. Len(LayerList), NEW j \in 1 .. Len(LayerList),
                        LayerList[i] = LayerList[j]
                 PROVE  i = j
        BY DEF Distinct
    <2>1. PICK l \in 1 .. Layers, k \in 1 .. w :
             i = p[l] + k /\ LayerList[i] = Tensor(LayerWeights[k], l)
        BY <1>6
    <2>2. PICK m \in 1 .. Layers, n \in 1 .. w :
             j = p[m] + n /\ LayerList[j] = Tensor(LayerWeights[n], m)
        BY <1>6
    <2>3. l = m /\ LayerWeights[k] = LayerWeights[n]  BY <2>1, <2>2 DEF Tensor
    <2>4. k = n  BY <2>3, PlanAssumption DEF w
    <2> QED BY <2>1, <2>2, <2>3, <2>4
<1>8. ASSUME NEW i \in 1 .. Len(LayerList) PROVE LayerList[i].layer # 0
    <2>1. PICK l \in 1 .. Layers, k \in 1 .. w :
             i = p[l] + k /\ LayerList[i] = Tensor(LayerWeights[k], l)
        BY <1>6
    <2> QED BY <2>1 DEF Tensor
<1> QED BY <1>4, <1>7, <1>8

Elems(s) == {s[i] : i \in 1 .. Len(s)}

(* Two lists without a tensor twice or in common, one after the other. *)
LEMMA Appended ==
    ASSUME NEW a \in Seq(Tensors), NEW b \in Seq(Tensors), Distinct(a), Distinct(b),
           Elems(a) \cap Elems(b) = {}
    PROVE  /\ a \o b \in Seq(Tensors) /\ Distinct(a \o b)
           /\ Len(a \o b) = Len(a) + Len(b)
           /\ \A j \in 1 .. Len(b) : (a \o b)[Len(a) + j] = b[j]
           /\ Elems(a \o b) = Elems(a) \cup Elems(b)
<1> DEFINE c == a \o b
<1>1. /\ c \in Seq(Tensors) /\ Len(c) = Len(a) + Len(b)
      /\ \A i \in 1 .. Len(a) + Len(b) : c[i] = IF i <= Len(a) THEN a[i] ELSE b[i - Len(a)]
    BY ConcatProperties, Zenon
<1>2. Len(a) \in Nat /\ Len(b) \in Nat  OBVIOUS
<1> HIDE DEF c
<1>3. \A i \in 1 .. Len(a) : i \in 1 .. Len(c) /\ c[i] = a[i]  BY <1>1, <1>2
<1>4. \A j \in 1 .. Len(b) : Len(a) + j \in 1 .. Len(c) /\ c[Len(a) + j] = b[j]
    <2> TAKE j \in 1 .. Len(b)
    <2>1. Len(a) + j \in 1 .. Len(a) + Len(b) /\ ~(Len(a) + j <= Len(a))
          /\ (Len(a) + j) - Len(a) = j
        BY <1>2
    <2> QED BY <1>1, <2>1
<1>5. ASSUME NEW i \in 1 .. Len(c)
      PROVE  i \in 1 .. Len(a) \/ \E j \in 1 .. Len(b) : i = Len(a) + j
    <2>1. CASE i <= Len(a)  BY <1>1, <1>2, <2>1
    <2>2. CASE ~(i <= Len(a))
        <3>1. i - Len(a) \in 1 .. Len(b) /\ i = Len(a) + (i - Len(a))  BY <1>1, <1>2, <2>2
        <3> QED BY <3>1
    <2> QED BY <2>1, <2>2
<1>6. Elems(c) = Elems(a) \cup Elems(b)
    <2>1. ASSUME NEW x \in Elems(c) PROVE x \in Elems(a) \cup Elems(b)
        <3>1. PICK i \in 1 .. Len(c) : x = c[i]  BY <2>1 DEF Elems
        <3>2. CASE i \in 1 .. Len(a)  BY <1>3, <3>1, <3>2 DEF Elems
        <3>3. CASE \E j \in 1 .. Len(b) : i = Len(a) + j  BY <1>4, <3>1, <3>3 DEF Elems
        <3> QED BY <1>5, <3>2, <3>3
    <2>2. ASSUME NEW x \in Elems(a) PROVE x \in Elems(c)
        <3>1. PICK i \in 1 .. Len(a) : x = a[i]  BY <2>2 DEF Elems
        <3> QED BY <1>3, <3>1 DEF Elems
    <2>3. ASSUME NEW x \in Elems(b) PROVE x \in Elems(c)
        <3>1. PICK i \in 1 .. Len(b) : x = b[i]  BY <2>3 DEF Elems
        <3> QED BY <1>4, <3>1 DEF Elems
    <2> QED BY <2>1, <2>2, <2>3
<1>7. Distinct(c)
    <2> SUFFICES ASSUME NEW i \in 1 .. Len(c), NEW j \in 1 .. Len(c), c[i] = c[j]
                 PROVE  i = j
        BY DEF Distinct
    <2>1. CASE i \in 1 .. Len(a) /\ j \in 1 .. Len(a)
        BY <1>3, <2>1 DEF Distinct
    <2>2. CASE i \in 1 .. Len(a) /\ \E k \in 1 .. Len(b) : j = Len(a) + k
        <3>1. PICK k \in 1 .. Len(b) : j = Len(a) + k  BY <2>2
        <3>2. c[i] = a[i] /\ c[j] = b[k]  BY <1>3, <1>4, <2>2, <3>1
        <3> QED BY <2>2, <3>2 DEF Elems
    <2>3. CASE j \in 1 .. Len(a) /\ \E k \in 1 .. Len(b) : i = Len(a) + k
        <3>1. PICK k \in 1 .. Len(b) : i = Len(a) + k  BY <2>3
        <3>2. c[j] = a[j] /\ c[i] = b[k]  BY <1>3, <1>4, <2>3, <3>1
        <3> QED BY <2>3, <3>2 DEF Elems
    <2>4. CASE (\E k \in 1 .. Len(b) : i = Len(a) + k) /\ (\E k \in 1 .. Len(b) : j = Len(a) + k)
        <3>1. PICK k \in 1 .. Len(b) : i = Len(a) + k  BY <2>4
        <3>2. PICK m \in 1 .. Len(b) : j = Len(a) + m  BY <2>4
        <3>3. b[k] = b[m]  BY <1>4, <3>1, <3>2
        <3>4. k = m  BY <3>3 DEF Distinct
        <3> QED BY <3>1, <3>2, <3>4
    <2> QED BY <1>5, <2>1, <2>2, <2>3, <2>4
<1> QED BY <1>1, <1>4, <1>6, <1>7 DEF c

(* The lists that Plan and Wanted are put together from. *)
Embed == <<Tensor("embed", 0)>>
Norm == <<Tensor("norm", 0)>>
Output(t) == IF t THEN <<>> ELSE <<Tensor("output", 0)>>
Three == <<Tensor("tokenizer.json", 0), Tensor("tokenizer.tokens", 0),
           Tensor("tokenizer.offsets", 0)>>

LEMMA PartsType ==
    ASSUME NEW t \in BOOLEAN
    PROVE  /\ Embed \in Seq(Tensors) /\ Distinct(Embed) /\ Elems(Embed) = {Tensor("embed", 0)}
           /\ Norm \in Seq(Tensors) /\ Distinct(Norm) /\ Elems(Norm) = {Tensor("norm", 0)}
           /\ Output(t) \in Seq(Tensors) /\ Distinct(Output(t))
           /\ Elems(Output(t)) \subseteq {Tensor("output", 0)}
           /\ Three \in Seq(Tensors) /\ Distinct(Three) /\ Elems(Three) = Tokenizer
           /\ Len(Three) = 3 /\ Three[3] = Tensor("tokenizer.offsets", 0)
           /\ Len(Embed) = 1 /\ Len(Norm) = 1 /\ Len(Output(t)) \in Nat
           /\ \A x \in Elems(LayerList) : x.layer # 0
<1>1. ASSUME NEW x \in Tensors
      PROVE  <<x>> \in Seq(Tensors) /\ Distinct(<<x>>) /\ Elems(<<x>>) = {x} /\ Len(<<x>>) = 1
    BY DEF Distinct, Elems
<1>2. /\ Tensor("embed", 0) \in Tensors /\ Tensor("norm", 0) \in Tensors
      /\ Tensor("output", 0) \in Tensors
    BY DEF Tensor, Tensors, Parts
<1>3. <<>> \in Seq(Tensors) /\ Distinct(<<>>) /\ Elems(<<>>) = {} /\ Len(<<>>) = 0
    BY DEF Distinct, Elems
<1>4. /\ Three \in Seq(Tensors) /\ Distinct(Three) /\ Elems(Three) = Tokenizer
      /\ Len(Three) = 3 /\ Three[3] = Tensor("tokenizer.offsets", 0)
    <2> DEFINE a == Tensor("tokenizer.json", 0)  b == Tensor("tokenizer.tokens", 0)
               c == Tensor("tokenizer.offsets", 0)
    <2>1. a \in Tensors /\ b \in Tensors /\ c \in Tensors  BY DEF Tensor, Tensors, Parts
    <2>2. a # b /\ a # c /\ b # c  BY DEF Tensor
    <2>3. Three = <<a, b, c>> /\ Tokenizer = {a, b, c}  BY DEF Three, Tokenizer
    <2> HIDE DEF a, b, c
    <2>4. Len(Three) = 3 /\ Three[1] = a /\ Three[2] = b /\ Three[3] = c  BY <2>3
    <2>5. Three \in Seq(Tensors)  BY <2>1, <2>3
    <2>6. \A i \in 1 .. Len(Three) : i = 1 \/ i = 2 \/ i = 3  BY <2>4
    <2>7. Distinct(Three)  BY <2>2, <2>4, <2>6 DEF Distinct
    <2>8. Elems(Three) = {a, b, c}
        <3>1. 1 \in 1 .. Len(Three) /\ 2 \in 1 .. Len(Three) /\ 3 \in 1 .. Len(Three)  BY <2>4
        <3> QED BY <2>4, <2>6, <3>1 DEF Elems
    <2> QED BY <2>3, <2>4, <2>5, <2>7, <2>8 DEF c
<1>5. \A x \in Elems(LayerList) : x.layer # 0  BY LayerListType DEF Elems
<1>6. Output(t) \in Seq(Tensors) /\ Distinct(Output(t)) /\ Len(Output(t)) \in Nat
      /\ Elems(Output(t)) \subseteq {Tensor("output", 0)}
    <2>1. CASE t
        <3>1. Output(t) = <<>>  BY <2>1 DEF Output
        <3> QED BY <1>3, <3>1
    <2>2. CASE ~t
        <3>1. Output(t) = <<Tensor("output", 0)>>  BY <2>2 DEF Output
        <3> QED BY <1>1, <1>2, <3>1
    <2> QED BY <2>1, <2>2
<1>7. Embed \in Seq(Tensors) /\ Distinct(Embed) /\ Elems(Embed) = {Tensor("embed", 0)}
      /\ Len(Embed) = 1
    BY <1>1, <1>2 DEF Embed
<1>8. Norm \in Seq(Tensors) /\ Distinct(Norm) /\ Elems(Norm) = {Tensor("norm", 0)}
      /\ Len(Norm) = 1
    BY <1>1, <1>2 DEF Norm
<1> QED BY <1>4, <1>5, <1>6, <1>7, <1>8

(***************************************************************************)
(* The plan lists every tensor once, the tokenizer's last, and what the    *)
(* loader wants is all of it but the tokenizer's.                          *)
(***************************************************************************)
LEMMA PlanType ==
    ASSUME NEW t \in BOOLEAN
    PROVE  /\ Plan(t) \in Seq(Tensors) /\ Distinct(Plan(t)) /\ Len(Plan(t)) >= 3
           /\ Range(Plan(t)) = Elems(Plan(t)) /\ HeaderOf \notin Elems(Plan(t))
           /\ Plan(t)[Len(Plan(t))] = Tensor("tokenizer.offsets", 0)
           /\ Wanted(t) \in Seq(Tensors) /\ Distinct(Wanted(t)) /\ Len(Wanted(t)) >= 2
           /\ Elems(Wanted(t)) \cap Tokenizer = {}
           /\ Elems(Wanted(t)) \cup Tokenizer = Elems(Plan(t))
<1>2. LayerList \in Seq(Tensors) /\ Distinct(LayerList) /\ Len(LayerList) \in Nat  BY LayerListType
<1>3. /\ Elems(Embed) = {Tensor("embed", 0)} /\ Elems(Norm) = {Tensor("norm", 0)}
      /\ Elems(Output(t)) \subseteq {Tensor("output", 0)} /\ Elems(Three) = Tokenizer
      /\ \A x \in Elems(LayerList) : x.layer # 0
    BY PartsType
<1>4. /\ Tensor("embed", 0) # Tensor("norm", 0) /\ Tensor("embed", 0) # Tensor("output", 0)
      /\ Tensor("norm", 0) # Tensor("output", 0)
      /\ Tensor("embed", 0) \notin Tokenizer /\ Tensor("norm", 0) \notin Tokenizer
      /\ Tensor("output", 0) \notin Tokenizer
    BY DEF Tensor, Tokenizer
<1>5. /\ Tensor("embed", 0) \notin Elems(LayerList) /\ Tensor("norm", 0) \notin Elems(LayerList)
      /\ Tensor("output", 0) \notin Elems(LayerList) /\ Tokenizer \cap Elems(LayerList) = {}
    BY <1>3 DEF Tensor, Tokenizer
<1>6. /\ HeaderOf # Tensor("embed", 0) /\ HeaderOf # Tensor("norm", 0)
      /\ HeaderOf # Tensor("output", 0) /\ HeaderOf \notin Tokenizer
      /\ HeaderOf \notin Elems(LayerList)
    BY <1>3 DEF HeaderOf, Tensor, Tokenizer
<1> DEFINE a1 == Embed \o LayerList  a2 == a1 \o Norm  a3 == a2 \o Output(t)  a4 == a3 \o Three
<1>7. a1 \in Seq(Tensors) /\ Distinct(a1) /\ Elems(a1) = {Tensor("embed", 0)} \cup Elems(LayerList)
    BY <1>2, <1>3, <1>5, PartsType, Appended
<1> HIDE DEF a1
<1>8. a2 \in Seq(Tensors) /\ Distinct(a2)
      /\ Elems(a2) = {Tensor("embed", 0), Tensor("norm", 0)} \cup Elems(LayerList)
    BY <1>3, <1>4, <1>5, <1>7, PartsType, Appended
<1> HIDE DEF a2
<1>9. a3 \in Seq(Tensors) /\ Distinct(a3)
      /\ Elems(a3) = {Tensor("embed", 0), Tensor("norm", 0)} \cup Elems(LayerList) \cup Elems(Output(t))
    BY <1>3, <1>4, <1>5, <1>8, PartsType, Appended
<1> HIDE DEF a3
<1>10. /\ a4 \in Seq(Tensors) /\ Distinct(a4) /\ Len(a4) = Len(a3) + 3
       /\ a4[Len(a3) + 3] = Tensor("tokenizer.offsets", 0)
       /\ Elems(a4) = {Tensor("embed", 0), Tensor("norm", 0)} \cup Elems(LayerList)
                         \cup Elems(Output(t)) \cup Tokenizer
    <2>1. Elems(a3) \cap Elems(Three) = {}  BY <1>3, <1>4, <1>5, <1>9
    <2>2. Three \in Seq(Tensors) /\ Distinct(Three) /\ Len(Three) = 3 /\ 3 \in 1 .. Len(Three)
          /\ Three[3] = Tensor("tokenizer.offsets", 0)
        BY PartsType
    <2> QED BY <1>3, <1>9, <2>1, <2>2, Appended
<1> HIDE DEF a4
<1>11. Plan(t) = a4  BY DEF Plan, a1, a2, a3, a4, Embed, Norm, Output, Three, LayerList, LayerLists
<1> DEFINE b1 == <<Tensor("embed", 0), Tensor("norm", 0)>>
           b2 == b1 \o Output(t)  b3 == b2 \o LayerList
<1>12. b1 \in Seq(Tensors) /\ Distinct(b1) /\ Elems(b1) = {Tensor("embed", 0), Tensor("norm", 0)}
       /\ Len(b1) = 2
    <2> DEFINE x == Tensor("embed", 0)  y == Tensor("norm", 0)
    <2>1. x \in Tensors /\ y \in Tensors  BY DEF Tensor, Tensors, Parts
    <2>2. x # y /\ b1 = <<x, y>>  BY <1>4
    <2> HIDE DEF x, y, b1
    <2>3. b1 \in Seq(Tensors) /\ Len(b1) = 2 /\ b1[1] = x /\ b1[2] = y  BY <2>1, <2>2
    <2>4. \A i \in 1 .. Len(b1) : i = 1 \/ i = 2  BY <2>3
    <2>5. 1 \in 1 .. Len(b1) /\ 2 \in 1 .. Len(b1)  BY <2>3
    <2>6. Distinct(b1) /\ Elems(b1) = {x, y}  BY <2>2, <2>3, <2>4, <2>5 DEF Distinct, Elems
    <2> QED BY <2>3, <2>6 DEF x, y
<1> HIDE DEF b1
<1>13. b2 \in Seq(Tensors) /\ Distinct(b2) /\ Len(b2) = 2 + Len(Output(t))
       /\ Elems(b2) = {Tensor("embed", 0), Tensor("norm", 0)} \cup Elems(Output(t))
    <2>1. Elems(b1) \cap Elems(Output(t)) = {}  BY <1>3, <1>4, <1>12
    <2>2. Output(t) \in Seq(Tensors) /\ Distinct(Output(t))  BY PartsType
    <2> QED BY <1>12, <2>1, <2>2, Appended, ZenonT(40)
<1> HIDE DEF b2
<1>14. b3 \in Seq(Tensors) /\ Distinct(b3) /\ Len(b3) = 2 + Len(Output(t)) + Len(LayerList)
       /\ Elems(b3) = {Tensor("embed", 0), Tensor("norm", 0)} \cup Elems(Output(t)) \cup Elems(LayerList)
    <2>1. Elems(b2) \cap Elems(LayerList) = {}  BY <1>3, <1>5, <1>13
    <2> QED BY <1>2, <1>13, <2>1, Appended
<1> HIDE DEF b3
<1>15. Wanted(t) = b3  BY DEF Wanted, b1, b2, b3, Output, LayerList, LayerLists
<1>16. Len(Output(t)) \in Nat  BY PartsType
<1>17. Len(b3) >= 2  BY <1>2, <1>14, <1>16
<1>18. Range(a4) = Elems(a4)  BY <1>10 DEF Range, Elems
<1>19. HeaderOf \notin Elems(a4)  BY <1>3, <1>6, <1>10
<1>20. Elems(b3) \cap Tokenizer = {} /\ Elems(b3) \cup Tokenizer = Elems(a4)
    BY <1>3, <1>4, <1>5, <1>10, <1>14
<1>21. Len(a3) \in Nat /\ Len(a4) >= 3 /\ a4[Len(a4)] = Tensor("tokenizer.offsets", 0)
    BY <1>9, <1>10
<1> QED BY <1>10, <1>11, <1>14, <1>15, <1>17, <1>18, <1>19, <1>20, <1>21

(* The first n tensors of a list that has none twice are n tensors. *)
FirstOf(s, n) == {s[i] : i \in 1 .. n}

LEMMA Counted ==
    ASSUME NEW s \in Seq(Tensors), Distinct(s), NEW n \in 0 .. Len(s)
    PROVE  /\ IsFiniteSet(FirstOf(s, n)) /\ Cardinality(FirstOf(s, n)) = n
           /\ n < Len(s) => /\ s[n + 1] \notin FirstOf(s, n)
                             /\ FirstOf(s, n + 1) = FirstOf(s, n) \cup {s[n + 1]}
<1>1. ASSUME NEW m \in Nat, m < Len(s)
      PROVE  /\ s[m + 1] \notin FirstOf(s, m)
             /\ FirstOf(s, m + 1) = FirstOf(s, m) \cup {s[m + 1]}
    <2>1. m + 1 \in 1 .. Len(s) /\ \A i \in 1 .. m : i \in 1 .. Len(s) /\ i # m + 1  BY <1>1
    <2>2. s[m + 1] \notin FirstOf(s, m)  BY <2>1 DEF Distinct, FirstOf
    <2>3. \A i : i \in 1 .. m + 1 <=> (i \in 1 .. m \/ i = m + 1)  OBVIOUS
    <2>4. FirstOf(s, m + 1) = FirstOf(s, m) \cup {s[m + 1]}  BY <2>3 DEF FirstOf
    <2> QED BY <2>2, <2>4
<1> DEFINE Good(m) == IsFiniteSet(FirstOf(s, m)) /\ Cardinality(FirstOf(s, m)) = m
           T == {m \in Nat : m <= Len(s) => Good(m)}
<1>2. 0 \in T
    <2>1. FirstOf(s, 0) = {}  BY DEF FirstOf
    <2> QED BY <2>1, FS_EmptySet
<1>3. ASSUME NEW m \in Nat, m \in T PROVE m + 1 \in T
    <2> SUFFICES ASSUME m + 1 <= Len(s) PROVE Good(m + 1)
        OBVIOUS
    <2>1. m < Len(s) /\ Good(m)  BY <1>3
    <2>2. /\ s[m + 1] \notin FirstOf(s, m)
          /\ FirstOf(s, m + 1) = FirstOf(s, m) \cup {s[m + 1]}
        BY <1>1, <2>1
    <2> DEFINE A == FirstOf(s, m)  x == s[m + 1]
    <2>3. IsFiniteSet(A) /\ Cardinality(A) = m /\ x \notin A  BY <2>1, <2>2
    <2> HIDE DEF A, x
    <2>4. IsFiniteSet(A \cup {x}) /\ Cardinality(A \cup {x}) = m + 1
        BY <2>3, FS_AddElement
    <2> QED BY <2>2, <2>4 DEF A, x
<1>4. Good(n)
    <2>1. n \in T
        <3> HIDE DEF T
        <3> QED BY <1>2, <1>3, Induction
    <2> HIDE DEF Good
    <2> QED BY <2>1
<1>5. n \in Nat  OBVIOUS
<1> QED BY <1>1, <1>4, <1>5

(* p[k]: where the record of the k-th tensor of the plan begins. *)
Layout(t, p) ==
    LET P == Plan(t)  C == Content[t] IN
    /\ p \in [1 .. Len(P) + 1 -> Nat] /\ p[1] = Len(Header) /\ p[Len(P) + 1] = Len(C)
    /\ Stands(C, 0, Header)
    /\ \A k \in 1 .. Len(P) :
          /\ p[k + 1] = p[k] + Len(Record(P[k])) + RawSize(P[k])
          /\ Stands(C, p[k], Record(P[k]))
          /\ Stands(C, p[k] + Len(Record(P[k])), Payload(P[k]))

LEMMA ContentLayout ==
    ASSUME NEW t \in BOOLEAN
    PROVE  Content[t] \in Seq(FileBytes) /\ \E p : Layout(t, p)
<1> DEFINE P == Plan(t)  N == Len(P)  H == Header  C == Content[t]
           s == [k \in 1 .. N |-> Record(P[k]) \o Payload(P[k])]
<1>1. P \in Seq(Tensors) /\ N \in Nat /\ \A k \in 1 .. N : P[k] \in Tensors
    <2>1. P \in Seq(Tensors)  BY PlanType
    <2> HIDE DEF P
    <2> QED BY <2>1
<1>2. C = H \o FlattenSeq(s)  BY DEF Content, Header, Record
<1> HIDE DEF P, N
<1>3. \A k \in 1 .. N : LET r == Record(P[k])  y == Payload(P[k]) IN
         /\ s[k] \in Seq(FileBytes) /\ Len(s[k]) = Len(r) + RawSize(P[k])
         /\ r \in Seq(FileBytes) /\ y \in Seq(FileBytes) /\ Len(y) = RawSize(P[k])
         /\ Len(r) \in Nat /\ Len(r) >= 1 /\ RawSize(P[k]) \in Nat
         /\ \A i \in 1 .. Len(r) : s[k][i] = r[i]
         /\ \A i \in 1 .. Len(y) : s[k][Len(r) + i] = y[i]
    <2> TAKE k \in 1 .. N
    <2> DEFINE r == Record(P[k])  y == Payload(P[k])
    <2>1. r \in Seq(FileBytes) /\ Len(r) >= 1 /\ y \in Seq(FileBytes) /\ Len(y) = RawSize(P[k])
        BY <1>1, RecordType
    <2>2. s[k] = r \o y  OBVIOUS
    <2> HIDE DEF r, y, s
    <2>3. /\ r \o y \in Seq(FileBytes) /\ Len(r \o y) = Len(r) + Len(y)
          /\ \A i \in 1 .. Len(r) + Len(y) : (r \o y)[i] = IF i <= Len(r) THEN r[i] ELSE y[i - Len(r)]
        BY <2>1, ConcatProperties, Zenon
    <2>4. Len(r) \in Nat /\ Len(y) \in Nat  BY <2>1
    <2>5. /\ s[k] \in Seq(FileBytes) /\ Len(s[k]) = Len(r) + Len(y)
          /\ \A i \in 1 .. Len(r) + Len(y) : s[k][i] = IF i <= Len(r) THEN r[i] ELSE y[i - Len(r)]
        BY <2>2, <2>3, Zenon
    <2>6. \A i \in 1 .. Len(r) : i \in 1 .. Len(r) + Len(y) /\ i <= Len(r)  BY <2>4
    <2>7. \A i \in 1 .. Len(y) : /\ Len(r) + i \in 1 .. Len(r) + Len(y)
                                 /\ ~(Len(r) + i <= Len(r)) /\ (Len(r) + i) - Len(r) = i
        BY <2>4
    <2>8. \A i \in 1 .. Len(r) : s[k][i] = r[i]  BY <2>5, <2>6
    <2>9. \A i \in 1 .. Len(y) : s[k][Len(r) + i] = y[i]  BY <2>5, <2>7
    <2> QED BY <2>1, <2>4, <2>5, <2>8, <2>9 DEF r, y
<1>4. s \in Seq(Seq(FileBytes)) /\ Len(s) = N
    <2>1. s = [k \in 1 .. N |-> s[k]]  OBVIOUS
    <2> HIDE DEF s
    <2> QED BY <1>1, <1>3, <2>1
<1> DEFINE f == FlattenSeq(s)
<1>5. f \in Seq(FileBytes) /\ Len(f) \in Nat
    <2> HIDE DEF s
    <2>1. FlattenSeq(s) \in Seq(FileBytes)  BY <1>4, Flattened
    <2> QED BY <2>1
<1>6. PICK q : Places(q, s, f)  BY <1>4, Flattened
<1> HIDE DEF s, f
<1>7. H \in Seq(FileBytes) /\ Len(H) \in Nat
    <2>1. Header \in Seq(FileBytes)  BY HeaderType
    <2> QED BY <2>1
<1> HIDE DEF H
<1>8. /\ H \o f \in Seq(FileBytes) /\ Len(H \o f) = Len(H) + Len(f)
      /\ \A i \in 1 .. Len(H) + Len(f) : (H \o f)[i] = IF i <= Len(H) THEN H[i] ELSE f[i - Len(H)]
    BY <1>5, <1>7, ConcatProperties, Zenon
<1>9. C = H \o f  BY <1>2 DEF f
<1> HIDE DEF C
<1>10. /\ C \in Seq(FileBytes) /\ Len(C) = Len(H) + Len(f)
       /\ \A i \in 1 .. Len(H) + Len(f) : C[i] = IF i <= Len(H) THEN H[i] ELSE f[i - Len(H)]
    BY <1>8, <1>9, Zenon
<1>11. \A i \in 1 .. Len(f) : C[Len(H) + i] = f[i]
    <2>1. \A i \in 1 .. Len(f) : /\ Len(H) + i \in 1 .. Len(H) + Len(f)
                                 /\ ~(Len(H) + i <= Len(H)) /\ (Len(H) + i) - Len(H) = i
        BY <1>5, <1>7
    <2> QED BY <1>10, <2>1
<1>12. Stands(C, 0, H)
    <2>1. \A i \in 1 .. Len(H) : i \in 1 .. Len(H) + Len(f) /\ i <= Len(H) /\ 0 + i = i
        BY <1>5, <1>7
    <2>2. 0 + Len(H) <= Len(C)  BY <1>5, <1>7, <1>10
    <2> QED BY <1>10, <2>1, <2>2 DEF Stands
<1> DEFINE p == [k \in 1 .. N + 1 |-> Len(H) + q[k]]
<1>13. /\ q \in [1 .. N + 1 -> Nat] /\ q[1] = 0 /\ Len(f) = q[N + 1]
       /\ \A k \in 1 .. N : q[k + 1] = q[k] + Len(s[k])
       /\ \A k \in 1 .. N : \A i \in 1 .. Len(s[k]) :
             q[k] + i \in 1 .. Len(f) /\ f[q[k] + i] = s[k][i]
    BY <1>4, <1>6 DEF Places
<1>14. p \in [1 .. N + 1 -> Nat] /\ p[1] = Len(H) /\ p[N + 1] = Len(C)
    <2>1. 1 \in 1 .. N + 1 /\ N + 1 \in 1 .. N + 1  BY <1>1
    <2>2. \A k \in 1 .. N + 1 : q[k] \in Nat  BY <1>13
    <2> QED BY <1>7, <1>10, <1>13, <2>1, <2>2
<1>15. ASSUME NEW k \in 1 .. N
       PROVE  /\ p[k + 1] = p[k] + Len(Record(P[k])) + RawSize(P[k])
              /\ Stands(C, p[k], Record(P[k]))
              /\ Stands(C, p[k] + Len(Record(P[k])), Payload(P[k]))
    <2> DEFINE r == Record(P[k])  y == Payload(P[k])
    <2>1. /\ Len(s[k]) = Len(r) + Len(y) /\ Len(y) = RawSize(P[k])
          /\ Len(r) \in Nat /\ Len(r) >= 1 /\ Len(y) \in Nat
          /\ \A i \in 1 .. Len(r) : s[k][i] = r[i]
          /\ \A i \in 1 .. Len(y) : s[k][Len(r) + i] = y[i]
        BY <1>3
    <2>2. k \in 1 .. N + 1 /\ k + 1 \in 1 .. N + 1 /\ q[k] \in Nat /\ q[k + 1] \in Nat
          /\ p[k] = Len(H) + q[k] /\ p[k + 1] = Len(H) + q[k + 1]
        <3>1. k \in 1 .. N + 1 /\ k + 1 \in 1 .. N + 1  BY <1>1
        <3> QED BY <1>13, <3>1
    <2> HIDE DEF p, r, y
    <2>3. q[k + 1] = q[k] + Len(s[k])  BY <1>13
    <2> DEFINE u == Len(r)  v == Len(y)  w == Len(H)
    <2>30. u \in Nat /\ u >= 1 /\ v \in Nat /\ w \in Nat /\ v = RawSize(P[k]) /\ Len(s[k]) = u + v
        BY <1>7, <2>1
    <2> HIDE DEF u, v, w
    <2>31. p[k] = w + q[k] /\ p[k + 1] = w + q[k + 1] /\ q[k + 1] = q[k] + (u + v)
        BY <2>2, <2>3, <2>30 DEF w
    <2>32. p[k + 1] = p[k] + u + v  BY <2>2, <2>30, <2>31
    <2>4. p[k + 1] = p[k] + Len(r) + RawSize(P[k])  BY <2>30, <2>32 DEF u
    <2>5. \A i \in 1 .. Len(s[k]) : q[k] + i \in 1 .. Len(f) /\ f[q[k] + i] = s[k][i]
        BY <1>13
    <2>6. ASSUME NEW i \in 1 .. Len(s[k]) PROVE C[p[k] + i] = s[k][i]
        <3>1. q[k] + i \in 1 .. Len(f) /\ f[q[k] + i] = s[k][i]  BY <2>5
        <3>2. i \in Int  BY <2>1
        <3>3. C[Len(H) + (q[k] + i)] = s[k][i]  BY <1>11, <3>1
        <3>4. Len(H) + (q[k] + i) = p[k] + i  BY <1>7, <2>2, <3>2
        <3> QED BY <3>3, <3>4
    <2>7. q[k + 1] <= Len(f)
        <3>1. Len(s[k]) \in 1 .. Len(s[k])  BY <2>1
        <3>2. q[k] + Len(s[k]) \in 1 .. Len(f)  BY <2>5, <3>1
        <3> QED BY <1>5, <2>3, <3>2
    <2>8. p[k] \in Nat /\ p[k] + Len(r) + Len(y) <= Len(C)
        <3>1. Len(C) = w + Len(f) /\ Len(f) \in Nat  BY <1>5, <1>10 DEF w
        <3>2. q[k] \in Nat /\ q[k + 1] \in Nat  BY <2>2
        <3>3. q[k] + u + v <= Len(f)
            <4>1. q[k] + u + v = q[k + 1]  BY <2>30, <2>31, <3>2
            <4> QED BY <2>7, <4>1
        <3>4. p[k] \in Nat  BY <2>30, <2>31, <3>2, SMTT(40)
        <3>5. p[k] + u + v = w + (q[k] + u + v)  BY <2>30, <2>31, <3>2, SMTT(40)
        <3>6. p[k] + u + v <= Len(C)  BY <2>30, <3>1, <3>2, <3>3, <3>5, SMTT(40)
        <3> QED BY <3>4, <3>6 DEF u, v
    <2>9. Len(C) \in Nat  BY <1>10
    <2>10. Stands(C, p[k], r)
        <3>1. \A i \in 1 .. Len(r) : i \in 1 .. Len(s[k])  BY <2>1
        <3>2. p[k] + Len(r) <= Len(C)  BY <2>1, <2>8, <2>9
        <3> QED BY <2>1, <2>6, <2>8, <3>1, <3>2 DEF Stands
    <2>11. Stands(C, p[k] + Len(r), y)
        <3>1. \A i \in 1 .. Len(y) : Len(r) + i \in 1 .. Len(s[k])
                                      /\ p[k] + (Len(r) + i) = p[k] + Len(r) + i
            BY <2>1, <2>8
        <3>2. ASSUME NEW i \in 1 .. Len(y) PROVE C[p[k] + Len(r) + i] = y[i]
            <4>1. C[p[k] + (Len(r) + i)] = s[k][Len(r) + i]  BY <2>6, <3>1
            <4> QED BY <2>1, <3>1, <4>1
        <3>3. p[k] + Len(r) \in Nat  BY <2>1, <2>8
        <3> QED BY <2>8, <3>2, <3>3 DEF Stands
    <2> QED BY <2>4, <2>10, <2>11 DEF r, y
<1> HIDE DEF p
<1>16. Layout(t, p)  BY <1>12, <1>14, <1>15 DEF Layout, P, N, H, C
<1> QED BY <1>10, <1>16 DEF C
-----------------------------------------------------------------------------
(***************************************************************************)
(* The invariant: the stream that builds the index stands where a record   *)
(* of the file begins, the index is that of a beginning of the plan, and   *)
(* what has been loaded was indexed and lies within what has been written. *)
(***************************************************************************)
Start(t) == CHOOSE p : Layout(t, p)

Indexed(n) ==
    LET P == Plan(tied) IN
    /\ DOMAIN index = FirstOf(P, n)
    /\ \A k \in 1 .. n :
          index[P[k]] = [offset |-> Start(tied)[k] + Len(Record(P[k])), size |-> RawSize(P[k])]

IndexInv ==
    \E n \in 0 .. Len(Plan(tied)) :
        /\ Indexed(n)
        /\ pc = "start" => n = 0
        /\ pc = "index" => cursor = Start(tied)[n + 1]
        /\ pc \in {"weights", "tokenizer", "serving"} => n = Len(Plan(tied))

LoadInv ==
    /\ pc \in {"start", "index"} => DOMAIN loaded = {}
    /\ \A x \in DOMAIN loaded :
          x \in DOMAIN index /\ loaded[x] = index[x] /\ ~PayloadEnds(x)
    /\ pc = "weights" =>
          \E n \in 0 .. Len(Wanted(tied)) - 1 : DOMAIN loaded = FirstOf(Wanted(tied), n)
    /\ pc = "serving" => Tokenizer \subseteq DOMAIN loaded

FileInv ==
    /\ tied \in BOOLEAN /\ length \in 0 .. Len(File)
    /\ pc \in {"start", "index", "weights", "tokenizer", "serving", "refused"}
    /\ IndexInv /\ LoadInv

LEMMA Laid ==
    ASSUME tied \in BOOLEAN
    PROVE  /\ File \in Seq(FileBytes) /\ Layout(tied, Start(tied))
           /\ \A k \in 1 .. Len(Plan(tied)) : LET x == Plan(tied)[k] IN
                 /\ x \in Tensors /\ Start(tied)[k] \in Nat /\ Start(tied)[k + 1] \in Nat
                 /\ Len(Record(x)) \in Nat /\ Len(Record(x)) >= 1
                 /\ RawSize(x) \in Nat /\ Len(Payload(x)) = RawSize(x)
           /\ Start(tied)[1] \in Nat /\ Len(Plan(tied)) \in Nat
<1> DEFINE P == Plan(tied)  p == Start(tied)
<1>1. File \in Seq(FileBytes)  BY ContentLayout DEF File
<1>2. Layout(tied, p)
    <2>1. \E q : Layout(tied, q)  BY ContentLayout
    <2> HIDE DEF p
    <2> QED BY <2>1, Zenon DEF Start, p
<1>3. P \in Seq(Tensors)  BY PlanType
<1> HIDE DEF P, p
<1>4. Len(P) \in Nat  BY <1>3
<1>5. p \in [1 .. Len(P) + 1 -> Nat]  BY <1>2 DEF Layout, P
<1>6. p[1] \in Nat
    <2>1. 1 \in 1 .. Len(P) + 1  BY <1>4
    <2> QED BY <1>5, <2>1
<1>7. ASSUME NEW k \in 1 .. Len(P)
      PROVE  /\ P[k] \in Tensors /\ p[k] \in Nat /\ p[k + 1] \in Nat
             /\ Len(Record(P[k])) \in Nat /\ Len(Record(P[k])) >= 1
             /\ RawSize(P[k]) \in Nat /\ Len(Payload(P[k])) = RawSize(P[k])
    <2>1. P[k] \in Tensors  BY <1>3
    <2>2. k \in 1 .. Len(P) + 1 /\ k + 1 \in 1 .. Len(P) + 1  BY <1>4
    <2>3. p[k] \in Nat /\ p[k + 1] \in Nat  BY <1>5, <2>2
    <2> DEFINE r == Record(P[k])
    <2>4. r \in Seq(FileBytes) /\ Len(r) >= 1 /\ Len(Payload(P[k])) = RawSize(P[k])
        BY <2>1, RecordType
    <2> HIDE DEF r
    <2>5. Len(r) \in Nat  BY <2>4
    <2>6. RawSize(P[k]) \in Nat  BY <2>1, SizeType
    <2> QED BY <2>1, <2>3, <2>4, <2>5, <2>6 DEF r
<1> QED BY <1>1, <1>2, <1>4, <1>6, <1>7 DEF P, p

(* What a read returns is what has been laid out there, if it is written. *)
LEMMA Reading ==
    ASSUME tied \in BOOLEAN, length \in 0 .. Len(File), NEW at \in Nat, NEW x, NEW fields,
           Bytes(x, fields) \in Seq(FileBytes)
    PROVE  ReadsAs(at, x, fields)
             <=> at + Len(Bytes(x, fields)) <= length /\ Stands(File, at, Bytes(x, fields))
<1> DEFINE e == Bytes(x, fields)
<1>1. File \in Seq(FileBytes)  BY Laid
<1>2. e \in Seq(FileBytes)  OBVIOUS
<1>3. ReadsAs(at, x, fields)
        <=> ~(at + Len(e) > length) /\ SubSeq(File, at + 1, at + Len(e)) = e
    BY DEF ReadsAs, Ends
<1> HIDE DEF e
<1>4. Len(e) \in Nat /\ Len(File) \in Nat /\ length \in Nat  BY <1>1, <1>2
<1>5. CASE at + Len(e) <= length
    <2>1. at + Len(e) <= Len(File)  BY <1>4, <1>5
    <2>2. SubSeq(File, at + 1, at + Len(e)) = e <=> Stands(File, at, e)
        BY <1>1, <1>2, <2>1, CutOut
    <2> QED BY <1>3, <1>4, <1>5, <2>2 DEF e
<1>6. CASE ~(at + Len(e) <= length)
    BY <1>3, <1>4, <1>6 DEF e
<1> QED BY <1>5, <1>6

(* The only tensor whose record can be read next is the next of the plan;  *)
(* it can as soon as it has been written.                                  *)
LEMMA NextRecord ==
    ASSUME tied \in BOOLEAN, length \in 0 .. Len(File), NEW n \in 0 .. Len(Plan(tied)) - 1
    PROVE  LET at == Start(tied)[n + 1]  y == Plan(tied)[n + 1] IN
           /\ at \in Nat /\ n + 1 \in 1 .. Len(Plan(tied))
           /\ \A x \in Tensors : ReadsAs(at, x, ReadRecord(x)) => x = y
           /\ at + Len(Record(y)) <= length => ReadsAs(at, y, ReadRecord(y))
<1> DEFINE at == Start(tied)[n + 1]  y == Plan(tied)[n + 1]
<1>1. n + 1 \in 1 .. Len(Plan(tied))  BY Laid
<1>2. at \in Nat /\ y \in Tensors /\ Len(Record(y)) >= 1 /\ Len(Record(y)) \in Nat
    BY <1>1, Laid
<1>3. Stands(File, at, Record(y))
    <2>1. Layout(tied, Start(tied))  BY Laid
    <2> QED BY <1>1, <2>1 DEF Layout, File
<1> HIDE DEF at, y
<1>4. ASSUME NEW x \in Tensors, ReadsAs(at, x, ReadRecord(x)) PROVE x = y
    <2> DEFINE r == Record(x)  s == Record(y)
    <2>1. /\ Bytes(x, ReadRecord(x)) = r /\ r \in Seq(FileBytes) /\ Len(r) >= 1
          /\ \A i \in 1 .. Len(r) : r[i].of = x
        BY RecordType
    <2>2. /\ s \in Seq(FileBytes) /\ Len(s) >= 1 /\ \A i \in 1 .. Len(s) : s[i].of = y
        BY <1>2, RecordType
    <2> HIDE DEF r, s
    <2>3. Stands(File, at, r)
        <3>1. Bytes(x, ReadRecord(x)) \in Seq(FileBytes)  BY <2>1
        <3>2. Stands(File, at, Bytes(x, ReadRecord(x)))  BY <1>2, <1>4, <3>1, Reading
        <3> QED BY <2>1, <3>2
    <2>4. 1 \in 1 .. Len(r) /\ 1 \in 1 .. Len(s)  BY <2>1, <2>2
    <2>5. File[at + 1] = r[1]  BY <2>3, <2>4 DEF Stands
    <2>6. File[at + 1] = s[1]  BY <1>3, <2>4 DEF Stands, s
    <2>7. r[1].of = x /\ s[1].of = y  BY <2>1, <2>2, <2>4
    <2> QED BY <2>5, <2>6, <2>7
<1>5. ASSUME at + Len(Record(y)) <= length PROVE ReadsAs(at, y, ReadRecord(y))
    <2>1. Bytes(y, ReadRecord(y)) = Record(y) /\ Record(y) \in Seq(FileBytes)  BY <1>2, RecordType
    <2>2. Bytes(y, ReadRecord(y)) \in Seq(FileBytes)  BY <2>1
    <2>3. /\ at + Len(Bytes(y, ReadRecord(y))) <= length
          /\ Stands(File, at, Bytes(y, ReadRecord(y)))
        BY <1>3, <1>5, <2>1
    <2> QED BY <1>2, <2>2, <2>3, Reading
<1> QED BY <1>1, <1>2, <1>4, <1>5 DEF at, y

(* An indexed tensor: its entry is where the converter put its payload. *)
LEMMA Entry ==
    ASSUME FileInv, NEW x \in DOMAIN index
    PROVE  /\ index[x].offset \in Nat /\ index[x].size \in Nat
           /\ Payload(x) \in Seq(FileBytes) /\ Len(Payload(x)) = index[x].size
           /\ Stands(File, index[x].offset, Payload(x))
           /\ x = Plan(tied)[Len(Plan(tied))] => index[x].offset + index[x].size = Len(File)
<1> DEFINE P == Plan(tied)  p == Start(tied)
<1>1. tied \in BOOLEAN  BY DEF FileInv
<1>2. PICK n \in 0 .. Len(P) : Indexed(n)  BY DEF FileInv, IndexInv
<1>3. PICK k \in 1 .. n : x = P[k]  BY <1>2 DEF Indexed, FirstOf
<1>4. k \in 1 .. Len(P) /\ Len(P) \in Nat
    <2>1. Len(P) \in Nat  BY <1>1, Laid
    <2> HIDE DEF P
    <2> QED BY <2>1
<1>5. index[x] = [offset |-> p[k] + Len(Record(x)), size |-> RawSize(x)]
    BY <1>2, <1>3 DEF Indexed
<1>6. /\ x \in Tensors /\ p[k] \in Nat /\ Len(Record(x)) \in Nat
      /\ RawSize(x) \in Nat /\ Len(Payload(x)) = RawSize(x)
    BY <1>1, <1>3, <1>4, Laid
<1>7. Layout(tied, p)  BY <1>1, Laid
<1>8. /\ Stands(File, p[k] + Len(Record(x)), Payload(x))
      /\ p[k + 1] = p[k] + Len(Record(x)) + RawSize(x) /\ p[Len(P) + 1] = Len(File)
    BY <1>3, <1>4, <1>7 DEF Layout, File
<1>9. x = P[Len(P)] => k = Len(P)
    <2>1. Distinct(P)  BY <1>1, PlanType
    <2>2. Len(P) \in 1 .. Len(P)
        <3> HIDE DEF P
        <3> QED BY <1>4
    <2> HIDE DEF P
    <2> QED BY <1>3, <1>4, <2>1, <2>2 DEF Distinct
<1>10. Payload(x) \in Seq(FileBytes)  BY <1>6, RecordType
<1>11. index[x].offset = p[k] + Len(Record(x)) /\ index[x].size = RawSize(x)  BY <1>5
<1> HIDE DEF P, p
<1>12. index[x].offset \in Nat /\ index[x].size \in Nat  BY <1>6, <1>11
<1>13. Stands(File, index[x].offset, Payload(x)) /\ Len(Payload(x)) = index[x].size
    BY <1>6, <1>8, <1>11
<1>14. x = P[Len(P)] => index[x].offset + index[x].size = Len(File)
    BY <1>6, <1>8, <1>9, <1>11
<1> QED BY <1>10, <1>12, <1>13, <1>14 DEF P

(* The number of tensors indexed, and of weights loaded, is what n says. *)
LEMMA IndexedCount ==
    ASSUME tied \in BOOLEAN, NEW n \in 0 .. Len(Plan(tied)), Indexed(n)
    PROVE  Cardinality(DOMAIN index) = n
<1>1. Plan(tied) \in Seq(Tensors) /\ Distinct(Plan(tied))  BY PlanType
<1>2. Cardinality(FirstOf(Plan(tied), n)) = n  BY <1>1, Counted
<1> QED BY <1>2 DEF Indexed

LEMMA FileInit == Init => FileInv
<1> SUFFICES ASSUME Init PROVE FileInv
    OBVIOUS
<1>1. tied \in BOOLEAN /\ length = 0 /\ pc = "start" /\ DOMAIN index = {} /\ DOMAIN loaded = {}
    BY DEF Init
<1>2. length \in 0 .. Len(File)
    <2>1. File \in Seq(FileBytes)  BY <1>1, Laid
    <2>2. Len(File) \in Nat  BY <2>1
    <2> QED BY <1>1, <2>2
<1>3. IndexInv
    <2>1. Len(Plan(tied)) \in Nat  BY <1>1, Laid
    <2>2. Indexed(0)  BY <1>1 DEF Indexed, FirstOf
    <2>3. 0 \in 0 .. Len(Plan(tied))  BY <2>1
    <2> QED BY <1>1, <2>2, <2>3 DEF IndexInv
<1>4. LoadInv  BY <1>1 DEF LoadInv
<1> QED BY <1>1, <1>2, <1>3, <1>4 DEF FileInv

(* A payload that has been written does not disappear. *)
LEMMA StaysWritten ==
    ASSUME FileInv, NEW x \in DOMAIN index, ~PayloadEnds(x),
           index' = index, length' \in Nat, length' >= length
    PROVE  ~PayloadEnds(x)'
<1>1. index[x].offset \in Nat /\ index[x].size \in Nat  BY Entry
<1>2. length \in Nat
    <2>1. File \in Seq(FileBytes)  BY Laid DEF FileInv
    <2>2. Len(File) \in Nat  BY <2>1
    <2> QED BY <2>2 DEF FileInv
<1>3. index[x].offset + index[x].size <= length  BY <1>1, <1>2 DEF PayloadEnds, Ends
<1>4. index'[x].offset + index'[x].size <= length'  BY <1>1, <1>2, <1>3
<1> QED BY <1>1, <1>4 DEF PayloadEnds, Ends

(* A step that leaves the index alone. *)
LEMMA IndexKept ==
    ASSUME IndexInv, tied' = tied, index' = index, cursor' = cursor,
           pc' = "start" => pc = "start", pc' = "index" => pc = "index",
           pc' \in {"weights", "tokenizer", "serving"} => pc \in {"weights", "tokenizer", "serving"}
    PROVE  IndexInv'
<1>1. PICK n \in 0 .. Len(Plan(tied)) :
         /\ Indexed(n)
         /\ pc = "start" => n = 0
         /\ pc = "index" => cursor = Start(tied)[n + 1]
         /\ pc \in {"weights", "tokenizer", "serving"} => n = Len(Plan(tied))
    BY DEF IndexInv
<1>2. Indexed(n)'  BY <1>1 DEF Indexed
<1>3. n \in 0 .. Len(Plan(tied'))  OBVIOUS
<1> QED BY <1>1, <1>2, <1>3 DEF IndexInv

(* Loading x, whatever it is loaded for. *)
LEMMA Loading ==
    ASSUME FileInv, NEW x, LoadTensor(x)
    PROVE  /\ DOMAIN loaded' = DOMAIN loaded \cup {x}
           /\ \A y \in DOMAIN loaded' :
                 y \in DOMAIN index' /\ loaded'[y] = index'[y] /\ ~PayloadEnds(y)'
<1>1. /\ x \in DOMAIN index /\ ~PayloadEnds(x)
      /\ loaded' = [y \in DOMAIN loaded \cup {x} |-> IF y = x THEN index[x] ELSE loaded[y]]
      /\ index' = index /\ length' = length
    BY DEF LoadTensor
<1>2. \A y \in DOMAIN loaded : y \in DOMAIN index /\ loaded[y] = index[y] /\ ~PayloadEnds(y)
    BY DEF FileInv, LoadInv
<1>3. ASSUME NEW y \in DOMAIN loaded'
      PROVE  y \in DOMAIN index' /\ loaded'[y] = index'[y] /\ ~PayloadEnds(y)'
    <2>1. y \in DOMAIN index /\ loaded'[y] = index[y] /\ ~PayloadEnds(y)  BY <1>1, <1>2
    <2>2. ~PayloadEnds(y)'  BY <1>1, <2>1 DEF PayloadEnds, Ends
    <2> QED BY <1>1, <2>1, <2>2
<1> QED BY <1>1, <1>3

LEMMA FileStep == FileInv /\ [Next]_vars => FileInv'
<1> SUFFICES ASSUME FileInv, [Next]_vars PROVE FileInv'
    OBVIOUS
<1>1. /\ tied \in BOOLEAN /\ length \in 0 .. Len(File) /\ IndexInv /\ LoadInv
      /\ pc \in {"start", "index", "weights", "tokenizer", "serving", "refused"}
    BY DEF FileInv
<1>2. Len(File) \in Nat /\ Len(Plan(tied)) \in Nat
    <2>1. File \in Seq(FileBytes)  BY <1>1, Laid
    <2>2. Len(File) \in Nat  BY <2>1
    <2> QED BY <1>1, <2>2, Laid
<1>3. CASE Write
    <2>1. /\ length' = length + 1 /\ length < Len(File) /\ tied' = tied
          /\ pc' = pc /\ cursor' = cursor /\ index' = index /\ loaded' = loaded
        BY <1>3 DEF Write, readerVars
    <2>2. File' = File  BY <2>1 DEF File
    <2>3. length' \in 0 .. Len(File) /\ length' \in Nat /\ length' >= length  BY <1>1, <1>2, <2>1
    <2>4. IndexInv'  BY <1>1, <2>1, IndexKept
    <2>5. LoadInv'
        <3>1. \A x \in DOMAIN loaded' :
                 x \in DOMAIN index' /\ loaded'[x] = index'[x] /\ ~PayloadEnds(x)'
            BY <1>1, <2>1, <2>3, StaysWritten DEF LoadInv
        <3> QED BY <1>1, <2>1, <3>1 DEF LoadInv
    <2> QED BY <1>1, <2>1, <2>2, <2>3, <2>4, <2>5 DEF FileInv
<1>4. ASSUME tied' = tied, length' = length, index' = index, loaded' = loaded, cursor' = cursor,
             pc' = pc \/ pc' = "refused"
      PROVE  FileInv'
    <2>1. IndexInv'  BY <1>1, <1>4, IndexKept
    <2>2. File' = File  BY <1>4 DEF File
    <2>3. \A x \in DOMAIN loaded' :
             x \in DOMAIN index' /\ loaded'[x] = index'[x] /\ ~PayloadEnds(x)'
        BY <1>1, <1>4 DEF LoadInv, PayloadEnds, Ends
    <2>4. LoadInv'  BY <1>1, <1>4, <2>3 DEF LoadInv
    <2> QED BY <1>1, <1>4, <2>1, <2>2, <2>4 DEF FileInv
<1>5. CASE UNCHANGED vars
    BY <1>4, <1>5 DEF vars
<1>6. CASE StopConverting
    BY <1>4, <1>6 DEF StopConverting, readerVars
<1>7. CASE Refuse
    <2>1. Throw  BY <1>7 DEF Refuse
    <2> QED BY <1>4, <2>1 DEF Throw
<1>8. CASE OpenModel
    <2>1. /\ pc = "start" /\ pc' = "index" /\ cursor' = Len(Bytes(HeaderOf, ReadHeader))
          /\ tied' = tied /\ length' = length /\ index' = index /\ loaded' = loaded
        BY <1>8 DEF OpenModel
    <2>2. File' = File  BY <2>1 DEF File
    <2>3. cursor' = Start(tied)[1]
        <3>1. Bytes(HeaderOf, ReadHeader) = Header  BY HeaderType
        <3>2. Layout(tied, Start(tied))  BY <1>1, Laid
        <3>3. Start(tied)[1] = Len(Header)  BY <3>2 DEF Layout
        <3> QED BY <2>1, <3>1, <3>3
    <2>4. IndexInv'
        <3>1. Indexed(0)  BY <1>1, <2>1 DEF IndexInv
        <3>2. Indexed(0)'  BY <2>1, <3>1 DEF Indexed
        <3>3. 0 \in 0 .. Len(Plan(tied')) /\ 0 + 1 = 1 /\ cursor' = Start(tied')[0 + 1]
            BY <1>2, <2>1, <2>3
        <3> QED BY <2>1, <3>2, <3>3 DEF IndexInv
    <2>5. LoadInv'  BY <1>1, <2>1 DEF LoadInv
    <2> QED BY <1>1, <2>1, <2>2, <2>4, <2>5 DEF FileInv
<1>9. CASE IndexDone
    <2>1. /\ pc = "index" /\ ~Indexing /\ pc' = "weights" /\ cursor' = cursor
          /\ tied' = tied /\ length' = length /\ index' = index /\ loaded' = loaded
        BY <1>9 DEF IndexDone
    <2>2. File' = File  BY <2>1 DEF File
    <2>3. IndexInv'
        <3>1. PICK n \in 0 .. Len(Plan(tied)) : Indexed(n)  BY <1>1 DEF IndexInv
        <3>2. Cardinality(DOMAIN index) = n  BY <1>1, <3>1, IndexedCount
        <3>3. ~(Len(Plan(tied)) > n)  BY <2>1, <3>2 DEF Indexing
        <3>4. n = Len(Plan(tied))  BY <1>2, <3>3
        <3>5. Indexed(n)' /\ n \in 0 .. Len(Plan(tied'))  BY <2>1, <3>1 DEF Indexed
        <3> QED BY <2>1, <3>4, <3>5 DEF IndexInv
    <2>4. LoadInv'
        <3>1. DOMAIN loaded' = {}  BY <1>1, <2>1 DEF LoadInv
        <3>2. Len(Wanted(tied)) >= 2 /\ Len(Wanted(tied)) \in Nat
            <4>1. Wanted(tied) \in Seq(Tensors) /\ Len(Wanted(tied)) >= 2  BY <1>1, PlanType
            <4> QED BY <4>1
        <3>3. 0 \in 0 .. Len(Wanted(tied')) - 1  BY <2>1, <3>2
        <3>4. FirstOf(Wanted(tied'), 0) = {}  BY DEF FirstOf
        <3> QED BY <2>1, <3>1, <3>3, <3>4 DEF LoadInv
    <2> QED BY <1>1, <2>1, <2>2, <2>3, <2>4 DEF FileInv
<1>10. CASE LoadWeight
    <2> DEFINE W == Wanted(tied)  k == Cardinality(DOMAIN loaded) + 1
    <2>1. /\ pc = "weights" /\ LoadTensor(W[k])
          /\ pc' = IF k = Len(W) THEN "tokenizer" ELSE pc
        BY <1>10 DEF LoadWeight
    <2>2. tied' = tied /\ length' = length /\ cursor' = cursor /\ index' = index
        BY <2>1 DEF LoadTensor
    <2>3. File' = File  BY <2>2 DEF File
    <2>4. W \in Seq(Tensors) /\ Distinct(W) /\ Len(W) \in Nat
        <3>1. W \in Seq(Tensors) /\ Distinct(W)  BY <1>1, PlanType
        <3> HIDE DEF W
        <3> QED BY <3>1
    <2>5. PICK n \in 0 .. Len(W) - 1 : DOMAIN loaded = FirstOf(W, n)  BY <1>1, <2>1 DEF LoadInv
    <2>6. Cardinality(DOMAIN loaded) = n /\ FirstOf(W, n + 1) = FirstOf(W, n) \cup {W[n + 1]}
        <3> HIDE DEF W
        <3>1. n \in 0 .. Len(W) /\ n < Len(W)  BY <2>4
        <3> QED BY <2>4, <2>5, <3>1, Counted
    <2>7. k = n + 1  BY <2>6
    <2> HIDE DEF k
    <2>8. DOMAIN loaded' = FirstOf(W, n + 1)
        BY <2>1, <2>5, <2>6, <2>7, Loading
    <2>9. \A y \in DOMAIN loaded' :
             y \in DOMAIN index' /\ loaded'[y] = index'[y] /\ ~PayloadEnds(y)'
        BY <2>1, Loading
    <2>10. IndexInv'  BY <1>1, <2>1, <2>2, IndexKept
    <2>11. pc' = "weights" => n + 1 \in 0 .. Len(W) - 1
        <3> HAVE pc' = "weights"
        <3>1. k # Len(W)  BY <2>1
        <3> HIDE DEF W
        <3> QED BY <2>4, <2>7, <3>1
    <2>12. LoadInv'
        <3>1. Wanted(tied') = W  BY <2>2
        <3>2. pc' = "weights" =>
                 \E m \in 0 .. Len(Wanted(tied')) - 1 : DOMAIN loaded' = FirstOf(Wanted(tied'), m)
            BY <2>8, <2>11, <3>1
        <3>3. pc' \in {"weights", "tokenizer"}  BY <2>1
        <3> QED BY <2>9, <3>2, <3>3 DEF LoadInv
    <2>13. pc' \in {"weights", "tokenizer"}  BY <2>1
    <2> QED BY <1>1, <2>2, <2>3, <2>10, <2>12, <2>13 DEF FileInv
<1>11. ASSUME NEW x \in Tokenizer, LoadTokenizer(x) PROVE FileInv'
    <2>1. /\ pc = "tokenizer" /\ LoadTensor(x)
          /\ pc' = IF Tokenizer \subseteq DOMAIN loaded' THEN "serving" ELSE pc
        BY <1>11 DEF LoadTokenizer
    <2>2. tied' = tied /\ length' = length /\ cursor' = cursor /\ index' = index
        BY <2>1 DEF LoadTensor
    <2>3. File' = File  BY <2>2 DEF File
    <2>4. IndexInv'  BY <1>1, <2>1, <2>2, IndexKept
    <2>5. \A y \in DOMAIN loaded' :
             y \in DOMAIN index' /\ loaded'[y] = index'[y] /\ ~PayloadEnds(y)'
        BY <2>1, Loading
    <2>6. pc' \in {"tokenizer", "serving"} /\ (pc' = "serving" => Tokenizer \subseteq DOMAIN loaded')
        BY <2>1
    <2>7. LoadInv'  BY <2>5, <2>6 DEF LoadInv
    <2> QED BY <1>1, <2>2, <2>3, <2>4, <2>6, <2>7 DEF FileInv
<1>12. ASSUME NEW x \in Range(Plan(tied)), IndexRecord(x) PROVE FileInv'
    <2> DEFINE P == Plan(tied)  p == Start(tied)
    <2>1. /\ pc = "index" /\ Len(P) > Cardinality(DOMAIN index)
          /\ ReadsAs(cursor, x, ReadRecord(x))
          /\ index' = [y \in DOMAIN index \cup {x} |->
                         IF y = x THEN [offset |-> DataOffset(x, cursor), size |-> RawSize(x)]
                         ELSE index[y]]
          /\ cursor' = cursor + Len(Bytes(x, ReadRecord(x))) + RawSize(x)
          /\ tied' = tied /\ length' = length /\ pc' = pc /\ loaded' = loaded
        BY <1>12 DEF IndexRecord, Indexing
    <2>2. File' = File  BY <2>1 DEF File
    <2>3. PICK n \in 0 .. Len(P) : Indexed(n) /\ cursor = p[n + 1]  BY <1>1, <2>1 DEF IndexInv
    <2>4. Cardinality(DOMAIN index) = n  BY <1>1, <2>3, IndexedCount
    <2>5. n \in 0 .. Len(P) - 1  BY <1>2, <2>1, <2>4
    <2>6. P \in Seq(Tensors) /\ Distinct(P) /\ x \in Elems(P)
        <3>1. Plan(tied) \in Seq(Tensors) /\ Distinct(Plan(tied)) /\ Range(Plan(tied)) = Elems(Plan(tied))
            BY <1>1, PlanType
        <3> QED BY <3>1
    <2>7. x \in Tensors
        <3> HIDE DEF P
        <3> QED BY <2>6 DEF Elems
    <2>8. x = P[n + 1] /\ n + 1 \in 1 .. Len(P)
        BY <1>1, <2>1, <2>3, <2>5, <2>7, NextRecord
    <2>9. Bytes(x, ReadRecord(x)) = Record(x)  BY <2>7, RecordType
    <2>10. /\ FirstOf(P, n + 1) = FirstOf(P, n) \cup {P[n + 1]}
           /\ P[n + 1] \notin FirstOf(P, n)
        <3> HIDE DEF P
        <3>1. n < Len(P)  BY <1>2, <2>5 DEF P
        <3> QED BY <2>3, <2>6, <3>1, Counted
    <2>11. DOMAIN index = FirstOf(P, n) /\ DOMAIN index' = FirstOf(P, n + 1)
        BY <2>1, <2>3, <2>8, <2>10 DEF Indexed
    <2>12. ASSUME NEW k \in 1 .. n + 1
           PROVE  index'[P[k]] = [offset |-> p[k] + Len(Record(P[k])), size |-> RawSize(P[k])]
        <3>1. CASE k = n + 1
            <4>1. index'[x] = [offset |-> DataOffset(x, cursor), size |-> RawSize(x)]  BY <2>1
            <4>2. DataOffset(x, cursor) = p[n + 1] + Len(Record(x))  BY <2>3, <2>9 DEF DataOffset
            <4> HIDE DEF P, p
            <4> QED BY <2>8, <3>1, <4>1, <4>2
        <3>2. CASE k \in 1 .. n
            <4>1. P[k] \in FirstOf(P, n)
                <5> HIDE DEF P
                <5> QED BY <3>2 DEF FirstOf
            <4>2. P[k] # x /\ P[k] \in DOMAIN index  BY <2>8, <2>10, <2>11, <4>1
            <4>3. index'[P[k]] = index[P[k]]  BY <2>1, <4>2
            <4>4. index[P[k]] = [offset |-> p[k] + Len(Record(P[k])), size |-> RawSize(P[k])]
                BY <2>3, <3>2 DEF Indexed
            <4> HIDE DEF P, p
            <4> QED BY <4>3, <4>4
        <3>3. k = n + 1 \/ k \in 1 .. n  BY <2>3
        <3> QED BY <3>1, <3>2, <3>3
    <2>13. cursor' = p[n + 2]
        <3>1. Layout(tied, p)  BY <1>1, Laid
        <3>2. p[(n + 1) + 1] = p[n + 1] + Len(Record(P[n + 1])) + RawSize(P[n + 1])
            BY <2>8, <3>1 DEF Layout
        <3>3. cursor' = p[n + 1] + Len(Record(x)) + RawSize(x)  BY <2>1, <2>3, <2>9
        <3>4. (n + 1) + 1 = n + 2  BY <2>3
        <3> HIDE DEF P, p
        <3> QED BY <2>8, <3>2, <3>3, <3>4
    <2>14. Indexed(n + 1)'
        <3>1. Plan(tied') = P /\ Start(tied') = p  BY <2>1
        <3> HIDE DEF P, p
        <3> QED BY <2>11, <2>12, <3>1 DEF Indexed
    <2>15. IndexInv'
        <3>1. Plan(tied') = P /\ Start(tied') = p  BY <2>1
        <3>2. n + 1 \in 0 .. Len(P) /\ (n + 1) + 1 = n + 2  BY <1>2, <2>5
        <3> HIDE DEF P, p
        <3> QED BY <2>1, <2>13, <2>14, <3>1, <3>2 DEF IndexInv
    <2>16. LoadInv'
        <3>1. DOMAIN loaded' = {}  BY <1>1, <2>1 DEF LoadInv
        <3> QED BY <2>1, <3>1 DEF LoadInv
    <2> QED BY <1>1, <2>1, <2>2, <2>15, <2>16 DEF FileInv
<1> QED BY <1>3, <1>5, <1>6, <1>7, <1>8, <1>9, <1>10, <1>11, <1>12 DEF Next

(***************************************************************************)
(* The invariant holds of every run of converter and loader.               *)
(***************************************************************************)
THEOREM FileCorrect == Spec => []FileInv
<1> QED BY FileInit, FileStep, PTL DEF Spec

(***************************************************************************)
(* Every tensor in memory is, byte for byte, the payload the converter     *)
(* wrote under its name, for every list of weights and wherever the        *)
(* conversion stopped.                                                     *)
(***************************************************************************)
THEOREM LoadsConverted == Spec => []LoadsWhatWasConverted
<1>1. ASSUME FileInv PROVE LoadsWhatWasConverted
    <2> SUFFICES ASSUME NEW x \in DOMAIN loaded
                 PROVE  SubSeq(File, loaded[x].offset + 1, loaded[x].offset + loaded[x].size)
                          = Payload(x)
        BY DEF LoadsWhatWasConverted
    <2>1. x \in DOMAIN index /\ loaded[x] = index[x]  BY <1>1 DEF FileInv, LoadInv
    <2> DEFINE at == index[x].offset  e == Payload(x)
    <2>2. /\ at \in Nat /\ e \in Seq(FileBytes) /\ Len(e) = index[x].size
          /\ Stands(File, at, e) /\ File \in Seq(FileBytes)
        BY <1>1, <2>1, Entry, Laid DEF FileInv
    <2>3. at + Len(e) <= Len(File)  BY <2>2 DEF Stands
    <2>4. SubSeq(File, at + 1, at + Len(e)) = e
        <3> HIDE DEF at, e
        <3> QED BY <2>2, <2>3, CutOut
    <2> QED BY <2>1, <2>2, <2>4
<1> QED BY <1>1, FileCorrect, PTL

(***************************************************************************)
(* qwen3 gets as far as generating only from a file that is complete: the  *)
(* last tensor of the plan is one it cannot do without.                    *)
(***************************************************************************)
THEOREM ServesComplete == Spec => []ServesOnlyComplete
<1>1. ASSUME FileInv PROVE ServesOnlyComplete
    <2> SUFFICES ASSUME pc = "serving" PROVE length = Len(File)
        BY DEF ServesOnlyComplete
    <2> DEFINE x == Plan(tied)[Len(Plan(tied))]
    <2>1. tied \in BOOLEAN /\ length \in 0 .. Len(File) /\ Tokenizer \subseteq DOMAIN loaded
        BY <1>1 DEF FileInv, LoadInv
    <2>2. x = Tensor("tokenizer.offsets", 0)  BY <2>1, PlanType
    <2>3. x \in DOMAIN loaded  BY <2>1, <2>2 DEF Tokenizer
    <2>4. x \in DOMAIN index /\ ~PayloadEnds(x)  BY <1>1, <2>3 DEF FileInv, LoadInv
    <2>5. index[x].offset + index[x].size = Len(File)  BY <1>1, <2>4, Entry
    <2>6. ~(Len(File) > length)  BY <2>4, <2>5 DEF PayloadEnds, Ends
    <2>7. Len(File) \in Nat
        <3>1. File \in Seq(FileBytes)  BY <2>1, Laid
        <3> QED BY <3>1
    <2> QED BY <2>1, <2>6, <2>7
<1> QED BY <1>1, FileCorrect, PTL

(***************************************************************************)
(* A complete file is never refused: in every state of the loader the read *)
(* it is about to make of a complete file succeeds.                        *)
(***************************************************************************)
THEOREM RefusesPartial == Spec => RefusesOnlyPartial
<1>1. ASSUME FileInv, [Next]_vars
      PROVE  [pc' = "refused" /\ pc # "refused" => length < Len(File)]_vars
    <2> SUFFICES ASSUME Next, pc' = "refused", pc # "refused", ~(length < Len(File)) PROVE FALSE
        BY <1>1
    <2>1. Refuse
        BY DEF Next, Write, StopConverting, OpenModel, IndexDone, LoadWeight, IndexRecord,
               LoadTokenizer, readerVars
    <2>2. tied \in BOOLEAN /\ length \in 0 .. Len(File) /\ File \in Seq(FileBytes)
        BY <1>1, Laid DEF FileInv
    <2>3. Len(File) \in Nat  BY <2>2
    <2>4. length = Len(File)  BY <2>2, <2>3
    <2>5. Layout(tied, Start(tied))  BY <2>2, Laid
    <2>6. Len(Plan(tied)) \in Nat  BY <2>2, Laid
    <2>7. ReadsAs(0, HeaderOf, ReadHeader)
        <3>1. Stands(File, 0, Header)  BY <2>5 DEF Layout, File
        <3>2. Bytes(HeaderOf, ReadHeader) = Header /\ Header \in Seq(FileBytes)  BY HeaderType
        <3>3. 0 + Len(Header) <= length  BY <2>4, <3>1 DEF Stands
        <3>4. Bytes(HeaderOf, ReadHeader) \in Seq(FileBytes)  BY <3>2
        <3>5. /\ 0 + Len(Bytes(HeaderOf, ReadHeader)) <= length
              /\ Stands(File, 0, Bytes(HeaderOf, ReadHeader))
            BY <3>1, <3>2, <3>3
        <3> QED BY <2>2, <3>4, <3>5, Reading
    <2>8. ASSUME Indexing
          PROVE  \E x \in Range(Plan(tied)) :
                    ReadsAs(cursor, x, ReadRecord(x)) /\ Valid(x) /\ x \notin DOMAIN index
        <3> DEFINE P == Plan(tied)  at == Start(tied)
        <3>1. pc = "index" /\ Len(P) > Cardinality(DOMAIN index)  BY <2>8 DEF Indexing
        <3>2. PICK n \in 0 .. Len(P) : Indexed(n) /\ cursor = at[n + 1]
            BY <1>1, <3>1 DEF FileInv, IndexInv
        <3>3. n \in 0 .. Len(P) - 1  BY <2>2, <2>6, <3>1, <3>2, IndexedCount
        <3> DEFINE x == P[n + 1]
        <3>4. n + 1 \in 1 .. Len(P)  BY <2>6, <3>3
        <3>5. Stands(File, at[n + 1], Record(x))  BY <2>5, <3>4 DEF Layout, File
        <3>6. at[n + 1] + Len(Record(x)) <= length  BY <2>4, <3>5 DEF Stands
        <3>7. ReadsAs(cursor, x, ReadRecord(x))  BY <2>2, <3>2, <3>3, <3>6, NextRecord
        <3>8. Valid(x)  BY <2>2, <3>4, Laid, SizeType
        <3>9. P \in Seq(Tensors) /\ Distinct(P) /\ Range(P) = Elems(P)  BY <2>2, PlanType
        <3>10. x \notin DOMAIN index
            <4>1. n < Len(P)  BY <2>6, <3>3
            <4>2. P[n + 1] \notin FirstOf(P, n)
                <5> HIDE DEF P
                <5> QED BY <3>2, <3>9, <4>1, Counted
            <4> QED BY <3>2, <4>2 DEF Indexed
        <3>11. x \in Range(P)
            <4> HIDE DEF P
            <4> QED BY <3>4, <3>9 DEF Elems
        <3> HIDE DEF x
        <3> QED BY <3>7, <3>8, <3>10, <3>11
    <2>9. ASSUME NEW x \in LoadedNext PROVE x \in DOMAIN index /\ ~PayloadEnds(x)
        <3> DEFINE P == Plan(tied)  W == Wanted(tied)
        <3>1. pc \in {"weights", "tokenizer"}  BY <2>9 DEF LoadedNext
        <3>2. Indexed(Len(P))  BY <1>1, <3>1 DEF FileInv, IndexInv
        <3>3. x \in Elems(W) \cup Tokenizer
            <4>1. CASE pc = "weights"
                <5>1. x = W[Cardinality(DOMAIN loaded) + 1]  BY <2>9, <4>1 DEF LoadedNext
                <5>2. PICK n \in 0 .. Len(W) - 1 : DOMAIN loaded = FirstOf(W, n)
                    BY <1>1, <4>1 DEF FileInv, LoadInv
                <5>3. W \in Seq(Tensors) /\ Distinct(W)  BY <2>2, PlanType
                <5> HIDE DEF W
                <5>4. n \in 0 .. Len(W) /\ n + 1 \in 1 .. Len(W)  BY <5>3
                <5>5. Cardinality(DOMAIN loaded) = n  BY <5>2, <5>3, <5>4, Counted
                <5> QED BY <5>1, <5>4, <5>5 DEF Elems
            <4>2. CASE pc = "tokenizer"  BY <2>9, <4>2 DEF LoadedNext
            <4> QED BY <3>1, <4>1, <4>2
        <3>4. x \in Elems(P)  BY <2>2, <3>3, PlanType
        <3>5. x \in DOMAIN index  BY <3>2, <3>4 DEF Indexed, FirstOf, Elems
        <3>6. /\ index[x].offset \in Nat /\ Len(Payload(x)) = index[x].size
              /\ index[x].size \in Nat /\ Stands(File, index[x].offset, Payload(x))
            BY <1>1, <3>5, Entry
        <3>7. index[x].offset + index[x].size <= length  BY <2>4, <3>6 DEF Stands
        <3>8. ~PayloadEnds(x)  BY <2>3, <2>4, <3>6, <3>7 DEF PayloadEnds, Ends
        <3> QED BY <3>5, <3>8
    <2> QED BY <2>1, <2>7, <2>8, <2>9 DEF Refuse
<1> QED BY <1>1, FileCorrect, PTL DEF Spec, RefusesOnlyPartial
=============================================================================
