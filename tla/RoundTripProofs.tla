--------------------------- MODULE RoundTripProofs ---------------------------
(***************************************************************************)
(* Theorems about RoundTrip, for every application, log and distance of    *)
(* the reader behind the writer: DataContainer takes all of what           *)
(* SimpleWriter writes.                                                    *)
(***************************************************************************)
EXTENDS RoundTrip, MessageProofs

LEMMA IntMaxIs == IntMax \in Nat /\ \A n \in Int32 : n \in Int /\ n <= IntMax
  <1>1. IntMax \in Nat
    BY DEF IntMax
  <1> QED BY <1>1 DEF Int32

(* Fields of the formats that may be given. *)
FieldsGiven(fields) ==
    /\ fields \in Seq([type : STRING, name : Seq(Byte), array : Int32])
    /\ HasBasicTypes(fields)
    /\ TimestampFirst(fields)

LEMMA FieldsAre ==
    ASSUME NEW fields, FieldsGiven(fields), NEW i \in 1 .. Len(fields)
    PROVE  Writable(fields[i]) /\ fields[i].array <= IntMax
  <1>1. fields[i] \in [type : STRING, name : Seq(Byte), array : Int32]
    BY ElementOfSeq DEF FieldsGiven
  <1>2. fields[i].name \in Seq(Byte) /\ fields[i].array \in Int32
    BY <1>1
  <1>3. fields[i].type \in BasicTypes
    BY DEF FieldsGiven, HasBasicTypes
  <1> QED BY <1>2, <1>3, IntMaxIs DEF Writable

LEMMA NameFree ==
    ASSUME NEW s \in Seq(Byte), NEW C, C \in {FormatCharacters, FieldCharacters}, IsName(s, C)
    PROVE  Free(s, {Colon, Semicolon}) /\ s # <<>>
  <1>1. {Colon, Semicolon} \intersect C = {}
    <2>1. {Colon, Semicolon} \intersect FormatCharacters = {}
      BY DEF Colon, Semicolon, FormatCharacters, Lower, Upper, Digit
    <2>2. {Colon, Semicolon} \intersect FieldCharacters = {}
      BY DEF Colon, Semicolon, FieldCharacters, Lower, Digit
    <2> QED BY <2>1, <2>2
  <1>2. \A i \in 1 .. Len(s) : s[i] \in C
    BY DEF IsName, Range
  <1> QED BY <1>1, <1>2 DEF Free, IsName

LEMMA FieldTextsGood ==
    ASSUME NEW name \in Seq(Byte), NEW fields, FieldsGiven(fields), HasNames(name, fields)
    PROVE  FormatTexts(FieldTexts(fields)) /\ Free(name, {Colon, Semicolon}) /\ name # <<>>
  <1>1. Free(name, {Colon, Semicolon}) /\ name # <<>>
    BY NameFree DEF HasNames
  <1>2. ASSUME NEW i \in 1 .. Len(fields)
        PROVE  /\ FieldText(fields[i]) \in Seq(Byte)
               /\ Free(FieldText(fields[i]), {Colon, Semicolon})
               /\ FieldOutcome(FieldText(fields[i])) = Parsed
    <2>1. Writable(fields[i]) /\ fields[i].array <= IntMax
      BY FieldsAre
    <2>2. Free(fields[i].name, {Colon, Semicolon})
      <3>1. fields[i].name \in Seq(Byte)
        BY <2>1 DEF Writable
      <3>2. IsName(fields[i].name, FieldCharacters)
        BY DEF HasNames
      <3> QED BY <3>1, <3>2, NameFree
    <2>3. FieldText(fields[i]) \in Seq(Byte)
      BY <2>1, FieldTextDivided DEF Divides
    <2> QED BY <2>1, <2>2, <2>3, FieldTextFree, FieldTextParsed
  <1> DEFINE texts == FieldTexts(fields)
  <1>3. Len(fields) \in Nat
    BY LenProperties DEF FieldsGiven
  <1>4. texts = [i \in 1 .. Len(fields) |-> FieldText(fields[i])]
    BY DEF FieldTexts
  <1>5. texts \in Seq(Seq(Byte)) /\ Len(texts) = Len(fields)
    <2>1. texts \in [1 .. Len(fields) -> Seq(Byte)]
      BY <1>2, <1>4
    <2> HIDE DEF texts
    <2> QED BY <1>3, <2>1
  <1>6. \A i \in 1 .. Len(texts) : texts[i] = FieldText(fields[i])
    BY <1>4, <1>5
  <1> HIDE DEF texts
  <1>7. FormatTexts(texts)
    BY <1>2, <1>5, <1>6 DEF FormatTexts
  <1> QED BY <1>1, <1>7 DEF texts

LEMMA FieldTextLong == ASSUME NEW field, Writable(field) PROVE FieldText(field) \in Seq(Byte) /\ Len(FieldText(field)) >= 2
  <1> DEFINE s == FieldText(field)
             w == WordOf(field)
             n == Len(field.name)
  <1>1. Divides(s, w, Space, field.name)
    BY FieldTextDivided
  <1>2. s \in Seq(Byte)
    BY <1>1 DEF Divides
  <1>3. Len(s) = Len(w) + 1 + n
    BY <1>1 DEF Divides
  <1>4. Len(w) >= 1 /\ Len(w) \in Nat
    BY TypeWordIs DEF Writable, WordOf
  <1>5. n \in Nat
    BY LenProperties DEF Writable
  <1> HIDE DEF s, w, n
  <1>6. Len(s) >= 2
    BY <1>3, <1>4, <1>5
  <1> QED BY <1>2, <1>6 DEF s

(* An info or parameter that fits. *)
LEMMA InfoGood ==
    ASSUME NEW type \in {INFO, PARAMETER}, NEW key \in Keys, NEW value \in Values,
           KeyFits(InfoField(key, value)),
           NEW m, m = KeyedMessage(type, InfoField(key, value), value.bytes), Fits(m)
    PROVE  Good(m) /\ MsgType(m) = type
  <1> DEFINE field == IF value.type = "std::string"
                      THEN [type |-> "char", name |-> key, array |-> Len(value.bytes)]
                      ELSE [type |-> value.type, name |-> key, array |-> -1]
             text == InfoField(key, value)
  <1>1. text = FieldText(field)
    BY DEF InfoField
  <1>2. key \in Seq(Byte) /\ value.bytes \in Seq(Byte) /\ value.type \in {"std::string", "int32_t", "float"}
    BY WriterAssumption
  <1>3. Len(value.bytes) \in Nat
    BY <1>2, LenProperties
  <1>4. Writable(field) /\ (field.array = Len(value.bytes) \/ field.array = -1)
    <2>1. CASE value.type = "std::string"
      BY <1>2, <1>3, <2>1, BasicTypesAre DEF Writable
    <2>2. CASE value.type # "std::string"
      BY <1>2, <2>2, BasicTypesAre DEF Writable
    <2> QED BY <2>1, <2>2
  <1> HIDE DEF field, text
  <1>5. text \in Seq(Byte)
    BY <1>1, <1>4, FieldTextLong
  <1>6. Len(text) \in 2 .. 255
    <2>1. Len(text) >= 2 /\ Len(text) <= 255
      BY <1>1, <1>4, FieldTextLong DEF KeyFits, text
    <2>2. Len(text) \in Nat
      BY <1>5, LenProperties
    <2> DEFINE k == Len(text)
    <2>3. k \in Nat /\ k >= 2 /\ k <= 255
      BY <2>1, <2>2
    <2> HIDE DEF k
    <2>4. k \in 2 .. 255
      BY <2>3
    <2> QED BY <2>4 DEF k
  <1>7. Len(value.bytes) <= IntMax
    <2> DEFINE p == <<Len(text)>> \o text \o value.bytes
               n == Len(value.bytes)
    <2>1. Len(text) \in Byte
      BY <1>6 DEF Byte
    <2>2. Parts(p, Len(text), text, value.bytes)
      BY <1>2, <1>5, <2>1, PartsAre
    <2>3. m = Serialized(type, p)
      BY DEF KeyedMessage, text
    <2> HIDE DEF p, n
    <2>4. p \in Seq(Byte)
      BY <2>2 DEF Parts
    <2>5. Len(p) = 1 + Len(text) + n
      BY <2>2 DEF Parts, n
    <2>6. Len(p) >= 1 /\ Len(p) > n /\ n \in Nat
      <3> DEFINE k == Len(text)
                 l == Len(p)
      <3>1. k \in 2 .. 255 /\ n \in Nat /\ l = 1 + k + n
        BY <1>3, <1>6, <2>5 DEF n
      <3> HIDE DEF k, l
      <3>2. l >= 1 /\ l > n
        BY <3>1
      <3> QED BY <3>1, <3>2 DEF l
    <2>7. Len(p) <= MaxPayload
      <3>1. type \in Byte \ {0}
        BY DEF Byte, INFO, PARAMETER
      <3> QED BY <2>3, <2>4, <2>6, <3>1, SerializedFits
    <2>8. MaxPayload \in Int /\ MaxPayload <= IntMax
      BY PayloadAssumption DEF IntMax
    <2>9. Len(p) \in Int
      BY <2>4, LenProperties
    <2>10. n <= IntMax
      BY <2>6, <2>7, <2>8, <2>9, IntMaxIs
    <2> QED BY <2>10 DEF n
  <1>8. field.array <= IntMax
    BY <1>3, <1>4, <1>7, IntMaxIs
  <1>9. FieldOutcome(text) = Parsed
    BY <1>1, <1>4, <1>8, FieldTextParsed
  <1>10. m = KeyedMessage(type, text, value.bytes)
    BY DEF text
  <1> QED BY <1>2, <1>5, <1>6, <1>9, <1>10, KeyedGood

-----------------------------------------------------------------------------
LEMMA TypeSizes == \A t \in BasicTypes : TypeSize[t] \in {1, 2, 4, 8}
  BY DEF BasicTypes, TypeSize

LEMMA AlignedIs ==
    ASSUME NEW n \in Nat, NEW size \in {1, 2, 4, 8}
    PROVE  /\ Aligned(n, size) \in Nat /\ Aligned(n, size) >= n
           /\ n % size = 0 => Aligned(n, size) = n
  <1>1. CASE size = 1
    BY <1>1 DEF Aligned
  <1>2. CASE size = 2
    BY <1>2 DEF Aligned
  <1>3. CASE size = 4
    BY <1>3 DEF Aligned
  <1>4. CASE size = 8
    BY <1>4 DEF Aligned
  <1> QED BY <1>1, <1>2, <1>3, <1>4

LEMMA BytesAre ==
    ASSUME NEW fields, FieldsGiven(fields), NEW i \in 1 .. Len(fields)
    PROVE  TypeSize[fields[i].type] \in {1, 2, 4, 8} /\ Bytes(fields[i]) \in Nat /\ Bytes(fields[i]) >= 1
  <1> DEFINE f == fields[i]
             k == IF f.array <= 0 THEN 1 ELSE f.array
             z == TypeSize[f.type]
  <1>1. f.type \in BasicTypes /\ f.array \in Int
    BY FieldsAre DEF Writable
  <1>2. z \in {1, 2, 4, 8}
    BY <1>1, TypeSizes
  <1>3. k \in Nat /\ k >= 1
    BY <1>1
  <1>4. Bytes(f) = z * k
    BY DEF Bytes
  <1> HIDE DEF f, k, z
  <1>5. z * k \in Nat /\ z * k >= 1
    <2>1. CASE z = 1
      BY <1>3, <2>1
    <2>2. CASE z = 2
      BY <1>3, <2>2
    <2>3. CASE z = 4
      BY <1>3, <2>3
    <2>4. CASE z = 8
      BY <1>3, <2>4
    <2> QED BY <1>2, <2>1, <2>2, <2>3, <2>4
  <1>6. z \in {1, 2, 4, 8} /\ Bytes(f) \in Nat /\ Bytes(f) >= 1
    BY <1>2, <1>4, <1>5
  <1> QED BY <1>6 DEF f, z

EndsStep(fields) == [i \in 1 .. Len(fields) |-> [x \in Nat |-> x + Bytes(fields[i])]]

StructStep(fields) ==
    [i \in 1 .. Len(fields) |->
       [x \in Nat |-> Aligned(x, TypeSize[fields[i].type]) + Bytes(fields[i])]]

LEMMA EndsAre ==
    ASSUME NEW fields, FieldsGiven(fields)
    PROVE  Iterates(Ends(fields), Len(fields), Nat, 0, EndsStep(fields))
  <1> DEFINE m == Len(fields)
             G(g) == [i \in 0 .. m |-> IF i = 0 THEN 0 ELSE g[i - 1] + Bytes(fields[i])]
             u == CHOOSE g : g = G(g)
             step == EndsStep(fields)
  <1>1. Ends(fields) = u
    BY DEF Ends
  <1>2. m \in Nat
    BY LenProperties DEF FieldsGiven
  <1>3. \A i \in 1 .. m : Bytes(fields[i]) \in Nat
    BY BytesAre
  <1>s. step = [i \in 1 .. m |-> [x \in Nat |-> x + Bytes(fields[i])]]
    BY DEF EndsStep
  <1> HIDE DEF m, step
  <1>4. ASSUME NEW i \in 1 .. m, NEW x \in Nat
        PROVE  step[i][x] = x + Bytes(fields[i]) /\ step[i][x] \in Nat
    <2>1. step[i][x] = x + Bytes(fields[i])
      BY <1>s
    <2> QED BY <1>3, <2>1
  <1>5. step \in [1 .. m -> [Nat -> Nat]]
    <2>1. ASSUME NEW i \in 1 .. m, NEW x \in Nat PROVE x + Bytes(fields[i]) \in Nat
      BY <1>3
    <2> QED BY <2>1, <1>s
  <1>6. PICK g : Iterates(g, m, Nat, 0, step)
    BY <1>2, <1>5, RecursionExists
  <1>7. g = G(g)
    <2>1. \A i \in 1 .. m : g[i - 1] \in Nat /\ g[i] = step[i][g[i - 1]]
      BY <1>2, <1>6 DEF Iterates
    <2>2. \A i \in 1 .. m : g[i] = g[i - 1] + Bytes(fields[i])
      BY <1>4, <2>1
    <2>3. g[0] = 0 /\ g = [i \in 0 .. m |-> g[i]]
      BY <1>6 DEF Iterates
    <2>4. \A i \in 0 .. m : i = 0 \/ i \in 1 .. m
      BY <1>2
    <2> QED BY <2>2, <2>3, <2>4
  <1>8. u = G(u)
    <2> HIDE DEF G
    <2> QED BY <1>7, Zenon
  <1> HIDE DEF u
  <1>9. u[0] = 0 /\ \A i \in 1 .. m : u[i] = u[i - 1] + Bytes(fields[i])
    <2>1. ASSUME NEW h
          PROVE  G(h)[0] = 0 /\ \A i \in 1 .. m : G(h)[i] = h[i - 1] + Bytes(fields[i])
      BY <1>2
    <2> HIDE DEF G
    <2> QED BY <1>8, <2>1
  <1>10. IsOver(u, m)
    BY <1>8 DEF IsOver
  <1> HIDE DEF G
  <1>11. \A i \in 1 .. m : u[i - 1] \in Nat => u[i] = step[i][u[i - 1]]
    BY <1>4, <1>9
  <1> QED BY <1>1, <1>2, <1>5, <1>9, <1>10, <1>11, RecursionTyped DEF m, step

LEMMA StructEndsAre ==
    ASSUME NEW fields, FieldsGiven(fields)
    PROVE  Iterates(StructEnds(fields), Len(fields), Nat, 0, StructStep(fields))
  <1> DEFINE m == Len(fields)
             z(i) == TypeSize[fields[i].type]
             G(g) == [i \in 0 .. m |-> IF i = 0 THEN 0 ELSE Aligned(g[i - 1], z(i)) + Bytes(fields[i])]
             u == CHOOSE g : g = G(g)
             step == StructStep(fields)
  <1>1. StructEnds(fields) = u
    BY DEF StructEnds
  <1>2. m \in Nat
    BY LenProperties DEF FieldsGiven
  <1>3. \A i \in 1 .. m : Bytes(fields[i]) \in Nat /\ z(i) \in {1, 2, 4, 8}
    BY BytesAre
  <1>s. step = [i \in 1 .. m |-> [x \in Nat |-> Aligned(x, z(i)) + Bytes(fields[i])]]
    BY DEF StructStep
  <1> HIDE DEF m, step, z
  <1>t. ASSUME NEW i \in 1 .. m, NEW x \in Nat PROVE Aligned(x, z(i)) + Bytes(fields[i]) \in Nat
    <2>1. z(i) \in {1, 2, 4, 8} /\ Bytes(fields[i]) \in Nat
      BY <1>3
    <2>2. Aligned(x, z(i)) \in Nat
      BY <2>1, AlignedIs
    <2> QED BY <2>1, <2>2
  <1>4. ASSUME NEW i \in 1 .. m, NEW x \in Nat
        PROVE  step[i][x] = Aligned(x, z(i)) + Bytes(fields[i])
    BY <1>s
  <1>5. step \in [1 .. m -> [Nat -> Nat]]
    BY <1>t, <1>s
  <1>6. PICK g : Iterates(g, m, Nat, 0, step)
    BY <1>2, <1>5, RecursionExists
  <1>7. g = G(g)
    <2>1. \A i \in 1 .. m : g[i - 1] \in Nat /\ g[i] = step[i][g[i - 1]]
      BY <1>2, <1>6 DEF Iterates
    <2>2. \A i \in 1 .. m : g[i] = Aligned(g[i - 1], z(i)) + Bytes(fields[i])
      BY <1>4, <2>1
    <2>3. g[0] = 0 /\ g = [i \in 0 .. m |-> g[i]]
      BY <1>6 DEF Iterates
    <2>4. \A i \in 0 .. m : i = 0 \/ i \in 1 .. m
      BY <1>2
    <2> QED BY <2>2, <2>3, <2>4
  <1>8. u = G(u)
    <2> HIDE DEF G
    <2> QED BY <1>7, Zenon
  <1> HIDE DEF u
  <1>9. u[0] = 0 /\ \A i \in 1 .. m : u[i] = Aligned(u[i - 1], z(i)) + Bytes(fields[i])
    <2>1. ASSUME NEW h
          PROVE  G(h)[0] = 0 /\ \A i \in 1 .. m : G(h)[i] = Aligned(h[i - 1], z(i)) + Bytes(fields[i])
      BY <1>2
    <2> HIDE DEF G
    <2> QED BY <1>8, <2>1
  <1>10. IsOver(u, m)
    BY <1>8 DEF IsOver
  <1> HIDE DEF G
  <1>11. \A i \in 1 .. m : u[i - 1] \in Nat => u[i] = step[i][u[i - 1]]
    BY <1>4, <1>9
  <1> QED BY <1>1, <1>2, <1>5, <1>9, <1>10, <1>11, RecursionTyped DEF m, step

LEMMA MessageSizeIs ==
    ASSUME NEW fields, FieldsGiven(fields)
    PROVE  MessageSize(fields) \in Nat /\ MessageSize(fields) >= 1
  <1> DEFINE m == Len(fields)
             u == Ends(fields)
  <1>1. m \in Nat /\ m # 0
    BY LenProperties, EmptySeq DEF FieldsGiven, TimestampFirst
  <1>2. Iterates(u, m, Nat, 0, EndsStep(fields))
    BY EndsAre
  <1>3. EndsStep(fields) = [i \in 1 .. m |-> [x \in Nat |-> x + Bytes(fields[i])]]
    BY DEF EndsStep
  <1>4. m \in 1 .. m => Bytes(fields[m]) \in Nat /\ Bytes(fields[m]) >= 1
    BY BytesAre
  <1>5. MessageSize(fields) = u[m]
    BY DEF MessageSize
  <1> HIDE DEF m, u
  <1>6. m \in 1 .. m /\ m - 1 \in 0 .. m
    BY <1>1
  <1>7. u[m - 1] \in Nat /\ u[m] = EndsStep(fields)[m][u[m - 1]]
    BY <1>2, <1>6 DEF Iterates
  <1>8. u[m] = u[m - 1] + Bytes(fields[m])
    BY <1>3, <1>6, <1>7
  <1> QED BY <1>4, <1>5, <1>6, <1>7, <1>8

LEMMA StructSizeIs ==
    ASSUME NEW fields, FieldsGiven(fields)
    PROVE  StructSize(fields) \in Nat
  <1> DEFINE m == Len(fields)
             u == StructEnds(fields)
             S == {TypeSize[fields[i].type] : i \in 1 .. m}
  <1>1. m \in Nat /\ m # 0
    BY LenProperties, EmptySeq DEF FieldsGiven, TimestampFirst
  <1>2. u[m] \in Nat
    <2>1. Iterates(u, m, Nat, 0, StructStep(fields))
      BY StructEndsAre
    <2> HIDE DEF u, m
    <2>2. m \in 0 .. m
      BY <1>1
    <2> QED BY <2>1, <2>2 DEF Iterates
  <1>3. S \subseteq {1, 2, 4, 8}
    BY BytesAre
  <1>4. S # {}
    <2>1. 1 \in 1 .. m
      BY <1>1
    <2> QED BY <2>1
  <1>5. StructSize(fields) = Aligned(u[m], Max(S))
    BY DEF StructSize
  <1> HIDE DEF S, u, m
  <1>6. Max(S) \in S
    <2>1. \E x \in S : \A y \in S : x >= y
      <3>1. CASE 8 \in S
        BY <1>3, <3>1
      <3>2. CASE 8 \notin S /\ 4 \in S
        BY <1>3, <3>2
      <3>3. CASE 8 \notin S /\ 4 \notin S /\ 2 \in S
        BY <1>3, <3>3
      <3>4. CASE 8 \notin S /\ 4 \notin S /\ 2 \notin S
        <4>1. \A y \in S : y = 1
          BY <1>3, <3>4
        <4>2. 1 \in S
          BY <1>4, <4>1
        <4> QED BY <4>1, <4>2
      <3> QED BY <3>1, <3>2, <3>3, <3>4
    <2> QED BY <2>1, Zenon DEF Max
  <1>7. Aligned(u[m], Max(S)) \in Nat
    <2>1. Max(S) \in {1, 2, 4, 8}
      BY <1>3, <1>6
    <2> QED BY <1>2, <2>1, AlignedIs
  <1> QED BY <1>5, <1>7

LEMMA FillingIs ==
    ASSUME NEW content \in Nat, NEW owners, owners \subseteq Nat
    PROVE  Filling(content, owners) \in Byte
  <1>1. CASE owners = {}
    BY <1>1 DEF Filling, Byte
  <1>2. CASE owners # {}
    <2>1. \E x \in owners : \A y \in owners : x <= y
      BY <1>2, LeastNumber
    <2>2. Min(owners) \in owners
      BY <2>1, Zenon DEF Min
    <2>3. content + Min(owners) \in Nat
      <3> DEFINE k == Min(owners)
      <3>1. k \in Nat
        BY <2>2
      <3> HIDE DEF k
      <3>2. content + k \in Nat
        BY <3>1
      <3> QED BY <3>2 DEF k
    <2>4. (content + Min(owners)) % 256 \in Byte
      <3> DEFINE k == content + Min(owners)
      <3> HIDE DEF k
      <3>1. k % 256 \in Byte
        BY <2>3 DEF k, Byte
      <3> QED BY <3>1 DEF k
    <2> QED BY <1>2, <2>4 DEF Filling
  <1> QED BY <1>1, <1>2

LEMMA StructIs ==
    ASSUME NEW fields, FieldsGiven(fields), NEW content \in Nat
    PROVE  StructOf(fields, content) \in Seq(Byte)
  <1> DEFINE n == StructSize(fields)
             owners(b) == {i \in 1 .. Len(fields) :
                             StructEnds(fields)[i] - Bytes(fields[i]) < b /\ b <= StructEnds(fields)[i]}
             s == StructOf(fields, content)
  <1>1. n \in Nat
    BY StructSizeIs
  <1>2. s = [b \in 1 .. n |-> Filling(content, owners(b))]
    BY DEF StructOf
  <1>3. \A b : owners(b) \subseteq Nat
    <2>1. Len(fields) \in Nat
      BY LenProperties DEF FieldsGiven
    <2> QED BY <2>1
  <1> HIDE DEF n, owners, s
  <1>4. \A b \in 1 .. n : Filling(content, owners(b)) \in Byte
    BY <1>3, FillingIs
  <1>5. s \in [1 .. n -> Byte]
    BY <1>2, <1>4
  <1>6. s \in Seq(Byte)
    BY <1>1, <1>5
  <1> QED BY <1>6 DEF s

-----------------------------------------------------------------------------
(* The fold that makes the calls, as a function on sets of places.          *)
Telling(g, h, cbs, m) ==
    [s \in SUBSET DOMAIN cbs |-> IF s = {} THEN h ELSE After(g[s \ {Max(s)}], cbs[Max(s)], m)]

LEMMA ToldIs ==
    ASSUME NEW h, NEW cbs, NEW m
    PROVE  Told(h, cbs, m) = (CHOOSE g : g = Telling(g, h, cbs, m))[DOMAIN cbs]
  BY DEF Told, FoldLeft, MapThenFoldSet, Telling

LEMMA MaxIs ==
    ASSUME NEW S \in SUBSET Int, NEW p \in S, \A q \in S : p >= q
    PROVE  Max(S) = p
  <1>1. \A x \in S : (\A j \in S : x >= j) => x = p
    OBVIOUS
  <1>2. Max(S) \in S /\ \A j \in S : Max(S) >= j
    BY Zenon DEF Max
  <1> QED BY <1>1, <1>2

LEMMA ToldFixed ==
    ASSUME NEW h, NEW cbs, NEW m, NEW g, g = Telling(g, h, cbs, m)
    PROVE  \E u : u = Telling(u, h, cbs, m) /\ Told(h, cbs, m) = u[DOMAIN cbs]
  <1> DEFINE u == CHOOSE f : f = Telling(f, h, cbs, m)
  <1>1. u = Telling(u, h, cbs, m)
    BY Zenon
  <1>2. Told(h, cbs, m) = u[DOMAIN cbs]
    BY ToldIs
  <1> QED BY <1>1, <1>2

LEMMA ToldNone == ASSUME NEW h, NEW m PROVE Told(h, <<>>, m) = h
  <1> DEFINE cbs == <<>>
             g == [s \in SUBSET {} |-> h]
  <1>1. DOMAIN cbs = {}
    OBVIOUS
  <1> HIDE DEF cbs
  <1>2. \A f : Telling(f, h, cbs, m) = g
    BY <1>1 DEF Telling
  <1> HIDE DEF g
  <1>3. PICK u : u = Telling(u, h, cbs, m) /\ Told(h, cbs, m) = u[DOMAIN cbs]
    BY <1>2, ToldFixed
  <1>4. u[{}] = h
    BY <1>2, <1>3 DEF g
  <1>5. Told(h, cbs, m) = h
    BY <1>1, <1>3, <1>4
  <1> QED BY <1>5 DEF cbs

LEMMA ToldOne == ASSUME NEW h, NEW a, NEW m PROVE Told(h, <<a>>, m) = After(h, a, m)
  <1> DEFINE cbs == <<a>>
             g == [s \in SUBSET {1} |-> IF s = {} THEN h ELSE After(h, a, m)]
  <1>1. DOMAIN cbs = {1} /\ cbs[1] = a
    OBVIOUS
  <1>2. Max({1}) = 1 /\ {1} \ {1} = {}
    BY MaxIs
  <1>3. SUBSET {1} = {{}, {1}}
    OBVIOUS
  <1> HIDE DEF cbs
  <1>4. ASSUME NEW f, f[{}] = h PROVE Telling(f, h, cbs, m) = g
    <2>1. ASSUME NEW s \in SUBSET {1}
          PROVE  (IF s = {} THEN h ELSE After(f[s \ {Max(s)}], cbs[Max(s)], m)) =
                 IF s = {} THEN h ELSE After(h, a, m)
      <3>1. s = {} \/ s = {1}
        BY <1>3
      <3> QED BY <1>1, <1>2, <1>4, <3>1
    <2> QED BY <1>1, <2>1 DEF Telling
  <1>5. g[{}] = h /\ g[{1}] = After(h, a, m)
    OBVIOUS
  <1> HIDE DEF g
  <1>6. PICK u : u = Telling(u, h, cbs, m) /\ Told(h, cbs, m) = u[DOMAIN cbs]
    <2>1. g = Telling(g, h, cbs, m)
      BY <1>4, <1>5
    <2> QED BY <2>1, ToldFixed
  <1>7. u[{}] = h
    <2>1. \A f : Telling(f, h, cbs, m)[{}] = h
      BY DEF Telling
    <2> QED BY <1>6, <2>1
  <1>8. u = g
    BY <1>4, <1>6, <1>7
  <1>9. Told(h, cbs, m) = After(h, a, m)
    BY <1>1, <1>5, <1>6, <1>8
  <1> QED BY <1>9 DEF cbs

LEMMA ToldTwo ==
    ASSUME NEW h, NEW a, NEW b, NEW m
    PROVE  Told(h, <<a, b>>, m) = After(After(h, a, m), b, m)
  <1> DEFINE cbs == <<a, b>>
             k == After(h, a, m)
             l == After(k, b, m)
             o == After(h, b, m)
             g == [s \in SUBSET {1, 2} |-> IF s = {} THEN h ELSE IF s = {1} THEN k
                                           ELSE IF s = {2} THEN o ELSE l]
  <1>1. DOMAIN cbs = {1, 2} /\ cbs[1] = a /\ cbs[2] = b
    OBVIOUS
  <1>2. /\ Max({1}) = 1 /\ Max({2}) = 2 /\ Max({1, 2}) = 2
        /\ {1} \ {1} = {} /\ {2} \ {2} = {} /\ {1, 2} \ {2} = {1}
    BY MaxIs
  <1>3. \A s \in SUBSET {1, 2} : s = {} \/ s = {1} \/ s = {2} \/ s = {1, 2}
    OBVIOUS
  <1>4. {1} # {2} /\ {1} # {1, 2} /\ {2} # {1, 2} /\ {1} # {} /\ {2} # {} /\ {1, 2} # {}
    OBVIOUS
  <1> HIDE DEF cbs
  <1>5. k = After(h, a, m) /\ l = After(k, b, m) /\ o = After(h, b, m)
    OBVIOUS
  <1> HIDE DEF k, l, o
  <1>6. g[{}] = h /\ g[{1}] = k /\ g[{2}] = o /\ g[{1, 2}] = l /\ g = [s \in SUBSET {1, 2} |-> g[s]]
    BY <1>4
  <1> HIDE DEF g
  <1>7. ASSUME NEW f, f[{}] = h, f[{1}] = k PROVE Telling(f, h, cbs, m) = g
    <2>1. ASSUME NEW s \in SUBSET {1, 2}
          PROVE  (IF s = {} THEN h ELSE After(f[s \ {Max(s)}], cbs[Max(s)], m)) = g[s]
      <3>1. CASE s = {}
        BY <1>6, <3>1
      <3>2. CASE s = {1}
        BY <1>1, <1>2, <1>4, <1>5, <1>6, <1>7, <3>2
      <3>3. CASE s = {2}
        BY <1>1, <1>2, <1>4, <1>5, <1>6, <1>7, <3>3
      <3>4. CASE s = {1, 2}
        BY <1>1, <1>2, <1>4, <1>5, <1>6, <1>7, <3>4
      <3> QED BY <1>3, <3>1, <3>2, <3>3, <3>4
    <2> QED BY <1>1, <1>6, <2>1 DEF Telling
  <1>8. PICK u : u = Telling(u, h, cbs, m) /\ Told(h, cbs, m) = u[DOMAIN cbs]
    <2>1. g = Telling(g, h, cbs, m)
      BY <1>6, <1>7
    <2> QED BY <2>1, ToldFixed
  <1>9. u[{}] = h
    <2>1. \A f : Telling(f, h, cbs, m)[{}] = h
      BY DEF Telling
    <2> QED BY <1>8, <2>1
  <1>10. u[{1}] = k
    <2>1. \A f : f[{}] = h => Telling(f, h, cbs, m)[{1}] = k
      BY <1>1, <1>2, <1>4, <1>5 DEF Telling
    <2> QED BY <1>8, <1>9, <2>1
  <1>11. u = g
    BY <1>7, <1>8, <1>9, <1>10
  <1>12. Told(h, cbs, m) = l
    BY <1>1, <1>6, <1>8, <1>11
  <1> QED BY <1>5, <1>12 DEF cbs, k

-----------------------------------------------------------------------------
(* The message types SimpleWriter writes.                                   *)
Written == {INFO, PARAMETER, FORMAT, ADD_LOGGED_MSG, LOGGING, DATA}

(* The places of the messages of a type among the first n of the log l.     *)
OfType(l, n, type) == {i \in 1 .. n : MsgType(l[i]) = type}

NamesIn(l, n) == {FormatName(l[i]) : i \in OfType(l, n, FORMAT)}
IdsIn(l, n)   == {AddedId(l[i]) : i \in OfType(l, n, ADD_LOGGED_MSG)}

(* Every message of the log l is one the reader parses. A format or an id   *)
(* is written once, and an id before its data. D are the names registered,  *)
(* k is how many ids were given.                                            *)
LogOk(l, D, k) ==
    /\ l \in Seq(Seq(Byte))
    /\ \A i \in 1 .. Len(l) : Good(l[i]) /\ MsgType(l[i]) \in Written
    /\ NamesIn(l, Len(l)) \subseteq D
    /\ IdsIn(l, Len(l)) \subseteq 0 .. k - 1
    /\ \A i \in OfType(l, Len(l), FORMAT) : FormatName(l[i]) \notin NamesIn(l, i - 1)
    /\ \A i \in OfType(l, Len(l), ADD_LOGGED_MSG) : AddedId(l[i]) \notin IdsIn(l, i - 1)
    /\ \A i \in OfType(l, Len(l), DATA) : MessageId(l[i]) \in IdsIn(l, i - 1)

(* An id the application knows of is one in the log.                        *)
DoneOk(d, l, D) ==
    /\ d \in Seq(Range(d))
    /\ Len(d) = Len(l)
    /\ \A j \in 1 .. Len(d) :
         d[j].call = "writeAddLoggedMessage" => d[j].name \in D /\ d[j].id \in IdsIn(l, Len(l))

(* m may come behind the log l.                                             *)
May(m, l, D, D2, k, k2) ==
    /\ Good(m)
    /\ MsgType(m) \in Written
    /\ MsgType(m) = FORMAT => FormatName(m) \in D2 \ D
    /\ MsgType(m) = ADD_LOGGED_MSG => AddedId(m) \in k .. k2 - 1
    /\ MsgType(m) = DATA => MessageId(m) \in IdsIn(l, Len(l))

(* The first n messages are those of the longer log.                        *)
LEMMA InGrown ==
    ASSUME NEW l \in Seq(Seq(Byte)), NEW m \in Seq(Byte), NEW n \in 0 .. Len(l)
    PROVE  /\ \A type : OfType(Append(l, m), n, type) = OfType(l, n, type)
           /\ NamesIn(Append(l, m), n) = NamesIn(l, n)
           /\ IdsIn(Append(l, m), n) = IdsIn(l, n)
  <1> DEFINE g == Append(l, m)
  <1>1. \A i \in 1 .. n : g[i] = l[i]
    <2>1. \A i \in 1 .. Len(l) : g[i] = l[i]
      BY AppendProperties
    <2>2. \A i \in 1 .. n : i \in 1 .. Len(l)
      <3>1. Len(l) \in Nat
        BY LenProperties
      <3> QED BY <3>1
    <2> QED BY <2>1, <2>2
  <1> HIDE DEF g
  <1>2. \A type : OfType(g, n, type) = OfType(l, n, type)
    BY <1>1 DEF OfType
  <1>3. \A type : OfType(g, n, type) \subseteq 1 .. n
    BY DEF OfType
  <1>4. NamesIn(g, n) = NamesIn(l, n)
    <2> DEFINE a == OfType(l, n, FORMAT)
    <2>1. NamesIn(g, n) = {FormatName(g[i]) : i \in a} /\ NamesIn(l, n) = {FormatName(l[i]) : i \in a}
      BY <1>2 DEF NamesIn
    <2>2. a \subseteq 1 .. n
      BY DEF OfType
    <2> HIDE DEF a
    <2>3. \A i \in a : FormatName(g[i]) = FormatName(l[i])
      BY <1>1, <2>2
    <2> QED BY <2>1, <2>3
  <1>5. IdsIn(g, n) = IdsIn(l, n)
    <2> DEFINE a == OfType(l, n, ADD_LOGGED_MSG)
    <2>1. IdsIn(g, n) = {AddedId(g[i]) : i \in a} /\ IdsIn(l, n) = {AddedId(l[i]) : i \in a}
      BY <1>2 DEF IdsIn
    <2>2. a \subseteq 1 .. n
      BY DEF OfType
    <2> HIDE DEF a
    <2>3. \A i \in a : AddedId(g[i]) = AddedId(l[i])
      BY <1>1, <2>2
    <2> QED BY <2>1, <2>3
  <1> QED BY <1>2, <1>4, <1>5 DEF g

(* With one message more, there is that message more.                       *)
(* What m, the message behind the first n of l, adds to them.              *)
More(l, n, m) ==
    /\ \A type : OfType(l, n + 1, type) = OfType(l, n, type) \union
                     IF MsgType(m) = type THEN {n + 1} ELSE {}
    /\ NamesIn(l, n + 1) = NamesIn(l, n) \union IF MsgType(m) = FORMAT THEN {FormatName(m)} ELSE {}
    /\ IdsIn(l, n + 1) = IdsIn(l, n) \union IF MsgType(m) = ADD_LOGGED_MSG THEN {AddedId(m)} ELSE {}

LEMMA InMore ==
    ASSUME NEW l, NEW n \in Nat
    PROVE  More(l, n, l[n + 1])
  <1>1. \A type : OfType(l, n + 1, type) = OfType(l, n, type) \union
                    IF MsgType(l[n + 1]) = type THEN {n + 1} ELSE {}
    <2>1. 1 .. n + 1 = (1 .. n) \union {n + 1}
      OBVIOUS
    <2> QED BY <2>1 DEF OfType
  <1>2. NamesIn(l, n + 1) = NamesIn(l, n) \union
                IF MsgType(l[n + 1]) = FORMAT THEN {FormatName(l[n + 1])} ELSE {}
    <2> DEFINE a == OfType(l, n + 1, FORMAT)
               b == OfType(l, n, FORMAT)
    <2>1. a = b \union IF MsgType(l[n + 1]) = FORMAT THEN {n + 1} ELSE {}
      BY <1>1
    <2>2. NamesIn(l, n + 1) = {FormatName(l[i]) : i \in a} /\ NamesIn(l, n) = {FormatName(l[i]) : i \in b}
      BY DEF NamesIn
    <2> HIDE DEF a, b
    <2> QED BY <2>1, <2>2
  <1>3. IdsIn(l, n + 1) = IdsIn(l, n) \union
                IF MsgType(l[n + 1]) = ADD_LOGGED_MSG THEN {AddedId(l[n + 1])} ELSE {}
    <2> DEFINE a == OfType(l, n + 1, ADD_LOGGED_MSG)
               b == OfType(l, n, ADD_LOGGED_MSG)
    <2>1. a = b \union IF MsgType(l[n + 1]) = ADD_LOGGED_MSG THEN {n + 1} ELSE {}
      BY <1>1
    <2>2. IdsIn(l, n + 1) = {AddedId(l[i]) : i \in a} /\ IdsIn(l, n) = {AddedId(l[i]) : i \in b}
      BY DEF IdsIn
    <2> HIDE DEF a, b
    <2> QED BY <2>1, <2>2
  <1> QED BY <1>1, <1>2, <1>3 DEF More

LEMMA TypesDiffer ==
    /\ FORMAT # ADD_LOGGED_MSG /\ FORMAT # DATA /\ DATA # ADD_LOGGED_MSG
    /\ INFO \notin {FORMAT, ADD_LOGGED_MSG, DATA} /\ PARAMETER \notin {FORMAT, ADD_LOGGED_MSG, DATA}
    /\ LOGGING \notin {FORMAT, ADD_LOGGED_MSG, DATA}
  BY DEF FORMAT, ADD_LOGGED_MSG, DATA, INFO, PARAMETER, LOGGING

LEMMA LogGrows ==
    ASSUME NEW l, NEW D, NEW D2, D \subseteq D2, NEW k \in Nat, NEW k2 \in Nat, k <= k2,
           LogOk(l, D, k), NEW m, May(m, l, D, D2, k, k2)
    PROVE  LogOk(Append(l, m), D2, k2)
  <1> DEFINE g == Append(l, m)
             n == Len(l)
  <1>1. l \in Seq(Seq(Byte)) /\ m \in Seq(Byte)
    BY DEF LogOk, May, Good
  <1>2. n \in Nat /\ g \in Seq(Seq(Byte)) /\ Len(g) = n + 1 /\ g[n + 1] = m /\ \A i \in 1 .. n : g[i] = l[i]
    BY <1>1, AppendProperties, LenProperties
  <1>3. ASSUME NEW j \in 0 .. n
        PROVE  /\ \A type : OfType(g, j, type) = OfType(l, j, type)
               /\ NamesIn(g, j) = NamesIn(l, j) /\ IdsIn(g, j) = IdsIn(l, j)
    BY <1>1, InGrown
  <1> HIDE DEF g, n
  <1>4. n \in 0 .. n /\ \A i \in 1 .. n : i - 1 \in 0 .. n
    BY <1>2
  <1>5. /\ \A type : OfType(g, n + 1, type) = OfType(l, n, type) \union
                       IF MsgType(m) = type THEN {n + 1} ELSE {}
        /\ NamesIn(g, n + 1) = NamesIn(l, n) \union IF MsgType(m) = FORMAT THEN {FormatName(m)} ELSE {}
        /\ IdsIn(g, n + 1) = IdsIn(l, n) \union IF MsgType(m) = ADD_LOGGED_MSG THEN {AddedId(m)} ELSE {}
    <2>1. More(g, n, m)
      BY <1>2, InMore
    <2> QED BY <1>3, <1>4, <2>1 DEF More
  <1>6. /\ \A i \in 1 .. n : Good(l[i]) /\ MsgType(l[i]) \in Written
        /\ NamesIn(l, n) \subseteq D /\ IdsIn(l, n) \subseteq 0 .. k - 1
        /\ \A i \in OfType(l, n, FORMAT) : FormatName(l[i]) \notin NamesIn(l, i - 1)
        /\ \A i \in OfType(l, n, ADD_LOGGED_MSG) : AddedId(l[i]) \notin IdsIn(l, i - 1)
        /\ \A i \in OfType(l, n, DATA) : MessageId(l[i]) \in IdsIn(l, i - 1)
    BY DEF LogOk, n
  <1>7. \A i \in 1 .. n + 1 : Good(g[i]) /\ MsgType(g[i]) \in Written
    <2>1. \A i \in 1 .. n + 1 : i \in 1 .. n \/ i = n + 1
      BY <1>2
    <2> QED BY <1>2, <1>6, <2>1 DEF May
  <1>8. NamesIn(g, n + 1) \subseteq D2
    BY <1>5, <1>6 DEF May
  <1>9. IdsIn(g, n + 1) \subseteq 0 .. k2 - 1
    <2>1. 0 .. k - 1 \subseteq 0 .. k2 - 1 /\ k .. k2 - 1 \subseteq 0 .. k2 - 1
      OBVIOUS
    <2> QED BY <1>5, <1>6, <2>1 DEF May
  <1>10. \A type : OfType(l, n, type) \subseteq 1 .. n
    BY DEF OfType
  <1>11. ASSUME NEW i \in 1 .. n
         PROVE  g[i] = l[i] /\ NamesIn(g, i - 1) = NamesIn(l, i - 1) /\ IdsIn(g, i - 1) = IdsIn(l, i - 1)
    BY <1>2, <1>3, <1>4
  <1>12. /\ (n + 1) - 1 = n
         /\ NamesIn(g, n) = NamesIn(l, n) /\ IdsIn(g, n) = IdsIn(l, n)
    BY <1>2, <1>3, <1>4
  <1>13. \A i \in OfType(g, n + 1, FORMAT) : FormatName(g[i]) \notin NamesIn(g, i - 1)
    <2> SUFFICES ASSUME NEW i \in OfType(g, n + 1, FORMAT) PROVE FormatName(g[i]) \notin NamesIn(g, i - 1)
      OBVIOUS
    <2>1. CASE i \in OfType(l, n, FORMAT)
      BY <1>6, <1>10, <1>11, <2>1
    <2>2. CASE i = n + 1 /\ MsgType(m) = FORMAT
      <3>1. FormatName(m) \notin NamesIn(l, n)
        BY <1>6, <2>2 DEF May
      <3> QED BY <1>2, <1>12, <2>2, <3>1
    <2> QED BY <1>5, <2>1, <2>2
  <1>14. \A i \in OfType(g, n + 1, ADD_LOGGED_MSG) : AddedId(g[i]) \notin IdsIn(g, i - 1)
    <2> SUFFICES ASSUME NEW i \in OfType(g, n + 1, ADD_LOGGED_MSG) PROVE AddedId(g[i]) \notin IdsIn(g, i - 1)
      OBVIOUS
    <2>1. CASE i \in OfType(l, n, ADD_LOGGED_MSG)
      BY <1>6, <1>10, <1>11, <2>1
    <2>2. CASE i = n + 1 /\ MsgType(m) = ADD_LOGGED_MSG
      <3>1. \A x \in k .. k2 - 1 : x \notin 0 .. k - 1
        OBVIOUS
      <3>2. AddedId(m) \notin IdsIn(l, n)
        BY <1>6, <2>2, <3>1 DEF May
      <3> QED BY <1>2, <1>12, <2>2, <3>2
    <2> QED BY <1>5, <2>1, <2>2
  <1>15. \A i \in OfType(g, n + 1, DATA) : MessageId(g[i]) \in IdsIn(g, i - 1)
    <2> SUFFICES ASSUME NEW i \in OfType(g, n + 1, DATA) PROVE MessageId(g[i]) \in IdsIn(g, i - 1)
      OBVIOUS
    <2>1. CASE i \in OfType(l, n, DATA)
      BY <1>6, <1>10, <1>11, <2>1
    <2>2. CASE i = n + 1 /\ MsgType(m) = DATA
      <3>1. MessageId(m) \in IdsIn(l, n)
        BY <2>2 DEF May, n
      <3> QED BY <1>2, <1>12, <2>2, <3>1
    <2> QED BY <1>5, <2>1, <2>2
  <1>16. LogOk(g, D2, k2)
    BY <1>2, <1>7, <1>8, <1>9, <1>13, <1>14, <1>15 DEF LogOk
  <1> QED BY <1>16 DEF g

LEMMA LogStays ==
    ASSUME NEW l, NEW D, NEW D2, D \subseteq D2, NEW k \in Nat, NEW k2 \in Nat, k <= k2, LogOk(l, D, k)
    PROVE  LogOk(l, D2, k2)
  <1>1. 0 .. k - 1 \subseteq 0 .. k2 - 1
    OBVIOUS
  <1> QED BY <1>1 DEF LogOk

LEMMA DoneStays ==
    ASSUME NEW d, NEW l, NEW D, NEW D2, D \subseteq D2, DoneOk(d, l, D)
    PROVE  DoneOk(d, l, D2)
  BY DEF DoneOk

LEMMA DoneGrows ==
    ASSUME NEW d, NEW l \in Seq(Seq(Byte)), NEW D, NEW D2, D \subseteq D2, DoneOk(d, l, D),
           NEW m \in Seq(Byte), NEW what,
           what.call = "writeAddLoggedMessage" =>
             what.name \in D2 /\ MsgType(m) = ADD_LOGGED_MSG /\ AddedId(m) = what.id
    PROVE  DoneOk(Append(d, what), Append(l, m), D2)
  <1> DEFINE g == Append(l, m)
             e == Append(d, what)
             n == Len(l)
             S == Range(d) \union {what}
  <1>1. n \in Nat /\ Len(g) = n + 1 /\ g[n + 1] = m
    BY AppendProperties, LenProperties
  <1>2. d \in Seq(S) /\ Len(d) = n
    <2>1. d \in Seq(Range(d)) /\ Len(d) = n
      BY DEF DoneOk
    <2> HIDE DEF n
    <2> QED BY <2>1, SeqMonotonic
  <1>3. e \in Seq(S) /\ Len(e) = n + 1 /\ e[n + 1] = what /\ \A j \in 1 .. n : e[j] = d[j]
    <2>1. what \in S
      OBVIOUS
    <2> HIDE DEF S, n
    <2> QED BY <1>2, <2>1, AppendProperties
  <1>4. NamesIn(g, n) = NamesIn(l, n) /\ IdsIn(g, n) = IdsIn(l, n)
    <2>1. n \in 0 .. n
      BY <1>1
    <2> QED BY <2>1, InGrown
  <1> HIDE DEF g, e, n, S
  <1>5. IdsIn(g, n + 1) = IdsIn(l, n) \union IF MsgType(m) = ADD_LOGGED_MSG THEN {AddedId(m)} ELSE {}
    <2>1. IdsIn(g, n + 1) = IdsIn(g, n) \union
                              IF MsgType(g[n + 1]) = ADD_LOGGED_MSG THEN {AddedId(g[n + 1])} ELSE {}
      BY <1>1, InMore DEF More
    <2> QED BY <1>1, <1>4, <2>1
  <1>6. e \in Seq(Range(e))
    BY <1>3, RangeOfSeq DEF Range
  <1>7. \A j \in 1 .. n + 1 : e[j].call = "writeAddLoggedMessage" => e[j].name \in D2 /\ e[j].id \in IdsIn(g, n + 1)
    <2> SUFFICES ASSUME NEW j \in 1 .. n + 1, e[j].call = "writeAddLoggedMessage"
                 PROVE  e[j].name \in D2 /\ e[j].id \in IdsIn(g, n + 1)
      OBVIOUS
    <2>1. CASE j \in 1 .. n
      <3>1. \A i \in 1 .. n : d[i].call = "writeAddLoggedMessage" => d[i].name \in D /\ d[i].id \in IdsIn(l, n)
        BY <1>2 DEF DoneOk, n
      <3> QED BY <1>3, <1>5, <2>1, <3>1
    <2>2. CASE j = n + 1
      BY <1>3, <1>5, <2>2
    <2> QED BY <1>1, <2>1, <2>2
  <1>8. DoneOk(e, g, D2)
    BY <1>1, <1>3, <1>6, <1>7 DEF DoneOk
  <1> QED BY <1>8 DEF e, g

-----------------------------------------------------------------------------
(* What is asked of the application: no text is empty, and an id is a       *)
(* uint16_t that is not given twice.                                        *)
TextsNotEmpty == \A text \in Texts : text.text # <<>>
IdsSuffice    == MaxCalls <= IdLimit

(* The formats that are registered, and the sizes of the subscriptions.     *)
FormatsOk(f) ==
    \A name \in DOMAIN f :
      /\ [name |-> name, fields |-> f[name]] \in FormatsGiven
      /\ name \in Seq(Byte)
      /\ HasNames(name, f[name])
      /\ FieldsGiven(f[name])

SizesOk(s) ==
    /\ s \in Seq(Nat)
    /\ Len(s) <= MaxCalls
    /\ \A i \in 1 .. Len(s) : s[i] >= 1

WriterInv ==
    /\ headerComplete \in BOOLEAN
    /\ FormatsOk(formats)
    /\ SizesOk(subscriptions)
    /\ LogOk(log, DOMAIN formats, Len(subscriptions))
    /\ DoneOk(done, log, DOMAIN formats)

Extended(l, g) == g = l \/ \E m \in Seq(Byte) : g = Append(l, m)

(* From the log l and the calls d to g and e.                               *)
Came(l, d, g, e, m, what) ==
    \/ Fits(m) /\ g = Append(l, m) /\ e = Append(d, what)
    \/ g = l /\ e = d

Known(what, m, D) ==
    what.call = "writeAddLoggedMessage" =>
      what.name \in D /\ MsgType(m) = ADD_LOGGED_MSG /\ AddedId(m) = what.id

Arrived(l, g, e, D, k) == LogOk(g, D, k) /\ DoneOk(e, g, D) /\ Extended(l, g)

LEMMA WritesArrive ==
    ASSUME NEW l, NEW d, NEW g, NEW e, NEW D, NEW D2, D \subseteq D2, NEW k \in Nat, NEW k2 \in Nat, k <= k2,
           NEW m, NEW what, LogOk(l, D, k), DoneOk(d, l, D), Came(l, d, g, e, m, what),
           Fits(m) => May(m, l, D, D2, k, k2) /\ Known(what, m, D2)
    PROVE  Arrived(l, g, e, D2, k2)
  <1>1. CASE g = l /\ e = d
    BY <1>1, LogStays, DoneStays DEF Arrived, Extended
  <1>2. CASE Fits(m) /\ g = Append(l, m) /\ e = Append(d, what)
    <2>1. May(m, l, D, D2, k, k2) /\ Known(what, m, D2)
      BY <1>2
    <2>2. m \in Seq(Byte) /\ l \in Seq(Seq(Byte))
      BY <2>1 DEF May, Good, LogOk
    <2>3. LogOk(g, D2, k2)
      BY <1>2, <2>1, LogGrows
    <2>4. DoneOk(e, g, D2)
      BY <1>2, <2>1, <2>2, DoneGrows DEF Known
    <2> QED BY <1>2, <2>2, <2>3, <2>4 DEF Arrived, Extended
  <1> QED BY <1>1, <1>2 DEF Came

LEMMA WritesCame ==
    ASSUME NEW what, NEW m, Writes(what, m)
    PROVE  Came(log, done, log', done', m, what)
  BY DEF Writes, Came

LEMMA IdFits == ASSUME NEW n \in Nat, n < IdLimit PROVE n % 65536 = n
  BY SMT DEF IdLimit

(* A message that is neither a format nor an id nor data. *)
LEMMA PlainMay ==
    ASSUME NEW m, Good(m), MsgType(m) \in {INFO, PARAMETER, LOGGING}, NEW l, NEW D, NEW k
    PROVE  May(m, l, D, D, k, k)
  <1>1. MsgType(m) \in Written /\ MsgType(m) \notin {FORMAT, ADD_LOGGED_MSG, DATA}
    BY TypesDiffer DEF Written
  <1> QED BY <1>1 DEF May

LEMMA SubscriptionsLen == ASSUME WriterInv PROVE Len(subscriptions) \in Nat
  BY LenProperties DEF WriterInv, SizesOk

(* What stays, for a call that changes the log only.                        *)
LEMMA OnlyLog ==
    ASSUME WriterInv, UNCHANGED <<headerComplete, formats, subscriptions>>,
           Arrived(log, log', done', DOMAIN formats, Len(subscriptions))
    PROVE  WriterInv' /\ Extended(log, log')
  BY DEF WriterInv, Arrived

LEMMA KeyedKeeps ==
    ASSUME WriterInv, NEW key \in Keys, NEW value \in Values, NEW type \in {INFO, PARAMETER},
           NEW call \in {"writeInfo", "writeParameter", "writeParameterChange"},
           WriteKeyed(call, type, key, value)
    PROVE  WriterInv' /\ Extended(log, log')
  <1> DEFINE m == KeyedMessage(type, InfoField(key, value), value.bytes)
             what == [call |-> call, key |-> key, value |-> value]
             k == Len(subscriptions)
             D == DOMAIN formats
  <1>1. /\ KeyFits(InfoField(key, value))
        /\ UNCHANGED <<headerComplete, formats, subscriptions>>
        /\ Came(log, done, log', done', m, what)
    BY WritesCame DEF WriteKeyed
  <1>2. Fits(m) => Good(m) /\ MsgType(m) = type
    BY <1>1, InfoGood
  <1>3. what.call # "writeAddLoggedMessage"
    OBVIOUS
  <1>4. k \in Nat
    BY SubscriptionsLen
  <1>5. LogOk(log, D, k) /\ DoneOk(done, log, D)
    BY DEF WriterInv
  <1> HIDE DEF m, what, k, D
  <1>6. Fits(m) => May(m, log, D, D, k, k) /\ Known(what, m, D)
    BY <1>2, <1>3, PlainMay DEF Known
  <1>7. Arrived(log, log', done', D, k)
    BY <1>1, <1>4, <1>5, <1>6, WritesArrive
  <1> QED BY <1>1, <1>7, OnlyLog DEF k, D

LEMMA TextKeeps ==
    ASSUME WriterInv, TextsNotEmpty, NEW text \in Texts, WriteTextMessage(text)
    PROVE  WriterInv' /\ Extended(log, log')
  <1> DEFINE m == TextMessage(LOGGING, text.level, text.stamp, text.text)
             what == [call |-> "writeTextMessage", text |-> text]
             k == Len(subscriptions)
             D == DOMAIN formats
  <1>1. /\ UNCHANGED <<headerComplete, formats, subscriptions>>
        /\ Came(log, done, log', done', m, what)
    BY WritesCame DEF WriteTextMessage
  <1>2. Fits(m) => Good(m) /\ MsgType(m) = LOGGING
    <2>1. text.level \in Levels /\ text.stamp \in [1 .. 8 -> Byte] /\ text.text \in Seq(Byte)
      BY WriterAssumption
    <2>2. text.level \in Byte
      BY <2>1 DEF Levels, Debug, Byte
    <2>3. text.stamp \in Seq(Byte) /\ Len(text.stamp) = 8
      <3> DEFINE stamp == text.stamp
      <3> HIDE DEF stamp
      <3>1. \A n \in Nat : \A f \in [1 .. n -> Byte] : f \in Seq(Byte) /\ Len(f) = n
        OBVIOUS
      <3>2. stamp \in [1 .. 8 -> Byte]
        BY <2>1 DEF stamp
      <3>3. stamp \in Seq(Byte) /\ Len(stamp) = 8
        BY <3>1, <3>2
      <3> QED BY <3>3 DEF stamp
    <2>4. text.text # <<>>
      BY DEF TextsNotEmpty
    <2> QED BY <2>1, <2>2, <2>3, <2>4, TextGood
  <1>3. what.call # "writeAddLoggedMessage"
    OBVIOUS
  <1>4. k \in Nat
    BY SubscriptionsLen
  <1>5. LogOk(log, D, k) /\ DoneOk(done, log, D)
    BY DEF WriterInv
  <1> HIDE DEF m, what, k, D
  <1>6. Fits(m) => May(m, log, D, D, k, k) /\ Known(what, m, D)
    BY <1>2, <1>3, PlainMay DEF Known
  <1>7. Arrived(log, log', done', D, k)
    BY <1>1, <1>4, <1>5, <1>6, WritesArrive
  <1> QED BY <1>1, <1>7, OnlyLog DEF k, D

LEMMA FormatKeeps ==
    ASSUME WriterInv, NEW given \in FormatsGiven, WriteMessageFormat(given.name, given.fields)
    PROVE  WriterInv' /\ Extended(log, log')
  <1> DEFINE name == given.name
             fields == given.fields
             m == FormatMessage(name, FieldTexts(fields))
             what == [call |-> "writeMessageFormat", name |-> name, fields |-> fields]
             k == Len(subscriptions)
             D == DOMAIN formats
             E == D \union {name}
  <1>1. /\ TimestampFirst(fields) /\ HasNames(name, fields) /\ HasBasicTypes(fields)
        /\ name \notin D
        /\ formats' = [n \in E |-> IF n = name THEN fields ELSE formats[n]]
        /\ UNCHANGED <<headerComplete, subscriptions>>
        /\ Came(log, done, log', done', m, what)
    BY WritesCame DEF WriteMessageFormat, AddsFormat
  <1>2. /\ name \in Seq(Byte)
        /\ fields \in Seq([type : STRING, name : Seq(Byte), array : Int32])
        /\ given = [name |-> name, fields |-> fields]
    BY WriterAssumption
  <1>3. FieldsGiven(fields)
    BY <1>1, <1>2 DEF FieldsGiven
  <1>4. Fits(m) => Good(m) /\ MsgType(m) = FORMAT /\ FormatName(m) = name
    <2>1. FormatTexts(FieldTexts(fields)) /\ Free(name, {Colon, Semicolon})
      BY <1>1, <1>2, <1>3, FieldTextsGood
    <2> QED BY <1>2, <2>1, FormatGood
  <1>5. what.call # "writeAddLoggedMessage"
    OBVIOUS
  <1>6. k \in Nat
    BY SubscriptionsLen
  <1>7. LogOk(log, D, k) /\ DoneOk(done, log, D)
    BY DEF WriterInv
  <1>8. DOMAIN formats' = E
    BY <1>1
  <1>9. FormatsOk(formats)'
    <2>1. \A n \in D : /\ [name |-> n, fields |-> formats[n]] \in FormatsGiven
                       /\ n \in Seq(Byte) /\ HasNames(n, formats[n]) /\ FieldsGiven(formats[n])
      BY DEF WriterInv, FormatsOk
    <2>2. ASSUME NEW n \in E
          PROVE  /\ [name |-> n, fields |-> formats'[n]] \in FormatsGiven
                 /\ n \in Seq(Byte) /\ HasNames(n, formats'[n]) /\ FieldsGiven(formats'[n])
      <3>1. CASE n = name
        <4>1. formats'[n] = fields
          BY <1>1, <3>1
        <4> HIDE DEF name, fields
        <4> QED BY <1>1, <1>2, <1>3, <3>1, <4>1
      <3>2. CASE n # name
        <4>1. n \in D /\ formats'[n] = formats[n]
          BY <1>1, <3>2
        <4> QED BY <2>1, <4>1
      <3> QED BY <3>1, <3>2
    <2> QED BY <1>8, <2>2 DEF FormatsOk
  <1> HIDE DEF m, what, k, D, E, name, fields
  <1>10. Fits(m) => May(m, log, D, E, k, k) /\ Known(what, m, E)
    <2>1. name \in E \ D
      BY <1>1 DEF E
    <2>2. FORMAT \in Written
      BY DEF Written
    <2> QED BY <1>4, <1>5, <2>1, <2>2, TypesDiffer DEF Known, May
  <1>11. Arrived(log, log', done', E, k)
    <2>1. D \subseteq E
      BY DEF E
    <2> QED BY <1>1, <1>6, <1>7, <1>10, <2>1, WritesArrive
  <1>12. k' = k
    BY <1>1 DEF k
  <1> QED BY <1>1, <1>8, <1>9, <1>11, <1>12 DEF WriterInv, Arrived, k, D

LEMMA AddKeeps ==
    ASSUME WriterInv, IdsSuffice, NEW name \in DOMAIN formats, NEW multi \in MultiIds,
           WriteAddLoggedMessage(name, multi)
    PROVE  WriterInv' /\ Extended(log, log')
  <1> DEFINE m == AddMessage(multi, IdReturned, name)
             what == [call |-> "writeAddLoggedMessage", name |-> name, multi |-> multi, id |-> IdReturned]
             k == Len(subscriptions)
             k2 == k + 1
             D == DOMAIN formats
             size == MessageSize(formats[name])
  <1>1. /\ k < MaxCalls
        /\ subscriptions' = Append(subscriptions, size)
        /\ UNCHANGED <<headerComplete, formats>>
        /\ Came(log, done, log', done', m, what)
    BY WritesCame DEF WriteAddLoggedMessage
  <1>2. k \in Nat /\ k2 \in Nat /\ k <= k2
    BY SubscriptionsLen
  <1>3. MaxCalls \in Nat /\ IdLimit \in Nat /\ MaxCalls <= IdLimit
    BY WriterAssumption DEF IdsSuffice, IdLimit
  <1>4. k < IdLimit
    <2> HIDE DEF k
    <2> QED BY <1>1, <1>2, <1>3
  <1>5. IdReturned = k
    BY <1>2, <1>4, IdFits DEF IdReturned
  <1>6. name \in Seq(Byte) /\ name # <<>> /\ FieldsGiven(formats[name])
    <2>1. HasNames(name, formats[name]) /\ name \in Seq(Byte) /\ FieldsGiven(formats[name])
      BY DEF WriterInv, FormatsOk
    <2> QED BY <2>1 DEF HasNames, IsName
  <1>7. multi \in Byte
    BY WriterAssumption
  <1>8. Fits(m) => Good(m) /\ MsgType(m) = ADD_LOGGED_MSG /\ AddedId(m) = k
    <2>1. m = AddMessage(multi, k, name)
      BY <1>5
    <2> HIDE DEF m, k
    <2> QED BY <1>2, <1>4, <1>6, <1>7, <2>1, AddGood
  <1>9. size \in Nat /\ size >= 1
    BY <1>6, MessageSizeIs
  <1>10. SizesOk(subscriptions)'
    <2>1. subscriptions \in Seq(Nat) /\ \A i \in 1 .. k : subscriptions[i] >= 1
      BY DEF WriterInv, SizesOk
    <2> HIDE DEF size
    <2>2. /\ subscriptions' \in Seq(Nat) /\ Len(subscriptions') = k + 1
          /\ subscriptions'[k + 1] = size /\ \A i \in 1 .. k : subscriptions'[i] = subscriptions[i]
      BY <1>1, <1>9, <2>1, AppendProperties
    <2> HIDE DEF k
    <2>3. Len(subscriptions') <= MaxCalls
      BY <1>1, <1>2, <1>3, <2>2
    <2>4. \A i \in 1 .. k + 1 : subscriptions'[i] >= 1
      <3>1. \A i \in 1 .. k + 1 : i \in 1 .. k \/ i = k + 1
        BY <1>2
      <3> QED BY <1>9, <2>1, <2>2, <3>1
    <2> QED BY <2>2, <2>3, <2>4 DEF SizesOk
  <1>11. what.name \in D /\ what.id = k
    BY <1>5
  <1>12. LogOk(log, D, k) /\ DoneOk(done, log, D)
    BY DEF WriterInv
  <1>13. Len(subscriptions') = k2
    BY <1>1, <1>9, AppendProperties DEF WriterInv, SizesOk
  <1> HIDE DEF m, what, k, D, size
  <1>14. Fits(m) => May(m, log, D, D, k, k2) /\ Known(what, m, D)
    <2>1. ADD_LOGGED_MSG \in Written
      BY DEF Written
    <2>2. k \in k .. k2 - 1
      BY <1>2
    <2> HIDE DEF k2
    <2> QED BY <1>8, <1>11, <2>1, <2>2, TypesDiffer DEF May, Known
  <1> HIDE DEF k2
  <1>15. Arrived(log, log', done', D, k2)
    BY <1>1, <1>2, <1>12, <1>14, WritesArrive
  <1> QED BY <1>1, <1>10, <1>13, <1>15 DEF WriterInv, Arrived, D

LEMMA DataKeeps ==
    ASSUME WriterInv, IdsSuffice, NEW id \in 0 .. Len(subscriptions) - 1, NEW content \in Contents,
           NEW name \in SubscribedAs(id),
           WriteData(id, StructOf(formats[name], content),
                     [call |-> "writeData", id |-> id, content |-> content])
    PROVE  WriterInv' /\ Extended(log, log')
  <1> DEFINE data == StructOf(formats[name], content)
             size == subscriptions[id + 1]
             bytes == SubSeq(data, 1, size)
             m == DataMessage(id, bytes)
             what == [call |-> "writeData", id |-> id, content |-> content]
             k == Len(subscriptions)
             D == DOMAIN formats
  <1>1. /\ Len(data) >= size
        /\ UNCHANGED <<headerComplete, formats, subscriptions>>
        /\ Came(log, done, log', done', m, what)
    BY WritesCame DEF WriteData
  <1>2. k \in Nat
    BY SubscriptionsLen
  <1>3. MaxCalls \in Nat /\ IdLimit \in Nat /\ MaxCalls <= IdLimit
    BY WriterAssumption DEF IdsSuffice, IdLimit
  <1>4. id \in Nat /\ id < IdLimit /\ id + 1 \in 1 .. k
    <2>1. k <= MaxCalls
      BY DEF WriterInv, SizesOk
    <2> HIDE DEF k
    <2>2. id \in 0 .. k - 1
      BY DEF k
    <2> QED BY <1>2, <1>3, <2>1, <2>2
  <1>5. LogOk(log, D, k) /\ DoneOk(done, log, D)
    BY DEF WriterInv
  <1>6. PICK j \in 1 .. Len(done) : /\ done[j].call = "writeAddLoggedMessage" /\ done[j].id = id
                                    /\ done[j].name = name
    BY DEF SubscribedAs
  <1>7. name \in D /\ id \in IdsIn(log, Len(log))
    BY <1>5, <1>6 DEF DoneOk
  <1>8. FieldsGiven(formats[name])
    BY <1>7 DEF WriterInv, FormatsOk
  <1>9. data \in Seq(Byte)
    <2>1. content \in Nat
      BY WriterAssumption
    <2> QED BY <1>8, <2>1, StructIs
  <1>10. size \in Nat /\ size >= 1
    BY <1>4, ElementOfSeq DEF WriterInv, SizesOk
  <1>11. bytes \in Seq(Byte) /\ Len(bytes) = size
    <2> HIDE DEF data, size
    <2>1. Len(data) \in Nat /\ 1 \in 1 .. Len(data) + 1 /\ size \in (1 - 1) .. Len(data)
      BY <1>1, <1>9, <1>10, LenProperties
    <2>2. bytes \in Seq(Byte) /\ Len(bytes) = (size - 1) + 1
      BY <1>9, <2>1, SubSeqIs
    <2> QED BY <1>10, <2>2
  <1>12. Fits(m) => Good(m) /\ MsgType(m) = DATA /\ MessageId(m) = id
    <2>1. Len(bytes) >= 1
      BY <1>10, <1>11
    <2> HIDE DEF bytes
    <2> QED BY <1>4, <1>11, <2>1, DataGood
  <1>13. what.call # "writeAddLoggedMessage"
    OBVIOUS
  <1> HIDE DEF m, what, k, D
  <1>14. Fits(m) => May(m, log, D, D, k, k) /\ Known(what, m, D)
    <2>1. DATA \in Written
      BY DEF Written
    <2> QED BY <1>7, <1>12, <1>13, <2>1, TypesDiffer DEF May, Known
  <1>15. Arrived(log, log', done', D, k)
    <2>1. k <= k /\ D \subseteq D
      BY <1>2
    <2> QED BY <1>1, <1>2, <1>5, <1>14, <2>1, WritesArrive
  <1> QED BY <1>1, <1>15, OnlyLog DEF k, D

LEMMA WriteKeeps ==
    ASSUME WriterInv, TextsNotEmpty, IdsSuffice, Write
    PROVE  WriterInv' /\ Extended(log, log')
  <1>1. ASSUME NEW key \in Keys, NEW value \in Values, WriteKeyed("writeInfo", INFO, key, value)
        PROVE  WriterInv' /\ Extended(log, log')
    BY <1>1, KeyedKeeps
  <1>2. ASSUME NEW key \in Keys, NEW value \in Values,
               \/ WriteKeyed("writeParameter", PARAMETER, key, value)
               \/ WriteKeyed("writeParameterChange", PARAMETER, key, value)
        PROVE  WriterInv' /\ Extended(log, log')
    BY <1>2, KeyedKeeps
  <1>3. ASSUME NEW given \in FormatsGiven, WriteMessageFormat(given.name, given.fields)
        PROVE  WriterInv' /\ Extended(log, log')
    BY <1>3, FormatKeeps
  <1>4. ASSUME NEW name \in DOMAIN formats, NEW multi \in MultiIds, WriteAddLoggedMessage(name, multi)
        PROVE  WriterInv' /\ Extended(log, log')
    BY <1>4, AddKeeps
  <1>5. CASE HeaderComplete
    BY <1>5 DEF HeaderComplete, WriterInv, Extended
  <1>6. ASSUME NEW text \in Texts, WriteTextMessage(text)
        PROVE  WriterInv' /\ Extended(log, log')
    BY <1>6, TextKeeps
  <1>7. ASSUME NEW id \in 0 .. Len(subscriptions) - 1, NEW content \in Contents, NEW name \in SubscribedAs(id),
               WriteData(id, StructOf(formats[name], content),
                         [call |-> "writeData", id |-> id, content |-> content])
        PROVE  WriterInv' /\ Extended(log, log')
    BY <1>7, DataKeeps
  <1> QED BY <1>1, <1>2, <1>3, <1>4, <1>5, <1>6, <1>7 DEF Write

-----------------------------------------------------------------------------
(* A DataContainer, as far as it refuses messages.                          *)
Shaped(c) ==
    /\ {"kind", "config", "headerComplete", "errors", "formats", "subscriptions"} \subseteq DOMAIN c
    /\ c.kind = "DataContainer"
    /\ c.headerComplete \in BOOLEAN

(* d is c with the formats names and the ids ids more.                      *)
Became(c, d, complete, names, ids) ==
    /\ Shaped(d)
    /\ d.config = c.config
    /\ d.errors = c.errors
    /\ d.headerComplete = complete
    /\ DOMAIN d.formats = DOMAIN c.formats \union names
    /\ DOMAIN d.subscriptions = DOMAIN c.subscriptions \union ids

LEMMA StoredIs ==
    ASSUME NEW c, Shaped(c), NEW cb, NEW m
    PROVE  /\ After(c, cb, m) = Stored(c, cb, m)
           /\ Refused(c, cb, m) = Refuses(c, cb, m)
           /\ Ignores(c, cb) => Stored(c, cb, m) = c
           /\ ~ Ignores(c, cb) /\ ~ Refuses(c, cb, m) => Stored(c, cb, m) = Kept(c, cb, m)
  BY DEF Shaped, After, Refused, Stored

LEMMA StaysItself ==
    ASSUME NEW c, Shaped(c) PROVE Became(c, c, c.headerComplete, {}, {})
  BY DEF Became

LEMMA HeaderCompleteKept ==
    ASSUME NEW c, Shaped(c), NEW m
    PROVE  Became(c, After(c, "headerComplete", m), TRUE, {}, {})
  <1>1. ~ Ignores(c, "headerComplete") /\ ~ Refuses(c, "headerComplete", m)
    BY DEF Ignores, Refuses, Continues
  <1>2. Kept(c, "headerComplete", m) = [c EXCEPT !.headerComplete = TRUE]
    BY DEF Kept
  <1>3. After(c, "headerComplete", m) = [c EXCEPT !.headerComplete = TRUE]
    BY <1>1, <1>2, StoredIs
  <1> QED BY <1>3 DEF Became, Shaped

LEMMA FileHeaderKept ==
    ASSUME NEW c, Shaped(c), NEW m
    PROVE  Became(c, After(c, "fileHeader", m), c.headerComplete, {}, {})
  <1>1. ~ Ignores(c, "fileHeader") /\ ~ Refuses(c, "fileHeader", m)
    BY DEF Ignores, Refuses, Continues
  <1>2. Kept(c, "fileHeader", m) = [c EXCEPT !.fileHeader = m]
    BY DEF Kept
  <1>3. After(c, "fileHeader", m) = [c EXCEPT !.fileHeader = m]
    BY <1>1, <1>2, StoredIs
  <1> QED BY <1>3 DEF Became, Shaped

LEMMA InfoKept ==
    ASSUME NEW c, Shaped(c), NEW m, MsgType(m) = INFO
    PROVE  ~ Refused(c, "messageInfo", m) /\ Became(c, After(c, "messageInfo", m), c.headerComplete, {}, {})
  <1>1. MsgType(m) # INFO_MULTIPLE
    BY DEF INFO, INFO_MULTIPLE
  <1>2. ~ Refuses(c, "messageInfo", m)
    BY <1>1 DEF Refuses, Continues
  <1>3. Kept(c, "messageInfo", m) = [c EXCEPT !.info = Inserted(@, NameOf(FieldOf(m)), Keyed(m))]
    BY <1>1 DEF Kept
  <1>4. Became(c, Kept(c, "messageInfo", m), c.headerComplete, {}, {})
    BY <1>3 DEF Became, Shaped
  <1> QED BY <1>2, <1>4, StoredIs, StaysItself

LEMMA ParameterKept ==
    ASSUME NEW c, Shaped(c), NEW m
    PROVE  ~ Refused(c, "parameter", m) /\ Became(c, After(c, "parameter", m), c.headerComplete, {}, {})
  <1>1. ~ Refuses(c, "parameter", m)
    BY DEF Refuses, Continues
  <1>2. CASE c.headerComplete
    <2>1. Kept(c, "parameter", m) = [c EXCEPT !.changedParameters = Append(@, Keyed(m))]
      BY <1>2 DEF Kept
    <2>2. Became(c, Kept(c, "parameter", m), c.headerComplete, {}, {})
      BY <2>1 DEF Became, Shaped
    <2> QED BY <1>1, <2>2, StoredIs, StaysItself
  <1>3. CASE ~ c.headerComplete
    <2>1. Kept(c, "parameter", m) = [c EXCEPT !.initialParameters = Inserted(@, NameOf(FieldOf(m)), Keyed(m))]
      BY <1>3 DEF Kept
    <2>2. Became(c, Kept(c, "parameter", m), c.headerComplete, {}, {})
      BY <2>1 DEF Became, Shaped
    <2> QED BY <1>1, <2>2, StoredIs, StaysItself
  <1> QED BY <1>2, <1>3

LEMMA LoggingKept ==
    ASSUME NEW c, Shaped(c), NEW m
    PROVE  ~ Refused(c, "logging", m) /\ Became(c, After(c, "logging", m), c.headerComplete, {}, {})
  <1>1. ~ Refuses(c, "logging", m)
    BY DEF Refuses, Continues
  <1>2. Kept(c, "logging", m) =
          [c EXCEPT !.logging = Append(@, [level |-> LevelOf(m), stamp |-> StampOf(m), text |-> TextOf(m)])]
    BY DEF Kept
  <1>3. Became(c, Kept(c, "logging", m), c.headerComplete, {}, {})
    BY <1>2 DEF Became, Shaped
  <1> QED BY <1>1, <1>3, StoredIs, StaysItself

LEMMA FormatKept ==
    ASSUME NEW c, Shaped(c), NEW m, FormatName(m) \notin DOMAIN c.formats
    PROVE  /\ ~ Refused(c, "messageFormat", m)
           /\ Became(c, After(c, "messageFormat", m), c.headerComplete, {FormatName(m)}, {})
  <1>1. ~ Ignores(c, "messageFormat") /\ ~ Refuses(c, "messageFormat", m)
    BY DEF Ignores, Refuses, Continues
  <1>2. Kept(c, "messageFormat", m) = [c EXCEPT !.formats = Inserted(@, FormatName(m), FieldsOf(m))]
    BY DEF Kept
  <1>3. After(c, "messageFormat", m) = [c EXCEPT !.formats = Inserted(@, FormatName(m), FieldsOf(m))]
    BY <1>1, <1>2, StoredIs
  <1> QED BY <1>1, <1>3, StoredIs DEF Became, Shaped, Inserted

LEMMA AddKept ==
    ASSUME NEW c, Shaped(c), NEW m, AddedId(m) \notin DOMAIN c.subscriptions
    PROVE  /\ ~ Refused(c, "addLoggedMessage", m)
           /\ \E ids \in SUBSET {AddedId(m)} :
                /\ Became(c, After(c, "addLoggedMessage", m), c.headerComplete, {}, ids)
                /\ c.config # "Header" => ids = {AddedId(m)}
  <1>1. ~ Refuses(c, "addLoggedMessage", m)
    BY DEF Refuses, Continues
  <1>2. CASE Ignores(c, "addLoggedMessage")
    <2>1. After(c, "addLoggedMessage", m) = c
      BY <1>2, StoredIs
    <2>2. c.config = "Header"
      BY <1>2 DEF Ignores
    <2>3. Became(c, After(c, "addLoggedMessage", m), c.headerComplete, {}, {})
      BY <2>1, StaysItself
    <2> QED BY <1>1, <2>2, <2>3, StoredIs
  <1>3. CASE ~ Ignores(c, "addLoggedMessage")
    <2> DEFINE new == [name |-> AddedName(m), multi |-> MultiIdOf(m), data |-> <<>>]
    <2>1. Kept(c, "addLoggedMessage", m) = [c EXCEPT !.subscriptions = Inserted(@, AddedId(m), new)]
      BY DEF Kept
    <2> HIDE DEF new
    <2>2. After(c, "addLoggedMessage", m) = [c EXCEPT !.subscriptions = Inserted(@, AddedId(m), new)]
      BY <1>1, <1>3, <2>1, StoredIs
    <2>3. Became(c, After(c, "addLoggedMessage", m), c.headerComplete, {}, {AddedId(m)})
      BY <2>2 DEF Became, Shaped, Inserted
    <2> QED BY <1>1, <2>3, StoredIs
  <1> QED BY <1>2, <1>3

LEMMA DataKept ==
    ASSUME NEW c, Shaped(c), NEW m, c.config # "Header" => MessageId(m) \in DOMAIN c.subscriptions
    PROVE  ~ Refused(c, "data", m) /\ Became(c, After(c, "data", m), c.headerComplete, {}, {})
  <1>1. CASE Ignores(c, "data")
    <2>1. ~ Refuses(c, "data", m)
      BY <1>1 DEF Refuses
    <2> QED BY <1>1, <2>1, StoredIs, StaysItself
  <1>2. CASE ~ Ignores(c, "data")
    <2>1. MessageId(m) \in DOMAIN c.subscriptions
      BY <1>2 DEF Ignores
    <2>2. ~ Refuses(c, "data", m)
      BY <2>1 DEF Refuses, Continues
    <2>3. Kept(c, "data", m) = [c EXCEPT !.subscriptions[MessageId(m)].data = Append(@, DataOf(m))]
      BY DEF Kept
    <2>4. After(c, "data", m) = [c EXCEPT !.subscriptions[MessageId(m)].data = Append(@, DataOf(m))]
      BY <1>2, <2>2, <2>3, StoredIs
    <2> QED BY <2>2, <2>4, StoredIs DEF Became, Shaped
  <1> QED BY <1>1, <1>2

-----------------------------------------------------------------------------
LEMMA CallbacksAre ==
    /\ CallbackOf(INFO) = "messageInfo" /\ CallbackOf(FORMAT) = "messageFormat"
    /\ CallbackOf(PARAMETER) = "parameter" /\ CallbackOf(ADD_LOGGED_MSG) = "addLoggedMessage"
    /\ CallbackOf(LOGGING) = "logging" /\ CallbackOf(DATA) = "data"
  BY DEF CallbackOf, INFO, INFO_MULTIPLE, FORMAT, PARAMETER, PARAMETER_DEFAULT, ADD_LOGGED_MSG, LOGGING,
         LOGGING_TAGGED, DATA, DROPOUT, SYNC

LEMMA StatesAre ==
    /\ ReadingHeader # ReadingData /\ ReadingHeader # ReadingMagic /\ ReadingData # ReadingMagic
    /\ {ReadingMagic, ReadingHeader, ReadingData} \subseteq States
  BY DEF ReadingHeader, ReadingData, ReadingMagic, States

(* Where a message of a type SimpleWriter writes is handled.                *)
LEMMA HandledIs ==
    /\ \A t \in {INFO, PARAMETER, FORMAT} : StateFor(ReadingHeader, t) = ReadingHeader /\ Handled(ReadingHeader, t)
    /\ \A t \in {ADD_LOGGED_MSG, LOGGING} : StateFor(ReadingHeader, t) = ReadingData
    /\ StateFor(ReadingHeader, DATA) = ReadingHeader /\ ~ Handled(ReadingHeader, DATA)
    /\ \A t : StateFor(ReadingData, t) = ReadingData
    /\ \A t \in Written \ {FORMAT} : Handled(ReadingData, t)
    /\ ~ Handled(ReadingData, FORMAT)
  <1> USE DEF INFO, INFO_MULTIPLE, FORMAT, PARAMETER, PARAMETER_DEFAULT, ADD_LOGGED_MSG, LOGGING,
         LOGGING_TAGGED, DATA, DROPOUT, SYNC, EndsHeader, HeaderTypes, DataTypes, InBothSections
  <1>1. \A t \in {INFO, PARAMETER, FORMAT} : StateFor(ReadingHeader, t) = ReadingHeader /\ Handled(ReadingHeader, t)
    BY DEF StateFor, Handled
  <1>2. \A t \in {ADD_LOGGED_MSG, LOGGING} : StateFor(ReadingHeader, t) = ReadingData
    BY DEF StateFor
  <1>3. StateFor(ReadingHeader, DATA) = ReadingHeader /\ ~ Handled(ReadingHeader, DATA)
    BY StatesAre DEF StateFor, Handled
  <1>4. \A t : StateFor(ReadingData, t) = ReadingData
    BY StatesAre DEF StateFor
  <1>5. \A t \in Written \ {FORMAT} : Handled(ReadingData, t)
    BY DEF Written, Handled
  <1>6. ~ Handled(ReadingData, FORMAT)
    BY StatesAre DEF Handled
  <1> QED BY <1>1, <1>2, <1>3, <1>4, <1>5, <1>6

(* What a message does: the end of the header first, if it is that.         *)
Readied(c, st, now, m) == IF now = st THEN c ELSE After(c, "headerComplete", m)

HandledSo(c, st, now, m, cb, h) ==
    /\ h.state = now
    /\ h.outcome = Parsed
    /\ Told(c, h.calls \o <<>>, m) =
         IF Handled(now, MsgType(m)) THEN After(Readied(c, st, now, m), cb, m) ELSE Readied(c, st, now, m)

LEMMA PairIs == ASSUME NEW a, NEW b PROVE (<<a>> \o <<b>>) \o <<>> = <<a, b>>
  <1> DEFINE S == {a, b}
             p == <<a>> \o <<b>>
             q == <<a, b>>
  <1>1. <<a>> \in Seq(S) /\ <<b>> \in Seq(S) /\ Len(<<a>>) = 1 /\ Len(<<b>>) = 1
    OBVIOUS
  <1>2. p \in Seq(S) /\ Len(p) = 2 /\ p[1] = a /\ p[2] = b
    <2> HIDE DEF S
    <2> QED BY <1>1
  <1>3. q \in Seq(S) /\ Len(q) = 2 /\ q[1] = a /\ q[2] = b
    OBVIOUS
  <1> HIDE DEF p, q, S
  <1>4. p = q
    <2>1. \A i \in 1 .. 2 : p[i] = q[i]
      BY <1>2, <1>3
    <2> QED BY <1>2, <1>3, <2>1, SeqEqual
  <1>5. p \o <<>> = p
    BY <1>2, ConcatEmptySeq
  <1> QED BY <1>4, <1>5 DEF p, q

LEMMA HandlingIs ==
    ASSUME NEW c, NEW st, NEW m, Good(m), NEW now, now = StateFor(st, MsgType(m)),
           NEW cb, cb = CallbackOf(MsgType(m)),
           Handled(now, MsgType(m)) => ~ Refused(Readied(c, st, now, m), cb, m)
    PROVE  HandledSo(c, st, now, m, cb, Handling(st, m, Accepts(c, st, m)))
  <1> DEFINE t == MsgType(m)
             handled == Handled(now, t)
             first == IF now # st THEN <<"headerComplete">> ELSE <<>>
             second == IF handled THEN <<cb>> ELSE <<>>
             h == Handling(st, m, Accepts(c, st, m))
             ready == Readied(c, st, now, m)
  <1>1. Accepts(c, st, m) = (handled => ~ Refused(ready, cb, m))
    BY DEF Accepts, Readied
  <1>2. Accepts(c, st, m)
    BY <1>1
  <1>3. ~ Empty(m) /\ ParseOutcome(m) = Parsed
    BY DEF Good
  <1>4. h = [state |-> now, calls |-> first \o second, outcome |-> Parsed]
    <2> DEFINE a == Accepts(c, st, m)
    <2>1. a
      BY <1>2
    <2> HIDE DEF a
    <2>2. Handling(st, m, a) = [state |-> now, calls |-> first \o second, outcome |-> Parsed]
      BY <1>3, <2>1 DEF Handling, Dispatch
    <2> QED BY <2>2 DEF a
  <1>5. Told(c, (first \o second) \o <<>>, m) = IF handled THEN After(ready, cb, m) ELSE ready
    <2>1. CASE now = st /\ ~ handled
      <3>1. (first \o second) \o <<>> = <<>>
        BY <2>1
      <3> QED BY <2>1, <3>1, ToldNone DEF Readied
    <2>2. CASE now = st /\ handled
      <3>1. (first \o second) \o <<>> = <<cb>>
        BY <2>2
      <3> QED BY <2>2, <3>1, ToldOne DEF Readied
    <2>3. CASE now # st /\ ~ handled
      <3>1. (first \o second) \o <<>> = <<"headerComplete">>
        BY <2>3
      <3> QED BY <2>3, <3>1, ToldOne DEF Readied
    <2>4. CASE now # st /\ handled
      <3>1. (first \o second) \o <<>> = <<"headerComplete", cb>>
        BY <2>4, PairIs
      <3>2. Told(c, <<"headerComplete", cb>>, m) = After(After(c, "headerComplete", m), cb, m)
        BY ToldTwo
      <3> QED BY <2>4, <3>1, <3>2 DEF Readied
    <2> QED BY <2>1, <2>2, <2>3, <2>4
  <1>6. h.state = now /\ h.outcome = Parsed /\ h.calls = first \o second
    BY <1>4
  <1> QED BY <1>5, <1>6 DEF HandledSo

(* What the container has of the first n messages of the log l.             *)
Knows(c, l, n, complete) ==
    /\ Shaped(c)
    /\ c.errors = 0
    /\ c.headerComplete = complete
    /\ DOMAIN c.formats \subseteq NamesIn(l, n)
    /\ DOMAIN c.subscriptions \subseteq IdsIn(l, n)
    /\ c.config # "Header" => IdsIn(l, n) \subseteq DOMAIN c.subscriptions

LEMMA BecameTwice ==
    ASSUME NEW c, NEW r, NEW d, NEW complete, NEW names, NEW ids,
           Became(c, r, complete, {}, {}), Became(r, d, r.headerComplete, names, ids)
    PROVE  Became(c, d, complete, names, ids)
  BY DEF Became

LEMMA KnowsMore ==
    ASSUME NEW c, NEW d, NEW l, NEW n \in Nat, NEW x, NEW complete, NEW names, NEW ids,
           Knows(c, l, n, x), Became(c, d, complete, names, ids),
           names \subseteq NamesIn(l, n + 1), ids \subseteq IdsIn(l, n + 1),
           c.config # "Header" => IdsIn(l, n + 1) \subseteq IdsIn(l, n) \union ids
    PROVE  Knows(d, l, n + 1, complete)
  <1>1. NamesIn(l, n) \subseteq NamesIn(l, n + 1) /\ IdsIn(l, n) \subseteq IdsIn(l, n + 1)
    BY InMore DEF More
  <1> QED BY <1>1 DEF Knows, Became

LEMMA ReadiedIs ==
    ASSUME NEW c, Shaped(c), NEW st \in {ReadingHeader, ReadingData}, NEW now, NEW m,
           now \in {st, ReadingData}, c.headerComplete = (st = ReadingData)
    PROVE  Became(c, Readied(c, st, now, m), now = ReadingData, {}, {})
  <1>1. CASE now = st
    BY <1>1, StaysItself DEF Readied
  <1>2. CASE now # st
    BY <1>2, HeaderCompleteKept DEF Readied
  <1> QED BY <1>1, <1>2

(* The container takes the next message of the log.                         *)
LEMMA TakesNext ==
    ASSUME NEW l, NEW D, NEW k, LogOk(l, D, k), NEW n \in Nat, n < Len(l), NEW m, m = l[n + 1],
           NEW st \in {ReadingHeader, ReadingData}, NEW c, Knows(c, l, n, st = ReadingData),
           NEW h, h = Handling(st, m, Accepts(c, st, m))
    PROVE  /\ h.state \in {ReadingHeader, ReadingData} /\ h.outcome = Parsed
           /\ Knows(Told(c, h.calls \o <<>>, m), l, n + 1, h.state = ReadingData)
  <1> DEFINE t == MsgType(m)
             now == StateFor(st, t)
             cb == CallbackOf(t)
             r == Readied(c, st, now, m)
             d == Told(c, h.calls \o <<>>, m)
  <1>1. Len(l) \in Nat /\ n + 1 \in 1 .. Len(l) /\ (n + 1) - 1 = n
    BY LenProperties DEF LogOk
  <1>2. Good(m) /\ t \in Written
    BY <1>1 DEF LogOk
  <1>3. now \in {st, ReadingData} /\ now \in {ReadingHeader, ReadingData}
    BY DEF StateFor
  <1>4. Shaped(c) /\ c.headerComplete = (st = ReadingData)
    BY DEF Knows
  <1>5. Became(c, r, now = ReadingData, {}, {})
    BY <1>3, <1>4, ReadiedIs
  <1>6. /\ DOMAIN r.formats \subseteq NamesIn(l, n) /\ DOMAIN r.subscriptions \subseteq IdsIn(l, n)
        /\ r.config # "Header" => IdsIn(l, n) \subseteq DOMAIN r.subscriptions
        /\ Shaped(r) /\ r.config = c.config
    BY <1>5 DEF Knows, Became
  <1>7. /\ t = FORMAT => FormatName(m) \notin NamesIn(l, n)
        /\ t = ADD_LOGGED_MSG => AddedId(m) \notin IdsIn(l, n)
        /\ t = DATA => MessageId(m) \in IdsIn(l, n)
    BY <1>1 DEF LogOk, OfType
  <1>8. /\ NamesIn(l, n + 1) = NamesIn(l, n) \union IF t = FORMAT THEN {FormatName(m)} ELSE {}
        /\ IdsIn(l, n + 1) = IdsIn(l, n) \union IF t = ADD_LOGGED_MSG THEN {AddedId(m)} ELSE {}
    BY InMore DEF More
  <1> HIDE DEF t, now, cb, r, d
  <1>9. ASSUME Handled(now, t) => ~ Refused(r, cb, m)
        PROVE  /\ h.state = now /\ h.outcome = Parsed
               /\ d = IF Handled(now, t) THEN After(r, cb, m) ELSE r
    BY <1>2, <1>9, HandlingIs DEF HandledSo, t, now, cb, r, d
  <1>10. ASSUME NEW names, NEW ids, h.state = now, h.outcome = Parsed,
                Became(r, d, r.headerComplete, names, ids),
                names \subseteq IF t = FORMAT THEN {FormatName(m)} ELSE {},
                ids \subseteq IF t = ADD_LOGGED_MSG THEN {AddedId(m)} ELSE {},
                c.config # "Header" /\ t = ADD_LOGGED_MSG => ids = {AddedId(m)}
         PROVE  /\ h.state \in {ReadingHeader, ReadingData} /\ h.outcome = Parsed
                /\ Knows(d, l, n + 1, h.state = ReadingData)
    <2>1. Became(c, d, now = ReadingData, names, ids)
      BY <1>5, <1>10, BecameTwice
    <2>2. Knows(d, l, n + 1, now = ReadingData)
      BY <1>8, <1>10, <2>1, KnowsMore
    <2> QED BY <1>3, <1>10, <2>2
  <1>11. CASE t \in {INFO, PARAMETER, LOGGING}
    <2>1. ~ Refused(r, cb, m) /\ Became(r, After(r, cb, m), r.headerComplete, {}, {})
      BY <1>6, <1>11, CallbacksAre, InfoKept, ParameterKept, LoggingKept DEF cb, t
    <2>2. Handled(now, t)
      <3>1. t \in Written \ {FORMAT}
        BY <1>2, <1>11, TypesDiffer
      <3> QED BY <1>11, <3>1, HandledIs DEF now
    <2>3. t # ADD_LOGGED_MSG
      BY <1>11, TypesDiffer
    <2> QED BY <1>9, <1>10, <2>1, <2>2, <2>3 DEF d
  <1>12. CASE t = FORMAT
    <2>1. t # ADD_LOGGED_MSG
      BY <1>12, TypesDiffer
    <2>2. CASE st = ReadingHeader
      <3>1. Handled(now, t)
        BY <1>12, <2>2, HandledIs DEF now
      <3>2. ~ Refused(r, cb, m) /\ Became(r, After(r, cb, m), r.headerComplete, {FormatName(m)}, {})
        BY <1>6, <1>7, <1>12, CallbacksAre, FormatKept DEF cb
      <3> QED BY <1>9, <1>10, <1>12, <2>1, <3>1, <3>2 DEF d
    <2>3. CASE st = ReadingData
      <3>1. ~ Handled(now, t)
        BY <1>12, <2>3, HandledIs DEF now
      <3>2. Became(r, r, r.headerComplete, {}, {})
        BY <1>6, StaysItself
      <3>3. h.state = now /\ h.outcome = Parsed /\ d = r
        BY <1>9, <3>1
      <3>4. /\ h.state \in {ReadingHeader, ReadingData} /\ h.outcome = Parsed
            /\ Knows(d, l, n + 1, h.state = ReadingData)
        BY <1>10, <2>1, <3>2, <3>3
      <3> QED BY <3>4 DEF d
    <2> QED BY <2>2, <2>3
  <1>13. CASE t = ADD_LOGGED_MSG
    <2>1. Handled(now, t)
      <3>1. t \in Written \ {FORMAT}
        BY <1>2, <1>13, TypesDiffer
      <3>2. now = ReadingData
        BY <1>13, HandledIs DEF now
      <3> QED BY <3>1, <3>2, HandledIs
    <2>2. AddedId(m) \notin DOMAIN r.subscriptions
      BY <1>6, <1>7, <1>13
    <2>3. ~ Refused(r, cb, m)
      BY <1>6, <1>13, <2>2, CallbacksAre, AddKept DEF cb
    <2>4. PICK ids \in SUBSET {AddedId(m)} :
            /\ Became(r, After(r, cb, m), r.headerComplete, {}, ids)
            /\ r.config # "Header" => ids = {AddedId(m)}
      BY <1>6, <1>13, <2>2, CallbacksAre, AddKept DEF cb
    <2> QED BY <1>6, <1>9, <1>10, <1>13, <2>1, <2>3, <2>4 DEF d
  <1>14. CASE t = DATA
    <2>1. t # ADD_LOGGED_MSG
      BY <1>14, TypesDiffer
    <2>2. ~ Refused(r, cb, m) /\ Became(r, After(r, cb, m), r.headerComplete, {}, {})
      BY <1>6, <1>7, <1>14, CallbacksAre, DataKept DEF cb
    <2>3. Became(r, r, r.headerComplete, {}, {})
      BY <1>6, StaysItself
    <2>4. h.state = now /\ h.outcome = Parsed /\ (d = After(r, cb, m) \/ d = r)
      BY <1>9, <2>2
    <2>5. /\ h.state \in {ReadingHeader, ReadingData} /\ h.outcome = Parsed
          /\ Knows(d, l, n + 1, h.state = ReadingData)
      BY <1>10, <2>1, <2>2, <2>3, <2>4
    <2> QED BY <2>5 DEF d
  <1> QED BY <1>2, <1>11, <1>12, <1>13, <1>14 DEF Written, d

-----------------------------------------------------------------------------
LEMMA ZerosAre == \A n \in Nat : Zeros(n) \in Seq(Byte) /\ Len(Zeros(n)) = n /\ \A i \in 1 .. n : Zeros(n)[i] = 0
  BY DEF Zeros, Byte

(* The flag bits of a log SimpleWriter begins: they are there, and empty.   *)
LEMMA FlagsAre ==
    LET b == SubSeq(FileHeader, FileHeaderLen + 1, Len(FileHeader))
    IN  FlagBitsCalls(b) = <<"fileHeader">>
  <1> DEFINE z == Zeros(40)
             y == Zeros(8)
             h == <<85, 76, 111, 103, 1, 18, 53, 1>> \o y
             g == Header(40, FLAG_BITS)
             s == g \o z
             b == SubSeq(FileHeader, FileHeaderLen + 1, Len(FileHeader))
  <1>1. z \in Seq(Byte) /\ Len(z) = 40 /\ z # <<>> /\ \A i \in 1 .. 40 : z[i] = 0
    <2>1. z \in Seq(Byte) /\ Len(z) = 40 /\ \A i \in 1 .. 40 : z[i] = 0
      BY ZerosAre
    <2> HIDE DEF z
    <2>2. z # <<>>
      <3> SUFFICES ASSUME z = <<>> PROVE FALSE
        OBVIOUS
      <3>1. Len(z) = Len(<<>>)
        OBVIOUS
      <3>2. Len(<<>>) = 0
        OBVIOUS
      <3>3. 40 = 0
        BY <2>1, <3>1, <3>2
      <3> QED BY <3>3
    <2> QED BY <2>1, <2>2
  <1>2. y \in Seq(Byte) /\ Len(y) = 8
    BY ZerosAre
  <1> HIDE DEF z, y
  <1>3. h \in Seq(Byte) /\ Len(h) = 16
    <2> DEFINE f == <<85, 76, 111, 103, 1, 18, 53, 1>>
    <2>1. f \in Seq(Byte) /\ Len(f) = 8
      BY DEF Byte
    <2> HIDE DEF f
    <2>2. f \o y \in Seq(Byte) /\ Len(f \o y) = 16
      <3>1. f \o y \in Seq(Byte) /\ Len(f \o y) = Len(f) + Len(y)
        BY <1>2, <2>1, ConcatIs
      <3>2. Len(f) + Len(y) = 16
        BY <1>2, <2>1
      <3> QED BY <3>1, <3>2
    <2> QED BY <2>2 DEF f
  <1>4. g \in Seq(Byte) /\ Len(g) = 3 /\ g[3] = FLAG_BITS
    BY DEF Header, FLAG_BITS, Byte
  <1>5. s \in Seq(Byte) /\ Len(s) = 43 /\ s[3] = FLAG_BITS /\ \A i \in 4 .. 43 : s[i] = 0
    <2> HIDE DEF g
    <2>1. /\ s \in Seq(Byte) /\ Len(s) = Len(g) + Len(z)
          /\ \A i \in 1 .. Len(g) : s[i] = g[i]
          /\ \A i \in 1 .. Len(z) : s[Len(g) + i] = z[i]
      BY <1>1, <1>4, ConcatIs
    <2> HIDE DEF s
    <2>2. \A i \in 4 .. 43 : s[3 + (i - 3)] = 0
      <3>1. \A i \in 4 .. 43 : i - 3 \in 1 .. 40
        OBVIOUS
      <3>2. \A j \in 1 .. 40 : s[3 + j] = 0
        <4>1. Len(g) = 3 /\ Len(z) = 40 /\ \A i \in 1 .. 40 : z[i] = 0
          BY <1>1, <1>4
        <4>2. \A i \in 1 .. Len(z) : s[Len(g) + i] = z[i]
          BY <2>1
        <4> QED BY <4>1, <4>2
      <3> QED BY <3>1, <3>2
    <2>3. \A i \in 4 .. 43 : 3 + (i - 3) = i
      OBVIOUS
    <2> QED BY <1>1, <1>4, <2>1, <2>2, <2>3
  <1>6. FileHeader = h \o s
    BY <1>1 DEF FileHeader, FileHeaderMessage, Serialized, z, y
  <1> HIDE DEF h, g, s
  <1>7. b = s
    <2>0. h \in Seq(Byte) /\ s \in Seq(Byte)
      BY <1>3, <1>5
    <2>1. SubSeq(h \o s, Len(h) + 1, Len(h) + Len(s)) = s
      BY <2>0, SubSeqFront
    <2>2. Len(h \o s) = Len(h) + Len(s)
      BY <2>0, ConcatIs
    <2>3. FileHeaderLen + 1 = Len(h) + 1
      BY <1>3 DEF FileHeaderLen
    <2> QED BY <1>6, <2>1, <2>2, <2>3
  <1>8. FlagBitsCalls(s) = <<"fileHeader">>
    <2>1. ~ HasAppendedData(s) /\ ~ IsIncompatible(s)
      BY <1>5 DEF HasAppendedData, IsIncompatible
    <2>2. <<>> \o <<"fileHeader">> = <<"fileHeader">>
      OBVIOUS
    <2> QED BY <2>1, <2>2 DEF FlagBitsCalls
  <1> QED BY <1>7, <1>8

LEMMA NothingIn == ASSUME NEW l PROVE NamesIn(l, 0) = {} /\ IdsIn(l, 0) = {}
  <1>1. \A type : OfType(l, 0, type) = {}
    BY DEF OfType
  <1> QED BY <1>1 DEF NamesIn, IdsIn

LEMMA UnfilledKnows == ASSUME NEW config, NEW l PROVE Knows(Unfilled(config), l, 0, FALSE)
  BY NothingIn DEF Knows, Shaped, Unfilled

(* What is known of messages that were read stays so.                       *)
LEMMA KnowsGrown ==
    ASSUME NEW l \in Seq(Seq(Byte)), NEW g, Extended(l, g), NEW n \in 0 .. Len(l), NEW c, NEW x, Knows(c, l, n, x)
    PROVE  n \in 0 .. Len(g) /\ Knows(c, g, n, x)
  <1>1. CASE g = l
    BY <1>1
  <1>2. ASSUME NEW m \in Seq(Byte), g = Append(l, m)
        PROVE  n \in 0 .. Len(g) /\ Knows(c, g, n, x)
    <2>1. NamesIn(g, n) = NamesIn(l, n) /\ IdsIn(g, n) = IdsIn(l, n)
      BY <1>2, InGrown
    <2>2. Len(g) = Len(l) + 1 /\ Len(l) \in Nat
      BY <1>2, AppendProperties, LenProperties
    <2>3. n \in 0 .. Len(g)
      BY <2>2
    <2> QED BY <2>1, <2>3 DEF Knows
  <1> QED BY <1>1, <1>2 DEF Extended

ReadInv ==
    /\ read \in 0 .. Len(log)
    /\ readerState \in {ReadingMagic, ReadingHeader, ReadingData}
    /\ readerState = ReadingMagic => read = 0
    /\ Knows(container, log, read, readerState = ReadingData)

RoundTripInv == WriterInv /\ ReadInv

LEMMA InitInv == Init => RoundTripInv
  <1> SUFFICES ASSUME Init PROVE RoundTripInv
    OBVIOUS
  <1>1. /\ headerComplete = FALSE /\ formats = <<>> /\ subscriptions = <<>> /\ log = <<>> /\ done = <<>>
        /\ read = 0 /\ readerState = ReadingMagic
        /\ \E config \in StorageConfigs : container = Unfilled(config)
    BY DEF Init, WriterInit
  <1>2. SizesOk(subscriptions) /\ Len(subscriptions) = 0
    BY <1>1, WriterAssumption DEF SizesOk
  <1>3. FormatsOk(formats) /\ DOMAIN formats = {}
    BY <1>1 DEF FormatsOk
  <1>4. LogOk(log, {}, 0) /\ Len(log) = 0
    <2>1. Len(log) = 0 /\ log \in Seq(Seq(Byte))
      BY <1>1
    <2>2. \A type : OfType(log, 0, type) = {}
      BY DEF OfType
    <2> QED BY <2>1, <2>2, NothingIn DEF LogOk
  <1>5. DoneOk(done, log, {})
    BY <1>1, <1>4 DEF DoneOk
  <1>6. WriterInv
    BY <1>1, <1>2, <1>3, <1>4, <1>5 DEF WriterInv
  <1>7. ReadInv
    <2>1. (readerState = ReadingData) = FALSE
      BY <1>1, StatesAre
    <2>2. Knows(container, log, 0, FALSE)
      BY <1>1, UnfilledKnows
    <2>3. read \in 0 .. Len(log)
      BY <1>1, <1>4
    <2>4. Knows(container, log, read, readerState = ReadingData)
      BY <1>1, <2>1, <2>2
    <2> QED BY <1>1, <2>3, <2>4 DEF ReadInv
  <1> QED BY <1>6, <1>7 DEF RoundTripInv

LEMMA WriterStepKeeps ==
    ASSUME RoundTripInv, TextsNotEmpty, IdsSuffice, WriterStep PROVE RoundTripInv'
  <1>1. WriterInv' /\ Extended(log, log')
    BY WriteKeeps DEF RoundTripInv, WriterStep
  <1>2. UNCHANGED <<read, readerState, container>>
    BY DEF WriterStep
  <1>3. log \in Seq(Seq(Byte))
    BY DEF RoundTripInv, WriterInv, LogOk
  <1>4. read \in 0 .. Len(log') /\ Knows(container, log', read, readerState = ReadingData)
    BY <1>1, <1>3, KnowsGrown DEF RoundTripInv, ReadInv
  <1>5. ReadInv'
    BY <1>2, <1>4 DEF RoundTripInv, ReadInv
  <1> QED BY <1>1, <1>5 DEF RoundTripInv

LEMMA WriterStays ==
    ASSUME WriterInv, UNCHANGED <<headerComplete, formats, subscriptions, log, done>> PROVE WriterInv'
  BY DEF WriterInv

LEMMA ReadFileHeaderKeeps ==
    ASSUME RoundTripInv, ReadFileHeader PROVE RoundTripInv'
  <1> DEFINE p == PrologueOf(FileHeader)
             c == container
  <1>1. /\ readerState = ReadingMagic /\ readerState' = ReadingHeader
        /\ UNCHANGED <<headerComplete, formats, subscriptions, log, done, read>>
        /\ container' = Told(c, <<"fileHeader">>, p)
    BY FlagsAre DEF ReadFileHeader
  <1>2. WriterInv'
    BY <1>1, WriterStays DEF RoundTripInv
  <1>3. read = 0 /\ Knows(c, log, 0, FALSE) /\ read \in 0 .. Len(log)
    BY <1>1, StatesAre DEF RoundTripInv, ReadInv
  <1> HIDE DEF p, c
  <1>4. container' = After(c, "fileHeader", p)
    BY <1>1, ToldOne
  <1>5. Became(c, container', FALSE, {}, {})
    BY <1>3, <1>4, FileHeaderKept DEF Knows
  <1>6. Knows(container', log, 0, FALSE)
    BY <1>3, <1>5 DEF Knows, Became
  <1>7. ReadInv'
    BY <1>1, <1>3, <1>6, StatesAre DEF ReadInv
  <1> QED BY <1>2, <1>7 DEF RoundTripInv

LEMMA ReadMessageKeeps ==
    ASSUME RoundTripInv, ReadMessage PROVE RoundTripInv'
  <1> DEFINE m == log[read + 1]
             h == Handling(readerState, m, Accepts(container, readerState, m))
             d == Told(container, h.calls \o <<>>, m)
             D == DOMAIN formats
             k == Len(subscriptions)
  <1>1. /\ readerState \in {ReadingHeader, ReadingData} /\ read < Len(log) /\ read' = read + 1
        /\ readerState' = h.state
        /\ container' = Told(container, h.calls \o IF h.outcome = Parsed THEN <<>> ELSE <<"error">>, m)
        /\ UNCHANGED <<headerComplete, formats, subscriptions, log, done>>
    BY DEF ReadMessage
  <1>2. WriterInv'
    BY <1>1, WriterStays DEF RoundTripInv
  <1>3. LogOk(log, D, k) /\ read \in 0 .. Len(log) /\ Knows(container, log, read, readerState = ReadingData)
    BY DEF RoundTripInv, WriterInv, ReadInv
  <1>4. Len(log) \in Nat
    BY <1>3, LenProperties DEF LogOk
  <1>5. read \in Nat /\ read + 1 \in 0 .. Len(log)
    BY <1>1, <1>3, <1>4
  <1>6. /\ h.state \in {ReadingHeader, ReadingData} /\ h.outcome = Parsed
        /\ Knows(d, log, read + 1, h.state = ReadingData)
    <2> HIDE DEF D, k
    <2> QED BY <1>1, <1>3, <1>5, TakesNext
  <1>7. container' = d
    BY <1>1, <1>6
  <1> HIDE DEF m, h, d
  <1>8. ReadInv'
    BY <1>1, <1>5, <1>6, <1>7, StatesAre DEF ReadInv
  <1> QED BY <1>2, <1>8 DEF RoundTripInv

LEMMA NextKeeps ==
    ASSUME TextsNotEmpty, IdsSuffice PROVE RoundTripInv /\ [Next]_vars => RoundTripInv'
  <1> SUFFICES ASSUME RoundTripInv, [Next]_vars PROVE RoundTripInv'
    OBVIOUS
  <1>1. CASE WriterStep
    BY <1>1, WriterStepKeeps
  <1>2. CASE ReadFileHeader
    BY <1>2, ReadFileHeaderKeeps
  <1>3. CASE ReadMessage
    BY <1>3, ReadMessageKeeps
  <1>4. CASE UNCHANGED vars
    <2>1. WriterInv'
      BY <1>4, WriterStays DEF RoundTripInv, vars
    <2>2. ReadInv'
      BY <1>4 DEF RoundTripInv, ReadInv, vars
    <2> QED BY <2>1, <2>2 DEF RoundTripInv
  <1> QED BY <1>1, <1>2, <1>3, <1>4 DEF Next

LEMMA InvImplies == RoundTripInv => TypeOK /\ NoErrors
  <1> SUFFICES ASSUME RoundTripInv PROVE TypeOK /\ NoErrors
    OBVIOUS
  <1>1. headerComplete \in BOOLEAN /\ subscriptions \in Seq(Nat) /\ Len(done) = Len(log)
    BY DEF RoundTripInv, WriterInv, SizesOk, DoneOk
  <1>2. \A name \in DOMAIN formats : [name |-> name, fields |-> formats[name]] \in FormatsGiven
    BY DEF RoundTripInv, WriterInv, FormatsOk
  <1>3. \A i \in 1 .. Len(log) : log[i] \in Seq(Byte) /\ Len(log[i]) = MsgLen(log[i])
    BY DEF RoundTripInv, WriterInv, LogOk, Good
  <1>4. read \in 0 .. Len(log) /\ readerState \in States
    BY StatesAre DEF RoundTripInv, ReadInv
  <1>5. NoErrors
    BY DEF RoundTripInv, ReadInv, Knows, NoErrors
  <1> QED BY <1>1, <1>2, <1>3, <1>4, <1>5 DEF TypeOK

(* The variables of the writer, of the log and of the reader behind it have *)
(* their types: the formats are ones the application gave, and each message *)
(* of the log is as long as its head says, for all applications whose texts *)
(* are not empty and that subscribe no more often than there are ids.       *)
THEOREM RoundTripTyped == ASSUME TextsNotEmpty, IdsSuffice PROVE Spec => []TypeOK
  <1>1. RoundTripInv /\ [Next]_vars => RoundTripInv'
    BY NextKeeps
  <1> QED BY <1>1, InitInv, InvImplies, PTL DEF Spec

(* NoErrors: no message SimpleWriter writes is corrupt, unparsable or       *)
(* refused by the DataContainer that reads it, for every sequence of calls, *)
(* refused ones among them, wherever the reader is behind the writer.       *)
THEOREM RoundTripNoErrors == ASSUME TextsNotEmpty, IdsSuffice PROVE Spec => []NoErrors
  <1>1. RoundTripInv /\ [Next]_vars => RoundTripInv'
    BY NextKeeps
  <1> QED BY <1>1, InitInv, InvImplies, PTL DEF Spec
==============================================================================
