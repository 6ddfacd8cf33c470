---------------------------- MODULE FieldLayout ----------------------------
(***************************************************************************)
(* The fields of a format, as the writers see them, and the struct an      *)
(* application fills: writeMessageFormat adds the sizes of the fields up   *)
(* and refuses a struct that the compiler would pad in between.            *)
(***************************************************************************)
EXTENDS Fields, FiniteSetsExt

(* A field has a type, a name and an array length; no array (-1) and an     *)
(* array of length 0 count as one element.                                  *)
Bytes(field) == TypeSize[field.type] * IF field.array <= 0 THEN 1 ELSE field.array

(* Where each field ends in a message, and what a message has in all.       *)
Ends(fields) ==
    LET end[i \in 0 .. Len(fields)] == IF i = 0 THEN 0 ELSE end[i - 1] + Bytes(fields[i])
    IN  end

MessageSize(fields) == Ends(fields)[Len(fields)]

(* "struct requires padding": a field that would not begin at a multiple of *)
(* its type's size.                                                         *)
NeedsNoPadding(fields) ==
    \A i \in 1 .. Len(fields) : Ends(fields)[i - 1] % TypeSize[fields[i].type] = 0

(* The compiler's side: each field is aligned, and so is the whole.         *)
Aligned(n, size) == ((n + size - 1) \div size) * size

StructEnds(fields) ==
    LET end[i \in 0 .. Len(fields)] ==
          IF i = 0 THEN 0 ELSE Aligned(end[i - 1], TypeSize[fields[i].type]) + Bytes(fields[i])
    IN  end

StructSize(fields) ==
    Aligned(StructEnds(fields)[Len(fields)], Max({TypeSize[fields[i].type] : i \in 1 .. Len(fields)}))

(* A struct in memory: the bytes of field i are content + i, padding is 0.  *)
Filling(content, owners) == IF owners = {} THEN 0 ELSE (content + Min(owners)) % 256

StructOf(fields, content) ==
    [b \in 1 .. StructSize(fields) |->
       Filling(content, {i \in 1 .. Len(fields) :
                           StructEnds(fields)[i] - Bytes(fields[i]) < b /\ b <= StructEnds(fields)[i]})]

(* The same values where a reader of the format looks for them.             *)
MessageOf(fields, content) ==
    [b \in 1 .. MessageSize(fields) |->
       Filling(content, {i \in 1 .. Len(fields) : Ends(fields)[i - 1] < b /\ b <= Ends(fields)[i]})]
=============================================================================
