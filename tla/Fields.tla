------------------------------- MODULE Fields -------------------------------
(***************************************************************************)
(* Field and Value of messages.cpp: what a field is written as, and what a *)
(* value is read as, given the text of its field.                          *)
(***************************************************************************)
EXTENDS ULogMessages

(* Field::kBasicTypes: the size of each type, and its name as bytes.        *)
TypeSize ==
    [t \in {"int8_t", "uint8_t", "int16_t", "uint16_t", "int32_t", "uint32_t", "int64_t",
            "uint64_t", "float", "double", "bool", "char"} |->
       CASE t \in {"int8_t", "uint8_t", "bool", "char"}  -> 1
         [] t \in {"int16_t", "uint16_t"}                -> 2
         [] t \in {"int32_t", "uint32_t", "float"}       -> 4
         [] t \in {"int64_t", "uint64_t", "double"}      -> 8]

BasicTypes == DOMAIN TypeSize

TypeText ==
    LET int(bits)  == <<105, 110, 116>> \o bits \o <<95, 116>>
        uint(bits) == <<117>> \o int(bits)
    IN  [t \in BasicTypes |->
           CASE t = "int8_t"   -> int(<<56>>)      [] t = "uint8_t"  -> uint(<<56>>)
             [] t = "int16_t"  -> int(<<49, 54>>)  [] t = "uint16_t" -> uint(<<49, 54>>)
             [] t = "int32_t"  -> int(<<51, 50>>)  [] t = "uint32_t" -> uint(<<51, 50>>)
             [] t = "int64_t"  -> int(<<54, 52>>)  [] t = "uint64_t" -> uint(<<54, 52>>)
             [] t = "float"    -> <<102, 108, 111, 97, 116>>
             [] t = "double"   -> <<100, 111, 117, 98, 108, 101>>
             [] t = "bool"     -> <<98, 111, 111, 108>>
             [] t = "char"     -> <<99, 104, 97, 114>>]

(* The length of an array is an int.                                        *)
IntMax == 2147483647
Int32  == (-IntMax - 1) .. IntMax

(* std::to_string, of a length *)
Decimal(n) ==
    LET digits[k \in 0 .. n] ==
          IF k < 10 THEN <<48 + k>> ELSE Append(digits[k \div 10], 48 + (k % 10))
    IN  digits[n]

(* Field::encode, of a type, a name and an array length, -1 for no array.   *)
FieldText(field) ==
    TypeText[field.type]
      \o (IF field.array >= 0
          THEN <<OpenBracket>> \o Decimal(field.array) \o <<CloseBracket>> ELSE <<>>)
      \o <<Space>> \o field.name

-----------------------------------------------------------------------------
(* Field::array_length, of the text of a type: -1 when there are no         *)
(* brackets, or when that is what they say.                                 *)
ArrayKind(type) ==
    LET brackets == Positions(type, OpenBracket)
        kind(n)  == IF n.negative /\ n.digits = <<49>> THEN "none"
                    ELSE IF n.negative \/ n.digits = <<>> THEN "empty"
                    ELSE "some"
    IN  IF brackets = {} THEN "none"
        ELSE kind(Number(SubSeq(type, First(brackets) + 1, Len(type))))

(* The basic type a type is, brackets aside: at most one.                   *)
TypesNamed(type) ==
    LET base == SubSeq(type, 1, First(Positions(type, OpenBracket) \union {Len(type) + 1}) - 1)
    IN  {t \in BasicTypes : TypeText[t] = base}

(* Value(field, bytes): a number of the field's type when the size is that  *)
(* of the type, a string for chars, and otherwise the bytes as they are. A  *)
(* string or number says which of the variant's types it is in.             *)
Value(field, bytes) ==
    LET as(array, named) ==
          CASE array = "none" /\ named # {} ->
                 LET t == CHOOSE t \in named : TRUE
                 IN  IF Len(bytes) = TypeSize[t] THEN t ELSE Rejected
            [] array = "some" /\ named = {"char"} -> "std::string"
            [] OTHER                              -> "std::vector<uint8_t>"
        typed(type) == [type |-> as(ArrayKind(type), TypesNamed(type)), bytes |-> bytes]
    IN  typed(SubSeq(field, 1, First(Positions(field, Space)) - 1))
=============================================================================
