---------------------------- MODULE Serialization ----------------------------
(***************************************************************************)
(* The message classes of messages.cpp in both directions: what their      *)
(* constructors keep of the bytes of a message, and the bytes serialize    *)
(* makes of that. A Field is its encoded text, '<type>[len] <name>'.       *)
(***************************************************************************)
EXTENDS Fields, SequencesExt

CONSTANT MaxPayload      \* std::numeric_limits<uint16_t>::max(), for msg_size
ASSUME PayloadAssumption == MaxPayload \in Nat /\ MaxPayload <= 65535

(* From bytes (when the constructor accepts them).                          *)
MessageId(m)    == m[4] + 256 * m[5]
DataOf(m)       == Payload(m, 2, MsgSize(m) - 2)
MultiIdOf(m)    == m[4]
AddedId(m)      == m[5] + 256 * m[6]
AddedName(m)    == Payload(m, 3, MsgSize(m) - 3)
DurationOf(m)   == m[4] + 256 * m[5]
IsContinued(m)  == m[4] # 0
DefaultTypes(m) == m[4]

(* Logging: a level outside Emergency .. Debug becomes Debug. *)
Debug    == 55
Levels   == 48 .. Debug
LevelOf(m) == IF m[4] \in Levels THEN m[4] ELSE Debug

IsTagged(m)    == MsgType(m) = LOGGING_TAGGED
TagLen(m)      == IF IsTagged(m) THEN 2 ELSE 0
StampOf(m)     == Payload(m, 1, TagLen(m) + 8)      \* tag and timestamp
TextOf(m)      == Payload(m, 9 + TagLen(m), MsgSize(m) - 9 - TagLen(m))

(* Field::Field and Field::encode: the array length is read as a number,    *)
(* and a negative one is no array.                                          *)
NameOf(field) == SubSeq(field, First(Positions(field, Space)) + 1, Len(field))

ArrayText(n) ==
    IF n.negative /\ n.digits # <<>> THEN <<>>
    ELSE <<OpenBracket>> \o (IF n.digits = <<>> THEN <<48>> ELSE n.digits) \o <<CloseBracket>>

Encoded(field) ==
    LET type     == SubSeq(field, 1, First(Positions(field, Space)) - 1)
        brackets == Positions(type, OpenBracket)
    IN  IF brackets = {} THEN field
        ELSE SubSeq(type, 1, First(brackets) - 1)
               \o ArrayText(Number(SubSeq(type, First(brackets) + 1, Len(type))))
               \o <<Space>> \o NameOf(field)

(* Info and parameter messages: a key behind its length, and a value.       *)
KeyAt(m)   == IF MsgType(m) \in {INFO_MULTIPLE, PARAMETER_DEFAULT} THEN 2 ELSE 1
KeyLen(m)  == m[HeaderLen + KeyAt(m)]
FieldOf(m) == Encoded(Payload(m, KeyAt(m), KeyLen(m)))
ValueOf(m) == Payload(m, KeyAt(m) + KeyLen(m), MsgSize(m) - KeyAt(m) - KeyLen(m))

(* Formats: the text between the colon and each semicolon.                  *)
ColonOf(m)    == First(Positions(m, Colon) \ 1 .. HeaderLen)
FormatName(m) == SubSeq(m, HeaderLen + 1, ColonOf(m) - 1)
FieldsOf(m)   ==
    LET ends == SetToSortSeq({e \in Positions(m, Semicolon) : e > ColonOf(m)}, <)
        begin(i) == IF i = 1 THEN ColonOf(m) ELSE ends[i - 1]
    IN  [i \in 1 .. Len(ends) |-> Encoded(SubSeq(m, begin(i) + 1, ends[i] - 1))]

-----------------------------------------------------------------------------
(* serialize: message header, fixed part, rest.                             *)
HeaderSwapped(size, type) == <<size \div 256, size % 256, type>>      \* mutant: big endian
Header(size, type)        == <<size % 256, size \div 256, type>>
Word(n)                   == <<n % 256, n \div 256>>
Serialized(type, payload) == Header(Len(payload), type) \o payload
Zeros(n)                  == [i \in 1 .. n |-> 0]

(* The file header is followed by flag bits if it was made with them: they  *)
(* are cut to the size this code knows.                                     *)
FileHeaderMessage(header, flags) ==
    header \o IF flags = <<>> THEN <<>> ELSE Serialized(FLAG_BITS, flags)

KeyedMessage(type, field, value) == Serialized(type, <<Len(field)>> \o field \o value)

MultiMessageUncontinued(continued, field, value) ==      \* mutant: _continued is not written
    Serialized(INFO_MULTIPLE, <<0, Len(field)>> \o field \o value)
MultiMessage(continued, field, value) ==
    Serialized(INFO_MULTIPLE, <<IF continued THEN 1 ELSE 0, Len(field)>> \o field \o value)

DefaultMessage(types, field, value) ==
    Serialized(PARAMETER_DEFAULT, <<types, Len(field)>> \o field \o value)

FormatMessageUnclosed(name, fields) ==      \* mutant: a semicolon between fields only
    Serialized(FORMAT, name \o <<Colon>>
                         \o FlattenSeq([i \in 1 .. Len(fields) |->
                                         IF i = 1 THEN fields[i] ELSE <<Semicolon>> \o fields[i]]))

FormatMessage(name, fields) ==
    Serialized(FORMAT, name \o <<Colon>>
                         \o FlattenSeq([i \in 1 .. Len(fields) |-> fields[i] \o <<Semicolon>>]))

AddMessage(multi, id, name) == Serialized(ADD_LOGGED_MSG, <<multi>> \o Word(id) \o name)

(* `stamp' is the timestamp, behind the tag in a tagged message.            *)
TextMessage(type, level, stamp, text) == Serialized(type, <<level>> \o stamp \o text)
DataMessage(id, bytes)                == Serialized(DATA, Word(id) \o bytes)
DropoutMessage(duration)              == Serialized(DROPOUT, Word(duration))
SyncMessage                           == Serialized(SYNC, SyncMagicBytes)

(* msg_size and key_len must fit: a ParsingException "message too long".    *)
Fits(m)        == Len(m) - HeaderLen <= MaxPayload
KeyFits(field) == Len(field) <= 255
=============================================================================
