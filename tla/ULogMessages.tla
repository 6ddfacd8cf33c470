---------------------------- MODULE ULogMessages ----------------------------
(***************************************************************************)
(* The ULog wire format as the reader sees it: a message is a sequence of  *)
(* bytes, a three byte header (little endian size, type) and a payload.    *)
(* The constructors of messages.cpp are modelled by the one thing the      *)
(* reader can observe of them: whether they return, throw a                *)
(* ParsingException (which readChunk catches), or let an exception of the  *)
(* standard library out (which it does not).                               *)
(***************************************************************************)
EXTENDS Integers, Sequences

Byte == 0 .. 255

(* enum class ULogMessageType *)
FORMAT            == 70
DATA              == 68
INFO              == 73
INFO_MULTIPLE     == 77
PARAMETER         == 80
PARAMETER_DEFAULT == 81
ADD_LOGGED_MSG    == 65
REMOVE_LOGGED_MSG == 82
SYNC              == 83
DROPOUT           == 79
LOGGING           == 76
LOGGING_TAGGED    == 67
FLAG_BITS         == 66

(* Reader::kKnownMessageTypes: what recovery accepts as a message type.    *)
KnownMessageTypes ==
    {FORMAT, DATA, INFO, INFO_MULTIPLE, PARAMETER, PARAMETER_DEFAULT, ADD_LOGGED_MSG,
     REMOVE_LOGGED_MSG, SYNC, DROPOUT, LOGGING, LOGGING_TAGGED, FLAG_BITS}

-----------------------------------------------------------------------------
(* ulog_message_header_s *)
HeaderLen  == 3
MsgSize(m) == m[1] + 256 * m[2]
MsgType(m) == m[3]
MsgLen(m)  == HeaderLen + MsgSize(m)

(* The `n' payload bytes that follow the first `skip' bytes of the payload. *)
Payload(m, skip, n) == SubSeq(m, HeaderLen + skip + 1, HeaderLen + skip + n)

-----------------------------------------------------------------------------
(* How a constructor ends. *)
Parsed   == "parsed"
Rejected == "ParsingException"
Foreign  == "std::exception"
Outcomes == {Parsed, Rejected, Foreign}

Space        == 32
Minus        == 45
Colon        == 58
Semicolon    == 59
OpenBracket  == 91
CloseBracket == 93

(* Where character c occurs in the string s. *)
Positions(s, c) == {i \in 1 .. Len(s) : s[i] = c}
First(S) == CHOOSE i \in S : \A j \in S : i <= j
Final(S) == CHOOSE i \in S : \A j \in S : i >= j

(* How many characters at the front of s are in the set C. *)
Leading(s, C) ==
    CHOOSE n \in 0 .. Len(s) :
      /\ \A i \in 1 .. n : s[i] \in C
      /\ n < Len(s) => s[n + 1] \notin C

(* std::stoi reads blanks, a sign and digits, and ignores what is behind    *)
(* them. It throws when there is no digit, or too many for an int.          *)
Digit == 48 .. 57
Blank == {Space} \union 9 .. 13

Number(s) ==
    LET reading(negative, digits) ==
          [negative |-> negative,
           read     |-> Leading(digits, Digit),
           digits   |-> SubSeq(digits, Leading(digits, {48}) + 1, Leading(digits, Digit))]
        signed(rest) ==
          reading(rest # <<>> /\ rest[1] = Minus,
                  IF rest # <<>> /\ rest[1] \in {Minus, 43} THEN Tail(rest) ELSE rest)
    IN  signed(SubSeq(s, Leading(s, Blank) + 1, Len(s)))

MaxInt(negative) ==
    <<50, 49, 52, 55, 52, 56, 51, 54, 52>> \o <<IF negative THEN 56 ELSE 55>>

Exceeds(digits, max) ==
    \/ Len(digits) > Len(max)
    \/ /\ Len(digits) = Len(max)
       /\ \E i \in 1 .. Len(max) :
            /\ digits[i] > max[i]
            /\ \A j \in 1 .. i - 1 : digits[j] = max[j]

StoiThrows(s) == \E n \in {Number(s)} : n.read = 0 \/ Exceeds(n.digits, MaxInt(n.negative))

(***************************************************************************)
(* Field(const char*, int): '<type>[len] <name>' or '<type> <name>'. The   *)
(* array length goes through std::stoi, whose exceptions are not           *)
(* ParsingExceptions.                                                      *)
(***************************************************************************)
FieldOutcome(key) ==
    LET type     == SubSeq(key, 1, First(Positions(key, Space)) - 1)
        brackets == Positions(type, OpenBracket)
    IN  CASE Positions(key, Space) = {}                  -> Rejected
          [] Positions(key, Space) # {} /\ brackets = {} -> Parsed
          [] OTHER ->
               IF type[Len(type)] # CloseBracket THEN Rejected
               ELSE IF StoiThrows(SubSeq(type, First(brackets) + 1, Len(type))) THEN Foreign
               ELSE Parsed

(* A key of keyLen bytes behind a payload prefix of `prefix' bytes: the shape *)
(* that info, multi info, parameter and default parameter messages share.     *)
KeyedOutcome(m, minSize, prefix, keyLen) ==
    IF MsgSize(m) < minSize \/ keyLen > MsgSize(m) - prefix THEN Rejected
    ELSE FieldOutcome(Payload(m, prefix, keyLen))

(***************************************************************************)
(* MessageFormat from bytes: a name, a colon, and fields that each end     *)
(* with a semicolon. They are parsed from left to right, so the first bad  *)
(* one decides.                                                            *)
(***************************************************************************)
FormatOutcome(m) ==
    LET str        == Payload(m, 0, MsgSize(m))
        colon      == First(Positions(str, Colon))
        ends       == {e \in Positions(str, Semicolon) : e > colon}
        begin(e)   == Final({colon} \union {f \in ends : f < e}) + 1
        outcome(e) == FieldOutcome(SubSeq(str, begin(e), e - 1))
        bad        == {e \in ends : outcome(e) # Parsed}
    IN  IF Positions(str, Colon) = {} THEN Rejected
        ELSE IF bad # {} THEN outcome(First(bad))
        ELSE IF Final({colon} \union ends) # Len(str) THEN Rejected
        ELSE Parsed

(* Sync::kSyncMagicBytes *)
SyncMagicBytes == <<47, 115, 19, 32, 37, 12, 187, 18>>

(* CHECK_MSG_SIZE: the smallest payload a constructor takes. *)
MinSize == [t \in {ADD_LOGGED_MSG, LOGGING, LOGGING_TAGGED, DATA, DROPOUT, SYNC} |->
              CASE t = ADD_LOGGED_MSG -> 4
                [] t = LOGGING        -> 10
                [] t = LOGGING_TAGGED -> 12
                [] t = DATA           -> 3
                [] t = DROPOUT        -> 2
                [] t = SYNC           -> 8]

(* What constructing the message object for the bytes m does. *)
ParseOutcome(m) ==
    LET type == MsgType(m) IN
    CASE type \in {INFO, PARAMETER} -> KeyedOutcome(m, 2, 1, m[4])
      [] type \in {INFO_MULTIPLE, PARAMETER_DEFAULT} ->
           IF MsgSize(m) < 3 THEN Rejected ELSE KeyedOutcome(m, 3, 2, m[5])
      [] type = FORMAT -> FormatOutcome(m)
      [] type \in DOMAIN MinSize ->
           IF \/ MsgSize(m) < MinSize[type]
              \/ type = SYNC /\ Payload(m, 0, 8) # SyncMagicBytes
           THEN Rejected ELSE Parsed
      [] OTHER -> Parsed
=============================================================================
