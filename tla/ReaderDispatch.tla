--------------------------- MODULE ReaderDispatch ---------------------------
(***************************************************************************)
(* Which callback of the DataHandlerInterface a complete message leads to: *)
(* Reader::readHeaderMessage, Reader::readDataMessage and the code of      *)
(* Reader::readChunk around them. No state of its own: the reader applies  *)
(* Handling to its parser state and one framed message.                    *)
(***************************************************************************)
EXTENDS ULogMessages

(* enum class Reader::State *)
ReadingMagic    == "ReadMagic"
ReadingFlagBits == "ReadFlagBits"
ReadingHeader   == "ReadHeader"
ReadingData     == "ReadData"
InvalidData     == "InvalidData"
States == {ReadingMagic, ReadingFlagBits, ReadingHeader, ReadingData, InvalidData}

(* The callback that gets the message object made from a message of type t. *)
CallbackOf(t) ==
    CASE t \in {INFO, INFO_MULTIPLE}       -> "messageInfo"
      [] t = FORMAT                        -> "messageFormat"
      [] t = PARAMETER                     -> "parameter"
      [] t = PARAMETER_DEFAULT             -> "parameterDefault"
      [] t = ADD_LOGGED_MSG                -> "addLoggedMessage"
      [] t \in {LOGGING, LOGGING_TAGGED}   -> "logging"
      [] t = DATA                          -> "data"
      [] t = DROPOUT                       -> "dropout"
      [] t = SYNC                          -> "sync"

HeaderOnly    == {"messageFormat"}
DataOnly      == {"addLoggedMessage", "logging", "data", "dropout", "sync"}
AnyTime       == {"messageInfo", "parameter", "parameterDefault"}
Callbacks     == HeaderOnly \union DataOnly \union AnyTime
                   \union {"fileHeader", "headerComplete", "error", "fatal"}

-----------------------------------------------------------------------------
(* The cases of the two switch statements; any other type is passed over.   *)
InBothSections == {INFO, INFO_MULTIPLE, PARAMETER, PARAMETER_DEFAULT}
HeaderTypes    == InBothSections \union {FORMAT}
EndsHeader     == {ADD_LOGGED_MSG, LOGGING, LOGGING_TAGGED}
DataTypesAndFormat ==            \* mutant: FORMAT handled in the data section too
    InBothSections \union EndsHeader \union {DATA, DROPOUT, SYNC, FORMAT}
DataTypes      == InBothSections \union EndsHeader \union {DATA, DROPOUT, SYNC}

(* The parser state in which the message is dispatched: the first data      *)
(* section message ends the header, and is then read as a data message.     *)
StateFor(st, t) ==
    IF st = ReadingHeader /\ t \in EndsHeader THEN ReadingData ELSE st

Handled(st, t) ==
    \/ st = ReadingHeader /\ t \in HeaderTypes
    \/ st = ReadingData   /\ t \in DataTypes

(***************************************************************************)
(* What one framed message m does in parser state st: the new state, the   *)
(* callbacks made in order, and how the attempt ends. `accepts' is FALSE   *)
(* when the handler's callback itself throws a ParsingException, as those  *)
(* of DataContainer do; no headerComplete of the repository throws.        *)
(***************************************************************************)
Dispatch(st, m, accepts) ==
    LET t       == MsgType(m)
        now     == StateFor(st, t)
        handled == Handled(now, t)
        built   == IF handled THEN ParseOutcome(m) ELSE Parsed
    IN  [state   |-> now,
         calls   |-> (IF now # st THEN <<"headerComplete">> ELSE <<>>)
                       \o (IF handled /\ built = Parsed THEN <<CallbackOf(t)>> ELSE <<>>),
         outcome |-> IF handled /\ built = Parsed /\ ~accepts THEN Rejected ELSE built]

(* A message of size or type zero is corrupt and not dispatched at all.     *)
Empty(m) == MsgSize(m) = 0 \/ MsgType(m) = 0

Handling(st, m, accepts) ==
    IF Empty(m) THEN [state |-> st, calls |-> <<>>, outcome |-> Rejected]
                ELSE Dispatch(st, m, accepts)

-----------------------------------------------------------------------------
(* The prologue of a log: 16 bytes of file header, and an optional flag     *)
(* bits message of 43 bytes (fields: size, type, 8 compat flags, 8 incompat *)
(* flags, 3 offsets of 8 bytes).                                            *)
FileHeaderLen == 16
FlagBitsLen   == 43
Magic         == <<85, 76, 111, 103, 1, 18, 53>>

HasMagic(b)       == SubSeq(b, 1, Len(Magic)) = Magic
IsFlagBits(b)     == MsgType(b) = FLAG_BITS
HasAppendedData(b) == \E i \in 20 .. 27 : b[i] # 0
IsIncompatible(b) == b[12] \notin {0, 1} \/ \E i \in 13 .. 19 : b[i] # 0

(* The callbacks of Reader::readFlagBits, and how many bytes it skips.      *)
FlagBitsCalls(b) ==
    IF ~ IsFlagBits(b) THEN <<"fileHeader">>
    ELSE (IF HasAppendedData(b) THEN <<"error">> ELSE <<>>)
           \o (IF IsIncompatible(b) THEN <<"fatal">> ELSE <<"fileHeader">>)

FlagBitsNeverRefused(b) == FALSE      \* mutant: _state not set to InvalidData
FlagBitsRefused(b) == IsFlagBits(b) /\ IsIncompatible(b)

FlagBitsSkip(b) == IF IsFlagBits(b) /\ ~ IsIncompatible(b) THEN MsgLen(b) ELSE 0

-----------------------------------------------------------------------------
(* What Reader::tryToRecover takes for a message header after the first i   *)
(* bytes of b.                                                              *)
RecoverableSize == 10000

SaneHeader(b, i) ==
    LET h == SubSeq(b, i + 1, i + HeaderLen)
    IN  /\ MsgSize(h) # 0
        /\ MsgSize(h) < RecoverableSize
        /\ MsgType(h) \in KnownMessageTypes
=============================================================================
