------------------------------- MODULE Reader -------------------------------
(***************************************************************************)
(* ulog_cpp::Reader (reader.hpp, reader.cpp): a streaming parser. The      *)
(* caller hands a log to readChunk piece by piece, in pieces of any size;  *)
(* the reader frames messages across the piece boundaries with a partial   *)
(* message buffer, dispatches each to the data handler, and after a        *)
(* corrupt message looks for the next bytes that could be a header.        *)
(*                                                                         *)
(* One step is one turn of a loop of readChunk or tryToRecover; pc says    *)
(* where the running call is. The bytes the call has not consumed are the  *)
(* last `length' bytes of stream[1 .. fed].                                *)
(***************************************************************************)
EXTENDS ReaderDispatch

CONSTANTS Streams,          \* the byte sequences a caller may feed
          ChunkSizes,       \* the lengths readChunk may be called with
          BufferSizeInit,   \* kBufferSizeInit
          HandlerVerdicts   \* can a callback return (TRUE), can it throw (FALSE)

ASSUME StreamsAssumption  == Streams \subseteq Seq(Byte)
ASSUME ChunksAssumption   == ChunkSizes \subseteq Nat \ {0}
ASSUME BufferAssumption   == BufferSizeInit \in Nat /\ BufferSizeInit > HeaderLen
ASSUME VerdictsAssumption == HandlerVerdicts \subseteq BOOLEAN

VARIABLES stream,              \* what the caller reads its chunks from
          fed,                 \* how many of its bytes readChunk was given so far
          length,              \* bytes of the current chunk not consumed yet
          pc,                  \* where the running readChunk is, "idle" between calls
          state,               \* _state
          buffer,              \* _partial_message_buffer, up to its length
          capacity,            \* _partial_message_buffer_length_capacity
          needRecovery,        \* _need_recovery
          corruptionReported,  \* _corruption_reported
          calls,               \* every callback made, with the position it was made for
          escaped              \* an exception has left readChunk

vars == <<stream, fed, length, pc, state, buffer, capacity, needRecovery,
          corruptionReported, calls, escaped>>

Pcs == {"idle", "prologue", "loop", "recover"}

-----------------------------------------------------------------------------
Least(a, b)    == IF a < b THEN a ELSE b
Greatest(a, b) == IF a > b THEN a ELSE b

(* The next n bytes of the chunk (`data'), and the stream position of the   *)
(* next byte to be framed, the buffered ones first.                         *)
Data(n) == SubSeq(stream, fed - length + 1, fed - length + n)
At      == fed - length - Len(buffer)

(* The callbacks in cbs, made for the bytes at position At.                 *)
Calling(cbs) == calls \o [i \in 1 .. Len(cbs) |-> [cb |-> cbs[i], at |-> At]]

(* Where a call to readChunk begins: nowhere once the data is invalid.      *)
Entry(st) ==
    CASE st = InvalidData                        -> "idle"
      [] st \in {ReadingMagic, ReadingFlagBits}  -> "prologue"
      [] st \in {ReadingHeader, ReadingData}     -> "loop"

Init ==
    /\ stream \in Streams
    /\ fed = 0
    /\ length = 0
    /\ pc = "idle"
    /\ state = ReadingMagic
    /\ buffer = <<>>
    /\ capacity = BufferSizeInit
    /\ needRecovery = FALSE
    /\ corruptionReported = FALSE
    /\ calls = <<>>
    /\ escaped = FALSE

-----------------------------------------------------------------------------
(* The caller hands over the next n bytes. *)
ReadChunk(n) ==
    /\ pc = "idle"
    /\ fed + n <= Len(stream)
    /\ fed' = fed + n
    /\ pc' = Entry(state)
    /\ length' = IF Entry(state) = "idle" THEN 0 ELSE n
    /\ UNCHANGED <<stream, state, buffer, capacity, needRecovery, corruptionReported,
                   calls, escaped>>

(* The magic must be in one piece. A refused file still runs into the loop. *)
ReadMagic ==
    /\ pc = "prologue"
    /\ state = ReadingMagic
    /\ IF length < FileHeaderLen \/ ~ HasMagic(Data(FileHeaderLen))
         THEN /\ state' = InvalidData
              /\ calls' = Calling(<<"fatal">>)
              /\ pc' = "loop"
              /\ UNCHANGED length
         ELSE /\ state' = ReadingFlagBits
              /\ length' = length - FileHeaderLen
              /\ pc' = IF length = FileHeaderLen THEN "loop" ELSE "prologue"
              /\ UNCHANGED calls
    /\ UNCHANGED <<stream, fed, buffer, capacity, needRecovery, corruptionReported, escaped>>

(* The flag bits too. A flag message may say it is longer than the chunk:   *)
(* the reader then skips to the end of the chunk only.                      *)
ReadFlagBits ==
    /\ pc = "prologue"
    /\ state = ReadingFlagBits
    /\ IF length < FlagBitsLen
         THEN /\ state' = InvalidData
              /\ calls' = Calling(<<"fatal">>)
              /\ UNCHANGED length
         ELSE LET b == Data(FlagBitsLen)
              IN  /\ state' = IF FlagBitsRefused(b) THEN InvalidData ELSE ReadingHeader
                  /\ calls' = Calling(FlagBitsCalls(b))
                  /\ length' = Greatest(length - FlagBitsSkip(b), 0)
    /\ pc' = "loop"
    /\ UNCHANGED <<stream, fed, buffer, capacity, needRecovery, corruptionReported, escaped>>

-----------------------------------------------------------------------------
InLoop == pc = "loop" /\ length > 0 /\ ~ needRecovery

(* corruptionDetected(): reported once, recovery from now on. *)
CorruptionCalls == IF corruptionReported THEN <<>> ELSE <<"error">>

(* The framed message m is handled, and leaves `rest' in the buffer.        *)
(* ParsingExceptions are caught. Another exception leaves readChunk, with   *)
(* what the buffer held still in it and the rest of the chunk unread.       *)
Handle(m, accepts, held, rest, unread) ==
    LET h == Handling(state, m, accepts) IN
    /\ state' = h.state
    /\ \/ /\ h.outcome = Parsed
          /\ calls' = Calling(h.calls)
          /\ buffer' = rest
          /\ length' = unread
          /\ UNCHANGED <<pc, needRecovery, corruptionReported, escaped>>
       \/ /\ h.outcome = Rejected
          /\ calls' = Calling(h.calls \o CorruptionCalls)
          /\ buffer' = rest
          /\ length' = unread
          /\ needRecovery' = TRUE
          /\ corruptionReported' = TRUE
          /\ UNCHANGED <<pc, escaped>>
       \/ /\ h.outcome = Foreign
          /\ calls' = Calling(h.calls)
          /\ buffer' = held
          /\ length' = 0
          /\ pc' = "idle"
          /\ escaped' = TRUE
          /\ UNCHANGED <<needRecovery, corruptionReported>>

(* ensure_enough_data_in_partial_buffer, for the header and then for the    *)
(* message: how long the buffer must get, and what it gets from the chunk.  *)
Required(b) == IF Len(b) < HeaderLen THEN HeaderLen ELSE MsgLen(b)

Lacking == Required(buffer \o Data(Least(HeaderLen, length))) - Len(buffer)
Added   == Greatest(0, Least(Lacking, length))
Filled  == buffer \o Data(Added)

(* The message the filled buffer begins with: none if it is not complete.   *)
FramedInBufferStrictly ==      \* mutant: > for >= in ensure_enough_data
    IF Len(Filled) >= HeaderLen /\ Len(Filled) > MsgLen(Filled)
    THEN {SubSeq(Filled, 1, MsgLen(Filled))} ELSE {}

FramedInBuffer ==
    IF Len(Filled) >= HeaderLen /\ Len(Filled) >= MsgLen(Filled)
    THEN {SubSeq(Filled, 1, MsgLen(Filled))} ELSE {}

CompletePartialKeeping(accepts) ==      \* mutant: clear_from_partial_message_buffer never set
    /\ InLoop
    /\ buffer # <<>>
    /\ \E m \in FramedInBuffer : Handle(m, accepts, Filled, Filled, length - Added)
    /\ capacity' = Greatest(capacity, Len(Filled))
    /\ UNCHANGED <<stream, fed>>

CompletePartial(accepts) ==
    /\ InLoop
    /\ buffer # <<>>
    /\ \E m \in FramedInBuffer :
         Handle(m, accepts, Filled, SubSeq(Filled, Len(m) + 1, Len(Filled)), length - Added)
    /\ capacity' = Greatest(capacity, Len(Filled))
    /\ UNCHANGED <<stream, fed>>

(* The chunk ends before the message in the buffer does. *)
ExtendPartial ==
    /\ InLoop
    /\ buffer # <<>>
    /\ FramedInBuffer = {}
    /\ capacity' = Greatest(capacity, Len(Filled))
    /\ buffer' = Filled
    /\ length' = length - Added
    /\ UNCHANGED <<stream, fed, pc, state, needRecovery, corruptionReported, calls, escaped>>

FramedInChunk ==
    IF length > HeaderLen /\ length >= MsgLen(Data(HeaderLen))
    THEN {Data(MsgLen(Data(HeaderLen)))} ELSE {}

(* A message is taken straight from the chunk. *)
TakeWhole(accepts) ==
    /\ InLoop
    /\ buffer = <<>>
    /\ \E m \in FramedInChunk : Handle(m, accepts, <<>>, <<>>, length - Len(m))
    /\ UNCHANGED <<stream, fed, capacity>>

(* appendToPartialBuffer: what fits in the buffer, which does not grow here. *)
AppendedUnbounded == length      \* mutant: no min with the room left

Appended == Least(length, capacity - Len(buffer))

StartPartial ==
    /\ InLoop
    /\ buffer = <<>>
    /\ FramedInChunk = {}
    /\ buffer' = Data(Appended)
    /\ length' = length - Appended
    /\ UNCHANGED <<stream, fed, pc, state, capacity, needRecovery, corruptionReported,
                   calls, escaped>>

LeaveLoop ==
    /\ pc = "loop"
    /\ length = 0 \/ needRecovery
    /\ pc' = IF needRecovery THEN "recover" ELSE "idle"
    /\ UNCHANGED <<stream, fed, length, state, buffer, capacity, needRecovery,
                   corruptionReported, calls, escaped>>

-----------------------------------------------------------------------------
(* tryToRecover: one turn of its loop appends to the buffer and searches it. *)
Searched == buffer \o Data(Appended)

ScanStartSkipping == 1           \* mutant: the first index is always skipped
DropNothing(n)    == Searched    \* mutant: the memmove of the discard is missing

ScanStart    == IF Appended = 0 THEN 1 ELSE 0
ScanEnd      == Len(Searched) - HeaderLen
Candidates   == {i \in ScanStart .. ScanEnd - 1 : SaneHeader(Searched, i)}
Drop(n)      == SubSeq(Searched, n + 1, Len(Searched))

InRecovery == pc = "recover" /\ length > 0

RecoverShortByHeader ==      \* mutant: length reduced by a header, not by what was appended
    /\ InRecovery
    /\ Len(Searched) < HeaderLen
    /\ buffer' = Searched
    /\ length' = length - HeaderLen
    /\ UNCHANGED <<stream, fed, pc, state, capacity, needRecovery, corruptionReported,
                   calls, escaped>>

RecoverShort ==
    /\ InRecovery
    /\ Len(Searched) < HeaderLen
    /\ buffer' = Searched
    /\ length' = length - Appended
    /\ UNCHANGED <<stream, fed, pc, state, capacity, needRecovery, corruptionReported,
                   calls, escaped>>

RecoverNothingForgetting ==      \* mutant: the last bytes, maybe half a header, go too
    /\ InRecovery
    /\ Len(Searched) >= HeaderLen
    /\ Candidates = {}
    /\ buffer' = <<>>
    /\ length' = length - Appended
    /\ UNCHANGED <<stream, fed, pc, state, capacity, needRecovery, corruptionReported,
                   calls, escaped>>

RecoverNothing ==
    /\ InRecovery
    /\ Len(Searched) >= HeaderLen
    /\ Candidates = {}
    /\ buffer' = Drop(Greatest(ScanStart, ScanEnd))
    /\ length' = length - Appended
    /\ UNCHANGED <<stream, fed, pc, state, capacity, needRecovery, corruptionReported,
                   calls, escaped>>

RecoverFoundOnly ==      \* mutant: the nested readChunk gets nothing of the chunk
    /\ InRecovery
    /\ Len(Searched) >= HeaderLen
    /\ \E index \in Candidates :
         /\ \A i \in Candidates : index <= i
         /\ buffer' = Drop(index)
    /\ needRecovery' = FALSE
    /\ pc' = Entry(state)
    /\ length' = 0
    /\ UNCHANGED <<stream, fed, state, capacity, corruptionReported, calls, escaped>>

(* Found: parse on, in a nested readChunk with what is left of the chunk.   *)
RecoverFound ==
    /\ InRecovery
    /\ Len(Searched) >= HeaderLen
    /\ \E index \in Candidates :
         /\ \A i \in Candidates : index <= i
         /\ buffer' = Drop(index)
    /\ needRecovery' = FALSE
    /\ pc' = Entry(state)
    /\ length' = IF Entry(state) = "idle" THEN 0 ELSE length - Appended
    /\ UNCHANGED <<stream, fed, state, capacity, corruptionReported, calls, escaped>>

LeaveRecovery ==
    /\ pc = "recover"
    /\ length = 0
    /\ pc' = "idle"
    /\ UNCHANGED <<stream, fed, length, state, buffer, capacity, needRecovery,
                   corruptionReported, calls, escaped>>

-----------------------------------------------------------------------------
(* The steps of a running call, which nothing can hold up. *)
Step ==
    \/ ReadMagic
    \/ ReadFlagBits
    \/ \E accepts \in HandlerVerdicts : CompletePartial(accepts)
    \/ ExtendPartial
    \/ \E accepts \in HandlerVerdicts : TakeWhole(accepts)
    \/ StartPartial
    \/ LeaveLoop
    \/ RecoverShort
    \/ RecoverNothing
    \/ RecoverFound
    \/ LeaveRecovery

Next == Step \/ \E n \in ChunkSizes : ReadChunk(n)

Spec     == Init /\ [][Next]_vars
FairSpec == Spec /\ WF_vars(Step)

-----------------------------------------------------------------------------
(* Every variable has its type; lengths stay inside what was fed.           *)
TypeOK ==
    /\ stream \in Streams
    /\ fed \in 0 .. Len(stream)
    /\ length \in 0 .. fed
    /\ pc \in Pcs
    /\ state \in States
    /\ buffer \in Seq(Byte)
    /\ Len(buffer) <= fed - length
    /\ capacity \in Nat
    /\ needRecovery \in BOOLEAN
    /\ corruptionReported \in BOOLEAN
    /\ calls \in Seq([cb : Callbacks, at : Nat])
    /\ escaped \in BOOLEAN

(* Appends, removals of a handled message and discards of the recovery keep *)
(* the buffer equal to the bytes right before the unread part of the chunk: *)
(* none lost, doubled or shifted, whatever the chunk boundaries. (A call    *)
(* that finds the data invalid still frames the rest of its chunk; those    *)
(* after it ignore theirs.)                                                 *)
Framing == state # InvalidData \/ pc # "idle"

BufferIsContiguous ==
    ~ escaped /\ Framing => buffer = SubSeq(stream, At + 1, fed - length)

(* The buffer fits its allocation, and a recovery that has bytes left can   *)
(* append some: tryToRecover's "partial buffer was already full" case, which *)
(* exists to prevent an infinite recursion, does not come up.               *)
BufferFits == Len(buffer) <= capacity

RecoveryAppends ==
    needRecovery \/ InRecovery => Len(buffer) < capacity

(* The handler hears of the file header first, of formats only before       *)
(* headerComplete and of subscriptions, data and logging only after it, and *)
(* of the header and its end once each, also when corruption or a recovery  *)
(* in the middle of a chunk comes between the two switch statements.        *)
CallbackOrder ==
    LET cb(i) == calls[i].cb IN
    /\ \A i, j \in 1 .. Len(calls) :
         /\ i < j /\ cb(j) \in HeaderOnly => cb(i) # "headerComplete"
         /\ i < j => cb(j) # "fileHeader" \/ cb(i) = "error"
         /\ i < j /\ cb(j) = "headerComplete" => cb(i) \notin DataOnly \union {cb(j)}
    /\ \A j \in 1 .. Len(calls) :
         /\ cb(j) \in DataOnly => \E i \in 1 .. j - 1 : cb(i) = "headerComplete"
         /\ cb(j) \in AnyTime \union HeaderOnly \union {"headerComplete"} =>
              \E i \in 1 .. j - 1 : cb(i) = "fileHeader"

(* No message is delivered twice and none out of order: callbacks follow    *)
(* the positions of their messages in the log, one message callback each,   *)
(* also across recoveries, which go back over bytes already buffered.       *)
MessageCallbacks == HeaderOnly \union DataOnly \union AnyTime

DeliveredInOrder ==
    \A i, j \in 1 .. Len(calls) : i < j =>
      /\ calls[i].at <= calls[j].at
      /\ calls[i].cb \in MessageCallbacks /\ calls[j].cb \in MessageCallbacks =>
           calls[i].at < calls[j].at

(* After an error that is not recoverable the handler gets no data at all:  *)
(* the loop that keeps framing the rest of the chunk can report corruption, *)
(* but dispatches nothing.                                                  *)
FatalIsFinal ==
    \A i, j \in 1 .. Len(calls) :
      i < j /\ calls[i].cb = "fatal" => calls[j].cb = "error"

(* In a log without corruption a complete message never waits in the buffer *)
(* for the next chunk: the callbacks come immediately.                      *)
CompleteMessageWaits ==
    /\ Len(buffer) > HeaderLen
    /\ Len(buffer) >= MsgLen(buffer)

DeliveredAtOnce ==
    pc = "idle" /\ ~ corruptionReported /\ ~ escaped => ~ CompleteMessageWaits

(* reader.hpp on the buffer: "contains at most one ULog message (unless     *)
(* _need_recovery==true)". Not so once a recovery found a header in it: the *)
(* nested readChunk only gets to the messages in the buffer if the chunk    *)
(* has bytes left, and else they wait there for the next one, or for ever.  *)
AtMostOneMessage ==
    pc = "idle" /\ ~ needRecovery /\ ~ escaped /\ Len(buffer) >= HeaderLen =>
      Len(buffer) <= MsgLen(buffer)

(* The reader, seen without chunks, buffer and call structure.              *)
Abstract == INSTANCE LogParser WITH
    at <- At, synced <- ~ needRecovery, reported <- corruptionReported, broken <- escaped

ImplementsLogParser == Abstract!Spec

(* Every step of a call leaves fewer bytes to be handled, or the same and   *)
(* fewer of them in the chunk, or the call is further on: the recovery,     *)
(* which goes back to the loop, has taken from the chunk before.            *)
Unhandled == length + Len(buffer)
Rank      == CASE pc = "prologue" -> 3 [] pc = "loop" -> 2 [] pc = "recover" -> 1 [] OTHER -> 0

Descends ==
    \/ Unhandled' < Unhandled
    \/ Unhandled' = Unhandled /\ length' < length
    \/ Unhandled' = Unhandled /\ length' = length /\ Rank' < Rank

StepsDescend == [][Step => Descends]_vars

(* Every readChunk returns: neither of the two loops and not their nesting  *)
(* through the recursive readChunk of the recovery can go on for ever.      *)
CallsReturn == (pc # "idle") ~> (pc = "idle")
=============================================================================
