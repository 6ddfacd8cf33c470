------------------------------ MODULE LogParser ------------------------------
(***************************************************************************)
(* What Reader promises, without chunks, buffers or running calls: a       *)
(* cursor moves over the log and only forwards. Where the reader is in     *)
(* step with the log, it moves message by message and makes the calls of   *)
(* that message; where it is not, it moves to the next bytes that could be *)
(* a message header and to no later ones.                                  *)
(***************************************************************************)
EXTENDS ReaderDispatch

CONSTANTS Streams, HandlerVerdicts

VARIABLES stream,    \* the log
          at,        \* how many of its bytes are done with
          state,     \* Reader::State
          synced,    \* a message begins at the cursor
          reported,  \* the handler was told of a corruption
          calls,     \* the callbacks made, each with its cursor position
          broken     \* a foreign exception went through the reader

vars == <<stream, at, state, synced, reported, calls, broken>>

Init ==
    /\ stream \in Streams
    /\ at = 0
    /\ state = ReadingMagic
    /\ synced = TRUE
    /\ reported = FALSE
    /\ calls = <<>>
    /\ broken = FALSE

Calling(cbs) == calls \o [i \in 1 .. Len(cbs) |-> [cb |-> cbs[i], at |-> at]]
Ahead(n)     == SubSeq(stream, at + 1, at + n)
Left         == Len(stream) - at
InSections   == state \notin {ReadingMagic, ReadingFlagBits}

-----------------------------------------------------------------------------
Open ==
    /\ state = ReadingMagic
    /\ Left >= FileHeaderLen
    /\ HasMagic(Ahead(FileHeaderLen))
    /\ at' = at + FileHeaderLen
    /\ state' = ReadingFlagBits
    /\ UNCHANGED <<stream, synced, reported, calls, broken>>

(* The prologue may be refused, right or wrong: it must come in one piece.  *)
Refuse ==
    /\ ~ InSections
    /\ state' = InvalidData
    /\ calls' = Calling(<<"fatal">>)
    /\ UNCHANGED <<stream, at, synced, reported, broken>>

ReadFlags ==
    /\ state = ReadingFlagBits
    /\ Left >= FlagBitsLen
    /\ LET b == Ahead(FlagBitsLen)
       IN  /\ state' = IF FlagBitsRefused(b) THEN InvalidData ELSE ReadingHeader
           /\ calls' = Calling(FlagBitsCalls(b))
           /\ at' \in at .. at + FlagBitsSkip(b)
           /\ FlagBitsSkip(b) = FlagBitsLen => at' = at + FlagBitsLen
    /\ UNCHANGED <<stream, synced, reported, broken>>

(* The message at the cursor, complete in the log, is taken and handled.    *)
Message == Ahead(MsgLen(Ahead(HeaderLen)))

AtMessage ==
    /\ InSections
    /\ synced
    /\ Left >= HeaderLen
    /\ Left >= MsgLen(Ahead(HeaderLen))

Take(accepts) ==
    /\ AtMessage
    /\ LET h == Handling(state, Message, accepts)
       IN  /\ state' = h.state
           /\ at' = at + Len(Message)
           /\ h.outcome # Foreign
           /\ synced' = (h.outcome = Parsed)
           /\ reported' = (reported \/ h.outcome = Rejected)
           /\ calls' = Calling(h.calls \o IF reported' = reported THEN <<>> ELSE <<"error">>)
    /\ UNCHANGED <<stream, broken>>

(* Out of step: nothing that could be a message header is passed over.      *)
Resync ==
    /\ ~ synced
    /\ at' \in at .. Len(stream) - HeaderLen
    /\ \A q \in at .. at' - 1 : ~ SaneHeader(stream, q)
    /\ synced' \in BOOLEAN
    /\ synced' => at' + HeaderLen < Len(stream) /\ SaneHeader(stream, at')
    /\ UNCHANGED <<stream, state, reported, calls, broken>>

(* The rest of a refused log is ignored. *)
Ignore ==
    /\ state = InvalidData
    /\ at' \in at .. Len(stream)
    /\ synced' \in BOOLEAN
    /\ UNCHANGED <<stream, state, reported, calls, broken>>

(* An exception the reader does not catch: nothing is promised after it.    *)
Break ==
    /\ broken' = TRUE
    /\ \/ broken
       \/ AtMessage /\ Handling(state, Message, TRUE).outcome = Foreign
    /\ UNCHANGED stream
    /\ at' \in 0 .. Len(stream)
    /\ \E n \in 0 .. Len(calls') : calls = SubSeq(calls', 1, n)

Next ==
    \/ Open
    \/ Refuse
    \/ ReadFlags
    \/ \E accepts \in HandlerVerdicts : Take(accepts)
    \/ Resync
    \/ Ignore
    \/ Break

Spec == Init /\ [][Next]_vars
==============================================================================
