----------------------------- MODULE LogReading -----------------------------
(***************************************************************************)
(* Reader with the handlers of the repository: a Writer, which makes a     *)
(* copy of the log, or a DataContainer. What the handler refuses, the      *)
(* reader takes for corruption.                                            *)
(***************************************************************************)
EXTENDS Reader, LogReference

CONSTANT NewHandlers      \* the handlers a Reader may be given

ASSUME BothVerdicts == HandlerVerdicts = BOOLEAN

VARIABLES handler,
          given        \* the handler as it was given to the reader (history)

readingVars == <<vars, handler, given>>

ReadingInit == Init /\ given \in NewHandlers /\ handler = given

(* A step of the reader is also what its callbacks do. They are made for    *)
(* the prologue, or for the message at the cursor.                          *)
Listening ==
    LET made == SubSeq(calls', Len(calls) + 1, Len(calls'))
        what == IF state \in {ReadingMagic, ReadingFlagBits} THEN PrologueOf(stream)
                                                             ELSE MessageIn(stream, At)
    IN  /\ handler' = Told(handler, [i \in 1 .. Len(made) |-> made[i].cb], what)
        /\ UNCHANGED given

Takes(messages) == \A m \in messages : Accepts(handler, state, m)

ReadingStep ==
    \/ ReadMagic
    \/ ReadFlagBits
    \/ CompletePartial(Takes(FramedInBuffer))
    \/ ExtendPartial
    \/ TakeWhole(Takes(FramedInChunk))
    \/ StartPartial
    \/ LeaveLoop
    \/ RecoverShort
    \/ RecoverNothing
    \/ RecoverFound
    \/ LeaveRecovery
    \/ \E n \in ChunkSizes : ReadChunk(n)

ReadingNext == ReadingStep /\ Listening

Reading == ReadingInit /\ [][ReadingNext]_readingVars

-----------------------------------------------------------------------------
InSections == state \in {ReadingHeader, ReadingData}

(* However the log is cut into chunks, also inside headers and inside       *)
(* corrupt stretches, the callbacks are a prefix of those of the whole log  *)
(* (a chunk may end before the next message does), with whatever the        *)
(* handler refuses on the way. Until an exception leaves the reader: then   *)
(* the rest of the chunk is lost.                                           *)
WholeLog == ReadLog(stream, given)

ChunkingInvisible == InSections /\ ~ escaped => IsPrefix(calls, WholeLog.calls)

(* Once the whole log is fed and no recovery left a message in the buffer,  *)
(* nothing of it is missing, neither in the calls nor in what the handler   *)
(* has made of them. (An empty message of three bytes at the very end waits *)
(* too: a chunk is framed only if it is longer than a header, so whether it *)
(* is reported depends on the cut.)                                         *)
MessageWaits == Len(buffer) >= HeaderLen /\ Len(buffer) >= MsgLen(buffer)

AllRead ==
    /\ pc = "idle" /\ ~ escaped
    /\ fed = Len(stream)
    /\ InSections
    /\ ~ MessageWaits

NothingMissed == AllRead => calls = WholeLog.calls /\ handler = WholeLog.handler

(* ulog_parsing_test.cpp reads a log into a Writer and compares: copying    *)
(* the copy makes the same bytes again. Of a corrupt log too, but two       *)
(* things a Writer does not write: the end of a header, when the message    *)
(* that ended it was then refused, and flag bits the log does not have,     *)
(* where the reader wants so many bytes in one piece.                       *)
HasCall(cb) == \E i \in 1 .. Len(calls) : calls[i].cb = cb

HeaderEndIsCopied ==
    \A i \in 1 .. Len(calls) : calls[i].cb = "headerComplete" =>
      i < Len(calls) /\ calls[i + 1].cb \in DataOnly /\ calls[i + 1].at = calls[i].at

CopyIsStable ==
    /\ handler.kind = "Writer" /\ AllRead
    /\ HeaderEndIsCopied
    /\ Len(handler.out) >= FileHeaderLen + FlagBitsLen
    => ReadLog(handler.out, NewWriter).handler = handler

(* A container that reads the copy of a log without errors ends up with     *)
(* what it gets from the log itself: Writer and constructors agree on every *)
(* field of every kind of message.                                          *)
CopyReadsAlike ==
    LET kept(log) == ReadLog(log, Unfilled("FullLog")).handler
    IN  /\ handler.kind = "Writer" /\ AllRead
        /\ ~ HasCall("error")
        /\ kept(stream).errors = 0
        => kept(handler.out) = kept(stream)

(* What came in parts is kept in parts: under each key a list begins with   *)
(* each multi info that is not continued, and the others follow the one     *)
(* before them. Those before the first are refused.                         *)
MultiInfos == SelectSeq(calls, LAMBDA c :
                c.cb = "messageInfo" /\ MsgType(MessageIn(stream, c.at)) = INFO_MULTIPLE)

PartsOf(key) ==
    LET of    == SelectSeq([i \in 1 .. Len(MultiInfos) |-> MessageIn(stream, MultiInfos[i].at)],
                           LAMBDA m : NameOf(FieldOf(m)) = key)
        begun == {i \in 1 .. Len(of) : ~ IsContinued(of[i])}
    IN  [i \in 1 .. Cardinality(begun) |->
           LET starts == SetToSortSeq(begun, <)
               end    == IF i = Len(starts) THEN Len(of) ELSE starts[i + 1] - 1
           IN  [j \in 1 .. end - starts[i] + 1 |-> Keyed(of[starts[i] + j - 1])]]

PartsStayTogether ==
    handler.kind = "DataContainer" /\ handler.config = "FullLog" =>
      \A key \in DOMAIN handler.multi : handler.multi[key] = PartsOf(key)

(* StorageConfig::Header keeps "header in memory": what was read before the *)
(* message that ends the header, and nothing after it but errors and, since *)
(* parameterDefault does not ask, default parameters. (Behind an exception  *)
(* that leaves it, the reader goes on with the next chunk.)                 *)
HeaderEnd == CHOOSE p \in 0 .. Len(stream) : [cb |-> "headerComplete", at |-> p] \in Range(calls)

OnlyHeaderKept ==
    /\ given.kind = "DataContainer" /\ given.config = "Header"
    /\ InSections /\ ~ escaped /\ HasCall("headerComplete")
    => [handler EXCEPT !.headerComplete = FALSE, !.errors = 0, !.defaultParameters = <<>>] =
       [ReadUpTo(stream, HeaderEnd, given).handler
          EXCEPT !.errors = 0, !.defaultParameters = <<>>]
=============================================================================
