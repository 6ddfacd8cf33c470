----------------------------- MODULE ReaderProofs -----------------------------
(***************************************************************************)
(* Theorems about Reader, for every log, every way to cut it into chunks,  *)
(* every initial buffer size and every handler: the safety of a call, the  *)
(* measure by which every call returns, the callbacks there are, in which  *)
(* order and for which bytes of the log, and that it implements LogParser. *)
(***************************************************************************)
EXTENDS Reader, SequenceTheorems, TLAPS

Prologue == {ReadingMagic, ReadingFlagBits}

(***************************************************************************)
(* The inductive invariant. Recovery needs room in the buffer to append to *)
(* (RoomToRecover), which it has because a handled message leaves the      *)
(* buffer before recovery begins, and because a fruitless search leaves    *)
(* three bytes in a buffer that is larger (Enlarged). Nothing is buffered  *)
(* before the prologue is over (NothingBuffered).                          *)
(***************************************************************************)
Enlarged        == capacity > HeaderLen
RoomToRecover   == needRecovery => Len(buffer) < capacity
RecoverMeans    == pc = "recover" => needRecovery
IdleConsumed    == pc = "idle" => length = 0
NothingBuffered == state \in Prologue =>
                     /\ buffer = <<>>
                     /\ ~ needRecovery
                     /\ pc = "loop" => length = 0

IInv == /\ TypeOK
        /\ BufferFits
        /\ Enlarged
        /\ RoomToRecover
        /\ RecoverMeans
        /\ IdleConsumed
        /\ NothingBuffered
        /\ BufferIsContiguous

(* b is what the log holds right before the position `end'. *)
EndsAt(b, end) == b = SubSeq(stream, end - Len(b) + 1, end)

-----------------------------------------------------------------------------
(* A header of bytes says a message no shorter than itself. *)
LEMMA HeaderBytes ==
    ASSUME NEW m \in Seq(Byte), Len(m) >= HeaderLen
    PROVE  MsgLen(m) \in Nat /\ MsgLen(m) >= HeaderLen
  <1>1. 1 \in 1 .. Len(m) /\ 2 \in 1 .. Len(m)
    BY LenProperties DEF HeaderLen
  <1>2. m[1] \in Byte /\ m[2] \in Byte
    BY <1>1, ElementOfSeq
  <1>3. \A x, y \in Byte : x + 256 * y \in Nat
    BY DEF Byte
  <1>4. MsgSize(m) \in Nat
    BY <1>2, <1>3 DEF MsgSize
  <1> QED BY <1>4 DEF MsgLen, HeaderLen

(* n bytes of the chunk are n bytes. *)
LEMMA DataBytes ==
    ASSUME TypeOK, NEW n \in 0 .. length
    PROVE  Data(n) \in Seq(Byte) /\ Len(Data(n)) = n
  <1>1. stream \in Seq(Byte)
    BY StreamsAssumption DEF TypeOK
  <1>2. \A i \in fed - length + 1 .. fed - length + n : stream[i] \in Byte
    BY <1>1 DEF TypeOK
  <1>3. fed - length + 1 \in Int /\ fed - length + n \in Int
    BY DEF TypeOK
  <1> QED BY <1>2, <1>3, SubSeqProperties DEF Data, TypeOK

(* What is recorded of callbacks has the type of a record of callbacks. *)
LEMMA CallingType ==
    ASSUME TypeOK, NEW cbs \in Seq(Callbacks)
    PROVE  Calling(cbs) \in Seq([cb : Callbacks, at : Nat])
  <1>1. At \in Nat
    BY DEF At, TypeOK
  <1>2. [i \in 1 .. Len(cbs) |-> [cb |-> cbs[i], at |-> At]] \in Seq([cb : Callbacks, at : Nat])
    BY <1>1
  <1> QED BY <1>2 DEF Calling, TypeOK

(* Each message type that is handled has a callback. *)
LEMMA CallbackType ==
    ASSUME NEW t \in HeaderTypes \union DataTypes
    PROVE  CallbackOf(t) \in Callbacks
  BY DEF HeaderTypes, DataTypes, InBothSections, EndsHeader, CallbackOf, Callbacks, HeaderOnly,
         DataOnly, AnyTime, INFO, INFO_MULTIPLE, PARAMETER, PARAMETER_DEFAULT, FORMAT,
         ADD_LOGGED_MSG, LOGGING, LOGGING_TAGGED, DATA, DROPOUT, SYNC

(* Handling a message leaves the parser state or ends the header, and makes *)
(* a sequence of callbacks.                                                 *)
LEMMA HandlingType ==
    ASSUME NEW st \in States, NEW m, NEW accepts
    PROVE  /\ \/ Handling(st, m, accepts).state = st
              \/ st = ReadingHeader /\ Handling(st, m, accepts).state = ReadingData
           /\ Handling(st, m, accepts).calls \in Seq(Callbacks)
  <1> DEFINE t     == MsgType(m)
             now   == StateFor(st, t)
             ends  == IF now # st THEN <<"headerComplete">> ELSE <<>>
             built == IF Handled(now, t) THEN ParseOutcome(m) ELSE Parsed
             made  == IF Handled(now, t) /\ built = Parsed THEN <<CallbackOf(t)>> ELSE <<>>
  <1>1. now = st \/ (st = ReadingHeader /\ now = ReadingData)
    BY DEF StateFor
  <1>2. ends \in Seq(Callbacks)
    <2>1. \A c \in Callbacks : <<c>> \in Seq(Callbacks)
      OBVIOUS
    <2>2. "headerComplete" \in Callbacks
      BY DEF Callbacks
    <2> HIDE DEF now
    <2> QED BY <2>1, <2>2, EmptySeq
  <1>3. made \in Seq(Callbacks)
    <2>1. \A c \in Callbacks : <<c>> \in Seq(Callbacks)
      OBVIOUS
    <2>2. Handled(now, t) => CallbackOf(t) \in Callbacks
      BY CallbackType DEF Handled
    <2> HIDE DEF now, t, built
    <2> QED BY <2>1, <2>2, EmptySeq
  <1>4. Dispatch(st, m, accepts).state = now
    BY DEF Dispatch
  <1>5. Dispatch(st, m, accepts).calls = ends \o made
    BY DEF Dispatch
  <1>6. ends \o made \in Seq(Callbacks)
    <2> HIDE DEF ends, made
    <2> QED BY <1>2, <1>3, ConcatProperties
  <1>7. <<>> \in Seq(Callbacks)
    BY EmptySeq
  <1> HIDE DEF ends, made, now
  <1> QED BY <1>1, <1>4, <1>5, <1>6, <1>7 DEF Handling

-----------------------------------------------------------------------------
(* Bytes of the chunk after the buffered ones: a longer piece of the log.   *)
LEMMA Appending ==
    ASSUME TypeOK, NEW n \in 0 .. length
    PROVE  /\ buffer \o Data(n) \in Seq(Byte)
           /\ Len(buffer \o Data(n)) = Len(buffer) + n
           /\ EndsAt(buffer, fed - length) => EndsAt(buffer \o Data(n), fed - length + n)
  <1>1. Data(n) \in Seq(Byte) /\ Len(Data(n)) = n
    BY DataBytes
  <1>2. /\ buffer \o Data(n) \in Seq(Byte)
        /\ Len(buffer \o Data(n)) = Len(buffer) + n
    BY <1>1, ConcatProperties DEF TypeOK
  <1>3. stream \in Seq(Byte) /\ Len(stream) \in Nat /\ Len(buffer) \in Nat
    BY StreamsAssumption, LenProperties DEF TypeOK
  <1>4. SubSeq(stream, At + 1, fed - length) \o SubSeq(stream, fed - length + 1, fed - length + n)
          = SubSeq(stream, At + 1, fed - length + n)
    <2>1. /\ At + 1 \in 1 .. Len(stream) + 1
          /\ fed - length \in (At + 1) - 1 .. Len(stream)
          /\ fed - length + n \in fed - length .. Len(stream)
      BY <1>3 DEF At, TypeOK
    <2> QED BY <1>3, <2>1, ConcatAdjacentSubSeq
  <1>5. \A l : l = Len(buffer) + n => (fed - length + n) - l = At
    BY <1>3 DEF At, TypeOK
  <1>6. EndsAt(buffer, fed - length) <=> buffer = SubSeq(stream, At + 1, fed - length)
    BY DEF EndsAt, At
  <1>7. EndsAt(buffer \o Data(n), fed - length + n)
          <=> buffer \o Data(n) = SubSeq(stream, At + 1, fed - length + n)
    <2>1. (fed - length + n) - Len(buffer \o Data(n)) = At
      BY <1>2, <1>5, Zenon
    <2> QED BY <2>1, Zenon DEF EndsAt
  <1> QED BY <1>2, <1>4, <1>6, <1>7 DEF Data

(* What is left of a piece of the log after its first n bytes. *)
LEMMA Suffix ==
    ASSUME NEW s \in Seq(Byte), NEW a \in Nat, NEW c \in a .. Len(s), NEW n \in 0 .. c - a
    PROVE  SubSeq(SubSeq(s, a + 1, c), n + 1, c - a) = SubSeq(s, a + n + 1, c)
  <1>1. CASE n = c - a
    BY <1>1, SubSeqEmpty
  <1>2. CASE n # c - a
    <2>1. /\ a + 1 \in 1 .. Len(s) /\ c \in 1 .. Len(s)
          /\ n + 1 \in 1 .. c - (a + 1) + 1 /\ c - a \in 1 .. c - (a + 1) + 1
      BY <1>2, LenProperties
    <2>2. SubSeq(SubSeq(s, a + 1, c), n + 1, c - a)
            = SubSeq(s, (a + 1) + (n + 1) - 1, (a + 1) + (c - a) - 1)
      BY <2>1, SubSeqOfSubSeq
    <2>3. (a + 1) + (n + 1) - 1 = a + n + 1 /\ (a + 1) + (c - a) - 1 = c
      OBVIOUS
    <2> QED BY <2>2, <2>3
  <1> QED BY <1>1, <1>2

(* The same of the buffer with n bytes of the chunk behind it, k removed.   *)
LEMMA Dropping ==
    ASSUME TypeOK, NEW n \in 0 .. length, NEW k \in 0 .. Len(buffer) + n,
           NEW rest, rest = SubSeq(buffer \o Data(n), k + 1, Len(buffer \o Data(n)))
    PROVE  /\ rest \in Seq(Byte)
           /\ Len(rest) = Len(buffer) + n - k
           /\ EndsAt(buffer, fed - length) => EndsAt(rest, fed - length + n)
  <1> DEFINE b == buffer \o Data(n)
  <1>1. b \in Seq(Byte) /\ Len(b) = Len(buffer) + n
    BY Appending
  <1>2. Len(buffer) \in Nat /\ stream \in Seq(Byte) /\ Len(stream) \in Nat
    BY LenProperties, StreamsAssumption DEF TypeOK
  <1>3. rest \in Seq(Byte) /\ Len(rest) = Len(b) - k
    <2>1. \A i \in k + 1 .. Len(b) : b[i] \in Byte
      BY <1>1, <1>2, ElementOfSeq
    <2>2. k + 1 \in Int /\ Len(b) \in Int /\ k <= Len(b)
      BY <1>1, <1>2
    <2> HIDE DEF b
    <2>3. rest = SubSeq(b, k + 1, Len(b))
      BY DEF b
    <2>4. /\ SubSeq(b, k + 1, Len(b)) \in Seq(Byte)
          /\ Len(SubSeq(b, k + 1, Len(b))) = IF k + 1 <= Len(b) THEN Len(b) - (k + 1) + 1 ELSE 0
      BY <2>1, <2>2, SubSeqProperties
    <2>5. (IF k + 1 <= Len(b) THEN Len(b) - (k + 1) + 1 ELSE 0) = Len(b) - k
      BY <2>2
    <2> QED BY <2>3, <2>4, <2>5
  <1>4. EndsAt(buffer, fed - length) => EndsAt(rest, fed - length + n)
    <2> DEFINE c == fed - length + n
    <2> SUFFICES ASSUME EndsAt(buffer, fed - length)
                 PROVE  EndsAt(rest, c)
      OBVIOUS
    <2>1. b = SubSeq(stream, At + 1, c)
      <3>1. c - Len(b) = At
        BY <1>1, <1>2 DEF At, TypeOK
      <3> QED BY <3>1, Appending DEF EndsAt
    <2>2. At \in Nat /\ c \in At .. Len(stream) /\ k \in 0 .. c - At /\ Len(b) = c - At
      BY <1>1, <1>2 DEF At, TypeOK
    <2>3. rest = SubSeq(stream, At + k + 1, c)
      BY <1>2, <2>1, <2>2, Suffix
    <2>4. c - Len(rest) = At + k
      <3>1. Len(rest) = Len(buffer) + n - k
        BY <1>1, <1>3
      <3>2. fed \in Int /\ length \in Int /\ k \in Int /\ n \in Int
        BY <1>2 DEF TypeOK
      <3>3. \A l : l = Len(buffer) + n - k => c - l = At + k
        BY <1>2, <3>2 DEF At
      <3> QED BY <3>1, <3>3, Zenon
    <2> QED BY <2>3, <2>4 DEF EndsAt
  <1> QED BY <1>1, <1>3, <1>4

-----------------------------------------------------------------------------
(* ensure_enough_data takes no more than the chunk has. *)
LEMMA FilledType ==
    ASSUME TypeOK
    PROVE  /\ Added \in 0 .. length
           /\ Filled \in Seq(Byte)
           /\ Len(Filled) = Len(buffer) + Added
  <1>1. Len(buffer) \in Nat /\ length \in Nat
    BY LenProperties DEF TypeOK
  <1>2. Least(HeaderLen, length) \in 0 .. length
    BY <1>1 DEF Least, HeaderLen
  <1> DEFINE b == buffer \o Data(Least(HeaderLen, length))
  <1>3. b \in Seq(Byte)
    BY <1>2, Appending
  <1>4. Required(b) \in Int
    <2> HIDE DEF b
    <2>1. CASE Len(b) < HeaderLen
      BY <2>1 DEF Required, HeaderLen
    <2>2. CASE ~ (Len(b) < HeaderLen)
      BY <2>2, <1>3, HeaderBytes, LenProperties DEF Required, HeaderLen
    <2> QED BY <2>1, <2>2
  <1>5. Lacking \in Int
    <2> HIDE DEF b
    <2>1. Lacking = Required(b) - Len(buffer)
      BY DEF Lacking, b
    <2> QED BY <1>1, <1>4, <2>1
  <1>6. Added \in 0 .. length
    BY <1>1, <1>5 DEF Added, Greatest, Least
  <1> QED BY <1>6, Appending DEF Filled

(* A message framed in the buffer is a part of it, and not an empty one. *)
LEMMA FramedInBufferType ==
    ASSUME TypeOK, NEW m \in FramedInBuffer
    PROVE  Len(m) \in HeaderLen .. Len(Filled)
  <1>1. Filled \in Seq(Byte) /\ Len(Filled) \in Nat
    BY FilledType, LenProperties
  <1>2. m = SubSeq(Filled, 1, MsgLen(Filled)) /\ Len(Filled) >= HeaderLen /\ Len(Filled) >= MsgLen(Filled)
    BY DEF FramedInBuffer
  <1>3. MsgLen(Filled) \in HeaderLen .. Len(Filled)
    BY <1>1, <1>2, HeaderBytes DEF HeaderLen
  <1>4. \A i \in 1 .. MsgLen(Filled) : Filled[i] \in Byte
    BY <1>1, <1>3, ElementOfSeq DEF HeaderLen
  <1>5. Len(SubSeq(Filled, 1, MsgLen(Filled)))
          = IF 1 <= MsgLen(Filled) THEN MsgLen(Filled) - 1 + 1 ELSE 0
    BY <1>3, <1>4, SubSeqProperties DEF HeaderLen
  <1>6. (IF 1 <= MsgLen(Filled) THEN MsgLen(Filled) - 1 + 1 ELSE 0) = MsgLen(Filled)
    BY <1>3 DEF HeaderLen
  <1> QED BY <1>2, <1>3, <1>5, <1>6, Zenon

(* A message framed in the chunk does not reach behind its end. *)
LEMMA FramedInChunkType ==
    ASSUME TypeOK, NEW m \in FramedInChunk
    PROVE  Len(m) \in 0 .. length
  <1>1. length \in Nat
    BY DEF TypeOK
  <1>2. /\ m = Data(MsgLen(Data(HeaderLen)))
        /\ length > HeaderLen
        /\ length >= MsgLen(Data(HeaderLen))
    BY DEF FramedInChunk
  <1>3. Data(HeaderLen) \in Seq(Byte) /\ Len(Data(HeaderLen)) = HeaderLen
    <2>1. HeaderLen \in 0 .. length
      BY <1>1, <1>2 DEF HeaderLen
    <2> QED BY <2>1, DataBytes
  <1>4. MsgLen(Data(HeaderLen)) \in Nat
    <2>1. HeaderLen >= HeaderLen
      BY DEF HeaderLen
    <2> QED BY <1>3, <2>1, HeaderBytes
  <1>5. MsgLen(Data(HeaderLen)) \in 0 .. length
    BY <1>1, <1>2, <1>4
  <1> QED BY <1>2, <1>5, DataBytes

(* Recovery appends no more than fits and no more than there is. *)
LEMMA SearchedType ==
    ASSUME TypeOK, BufferFits
    PROVE  /\ Appended \in 0 .. length
           /\ Searched \in Seq(Byte)
           /\ Len(Searched) = Len(buffer) + Appended
           /\ Len(Searched) <= capacity
  <1>1. Len(buffer) \in Nat /\ length \in Nat /\ capacity \in Nat /\ Len(buffer) <= capacity
    BY LenProperties DEF TypeOK, BufferFits
  <1>2. Appended \in 0 .. length /\ Len(buffer) + Appended <= capacity
    BY <1>1 DEF Appended, Least
  <1> QED BY <1>2, Appending DEF Searched

(* Callbacks recorded one after the other, with the error of a corruption. *)
LEMMA CorruptionCallsType ==
    ASSUME NEW cbs \in Seq(Callbacks)
    PROVE  cbs \o CorruptionCalls \in Seq(Callbacks)
  <1>1. \A c \in Callbacks : <<c>> \in Seq(Callbacks)
    OBVIOUS
  <1>2. "error" \in Callbacks
    BY DEF Callbacks
  <1>3. CorruptionCalls \in Seq(Callbacks)
    BY <1>1, <1>2, EmptySeq DEF CorruptionCalls
  <1> QED BY <1>3, ConcatProperties

-----------------------------------------------------------------------------
(* What a step has to show to preserve the invariant, part by part. *)
LEMMA Preserved ==
    ASSUME TypeOK,
           stream' = stream, fed' \in 0 .. Len(stream), length' \in 0 .. fed',
           pc' \in Pcs, state' \in States,
           buffer' \in Seq(Byte), Len(buffer') <= fed' - length',
           capacity' \in Nat, capacity' > HeaderLen, Len(buffer') <= capacity',
           needRecovery' \in BOOLEAN, corruptionReported' \in BOOLEAN, escaped' \in BOOLEAN,
           calls' \in Seq([cb : Callbacks, at : Nat]),
           needRecovery' => Len(buffer') < capacity',
           pc' = "recover" => needRecovery',
           pc' = "idle" => length' = 0,
           NothingBuffered',
           ~ escaped' /\ Framing' => EndsAt(buffer', fed' - length')
    PROVE  IInv'
  <1>1. TypeOK'
    BY DEF TypeOK
  <1>2. BufferIsContiguous'
    BY DEF BufferIsContiguous, EndsAt, At
  <1> QED BY <1>1, <1>2 DEF IInv, BufferFits, Enlarged, RoomToRecover, RecoverMeans, IdleConsumed

(* The invariant says where the buffered bytes are, and holds of the first   *)
(* state.                                                                    *)
LEMMA Located ==
    ASSUME BufferIsContiguous
    PROVE  ~ escaped /\ Framing => EndsAt(buffer, fed - length)
  BY DEF BufferIsContiguous, EndsAt, At

LEMMA InitIInv == Init => IInv
  <1> SUFFICES ASSUME Init PROVE IInv
    OBVIOUS
  <1>1. stream \in Seq(Byte) /\ Len(stream) \in Nat
    BY StreamsAssumption, LenProperties DEF Init
  <1>2. buffer \in Seq(Byte) /\ Len(buffer) = 0 /\ calls \in Seq([cb : Callbacks, at : Nat])
    BY EmptySeq DEF Init
  <1>3. TypeOK
    <2>1. fed \in 0 .. Len(stream) /\ length \in 0 .. fed /\ fed - length = 0
      BY <1>1 DEF Init
    <2>2. stream \in Streams /\ pc \in Pcs /\ state \in States /\ capacity \in Nat
      BY BufferAssumption DEF Init, Pcs, States
    <2>3. needRecovery \in BOOLEAN /\ corruptionReported \in BOOLEAN /\ escaped \in BOOLEAN
      BY DEF Init
    <2>4. Len(buffer) <= fed - length
      BY <1>2, <2>1
    <2> QED BY <1>2, <2>1, <2>2, <2>3, <2>4 DEF TypeOK
  <1>4. BufferIsContiguous
    <2>1. SubSeq(stream, 1, 0) = <<>>
      BY SubSeqEmpty
    <2>2. At + 1 = 1 /\ fed - length = 0
      BY <1>2 DEF At, Init
    <2> QED BY <2>1, <2>2 DEF BufferIsContiguous, Init
  <1> QED BY <1>2, <1>3, <1>4, BufferAssumption
          DEF IInv, Init, BufferFits, Enlarged, RoomToRecover, RecoverMeans, IdleConsumed,
              NothingBuffered, HeaderLen

(* Handling a message in the loop: what it leaves in the buffer is again a   *)
(* piece of the log, and less than the buffer can hold.                      *)
LEMMA HandleKeeps ==
    ASSUME IInv, InLoop, NEW m, NEW accepts,
           NEW held \in Seq(Byte), NEW rest \in Seq(Byte), NEW unread \in 0 .. length,
           Handle(m, accepts, held, rest, unread), stream' = stream, fed' = fed,
           capacity' \in Nat, capacity' > HeaderLen,
           Len(held) <= capacity', Len(held) <= fed,
           Len(rest) < capacity', Len(rest) <= fed - unread,
           EndsAt(buffer, fed - length) => EndsAt(rest, fed - unread)
    PROVE  IInv'
  <1> DEFINE h == Handling(state, m, accepts)
  <1>1. TypeOK /\ fed \in 0 .. Len(stream) /\ length \in 0 .. fed
    BY DEF IInv, TypeOK
  <1>2. state \in States /\ state \notin Prologue
    BY DEF IInv, TypeOK, NothingBuffered, InLoop
  <1>3. h.calls \in Seq(Callbacks) /\ (h.state = state \/ (state = ReadingHeader /\ h.state = ReadingData))
    BY <1>2, HandlingType
  <1> HIDE DEF h
  <1>4. /\ h.state \in States
        /\ h.state \notin Prologue
    BY <1>2, <1>3 DEF States, Prologue, ReadingHeader, ReadingData, InvalidData, ReadingMagic,
                      ReadingFlagBits
  <1>5. /\ Calling(h.calls) \in Seq([cb : Callbacks, at : Nat])
        /\ Calling(h.calls \o CorruptionCalls) \in Seq([cb : Callbacks, at : Nat])
    BY <1>1, <1>3, CallingType, CorruptionCallsType
  <1>6. state' = h.state
    BY DEF Handle, h
  <1>7. NothingBuffered'
    BY <1>4, <1>6 DEF NothingBuffered
  <1>8. CASE /\ calls' = Calling(h.calls) /\ buffer' = rest /\ length' = unread
             /\ UNCHANGED <<pc, needRecovery, corruptionReported, escaped>>
    BY <1>1, <1>4, <1>5, <1>6, <1>7, <1>8, Preserved, Located DEF IInv, InLoop, TypeOK, Framing
  <1>9. CASE /\ calls' = Calling(h.calls \o CorruptionCalls) /\ buffer' = rest /\ length' = unread
             /\ needRecovery' = TRUE /\ corruptionReported' = TRUE /\ UNCHANGED <<pc, escaped>>
    BY <1>1, <1>4, <1>5, <1>6, <1>7, <1>9, Preserved, Located DEF IInv, InLoop, TypeOK, Framing
  <1>10. CASE /\ calls' = Calling(h.calls) /\ buffer' = held /\ length' = 0 /\ pc' = "idle"
              /\ escaped' = TRUE /\ UNCHANGED <<needRecovery, corruptionReported>>
    BY <1>1, <1>4, <1>5, <1>6, <1>7, <1>10, Preserved DEF IInv, InLoop, TypeOK, Pcs
  <1> QED BY <1>8, <1>9, <1>10 DEF Handle, h

-----------------------------------------------------------------------------
(* The actions. *)
LEMMA EntryType ==
    ASSUME state \in States, pc' = Entry(state)
    PROVE  /\ pc' \in {"idle", "prologue", "loop"}
           /\ state = InvalidData => pc' = "idle"
           /\ state # InvalidData => pc' # "idle"
           /\ state \in Prologue => pc' = "prologue"
  BY DEF Entry, States, Prologue, InvalidData, ReadingMagic, ReadingFlagBits, ReadingHeader,
         ReadingData

LEMMA ReadChunkKeeps == ASSUME IInv, NEW n \in ChunkSizes, ReadChunk(n) PROVE IInv'
  <1>1. n \in Nat /\ Len(stream) \in Nat /\ Len(buffer) \in Nat
    BY ChunksAssumption, StreamsAssumption, LenProperties DEF IInv, TypeOK
  <1>2. fed' \in 0 .. Len(stream) /\ length' \in 0 .. fed' /\ length = 0
    BY <1>1 DEF ReadChunk, IInv, TypeOK, IdleConsumed
  <1>3. Len(buffer) <= fed' - length' /\ (state # InvalidData => fed' - length' = fed - length)
    BY <1>1, <1>2, EntryType DEF ReadChunk, IInv, TypeOK
  <1>4. NothingBuffered'
    BY EntryType DEF ReadChunk, IInv, TypeOK, NothingBuffered
  <1>5. pc' \in Pcs /\ (pc' = "idle" => length' = 0) /\ pc' # "recover"
    BY EntryType DEF ReadChunk, IInv, TypeOK, Pcs
  <1>6. ~ escaped' /\ Framing' => EndsAt(buffer', fed' - length')
    <2>1. Framing' => state # InvalidData
      BY EntryType DEF ReadChunk, IInv, TypeOK, Framing
    <2> QED BY <1>3, <2>1, Located DEF ReadChunk, IInv, Framing
  <1> QED BY <1>2, <1>3, <1>4, <1>5, <1>6, Preserved
          DEF ReadChunk, IInv, TypeOK, BufferFits, Enlarged, RoomToRecover

(* In the prologue the buffer is empty, so any position is the end of it.    *)
LEMMA EmptyEnds ==
    ASSUME TypeOK, buffer = <<>>, NEW l \in 0 .. fed
    PROVE  EndsAt(buffer, fed - l)
  <1>1. Len(buffer) = 0 /\ fed \in Int /\ l \in Int
    BY DEF TypeOK
  <1>2. SubSeq(stream, fed - l + 1, fed - l) = <<>>
    BY <1>1, SubSeqEmpty
  <1>3. \A k : k = 0 => fed - l - k + 1 = fed - l + 1
    BY <1>1
  <1> QED BY <1>1, <1>2, <1>3 DEF EndsAt

LEMMA ReadMagicKeeps == ASSUME IInv, ReadMagic PROVE IInv'
  <1>1. buffer = <<>> /\ Len(buffer) = 0 /\ ~ needRecovery /\ length \in Nat
    BY DEF IInv, NothingBuffered, Prologue, ReadMagic, TypeOK
  <1>2. length' \in 0 .. length
    BY <1>1 DEF ReadMagic, FileHeaderLen
  <1>3. calls' \in Seq([cb : Callbacks, at : Nat])
    <2>1. <<"fatal">> \in Seq(Callbacks)
      BY DEF Callbacks
    <2> QED BY <2>1, CallingType DEF ReadMagic, IInv, TypeOK
  <1>4. state' \in States /\ NothingBuffered' /\ pc' \in {"prologue", "loop"}
    BY <1>1 DEF ReadMagic, States, NothingBuffered, Prologue, InvalidData, ReadingMagic,
                ReadingFlagBits, FileHeaderLen
  <1>5. EndsAt(buffer', fed' - length')
    BY <1>1, <1>2, EmptyEnds DEF ReadMagic, IInv, TypeOK
  <1>6. /\ stream' = stream /\ fed' \in 0 .. Len(stream) /\ length' \in 0 .. fed'
        /\ Len(buffer') <= fed' - length' /\ buffer' \in Seq(Byte)
    <2>1. stream' = stream /\ fed' = fed /\ buffer' = buffer
      BY DEF ReadMagic
    <2>2. fed \in 0 .. Len(stream) /\ length \in 0 .. fed /\ Len(stream) \in Nat
      BY StreamsAssumption, LenProperties DEF IInv, TypeOK
    <2>3. Len(buffer') = 0 /\ buffer' \in Seq(Byte)
      BY <1>1, <2>1 DEF IInv, TypeOK
    <2>4. length' \in 0 .. fed' /\ 0 <= fed' - length'
      <3>1. \A l \in 0 .. length : l \in 0 .. fed /\ 0 <= fed - l
        BY <2>2
      <3> QED BY <1>2, <2>1, <3>1
    <2> QED BY <2>1, <2>2, <2>3, <2>4
  <1>7. /\ capacity' \in Nat /\ capacity' > HeaderLen /\ Len(buffer') <= capacity'
        /\ needRecovery' = FALSE /\ corruptionReported' \in BOOLEAN /\ escaped' \in BOOLEAN
    BY <1>1 DEF ReadMagic, IInv, TypeOK, BufferFits, Enlarged
  <1>8. pc' \in Pcs /\ pc' # "recover" /\ pc' # "idle"
    BY <1>4 DEF Pcs
  <1>9. TypeOK
    BY DEF IInv
  <1> QED BY <1>3, <1>4, <1>5, <1>6, <1>7, <1>8, <1>9, Preserved

(* No more is skipped than a flag bits message has, and not less than none. *)
LEMMA FlagBitsType ==
    ASSUME TypeOK, length >= FlagBitsLen
    PROVE  /\ FlagBitsSkip(Data(FlagBitsLen)) \in Nat
           /\ FlagBitsCalls(Data(FlagBitsLen)) \in Seq(Callbacks)
  <1> DEFINE b == Data(FlagBitsLen)
  <1>1. b \in Seq(Byte) /\ Len(b) = FlagBitsLen
    <2>1. FlagBitsLen \in 0 .. length
      BY DEF TypeOK, FlagBitsLen
    <2> QED BY <2>1, DataBytes
  <1>2. FlagBitsLen >= HeaderLen
    BY DEF FlagBitsLen, HeaderLen
  <1> HIDE DEF b
  <1>3. MsgLen(b) \in Nat
    BY <1>1, <1>2, HeaderBytes
  <1>4. \A c \in Callbacks : <<c>> \in Seq(Callbacks)
    OBVIOUS
  <1>5. {"fileHeader", "error", "fatal"} \subseteq Callbacks
    BY DEF Callbacks
  <1>6. /\ (IF HasAppendedData(b) THEN <<"error">> ELSE <<>>) \in Seq(Callbacks)
        /\ (IF IsIncompatible(b) THEN <<"fatal">> ELSE <<"fileHeader">>) \in Seq(Callbacks)
        /\ <<"fileHeader">> \in Seq(Callbacks)
    BY <1>4, <1>5, EmptySeq
  <1>7. FlagBitsCalls(b) \in Seq(Callbacks)
    BY <1>6, ConcatProperties DEF FlagBitsCalls
  <1> QED BY <1>3, <1>7 DEF FlagBitsSkip, b

LEMMA ReadFlagBitsKeeps == ASSUME IInv, ReadFlagBits PROVE IInv'
  <1>1. buffer = <<>> /\ Len(buffer) = 0 /\ ~ needRecovery /\ length \in Nat /\ TypeOK
    BY DEF IInv, NothingBuffered, Prologue, ReadFlagBits, TypeOK
  <1>2. /\ length' \in 0 .. length
        /\ calls' \in Seq([cb : Callbacks, at : Nat])
        /\ state' \in {InvalidData, ReadingHeader}
    <2>1. CASE length < FlagBitsLen
      <3>1. <<"fatal">> \in Seq(Callbacks)
        BY DEF Callbacks
      <3>2. state' = InvalidData /\ calls' = Calling(<<"fatal">>) /\ length' = length
        BY <2>1 DEF ReadFlagBits
      <3>3. Calling(<<"fatal">>) \in Seq([cb : Callbacks, at : Nat])
        BY <1>1, <3>1, CallingType
      <3> QED BY <1>1, <3>2, <3>3
    <2>2. CASE ~ (length < FlagBitsLen)
      <3>1. length >= FlagBitsLen
        BY <1>1, <2>2 DEF FlagBitsLen
      <3>2. /\ FlagBitsSkip(Data(FlagBitsLen)) \in Nat
            /\ FlagBitsCalls(Data(FlagBitsLen)) \in Seq(Callbacks)
        BY <1>1, <3>1, FlagBitsType
      <3>3. \A k \in Nat : Greatest(length - k, 0) \in 0 .. length
        BY <1>1 DEF Greatest
      <3>4. /\ state' \in {InvalidData, ReadingHeader}
            /\ calls' = Calling(FlagBitsCalls(Data(FlagBitsLen)))
            /\ length' = Greatest(length - FlagBitsSkip(Data(FlagBitsLen)), 0)
        BY <2>2 DEF ReadFlagBits
      <3> QED BY <1>1, <3>2, <3>3, <3>4, CallingType
    <2> QED BY <2>1, <2>2
  <1>3. state' \in States /\ NothingBuffered'
    BY <1>2 DEF States, NothingBuffered, Prologue, InvalidData, ReadingMagic, ReadingFlagBits,
                ReadingHeader
  <1>4. EndsAt(buffer', fed' - length')
    BY <1>1, <1>2, EmptyEnds DEF ReadFlagBits, TypeOK
  <1>5. /\ stream' = stream /\ fed' \in 0 .. Len(stream) /\ length' \in 0 .. fed'
        /\ Len(buffer') <= fed' - length' /\ buffer' \in Seq(Byte)
    <2>1. stream' = stream /\ fed' = fed /\ buffer' = buffer
      BY DEF ReadFlagBits
    <2>2. fed \in 0 .. Len(stream) /\ length \in 0 .. fed /\ Len(stream) \in Nat
      BY StreamsAssumption, LenProperties DEF IInv, TypeOK
    <2>3. Len(buffer') = 0 /\ buffer' \in Seq(Byte)
      BY <1>1, <2>1 DEF IInv, TypeOK
    <2>4. length' \in 0 .. fed' /\ 0 <= fed' - length'
      <3>1. \A l \in 0 .. length : l \in 0 .. fed /\ 0 <= fed - l
        BY <2>2
      <3> QED BY <1>2, <2>1, <3>1
    <2> QED BY <2>1, <2>2, <2>3, <2>4
  <1>6. /\ capacity' \in Nat /\ capacity' > HeaderLen /\ Len(buffer') <= capacity'
        /\ needRecovery' = FALSE /\ corruptionReported' \in BOOLEAN /\ escaped' \in BOOLEAN
    BY <1>1 DEF ReadFlagBits, IInv, TypeOK, BufferFits, Enlarged
  <1>7. pc' \in Pcs /\ pc' # "recover" /\ pc' # "idle"
    BY DEF ReadFlagBits, Pcs
  <1> QED BY <1>1, <1>2, <1>3, <1>4, <1>5, <1>6, <1>7, Preserved

(* The bytes that are not consumed shrink by n. *)
LEMMA Consuming ==
    ASSUME TypeOK, NEW n \in 0 .. length
    PROVE  /\ length - n \in 0 .. length
           /\ length - n \in 0 .. fed
           /\ fed - (length - n) = fed - length + n
           /\ Len(buffer) + n <= fed - (length - n)
           /\ Len(buffer) + n <= fed
  BY LenProperties DEF TypeOK

LEMMA CompletePartialKeeps ==
    ASSUME IInv, NEW accepts, CompletePartial(accepts) PROVE IInv'
  <1>1. TypeOK /\ capacity \in Nat /\ capacity > HeaderLen /\ fed \in Nat /\ Len(buffer) \in Nat
    BY StreamsAssumption, LenProperties DEF IInv, TypeOK, Enlarged
  <1>2. PICK m \in FramedInBuffer :
          Handle(m, accepts, Filled, SubSeq(Filled, Len(m) + 1, Len(Filled)), length - Added)
    BY DEF CompletePartial
  <1> DEFINE rest == SubSeq(Filled, Len(m) + 1, Len(Filled))
  <1>3. /\ Added \in 0 .. length /\ Filled \in Seq(Byte)
        /\ Len(Filled) = Len(buffer) + Added
        /\ Len(m) \in HeaderLen .. Len(Filled)
    BY <1>1, FilledType, FramedInBufferType
  <1>4. /\ Len(m) \in 0 .. Len(buffer) + Added
        /\ rest = SubSeq(buffer \o Data(Added), Len(m) + 1, Len(buffer \o Data(Added)))
    BY <1>1, <1>3 DEF Filled, HeaderLen
  <1>5. /\ rest \in Seq(Byte)
        /\ Len(rest) = Len(buffer) + Added - Len(m)
        /\ EndsAt(buffer, fed - length) => EndsAt(rest, fed - length + Added)
    BY <1>1, <1>3, <1>4, Dropping
  <1> HIDE DEF rest
  <1>6. /\ capacity' \in Nat /\ capacity' > HeaderLen /\ Len(Filled) <= capacity'
    BY <1>1, <1>3 DEF CompletePartial, Greatest, HeaderLen
  <1>7. /\ length - Added \in 0 .. length
        /\ fed - (length - Added) = fed - length + Added
        /\ Len(Filled) <= fed
        /\ Len(buffer) + Added <= fed - (length - Added)
    BY <1>1, <1>3, Consuming
  <1>8. Len(rest) < capacity' /\ Len(rest) <= fed - (length - Added)
    <2>1. Len(rest) < Len(Filled) /\ Len(rest) \in Nat
      BY <1>1, <1>3, <1>5, LenProperties DEF HeaderLen
    <2>2. \A u : Len(buffer) + Added <= u /\ u \in Int => Len(rest) <= u
      BY <1>1, <1>3, <2>1
    <2>3. fed - (length - Added) \in Int
      BY <1>1, <1>3 DEF TypeOK
    <2> QED BY <1>1, <1>3, <1>6, <1>7, <2>1, <2>2, <2>3
  <1>9. InLoop /\ stream' = stream /\ fed' = fed
    BY DEF CompletePartial
  <1> QED BY <1>2, <1>3, <1>5, <1>6, <1>7, <1>8, <1>9, HandleKeeps DEF rest

(* A step of the loop or of the recovery that only moves n bytes from the    *)
(* chunk to the buffer and drops k bytes of it.                              *)
LEMMA MovingKeeps ==
    ASSUME IInv, NEW n \in 0 .. length, NEW k \in 0 .. Len(buffer) + n,
           stream' = stream, fed' = fed, escaped' = escaped, calls' = calls, state' = state,
           corruptionReported' = corruptionReported,
           state \notin Prologue, pc # "idle",
           buffer' = SubSeq(buffer \o Data(n), k + 1, Len(buffer \o Data(n))),
           length' = length - n \/ (length' = 0 /\ ~ Framing'),
           capacity' \in Nat, capacity' > HeaderLen, Len(buffer) + n - k <= capacity',
           needRecovery' \in BOOLEAN, needRecovery' => Len(buffer) + n - k < capacity',
           pc' \in Pcs, pc' = "recover" => needRecovery', pc' = "idle" => length' = 0
    PROVE  IInv'
  <1>1. TypeOK /\ fed \in 0 .. Len(stream) /\ Len(buffer) \in Nat /\ fed \in Nat /\ length \in 0 .. fed
    BY StreamsAssumption, LenProperties DEF IInv, TypeOK
  <1>2. /\ buffer' \in Seq(Byte)
        /\ Len(buffer') = Len(buffer) + n - k
        /\ EndsAt(buffer, fed - length) => EndsAt(buffer', fed - length + n)
    BY <1>1, Dropping
  <1>3. /\ length - n \in 0 .. fed
        /\ fed - (length - n) = fed - length + n
        /\ Len(buffer) + n <= fed - (length - n)
        /\ Len(buffer) + n <= fed
    BY <1>1, Consuming
  <1>4. length' \in 0 .. fed'
    BY <1>1, <1>3
  <1>5. Len(buffer') <= fed' - length'
    <2>1. Len(buffer) + n - k <= fed - (length - n) /\ Len(buffer) + n - k <= fed - 0
      BY <1>1, <1>3
    <2>2. CASE length' = length - n
      BY <1>2, <2>1, <2>2, Zenon
    <2>3. CASE length' = 0
      BY <1>2, <2>1, <2>3, Zenon
    <2> QED BY <2>2, <2>3
  <1>6. ~ escaped' /\ Framing' => EndsAt(buffer', fed' - length')
    <2>1. SUFFICES ASSUME ~ escaped, Framing'
                   PROVE  EndsAt(buffer', fed' - length')
      OBVIOUS
    <2>2. EndsAt(buffer', fed - length + n)
      BY <1>2, <2>1, Located DEF IInv, Framing
    <2> QED BY <1>3, <2>1, <2>2, Zenon
  <1>7. NothingBuffered'
    BY DEF NothingBuffered
  <1>8. /\ Len(buffer') <= capacity' /\ (needRecovery' => Len(buffer') < capacity')
        /\ state' \in States /\ corruptionReported' \in BOOLEAN /\ escaped' \in BOOLEAN
        /\ calls' \in Seq([cb : Callbacks, at : Nat])
    BY <1>1, <1>2 DEF TypeOK
  <1>9. fed' \in 0 .. Len(stream)
    BY <1>1
  <1> QED BY <1>1, <1>2, <1>4, <1>5, <1>6, <1>7, <1>8, <1>9, Preserved

(* The same with nothing dropped. *)
LEMMA KeepingAll ==
    ASSUME TypeOK, NEW n \in 0 .. length
    PROVE  buffer \o Data(n) = SubSeq(buffer \o Data(n), 0 + 1, Len(buffer \o Data(n)))
  <1>1. buffer \o Data(n) \in Seq(Byte)
    BY Appending
  <1>2. 0 + 1 = 1
    OBVIOUS
  <1> QED BY <1>1, <1>2, SubSeqFull

(* In the loop or in the recovery the prologue is over. *)
LEMMA PrologueOver ==
    ASSUME IInv, InLoop \/ pc = "recover"
    PROVE  state \notin Prologue
  BY DEF IInv, NothingBuffered, InLoop, RecoverMeans

LEMMA ExtendPartialKeeps == ASSUME IInv, ExtendPartial PROVE IInv'
  <1>1. TypeOK /\ capacity \in Nat /\ capacity > HeaderLen /\ Len(buffer) \in Nat /\ length \in Nat
    BY LenProperties DEF IInv, TypeOK, Enlarged
  <1>2. Added \in 0 .. length /\ Len(Filled) = Len(buffer) + Added
    BY <1>1, FilledType
  <1>3. buffer' = SubSeq(buffer \o Data(Added), 0 + 1, Len(buffer \o Data(Added)))
    BY <1>1, <1>2, KeepingAll DEF ExtendPartial, Filled
  <1>4. capacity' \in Nat /\ capacity' > HeaderLen /\ Len(buffer) + Added - 0 <= capacity'
    BY <1>1, <1>2 DEF ExtendPartial, Greatest, HeaderLen
  <1>5. 0 \in 0 .. Len(buffer) + Added
    BY <1>1, <1>2
  <1>6. state \notin Prologue
    BY PrologueOver DEF ExtendPartial
  <1>7. /\ pc # "idle" /\ pc' = "loop" /\ needRecovery' = FALSE /\ length' = length - Added
        /\ UNCHANGED <<stream, fed, escaped, calls, state, corruptionReported>>
    BY DEF ExtendPartial, InLoop, IInv, TypeOK
  <1> QED BY <1>2, <1>3, <1>4, <1>5, <1>6, <1>7, MovingKeeps DEF Pcs

LEMMA TakeWholeKeeps == ASSUME IInv, NEW accepts, TakeWhole(accepts) PROVE IInv'
  <1>1. /\ TypeOK /\ capacity \in Nat /\ capacity > HeaderLen /\ fed \in Nat /\ length \in 0 .. fed
        /\ buffer = <<>>
    BY StreamsAssumption, LenProperties DEF IInv, TypeOK, Enlarged, TakeWhole
  <1>2. PICK m \in FramedInChunk : Handle(m, accepts, <<>>, <<>>, length - Len(m))
    BY DEF TakeWhole
  <1>3. Len(m) \in 0 .. length
    BY <1>1, FramedInChunkType
  <1>4. length - Len(m) \in 0 .. length /\ length - Len(m) \in 0 .. fed
    BY <1>1, <1>3
  <1>5. EndsAt(<<>>, fed - (length - Len(m)))
    BY <1>1, <1>4, EmptyEnds
  <1>6. <<>> \in Seq(Byte) /\ Len(<<>>) = 0
    BY EmptySeq
  <1>7. 0 < capacity' /\ capacity' = capacity /\ 0 <= capacity' /\ 0 <= fed
    BY <1>1 DEF TakeWhole, HeaderLen
  <1>8. 0 <= fed - (length - Len(m))
    BY <1>1, <1>4
  <1>9. InLoop /\ stream' = stream /\ fed' = fed
    BY DEF TakeWhole
  <1> HIDE DEF InLoop
  <1> QED BY <1>1, <1>2, <1>4, <1>5, <1>6, <1>7, <1>8, <1>9, HandleKeeps

LEMMA StartPartialKeeps == ASSUME IInv, StartPartial PROVE IInv'
  <1>1. TypeOK /\ BufferFits /\ capacity \in Nat /\ capacity > HeaderLen /\ buffer = <<>>
    BY DEF IInv, TypeOK, Enlarged, StartPartial
  <1>2. /\ Appended \in 0 .. length
        /\ Len(Searched) = Len(buffer) + Appended
        /\ Len(Searched) <= capacity
    BY <1>1, SearchedType
  <1>3. buffer' = buffer \o Data(Appended)
    BY <1>1, <1>2, DataBytes, ConcatEmptySeq DEF StartPartial
  <1>4. buffer' = SubSeq(buffer \o Data(Appended), 0 + 1, Len(buffer \o Data(Appended)))
    BY <1>1, <1>2, <1>3, KeepingAll
  <1>5. 0 \in 0 .. Len(buffer) + Appended /\ Len(buffer) + Appended - 0 <= capacity
    BY <1>1, <1>2, LenProperties DEF TypeOK
  <1>6. state \notin Prologue
    BY PrologueOver DEF StartPartial
  <1>7. /\ pc # "idle" /\ pc' = "loop" /\ needRecovery' = FALSE /\ length' = length - Appended
        /\ UNCHANGED <<stream, fed, escaped, calls, state, corruptionReported, capacity>>
    BY DEF StartPartial, InLoop, IInv, TypeOK
  <1> QED BY <1>1, <1>2, <1>4, <1>5, <1>6, <1>7, MovingKeeps DEF Pcs

LEMMA LeavingKeeps == ASSUME IInv, LeaveLoop \/ LeaveRecovery PROVE IInv'
  <1>1. /\ UNCHANGED <<stream, fed, length, state, buffer, capacity, needRecovery,
                       corruptionReported, calls, escaped>>
        /\ pc' \in Pcs
        /\ pc' = "recover" => needRecovery
        /\ pc' = "idle" => length = 0
        /\ pc' # "loop" /\ pc # "idle"
    BY DEF LeaveLoop, LeaveRecovery, Pcs, IInv, TypeOK
  <1> QED BY <1>1 DEF IInv, TypeOK, BufferFits, Enlarged, RoomToRecover, RecoverMeans, IdleConsumed,
                      NothingBuffered, BufferIsContiguous, Framing, At

(* What the steps of tryToRecover have in common. *)
LEMMA Recovering ==
    ASSUME IInv, InRecovery
    PROVE  /\ TypeOK /\ capacity \in Nat /\ capacity > HeaderLen /\ Len(buffer) \in Nat
           /\ length \in Nat
           /\ state \notin Prologue
           /\ needRecovery /\ Len(buffer) < capacity
           /\ Appended \in 1 .. length
           /\ Len(Searched) = Len(buffer) + Appended
           /\ Len(Searched) \in Nat
           /\ Len(Searched) <= capacity
           /\ ScanStart = 0
  <1>1. /\ TypeOK /\ BufferFits /\ capacity \in Nat /\ capacity > HeaderLen /\ Len(buffer) \in Nat
        /\ length \in Nat
    BY LenProperties DEF IInv, TypeOK, Enlarged
  <1>2. needRecovery /\ Len(buffer) < capacity /\ length > 0
    BY DEF IInv, InRecovery, RecoverMeans, RoomToRecover
  <1>3. Appended \in 1 .. length
    BY <1>1, <1>2 DEF Appended, Least
  <1>4. Len(Searched) = Len(buffer) + Appended /\ Len(Searched) <= capacity
    BY <1>1, SearchedType
  <1>5. ScanStart = 0
    BY <1>3 DEF ScanStart
  <1>6. \A a \in 1 .. length : Len(buffer) + a \in Nat
    BY <1>1
  <1>7. state \notin Prologue
    BY PrologueOver DEF InRecovery
  <1> QED BY <1>1, <1>2, <1>3, <1>4, <1>5, <1>6, <1>7

LEMMA RecoverShortKeeps == ASSUME IInv, RecoverShort PROVE IInv'
  <1>1. /\ TypeOK /\ capacity \in Nat /\ capacity > HeaderLen /\ Len(buffer) \in Nat /\ length \in Nat
        /\ state \notin Prologue /\ needRecovery
        /\ Appended \in 1 .. length /\ Len(Searched) = Len(buffer) + Appended
    BY Recovering DEF RecoverShort
  <1>2. Len(buffer) + Appended < HeaderLen
    BY <1>1 DEF RecoverShort
  <1>3. Appended \in 0 .. length /\ 0 \in 0 .. Len(buffer) + Appended
    BY <1>1
  <1>4. buffer' = SubSeq(buffer \o Data(Appended), 0 + 1, Len(buffer \o Data(Appended)))
    BY <1>1, <1>3, KeepingAll DEF RecoverShort, Searched
  <1>5. Len(buffer) + Appended - 0 < capacity /\ Len(buffer) + Appended - 0 <= capacity
    BY <1>1, <1>2 DEF HeaderLen
  <1>6. /\ pc # "idle" /\ pc' = "recover" /\ needRecovery' = TRUE /\ length' = length - Appended
        /\ UNCHANGED <<stream, fed, escaped, calls, state, corruptionReported, capacity>>
    BY <1>1 DEF RecoverShort, InRecovery, IInv, TypeOK
  <1> QED BY <1>1, <1>3, <1>4, <1>5, <1>6, MovingKeeps DEF Pcs

LEMMA RecoverNothingKeeps == ASSUME IInv, RecoverNothing PROVE IInv'
  <1>1. /\ TypeOK /\ capacity \in Nat /\ capacity > HeaderLen /\ Len(buffer) \in Nat /\ length \in Nat
        /\ state \notin Prologue /\ needRecovery
        /\ Appended \in 1 .. length /\ Len(Searched) = Len(buffer) + Appended
        /\ Len(Searched) \in Nat /\ ScanStart = 0
    BY Recovering DEF RecoverNothing
  <1> DEFINE k == Len(Searched) - HeaderLen
  <1>2. Len(Searched) >= HeaderLen /\ Appended \in 0 .. length
    BY <1>1 DEF RecoverNothing
  <1>3. Greatest(ScanStart, ScanEnd) = k
    BY <1>1, <1>2 DEF Greatest, ScanEnd, HeaderLen
  <1>4. k \in 0 .. Len(buffer) + Appended /\ Len(buffer) + Appended - k = HeaderLen
    BY <1>1, <1>2 DEF HeaderLen
  <1>5. buffer' = SubSeq(buffer \o Data(Appended), k + 1, Len(buffer \o Data(Appended)))
    BY <1>3, Zenon DEF RecoverNothing, Drop, Searched
  <1>6. HeaderLen < capacity /\ HeaderLen <= capacity
    BY <1>1 DEF HeaderLen
  <1>7. /\ pc # "idle" /\ pc' = "recover" /\ needRecovery' = TRUE /\ length' = length - Appended
        /\ UNCHANGED <<stream, fed, escaped, calls, state, corruptionReported, capacity>>
    BY <1>1 DEF RecoverNothing, InRecovery, IInv, TypeOK
  <1> HIDE DEF k
  <1> QED BY <1>1, <1>2, <1>4, <1>5, <1>6, <1>7, MovingKeeps DEF Pcs

LEMMA RecoverFoundKeeps == ASSUME IInv, RecoverFound PROVE IInv'
  <1>1. /\ TypeOK /\ capacity \in Nat /\ capacity > HeaderLen /\ Len(buffer) \in Nat /\ length \in Nat
        /\ state \notin Prologue
        /\ Appended \in 1 .. length /\ Len(Searched) = Len(buffer) + Appended
        /\ Len(Searched) \in Nat /\ Len(Searched) <= capacity /\ ScanStart = 0
    BY Recovering DEF RecoverFound
  <1>2. PICK k \in Candidates : buffer' = Drop(k)
    BY DEF RecoverFound
  <1>3. k \in 0 .. Len(buffer) + Appended /\ Len(buffer) + Appended - k <= capacity
        /\ Appended \in 0 .. length
    BY <1>1, <1>2 DEF Candidates, ScanEnd, HeaderLen
  <1>4. buffer' = SubSeq(buffer \o Data(Appended), k + 1, Len(buffer \o Data(Appended)))
    BY <1>2, Zenon DEF Drop, Searched
  <1>5. /\ pc # "idle" /\ pc' = Entry(state) /\ needRecovery' = FALSE
        /\ length' = IF Entry(state) = "idle" THEN 0 ELSE length - Appended
        /\ UNCHANGED <<stream, fed, escaped, calls, state, corruptionReported, capacity>>
    BY DEF RecoverFound, InRecovery
  <1>6. /\ pc' \in Pcs /\ pc' # "recover"
        /\ state # InvalidData => pc' # "idle"
    BY <1>1, <1>5, EntryType DEF Pcs, TypeOK
  <1>7. /\ length' = length - Appended \/ (length' = 0 /\ ~ Framing')
        /\ pc' = "idle" => length' = 0
    BY <1>5, <1>6 DEF Framing
  <1> QED BY <1>1, <1>3, <1>4, <1>5, <1>6, <1>7, MovingKeeps

-----------------------------------------------------------------------------
(* Every step preserves the invariant. *)
LEMMA NextIInv == IInv /\ [Next]_vars => IInv'
  <1> SUFFICES ASSUME IInv, [Next]_vars
               PROVE  IInv'
    OBVIOUS
  <1>1. ASSUME NEW n \in ChunkSizes, ReadChunk(n) PROVE IInv'
    BY <1>1, ReadChunkKeeps
  <1>2. CASE ReadMagic
    BY <1>2, ReadMagicKeeps
  <1>3. CASE ReadFlagBits
    BY <1>3, ReadFlagBitsKeeps
  <1>4. ASSUME NEW accepts \in HandlerVerdicts, CompletePartial(accepts) PROVE IInv'
    BY <1>4, CompletePartialKeeps
  <1>5. CASE ExtendPartial
    BY <1>5, ExtendPartialKeeps
  <1>6. ASSUME NEW accepts \in HandlerVerdicts, TakeWhole(accepts) PROVE IInv'
    BY <1>6, TakeWholeKeeps
  <1>7. CASE StartPartial
    BY <1>7, StartPartialKeeps
  <1>8. CASE LeaveLoop \/ LeaveRecovery
    BY <1>8, LeavingKeeps
  <1>9. CASE RecoverShort
    BY <1>9, RecoverShortKeeps
  <1>10. CASE RecoverNothing
    BY <1>10, RecoverNothingKeeps
  <1>11. CASE RecoverFound
    BY <1>11, RecoverFoundKeeps
  <1>12. CASE UNCHANGED vars
    BY <1>12 DEF vars, IInv, TypeOK, BufferFits, Enlarged, RoomToRecover, RecoverMeans, IdleConsumed,
                 NothingBuffered, BufferIsContiguous, Framing, At
  <1> QED BY <1>1, <1>2, <1>3, <1>4, <1>5, <1>6, <1>7, <1>8, <1>9, <1>10, <1>11, <1>12
          DEF Next, Step

LEMMA Invariant == Spec => []IInv
  BY InitIInv, NextIInv, PTL DEF Spec

(* Type correctness: no step makes a length negative, overfills what was    *)
(* fed, or records anything that is not a callback.                         *)
THEOREM TypeCorrect == Spec => []TypeOK
  <1>1. IInv => TypeOK
    BY DEF IInv
  <1> QED BY <1>1, Invariant, PTL

(* The partial message buffer is at all times the piece of the log right    *)
(* before the unread bytes, for every log, chunking and initial capacity.   *)
THEOREM NoByteLost == Spec => []BufferIsContiguous
  <1>1. IInv => BufferIsContiguous
    BY DEF IInv
  <1> QED BY <1>1, Invariant, PTL

(* No write of appendToPartialBuffer, ensure_enough_data or tryToRecover    *)
(* goes past the allocation.                                                *)
THEOREM NoOverrun == Spec => []BufferFits
  <1>1. IInv => BufferFits
    BY DEF IInv
  <1> QED BY <1>1, Invariant, PTL

(* A recovery always has room to append to: the case that tryToRecover      *)
(* guards against, a full buffer and an infinite recursion, never comes up. *)
THEOREM RecoveryHasRoom == Spec => []RecoveryAppends
  <1>1. IInv => RecoveryAppends
    BY DEF IInv, RecoveryAppends, RoomToRecover, RecoverMeans, InRecovery
  <1> QED BY <1>1, Invariant, PTL

-----------------------------------------------------------------------------
(***************************************************************************)
(* The measure by which every readChunk returns: no step of a call fails   *)
(* to lower it, for every log, buffer size and handler. (That a call which *)
(* is not held up takes finitely many steps follows, since the measure is  *)
(* of three natural numbers in lexicographic order; this is outside of     *)
(* what is proved here.)                                                   *)
(***************************************************************************)

(* What the measure is made of. *)
LEMMA Measured ==
    ASSUME IInv
    PROVE  TypeOK /\ length \in Nat /\ Len(buffer) \in Nat /\ Unhandled \in Nat
  <1>1. TypeOK /\ length \in Nat /\ Len(buffer) \in Nat
    BY StreamsAssumption, LenProperties DEF IInv, TypeOK
  <1> QED BY <1>1 DEF Unhandled

(* The same bytes, and a later place in the call. *)
LEMMA Further ==
    ASSUME IInv, UNCHANGED <<length, buffer>>, Rank' < Rank
    PROVE  Descends
  BY Measured DEF Descends, Unhandled

(* Fewer bytes in chunk and buffer, or as many and fewer in the chunk.      *)
LEMMA Fewer ==
    ASSUME IInv, length' \in Nat, Len(buffer') \in Nat,
           length' + Len(buffer') <= length + Len(buffer),
           length' < length \/ length' + Len(buffer') < length + Len(buffer)
    PROVE  Descends
  <1>1. length \in Nat /\ Len(buffer) \in Nat
    BY Measured
  <1>2. Unhandled = length + Len(buffer) /\ Unhandled' = length' + Len(buffer')
    BY DEF Unhandled
  <1> QED BY <1>1, <1>2 DEF Descends

-----------------------------------------------------------------------------
LEMMA ReadMagicDescends == ASSUME IInv, ReadMagic PROVE Descends
  <1>1. length \in Nat /\ Len(buffer) \in Nat /\ buffer' = buffer
    BY Measured DEF ReadMagic
  <1>2. CASE length' = length
    <2>1. pc = "prologue" /\ pc' = "loop"
      BY <1>1, <1>2 DEF ReadMagic, FileHeaderLen
    <2>2. Rank' < Rank
      BY <2>1 DEF Rank
    <2> QED BY <1>1, <1>2, <2>2, Further
  <1>3. CASE length' # length
    <2>1. length' = length - FileHeaderLen /\ ~ (length < FileHeaderLen)
      BY <1>3 DEF ReadMagic
    <2>2. length' \in Nat /\ length' < length
      BY <1>1, <2>1 DEF FileHeaderLen
    <2> QED BY <1>1, <2>2, Fewer
  <1> QED BY <1>2, <1>3

LEMMA ReadFlagBitsDescends == ASSUME IInv, ReadFlagBits PROVE Descends
  <1>1. TypeOK /\ length \in Nat /\ Len(buffer) \in Nat /\ buffer' = buffer
    BY Measured DEF ReadFlagBits
  <1>2. length' \in 0 .. length
    <2>1. CASE length < FlagBitsLen
      BY <1>1, <2>1 DEF ReadFlagBits
    <2>2. CASE ~ (length < FlagBitsLen)
      <3>1. length >= FlagBitsLen
        BY <1>1, <2>2 DEF FlagBitsLen
      <3>2. FlagBitsSkip(Data(FlagBitsLen)) \in Nat
        BY <1>1, <3>1, FlagBitsType
      <3>3. \A k \in Nat : Greatest(length - k, 0) \in 0 .. length
        BY <1>1 DEF Greatest
      <3>4. length' = Greatest(length - FlagBitsSkip(Data(FlagBitsLen)), 0)
        BY <2>2 DEF ReadFlagBits
      <3> QED BY <3>2, <3>3, <3>4
    <2> QED BY <2>1, <2>2
  <1>3. CASE length' = length
    <2>1. pc = "prologue" /\ pc' = "loop"
      BY DEF ReadFlagBits
    <2>2. Rank' < Rank
      BY <2>1 DEF Rank
    <2> QED BY <1>1, <1>3, <2>2, Further
  <1>4. CASE length' # length
    <2>1. length' \in Nat /\ length' < length
      BY <1>1, <1>2, <1>4
    <2> QED BY <1>1, <2>1, Fewer
  <1> QED BY <1>3, <1>4

(* A message that is handled is gone, and one whose constructor throws      *)
(* something foreign takes the rest of the chunk with it.                   *)
LEMMA HandleDescends ==
    ASSUME IInv, InLoop, NEW m, NEW accepts, NEW held, NEW rest, NEW unread \in 0 .. length,
           Handle(m, accepts, held, rest, unread),
           Len(held) \in Nat, Len(rest) \in Nat,
           Len(held) <= length + Len(buffer),
           unread + Len(rest) < length + Len(buffer)
    PROVE  Descends
  <1>1. length \in Nat /\ Len(buffer) \in Nat /\ length > 0
    BY Measured DEF InLoop
  <1>2. CASE buffer' = rest /\ length' = unread
    <2>1. length' \in Nat /\ Len(buffer') \in Nat /\ length' + Len(buffer') < length + Len(buffer)
      BY <1>1, <1>2
    <2> QED BY <1>1, <2>1, Fewer
  <1>3. CASE buffer' = held /\ length' = 0
    <2>1. /\ length' \in Nat /\ Len(buffer') \in Nat
          /\ length' + Len(buffer') <= length + Len(buffer) /\ length' < length
      BY <1>1, <1>3
    <2> QED BY <2>1, Fewer
  <1> QED BY <1>2, <1>3 DEF Handle

LEMMA CompletePartialDescends ==
    ASSUME IInv, NEW accepts, CompletePartial(accepts) PROVE Descends
  <1>1. TypeOK /\ length \in Nat /\ Len(buffer) \in Nat /\ InLoop
    BY Measured DEF CompletePartial
  <1>2. PICK m \in FramedInBuffer :
          Handle(m, accepts, Filled, SubSeq(Filled, Len(m) + 1, Len(Filled)), length - Added)
    BY DEF CompletePartial
  <1> DEFINE rest == SubSeq(Filled, Len(m) + 1, Len(Filled))
  <1>3. /\ Added \in 0 .. length /\ Len(Filled) = Len(buffer) + Added
        /\ Len(m) \in HeaderLen .. Len(Filled)
    BY <1>1, FilledType, FramedInBufferType
  <1>4. /\ Len(m) \in 0 .. Len(buffer) + Added
        /\ rest = SubSeq(buffer \o Data(Added), Len(m) + 1, Len(buffer \o Data(Added)))
    BY <1>1, <1>3 DEF Filled, HeaderLen
  <1>5. Len(rest) = Len(buffer) + Added - Len(m)
    BY <1>1, <1>3, <1>4, Dropping
  <1> HIDE DEF rest, InLoop
  <1>6. /\ length - Added \in 0 .. length
        /\ Len(Filled) \in Nat /\ Len(rest) \in Nat
        /\ Len(Filled) <= length + Len(buffer)
        /\ length - Added + Len(rest) < length + Len(buffer)
    BY <1>1, <1>3, <1>4, <1>5 DEF HeaderLen
  <1> QED BY <1>1, <1>2, <1>6, HandleDescends DEF rest

LEMMA TakeWholeDescends == ASSUME IInv, NEW accepts, TakeWhole(accepts) PROVE Descends
  <1>1. TypeOK /\ length \in Nat /\ Len(buffer) \in Nat /\ InLoop /\ buffer = <<>>
    BY Measured DEF TakeWhole
  <1>2. PICK m \in FramedInChunk : Handle(m, accepts, <<>>, <<>>, length - Len(m))
    BY DEF TakeWhole
  <1>3. Len(m) \in 1 .. length
    <2>1. /\ m = Data(MsgLen(Data(HeaderLen)))
          /\ length > HeaderLen
          /\ length >= MsgLen(Data(HeaderLen))
      BY <1>2 DEF FramedInChunk
    <2>2. HeaderLen \in 0 .. length /\ HeaderLen >= HeaderLen
      BY <1>1, <2>1 DEF HeaderLen
    <2>3. Data(HeaderLen) \in Seq(Byte) /\ Len(Data(HeaderLen)) = HeaderLen
      BY <1>1, <2>2, DataBytes
    <2>4. MsgLen(Data(HeaderLen)) \in Nat /\ MsgLen(Data(HeaderLen)) >= HeaderLen
      BY <2>2, <2>3, HeaderBytes
    <2>5. MsgLen(Data(HeaderLen)) \in 0 .. length /\ MsgLen(Data(HeaderLen)) \in 1 .. length
      BY <1>1, <2>1, <2>4 DEF HeaderLen
    <2> QED BY <1>1, <2>1, <2>5, DataBytes
  <1>4. Len(<<>>) = 0
    BY EmptySeq
  <1>5. /\ length - Len(m) \in 0 .. length /\ 0 \in Nat
        /\ 0 <= length + Len(buffer)
        /\ length - Len(m) + 0 < length + Len(buffer)
    BY <1>1, <1>3
  <1> HIDE DEF InLoop
  <1> QED BY <1>1, <1>2, <1>4, <1>5, HandleDescends

-----------------------------------------------------------------------------
(* The first bytes of a message say its length, whatever is behind them.    *)
LEMMA LengthOfPrefix ==
    ASSUME NEW s \in Seq(Byte), NEW t \in Seq(Byte), Len(s) >= HeaderLen
    PROVE  MsgLen(s \o t) = MsgLen(s)
  <1>1. 1 \in 1 .. Len(s) /\ 2 \in 1 .. Len(s)
    BY LenProperties DEF HeaderLen
  <1>2. (s \o t)[1] = s[1] /\ (s \o t)[2] = s[2]
    BY <1>1, ConcatProperties, LenProperties
  <1> QED BY <1>2 DEF MsgLen, MsgSize

(* A message that is not complete in the buffer takes a byte of the chunk   *)
(* at least.                                                                *)
LEMMA AddsSome == ASSUME IInv, ExtendPartial PROVE Added \in 1 .. length
  <1>1. TypeOK /\ length \in Nat /\ Len(buffer) \in Nat /\ length > 0 /\ buffer \in Seq(Byte)
    BY Measured DEF ExtendPartial, InLoop, TypeOK
  <1>2. Added \in 0 .. length /\ Filled \in Seq(Byte) /\ Len(Filled) = Len(buffer) + Added
    BY <1>1, FilledType
  <1> DEFINE n == Least(HeaderLen, length)
             b == buffer \o Data(n)
  <1>3. n \in 0 .. length
    BY <1>1 DEF Least, HeaderLen
  <1>4. Data(n) \in Seq(Byte) /\ b \in Seq(Byte) /\ Len(b) = Len(buffer) + n
    BY <1>1, <1>3, DataBytes, Appending
  <1>5. Data(0) \in Seq(Byte) /\ Len(Data(0)) = 0
    BY <1>1, DataBytes
  <1>6. Lacking = Required(b) - Len(buffer)
    BY DEF Lacking
  <1> HIDE DEF n, b
  <1>7. SUFFICES ASSUME Added = 0 PROVE FALSE
    BY <1>1, <1>2
  <1>8. Len(b) \in Nat /\ Len(buffer) <= Len(b)
    BY <1>1, <1>3, <1>4
  <1>9. CASE Len(b) < HeaderLen
    <2>1. Required(b) = HeaderLen
      BY <1>9 DEF Required
    <2>2. Lacking \in Int /\ Lacking > 0
      BY <1>1, <1>6, <1>8, <1>9, <2>1 DEF HeaderLen
    <2> QED BY <1>1, <1>7, <2>2 DEF Added, Greatest, Least
  <1>10. CASE ~ (Len(b) < HeaderLen)
    <2>1. Len(b) >= HeaderLen /\ Required(b) = MsgLen(b)
      BY <1>8, <1>10 DEF Required, HeaderLen
    <2>2. MsgLen(b) \in Nat /\ MsgLen(b) >= HeaderLen
      BY <1>4, <2>1, HeaderBytes
    <2>3. Lacking \in Int /\ Lacking <= 0
      <3>1. Lacking \in Int
        BY <1>1, <1>6, <2>1, <2>2
      <3> QED BY <1>1, <1>7, <3>1 DEF Added, Greatest, Least
    <2>4. Len(buffer) >= MsgLen(b) /\ Len(buffer) >= HeaderLen
      BY <1>1, <1>6, <2>1, <2>2, <2>3 DEF HeaderLen
    <2>5. MsgLen(b) = MsgLen(buffer)
      BY <1>1, <1>4, <2>4, LengthOfPrefix DEF b
    <2>6. Filled = buffer \o Data(0) /\ MsgLen(Filled) = MsgLen(buffer)
      BY <1>1, <1>5, <1>7, <2>4, LengthOfPrefix DEF Filled
    <2>7. Len(Filled) >= HeaderLen /\ Len(Filled) >= MsgLen(Filled)
      BY <1>1, <1>2, <1>7, <2>4, <2>5, <2>6
    <2>8. FramedInBuffer = {SubSeq(Filled, 1, MsgLen(Filled))}
      BY <2>7 DEF FramedInBuffer
    <2> QED BY <2>8 DEF ExtendPartial
  <1> QED BY <1>9, <1>10

LEMMA ExtendPartialDescends == ASSUME IInv, ExtendPartial PROVE Descends
  <1>1. TypeOK /\ length \in Nat /\ Len(buffer) \in Nat
    BY Measured
  <1>2. Added \in 1 .. length /\ Len(Filled) = Len(buffer) + Added
    BY <1>1, AddsSome, FilledType
  <1>3. buffer' = Filled /\ length' = length - Added
    BY DEF ExtendPartial
  <1>4. /\ length' \in Nat /\ Len(buffer') \in Nat
        /\ length' + Len(buffer') <= length + Len(buffer) /\ length' < length
    BY <1>1, <1>2, <1>3
  <1> QED BY <1>4, Fewer

LEMMA StartPartialDescends == ASSUME IInv, StartPartial PROVE Descends
  <1>1. /\ TypeOK /\ BufferFits /\ length \in Nat /\ length > 0
        /\ capacity \in Nat /\ capacity > HeaderLen /\ buffer = <<>> /\ Len(buffer) = 0
    BY Measured, EmptySeq DEF IInv, TypeOK, Enlarged, StartPartial, InLoop
  <1>2. Appended \in 1 .. length
    BY <1>1 DEF Appended, Least, HeaderLen
  <1>3. Len(Data(Appended)) = Appended
    BY <1>1, <1>2, DataBytes
  <1>4. /\ length' \in Nat /\ Len(buffer') \in Nat
        /\ length' + Len(buffer') <= length + Len(buffer) /\ length' < length
    BY <1>1, <1>2, <1>3 DEF StartPartial
  <1> QED BY <1>4, Fewer

LEMMA LeavingDescends == ASSUME IInv, LeaveLoop \/ LeaveRecovery PROVE Descends
  <1>1. UNCHANGED <<length, buffer>> /\ Rank' < Rank
    BY DEF LeaveLoop, LeaveRecovery, Rank
  <1> QED BY <1>1, Further

-----------------------------------------------------------------------------
(* A turn of the recovery has taken a byte of the chunk at least, also when *)
(* it goes back to the loop.                                                *)
LEMMA SearchDescends ==
    ASSUME IInv, InRecovery, NEW k \in 0 .. Len(Searched),
           Len(buffer') = Len(Searched) - k, length' = length - Appended \/ length' = 0
    PROVE  Descends
  <1>1. /\ length \in Nat /\ Len(buffer) \in Nat /\ Appended \in 1 .. length
        /\ Len(Searched) = Len(buffer) + Appended /\ Len(Searched) \in Nat
    BY Recovering
  <1>2. /\ length' \in Nat /\ Len(buffer') \in Nat
        /\ length' + Len(buffer') <= length + Len(buffer) /\ length' < length
    BY <1>1
  <1> QED BY <1>2, Fewer

LEMMA DropLength ==
    ASSUME IInv, InRecovery, NEW k \in 0 .. Len(Searched)
    PROVE  Len(Drop(k)) = Len(Searched) - k
  <1>1. TypeOK /\ Appended \in 0 .. length /\ Len(Searched) = Len(buffer) + Appended
    BY Recovering
  <1>2. Drop(k) = SubSeq(buffer \o Data(Appended), k + 1, Len(buffer \o Data(Appended)))
    BY Zenon DEF Drop, Searched
  <1>3. k \in 0 .. Len(buffer) + Appended
    BY <1>1
  <1>4. Len(Drop(k)) = Len(buffer) + Appended - k
    BY <1>1, <1>2, <1>3, Dropping
  <1> QED BY <1>1, <1>4

LEMMA RecoverDescends ==
    ASSUME IInv, RecoverShort \/ RecoverNothing \/ RecoverFound PROVE Descends
  <1>1. InRecovery
    BY DEF RecoverShort, RecoverNothing, RecoverFound
  <1>2. Len(Searched) \in Nat /\ ScanStart = 0
    BY <1>1, Recovering
  <1>3. CASE RecoverShort
    <2>1. Len(buffer') = Len(Searched) - 0 /\ length' = length - Appended /\ 0 \in 0 .. Len(Searched)
      BY <1>2, <1>3 DEF RecoverShort
    <2> QED BY <1>1, <2>1, SearchDescends
  <1>4. CASE RecoverNothing
    <2> DEFINE k == Greatest(ScanStart, ScanEnd)
    <2>1. k \in 0 .. Len(Searched)
      BY <1>2, <1>4 DEF RecoverNothing, Greatest, ScanEnd, HeaderLen
    <2>2. buffer' = Drop(k) /\ length' = length - Appended
      BY <1>4 DEF RecoverNothing
    <2> HIDE DEF k
    <2>3. Len(buffer') = Len(Searched) - k
      BY <1>1, <2>1, <2>2, DropLength
    <2> QED BY <1>1, <2>1, <2>2, <2>3, SearchDescends
  <1>5. CASE RecoverFound
    <2>1. PICK k \in Candidates : buffer' = Drop(k)
      BY <1>5 DEF RecoverFound
    <2>2. k \in 0 .. Len(Searched)
      BY <1>2 DEF Candidates, ScanEnd, HeaderLen
    <2>3. length' = length - Appended \/ length' = 0
      BY <1>5 DEF RecoverFound
    <2>4. Len(buffer') = Len(Searched) - k
      BY <1>1, <2>1, <2>2, DropLength
    <2> QED BY <1>1, <2>2, <2>3, <2>4, SearchDescends
  <1> QED BY <1>3, <1>4, <1>5

-----------------------------------------------------------------------------
LEMMA StepDescends == ASSUME IInv, Step PROVE Descends
  BY ReadMagicDescends, ReadFlagBitsDescends, CompletePartialDescends, ExtendPartialDescends,
     TakeWholeDescends, StartPartialDescends, LeavingDescends, RecoverDescends
     DEF Step

(* Every step of a call lowers the measure: neither loop of the reader, nor *)
(* their nesting through the recovery, turns without getting on.            *)
THEOREM EveryStepDescends == Spec => StepsDescend
  <1>1. IInv /\ [Next]_vars => [Step => Descends]_vars
    BY StepDescends
  <1> QED BY <1>1, Invariant, PTL DEF Spec, StepsDescend

-----------------------------------------------------------------------------
(***************************************************************************)
(* The callbacks of Reader: which there are, in which order and for which  *)
(* bytes of the log.                                                       *)
(***************************************************************************)

Sections == {ReadingHeader, ReadingData}

(* The callbacks made so far say how far the parser is: nothing in the      *)
(* prologue, errors only once the data is invalid, and else the file header *)
(* and, when the data section has begun, the end of the header.             *)
Made(c)     == \E i \in 1 .. Len(calls) : calls[i].cb = c
OnlyMade(C) == \A i \in 1 .. Len(calls) : calls[i].cb \in C

InfoCalls   == AnyTime \union {"fileHeader", "error"}

CallsTellState ==
    /\ state \in Prologue => calls = <<>>
    /\ state = InvalidData => OnlyMade({"error", "fatal"})
    /\ state \in Sections => Made("fileHeader")
    /\ state = ReadingHeader => OnlyMade(HeaderOnly \union InfoCalls)
    /\ state = ReadingData =>
         Made("headerComplete") /\ OnlyMade(Callbacks \ {"fatal"})

(* Callbacks were made for bytes that are done with, or, where no message   *)
(* was handed over, for those at the cursor.                                *)
CallsBehind ==
    \A i \in 1 .. Len(calls) :
      /\ calls[i].at <= At
      /\ calls[i].cb \in MessageCallbacks => calls[i].at < At

(* The inductive invariant of this module. *)
CallsInv == /\ IInv
            /\ CallsTellState
            /\ CallsBehind
            /\ CallbackOrder
            /\ DeliveredInOrder
            /\ FatalIsFinal

-----------------------------------------------------------------------------
(* What a record of new callbacks makes of the callbacks. *)
LEMMA Recorded ==
    ASSUME TypeOK, NEW cbs \in Seq(Callbacks), calls' = Calling(cbs)
    PROVE  /\ calls \in Seq([cb : Callbacks, at : Nat]) /\ Len(calls) \in Nat /\ Len(cbs) \in Nat
           /\ Len(calls') = Len(calls) + Len(cbs)
           /\ \A i \in 1 .. Len(calls) : calls'[i] = calls[i]
           /\ \A i \in Len(calls) + 1 .. Len(calls') :
                /\ i - Len(calls) \in 1 .. Len(cbs)
                /\ calls'[i].cb = cbs[i - Len(calls)] /\ calls'[i].at = At
  <1> DEFINE new == [i \in 1 .. Len(cbs) |-> [cb |-> cbs[i], at |-> At]]
  <1>1. calls \in Seq([cb : Callbacks, at : Nat]) /\ Len(calls) \in Nat /\ Len(cbs) \in Nat
    BY LenProperties DEF TypeOK
  <1>2. At \in Nat
    BY DEF At, TypeOK
  <1>3. new \in Seq([cb : Callbacks, at : Nat]) /\ Len(new) = Len(cbs)
    BY <1>1, <1>2
  <1>4. calls' = calls \o new
    BY DEF Calling
  <1>5. \A i \in 1 .. Len(cbs) : new[i].cb = cbs[i] /\ new[i].at = At
    OBVIOUS
  <1> HIDE DEF new
  <1>6. /\ Len(calls') = Len(calls) + Len(new)
        /\ \A i \in 1 .. Len(calls) + Len(new) :
             calls'[i] = IF i <= Len(calls) THEN calls[i] ELSE new[i - Len(calls)]
    <2>1. /\ Len(calls \o new) = Len(calls) + Len(new)
          /\ \A i \in 1 .. Len(calls) + Len(new) :
               (calls \o new)[i] = IF i <= Len(calls) THEN calls[i] ELSE new[i - Len(calls)]
      BY <1>1, <1>3, ConcatProperties
    <2> QED BY <1>4, <2>1
  <1>7. \A i \in 1 .. Len(calls) : calls'[i] = calls[i]
    BY <1>1, <1>3, <1>6
  <1>8. ASSUME NEW i \in Len(calls) + 1 .. Len(calls')
        PROVE  i - Len(calls) \in 1 .. Len(cbs) /\ calls'[i] = new[i - Len(calls)]
    BY <1>1, <1>3, <1>6
  <1> QED BY <1>1, <1>3, <1>5, <1>6, <1>7, <1>8

(* Two callbacks, one behind the other. *)
LEMMA Pair == ASSUME NEW a, NEW c PROVE <<a>> \o <<c>> = <<a, c>>
  <1> DEFINE S == {a, c}
             s == <<a>>
             t == <<c>>
             u == <<a, c>>
  <1>1. s \in Seq(S) /\ t \in Seq(S) /\ u \in Seq(S)
    OBVIOUS
  <1>2. Len(s) = 1 /\ Len(t) = 1 /\ Len(u) = 2 /\ s[1] = a /\ t[1] = c /\ u[1] = a /\ u[2] = c
    OBVIOUS
  <1> HIDE DEF S, s, t, u
  <1>3. /\ s \o t \in Seq(S)
        /\ Len(s \o t) = Len(s) + Len(t)
        /\ \A i \in 1 .. Len(s) + Len(t) : (s \o t)[i] = IF i <= Len(s) THEN s[i] ELSE t[i - Len(s)]
    BY <1>1, ConcatProperties
  <1>4. (s \o t)[1] = u[1] /\ (s \o t)[2] = u[2] /\ Len(s \o t) = Len(u)
    BY <1>2, <1>3
  <1>5. \A i \in 1 .. Len(s \o t) : (s \o t)[i] = u[i]
    BY <1>2, <1>4
  <1>6. s \o t = u
    BY <1>1, <1>3, <1>4, <1>5, SeqEqual
  <1> QED BY <1>6 DEF s, t, u

(* The callbacks of a message in parser state st. *)
CallsFor(st) ==
    CASE st = ReadingHeader -> HeaderOnly \union AnyTime
      [] st = ReadingData   -> DataOnly \union AnyTime
      [] OTHER              -> {}

(* Handling a message makes its callback, if any, and ends the header first *)
(* when it is the first of the data section. A message whose constructor    *)
(* throws a foreign exception has no callback of its own.                   *)
LEMMA HandlingCalls ==
    ASSUME NEW st \in States \ Prologue, NEW m, NEW accepts
    PROVE  LET h == Handling(st, m, accepts)
           IN  \/ h.state = st /\ h.calls = <<>>
               \/ h.state = st /\ \E c \in CallsFor(st) : h.calls = <<c>> /\ h.outcome # Foreign
               \/ /\ st = ReadingHeader /\ h.state = ReadingData
                  /\ \/ h.calls = <<"headerComplete">>
                     \/ \E c \in DataOnly : h.calls = <<"headerComplete", c>> /\ h.outcome # Foreign
  <1> DEFINE t     == MsgType(m)
             now   == StateFor(st, t)
             built == IF Handled(now, t) THEN ParseOutcome(m) ELSE Parsed
             h     == Handling(st, m, accepts)
             ends  == IF now # st THEN <<"headerComplete">> ELSE <<>>
             takes == Handled(now, t) /\ built = Parsed
             made  == IF takes THEN <<CallbackOf(t)>> ELSE <<>>
  <1>1. CASE Empty(m)
    BY <1>1 DEF Handling
  <1>2. CASE ~ Empty(m)
    <2>1. /\ h.state = now /\ h.calls = ends \o made
          /\ takes => h.outcome # Foreign
      BY <1>2 DEF Handling, Dispatch, Parsed, Rejected, Foreign
    <2>2. now = st \/ (st = ReadingHeader /\ now = ReadingData /\ t \in EndsHeader)
      BY DEF StateFor
    <2>3. takes /\ now = st => CallbackOf(t) \in CallsFor(st)
      BY DEF Handled, StateFor, CallsFor, HeaderTypes, DataTypes, InBothSections, EndsHeader, CallbackOf,
             HeaderOnly, DataOnly, AnyTime, INFO, INFO_MULTIPLE, PARAMETER, PARAMETER_DEFAULT, FORMAT,
             ADD_LOGGED_MSG, LOGGING, LOGGING_TAGGED, DATA, DROPOUT, SYNC, ReadingHeader, ReadingData
    <2>4. t \in EndsHeader => CallbackOf(t) \in DataOnly
      BY DEF EndsHeader, CallbackOf, DataOnly, INFO, INFO_MULTIPLE, PARAMETER, PARAMETER_DEFAULT, FORMAT,
             ADD_LOGGED_MSG, LOGGING, LOGGING_TAGGED, DATA, DROPOUT, SYNC
    <2> HIDE DEF t, now, built, h, takes
    <2>5. CASE now = st /\ takes
      BY <2>1, <2>3, <2>5 DEF h
    <2>6. CASE now = st /\ ~ takes
      BY <2>1, <2>6 DEF h
    <2>7. CASE now # st /\ takes
      <3>1. h.calls = <<"headerComplete", CallbackOf(t)>>
        <4>1. \A c : <<"headerComplete">> \o <<c>> = <<"headerComplete", c>>
          BY Pair
        <4>2. ends = <<"headerComplete">> /\ made = <<CallbackOf(t)>>
          BY <2>7
        <4> HIDE DEF ends, made
        <4> QED BY <2>1, <4>1, <4>2
      <3> QED BY <2>1, <2>2, <2>4, <2>7, <3>1 DEF h
    <2>8. CASE now # st /\ ~ takes
      BY <2>1, <2>2, <2>8 DEF h
    <2> QED BY <2>5, <2>6, <2>7, <2>8
  <1> QED BY <1>1, <1>2

(* All a step of the reader can add to the calls: those of a refused or     *)
(* accepted prologue, or those of one message, and an error behind them.    *)
Errors == {<<>>, <<"error">>}

PrologueCalls == {<<"fatal">>, <<"fileHeader">>, <<"error", "fatal">>, <<"error", "fileHeader">>}

LEMMA FlagBitsCallsMade ==
    ASSUME NEW b
    PROVE  /\ FlagBitsCalls(b) \in PrologueCalls
           /\ FlagBitsRefused(b) => FlagBitsCalls(b) \in {<<"fatal">>, <<"error", "fatal">>}
           /\ ~ FlagBitsRefused(b) => FlagBitsCalls(b) \in {<<"fileHeader">>, <<"error", "fileHeader">>}
  <1>1. \A a, c : <<a>> \o <<c>> = <<a, c>>
    BY Pair
  <1>2. \A c : <<>> \o <<c>> = <<c>>
    OBVIOUS
  <1> QED BY <1>1, <1>2 DEF FlagBitsCalls, FlagBitsRefused, PrologueCalls

(* The callbacks of a message one by one: only the end of the header comes  *)
(* before the message's own, and only an error after it.                    *)
OneByOne(cbs, st, now) ==
    /\ cbs \in Seq(Callbacks)
    /\ \A j \in 1 .. Len(cbs) :
         cbs[j] \in CallsFor(now) \union {"error"} \union (IF now = st THEN {} ELSE {"headerComplete"})
    /\ \A j, k \in 1 .. Len(cbs) : j < k =>
         /\ cbs[k] # "headerComplete"
         /\ cbs[j] \in MessageCallbacks => cbs[k] = "error"
    /\ now # st =>
         /\ Len(cbs) >= 1 /\ cbs[1] = "headerComplete"
         /\ \A k \in 1 .. Len(cbs) : k > 1 => cbs[k] \in DataOnly \union {"error"}

LEMMA MessageCallsOneByOne ==
    ASSUME NEW st \in States \ Prologue, NEW now \in States \ Prologue,
           now # st => st = ReadingHeader /\ now = ReadingData,
           NEW mc \in Seq(Callbacks), NEW err \in Errors,
           \/ now = st /\ mc = <<>>
           \/ now = st /\ \E c \in CallsFor(st) : mc = <<c>>
           \/ now # st /\ mc = <<"headerComplete">>
           \/ now # st /\ \E c \in DataOnly : mc = <<"headerComplete", c>>
    PROVE  OneByOne(mc \o err, st, now)
  <1> DEFINE cbs == mc \o err
  <1>1. err \in Seq(Callbacks) /\ Len(err) \in {0, 1} /\ (Len(err) = 1 => err[1] = "error")
    <2>1. \A c \in Callbacks : <<c>> \in Seq(Callbacks)
      OBVIOUS
    <2>2. "error" \in Callbacks
      BY DEF Callbacks
    <2>3. CASE err = <<>>
      BY <2>3, EmptySeq
    <2>4. CASE err = <<"error">>
      <3>1. Len(<<"error">>) = 1 /\ <<"error">>[1] = "error"
        OBVIOUS
      <3> QED BY <2>1, <2>2, <2>4, <3>1
    <2> QED BY <2>3, <2>4 DEF Errors
  <1>2. /\ cbs \in Seq(Callbacks) /\ Len(cbs) = Len(mc) + Len(err)
        /\ \A i \in 1 .. Len(mc) + Len(err) : cbs[i] = IF i <= Len(mc) THEN mc[i] ELSE err[i - Len(mc)]
    BY <1>1, ConcatProperties
  <1> HIDE DEF cbs
  <1>3. CallsFor(now) \subseteq MessageCallbacks /\ "headerComplete" \notin MessageCallbacks
        /\ "error" \notin MessageCallbacks /\ DataOnly \subseteq MessageCallbacks
    BY DEF CallsFor, MessageCallbacks, HeaderOnly, DataOnly, AnyTime
  <1>4. now # st => DataOnly \subseteq CallsFor(now)
    BY DEF CallsFor, ReadingHeader, ReadingData
  <1>5. CASE mc = <<>> /\ now = st
    <2>1. Len(mc) = 0
      BY <1>5
    <2> QED BY <1>1, <1>2, <1>3, <1>5, <2>1 DEF OneByOne, cbs
  <1>6. ASSUME NEW c \in CallsFor(st), mc = <<c>>, now = st PROVE OneByOne(cbs, st, now)
    <2>1. Len(mc) = 1 /\ mc[1] = c
      BY <1>6
    <2> QED BY <1>1, <1>2, <1>3, <1>6, <2>1 DEF OneByOne
  <1>7. CASE mc = <<"headerComplete">> /\ now # st
    <2>1. Len(mc) = 1 /\ mc[1] = "headerComplete"
      BY <1>7
    <2> QED BY <1>1, <1>2, <1>3, <1>7, <2>1 DEF OneByOne
  <1>8. ASSUME NEW c \in DataOnly, mc = <<"headerComplete", c>>, now # st PROVE OneByOne(cbs, st, now)
    <2>1. Len(mc) = 2 /\ mc[1] = "headerComplete" /\ mc[2] = c
      BY <1>8
    <2> QED BY <1>1, <1>2, <1>3, <1>4, <1>8, <2>1 DEF OneByOne
  <1> QED BY <1>5, <1>6, <1>7, <1>8 DEF cbs

-----------------------------------------------------------------------------
(* Steps that make no callback. *)
LEMMA NoCalls ==
    ASSUME CallsTellState, CallsBehind, CallbackOrder, DeliveredInOrder, FatalIsFinal, TypeOK,
           UNCHANGED calls, At' \in Nat, At <= At',
           state' = state \/ (state \in Prologue /\ state' \in Prologue)
    PROVE  /\ CallsTellState' /\ CallsBehind' /\ CallbackOrder' /\ DeliveredInOrder' /\ FatalIsFinal'
  <1>1. CallbackOrder' /\ DeliveredInOrder' /\ FatalIsFinal'
    BY DEF CallbackOrder, DeliveredInOrder, FatalIsFinal
  <1>2. CallsBehind'
    <2>1. \A i \in 1 .. Len(calls) : calls[i].at \in Nat
      <3>1. calls \in Seq([cb : Callbacks, at : Nat])
        BY DEF TypeOK
      <3>2. \A i \in 1 .. Len(calls) : calls[i] \in [cb : Callbacks, at : Nat]
        BY <3>1, ElementOfSeq
      <3> QED BY <3>2
    <2>2. At \in Nat
      BY DEF At, TypeOK
    <2> QED BY <2>1, <2>2 DEF CallsBehind
  <1>3. CallsTellState'
    BY DEF CallsTellState, Made, OnlyMade, Prologue, Sections, ReadingMagic, ReadingFlagBits,
           ReadingHeader, ReadingData, InvalidData
  <1> QED BY <1>1, <1>2, <1>3

(* A step that makes the callbacks cbs for the bytes at the cursor, at most *)
(* one of them that of a message, with which the cursor moves on.           *)
LEMMA InOrder ==
    ASSUME TypeOK, CallsBehind, DeliveredInOrder, NEW cbs \in Seq(Callbacks),
           calls' = Calling(cbs), At' \in Nat, At <= At',
           \A j \in 1 .. Len(cbs) : cbs[j] \in MessageCallbacks => At < At',
           \A j, k \in 1 .. Len(cbs) :
             j < k => ~ (cbs[j] \in MessageCallbacks /\ cbs[k] \in MessageCallbacks)
    PROVE  CallsBehind' /\ DeliveredInOrder'
  <1>1. /\ calls \in Seq([cb : Callbacks, at : Nat]) /\ Len(calls) \in Nat /\ Len(cbs) \in Nat
        /\ Len(calls') = Len(calls) + Len(cbs)
        /\ \A i \in 1 .. Len(calls) : calls'[i] = calls[i]
        /\ \A i \in Len(calls) + 1 .. Len(calls') :
             /\ i - Len(calls) \in 1 .. Len(cbs)
             /\ calls'[i].cb = cbs[i - Len(calls)] /\ calls'[i].at = At
    BY Recorded
  <1>2. At \in Nat
    BY DEF At, TypeOK
  <1>3. \A i \in 1 .. Len(calls) : calls[i].at \in Nat
    <2>1. \A i \in 1 .. Len(calls) : calls[i] \in [cb : Callbacks, at : Nat]
      BY <1>1, ElementOfSeq
    <2> QED BY <2>1
  <1>4. \A i \in 1 .. Len(calls') : i \in 1 .. Len(calls) \/ i \in Len(calls) + 1 .. Len(calls')
    BY <1>1
  <1>5. CallsBehind'
    <2>1. ASSUME NEW i \in 1 .. Len(calls)
          PROVE  /\ calls'[i].at <= At'
                 /\ calls'[i].cb \in MessageCallbacks => calls'[i].at < At'
      BY <1>1, <1>2, <1>3 DEF CallsBehind
    <2>2. ASSUME NEW i \in Len(calls) + 1 .. Len(calls')
          PROVE  /\ calls'[i].at <= At'
                 /\ calls'[i].cb \in MessageCallbacks => calls'[i].at < At'
      BY <1>1, <1>2
    <2> QED BY <1>4, <2>1, <2>2 DEF CallsBehind, MessageCallbacks
  <1>6. DeliveredInOrder'
    <2> SUFFICES ASSUME NEW i \in 1 .. Len(calls'), NEW j \in 1 .. Len(calls'), i < j
                 PROVE  /\ calls'[i].at <= calls'[j].at
                        /\ calls'[i].cb \in MessageCallbacks /\ calls'[j].cb \in MessageCallbacks =>
                             calls'[i].at < calls'[j].at
      BY DEF DeliveredInOrder, MessageCallbacks
    <2>1. CASE j \in 1 .. Len(calls)
      <3>1. i \in 1 .. Len(calls)
        BY <2>1, <1>1
      <3> QED BY <1>1, <2>1, <3>1 DEF DeliveredInOrder
    <2>2. CASE j \in Len(calls) + 1 .. Len(calls') /\ i \in 1 .. Len(calls)
      BY <1>1, <1>2, <1>3, <2>2 DEF CallsBehind
    <2>3. CASE j \in Len(calls) + 1 .. Len(calls') /\ i \in Len(calls) + 1 .. Len(calls')
      <3>1. i - Len(calls) < j - Len(calls)
        BY <1>1, <2>3
      <3>2. ~ (calls'[i].cb \in MessageCallbacks /\ calls'[j].cb \in MessageCallbacks)
        BY <1>1, <2>3, <3>1, Zenon
      <3>3. calls'[i].at <= calls'[j].at
        BY <1>1, <1>2, <2>3
      <3> QED BY <3>2, <3>3
    <2> QED BY <1>4, <2>1, <2>2, <2>3
  <1> QED BY <1>5, <1>6

(* A message is handled: the order of the callbacks is kept, and they tell  *)
(* of the new state what they told of the old.                              *)
LEMMA MessageOrder ==
    ASSUME TypeOK, CallsTellState, CallbackOrder, FatalIsFinal,
           state \in States \ Prologue, state' \in States \ Prologue,
           state' # state => state = ReadingHeader /\ state' = ReadingData,
           NEW cbs \in Seq(Callbacks), calls' = Calling(cbs), OneByOne(cbs, state, state')
    PROVE  CallsTellState' /\ CallbackOrder' /\ FatalIsFinal'
  <1> DEFINE n     == Len(calls)
             N     == Len(calls')
             cb(i) == calls'[i].cb
  <1>1. /\ calls \in Seq([cb : Callbacks, at : Nat]) /\ n \in Nat /\ Len(cbs) \in Nat
        /\ N = n + Len(cbs)
        /\ \A i \in 1 .. n : calls'[i] = calls[i]
        /\ \A i \in n + 1 .. N : i - n \in 1 .. Len(cbs) /\ cb(i) = cbs[i - n]
    BY Recorded
  <1>2. N \in Nat /\ n <= N /\ \A i \in 1 .. N : i \in 1 .. n \/ i \in n + 1 .. N
    BY <1>1
  <1>3. \A i \in 1 .. n : i \in 1 .. N
    BY <1>2
  <1>4. \A i \in 1 .. n : \A j \in n + 1 .. N : i \in 1 .. j - 1 /\ ~ (j < i)
    BY <1>1
  <1>5. ASSUME NEW j \in n + 1 .. N
        PROVE  cb(j) \in CallsFor(state') \union {"error"}
                           \union (IF state' = state THEN {} ELSE {"headerComplete"})
    BY <1>1 DEF OneByOne
  <1>6. ASSUME NEW i \in n + 1 .. N, NEW j \in n + 1 .. N, i < j
        PROVE  cb(j) # "headerComplete" /\ (cb(i) \in MessageCallbacks => cb(j) = "error")
    <2>1. i - n < j - n
      <3>1. i \in Int /\ j \in Int /\ n \in Int
        BY <1>1
      <3> HIDE DEF n
      <3> QED BY <1>6, <3>1
    <2> DEFINE a == i - n
               b == j - n
    <2>2. a \in 1 .. Len(cbs) /\ b \in 1 .. Len(cbs) /\ a < b /\ cb(i) = cbs[a] /\ cb(j) = cbs[b]
      BY <1>1, <2>1
    <2> HIDE DEF a, b, cb
    <2>3. cbs[b] # "headerComplete" /\ (cbs[a] \in MessageCallbacks => cbs[b] = "error")
      BY <2>2 DEF OneByOne
    <2> QED BY <2>2, <2>3
  <1>7. ASSUME state' # state
        PROVE  /\ n + 1 \in n + 1 .. N /\ cb(n + 1) = "headerComplete"
               /\ \A j \in n + 1 .. N : j # n + 1 => cb(j) \in DataOnly \union {"error"}
    <2>1. Len(cbs) >= 1 /\ cbs[1] = "headerComplete" /\ \A k \in 1 .. Len(cbs) : k > 1 => cbs[k] \in DataOnly \union {"error"}
      BY <1>7 DEF OneByOne
    <2>2. n + 1 \in n + 1 .. N /\ (n + 1) - n = 1
      BY <1>1, <2>1
    <2>3. \A j \in n + 1 .. N : j # n + 1 => j - n > 1
      BY <1>1
    <2> QED BY <1>1, <2>1, <2>2, <2>3
  <1>8. ASSUME NEW c, Made(c) PROVE \E i \in 1 .. n : cb(i) = c
    BY <1>1, <1>8 DEF Made
  <1>9. ASSUME NEW C, OnlyMade(C) PROVE \A i \in 1 .. n : cb(i) \in C
    BY <1>1, <1>9 DEF OnlyMade
  <1>10. state \in {InvalidData, ReadingHeader, ReadingData}
    BY DEF States, Prologue
  <1>11. /\ state = InvalidData => \A i \in 1 .. n : cb(i) \in {"error", "fatal"}
         /\ state # InvalidData => \E i \in 1 .. n : cb(i) = "fileHeader"
         /\ state = ReadingHeader => \A i \in 1 .. n : cb(i) \in HeaderOnly \union InfoCalls
         /\ state = ReadingData =>
              /\ \E i \in 1 .. n : cb(i) = "headerComplete"
              /\ \A i \in 1 .. n : cb(i) \in Callbacks \ {"fatal"}
    BY <1>8, <1>9, <1>10 DEF CallsTellState, Sections
  <1>12. /\ state = InvalidData => state' = state /\ \A i \in n + 1 .. N : cb(i) = "error"
         /\ state' = ReadingHeader =>
              state = state' /\ \A i \in n + 1 .. N : cb(i) \in HeaderOnly \union AnyTime \union {"error"}
         /\ state' = ReadingData =>
              \A i \in n + 1 .. N : cb(i) \in DataOnly \union AnyTime \union {"error", "headerComplete"}
    BY <1>5, <1>10 DEF CallsFor, InvalidData, ReadingHeader, ReadingData
  <1>13. /\ \A i \in 1 .. n : \A j \in 1 .. n : i < j =>
              /\ cb(j) \in HeaderOnly => cb(i) # "headerComplete"
              /\ cb(j) # "fileHeader" \/ cb(i) = "error"
              /\ cb(j) = "headerComplete" => cb(i) \notin DataOnly \union {cb(j)}
         /\ \A j \in 1 .. n :
              /\ cb(j) \in DataOnly => \E i \in 1 .. j - 1 : cb(i) = "headerComplete"
              /\ cb(j) \in AnyTime \union HeaderOnly \union {"headerComplete"} =>
                   \E i \in 1 .. j - 1 : cb(i) = "fileHeader"
         /\ \A i \in 1 .. n : \A j \in 1 .. n : i < j /\ cb(i) = "fatal" => cb(j) = "error"
    <2>1. \A j \in 1 .. n : \A i \in 1 .. j - 1 : i \in 1 .. n
      BY <1>1
    <2>2. \A i \in 1 .. n : cb(i) = calls[i].cb
      BY <1>1
    <2> HIDE DEF cb
    <2>3. \A i \in 1 .. n : \A j \in 1 .. n : i < j =>
            /\ cb(j) \in HeaderOnly => cb(i) # "headerComplete"
            /\ cb(j) # "fileHeader" \/ cb(i) = "error"
            /\ cb(j) = "headerComplete" => cb(i) \notin DataOnly \union {cb(j)}
      BY <2>2 DEF CallbackOrder
    <2>4. \A j \in 1 .. n :
            /\ cb(j) \in DataOnly => \E i \in 1 .. j - 1 : cb(i) = "headerComplete"
            /\ cb(j) \in AnyTime \union HeaderOnly \union {"headerComplete"} =>
                 \E i \in 1 .. j - 1 : cb(i) = "fileHeader"
      BY <2>1, <2>2 DEF CallbackOrder
    <2>5. \A i \in 1 .. n : \A j \in 1 .. n : i < j /\ cb(i) = "fatal" => cb(j) = "error"
      BY <2>2 DEF FatalIsFinal
    <2> QED BY <2>3, <2>4, <2>5
  <1>14. \A c \in DataOnly \union AnyTime \union HeaderOnly :
           c \notin {"headerComplete", "fileHeader", "fatal", "error"}
    BY DEF DataOnly, AnyTime, HeaderOnly
  <1>15. /\ DataOnly \intersect AnyTime = {} /\ DataOnly \intersect HeaderOnly = {}
         /\ AnyTime \intersect HeaderOnly = {}
    BY DEF DataOnly, AnyTime, HeaderOnly
  <1>16. \A i \in 1 .. N, j \in 1 .. n : i < j => i \in 1 .. n
    BY <1>1, <1>2
  <1> HIDE DEF n, N, cb
  <1>17. ASSUME NEW i \in 1 .. N, NEW j \in n + 1 .. N, i < j
         PROVE  /\ cb(j) \in HeaderOnly => cb(i) # "headerComplete"
                /\ cb(j) # "fileHeader"
                /\ cb(j) = "headerComplete" => cb(i) \notin DataOnly \union {cb(j)}
                /\ cb(i) = "fatal" => cb(j) = "error"
    <2>1. CASE state = InvalidData
      BY <1>12, <1>14, <2>1
    <2>2. CASE state' = ReadingHeader
      BY <1>2, <1>11, <1>12, <1>14, <1>15, <1>17, <2>2 DEF InfoCalls, ReadingHeader, ReadingData
    <2>3. CASE state' = ReadingData /\ state' = state
      <3>1. cb(j) \in DataOnly \union AnyTime \union {"error"}
        BY <1>5, <2>3 DEF CallsFor, ReadingHeader, ReadingData
      <3>2. cb(i) # "fatal"
        BY <1>2, <1>11, <1>12, <1>14, <1>17, <2>3
      <3> QED BY <1>14, <1>15, <3>1, <3>2
    <2>4. CASE state' = ReadingData /\ state' # state
      <3>1. state = ReadingHeader
        BY <2>4
      <3>2. cb(j) \in DataOnly \union {"error", "headerComplete"}
        BY <1>7, <2>4
      <3>3. cb(i) # "fatal"
        BY <1>2, <1>11, <1>12, <1>14, <1>17, <2>4, <3>1 DEF InfoCalls
      <3>4. ASSUME cb(j) = "headerComplete" PROVE cb(i) \notin DataOnly \union {cb(j)}
        <4>1. i \in 1 .. n
          BY <1>2, <1>6, <1>17, <3>4
        <4> QED BY <1>11, <1>14, <1>15, <3>1, <3>4, <4>1 DEF InfoCalls
      <3> QED BY <1>14, <1>15, <3>2, <3>3, <3>4
    <2> QED BY <1>10, <1>12, <2>1, <2>2, <2>3, <2>4
  <1>18. ASSUME NEW j \in n + 1 .. N
         PROVE  /\ cb(j) \in DataOnly => \E i \in 1 .. j - 1 : cb(i) = "headerComplete"
                /\ cb(j) \in AnyTime \union HeaderOnly \union {"headerComplete"} =>
                     \E i \in 1 .. j - 1 : cb(i) = "fileHeader"
    <2>1. ASSUME cb(j) \in DataOnly PROVE \E i \in 1 .. j - 1 : cb(i) = "headerComplete"
      <3>1. state' = ReadingData
        BY <1>10, <1>12, <1>14, <1>15, <2>1 DEF ReadingHeader, ReadingData
      <3>2. CASE state' = state
        BY <1>4, <1>11, <3>1, <3>2
      <3>3. CASE state' # state
        <4>1. n + 1 \in n + 1 .. N /\ cb(n + 1) = "headerComplete"
          BY <1>7, <3>3
        <4>2. j # n + 1
          BY <1>14, <2>1, <4>1
        <4>3. n + 1 \in 1 .. j - 1
          BY <1>1, <1>2, <4>2 DEF n, N
        <4> QED BY <4>1, <4>3
      <3> QED BY <3>2, <3>3
    <2>2. ASSUME cb(j) \in AnyTime \union HeaderOnly \union {"headerComplete"}
          PROVE  \E i \in 1 .. j - 1 : cb(i) = "fileHeader"
      <3>1. state # InvalidData
        BY <1>12, <1>14, <2>2
      <3> QED BY <1>4, <1>11, <3>1
    <2> QED BY <2>1, <2>2
  <1>19. CallbackOrder'
    <2>1. /\ \A i, j \in 1 .. N : i < j =>
              /\ cb(j) \in HeaderOnly => cb(i) # "headerComplete"
              /\ cb(j) # "fileHeader" \/ cb(i) = "error"
              /\ cb(j) = "headerComplete" => cb(i) \notin DataOnly \union {cb(j)}
      BY <1>2, <1>13, <1>16, <1>17
    <2>2. \A j \in 1 .. N :
              /\ cb(j) \in DataOnly => \E i \in 1 .. j - 1 : cb(i) = "headerComplete"
              /\ cb(j) \in AnyTime \union HeaderOnly \union {"headerComplete"} =>
                   \E i \in 1 .. j - 1 : cb(i) = "fileHeader"
      BY <1>2, <1>13, <1>18
    <2> QED BY <2>1, <2>2 DEF CallbackOrder, cb, N
  <1>20. FatalIsFinal'
    <2>1. \A i, j \in 1 .. N : i < j /\ cb(i) = "fatal" => cb(j) = "error"
      BY <1>2, <1>13, <1>16, <1>17
    <2> QED BY <2>1 DEF FatalIsFinal, cb, N
  <1>21. CallsTellState'
    <2>1. /\ state' = InvalidData => \A i \in 1 .. N : cb(i) \in {"error", "fatal"}
          /\ state' # InvalidData => \E i \in 1 .. N : cb(i) = "fileHeader"
          /\ state' = ReadingHeader => \A i \in 1 .. N : cb(i) \in HeaderOnly \union InfoCalls
      BY <1>2, <1>3, <1>10, <1>11, <1>12 DEF InfoCalls, InvalidData, ReadingHeader, ReadingData
    <2>2. ASSUME state' = ReadingData
          PROVE  /\ \E i \in 1 .. N : cb(i) = "headerComplete"
                 /\ \A i \in 1 .. N : cb(i) \in Callbacks \ {"fatal"}
      <3>1. \E i \in 1 .. N : cb(i) = "headerComplete"
        <4>1. CASE state' = state
          BY <1>3, <1>11, <2>2, <4>1
        <4>2. CASE state' # state
          <5>1. n + 1 \in 1 .. N
            BY <1>1, <1>2, <1>7, <4>2 DEF n, N
          <5> QED BY <1>7, <4>2, <5>1
        <4> QED BY <4>1, <4>2
      <3>2. \A i \in n + 1 .. N : cb(i) \in Callbacks \ {"fatal"}
        BY <1>12, <1>14, <2>2 DEF Callbacks
      <3>3. \A i \in 1 .. n : cb(i) \in Callbacks \ {"fatal"}
        BY <1>10, <1>11, <1>12, <1>14, <2>2 DEF Callbacks, InfoCalls, InvalidData, ReadingHeader, ReadingData
      <3> QED BY <1>2, <3>1, <3>2, <3>3
    <2> QED BY <2>1, <2>2 DEF CallsTellState, Made, OnlyMade, Sections, cb, N, States, Prologue
  <1> QED BY <1>19, <1>20, <1>21

-----------------------------------------------------------------------------
(* What the steps have to keep, besides the invariant of ReaderProofs. *)
CallsKept == CallsTellState /\ CallsBehind /\ CallbackOrder /\ DeliveredInOrder /\ FatalIsFinal

LEMMA CursorType == ASSUME TypeOK PROVE At \in Nat
  BY DEF At, TypeOK

(* A message that is handled makes its calls, with the cursor going past it *)
(* where it had a callback of its own.                                      *)
LEMMA HandleKeepsCalls ==
    ASSUME CallsInv, IInv', InLoop, NEW m, NEW accepts, NEW held, NEW rest, NEW unread,
           Handle(m, accepts, held, rest, unread), fed' = fed,
           At < fed - unread - Len(rest), At <= fed - 0 - Len(held)
    PROVE  CallsKept'
  <1> DEFINE h == Handling(state, m, accepts)
  <1>1. IInv /\ TypeOK /\ TypeOK' /\ CallsTellState /\ CallbackOrder /\ FatalIsFinal
        /\ CallsBehind /\ DeliveredInOrder
    BY DEF CallsInv, IInv
  <1>2. At \in Nat /\ At' \in Nat
    BY <1>1, CursorType DEF At, TypeOK
  <1>3. state \in States \ Prologue /\ state' = h.state
    <2>1. state \notin Prologue
      BY <1>1, PrologueOver
    <2> QED BY <1>1, <2>1 DEF TypeOK, Handle
  <1>4. /\ h.calls \in Seq(Callbacks)
        /\ h.state = state \/ (state = ReadingHeader /\ h.state = ReadingData)
    BY <1>3, HandlingType
  <1>5. state' \in States \ Prologue /\ (state' # state => state = ReadingHeader /\ state' = ReadingData)
    BY <1>3, <1>4 DEF States, Prologue, ReadingHeader, ReadingData, ReadingMagic, ReadingFlagBits
  <1>6. \/ h.state = state /\ h.calls = <<>>
        \/ h.state = state /\ \E c \in CallsFor(state) : h.calls = <<c>> /\ h.outcome # Foreign
        \/ /\ state = ReadingHeader /\ h.state = ReadingData
           /\ \/ h.calls = <<"headerComplete">>
              \/ \E c \in DataOnly : h.calls = <<"headerComplete", c>> /\ h.outcome # Foreign
    BY <1>3, HandlingCalls
  <1>7. ReadingHeader # ReadingData
    BY DEF ReadingHeader, ReadingData
  <1>8. ASSUME NEW err \in Errors PROVE OneByOne(h.calls \o err, state, state')
    <2>1. \/ state' = state /\ h.calls = <<>>
          \/ state' = state /\ \E c \in CallsFor(state) : h.calls = <<c>>
          \/ state' # state /\ h.calls = <<"headerComplete">>
          \/ state' # state /\ \E c \in DataOnly : h.calls = <<"headerComplete", c>>
      BY <1>3, <1>6, <1>7
    <2> HIDE DEF h
    <2> QED BY <1>3, <1>4, <1>5, <2>1, MessageCallsOneByOne
  <1>9. ASSUME NEW cbs, OneByOne(cbs, state, state'), calls' = Calling(cbs), At <= At',
               \A j \in 1 .. Len(cbs) : cbs[j] \in MessageCallbacks => At < At'
        PROVE  CallsKept'
    <2>1. cbs \in Seq(Callbacks)
      BY <1>9 DEF OneByOne
    <2>2. CallsTellState' /\ CallbackOrder' /\ FatalIsFinal'
      BY <1>1, <1>3, <1>5, <1>9, <2>1, MessageOrder
    <2>3. "error" \notin MessageCallbacks
      BY DEF MessageCallbacks, HeaderOnly, DataOnly, AnyTime
    <2>4. \A j, k \in 1 .. Len(cbs) :
            j < k => ~ (cbs[j] \in MessageCallbacks /\ cbs[k] \in MessageCallbacks)
      BY <1>9, <2>3 DEF OneByOne
    <2>5. CallsBehind' /\ DeliveredInOrder'
      BY <1>1, <1>2, <1>9, <2>1, <2>4, InOrder
    <2> QED BY <2>2, <2>5 DEF CallsKept
  <1>10. h.calls \o <<>> = h.calls
    BY <1>4, ConcatEmptySeq
  <1>11. CorruptionCalls \in Errors /\ <<>> \in Errors
    BY DEF CorruptionCalls, Errors
  <1>12. CASE calls' = Calling(h.calls) /\ buffer' = rest /\ length' = unread
    <2>1. At' = fed - unread - Len(rest)
      BY <1>12 DEF At
    <2>2. OneByOne(h.calls, state, state')
      BY <1>8, <1>10, <1>11
    <2> HIDE DEF h
    <2> QED BY <1>2, <1>9, <1>12, <2>1, <2>2
  <1>13. CASE calls' = Calling(h.calls \o CorruptionCalls) /\ buffer' = rest /\ length' = unread
    <2>1. At' = fed - unread - Len(rest)
      BY <1>13 DEF At
    <2>2. OneByOne(h.calls \o CorruptionCalls, state, state')
      BY <1>8, <1>11
    <2> DEFINE cbs == h.calls \o CorruptionCalls
    <2> HIDE DEF h, cbs
    <2>3. OneByOne(cbs, state, state') /\ calls' = Calling(cbs)
      BY <1>13, <2>2 DEF cbs
    <2> QED BY <1>2, <1>9, <2>1, <2>3
  <1>14. CASE h.outcome = Foreign /\ calls' = Calling(h.calls) /\ buffer' = held /\ length' = 0
    <2>1. At' = fed - 0 - Len(held)
      BY <1>14 DEF At
    <2>2. OneByOne(h.calls, state, state')
      BY <1>8, <1>10, <1>11
    <2>3. h.calls = <<>> \/ h.calls = <<"headerComplete">>
      BY <1>6, <1>14
    <2>4. \A j \in 1 .. Len(h.calls) : h.calls[j] \notin MessageCallbacks
      <3>1. "headerComplete" \notin MessageCallbacks
        BY DEF MessageCallbacks, HeaderOnly, DataOnly, AnyTime
      <3>2. Len(<<"headerComplete">>) = 1 /\ <<"headerComplete">>[1] = "headerComplete" /\ Len(<<>>) = 0
        OBVIOUS
      <3> HIDE DEF h
      <3> QED BY <2>3, <3>1, <3>2
    <2> HIDE DEF h
    <2> QED BY <1>2, <1>9, <1>14, <2>1, <2>2, <2>4
  <1> QED BY <1>12, <1>13, <1>14 DEF Handle

LEMMA CompletePartialKeepsCalls ==
    ASSUME CallsInv, NEW accepts, CompletePartial(accepts) PROVE CallsKept'
  <1>1. IInv /\ IInv' /\ TypeOK /\ fed \in Nat /\ length \in Nat /\ Len(buffer) \in Nat
    <2>1. IInv /\ TypeOK
      BY DEF CallsInv, IInv
    <2>2. IInv'
      BY <2>1, CompletePartialKeeps
    <2>3. fed \in Nat /\ length \in Nat /\ Len(buffer) \in Nat
      BY <2>1, StreamsAssumption, LenProperties DEF TypeOK
    <2> QED BY <2>1, <2>2, <2>3
  <1>2. PICK m \in FramedInBuffer :
          Handle(m, accepts, Filled, SubSeq(Filled, Len(m) + 1, Len(Filled)), length - Added)
    BY DEF CompletePartial
  <1> DEFINE rest == SubSeq(Filled, Len(m) + 1, Len(Filled))
  <1>3. /\ Added \in 0 .. length /\ Len(Filled) = Len(buffer) + Added
        /\ Len(m) \in HeaderLen .. Len(Filled)
    BY <1>1, FilledType, FramedInBufferType
  <1>4. /\ Len(m) \in 0 .. Len(buffer) + Added
        /\ rest = SubSeq(buffer \o Data(Added), Len(m) + 1, Len(buffer \o Data(Added)))
    BY <1>1, <1>3 DEF Filled, HeaderLen
  <1>5. Len(rest) = Len(buffer) + Added - Len(m)
    BY <1>1, <1>3, <1>4, Dropping
  <1> HIDE DEF rest
  <1>6. At < fed - (length - Added) - Len(rest) /\ At <= fed - 0 - Len(Filled)
    <2>1. Len(m) \in Nat /\ Len(m) > 0 /\ Added \in Nat /\ Added <= length
      BY <1>1, <1>3 DEF HeaderLen
    <2>2. \A l, f : l = Len(buffer) + Added - Len(m) /\ f = Len(buffer) + Added =>
            At < fed - (length - Added) - l /\ At <= fed - 0 - f
      BY <1>1, <2>1 DEF At
    <2> QED BY <1>3, <1>5, <2>2
  <1>7. InLoop /\ fed' = fed
    BY DEF CompletePartial
  <1> QED BY <1>1, <1>2, <1>6, <1>7, HandleKeepsCalls DEF rest

(* A message taken from the chunk is not empty, nor longer than the chunk. *)
LEMMA ChunkMessage ==
    ASSUME TypeOK, NEW m \in FramedInChunk
    PROVE  Len(m) \in 1 .. length
  <1>1. /\ m = Data(MsgLen(Data(HeaderLen)))
        /\ length > HeaderLen
        /\ length >= MsgLen(Data(HeaderLen))
    BY DEF FramedInChunk
  <1>2. length \in Nat /\ HeaderLen \in 0 .. length /\ HeaderLen >= HeaderLen
    BY <1>1 DEF TypeOK, HeaderLen
  <1>3. Data(HeaderLen) \in Seq(Byte) /\ Len(Data(HeaderLen)) = HeaderLen
    BY <1>2, DataBytes
  <1>4. MsgLen(Data(HeaderLen)) \in Nat /\ MsgLen(Data(HeaderLen)) >= HeaderLen
    BY <1>2, <1>3, HeaderBytes
  <1>5. MsgLen(Data(HeaderLen)) \in 0 .. length /\ MsgLen(Data(HeaderLen)) \in 1 .. length
    BY <1>1, <1>2, <1>4 DEF HeaderLen
  <1> QED BY <1>1, <1>5, DataBytes

LEMMA TakeWholeKeepsCalls ==
    ASSUME CallsInv, NEW accepts \in HandlerVerdicts, TakeWhole(accepts) PROVE CallsKept'
  <1>1. IInv /\ IInv' /\ TypeOK /\ fed \in Nat /\ length \in 0 .. fed /\ buffer = <<>> /\ Len(buffer) = 0
    <2>1. IInv /\ TypeOK
      BY DEF CallsInv, IInv
    <2>2. IInv'
      BY <2>1, TakeWholeKeeps
    <2>3. fed \in Nat /\ length \in 0 .. fed /\ buffer = <<>> /\ Len(buffer) = 0
      BY <2>1, StreamsAssumption, LenProperties, EmptySeq DEF TypeOK, TakeWhole
    <2> QED BY <2>1, <2>2, <2>3
  <1>2. PICK m \in FramedInChunk : Handle(m, accepts, <<>>, <<>>, length - Len(m))
    BY DEF TakeWhole
  <1>3. Len(m) \in 1 .. length
    BY <1>1, <1>2, ChunkMessage
  <1>4. At < fed - (length - Len(m)) - Len(<<>>) /\ At <= fed - 0 - Len(<<>>)
    <2>1. Len(<<>>) = 0
      BY EmptySeq
    <2> QED BY <1>1, <1>3, <2>1 DEF At
  <1>5. InLoop /\ fed' = fed
    BY DEF TakeWhole
  <1> QED BY <1>1, <1>2, <1>4, <1>5, HandleKeepsCalls

-----------------------------------------------------------------------------
(* The prologue makes the first callbacks there are. *)
LEMMA FirstCalls ==
    ASSUME TypeOK, CallsTellState, state \in Prologue, NEW cbs \in PrologueCalls, calls' = Calling(cbs),
           At' \in Nat, At <= At',
           \/ state' = InvalidData /\ cbs \in {<<"fatal">>, <<"error", "fatal">>}
           \/ state' = ReadingHeader /\ cbs \in {<<"fileHeader">>, <<"error", "fileHeader">>}
    PROVE  CallsKept'
  <1>1. \A c \in Callbacks : <<c>> \in Seq(Callbacks) /\ \A d \in Callbacks : <<c, d>> \in Seq(Callbacks)
    OBVIOUS
  <1>2. {"error", "fatal", "fileHeader"} \subseteq Callbacks
    BY DEF Callbacks
  <1>3. cbs \in Seq(Callbacks)
    BY <1>1, <1>2 DEF PrologueCalls
  <1>4. calls = <<>> /\ Len(calls) = 0
    BY EmptySeq DEF CallsTellState
  <1>5. /\ Len(calls') = Len(cbs) /\ Len(cbs) \in Nat
        /\ \A i \in 1 .. Len(cbs) : calls'[i].cb = cbs[i] /\ calls'[i].at = At
    <2>1. /\ Len(calls') = Len(calls) + Len(cbs) /\ Len(cbs) \in Nat
          /\ \A i \in Len(calls) + 1 .. Len(calls') :
               calls'[i].cb = cbs[i - Len(calls)] /\ calls'[i].at = At
      BY <1>3, Recorded
    <2> QED BY <1>4, <2>1
  <1>6. At \in Nat
    BY CursorType
  <1>7. {"error", "fatal", "fileHeader"} \intersect MessageCallbacks = {}
    BY DEF MessageCallbacks, HeaderOnly, DataOnly, AnyTime
  <1>8. \/ Len(cbs) = 1 /\ cbs[1] \in {"fatal", "fileHeader"}
        \/ Len(cbs) = 2 /\ cbs[1] = "error" /\ cbs[2] \in {"fatal", "fileHeader"}
    <2>1. \A c : Len(<<c>>) = 1 /\ <<c>>[1] = c
      OBVIOUS
    <2>2. \A c, d : Len(<<c, d>>) = 2 /\ <<c, d>>[1] = c /\ <<c, d>>[2] = d
      OBVIOUS
    <2> QED BY <2>1, <2>2 DEF PrologueCalls
  <1>9. cbs[Len(cbs)] = IF state' = InvalidData THEN "fatal" ELSE "fileHeader"
    <2>1. \A c : Len(<<c>>) = 1 /\ <<c>>[1] = c
      OBVIOUS
    <2>2. \A c, d : Len(<<c, d>>) = 2 /\ <<c, d>>[1] = c /\ <<c, d>>[2] = d
      OBVIOUS
    <2>3. InvalidData # ReadingHeader
      BY DEF InvalidData, ReadingHeader
    <2> QED BY <2>1, <2>2, <2>3
  <1>10. \A i \in 1 .. Len(cbs) : calls'[i].cb \in {"error", "fatal", "fileHeader"}
                                  /\ (i < Len(cbs) => calls'[i].cb = "error")
                                  /\ (i = Len(cbs) => calls'[i].cb # "error")
    BY <1>5, <1>8
  <1>11. \A c \in {"error", "fatal", "fileHeader"} :
           c \notin AnyTime \union HeaderOnly \union {"headerComplete"} \union DataOnly
    BY DEF AnyTime, HeaderOnly, DataOnly
  <1>12. CallbackOrder'
    <2>1. \A i, j \in 1 .. Len(calls') : i < j => calls'[i].cb = "error"
      BY <1>5, <1>10
    <2> QED BY <1>5, <1>10, <1>11, <2>1 DEF CallbackOrder
  <1>13. FatalIsFinal'
    BY <1>5, <1>10 DEF FatalIsFinal
  <1>14. CallsBehind'
    BY <1>5, <1>6, <1>7, <1>10 DEF CallsBehind, MessageCallbacks
  <1>15. DeliveredInOrder'
    BY <1>5, <1>6, <1>7, <1>10 DEF DeliveredInOrder, MessageCallbacks
  <1>16. CallsTellState'
    <2>1. CASE state' = InvalidData
      <3>1. \A i \in 1 .. Len(calls') : calls'[i].cb \in {"error", "fatal"}
        BY <1>5, <1>8, <1>9, <2>1
      <3> QED BY <2>1, <3>1 DEF CallsTellState, OnlyMade, Sections, Prologue, InvalidData, ReadingHeader,
                 ReadingData, ReadingMagic, ReadingFlagBits
    <2>2. CASE state' = ReadingHeader
      <3>1. \A i \in 1 .. Len(calls') : calls'[i].cb \in {"error", "fileHeader"}
        BY <1>5, <1>8, <1>9, <2>2 DEF InvalidData, ReadingHeader
      <3>2. Len(cbs) \in 1 .. Len(calls') /\ calls'[Len(cbs)].cb = "fileHeader"
        BY <1>5, <1>8, <1>9, <2>2 DEF InvalidData, ReadingHeader
      <3> QED BY <2>2, <3>1, <3>2 DEF CallsTellState, Made, OnlyMade, InfoCalls, Sections, Prologue, InvalidData,
                 ReadingHeader, ReadingData, ReadingMagic, ReadingFlagBits
    <2> QED BY <2>1, <2>2
  <1> QED BY <1>12, <1>13, <1>14, <1>15, <1>16 DEF CallsKept

LEMMA PrologueKeepsCalls == ASSUME CallsInv, ReadMagic \/ ReadFlagBits PROVE CallsKept'
  <1>1. IInv /\ IInv' /\ TypeOK /\ TypeOK' /\ fed \in Nat /\ length \in Nat /\ CallsTellState
    BY ReadMagicKeeps, ReadFlagBitsKeeps, StreamsAssumption, LenProperties DEF CallsInv, IInv, TypeOK
  <1>2. state \in Prologue /\ buffer' = buffer /\ fed' = fed
    BY DEF ReadMagic, ReadFlagBits, Prologue
  <1>3. At \in Nat /\ At' \in Nat
    BY <1>1, CursorType DEF At, TypeOK
  <1>4. Len(buffer) \in Nat
    BY <1>1, LenProperties DEF TypeOK
  <1>5. ASSUME length' <= length, length' \in Nat PROVE At <= At'
    BY <1>1, <1>2, <1>4, <1>5 DEF At
  <1>6. length' \in Nat
    BY <1>1 DEF TypeOK
  <1>7. CASE ReadMagic
    <2>1. length' <= length
      BY <1>1, <1>7 DEF ReadMagic, FileHeaderLen
    <2>2. CASE state' = InvalidData
      <3>1. calls' = Calling(<<"fatal">>)
        BY <1>7, <2>2 DEF ReadMagic, InvalidData, ReadingFlagBits
      <3> QED BY <1>1, <1>2, <1>3, <1>5, <1>6, <2>1, <2>2, <3>1, FirstCalls DEF PrologueCalls
    <2>3. CASE state' = ReadingFlagBits
      <3>1. calls' = calls
        BY <1>7, <2>3 DEF ReadMagic, InvalidData, ReadingFlagBits
      <3>2. state' \in Prologue
        BY <2>3 DEF Prologue
      <3> QED BY <1>1, <1>2, <1>3, <1>5, <1>6, <2>1, <3>1, <3>2, NoCalls DEF CallsKept, CallsInv
    <2> QED BY <1>7, <2>2, <2>3 DEF ReadMagic
  <1>8. CASE ReadFlagBits
    <2>1. CASE length < FlagBitsLen
      <3>1. state' = InvalidData /\ calls' = Calling(<<"fatal">>) /\ length' = length
        BY <1>8, <2>1 DEF ReadFlagBits
      <3>2. length' <= length
        BY <1>1, <3>1
      <3> QED BY <1>1, <1>2, <1>3, <1>5, <1>6, <3>1, <3>2, FirstCalls DEF PrologueCalls
    <2>2. CASE ~ (length < FlagBitsLen)
      <3> DEFINE b == Data(FlagBitsLen)
      <3>1. length >= FlagBitsLen
        BY <1>1, <2>2 DEF FlagBitsLen
      <3>2. FlagBitsSkip(b) \in Nat
        BY <1>1, <3>1, FlagBitsType
      <3>3. /\ state' = IF FlagBitsRefused(b) THEN InvalidData ELSE ReadingHeader
            /\ calls' = Calling(FlagBitsCalls(b))
            /\ length' = Greatest(length - FlagBitsSkip(b), 0)
        BY <1>8, <2>2 DEF ReadFlagBits
      <3> HIDE DEF b
      <3>4. length' <= length
        BY <1>1, <3>2, <3>3 DEF Greatest
      <3>5. /\ FlagBitsCalls(b) \in PrologueCalls
            /\ FlagBitsRefused(b) => FlagBitsCalls(b) \in {<<"fatal">>, <<"error", "fatal">>}
            /\ ~ FlagBitsRefused(b) => FlagBitsCalls(b) \in {<<"fileHeader">>, <<"error", "fileHeader">>}
        BY FlagBitsCallsMade
      <3>6. At <= At'
        BY <1>5, <1>6, <3>4
      <3> DEFINE cbs == FlagBitsCalls(b)
      <3> HIDE DEF cbs
      <3>7. /\ cbs \in PrologueCalls /\ calls' = Calling(cbs)
            /\ \/ state' = InvalidData /\ cbs \in {<<"fatal">>, <<"error", "fatal">>}
               \/ state' = ReadingHeader /\ cbs \in {<<"fileHeader">>, <<"error", "fileHeader">>}
        BY <3>3, <3>5 DEF cbs
      <3> QED BY <1>1, <1>2, <1>3, <3>6, <3>7, FirstCalls
    <2> QED BY <2>1, <2>2
  <1> QED BY <1>7, <1>8

-----------------------------------------------------------------------------
(* The other steps make no callback and take the cursor nowhere back. *)
LEMMA QuietKeepsCalls ==
    ASSUME CallsInv, IInv', UNCHANGED <<calls, state>>, At <= At' PROVE CallsKept'
  <1>1. TypeOK /\ TypeOK'
    BY DEF CallsInv, IInv
  <1>2. At' \in Nat
    <2>1. fed' \in Int /\ length' \in Int /\ Len(buffer') <= fed' - length' /\ buffer' \in Seq(Byte)
      BY <1>1 DEF TypeOK
    <2>2. Len(buffer') \in Nat
      BY <2>1, LenProperties
    <2> QED BY <2>1, <2>2 DEF At
  <1> QED BY <1>1, <1>2, NoCalls DEF CallsKept, CallsInv

LEMMA CursorStays ==
    ASSUME TypeOK, fed' = fed, NEW n \in 0 .. length, length' = length - n, Len(buffer') = Len(buffer) + n
    PROVE  At <= At'
  <1>1. fed \in Int /\ length \in Int /\ Len(buffer) \in Int
    BY LenProperties DEF TypeOK
  <1> QED BY <1>1 DEF At

LEMMA CursorGoesOn ==
    ASSUME IInv, InRecovery, NEW k \in 0 .. Len(Searched), Len(buffer') = Len(Searched) - k,
           fed' = fed, length' = length - Appended \/ length' = 0
    PROVE  At <= At'
  <1>1. /\ TypeOK /\ Len(buffer) \in Nat /\ Appended \in 1 .. length /\ length \in Nat
        /\ Len(Searched) = Len(buffer) + Appended
    BY Recovering
  <1>2. fed \in Int
    BY <1>1 DEF TypeOK
  <1> QED BY <1>1, <1>2 DEF At

LEMMA NextKeepsCalls == ASSUME CallsInv, [Next]_vars PROVE CallsKept'
  <1>1. IInv /\ IInv' /\ TypeOK /\ TypeOK' /\ length \in Nat /\ Len(buffer) \in Nat /\ fed \in Nat
    BY NextIInv, StreamsAssumption, LenProperties DEF CallsInv, IInv, TypeOK
  <1>2. ASSUME NEW n \in ChunkSizes, ReadChunk(n) PROVE CallsKept'
    <2>1. n \in Nat /\ length = 0 /\ fed' = fed + n /\ length' \in {0, n} /\ buffer' = buffer
      BY <1>1, <1>2, ChunksAssumption DEF ReadChunk, IInv, IdleConsumed
    <2>2. At <= At'
      BY <1>1, <2>1 DEF At
    <2> QED BY <1>1, <1>2, <2>2, QuietKeepsCalls DEF ReadChunk
  <1>3. CASE ReadMagic \/ ReadFlagBits
    BY <1>3, PrologueKeepsCalls
  <1>4. ASSUME NEW accepts \in HandlerVerdicts, CompletePartial(accepts) PROVE CallsKept'
    BY <1>4, CompletePartialKeepsCalls
  <1>5. CASE ExtendPartial
    <2>1. Added \in 0 .. length /\ Len(buffer') = Len(buffer) + Added
      BY <1>1, <1>5, FilledType DEF ExtendPartial
    <2>2. At <= At'
      BY <1>1, <1>5, <2>1, CursorStays DEF ExtendPartial
    <2> QED BY <1>1, <1>5, <2>2, QuietKeepsCalls DEF ExtendPartial
  <1>6. ASSUME NEW accepts \in HandlerVerdicts, TakeWhole(accepts) PROVE CallsKept'
    BY <1>6, TakeWholeKeepsCalls
  <1>7. CASE StartPartial
    <2>1. Appended \in 0 .. length /\ buffer = <<>>
      BY <1>1, <1>7, SearchedType DEF IInv, StartPartial
    <2>2. Len(buffer') = Len(buffer) + Appended
      BY <1>1, <1>7, <2>1, DataBytes, EmptySeq DEF StartPartial
    <2>3. At <= At'
      BY <1>1, <1>7, <2>1, <2>2, CursorStays DEF StartPartial
    <2> QED BY <1>1, <1>7, <2>3, QuietKeepsCalls DEF StartPartial
  <1>8. CASE LeaveLoop \/ LeaveRecovery \/ UNCHANGED vars
    <2>1. At' = At /\ UNCHANGED <<calls, state>>
      BY <1>8 DEF LeaveLoop, LeaveRecovery, vars, At
    <2>2. At <= At'
      BY <1>1, <2>1, CursorType
    <2> QED BY <1>1, <2>1, <2>2, QuietKeepsCalls
  <1>9. CASE RecoverShort
    <2>1. InRecovery /\ Len(buffer') = Len(Searched) - 0 /\ 0 \in 0 .. Len(Searched)
      BY <1>1, <1>9, Recovering DEF RecoverShort
    <2>2. At <= At'
      BY <1>1, <1>9, <2>1, CursorGoesOn DEF RecoverShort
    <2> QED BY <1>1, <1>9, <2>2, QuietKeepsCalls DEF RecoverShort
  <1>10. CASE RecoverNothing
    <2> DEFINE k == Greatest(ScanStart, ScanEnd)
    <2>1. InRecovery /\ k \in 0 .. Len(Searched) /\ buffer' = Drop(k)
      BY <1>1, <1>10, Recovering DEF RecoverNothing, Greatest, ScanEnd, HeaderLen
    <2> HIDE DEF k
    <2>2. Len(buffer') = Len(Searched) - k
      BY <1>1, <2>1, DropLength
    <2>3. At <= At'
      BY <1>1, <1>10, <2>1, <2>2, CursorGoesOn DEF RecoverNothing
    <2> QED BY <1>1, <1>10, <2>3, QuietKeepsCalls DEF RecoverNothing
  <1>11. CASE RecoverFound
    <2>1. PICK k \in Candidates : buffer' = Drop(k)
      BY <1>11 DEF RecoverFound
    <2>2. InRecovery /\ k \in 0 .. Len(Searched)
      BY <1>1, <1>11, Recovering DEF RecoverFound, Candidates, ScanEnd, HeaderLen
    <2>3. Len(buffer') = Len(Searched) - k
      BY <1>1, <2>1, <2>2, DropLength
    <2>4. At <= At'
      BY <1>1, <1>11, <2>2, <2>3, CursorGoesOn DEF RecoverFound
    <2> QED BY <1>1, <1>11, <2>4, QuietKeepsCalls DEF RecoverFound
  <1> QED BY <1>2, <1>3, <1>4, <1>5, <1>6, <1>7, <1>8, <1>9, <1>10, <1>11 DEF Next, Step

LEMMA CallsInvariant == Spec => []CallsInv
  <1>1. Init => CallsInv
    <2> SUFFICES ASSUME Init PROVE CallsInv
      OBVIOUS
    <2>1. calls = <<>> /\ Len(calls) = 0 /\ state \in Prologue /\ state = ReadingMagic
      BY EmptySeq DEF Init, Prologue
    <2>2. CallsTellState /\ CallsBehind /\ CallbackOrder /\ DeliveredInOrder /\ FatalIsFinal
      BY <2>1 DEF CallsTellState, CallsBehind, CallbackOrder, DeliveredInOrder, FatalIsFinal, OnlyMade, Made,
                  Sections, ReadingMagic, ReadingHeader, ReadingData, InvalidData
    <2> QED BY <2>2, InitIInv DEF CallsInv
  <1>2. CallsInv /\ [Next]_vars => CallsInv'
    <2> SUFFICES ASSUME CallsInv, [Next]_vars PROVE CallsInv'
      OBVIOUS
    <2>1. IInv'
      BY NextIInv DEF CallsInv
    <2> QED BY <2>1, NextKeepsCalls DEF CallsInv, CallsKept
  <1> QED BY <1>1, <1>2, PTL DEF Spec

(* File header, then header messages, headerComplete once, then data: no    *)
(* corruption, recovery or cut of the log lets the handler hear of a        *)
(* section out of its order.                                                *)
THEOREM SectionsInOrder == Spec => []CallbackOrder
  <1>1. CallsInv => CallbackOrder
    BY DEF CallsInv
  <1> QED BY <1>1, CallsInvariant, PTL

(* No message of the log is delivered twice, and none after a later one.    *)
THEOREM NoMessageTwice == Spec => []DeliveredInOrder
  <1>1. CallsInv => DeliveredInOrder
    BY DEF CallsInv
  <1> QED BY <1>1, CallsInvariant, PTL

(* After an error that is not recoverable the handler hears of errors only. *)
THEOREM NothingAfterFatal == Spec => []FatalIsFinal
  <1>1. CallsInv => FatalIsFinal
    BY DEF CallsInv
  <1> QED BY <1>1, CallsInvariant, PTL

-----------------------------------------------------------------------------
(***************************************************************************)
(* As long as nothing was corrupt, no complete message is in the buffer    *)
(* between the steps: ensure_enough_data takes no more from the chunk than *)
(* the message needs, so a handled message leaves nothing behind it.       *)
(***************************************************************************)
NoneWaits == ~ corruptionReported /\ ~ escaped => ~ needRecovery /\ ~ CompleteMessageWaits

AtOnceInv == IInv /\ NoneWaits

(* However many bytes of the chunk are put behind the buffer, the message   *)
(* at its front has the same length, once it has a header.                  *)
LEMMA LengthInBuffer ==
    ASSUME TypeOK, NEW n \in 0 .. length, NEW k \in 0 .. length,
           Len(buffer) + n >= HeaderLen, Len(buffer) + k >= HeaderLen
    PROVE  MsgLen(buffer \o Data(n)) = MsgLen(buffer \o Data(k))
  <1>1. Len(buffer) \in Nat /\ fed \in Int /\ length \in Int
    BY LenProperties DEF TypeOK
  <1>2. /\ Data(n) \in Seq(Byte) /\ Len(Data(n)) = n
        /\ Data(k) \in Seq(Byte) /\ Len(Data(k)) = k
    BY DataBytes
  <1>3. /\ \A i \in 1 .. n : Data(n)[i] = stream[fed - length + 1 + i - 1]
        /\ \A i \in 1 .. k : Data(k)[i] = stream[fed - length + 1 + i - 1]
    <2>1. fed - length + n - (fed - length + 1) + 1 = n /\ fed - length + k - (fed - length + 1) + 1 = k
      BY <1>1
    <2>2. stream \in Seq(Byte) /\ Len(stream) \in Nat /\ fed \in 0 .. Len(stream) /\ length \in 0 .. fed
      BY StreamsAssumption, LenProperties DEF TypeOK
    <2> QED BY <1>1, <1>2, <2>1, <2>2, SubSeqProperties DEF Data
  <1>4. ASSUME NEW i \in 1 .. HeaderLen PROVE (buffer \o Data(n))[i] = (buffer \o Data(k))[i]
    <2>1. i \in 1 .. Len(buffer) + n /\ i \in 1 .. Len(buffer) + k
      BY <1>1 DEF HeaderLen
    <2>2. /\ (buffer \o Data(n))[i] = IF i <= Len(buffer) THEN buffer[i] ELSE Data(n)[i - Len(buffer)]
          /\ (buffer \o Data(k))[i] = IF i <= Len(buffer) THEN buffer[i] ELSE Data(k)[i - Len(buffer)]
      BY <1>2, <2>1, ConcatProperties DEF TypeOK
    <2>3. ~ (i <= Len(buffer)) => i - Len(buffer) \in 1 .. n /\ i - Len(buffer) \in 1 .. k
      BY <1>1, <2>1
    <2> QED BY <1>3, <2>2, <2>3
  <1>5. 1 \in 1 .. HeaderLen /\ 2 \in 1 .. HeaderLen
    BY DEF HeaderLen
  <1> QED BY <1>4, <1>5 DEF MsgLen, MsgSize

(* The buffer is filled up to the end of its message and no further. *)
LEMMA JustFilled ==
    ASSUME TypeOK, ~ CompleteMessageWaits, NEW m \in FramedInBuffer
    PROVE  Len(m) = Len(Filled)
  <1>1. Len(buffer) \in Nat /\ length \in Nat /\ buffer \in Seq(Byte)
    BY LenProperties DEF TypeOK
  <1> DEFINE n == Least(HeaderLen, length)
             b == buffer \o Data(n)
  <1>2. n \in 0 .. length /\ n <= HeaderLen /\ (n = HeaderLen \/ n = length)
    BY <1>1 DEF Least, HeaderLen
  <1>3. Data(n) \in Seq(Byte) /\ b \in Seq(Byte) /\ Len(b) = Len(buffer) + n
    BY <1>2, DataBytes, Appending
  <1>4. /\ Added \in 0 .. length /\ Filled \in Seq(Byte) /\ Len(Filled) = Len(buffer) + Added
        /\ Len(Filled) \in Nat
    BY <1>1, FilledType, LenProperties
  <1>5. Len(Filled) >= HeaderLen /\ Len(Filled) >= MsgLen(Filled)
    BY DEF FramedInBuffer
  <1>6. MsgLen(Filled) \in Nat /\ MsgLen(Filled) >= HeaderLen
    BY <1>4, <1>5, HeaderBytes
  <1>7. Len(m) = MsgLen(Filled)
    <2>1. m = SubSeq(Filled, 1, MsgLen(Filled))
      BY DEF FramedInBuffer
    <2>2. \A i \in 1 .. MsgLen(Filled) : Filled[i] \in Byte
      BY <1>4, <1>5, <1>6, ElementOfSeq
    <2>3. Len(SubSeq(Filled, 1, MsgLen(Filled)))
            = IF 1 <= MsgLen(Filled) THEN MsgLen(Filled) - 1 + 1 ELSE 0
      BY <1>6, <2>2, SubSeqProperties
    <2>4. (IF 1 <= MsgLen(Filled) THEN MsgLen(Filled) - 1 + 1 ELSE 0) = MsgLen(Filled)
      BY <1>6
    <2> QED BY <2>1, <2>3, <2>4, Zenon
  <1>8. Lacking = Required(b) - Len(buffer)
    BY DEF Lacking
  <1> HIDE DEF n
  <1>9. Len(buffer) + n >= HeaderLen
    BY <1>1, <1>2, <1>4, <1>5 DEF HeaderLen
  <1>10. MsgLen(b) = MsgLen(Filled)
    <2>1. Len(buffer) + Added >= HeaderLen
      BY <1>4, <1>5
    <2> QED BY <1>2, <1>4, <1>9, <2>1, LengthInBuffer DEF Filled
  <1> HIDE DEF b
  <1>11. Lacking = MsgLen(Filled) - Len(buffer)
    BY <1>3, <1>8, <1>9, <1>10 DEF Required, HeaderLen
  <1>12. Len(buffer) <= MsgLen(Filled)
    <2>1. CASE Len(buffer) <= HeaderLen
      BY <1>1, <1>6, <2>1 DEF HeaderLen
    <2>2. CASE Len(buffer) > HeaderLen
      <3>1. Len(buffer) >= HeaderLen
        BY <1>1, <2>2 DEF HeaderLen
      <3>2. MsgLen(b) = MsgLen(buffer)
        BY <1>1, <1>3, <3>1, LengthOfPrefix DEF b
      <3>3. ~ (Len(buffer) >= MsgLen(buffer))
        BY <2>2 DEF CompleteMessageWaits
      <3> QED BY <1>1, <1>6, <1>10, <3>2, <3>3
    <2> QED BY <1>1, <2>1, <2>2 DEF HeaderLen
  <1>13. Added <= MsgLen(Filled) - Len(buffer)
    BY <1>1, <1>6, <1>11, <1>12 DEF Added, Greatest, Least
  <1> QED BY <1>1, <1>4, <1>5, <1>6, <1>7, <1>13

(* What a handled message leaves, when it leaves nothing behind it. *)
LEMMA HandleAtOnce ==
    ASSUME NoneWaits, NEW m, NEW accepts, NEW held, NEW rest, NEW unread,
           Handle(m, accepts, held, rest, unread),
           ~ corruptionReported /\ ~ escaped => rest = <<>>
    PROVE  NoneWaits'
  <1>1. Len(<<>>) = 0
    BY EmptySeq
  <1>2. buffer' = <<>> => ~ CompleteMessageWaits'
    BY <1>1 DEF CompleteMessageWaits, HeaderLen
  <1>3. CASE buffer' = rest /\ UNCHANGED <<needRecovery, corruptionReported, escaped>>
    BY <1>2, <1>3 DEF NoneWaits
  <1>4. CASE corruptionReported' = TRUE
    BY <1>4 DEF NoneWaits
  <1>5. CASE escaped' = TRUE
    BY <1>5 DEF NoneWaits
  <1> QED BY <1>3, <1>4, <1>5 DEF Handle

LEMMA NextAtOnce == ASSUME AtOnceInv, [Next]_vars PROVE NoneWaits'
  <1>1. IInv /\ TypeOK /\ NoneWaits /\ length \in Nat /\ Len(buffer) \in Nat
    BY Measured DEF AtOnceInv
  <1>2. ASSUME UNCHANGED <<buffer, needRecovery, corruptionReported, escaped>> PROVE NoneWaits'
    BY <1>1, <1>2 DEF NoneWaits, CompleteMessageWaits
  <1>3. ASSUME NEW n \in ChunkSizes, ReadChunk(n) PROVE NoneWaits'
    BY <1>2, <1>3 DEF ReadChunk
  <1>4. CASE ReadMagic \/ ReadFlagBits \/ LeaveLoop \/ LeaveRecovery \/ UNCHANGED vars
    BY <1>2, <1>4 DEF ReadMagic, ReadFlagBits, LeaveLoop, LeaveRecovery, vars
  <1>5. ASSUME NEW accepts \in HandlerVerdicts, CompletePartial(accepts) PROVE NoneWaits'
    <2>1. PICK m \in FramedInBuffer :
            Handle(m, accepts, Filled, SubSeq(Filled, Len(m) + 1, Len(Filled)), length - Added)
      BY <1>5 DEF CompletePartial
    <2>2. ASSUME ~ corruptionReported /\ ~ escaped
          PROVE  SubSeq(Filled, Len(m) + 1, Len(Filled)) = <<>>
      <3>1. Len(m) = Len(Filled) /\ Len(Filled) \in Nat
        BY <1>1, <2>2, JustFilled, FilledType, LenProperties DEF NoneWaits
      <3> QED BY <3>1, SubSeqEmpty
    <2> QED BY <1>1, <2>1, <2>2, HandleAtOnce
  <1>6. CASE ExtendPartial
    <2>1. FramedInBuffer = {} /\ buffer' = Filled
      BY <1>6 DEF ExtendPartial
    <2>2. Filled \in Seq(Byte) /\ Len(Filled) \in Nat
      BY <1>1, FilledType, LenProperties
    <2>3. ~ (Len(Filled) >= HeaderLen /\ Len(Filled) >= MsgLen(Filled))
      BY <2>1 DEF FramedInBuffer
    <2>4. ~ CompleteMessageWaits'
      BY <2>1, <2>2, <2>3 DEF CompleteMessageWaits, HeaderLen
    <2> QED BY <1>1, <1>6, <2>4 DEF NoneWaits, ExtendPartial
  <1>7. ASSUME NEW accepts \in HandlerVerdicts, TakeWhole(accepts) PROVE NoneWaits'
    BY <1>1, <1>7, HandleAtOnce DEF TakeWhole
  <1>8. CASE StartPartial
    <2>1. Appended \in 0 .. length /\ buffer = <<>> /\ Len(buffer) = 0 /\ FramedInChunk = {}
      BY <1>1, <1>8, SearchedType, EmptySeq DEF IInv, StartPartial
    <2>2. buffer' = Data(Appended) /\ Data(Appended) \in Seq(Byte) /\ Len(Data(Appended)) = Appended
      BY <1>1, <1>8, <2>1, DataBytes DEF StartPartial
    <2>3. SUFFICES ASSUME Appended > HeaderLen, Appended >= MsgLen(Data(Appended)) PROVE FALSE
      BY <1>1, <1>8, <2>2 DEF NoneWaits, StartPartial, CompleteMessageWaits
    <2>4. HeaderLen \in 0 .. length /\ length > HeaderLen
      BY <1>1, <2>1, <2>3 DEF HeaderLen
    <2>5. \A k \in 0 .. length : buffer \o Data(k) = Data(k)
      BY <1>1, <2>1, DataBytes, ConcatEmptySeq
    <2>6. MsgLen(Data(Appended)) = MsgLen(Data(HeaderLen))
      <3>1. Len(buffer) + Appended >= HeaderLen /\ Len(buffer) + HeaderLen >= HeaderLen
        BY <2>1, <2>3 DEF HeaderLen
      <3>2. MsgLen(buffer \o Data(Appended)) = MsgLen(buffer \o Data(HeaderLen))
        BY <1>1, <2>1, <2>4, <3>1, LengthInBuffer
      <3> QED BY <2>1, <2>4, <2>5, <3>2
    <2>7. MsgLen(Data(HeaderLen)) \in Nat
      <3>1. Data(HeaderLen) \in Seq(Byte) /\ Len(Data(HeaderLen)) = HeaderLen
        BY <1>1, <2>4, DataBytes
      <3>2. HeaderLen >= HeaderLen
        BY DEF HeaderLen
      <3> QED BY <3>1, <3>2, HeaderBytes
    <2>8. length >= MsgLen(Data(HeaderLen))
      BY <1>1, <2>1, <2>3, <2>6, <2>7
    <2> QED BY <2>1, <2>4, <2>8 DEF FramedInChunk
  <1>9. CASE RecoverShort \/ RecoverNothing \/ RecoverFound
    <2>1. needRecovery /\ UNCHANGED <<corruptionReported, escaped>>
      BY <1>1, <1>9, Recovering DEF RecoverShort, RecoverNothing, RecoverFound
    <2> QED BY <1>1, <2>1 DEF NoneWaits
  <1> QED BY <1>3, <1>4, <1>5, <1>6, <1>7, <1>8, <1>9 DEF Next, Step

(* In a log without corruption the callback of a message comes in the call  *)
(* of readChunk that hands over its last byte: none waits for the next.     *)
THEOREM DeliversAtOnce == Spec => []DeliveredAtOnce
  <1>1. Init => AtOnceInv
    <2>1. Init => NoneWaits
      BY EmptySeq DEF Init, NoneWaits, CompleteMessageWaits, HeaderLen
    <2> QED BY <2>1, InitIInv DEF AtOnceInv
  <1>2. AtOnceInv /\ [Next]_vars => AtOnceInv'
    <2>1. AtOnceInv /\ [Next]_vars => IInv'
      BY NextIInv DEF AtOnceInv
    <2> QED BY <2>1, NextAtOnce DEF AtOnceInv
  <1>3. AtOnceInv => DeliveredAtOnce
    BY DEF AtOnceInv, NoneWaits, DeliveredAtOnce
  <1> QED BY <1>1, <1>2, <1>3, PTL DEF Spec

-----------------------------------------------------------------------------
(***************************************************************************)
(* Reader implements LogParser: seen without chunks, buffer and calls, the *)
(* reader moves over the log message by message, and where it is out of    *)
(* step with the log to the next bytes that could be a message header.     *)
(*                                                                         *)
(* LogParser has the definitions of ReaderDispatch and ULogMessages, which *)
(* are those of Reader: to a prover they are two sets of definitions.      *)
(***************************************************************************)
LEMMA SameLeading ==
    ASSUME NEW s, NEW C
    PROVE  Abstract!Leading(s, C) = Leading(s, C)
  BY DEF Abstract!Leading, Leading

LEMMA SamePositions ==
    ASSUME NEW s, NEW c
    PROVE  Abstract!Positions(s, c) = Positions(s, c)
  BY DEF Abstract!Positions, Positions

LEMMA SameFirst ==
    ASSUME NEW S
    PROVE  Abstract!First(S) = First(S) /\ Abstract!Final(S) = Final(S)
  BY DEF Abstract!First, First, Abstract!Final, Final

LEMMA SameChars ==
    /\ Abstract!Space = Space /\ Abstract!Minus = Minus
    /\ Abstract!Colon = Colon /\ Abstract!Semicolon = Semicolon
    /\ Abstract!OpenBracket = OpenBracket /\ Abstract!CloseBracket = CloseBracket
    /\ Abstract!Digit = Digit /\ Abstract!Blank = Blank
    /\ Abstract!Parsed = Parsed /\ Abstract!Rejected = Rejected /\ Abstract!Foreign = Foreign
  BY DEF Space, Minus, Colon, Semicolon, OpenBracket, CloseBracket, Digit, Blank,
         Parsed, Rejected, Foreign, Abstract!Parsed, Abstract!Rejected, Abstract!Foreign,
         Abstract!Space, Abstract!Minus, Abstract!Colon, Abstract!Semicolon,
         Abstract!OpenBracket, Abstract!CloseBracket, Abstract!Digit, Abstract!Blank

LEMMA SameStoi == ASSUME NEW s PROVE Abstract!StoiThrows(s) <=> StoiThrows(s)
  <1>1. Abstract!Number(s) = Number(s)
    BY SameLeading, SameChars DEF Abstract!Number, Number
  <1>2. \A d, max : Abstract!Exceeds(d, max) <=> Exceeds(d, max)
    BY DEF Abstract!Exceeds, Exceeds
  <1> QED BY <1>1, <1>2 DEF Abstract!StoiThrows, StoiThrows, Abstract!MaxInt, MaxInt

LEMMA SameSizes ==
    ASSUME NEW m
    PROVE  /\ Abstract!MsgSize(m) = MsgSize(m) /\ Abstract!MsgType(m) = MsgType(m)
           /\ Abstract!MsgLen(m) = MsgLen(m) /\ Abstract!HeaderLen = HeaderLen
           /\ \A i, n : Abstract!Payload(m, i, n) = Payload(m, i, n)
  BY DEF MsgSize, MsgType, MsgLen, HeaderLen, Payload, Abstract!MsgSize, Abstract!MsgType,
         Abstract!MsgLen, Abstract!HeaderLen, Abstract!Payload

LEMMA SameField == ASSUME NEW key PROVE Abstract!FieldOutcome(key) = FieldOutcome(key)
  <1> DEFINE spaces == Positions(key, Space)
             aspaces == Abstract!Positions(key, Abstract!Space)
             type == SubSeq(key, 1, First(spaces) - 1)
             atype == SubSeq(key, 1, Abstract!First(aspaces) - 1)
             br == Positions(type, OpenBracket)
             abr == Abstract!Positions(atype, Abstract!OpenBracket)
             throws == StoiThrows(SubSeq(type, First(br) + 1, Len(type)))
             athrows == Abstract!StoiThrows(SubSeq(atype, Abstract!First(abr) + 1, Len(atype)))
  <1>1. aspaces = spaces
    BY SamePositions, SameChars, Zenon
  <1>2. atype = type
    BY <1>1, SameFirst, Zenon
  <1>3. abr = br
    BY <1>2, SamePositions, SameChars, Zenon
  <1>4. athrows <=> throws
    BY <1>2, <1>3, SameFirst, SameStoi, Zenon
  <1>5. FieldOutcome(key) = CASE spaces = {} -> Rejected
          [] spaces # {} /\ br = {} -> Parsed
          [] OTHER -> IF type[Len(type)] # CloseBracket THEN Rejected ELSE IF throws THEN Foreign ELSE Parsed
    BY Zenon DEF FieldOutcome
  <1>6. Abstract!FieldOutcome(key) = CASE aspaces = {} -> Abstract!Rejected
          [] aspaces # {} /\ abr = {} -> Abstract!Parsed
          [] OTHER -> IF atype[Len(atype)] # Abstract!CloseBracket THEN Abstract!Rejected ELSE IF athrows THEN Abstract!Foreign ELSE Abstract!Parsed
    BY Zenon DEF Abstract!FieldOutcome
  <1> HIDE DEF spaces, aspaces, type, atype, br, abr, throws, athrows
  <1> QED BY <1>1, <1>2, <1>3, <1>4, <1>5, <1>6, SameChars

LEMMA SameFormat == ASSUME NEW m PROVE Abstract!FormatOutcome(m) = FormatOutcome(m)
  <1> DEFINE str      == Payload(m, 0, MsgSize(m))
             colons   == Positions(str, Colon)
             colon    == First(colons)
             ends     == {e \in Positions(str, Semicolon) : e > colon}
             begin(e) == Final({colon} \union {f \in ends : f < e}) + 1
             outcome(e) == FieldOutcome(SubSeq(str, begin(e), e - 1))
             bad        == {e \in ends : outcome(e) # Parsed}
             astr      == Abstract!Payload(m, 0, Abstract!MsgSize(m))
             acolons   == Abstract!Positions(astr, Abstract!Colon)
             acolon    == Abstract!First(acolons)
             aends     == {e \in Abstract!Positions(astr, Abstract!Semicolon) : e > acolon}
             abegin(e) == Abstract!Final({acolon} \union {f \in aends : f < e}) + 1
             aoutcome(e) == Abstract!FieldOutcome(SubSeq(astr, abegin(e), e - 1))
             abad        == {e \in aends : aoutcome(e) # Abstract!Parsed}
  <1>1. astr = str
    BY SameSizes, Zenon
  <1>2. acolons = colons
    BY <1>1, SamePositions, SameChars, Zenon
  <1>3. acolon = colon
    BY <1>2, SameFirst, Zenon
  <1>4. aends = ends
    BY <1>1, <1>3, SamePositions, SameChars, Zenon
  <1>5. \A e : abegin(e) = begin(e)
    BY <1>3, <1>4, SameFirst, Zenon
  <1>6. \A e : aoutcome(e) = outcome(e)
    BY <1>1, <1>5, SameField, Zenon
  <1>7. abad = bad
    <2>1. Abstract!Parsed = Parsed
      BY SameChars
    <2> HIDE DEF aoutcome, outcome, aends, ends
    <2> QED BY <1>4, <1>6, <2>1
  <1>8. FormatOutcome(m) =
            IF colons = {} THEN Rejected
            ELSE IF bad # {} THEN outcome(First(bad))
            ELSE IF Final({colon} \union ends) # Len(str) THEN Rejected
            ELSE Parsed
    BY Zenon DEF FormatOutcome
  <1>9. Abstract!FormatOutcome(m) =
            IF acolons = {} THEN Abstract!Rejected
            ELSE IF abad # {} THEN aoutcome(Abstract!First(abad))
            ELSE IF Abstract!Final({acolon} \union aends) # Len(astr) THEN Abstract!Rejected
            ELSE Abstract!Parsed
    BY Zenon DEF Abstract!FormatOutcome
  <1> HIDE DEF str, colons, colon, ends, begin, outcome, bad, astr, acolons, acolon, aends, abegin, aoutcome, abad
  <1> QED BY <1>1, <1>2, <1>3, <1>4, <1>6, <1>7, <1>8, <1>9, SameChars, SameFirst

LEMMA SameTypes ==
    /\ Abstract!FORMAT = FORMAT /\ Abstract!DATA = DATA /\ Abstract!INFO = INFO
    /\ Abstract!INFO_MULTIPLE = INFO_MULTIPLE /\ Abstract!PARAMETER = PARAMETER
    /\ Abstract!PARAMETER_DEFAULT = PARAMETER_DEFAULT /\ Abstract!ADD_LOGGED_MSG = ADD_LOGGED_MSG
    /\ Abstract!REMOVE_LOGGED_MSG = REMOVE_LOGGED_MSG /\ Abstract!SYNC = SYNC
    /\ Abstract!DROPOUT = DROPOUT /\ Abstract!LOGGING = LOGGING
    /\ Abstract!LOGGING_TAGGED = LOGGING_TAGGED /\ Abstract!FLAG_BITS = FLAG_BITS
  BY DEF FORMAT, DATA, INFO, INFO_MULTIPLE, PARAMETER, PARAMETER_DEFAULT, ADD_LOGGED_MSG, REMOVE_LOGGED_MSG,
         SYNC, DROPOUT, LOGGING, LOGGING_TAGGED, FLAG_BITS, Abstract!FORMAT, Abstract!DATA, Abstract!INFO,
         Abstract!INFO_MULTIPLE, Abstract!PARAMETER, Abstract!PARAMETER_DEFAULT, Abstract!ADD_LOGGED_MSG,
         Abstract!REMOVE_LOGGED_MSG, Abstract!SYNC, Abstract!DROPOUT, Abstract!LOGGING,
         Abstract!LOGGING_TAGGED, Abstract!FLAG_BITS

LEMMA SameMinSize == Abstract!MinSize = MinSize /\ Abstract!SyncMagicBytes = SyncMagicBytes
  BY SameTypes DEF MinSize, Abstract!MinSize, SyncMagicBytes, Abstract!SyncMagicBytes

LEMMA SameKeyed ==
    ASSUME NEW m, NEW minSize, NEW prefix, NEW keyLen
    PROVE  Abstract!KeyedOutcome(m, minSize, prefix, keyLen) = KeyedOutcome(m, minSize, prefix, keyLen)
  BY SameField, SameSizes, SameChars DEF KeyedOutcome, Abstract!KeyedOutcome

LEMMA SameParse == ASSUME NEW m PROVE Abstract!ParseOutcome(m) = ParseOutcome(m)
  <1> DEFINE type == MsgType(m)
  <1>1. Abstract!MsgType(m) = type /\ Abstract!MsgSize(m) = MsgSize(m) /\ Abstract!Payload(m, 0, 8) = Payload(m, 0, 8)
    BY SameSizes
  <1>2. Abstract!FormatOutcome(m) = FormatOutcome(m)
    BY SameFormat
  <1>3. Abstract!KeyedOutcome(m, 2, 1, m[4]) = KeyedOutcome(m, 2, 1, m[4])
        /\ Abstract!KeyedOutcome(m, 3, 2, m[5]) = KeyedOutcome(m, 3, 2, m[5])
    BY SameKeyed
  <1>4. ParseOutcome(m) =
          CASE type \in {INFO, PARAMETER} -> KeyedOutcome(m, 2, 1, m[4])
            [] type \in {INFO_MULTIPLE, PARAMETER_DEFAULT} ->
                 IF MsgSize(m) < 3 THEN Rejected ELSE KeyedOutcome(m, 3, 2, m[5])
            [] type = FORMAT -> FormatOutcome(m)
            [] type \in DOMAIN MinSize ->
                 IF \/ MsgSize(m) < MinSize[type]
                    \/ type = SYNC /\ Payload(m, 0, 8) # SyncMagicBytes
                 THEN Rejected ELSE Parsed
            [] OTHER -> Parsed
    BY Zenon DEF ParseOutcome
  <1> DEFINE atype == Abstract!MsgType(m)
  <1>5. Abstract!ParseOutcome(m) =
          CASE atype \in {Abstract!INFO, Abstract!PARAMETER} -> Abstract!KeyedOutcome(m, 2, 1, m[4])
            [] atype \in {Abstract!INFO_MULTIPLE, Abstract!PARAMETER_DEFAULT} ->
                 IF Abstract!MsgSize(m) < 3 THEN Abstract!Rejected ELSE Abstract!KeyedOutcome(m, 3, 2, m[5])
            [] atype = Abstract!FORMAT -> Abstract!FormatOutcome(m)
            [] atype \in DOMAIN Abstract!MinSize ->
                 IF \/ Abstract!MsgSize(m) < Abstract!MinSize[atype]
                    \/ atype = Abstract!SYNC /\ Abstract!Payload(m, 0, 8) # Abstract!SyncMagicBytes
                 THEN Abstract!Rejected ELSE Abstract!Parsed
            [] OTHER -> Abstract!Parsed
    BY Zenon DEF Abstract!ParseOutcome
  <1>6. atype = type
    BY <1>1
  <1> HIDE DEF type, atype
  <1> QED BY <1>1, <1>2, <1>3, <1>4, <1>5, <1>6, SameChars, SameTypes, SameMinSize

LEMMA SameStates ==
    /\ Abstract!ReadingMagic = ReadingMagic /\ Abstract!ReadingFlagBits = ReadingFlagBits
    /\ Abstract!ReadingHeader = ReadingHeader /\ Abstract!ReadingData = ReadingData
    /\ Abstract!InvalidData = InvalidData
  BY DEF ReadingMagic, ReadingFlagBits, ReadingHeader, ReadingData, InvalidData, Abstract!ReadingMagic,
         Abstract!ReadingFlagBits, Abstract!ReadingHeader, Abstract!ReadingData, Abstract!InvalidData

LEMMA SameSections ==
    /\ Abstract!HeaderTypes = HeaderTypes
    /\ Abstract!DataTypes = DataTypes
    /\ Abstract!EndsHeader = EndsHeader
  BY SameTypes DEF HeaderTypes, DataTypes, EndsHeader, InBothSections, Abstract!HeaderTypes, Abstract!DataTypes,
         Abstract!EndsHeader, Abstract!InBothSections

LEMMA SameCallback == ASSUME NEW t PROVE Abstract!CallbackOf(t) = CallbackOf(t)
  BY SameTypes, Zenon DEF CallbackOf, Abstract!CallbackOf

LEMMA SameHandling ==
    ASSUME NEW st, NEW m, NEW accepts
    PROVE  Abstract!Handling(st, m, accepts) = Handling(st, m, accepts)
  <1>1. \A t : Abstract!StateFor(st, t) = StateFor(st, t)
    BY SameStates, SameSections DEF StateFor, Abstract!StateFor
  <1>2. \A s, t : Abstract!Handled(s, t) <=> Handled(s, t)
    BY SameStates, SameSections DEF Handled, Abstract!Handled
  <1>3. Abstract!Empty(m) <=> Empty(m)
    BY SameSizes DEF Empty, Abstract!Empty
  <1>4. Abstract!ParseOutcome(m) = ParseOutcome(m) /\ Abstract!MsgType(m) = MsgType(m)
    BY SameParse, SameSizes
  <1>5. \A t : Abstract!CallbackOf(t) = CallbackOf(t)
    BY SameCallback
  <1>6. Abstract!Dispatch(st, m, accepts) = Dispatch(st, m, accepts)
    BY <1>1, <1>2, <1>4, <1>5, SameChars DEF Dispatch, Abstract!Dispatch
  <1> QED BY <1>3, <1>6, SameChars DEF Handling, Abstract!Handling

LEMMA SamePrologue ==
    /\ Abstract!FileHeaderLen = FileHeaderLen /\ Abstract!FlagBitsLen = FlagBitsLen
    /\ \A b : Abstract!HasMagic(b) <=> HasMagic(b)
    /\ \A b : Abstract!FlagBitsRefused(b) <=> FlagBitsRefused(b)
    /\ \A b : Abstract!FlagBitsCalls(b) = FlagBitsCalls(b)
    /\ \A b : Abstract!FlagBitsSkip(b) = FlagBitsSkip(b)
  <1>1. Abstract!FileHeaderLen = FileHeaderLen /\ Abstract!FlagBitsLen = FlagBitsLen /\ Abstract!Magic = Magic
    BY DEF FileHeaderLen, FlagBitsLen, Abstract!FileHeaderLen, Abstract!FlagBitsLen, Magic, Abstract!Magic
  <1>2. \A b : Abstract!HasMagic(b) <=> HasMagic(b)
    BY <1>1, Zenon DEF HasMagic, Abstract!HasMagic
  <1>3. \A b : Abstract!IsFlagBits(b) <=> IsFlagBits(b)
    BY SameSizes, SameTypes DEF IsFlagBits, Abstract!IsFlagBits
  <1>4. \A b : /\ Abstract!HasAppendedData(b) <=> HasAppendedData(b)
               /\ Abstract!IsIncompatible(b) <=> IsIncompatible(b)
    BY DEF HasAppendedData, Abstract!HasAppendedData, IsIncompatible, Abstract!IsIncompatible
  <1>5. \A b : Abstract!FlagBitsRefused(b) <=> FlagBitsRefused(b)
    BY <1>3, <1>4 DEF FlagBitsRefused, Abstract!FlagBitsRefused
  <1>6. \A b : Abstract!FlagBitsCalls(b) = FlagBitsCalls(b)
    BY <1>3, <1>4, Zenon DEF FlagBitsCalls, Abstract!FlagBitsCalls
  <1>7. \A b : Abstract!FlagBitsSkip(b) = FlagBitsSkip(b)
    BY <1>3, <1>4, SameSizes DEF FlagBitsSkip, Abstract!FlagBitsSkip
  <1> QED BY <1>1, <1>2, <1>5, <1>6, <1>7

LEMMA SameSane == ASSUME NEW b, NEW i PROVE Abstract!SaneHeader(b, i) <=> SaneHeader(b, i)
  <1>1. Abstract!KnownMessageTypes = KnownMessageTypes /\ Abstract!RecoverableSize = RecoverableSize
    BY SameTypes DEF KnownMessageTypes, Abstract!KnownMessageTypes, RecoverableSize, Abstract!RecoverableSize
  <1> QED BY <1>1, SameSizes DEF SaneHeader, Abstract!SaneHeader

LEMMA SameCursor ==
    /\ \A cbs : Abstract!Calling(cbs) = Calling(cbs)
    /\ \A n : Abstract!Ahead(n) = SubSeq(stream, At + 1, At + n)
    /\ Abstract!Left = Len(stream) - At
  BY DEF Calling, Abstract!Calling, Abstract!Ahead, Abstract!Left

-----------------------------------------------------------------------------
(* What a step has to be for each of the actions of LogParser. *)
SameView == UNCHANGED <<stream, At, state, needRecovery, corruptionReported, calls, escaped>>

LEMMA ToStutter == ASSUME SameView PROVE [Abstract!Next]_(Abstract!vars)
  BY DEF SameView, Abstract!vars

LEMMA ToOpen ==
    ASSUME state = ReadingMagic, Len(stream) - At >= FileHeaderLen,
           HasMagic(SubSeq(stream, At + 1, At + FileHeaderLen)),
           At' = At + FileHeaderLen, state' = ReadingFlagBits,
           UNCHANGED <<stream, needRecovery, corruptionReported, calls, escaped>>
    PROVE  Abstract!Next
  <1>1. Abstract!Open
    BY SameStates, SamePrologue, SameCursor, Zenon DEF Abstract!Open
  <1> QED BY <1>1 DEF Abstract!Next

LEMMA ToRefuse ==
    ASSUME state \in Prologue, state' = InvalidData, calls' = Calling(<<"fatal">>), At' = At,
           UNCHANGED <<stream, needRecovery, corruptionReported, escaped>>
    PROVE  Abstract!Next
  <1>1. Abstract!Refuse
    BY SameStates, SameCursor DEF Abstract!Refuse, Abstract!InSections, Prologue
  <1> QED BY <1>1 DEF Abstract!Next

LEMMA ToReadFlags ==
    ASSUME state = ReadingFlagBits, Len(stream) - At >= FlagBitsLen,
           NEW b, b = SubSeq(stream, At + 1, At + FlagBitsLen),
           state' = IF FlagBitsRefused(b) THEN InvalidData ELSE ReadingHeader,
           calls' = Calling(FlagBitsCalls(b)),
           At' \in At .. At + FlagBitsSkip(b),
           FlagBitsSkip(b) = FlagBitsLen => At' = At + FlagBitsLen,
           UNCHANGED <<stream, needRecovery, corruptionReported, escaped>>
    PROVE  Abstract!Next
  <1>1. Abstract!ReadFlags
    BY SameStates, SamePrologue, SameCursor DEF Abstract!ReadFlags
  <1> QED BY <1>1 DEF Abstract!Next

(* m is the message at the cursor, complete in the log. *)
AtCursor(m) ==
    /\ state \notin Prologue /\ ~ needRecovery
    /\ Len(stream) - At >= HeaderLen
    /\ Len(stream) - At >= MsgLen(SubSeq(stream, At + 1, At + HeaderLen))
    /\ m = SubSeq(stream, At + 1, At + MsgLen(SubSeq(stream, At + 1, At + HeaderLen)))

LEMMA MessageAtCursor ==
    ASSUME NEW m, AtCursor(m)
    PROVE  Abstract!AtMessage /\ Abstract!Message = m
  BY SameStates, SameSizes, SameCursor
     DEF AtCursor, Abstract!AtMessage, Abstract!Message, Abstract!InSections, Prologue

LEMMA ToTake ==
    ASSUME NEW m, AtCursor(m), NEW accepts \in HandlerVerdicts, NEW h, h = Handling(state, m, accepts),
           state' = h.state, At' = At + Len(m), h.outcome # Foreign,
           needRecovery' = (h.outcome # Parsed),
           corruptionReported' = (corruptionReported \/ h.outcome = Rejected),
           calls' = Calling(h.calls \o IF corruptionReported' = corruptionReported THEN <<>> ELSE <<"error">>),
           UNCHANGED <<stream, escaped>>
    PROVE  Abstract!Next
  <1>1. Abstract!Handling(state, Abstract!Message, accepts) = h
    BY MessageAtCursor, SameHandling
  <1>2. Abstract!AtMessage /\ Abstract!Message = m
    BY MessageAtCursor
  <1>3. Abstract!Take(accepts)
    BY <1>1, <1>2, SameChars, SameCursor DEF Abstract!Take
  <1> QED BY <1>3 DEF Abstract!Next

LEMMA ToResync ==
    ASSUME needRecovery, At' \in At .. Len(stream) - HeaderLen,
           \A q \in At .. At' - 1 : ~ SaneHeader(stream, q),
           ~ needRecovery' => At' + HeaderLen < Len(stream) /\ SaneHeader(stream, At'),
           UNCHANGED <<stream, state, corruptionReported, calls, escaped>>
    PROVE  Abstract!Next
  <1>1. Abstract!Resync
    BY SameSizes, SameSane DEF Abstract!Resync
  <1> QED BY <1>1 DEF Abstract!Next

LEMMA ToIgnore ==
    ASSUME state = InvalidData, At' \in At .. Len(stream),
           UNCHANGED <<stream, state, corruptionReported, calls, escaped>>
    PROVE  Abstract!Next
  <1>1. Abstract!Ignore
    BY SameStates DEF Abstract!Ignore
  <1> QED BY <1>1 DEF Abstract!Next

LEMMA ToBreak ==
    ASSUME escaped' = TRUE,
           escaped \/ \E m : AtCursor(m) /\ Handling(state, m, TRUE).outcome = Foreign,
           stream' = stream, At' \in 0 .. Len(stream),
           \E n \in 0 .. Len(calls') : calls = SubSeq(calls', 1, n)
    PROVE  Abstract!Next
  <1>1. escaped \/ (Abstract!AtMessage
                    /\ Abstract!Handling(state, Abstract!Message, TRUE).outcome = Abstract!Foreign)
    <2>1. ASSUME NEW m, AtCursor(m), Handling(state, m, TRUE).outcome = Foreign
          PROVE  Abstract!AtMessage
                 /\ Abstract!Handling(state, Abstract!Message, TRUE).outcome = Abstract!Foreign
      BY <2>1, MessageAtCursor, SameHandling, SameChars
    <2> QED BY <2>1
  <1>2. Abstract!Break
    BY <1>1 DEF Abstract!Break
  <1> QED BY <1>2 DEF Abstract!Next

-----------------------------------------------------------------------------
(* The callbacks made stay made. *)
LEMMA CallsGrow ==
    ASSUME TypeOK, calls' = calls \/ \E cbs \in Seq(Callbacks) : calls' = Calling(cbs)
    PROVE  \E n \in 0 .. Len(calls') : calls = SubSeq(calls', 1, n)
  <1>1. calls \in Seq([cb : Callbacks, at : Nat]) /\ Len(calls) \in Nat
    BY LenProperties DEF TypeOK
  <1>2. CASE calls' = calls
    <2>1. calls = SubSeq(calls, 1, Len(calls)) /\ Len(calls) \in 0 .. Len(calls)
      BY <1>1, SubSeqFull
    <2> QED BY <1>2, <2>1
  <1>3. ASSUME NEW cbs \in Seq(Callbacks), calls' = Calling(cbs)
        PROVE  calls = SubSeq(calls', 1, Len(calls)) /\ Len(calls) \in 0 .. Len(calls')
    <2>1. /\ Len(cbs) \in Nat /\ Len(calls') = Len(calls) + Len(cbs)
          /\ \A i \in 1 .. Len(calls) : calls'[i] = calls[i]
      BY <1>3, Recorded
    <2>2. Len(calls) \in 0 .. Len(calls')
      BY <1>1, <2>1
    <2>3. \A i \in 1 .. Len(calls) : calls'[i] \in [cb : Callbacks, at : Nat]
      BY <1>1, <2>1, ElementOfSeq
    <2>4. /\ SubSeq(calls', 1, Len(calls)) \in Seq([cb : Callbacks, at : Nat])
          /\ Len(SubSeq(calls', 1, Len(calls)))
               = IF 1 <= Len(calls) THEN Len(calls) - 1 + 1 ELSE 0
          /\ \A i \in 1 .. Len(calls) - 1 + 1 : SubSeq(calls', 1, Len(calls))[i] = calls'[1 + i - 1]
      BY <1>1, <2>3, SubSeqProperties
    <2>5. (IF 1 <= Len(calls) THEN Len(calls) - 1 + 1 ELSE 0) = Len(calls) /\ Len(calls) - 1 + 1 = Len(calls)
      BY <1>1
    <2> DEFINE front == SubSeq(calls', 1, Len(calls))
    <2> HIDE DEF front
    <2>6. front \in Seq([cb : Callbacks, at : Nat]) /\ Len(front) = Len(calls)
      BY <2>4, <2>5 DEF front
    <2>7. ASSUME NEW i \in 1 .. Len(calls) PROVE front[i] = calls[i]
      <3>1. 1 + i - 1 = i
        OBVIOUS
      <3> QED BY <2>1, <2>4, <2>5, <3>1 DEF front
    <2>8. calls = front
      BY <1>1, <2>6, <2>7, SeqEqual
    <2> QED BY <2>2, <2>8 DEF front
  <1> QED BY <1>2, <1>3

LEMMA StepCalls ==
    ASSUME TypeOK, [Next]_vars
    PROVE  calls' = calls \/ \E cbs \in Seq(Callbacks) : calls' = Calling(cbs)
  <1>1. \A c \in Callbacks : <<c>> \in Seq(Callbacks)
    OBVIOUS
  <1>2. "fatal" \in Callbacks
    BY DEF Callbacks
  <1>3. CASE ReadMagic
    BY <1>1, <1>2, <1>3 DEF ReadMagic
  <1>4. CASE ReadFlagBits
    <2>1. CASE length < FlagBitsLen
      BY <1>1, <1>2, <1>4, <2>1 DEF ReadFlagBits
    <2>2. CASE ~ (length < FlagBitsLen)
      <3>1. length >= FlagBitsLen
        BY <2>2 DEF TypeOK, FlagBitsLen
      <3>2. FlagBitsCalls(Data(FlagBitsLen)) \in Seq(Callbacks)
        BY <3>1, FlagBitsType
      <3>3. calls' = Calling(FlagBitsCalls(Data(FlagBitsLen)))
        BY <1>4, <2>2 DEF ReadFlagBits
      <3> QED BY <3>2, <3>3
    <2> QED BY <2>1, <2>2
  <1>5. ASSUME NEW m, NEW accepts, NEW held, NEW rest, NEW unread, Handle(m, accepts, held, rest, unread)
        PROVE  \E cbs \in Seq(Callbacks) : calls' = Calling(cbs)
    <2> DEFINE made == Handling(state, m, accepts).calls
    <2>1. made \in Seq(Callbacks)
      BY HandlingType DEF TypeOK
    <2>2. calls' = Calling(made) \/ calls' = Calling(made \o CorruptionCalls)
      BY <1>5 DEF Handle
    <2> HIDE DEF made
    <2>3. made \o CorruptionCalls \in Seq(Callbacks)
      BY <2>1, CorruptionCallsType
    <2> QED BY <2>1, <2>2, <2>3
  <1>6. ASSUME NEW accepts, CompletePartial(accepts) \/ TakeWhole(accepts)
        PROVE  \E cbs \in Seq(Callbacks) : calls' = Calling(cbs)
    BY <1>5, <1>6 DEF CompletePartial, TakeWhole
  <1>7. ASSUME \/ ExtendPartial \/ StartPartial \/ LeaveLoop \/ RecoverShort \/ RecoverNothing
               \/ RecoverFound \/ LeaveRecovery \/ UNCHANGED vars
               \/ \E n \in ChunkSizes : ReadChunk(n)
        PROVE  calls' = calls
    BY <1>7 DEF ExtendPartial, StartPartial, LeaveLoop, RecoverShort, RecoverNothing, RecoverFound,
            LeaveRecovery, ReadChunk, vars
  <1> QED BY <1>3, <1>4, <1>6, <1>7 DEF Next, Step

(* The cursor is in the log. *)
LEMMA CursorInLog ==
    ASSUME TypeOK
    PROVE  /\ At \in 0 .. Len(stream) /\ fed - length \in At .. Len(stream)
           /\ Len(stream) \in Nat /\ Len(buffer) \in Nat /\ fed \in Nat /\ length \in Nat
           /\ stream \in Seq(Byte)
  <1>1. Len(stream) \in Nat /\ Len(buffer) \in Nat /\ stream \in Seq(Byte)
    BY StreamsAssumption, LenProperties DEF TypeOK
  <1> QED BY <1>1 DEF At, TypeOK

LEMMA NextCursor == ASSUME TypeOK', stream' = stream PROVE At' \in 0 .. Len(stream)
  <1>1. Len(stream) \in Nat /\ Len(buffer') \in Nat
    BY StreamsAssumption, LenProperties DEF TypeOK
  <1> QED BY <1>1 DEF At, TypeOK

LEMMA ToBroken ==
    ASSUME TypeOK, TypeOK', [Next]_vars, escaped' = TRUE,
           escaped \/ \E m : AtCursor(m) /\ Handling(state, m, TRUE).outcome = Foreign
    PROVE  Abstract!Next
  <1>1. stream' = stream
    BY DEF Next, Step, ReadChunk, ReadMagic, ReadFlagBits, CompletePartial, ExtendPartial, TakeWhole,
           StartPartial, LeaveLoop, RecoverShort, RecoverNothing, RecoverFound, LeaveRecovery, vars
  <1>2. At' \in 0 .. Len(stream)
    BY <1>1, NextCursor
  <1>3. \E n \in 0 .. Len(calls') : calls = SubSeq(calls', 1, n)
    BY StepCalls, CallsGrow
  <1> QED BY <1>1, <1>2, <1>3, ToBreak

-----------------------------------------------------------------------------
(* The first bytes of a piece. *)
LEMMA FrontOf ==
    ASSUME NEW s \in Seq(Byte), Len(s) >= HeaderLen, NEW f, f = SubSeq(s, 1, HeaderLen)
    PROVE  f[1] = s[1] /\ f[2] = s[2]
  <1>1. \A i \in 1 .. HeaderLen : s[i] \in Byte
    <2>1. \A i \in 1 .. HeaderLen : i \in 1 .. Len(s)
      BY LenProperties DEF HeaderLen
    <2> QED BY <2>1, ElementOfSeq
  <1>2. HeaderLen \in Int /\ 1 \in Int /\ 1 \in 1 .. HeaderLen - 1 + 1 /\ 2 \in 1 .. HeaderLen - 1 + 1
    BY DEF HeaderLen
  <1>3. \A i \in 1 .. HeaderLen - 1 + 1 : SubSeq(s, 1, HeaderLen)[i] = s[1 + i - 1]
    BY <1>1, <1>2, SubSeqProperties
  <1>4. SubSeq(s, 1, HeaderLen)[1] = s[1 + 1 - 1] /\ SubSeq(s, 1, HeaderLen)[2] = s[1 + 2 - 1]
    BY <1>2, <1>3
  <1>5. 1 + 1 - 1 = 1 /\ 1 + 2 - 1 = 2
    OBVIOUS
  <1> QED BY <1>4, <1>5

(* A piece of the log that begins at the cursor and holds a message. *)
LEMMA PieceHoldsMessage ==
    ASSUME TypeOK, state \notin Prologue, ~ needRecovery, NEW e \in At .. Len(stream),
           NEW piece, piece = SubSeq(stream, At + 1, e), e - At >= HeaderLen, e - At >= MsgLen(piece)
    PROVE  AtCursor(SubSeq(piece, 1, MsgLen(piece)))
  <1>1. /\ At \in Nat /\ At \in 0 .. Len(stream) /\ Len(stream) \in Nat /\ stream \in Seq(Byte)
        /\ e \in Nat /\ e <= Len(stream)
    BY CursorInLog
  <1>2. \A n \in 1 .. e - At : SubSeq(piece, 1, n) = SubSeq(stream, At + 1, At + n)
    <2>1. ASSUME NEW n \in 1 .. e - At PROVE SubSeq(piece, 1, n) = SubSeq(stream, At + 1, At + n)
      <3>1. /\ At + 1 \in 1 .. Len(stream) /\ e \in 1 .. Len(stream)
            /\ 1 \in 1 .. e - (At + 1) + 1 /\ n \in 1 .. e - (At + 1) + 1
        BY <1>1
      <3>2. SubSeq(SubSeq(stream, At + 1, e), 1, n)
              = SubSeq(stream, (At + 1) + 1 - 1, (At + 1) + n - 1)
        BY <1>1, <3>1, SubSeqOfSubSeq
      <3>3. (At + 1) + 1 - 1 = At + 1 /\ (At + 1) + n - 1 = At + n
        BY <1>1
      <3> QED BY <3>2, <3>3
    <2> QED BY <2>1
  <1>3. piece \in Seq(Byte) /\ Len(piece) = e - At
    <2>1. \A i \in At + 1 .. e : stream[i] \in Byte
      BY <1>1, ElementOfSeq
    <2>2. /\ SubSeq(stream, At + 1, e) \in Seq(Byte)
          /\ Len(SubSeq(stream, At + 1, e)) = IF At + 1 <= e THEN e - (At + 1) + 1 ELSE 0
      BY <1>1, <2>1, SubSeqProperties
    <2>3. (IF At + 1 <= e THEN e - (At + 1) + 1 ELSE 0) = e - At
      BY <1>1 DEF HeaderLen
    <2> QED BY <2>2, <2>3
  <1> DEFINE front == SubSeq(stream, At + 1, At + HeaderLen)
  <1>4. front = SubSeq(piece, 1, HeaderLen)
    <2>1. HeaderLen \in 1 .. e - At
      BY <1>1 DEF HeaderLen
    <2> QED BY <1>2, <2>1
  <1>5. front[1] = piece[1] /\ front[2] = piece[2]
    <2>1. Len(piece) >= HeaderLen
      BY <1>1, <1>3 DEF HeaderLen
    <2> QED BY <1>3, <1>4, <2>1, FrontOf
  <1>6. MsgLen(front) = MsgLen(piece)
    BY <1>5 DEF MsgLen, MsgSize
  <1>7. MsgLen(piece) \in Nat /\ MsgLen(piece) >= HeaderLen
    BY <1>3, HeaderBytes
  <1>8. MsgLen(piece) \in 1 .. e - At
    BY <1>1, <1>7 DEF HeaderLen
  <1> HIDE DEF front
  <1>9. SubSeq(piece, 1, MsgLen(piece)) = SubSeq(stream, At + 1, At + MsgLen(front))
    BY <1>2, <1>6, <1>8
  <1>10. Len(stream) - At >= HeaderLen /\ Len(stream) - At >= MsgLen(front)
    BY <1>1, <1>6, <1>8 DEF HeaderLen
  <1> QED BY <1>9, <1>10 DEF AtCursor, front

(* A handled message is one step of the parser, or breaks it. *)
LEMMA HandleImplements ==
    ASSUME IInv, IInv', Next, InLoop, ~ escaped,
           NEW m, AtCursor(m), NEW accepts \in HandlerVerdicts, NEW held, NEW rest, NEW unread,
           Handle(m, accepts, held, rest, unread), stream' = stream, fed' = fed,
           fed - unread - Len(rest) = At + Len(m)
    PROVE  Abstract!Next
  <1> DEFINE h == Handling(state, m, accepts)
  <1>1. TypeOK /\ TypeOK' /\ needRecovery = FALSE
    BY DEF IInv, InLoop, TypeOK
  <1>2. h.calls \in Seq(Callbacks)
    BY <1>1, HandlingType DEF TypeOK
  <1>3. state' = h.state
    BY DEF Handle
  <1>4. Parsed # Foreign /\ Rejected # Foreign /\ Parsed # Rejected
    BY DEF Parsed, Rejected, Foreign
  <1>5. CASE h.outcome = Foreign
    <2>1. escaped' = TRUE
      BY <1>4, <1>5 DEF Handle
    <2>2. Handling(state, m, TRUE).outcome = Foreign
      BY <1>4, <1>5 DEF Handling, Dispatch
    <2> QED BY <1>1, <2>1, <2>2, ToBroken
  <1> HIDE DEF h
  <1>6. CASE h.outcome = Parsed
    <2>1. /\ calls' = Calling(h.calls) /\ buffer' = rest /\ length' = unread
          /\ UNCHANGED <<needRecovery, corruptionReported, escaped>>
      BY <1>4, <1>6 DEF Handle, h
    <2>2. At' = At + Len(m)
      BY <2>1 DEF At
    <2>3. h.calls \o <<>> = h.calls
      BY <1>2, ConcatEmptySeq
    <2>4. corruptionReported \in BOOLEAN
      BY <1>1 DEF TypeOK
    <2>5. /\ needRecovery' = (h.outcome # Parsed)
          /\ corruptionReported' = (corruptionReported \/ h.outcome = Rejected)
          /\ calls' = Calling(h.calls \o IF corruptionReported' = corruptionReported THEN <<>> ELSE <<"error">>)
      BY <1>1, <1>4, <1>6, <2>1, <2>3, <2>4
    <2> QED BY <1>3, <1>4, <1>6, <2>1, <2>2, <2>5, ToTake DEF h
  <1>7. CASE h.outcome = Rejected
    <2>1. /\ calls' = Calling(h.calls \o CorruptionCalls) /\ buffer' = rest /\ length' = unread
          /\ needRecovery' = TRUE /\ corruptionReported' = TRUE /\ escaped' = escaped
      BY <1>4, <1>7 DEF Handle, h
    <2>2. At' = At + Len(m)
      BY <2>1 DEF At
    <2>3. corruptionReported \in BOOLEAN
      BY <1>1 DEF TypeOK
    <2>4. CorruptionCalls = IF corruptionReported' = corruptionReported THEN <<>> ELSE <<"error">>
      BY <2>1, <2>3 DEF CorruptionCalls
    <2>5. /\ needRecovery' = (h.outcome # Parsed)
          /\ corruptionReported' = (corruptionReported \/ h.outcome = Rejected)
          /\ calls' = Calling(h.calls \o IF corruptionReported' = corruptionReported THEN <<>> ELSE <<"error">>)
      BY <1>4, <1>7, <2>1, <2>3, <2>4
    <2> QED BY <1>3, <1>4, <1>7, <2>1, <2>2, <2>5, ToTake DEF h
  <1>8. h.outcome \in {Parsed, Rejected, Foreign}
    BY DEF Handle, h
  <1> QED BY <1>5, <1>6, <1>7, <1>8 DEF h

(* A step that handles a message handles the one at the cursor, and takes   *)
(* the cursor to its end.                                                   *)
Frames(framed, accepts) ==
    \E m, held, rest, unread :
      /\ framed = {m} /\ AtCursor(m)
      /\ Handle(m, accepts, held, rest, unread)
      /\ fed - unread - Len(rest) = At + Len(m)

LEMMA CompletePartialFrames ==
    ASSUME IInv, ~ escaped, NEW accepts, CompletePartial(accepts)
    PROVE  Frames(FramedInBuffer, accepts)
  <1>1. TypeOK /\ InLoop /\ stream' = stream /\ fed' = fed /\ state \notin Prologue /\ ~ needRecovery
    BY PrologueOver DEF IInv, CompletePartial, InLoop
  <1>2. PICK m \in FramedInBuffer :
          Handle(m, accepts, Filled, SubSeq(Filled, Len(m) + 1, Len(Filled)), length - Added)
    BY DEF CompletePartial
  <1> DEFINE rest == SubSeq(Filled, Len(m) + 1, Len(Filled))
             e    == fed - length + Added
  <1>3. /\ Added \in 0 .. length /\ Len(Filled) = Len(buffer) + Added
        /\ Len(m) \in HeaderLen .. Len(Filled)
    BY <1>1, FilledType, FramedInBufferType
  <1>4. /\ At \in Nat /\ Len(buffer) \in Nat /\ fed \in 0 .. Len(stream) /\ length \in 0 .. fed
        /\ Len(stream) \in Nat
    BY <1>1, CursorInLog DEF TypeOK
  <1>5. /\ Len(m) \in 0 .. Len(buffer) + Added
        /\ rest = SubSeq(buffer \o Data(Added), Len(m) + 1, Len(buffer \o Data(Added)))
    BY <1>3, <1>4 DEF Filled, HeaderLen
  <1>6. Len(rest) = Len(buffer) + Added - Len(m)
    BY <1>1, <1>3, <1>5, Dropping
  <1>7. Filled = SubSeq(stream, At + 1, e)
    <2>1. EndsAt(buffer, fed - length)
      BY <1>1, Located DEF IInv, Framing, InLoop
    <2>2. EndsAt(Filled, e)
      BY <1>1, <1>3, <2>1, Appending DEF Filled
    <2>3. \A f : f = Len(buffer) + Added => e - f = At
      BY <1>3, <1>4 DEF At
    <2> QED BY <1>3, <2>2, <2>3 DEF EndsAt
  <1>8. e \in At .. Len(stream) /\ e - At = Len(Filled)
    BY <1>3, <1>4 DEF At
  <1>9. Len(Filled) >= HeaderLen /\ Len(Filled) >= MsgLen(Filled) /\ m = SubSeq(Filled, 1, MsgLen(Filled))
    BY DEF FramedInBuffer
  <1> HIDE DEF rest, e, InLoop
  <1>10. AtCursor(m)
    BY <1>1, <1>7, <1>8, <1>9, PieceHoldsMessage
  <1>11. fed - (length - Added) - Len(rest) = At + Len(m)
    <2>1. \A l : l = Len(buffer) + Added - Len(m) => fed - (length - Added) - l = At + Len(m)
      BY <1>3, <1>4, <1>5 DEF At
    <2> QED BY <1>6, <2>1
  <1>12. FramedInBuffer = {m}
    BY DEF FramedInBuffer
  <1> QED BY <1>2, <1>10, <1>11, <1>12 DEF rest, Frames

LEMMA TakeWholeFrames ==
    ASSUME IInv, ~ escaped, NEW accepts, TakeWhole(accepts)
    PROVE  Frames(FramedInChunk, accepts)
  <1>1. TypeOK /\ InLoop /\ stream' = stream /\ fed' = fed /\ state \notin Prologue /\ ~ needRecovery
    BY PrologueOver DEF IInv, TakeWhole, InLoop
  <1>2. PICK m \in FramedInChunk : Handle(m, accepts, <<>>, <<>>, length - Len(m))
    BY DEF TakeWhole
  <1>3. /\ At = fed - length /\ At \in Nat /\ fed \in 0 .. Len(stream) /\ length \in 0 .. fed
        /\ Len(stream) \in Nat
    BY <1>1, CursorInLog, EmptySeq DEF TypeOK, TakeWhole, At
  <1>4. Len(m) \in 1 .. length
    BY <1>1, ChunkMessage
  <1>5. /\ m = Data(MsgLen(Data(HeaderLen)))
        /\ length > HeaderLen /\ length >= MsgLen(Data(HeaderLen))
    BY DEF FramedInChunk
  <1>6. \A n : Data(n) = SubSeq(stream, At + 1, At + n)
    BY <1>3 DEF Data
  <1>7. MsgLen(Data(HeaderLen)) \in Nat
    <2>1. HeaderLen \in 0 .. length
      BY <1>3, <1>5 DEF HeaderLen
    <2>2. Data(HeaderLen) \in Seq(Byte) /\ Len(Data(HeaderLen)) = HeaderLen
      BY <1>1, <2>1, DataBytes
    <2>3. HeaderLen >= HeaderLen
      BY DEF HeaderLen
    <2> QED BY <2>2, <2>3, HeaderBytes
  <1>8. Len(stream) - At >= HeaderLen /\ Len(stream) - At >= MsgLen(Data(HeaderLen))
    BY <1>3, <1>5, <1>7 DEF HeaderLen
  <1>9. AtCursor(m)
    BY <1>1, <1>5, <1>6, <1>8 DEF AtCursor
  <1>10. fed - (length - Len(m)) - Len(<<>>) = At + Len(m)
    <2>1. Len(<<>>) = 0
      BY EmptySeq
    <2> QED BY <1>3, <1>4, <2>1
  <1> HIDE DEF InLoop
  <1>11. FramedInChunk = {m}
    BY DEF FramedInChunk
  <1> QED BY <1>2, <1>9, <1>10, <1>11 DEF Frames

LEMMA FramesImplement ==
    ASSUME IInv, IInv', Next, ~ escaped, NEW accepts \in HandlerVerdicts,
           CompletePartial(accepts) \/ TakeWhole(accepts)
    PROVE  Abstract!Next
  <1>1. InLoop /\ stream' = stream /\ fed' = fed
    BY DEF CompletePartial, TakeWhole
  <1>2. Frames(FramedInBuffer, accepts) \/ Frames(FramedInChunk, accepts)
    BY CompletePartialFrames, TakeWholeFrames
  <1>3. PICK m, held, rest, unread :
          AtCursor(m) /\ Handle(m, accepts, held, rest, unread) /\ fed - unread - Len(rest) = At + Len(m)
    BY <1>2 DEF Frames
  <1> QED BY <1>1, <1>3, HandleImplements

-----------------------------------------------------------------------------
(* The prologue. *)
LEMMA ReadMagicImplements == ASSUME IInv, ReadMagic PROVE Abstract!Next
  <1>1. TypeOK /\ buffer = <<>> /\ buffer' = buffer /\ fed' = fed /\ state \in Prologue
    BY DEF IInv, NothingBuffered, Prologue, ReadMagic
  <1>2. /\ At = fed - length /\ fed \in 0 .. Len(stream) /\ length \in 0 .. fed /\ Len(stream) \in Nat
        /\ length' \in Int => At' = fed - length'
    BY <1>1, CursorInLog, EmptySeq DEF TypeOK, At
  <1>3. CASE length < FileHeaderLen \/ ~ HasMagic(Data(FileHeaderLen))
    <2>1. state' = InvalidData /\ calls' = Calling(<<"fatal">>) /\ length' = length
      BY <1>3 DEF ReadMagic
    <2>2. At' = At
      BY <1>2, <2>1
    <2> QED BY <1>1, <2>1, <2>2, ToRefuse DEF ReadMagic
  <1>4. CASE ~ (length < FileHeaderLen \/ ~ HasMagic(Data(FileHeaderLen)))
    <2>1. state' = ReadingFlagBits /\ length' = length - FileHeaderLen /\ calls' = calls
      BY <1>4 DEF ReadMagic
    <2>2. At' = At + FileHeaderLen /\ Len(stream) - At >= FileHeaderLen
      BY <1>2, <1>4, <2>1 DEF FileHeaderLen
    <2>3. HasMagic(SubSeq(stream, At + 1, At + FileHeaderLen))
      BY <1>2, <1>4 DEF Data
    <2> QED BY <2>1, <2>2, <2>3, ToOpen DEF ReadMagic
  <1> QED BY <1>3, <1>4

LEMMA ReadFlagBitsImplements == ASSUME IInv, ReadFlagBits PROVE Abstract!Next
  <1>1. TypeOK /\ buffer = <<>> /\ buffer' = buffer /\ fed' = fed /\ state \in Prologue
    BY DEF IInv, NothingBuffered, Prologue, ReadFlagBits
  <1>2. /\ At = fed - length /\ fed \in 0 .. Len(stream) /\ length \in 0 .. fed /\ Len(stream) \in Nat
        /\ length' \in Int => At' = fed - length'
    BY <1>1, CursorInLog, EmptySeq DEF TypeOK, At
  <1>3. CASE length < FlagBitsLen
    <2>1. state' = InvalidData /\ calls' = Calling(<<"fatal">>) /\ length' = length
      BY <1>3 DEF ReadFlagBits
    <2>2. At' = At
      BY <1>2, <2>1
    <2> QED BY <1>1, <2>1, <2>2, ToRefuse DEF ReadFlagBits
  <1>4. CASE ~ (length < FlagBitsLen)
    <2> DEFINE b == Data(FlagBitsLen)
    <2>1. length >= FlagBitsLen
      BY <1>2, <1>4 DEF FlagBitsLen
    <2>2. FlagBitsSkip(b) \in Nat
      BY <1>1, <2>1, FlagBitsType
    <2>3. /\ state' = IF FlagBitsRefused(b) THEN InvalidData ELSE ReadingHeader
          /\ calls' = Calling(FlagBitsCalls(b))
          /\ length' = Greatest(length - FlagBitsSkip(b), 0)
      BY <1>4 DEF ReadFlagBits
    <2>4. b = SubSeq(stream, At + 1, At + FlagBitsLen)
      BY <1>2 DEF Data
    <2> HIDE DEF b
    <2>5. /\ At' \in At .. At + FlagBitsSkip(b)
          /\ FlagBitsSkip(b) = FlagBitsLen => At' = At + FlagBitsLen
      <3>1. length' \in Int /\ At' = fed - length'
        BY <1>2, <2>2, <2>3 DEF Greatest
      <3> QED BY <1>2, <2>1, <2>2, <2>3, <3>1 DEF Greatest
    <2>6. Len(stream) - At >= FlagBitsLen
      BY <1>2, <2>1 DEF FlagBitsLen
    <2> QED BY <2>3, <2>4, <2>5, <2>6, ToReadFlags DEF ReadFlagBits
  <1> QED BY <1>3, <1>4

-----------------------------------------------------------------------------
(* The recovery looks at the log: what it finds in the buffer is there. *)
LEMMA SearchedInLog ==
    ASSUME IInv, InRecovery, ~ escaped
    PROVE  /\ Searched = SubSeq(stream, At + 1, At + Len(Searched))
           /\ At + Len(Searched) <= Len(stream) /\ At + Len(Searched) = fed - (length - Appended)
           /\ \A i \in 0 .. Len(Searched) - HeaderLen :
                SaneHeader(Searched, i) <=> SaneHeader(stream, At + i)
  <1>1. /\ TypeOK /\ Len(buffer) \in Nat /\ Appended \in 1 .. length /\ Appended \in 0 .. length
        /\ Len(Searched) = Len(buffer) + Appended /\ Len(Searched) \in Nat
    BY Recovering
  <1>2. /\ At \in Nat /\ Len(stream) \in Nat /\ fed \in 0 .. Len(stream) /\ length \in 0 .. fed
        /\ stream \in Seq(Byte)
    BY <1>1, CursorInLog DEF TypeOK
  <1>3. fed - length + Appended = At + Len(Searched) /\ At + Len(Searched) = fed - (length - Appended)
    <2>1. \A l : l = Len(buffer) + Appended =>
            fed - length + Appended = At + l /\ At + l = fed - (length - Appended)
      BY <1>1, <1>2 DEF At
    <2> QED BY <1>1, <2>1
  <1>4. At + Len(Searched) <= Len(stream)
    BY <1>1, <1>2, <1>3
  <1>5. Searched = SubSeq(stream, At + 1, At + Len(Searched))
    <2>1. EndsAt(buffer, fed - length)
      BY Located DEF IInv, Framing, InRecovery
    <2>2. EndsAt(Searched, At + Len(Searched))
      BY <1>1, <1>3, <2>1, Appending DEF Searched
    <2>3. At + Len(Searched) - Len(Searched) = At
      BY <1>1, <1>2
    <2> DEFINE e == At + Len(Searched)
    <2>4. Searched = SubSeq(stream, e - Len(Searched) + 1, e)
      BY <2>2 DEF EndsAt
    <2>5. e - Len(Searched) = At
      BY <1>1, <1>2, <2>3
    <2> HIDE DEF e
    <2>6. Searched = SubSeq(stream, At + 1, e)
      BY <2>4, <2>5, Zenon
    <2> QED BY <2>6 DEF e
  <1>6. ASSUME NEW i \in 0 .. Len(Searched) - HeaderLen
        PROVE  SubSeq(Searched, i + 1, i + HeaderLen) = SubSeq(stream, At + i + 1, At + i + HeaderLen)
    <2> DEFINE e == At + Len(Searched)
    <2>1. /\ At + 1 \in 1 .. Len(stream) /\ e \in 1 .. Len(stream)
          /\ i + 1 \in 1 .. e - (At + 1) + 1 /\ i + HeaderLen \in 1 .. e - (At + 1) + 1
      BY <1>1, <1>2, <1>4 DEF HeaderLen
    <2> DEFINE a == At + 1
               k == i + 1
               l == i + HeaderLen
    <2>m. /\ stream \in Seq(Byte) /\ a \in 1 .. Len(stream) /\ e \in 1 .. Len(stream)
          /\ k \in 1 .. e - a + 1 /\ l \in 1 .. e - a + 1
      BY <1>2, <2>1
    <2> HIDE DEF a, k, l, e
    <2>n. SubSeq(SubSeq(stream, a, e), k, l) = SubSeq(stream, a + k - 1, a + l - 1)
      BY <2>m, SubSeqOfSubSeq
    <2>2. SubSeq(SubSeq(stream, At + 1, e), i + 1, i + HeaderLen)
            = SubSeq(stream, (At + 1) + (i + 1) - 1, (At + 1) + (i + HeaderLen) - 1)
      BY <2>n DEF a, k, l
    <2> USE DEF e
    <2>3. (At + 1) + (i + 1) - 1 = At + i + 1 /\ (At + 1) + (i + HeaderLen) - 1 = At + i + HeaderLen
      BY <1>2 DEF HeaderLen
    <2> QED BY <1>5, <2>2, <2>3
  <1>7. \A i \in 0 .. Len(Searched) - HeaderLen : SaneHeader(Searched, i) <=> SaneHeader(stream, At + i)
    BY <1>6 DEF SaneHeader
  <1> QED BY <1>3, <1>4, <1>5, <1>7

(* Dropping k bytes in the recovery takes the cursor k bytes further. *)
LEMMA DropMoves ==
    ASSUME IInv, InRecovery, ~ escaped, NEW k \in 0 .. Len(Searched) - HeaderLen,
           \A i \in Candidates : k <= i,
           k = Len(Searched) - HeaderLen \/ k \in Candidates,
           buffer' = Drop(k), length' = length - Appended, fed' = fed
    PROVE  /\ At' = At + k /\ At' \in At .. Len(stream) - HeaderLen
           /\ \A q \in At .. At' - 1 : ~ SaneHeader(stream, q)
           /\ k \in Candidates => At' + HeaderLen < Len(stream) /\ SaneHeader(stream, At')
  <1>1. /\ TypeOK /\ Len(Searched) \in Nat /\ Appended \in 1 .. length /\ ScanStart = 0
        /\ Len(buffer) \in Nat /\ Len(Searched) = Len(buffer) + Appended
    BY Recovering
  <1>2. At \in Nat /\ Len(stream) \in Nat /\ fed \in Nat /\ length \in Nat
    BY <1>1, CursorInLog
  <1>3. /\ At + Len(Searched) <= Len(stream) /\ At + Len(Searched) = fed - (length - Appended)
        /\ \A i \in 0 .. Len(Searched) - HeaderLen :
             SaneHeader(Searched, i) <=> SaneHeader(stream, At + i)
    BY SearchedInLog
  <1>4. k \in 0 .. Len(Searched)
    BY <1>1 DEF HeaderLen
  <1>5. Len(buffer') = Len(Searched) - k
    BY <1>4, DropLength
  <1>6. At' = At + k
    <2>1. At' = fed - (length - Appended) - Len(buffer')
      BY DEF At
    <2> QED BY <1>1, <1>2, <1>3, <1>4, <1>5, <2>1
  <1>7. At' \in At .. Len(stream) - HeaderLen
    BY <1>1, <1>2, <1>3, <1>6 DEF HeaderLen
  <1>8. ASSUME NEW q \in At .. At' - 1 PROVE ~ SaneHeader(stream, q)
    <2>1. q - At \in 0 .. k - 1 /\ q - At \in 0 .. Len(Searched) - HeaderLen - 1
          /\ q - At \in 0 .. Len(Searched) - HeaderLen /\ At + (q - At) = q
      BY <1>1, <1>2, <1>6 DEF HeaderLen
    <2>2. q - At \notin Candidates
      BY <1>1, <2>1
    <2>3. ~ SaneHeader(Searched, q - At)
      BY <1>1, <2>1, <2>2 DEF Candidates, ScanEnd
    <2> QED BY <1>3, <2>1, <2>3
  <1>9. ASSUME k \in Candidates PROVE At' + HeaderLen < Len(stream) /\ SaneHeader(stream, At')
    <2>1. k < Len(Searched) - HeaderLen /\ SaneHeader(Searched, k)
      BY <1>1, <1>9 DEF Candidates, ScanEnd, HeaderLen
    <2> QED BY <1>1, <1>2, <1>3, <1>6, <2>1 DEF HeaderLen
  <1> QED BY <1>6, <1>7, <1>8, <1>9

LEMMA RecoverNothingImplements == ASSUME IInv, ~ escaped, RecoverNothing PROVE Abstract!Next
  <1>1. /\ Len(Searched) \in Nat /\ ScanStart = 0 /\ needRecovery /\ InRecovery
        /\ Len(Searched) >= HeaderLen
    BY Recovering DEF RecoverNothing
  <1> DEFINE k == Greatest(ScanStart, ScanEnd)
  <1>2. k = Len(Searched) - HeaderLen /\ k \in 0 .. Len(Searched) - HeaderLen
    BY <1>1 DEF Greatest, ScanEnd, HeaderLen
  <1>3. /\ buffer' = Drop(k) /\ length' = length - Appended /\ fed' = fed /\ needRecovery' = needRecovery
        /\ Candidates = {} /\ UNCHANGED <<stream, state, corruptionReported, calls, escaped>>
    BY DEF RecoverNothing
  <1> HIDE DEF k, InRecovery
  <1>4. /\ At' \in At .. Len(stream) - HeaderLen
        /\ \A q \in At .. At' - 1 : ~ SaneHeader(stream, q)
    BY <1>1, <1>2, <1>3, DropMoves
  <1> QED BY <1>1, <1>3, <1>4, ToResync

LEMMA RecoverFoundImplements == ASSUME IInv, IInv', ~ escaped, RecoverFound PROVE Abstract!Next
  <1>1. /\ TypeOK /\ Len(Searched) \in Nat /\ ScanStart = 0 /\ needRecovery /\ InRecovery
        /\ Len(Searched) >= HeaderLen
    BY Recovering DEF RecoverFound
  <1>2. PICK k \in Candidates : buffer' = Drop(k) /\ \A i \in Candidates : k <= i
    BY DEF RecoverFound
  <1>3. k \in 0 .. Len(Searched) - HeaderLen /\ k \in 0 .. Len(Searched)
    BY <1>1 DEF Candidates, ScanEnd, HeaderLen
  <1>4. fed' = fed /\ UNCHANGED <<stream, state, corruptionReported, calls, escaped>>
    BY DEF RecoverFound
  <1>5. CASE Entry(state) # "idle"
    <2>1. length' = length - Appended
      BY <1>5 DEF RecoverFound
    <2>2. /\ At' \in At .. Len(stream) - HeaderLen
          /\ \A q \in At .. At' - 1 : ~ SaneHeader(stream, q)
          /\ At' + HeaderLen < Len(stream) /\ SaneHeader(stream, At')
      BY <1>1, <1>2, <1>3, <1>4, <2>1, DropMoves
    <2> QED BY <1>1, <1>4, <2>2, ToResync
  <1>6. CASE Entry(state) = "idle"
    <2>1. state = InvalidData
      BY <1>1, <1>6 DEF Entry, TypeOK, States
    <2>2. length' = 0
      BY <1>6 DEF RecoverFound
    <2>3. Len(buffer') = Len(Searched) - k
      BY <1>1, <1>2, <1>3, DropLength
    <2>4. At <= At'
      BY <1>1, <1>3, <1>4, <2>2, <2>3, CursorGoesOn
    <2>5. At \in Nat /\ At' \in 0 .. Len(stream)
      <3>1. TypeOK'
        BY DEF IInv
      <3> QED BY <1>1, <1>4, <3>1, CursorInLog, NextCursor
    <2> QED BY <1>4, <2>1, <2>4, <2>5, ToIgnore
  <1> QED BY <1>5, <1>6

-----------------------------------------------------------------------------
(* The other steps only move bytes, or the call. *)
LEMMA MovingStutters ==
    ASSUME TypeOK, NEW n \in 0 .. length, length' = length - n, Len(buffer') = Len(buffer) + n,
           UNCHANGED <<stream, fed, state, needRecovery, corruptionReported, calls, escaped>>
    PROVE  SameView
  <1>1. fed \in Int /\ length \in Int /\ Len(buffer) \in Int
    BY LenProperties DEF TypeOK
  <1>2. At' = At
    BY <1>1 DEF At
  <1> QED BY <1>2 DEF SameView

LEMMA ReadChunkImplements ==
    ASSUME IInv, IInv', NEW n \in ChunkSizes, ReadChunk(n) PROVE [Abstract!Next]_(Abstract!vars)
  <1>1. /\ TypeOK /\ TypeOK' /\ n \in Nat /\ length = 0 /\ fed' = fed + n /\ buffer' = buffer
        /\ UNCHANGED <<stream, state, needRecovery, corruptionReported, calls, escaped>>
    BY ChunksAssumption DEF ReadChunk, IInv, IdleConsumed
  <1>2. At \in Nat /\ At' \in 0 .. Len(stream) /\ fed \in Nat /\ Len(buffer) \in Nat
    BY <1>1, CursorInLog, NextCursor
  <1>3. CASE Entry(state) # "idle"
    <2>1. length' = n
      BY <1>3 DEF ReadChunk
    <2>2. At' = At
      BY <1>1, <1>2, <2>1 DEF At
    <2> QED BY <1>1, <2>2, ToStutter DEF SameView
  <1>4. CASE Entry(state) = "idle"
    <2>1. length' = 0 /\ state = InvalidData
      BY <1>1, <1>4 DEF ReadChunk, Entry, TypeOK, States
    <2>2. At <= At'
      BY <1>1, <1>2, <2>1 DEF At
    <2> QED BY <1>1, <1>2, <2>1, <2>2, ToIgnore
  <1> QED BY <1>3, <1>4

(* Every step of the reader is one of LogParser, or none. *)
LEMMA NextImplements ==
    ASSUME IInv, [Next]_vars PROVE [Abstract!Next]_(Abstract!vars)
  <1>1. IInv' /\ TypeOK /\ TypeOK' /\ escaped \in BOOLEAN
    <2>1. IInv'
      BY NextIInv
    <2> QED BY <2>1 DEF IInv, TypeOK
  <1>2. ASSUME NEW n \in ChunkSizes, ReadChunk(n) PROVE [Abstract!Next]_(Abstract!vars)
    BY <1>1, <1>2, ReadChunkImplements
  <1>3. CASE ReadMagic \/ ReadFlagBits
    BY <1>3, ReadMagicImplements, ReadFlagBitsImplements
  <1>4. CASE escaped
    <2>1. escaped' = TRUE
      BY <1>1, <1>4 DEF Next, Step, ReadChunk, ReadMagic, ReadFlagBits, CompletePartial, ExtendPartial, TakeWhole,
           StartPartial, LeaveLoop, RecoverShort, RecoverNothing, RecoverFound, LeaveRecovery, vars, Handle
    <2> QED BY <1>1, <1>4, <2>1, ToBroken
  <1>5. ASSUME NEW accepts \in HandlerVerdicts, CompletePartial(accepts) PROVE [Abstract!Next]_(Abstract!vars)
    <2>1. Next
      BY <1>5 DEF Next, Step
    <2> QED BY <1>1, <1>4, <1>5, <2>1, FramesImplement
  <1>6. CASE ExtendPartial
    <2>1. Added \in 0 .. length /\ Len(buffer') = Len(buffer) + Added
      BY <1>1, <1>6, FilledType DEF ExtendPartial
    <2> QED BY <1>1, <1>6, <2>1, MovingStutters, ToStutter DEF ExtendPartial
  <1>7. ASSUME NEW accepts \in HandlerVerdicts, TakeWhole(accepts) PROVE [Abstract!Next]_(Abstract!vars)
    <2>1. Next
      BY <1>7 DEF Next, Step
    <2> QED BY <1>1, <1>4, <1>7, <2>1, FramesImplement
  <1>8. CASE StartPartial
    <2>1. Appended \in 0 .. length /\ buffer = <<>>
      BY <1>1, <1>8, SearchedType DEF IInv, StartPartial
    <2>2. Len(buffer') = Len(buffer) + Appended
      BY <1>1, <1>8, <2>1, DataBytes, EmptySeq DEF StartPartial
    <2> QED BY <1>1, <1>8, <2>1, <2>2, MovingStutters, ToStutter DEF StartPartial
  <1>9. CASE LeaveLoop \/ LeaveRecovery \/ UNCHANGED vars
    <2>1. SameView
      BY <1>9 DEF LeaveLoop, LeaveRecovery, vars, SameView, At
    <2> QED BY <2>1, ToStutter
  <1>10. CASE RecoverShort
    <2>1. Appended \in 0 .. length /\ Len(buffer') = Len(buffer) + Appended
      BY <1>1, <1>10, Recovering DEF RecoverShort
    <2> QED BY <1>1, <1>10, <2>1, MovingStutters, ToStutter DEF RecoverShort
  <1>11. CASE RecoverNothing
    BY <1>1, <1>4, <1>11, RecoverNothingImplements
  <1>12. CASE RecoverFound
    BY <1>1, <1>4, <1>12, RecoverFoundImplements
  <1> QED BY <1>2, <1>3, <1>4, <1>5, <1>6, <1>7, <1>8, <1>9, <1>10, <1>11, <1>12 DEF Next, Step

(* The reader implements LogParser: for every log, however it is cut, what  *)
(* it has done at any time is what a parser of the whole log does that      *)
(* takes message after message, and after a corruption goes on at the next  *)
(* bytes that could be a header, having passed over no others.              *)
THEOREM ReaderImplementsLogParser == Spec => ImplementsLogParser
  <1>1. Init => Abstract!Init
    <2> SUFFICES ASSUME Init PROVE Abstract!Init
      OBVIOUS
    <2>1. At = 0
      <3>1. Len(buffer) = 0 /\ fed = 0 /\ length = 0
        BY EmptySeq DEF Init
      <3> QED BY <3>1 DEF At
    <2> QED BY <2>1, SameStates DEF Init, Abstract!Init
  <1>2. IInv /\ [Next]_vars => [Abstract!Next]_(Abstract!vars)
    BY NextImplements
  <1> QED BY <1>1, <1>2, Invariant, PTL DEF Spec, Abstract!Spec, ImplementsLogParser
=============================================================================
