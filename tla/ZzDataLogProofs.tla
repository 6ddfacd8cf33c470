--------------------------- MODULE ZzDataLogProofs ---------------------------
(***************************************************************************)
(* Theorems about ZzDataLog, for every application, file name and limit:   *)
(* what holds of the logger, its Writer and its file wherever a rotation   *)
(* or an Init stops. Every file can be read, the ids that Write looks up   *)
(* are subscribed in the current file, and every variable keeps its type,  *)
(* whatever methods are called.                                            *)
(***************************************************************************)
EXTENDS ZzDataLog, RecursionProofs

(***************************************************************************)
(* The inductive invariant. That a file has room (RoomIsLeft) is not kept  *)
(* by headerComplete unless it is known of every logger with a Writer      *)
(* (WriterHasRoom): a rotation that gave up leaves a full counter behind,  *)
(* and only the missing Writer keeps the logger from using it.             *)
(***************************************************************************)
SizesKnown    == currentFileSize \in Nat
WriterHasRoom == writer # "null" => currentFileSize < MaxFileSize
WritersExist  == writer \in Stores
NoIdsYet      == ~ headerComplete => idMap = <<>>
FileIsOpen    == "callback" \notin Constructors /\ writer # "null" => file = "open"

IInv == /\ SizesKnown
        /\ WritersExist
        /\ LayersAgree
        /\ WriterHasOpenFile
        /\ WriterHasRoom
        /\ NoIdsYet
        /\ FileIsOpen

(* The record of the fields that Init and the rotation change. *)
FieldNames == {"writer", "headerComplete", "formats", "subscriptions", "idMap", "log", "result"}

(* The part of the invariant that speaks of them. *)
Sound(c) == /\ c.writer \in Stores
            /\ c.headerComplete <=> c.writer = "data"
            /\ ~ c.headerComplete => c.idMap = <<>>

-----------------------------------------------------------------------------
(* How the helpers change the two fields. *)
LEMMA EndsFields ==
    ASSUME NEW c, DOMAIN c = FieldNames, NEW r
    PROVE  /\ Ends(c, r).writer = c.writer
           /\ Ends(c, r).headerComplete = c.headerComplete
           /\ Ends(c, r).idMap = c.idMap
           /\ Ends(c, r).result = r
  BY DEF Ends, FieldNames

LEMMA EndsDomain == ASSUME NEW c, DOMAIN c = FieldNames, NEW r PROVE DOMAIN Ends(c, r) = FieldNames
  BY DEF Ends

LEMMA RejectedFields ==
    ASSUME NEW c, DOMAIN c = FieldNames, NEW t
    PROVE  /\ Rejected(c, t).writer = c.writer
           /\ Rejected(c, t).headerComplete = c.headerComplete
           /\ Rejected(c, t).idMap = c.idMap
           /\ Rejected(c, t).result \in {Usage, Parsing}
  <1> DEFINE e == [c EXCEPT !.formats = @ \union {t}]
  <1>1. /\ DOMAIN e = FieldNames /\ e.writer = c.writer
        /\ e.headerComplete = c.headerComplete /\ e.idMap = c.idMap
    BY DEF FieldNames
  <1> HIDE DEF e
  <1>2. Rejected(c, t) = Ends(e, Parsing) \/ Rejected(c, t) = Ends(c, Usage)
    BY DEF Rejected, e
  <1> QED BY <1>1, <1>2, EndsFields

LEMMA RegisteredFields ==
    ASSUME NEW c, DOMAIN c = FieldNames, NEW structs
    PROVE  /\ DOMAIN Registered(c, structs) = FieldNames
           /\ Registered(c, structs).writer = c.writer
           /\ Registered(c, structs).headerComplete = c.headerComplete
           /\ Registered(c, structs).idMap = c.idMap
  BY DEF Registered, FieldNames

LEMMA SubscribedFields ==
    ASSUME NEW c, DOMAIN c = FieldNames, NEW structs
    PROVE  /\ DOMAIN Subscribed(c, structs) = FieldNames
           /\ Subscribed(c, structs).writer = "data"
           /\ Subscribed(c, structs).headerComplete = TRUE
  BY DEF Subscribed, FieldNames

(* Initializing a sound logger leaves a sound one, with a Writer if and     *)
(* only if there was one; and without undefined behaviour if there was.     *)
LEMMA InitializedSound ==
    ASSUME NEW c, DOMAIN c = FieldNames, Sound(c), NEW key, NEW value, NEW structs
    PROVE  /\ Sound(Initialized(c, key, value, structs))
           /\ Initialized(c, key, value, structs).writer = "null" <=> c.writer = "null"
           /\ c.writer # "null" =>
                Initialized(c, key, value, structs).result \in {Ok, Usage, Parsing}
  <1> DEFINE d    == Initialized(c, key, value, structs)
             stop == CHOOSE i \in Stops(c, structs) : \A j \in Stops(c, structs) : i <= j
  <1>1. CASE key = "" \/ value = "" \/ c.headerComplete
    <2>1. d = Ends(c, Usage)
      BY <1>1 DEF Initialized
    <2>2. d.writer = c.writer /\ d.headerComplete = c.headerComplete /\ d.idMap = c.idMap /\ d.result = Usage
      BY <2>1, EndsFields
    <2> HIDE DEF d
    <2>3. Sound(d) /\ (d.writer = "null" <=> c.writer = "null") /\ d.result \in {Ok, Usage, Parsing}
      BY <2>2 DEF Sound
    <2> QED BY <2>3 DEF d
  <1>2. CASE ~ (key = "" \/ value = "" \/ c.headerComplete) /\ c.writer = "null"
    <2>1. d = Ends(c, Undefined)
      BY <1>2 DEF Initialized
    <2>2. d.writer = c.writer /\ d.headerComplete = c.headerComplete /\ d.idMap = c.idMap
      BY <2>1, EndsFields
    <2> HIDE DEF d
    <2>3. Sound(d) /\ (d.writer = "null" <=> c.writer = "null")
      BY <2>2 DEF Sound
    <2> QED BY <1>2, <2>3 DEF d
  <1>5. CASE /\ ~ (key = "" \/ value = "" \/ c.headerComplete) /\ c.writer # "null"
             /\ <<key, value>> \in LongInfos
    <2>1. d = Ends(c, Parsing)
      BY <1>5 DEF Initialized
    <2>2. d.writer = c.writer /\ d.headerComplete = c.headerComplete /\ d.idMap = c.idMap
          /\ d.result = Parsing
      BY <2>1, EndsFields
    <2> HIDE DEF d
    <2>3. Sound(d) /\ (d.writer = "null" <=> c.writer = "null") /\ d.result \in {Ok, Usage, Parsing}
      BY <2>2 DEF Sound
    <2> QED BY <2>3 DEF d
  <1>3. CASE /\ ~ (key = "" \/ value = "" \/ c.headerComplete) /\ c.writer # "null"
             /\ <<key, value>> \notin LongInfos /\ Stops(c, structs) = {}
    <2>1. d = Ends(Subscribed(Registered(c, structs), structs), Ok)
      BY <1>3 DEF Initialized
    <2>2. d.writer = "data" /\ d.headerComplete = TRUE /\ d.result = Ok
      <3>1. DOMAIN Registered(c, structs) = FieldNames
        BY RegisteredFields
      <3> DEFINE e == Subscribed(Registered(c, structs), structs)
      <3>2. DOMAIN e = FieldNames /\ e.writer = "data" /\ e.headerComplete = TRUE
        BY <3>1, SubscribedFields
      <3> HIDE DEF e
      <3>3. d = Ends(e, Ok)
        BY <2>1 DEF e
      <3> QED BY <3>2, <3>3, EndsFields
    <2> HIDE DEF d
    <2>3. Sound(d) /\ d.writer # "null" /\ d.result \in {Ok, Usage, Parsing}
      BY <2>2 DEF Sound, Stores
    <2> QED BY <1>3, <2>3 DEF d
  <1>4. CASE /\ ~ (key = "" \/ value = "" \/ c.headerComplete) /\ c.writer # "null"
             /\ <<key, value>> \notin LongInfos /\ Stops(c, structs) # {}
    <2> DEFINE e == Registered(c, SubSeq(structs, 1, stop - 1))
    <2>1. d = Rejected(e, structs[stop])
      BY <1>4 DEF Initialized
    <2>2. DOMAIN e = FieldNames /\ e.writer = c.writer /\ e.headerComplete = c.headerComplete
            /\ e.idMap = c.idMap
      BY RegisteredFields
    <2> HIDE DEF d, e
    <2>3. d.writer = c.writer /\ d.headerComplete = c.headerComplete /\ d.idMap = c.idMap
          /\ d.result \in {Usage, Parsing}
      BY <2>1, <2>2, RejectedFields
    <2>4. Sound(d) /\ (d.writer = "null" <=> c.writer = "null") /\ d.result \in {Ok, Usage, Parsing}
      BY <2>3 DEF Sound
    <2> QED BY <2>4 DEF d
  <1> QED BY <1>1, <1>2, <1>3, <1>4, <1>5

LEMMA InitializedDomain ==
    ASSUME NEW c, DOMAIN c = FieldNames, NEW key, NEW value, NEW structs
    PROVE  DOMAIN Initialized(c, key, value, structs) = FieldNames
  <1>1. \A d, r : DOMAIN d = FieldNames => DOMAIN Ends(d, r) = FieldNames
    BY EndsDomain
  <1>2. \A d, t : DOMAIN d = FieldNames => DOMAIN Rejected(d, t) = FieldNames
    <2>1. \A d, t : DOMAIN d = FieldNames => DOMAIN [d EXCEPT !.formats = @ \union {t}] = FieldNames
      OBVIOUS
    <2> QED BY <1>1, <2>1 DEF Rejected
  <1>3. \A s : DOMAIN Registered(c, s) = FieldNames
    BY RegisteredFields
  <1>4. DOMAIN Subscribed(Registered(c, structs), structs) = FieldNames
    BY <1>3, SubscribedFields
  <1> QED BY <1>1, <1>2, <1>3, <1>4, Zenon DEF Initialized

-----------------------------------------------------------------------------
LEMMA InitIInv == Init => IInv
  <1> SUFFICES ASSUME Init PROVE IInv
    OBVIOUS
  <1>1. PICK c \in Constructors : file = IF c = "callback" THEN "null" ELSE "open"
    BY DEF Init
  <1>2. /\ writer = "header" /\ headerComplete = FALSE /\ currentFileSize = 0 /\ idMap = <<>>
    BY DEF Init
  <1>3. 0 < MaxFileSize
    BY SizeAssumption
  <1> QED BY <1>1, <1>2, <1>3 DEF IInv, SizesKnown, WritersExist, LayersAgree, WriterHasOpenFile,
                                  WriterHasRoom, NoIdsYet, FileIsOpen, Stores

(* A call that leaves the Writer, the flag, the ids, the file and the count *)
(* alone.                                                                   *)
LEMMA Untouched ==
    ASSUME IInv, UNCHANGED <<writer, headerComplete, idMap, file, currentFileSize>>
    PROVE  IInv'
  BY DEF IInv, SizesKnown, WritersExist, LayersAgree, WriterHasOpenFile, WriterHasRoom, NoIdsYet,
         FileIsOpen

LEMMA ThrowKeeps == ASSUME IInv, NEW exception, Throw(exception) PROVE IInv'
  BY Untouched DEF Throw

LEMMA LogsKeeps == ASSUME IInv, NEW record, NEW fits, Logs(record, fits) PROVE IInv'
  BY Untouched, ThrowKeeps DEF Logs

LEMMA HeaderCompleteKeeps == ASSUME IInv, HeaderComplete PROVE IInv'
  <1>1. CASE headerComplete \/ writer = "null"
    BY <1>1, ThrowKeeps DEF HeaderComplete
  <1>2. CASE ~ headerComplete /\ writer # "null"
    <2>1. /\ headerComplete' = TRUE /\ writer' = "data"
          /\ UNCHANGED <<file, idMap, currentFileSize>>
      BY <1>2 DEF HeaderComplete
    <2> QED BY <1>2, <2>1 DEF IInv, SizesKnown, WritersExist, LayersAgree, WriterHasOpenFile,
                              WriterHasRoom, NoIdsYet, FileIsOpen, Stores
  <1> QED BY <1>1, <1>2

LEMMA WriteMessageFormatKeeps == ASSUME IInv, NEW t, WriteMessageFormat(t) PROVE IInv'
  BY Untouched, ThrowKeeps DEF WriteMessageFormat

LEMMA WriteAddLoggedMessageKeeps == ASSUME IInv, NEW t, WriteAddLoggedMessage(t) PROVE IInv'
  BY Untouched, ThrowKeeps DEF WriteAddLoggedMessage

(* Init: what the caller's logger becomes is sound, and has a Writer only   *)
(* if it had one.                                                           *)
LEMMA InitLoggerKeeps ==
    ASSUME IInv, NEW key, NEW value, NEW structs, InitLogger(key, value, structs) PROVE IInv'
  <1> DEFINE d == Initialized(Fields, key, value, structs)
  <1>1. DOMAIN Fields = FieldNames /\ Fields.writer = writer
    BY DEF Fields, FieldNames
  <1>2. Sound(Fields)
    BY DEF Sound, Fields, IInv, WritersExist, LayersAgree, NoIdsYet
  <1>3. Sound(d) /\ (d.writer = "null" <=> writer = "null")
    BY <1>1, <1>2, InitializedSound
  <1>4. /\ writer' = d.writer /\ headerComplete' = d.headerComplete /\ idMap' = d.idMap
        /\ file' = file /\ currentFileSize' = currentFileSize
    BY DEF InitLogger, Become
  <1> HIDE DEF d
  <1> QED BY <1>3, <1>4 DEF Sound, IInv, SizesKnown, WritersExist, LayersAgree, WriterHasOpenFile,
                            WriterHasRoom, NoIdsYet, FileIsOpen

-----------------------------------------------------------------------------
(* The file has room: it still has some with the record in it. *)
LEMMA AppendDataKeeps ==
    ASSUME IInv, NEW id, NEW t \in Structs, ~ IsFull(t), AppendData(id, t) PROVE IInv'
  <1>1. CASE writer = "null"
    BY <1>1, ThrowKeeps DEF AppendData
  <1>2. CASE writer # "null"
    <2>1. /\ currentFileSize' = currentFileSize + SizeOf[t]
          /\ UNCHANGED <<writer, file, headerComplete, idMap>>
      BY <1>2 DEF AppendData
    <2>2. currentFileSize \in Nat /\ SizeOf[t] \in Nat /\ MaxFileSize \in Nat
      BY StructsAssumption, SizeAssumption DEF IInv, SizesKnown
    <2>3. currentFileSize + SizeOf[t] \in Nat /\ currentFileSize + SizeOf[t] < MaxFileSize
      BY <2>2 DEF IsFull
    <2> QED BY <2>1, <2>3 DEF IInv, SizesKnown, WritersExist, LayersAgree, WriterHasOpenFile,
                              WriterHasRoom, NoIdsYet, FileIsOpen
  <1> QED BY <1>1, <1>2

(* A rotation that gives up leaves no Writer. *)
LEMMA GiveUpKeeps ==
    ASSUME IInv, NEW exception, NEW t \in Structs, GiveUp(exception, t) PROVE IInv'
  <1>1. /\ DOMAIN Cleared = FieldNames /\ Cleared.writer = "null"
        /\ Cleared.headerComplete = FALSE /\ Cleared.idMap = <<>>
    BY DEF Cleared, FieldNames
  <1>2. /\ Ends(Cleared, exception).writer = "null"
        /\ Ends(Cleared, exception).headerComplete = FALSE
        /\ Ends(Cleared, exception).idMap = <<>>
    BY <1>1, EndsFields
  <1>3. writer' = "null" /\ headerComplete' = FALSE /\ idMap' = <<>>
    BY <1>2 DEF GiveUp, Become
  <1>4. currentFileSize' \in Nat
    <2>1. currentFileSize \in Nat /\ SizeOf[t] \in Nat
      BY StructsAssumption DEF IInv, SizesKnown
    <2>2. currentFileSize + SizeOf[t] \in Nat
      BY <2>1
    <2> QED BY <2>2 DEF GiveUp
  <1> QED BY <1>3, <1>4 DEF IInv, SizesKnown, WritersExist, LayersAgree, WriterHasOpenFile,
                            WriterHasRoom, NoIdsYet, FileIsOpen, Stores

(* The logger a rotation comes to: sound, and initialized without undefined *)
(* behaviour, since there is a Writer again.                                *)
LEMMA NewFileSound ==
    ASSUME NEW key, NEW value, NEW structs
    PROVE  /\ Sound(Initialized(NewFile, key, value, structs))
           /\ Initialized(NewFile, key, value, structs).result \in {Ok, Usage, Parsing}
           /\ DOMAIN Initialized(NewFile, key, value, structs) = FieldNames
  <1>1. /\ DOMAIN NewFile = FieldNames /\ NewFile.writer = "header"
        /\ NewFile.headerComplete = FALSE /\ NewFile.idMap = <<>>
    BY DEF NewFile, Cleared, FieldNames
  <1>2. Sound(NewFile) /\ NewFile.writer # "null"
    BY <1>1 DEF Sound, Stores
  <1>3. NewFile.writer # "null"
    BY <1>1
  <1> QED BY <1>1, <1>2, <1>3, InitializedSound, InitializedDomain

LEMMA ResumedFields ==
    ASSUME NEW c, DOMAIN c = FieldNames, NEW id, NEW t
    PROVE  /\ Resumed(c, id, t).writer = c.writer
           /\ Resumed(c, id, t).headerComplete = c.headerComplete
           /\ Resumed(c, id, t).idMap = c.idMap
           /\ Resumed(c, id, t).result = IF TooLong(id) THEN Parsing ELSE c.result
  <1>1. CASE TooLong(id)
    <2>1. Resumed(c, id, t) = Ends(c, Parsing)
      BY <1>1 DEF Resumed
    <2> QED BY <1>1, <2>1, EndsFields
  <1>2. CASE ~ TooLong(id)
    <2>1. Resumed(c, id, t) = [c EXCEPT !.log = Append(@, DataRecord(id, t))]
      BY <1>2 DEF Resumed
    <2> QED BY <1>2, <2>1 DEF FieldNames
  <1> QED BY <1>1, <1>2

(* The four ways a rotation ends. *)
LEMMA RotateKeeps ==
    ASSUME IInv, NEW id, NEW t \in Structs, Rotate(id, t)
    PROVE  IInv' /\ (file = "open" => result' # Undefined)
  <1> DEFINE c == Initialized(NewFile, initParams.key, initParams.value, initParams.structs)
             e == IF initParams.fileName = <<>> THEN Usage ELSE InvalidArgument
  <1>1. CASE file # "open" /\ Throw(Undefined)
    BY <1>1, ThrowKeeps
  <1>2. ASSUME NEW x \in {Usage, InvalidArgument, Parsing}, GiveUp(x, t)
        PROVE  IInv' /\ result' # Undefined
    <2>1. DOMAIN Cleared = FieldNames
      BY DEF Cleared, FieldNames
    <2>2. Ends(Cleared, x).result = x
      BY <2>1, EndsFields
    <2>3. result' = x
      BY <1>2, <2>2 DEF GiveUp, Become
    <2>4. x # Undefined
      BY DEF Usage, InvalidArgument, Parsing, Undefined
    <2> QED BY <1>2, <2>3, <2>4, GiveUpKeeps
  <1>3. CASE /\ file' = "open" /\ currentFileSize' = 0
             /\ Become(IF c.result = Ok THEN Resumed(c, id, t) ELSE c)
    <2>1. Sound(c) /\ c.result \in {Ok, Usage, Parsing} /\ DOMAIN c = FieldNames
      BY NewFileSound
    <2> HIDE DEF c
    <2>2. /\ writer' = c.writer /\ headerComplete' = c.headerComplete /\ idMap' = c.idMap
          /\ result' \in {c.result, Parsing}
      <3>1. CASE c.result = Ok
        BY <1>3, <2>1, <3>1, ResumedFields DEF Become
      <3>2. CASE c.result # Ok
        BY <1>3, <3>2 DEF Become
      <3> QED BY <3>1, <3>2
    <2>3. 0 < MaxFileSize
      BY SizeAssumption
    <2>4. IInv'
      BY <1>3, <2>1, <2>2, <2>3
         DEF Sound, IInv, SizesKnown, WritersExist, LayersAgree, WriterHasOpenFile, WriterHasRoom,
             NoIdsYet, FileIsOpen
    <2>5. result' # Undefined
      BY <2>1, <2>2 DEF Ok, Usage, Parsing, Undefined
    <2> QED BY <2>4, <2>5
  <1>4. \/ file # "open" /\ Throw(Undefined)
        \/ GiveUp(e, t)
        \/ GiveUp(Parsing, t)
        \/ /\ file' = "open" /\ currentFileSize' = 0
           /\ Become(IF c.result = Ok THEN Resumed(c, id, t) ELSE c)
    BY DEF Rotate
  <1>5. e \in {Usage, InvalidArgument, Parsing} /\ Parsing \in {Usage, InvalidArgument, Parsing}
    OBVIOUS
  <1> HIDE DEF c, e
  <1> QED BY <1>1, <1>2, <1>3, <1>4, <1>5

(* With an open file writing data is defined, whatever comes of it. *)
LEMMA WriteDataImplKeeps ==
    ASSUME IInv, NEW id, NEW t \in Structs, WriteDataImpl(id, t)
    PROVE  IInv' /\ (file = "open" => result' # Undefined)
  <1>1. CASE Throw(Usage)
    BY <1>1, ThrowKeeps DEF Throw, Usage, Undefined
  <1>2. CASE IsFull(t) /\ Rotate(id, t)
    BY <1>2, RotateKeeps
  <1>3. CASE headerComplete /\ ~ IsFull(t) /\ AppendData(id, t)
    <2>1. writer # "null"
      BY <1>3 DEF IInv, LayersAgree
    <2>2. result' # Undefined
      BY <1>3, <2>1 DEF AppendData, Ok, Parsing, Undefined
    <2> QED BY <1>3, <2>2, AppendDataKeeps
  <1> QED BY <1>1, <1>2, <1>3 DEF WriteDataImpl

LEMMA WriteKeeps ==
    ASSUME IInv, NEW t \in Structs, Write(t)
    PROVE  IInv' /\ ("callback" \notin Constructors => result' # Undefined)
  <1>1. CASE Throw(Usage) \/ Throw(Ok)
    BY <1>1, ThrowKeeps DEF Throw, Usage, Ok, Undefined
  <1>2. CASE t \in DOMAIN idMap /\ WriteDataImpl(idMap[t], t)
    <2>1. headerComplete
      BY <1>2 DEF IInv, NoIdsYet
    <2>2. "callback" \notin Constructors => file = "open"
      BY <2>1 DEF IInv, LayersAgree, FileIsOpen
    <2> QED BY <1>2, <2>2, WriteDataImplKeeps
  <1> QED BY <1>1, <1>2 DEF Write

-----------------------------------------------------------------------------
(* Every call preserves the invariant. *)
LEMMA NextIInv == IInv /\ [Next]_vars => IInv'
  <1> SUFFICES ASSUME IInv, [Next]_vars
               PROVE  IInv'
    OBVIOUS
  <1>1. ASSUME NEW key \in Keys, NEW value \in Values, NEW structs \in StructLists,
               InitLogger(key, value, structs)
        PROVE  IInv'
    BY <1>1, InitLoggerKeeps
  <1>2. ASSUME NEW method, NEW kind, NEW fits,
               WriteHeaderRecord(method, kind, fits) \/ WriteDataRecord(method, kind, fits)
        PROVE  IInv'
    BY <1>2, ThrowKeeps, LogsKeeps DEF WriteHeaderRecord, WriteDataRecord
  <1>3. ASSUME NEW t \in Structs, WriteMessageFormat(t) PROVE IInv'
    BY <1>3, WriteMessageFormatKeeps
  <1>4. CASE HeaderComplete
    BY <1>4, HeaderCompleteKeeps
  <1>5. ASSUME NEW t \in Structs, WriteAddLoggedMessage(t) PROVE IInv'
    BY <1>5, WriteAddLoggedMessageKeeps
  <1>6. ASSUME NEW value \in BOOLEAN, CreateInstanceAgain(value) PROVE IInv'
    BY <1>6, Untouched DEF CreateInstanceAgain
  <1>7. CASE Fsync
    BY <1>7, ThrowKeeps DEF Fsync
  <1>8. ASSUME NEW id, NEW t \in Structs, WriteData(id, t) PROVE IInv'
    BY <1>8, WriteDataImplKeeps DEF WriteData
  <1>9. ASSUME NEW t \in Structs, Write(t) PROVE IInv'
    BY <1>9, WriteKeeps
  <1>10. CASE UNCHANGED vars
    BY <1>10, Untouched DEF vars
  <1> QED BY <1>1, <1>2, <1>3, <1>4, <1>5, <1>6, <1>7, <1>8, <1>9, <1>10 DEF Next

LEMMA Invariant == Spec => []IInv
  BY InitIInv, NextIInv, PTL DEF Spec

(* The header-complete flag of the logger is that of the Writer it owns,    *)
(* also where a rotation stops half way.                                    *)
THEOREM FlagsAgree == Spec => []LayersAgree
  <1>1. IInv => LayersAgree
    BY DEF IInv
  <1> QED BY <1>1, Invariant, PTL

(* No Writer is left that would write to the FILE a rotation closed. *)
THEOREM NoWriterOnClosedFile == Spec => []WriterHasOpenFile
  <1>1. IInv => WriterHasOpenFile
    BY DEF IInv
  <1> QED BY <1>1, Invariant, PTL

(* The count of a logger that takes data is below the limit, although the   *)
(* rotation that gives up keeps on counting.                                *)
THEOREM FileHasRoom == Spec => []RoomIsLeft
  <1>1. IInv => RoomIsLeft
    BY DEF IInv, RoomIsLeft, LayersAgree, WriterHasRoom
  <1> QED BY <1>1, Invariant, PTL

(* Write is defined whenever it is called, for a logger that has a file     *)
(* from the start: by what a failed rotation clears.                        *)
THEOREM WriteStaysDefined ==
    ASSUME "callback" \notin Constructors
    PROVE  Spec => WriteIsDefined
  <1>1. IInv /\ [Next]_vars => [\A t \in Structs : Write(t) => result' # Undefined]_vars
    BY WriteKeeps
  <1> QED BY <1>1, Invariant, PTL DEF Spec, WriteIsDefined

-----------------------------------------------------------------------------
(***************************************************************************)
(* The types that TypeOK leaves out. c is a record of the fields that Init *)
(* and the rotation change.                                                *)
(***************************************************************************)
Records == [kind : Kinds, type : Structs \union {NoStruct}, id : Nat, number : Nat]

Typed(c) ==
    /\ c.writer \in Stores
    /\ c.headerComplete \in BOOLEAN
    /\ c.formats \subseteq Structs
    /\ c.subscriptions \in Seq(Nat)
    /\ DOMAIN c.idMap \subseteq Structs
    /\ \A t \in DOMAIN c.idMap : c.idMap[t] \in Nat
    /\ c.log \in Seq(Records)
    /\ c.result \in Results

ParamsTyped(p) ==
    /\ p \in [fileName : Seq(Parts), key : Keys \union {""}, value : Values \union {""},
              structs : Seq(Structs)]
    /\ p.fileName # <<>> => IsValidFilename(p.fileName)

TypeInv ==
    /\ Typed(Fields)
    /\ file \in {"null", "open", "closed"}
    /\ on \in BOOLEAN
    /\ currentFileSize \in Nat
    /\ ParamsTyped(initParams)
    /\ closedLogs \in Seq(Seq(Records))
    /\ serial \in 0 .. MaxCalls
    /\ logged \in Seq(Nat)
    /\ Len(logged) <= serial
    /\ result \in Results

(* What a Registered and a Subscribed log gain. *)
FormatsOf(structs) == [i \in 1 .. Len(structs) |-> Record("format", structs[i], 0, 0)]
AddsOf(structs, n) ==
    [i \in 1 .. Len(structs) |-> Record("add", structs[i], (n + i - 1) % IdCount, 0)]
IdsOf(structs, n) ==
    [t \in RangeOf(structs) |-> (n + (CHOOSE i \in DOMAIN structs : structs[i] = t) - 1) % IdCount]
SizesOf(structs) == [i \in 1 .. Len(structs) |-> MessageSize[structs[i]]]

LEMMA RecordTyped ==
    ASSUME NEW kind \in Kinds, NEW t \in Structs \union {NoStruct}, NEW id \in Nat, NEW n \in Nat
    PROVE  Record(kind, t, id, n) \in Records
  BY DEF Record, Records

LEMMA RecordFields ==
    \A kind, t, id, n : /\ Record(kind, t, id, n).kind = kind /\ Record(kind, t, id, n).type = t
                        /\ Record(kind, t, id, n).id = id /\ Record(kind, t, id, n).number = n
  BY DEF Record

LEMMA PlainTyped == ASSUME NEW kind \in Kinds PROVE Plain(kind) \in Records
  BY RecordTyped DEF Plain

LEMMA FormatsTyped ==
    ASSUME NEW s \in Seq(Structs)
    PROVE  /\ FormatsOf(s) \in Seq(Records)
           /\ Len(FormatsOf(s)) = Len(s)
           /\ \A i \in 1 .. Len(s) : FormatsOf(s)[i] = Record("format", s[i], 0, 0)
  <1>1. \A i \in 1 .. Len(s) : s[i] \in Structs
    BY ElementOfSeq
  <1>2. \A i \in 1 .. Len(s) : Record("format", s[i], 0, 0) \in Records
    BY <1>1, RecordTyped DEF Kinds
  <1>3. Len(s) \in Nat
    BY LenProperties
  <1>4. FormatsOf(s) \in [1 .. Len(s) -> Records]
    BY <1>2 DEF FormatsOf
  <1> QED BY <1>3, <1>4 DEF FormatsOf

LEMMA AddsTyped ==
    ASSUME NEW s \in Seq(Structs), NEW n \in Nat
    PROVE  /\ AddsOf(s, n) \in Seq(Records)
           /\ Len(AddsOf(s, n)) = Len(s)
           /\ \A i \in 1 .. Len(s) : AddsOf(s, n)[i] = Record("add", s[i], (n + i - 1) % IdCount, 0)
  <1>1. \A i \in 1 .. Len(s) : s[i] \in Structs
    BY ElementOfSeq
  <1>2. \A k \in Nat : k % IdCount \in Nat
    BY IdsAssumption
  <1>3. \A i \in 1 .. Len(s) : n + i - 1 \in Nat
    OBVIOUS
  <1>4. \A i \in 1 .. Len(s) : Record("add", s[i], (n + i - 1) % IdCount, 0) \in Records
    BY <1>1, <1>2, <1>3, RecordTyped DEF Kinds
  <1>5. Len(s) \in Nat
    BY LenProperties
  <1>6. AddsOf(s, n) \in [1 .. Len(s) -> Records]
    BY <1>4 DEF AddsOf
  <1> QED BY <1>5, <1>6 DEF AddsOf

LEMMA SizesTyped ==
    ASSUME NEW s \in Seq(Structs)
    PROVE  /\ SizesOf(s) \in Seq(Nat)
           /\ Len(SizesOf(s)) = Len(s)
           /\ \A i \in 1 .. Len(s) : SizesOf(s)[i] = MessageSize[s[i]]
  <1>1. \A i \in 1 .. Len(s) : s[i] \in Structs
    BY ElementOfSeq
  <1>2. \A i \in 1 .. Len(s) : MessageSize[s[i]] \in Nat
    BY <1>1, StructsAssumption
  <1>3. Len(s) \in Nat
    BY LenProperties
  <1>4. SizesOf(s) \in [1 .. Len(s) -> Nat]
    BY <1>2 DEF SizesOf
  <1> QED BY <1>3, <1>4 DEF SizesOf

LEMMA RangeTyped == ASSUME NEW S, NEW s \in Seq(S) PROVE RangeOf(s) \subseteq S
  BY ElementOfSeq DEF RangeOf

(* How an Init ends: with everything as it was; with the formats that came  *)
(* before the struct it stopped for, and that one registered if it was too  *)
(* long; or with all structs subscribed.                                    *)
Untouching(c, d) ==
    /\ d.writer = c.writer /\ d.headerComplete = c.headerComplete /\ d.formats = c.formats
    /\ d.subscriptions = c.subscriptions /\ d.idMap = c.idMap /\ d.log = c.log
    /\ d.result \in {Usage, Parsing, Undefined}

Stopping(c, d, s, t) ==
    /\ c.writer # "null" /\ ~ c.headerComplete
    /\ d.writer = c.writer /\ d.headerComplete = c.headerComplete
    /\ d.formats \subseteq (c.formats \union RangeOf(s)) \union ({t} \intersect LongFormats)
    /\ d.subscriptions = c.subscriptions /\ d.idMap = c.idMap
    /\ d.log = (c.log \o <<Plain("info")>>) \o FormatsOf(s)
    /\ d.result \in {Usage, Parsing}

Subscribing(c, d, s) ==
    /\ c.writer # "null" /\ ~ c.headerComplete
    /\ d.writer = "data" /\ d.headerComplete = TRUE
    /\ d.formats = c.formats \union RangeOf(s)
    /\ d.subscriptions = c.subscriptions \o SizesOf(s)
    /\ d.idMap = [t \in RangeOf(s) \union DOMAIN c.idMap |->
                    IF t \in RangeOf(s) THEN IdsOf(s, Len(c.subscriptions))[t] ELSE c.idMap[t]]
    /\ d.log = ((c.log \o <<Plain("info")>>) \o FormatsOf(s)) \o AddsOf(s, Len(c.subscriptions))
    /\ d.result = Ok

LEMMA RegisteredIs ==
    ASSUME NEW c, DOMAIN c = FieldNames, NEW s
    PROVE  LET d == Registered(c, s)
           IN  /\ DOMAIN d = FieldNames
               /\ d.writer = c.writer /\ d.headerComplete = c.headerComplete
               /\ d.formats = c.formats \union RangeOf(s)
               /\ d.subscriptions = c.subscriptions /\ d.idMap = c.idMap
               /\ d.log = (c.log \o <<Plain("info")>>) \o FormatsOf(s)
  BY DEF Registered, FieldNames, FormatsOf

LEMMA SubscribedIs ==
    ASSUME NEW c, DOMAIN c = FieldNames, NEW s
    PROVE  LET d == Subscribed(c, s)
           IN  /\ DOMAIN d = FieldNames
               /\ d.writer = "data" /\ d.headerComplete = TRUE
               /\ d.formats = c.formats
               /\ d.subscriptions = c.subscriptions \o SizesOf(s)
               /\ d.idMap = [t \in RangeOf(s) \union DOMAIN c.idMap |->
                               IF t \in RangeOf(s) THEN IdsOf(s, Len(c.subscriptions))[t]
                                                   ELSE c.idMap[t]]
               /\ d.log = c.log \o AddsOf(s, Len(c.subscriptions))
  <1> DEFINE ids == IdsOf(s, Len(c.subscriptions))
  <1>1. DOMAIN ids = RangeOf(s)
    BY DEF IdsOf
  <1>2. Subscribed(c, s) =
          [c EXCEPT !.writer = "data",
                    !.headerComplete = TRUE,
                    !.subscriptions = @ \o SizesOf(s),
                    !.idMap = [t \in DOMAIN ids \union DOMAIN c.idMap |->
                                 IF t \in DOMAIN ids THEN ids[t] ELSE c.idMap[t]],
                    !.log = @ \o AddsOf(s, Len(c.subscriptions))]
    BY DEF Subscribed, SizesOf, AddsOf, IdsOf
  <1> HIDE DEF ids
  <1>3. Subscribed(c, s) =
          [c EXCEPT !.writer = "data",
                    !.headerComplete = TRUE,
                    !.subscriptions = @ \o SizesOf(s),
                    !.idMap = [t \in RangeOf(s) \union DOMAIN c.idMap |->
                                 IF t \in RangeOf(s) THEN ids[t] ELSE c.idMap[t]],
                    !.log = @ \o AddsOf(s, Len(c.subscriptions))]
    BY <1>1, <1>2
  <1> QED BY <1>3 DEF FieldNames, ids

Ended(c, d, r) ==
    /\ d.writer = c.writer /\ d.headerComplete = c.headerComplete
    /\ d.formats = c.formats /\ d.subscriptions = c.subscriptions
    /\ d.idMap = c.idMap /\ d.log = c.log /\ d.result = r

LEMMA EndsIs ==
    ASSUME NEW c, DOMAIN c = FieldNames, NEW r
    PROVE  Ended(c, Ends(c, r), r)
  BY DEF Ended, Ends, FieldNames

LEMMA RejectedIs ==
    ASSUME NEW c, DOMAIN c = FieldNames, NEW t
    PROVE  LET d == Rejected(c, t)
           IN  /\ d.writer = c.writer /\ d.headerComplete = c.headerComplete
               /\ d.formats \subseteq c.formats \union ({t} \intersect LongFormats)
               /\ d.subscriptions = c.subscriptions /\ d.idMap = c.idMap /\ d.log = c.log
               /\ d.result \in {Usage, Parsing}
  <1> DEFINE d == Rejected(c, t)
             e == [c EXCEPT !.formats = @ \union {t}]
  <1>1. CASE t \in LongFormats \ c.formats
    <2>1. /\ DOMAIN e = FieldNames
          /\ e.writer = c.writer /\ e.headerComplete = c.headerComplete
          /\ e.formats = c.formats \union {t}
          /\ e.subscriptions = c.subscriptions /\ e.idMap = c.idMap /\ e.log = c.log
      BY DEF FieldNames
    <2>2. d = Ends(e, Parsing)
      BY <1>1 DEF Rejected
    <2> HIDE DEF d, e
    <2>3. Ended(e, d, Parsing)
      BY <2>1, <2>2, EndsIs
    <2> QED BY <1>1, <2>1, <2>3 DEF Ended, d
  <1>2. CASE t \notin LongFormats \ c.formats
    <2>1. d = Ends(c, Usage)
      BY <1>2 DEF Rejected
    <2> HIDE DEF d
    <2>2. Ended(c, d, Usage)
      BY <2>1, EndsIs
    <2> QED BY <2>2 DEF Ended, d
  <1> QED BY <1>1, <1>2

(* The first struct that stops an Init. *)
StopOf(c, s) == CHOOSE i \in Stops(c, s) : \A j \in Stops(c, s) : i <= j

LEMMA FirstStop ==
    ASSUME NEW c, NEW s \in Seq(Structs), Stops(c, s) # {}
    PROVE  StopOf(c, s) \in Stops(c, s) /\ StopOf(c, s) \in 1 .. Len(s)
  <1>1. Stops(c, s) \subseteq 1 .. Len(s)
    BY DEF Stops
  <1>2. Len(s) \in Nat
    BY LenProperties
  <1>3. Stops(c, s) \subseteq Nat
    BY <1>1, <1>2
  <1> DEFINE T == Stops(c, s)
  <1> HIDE DEF T
  <1>4. \E x \in T : \A y \in T : x <= y
    BY <1>3, LeastNumber DEF T
  <1>5. (CHOOSE i \in T : \A j \in T : i <= j) \in T
    BY <1>4, Zenon
  <1> QED BY <1>1, <1>5 DEF T, StopOf

LEMMA InitializedIs ==
    ASSUME NEW c, DOMAIN c = FieldNames, NEW key, NEW value, NEW structs \in Seq(Structs)
    PROVE  LET d == Initialized(c, key, value, structs)
           IN  \/ /\ Untouching(c, d)
                  /\ \/ key = "" \/ value = "" \/ c.headerComplete \/ c.writer = "null"
                     \/ <<key, value>> \in LongInfos
               \/ /\ \E n \in Stops(c, structs) :
                       /\ n = StopOf(c, structs)
                       /\ Stopping(c, d, SubSeq(structs, 1, n - 1), structs[n])
                  /\ key # "" /\ value # "" /\ <<key, value>> \notin LongInfos
               \/ /\ Subscribing(c, d, structs)
                  /\ key # "" /\ value # "" /\ <<key, value>> \notin LongInfos
                  /\ Stops(c, structs) = {}
  <1> DEFINE d    == Initialized(c, key, value, structs)
             stop == StopOf(c, structs)
  <1>1. CASE key = "" \/ value = "" \/ c.headerComplete
    <2>1. d = Ends(c, Usage)
      BY <1>1 DEF Initialized
    <2> HIDE DEF d
    <2>2. Untouching(c, d)
      BY <2>1, EndsIs DEF Ended, Untouching
    <2> QED BY <1>1, <2>2 DEF d
  <1>2. CASE ~ (key = "" \/ value = "" \/ c.headerComplete) /\ c.writer = "null"
    <2>1. d = Ends(c, Undefined)
      BY <1>2 DEF Initialized
    <2> HIDE DEF d
    <2>2. Untouching(c, d)
      BY <2>1, EndsIs DEF Ended, Untouching
    <2> QED BY <1>2, <2>2 DEF d
  <1>5. CASE /\ ~ (key = "" \/ value = "" \/ c.headerComplete) /\ c.writer # "null"
             /\ <<key, value>> \in LongInfos
    <2>1. d = Ends(c, Parsing)
      BY <1>5 DEF Initialized
    <2> HIDE DEF d
    <2>2. Untouching(c, d)
      BY <2>1, EndsIs DEF Ended, Untouching
    <2> QED BY <1>5, <2>2 DEF d
  <1>3. CASE /\ ~ (key = "" \/ value = "" \/ c.headerComplete) /\ c.writer # "null"
             /\ <<key, value>> \notin LongInfos /\ Stops(c, structs) = {}
    <2> DEFINE e == Registered(c, structs)
               g == Subscribed(e, structs)
    <2>1. d = Ends(g, Ok)
      BY <1>3 DEF Initialized
    <2>2. /\ DOMAIN e = FieldNames
          /\ e.formats = c.formats \union RangeOf(structs)
          /\ e.subscriptions = c.subscriptions /\ e.idMap = c.idMap
          /\ e.log = (c.log \o <<Plain("info")>>) \o FormatsOf(structs)
      BY RegisteredIs
    <2> HIDE DEF d, e
    <2>3. /\ DOMAIN g = FieldNames
          /\ g.writer = "data" /\ g.headerComplete = TRUE
          /\ g.formats = e.formats
          /\ g.subscriptions = e.subscriptions \o SizesOf(structs)
          /\ g.idMap = [t \in RangeOf(structs) \union DOMAIN e.idMap |->
                          IF t \in RangeOf(structs) THEN IdsOf(structs, Len(e.subscriptions))[t]
                                                    ELSE e.idMap[t]]
          /\ g.log = e.log \o AddsOf(structs, Len(e.subscriptions))
      BY <2>2, SubscribedIs
    <2> HIDE DEF g
    <2>4. Ended(g, d, Ok)
      BY <2>1, <2>3, EndsIs
    <2>5. Subscribing(c, d, structs)
      BY <1>3, <2>2, <2>3, <2>4 DEF Ended, Subscribing
    <2> QED BY <1>3, <2>5 DEF d
  <1>4. CASE /\ ~ (key = "" \/ value = "" \/ c.headerComplete) /\ c.writer # "null"
             /\ <<key, value>> \notin LongInfos /\ Stops(c, structs) # {}
    <2> DEFINE s == SubSeq(structs, 1, stop - 1)
               e == Registered(c, s)
    <2>1. d = Rejected(e, structs[stop])
      BY <1>4 DEF Initialized, StopOf
    <2>2. stop \in Stops(c, structs)
      BY <1>4, FirstStop
    <2> HIDE DEF d, stop
    <2>3. /\ DOMAIN e = FieldNames
          /\ e.writer = c.writer /\ e.headerComplete = c.headerComplete
          /\ e.formats = c.formats \union RangeOf(s)
          /\ e.subscriptions = c.subscriptions /\ e.idMap = c.idMap
          /\ e.log = (c.log \o <<Plain("info")>>) \o FormatsOf(s)
      BY RegisteredIs
    <2> HIDE DEF e, s
    <2>4. /\ d.writer = e.writer /\ d.headerComplete = e.headerComplete
          /\ d.formats \subseteq e.formats \union ({structs[stop]} \intersect LongFormats)
          /\ d.subscriptions = e.subscriptions /\ d.idMap = e.idMap /\ d.log = e.log
          /\ d.result \in {Usage, Parsing}
      BY <2>1, <2>3, RejectedIs
    <2>5. Stopping(c, d, s, structs[stop])
      BY <1>4, <2>3, <2>4 DEF Stopping
    <2> QED BY <1>4, <2>2, <2>5 DEF d, s, stop
  <1> HIDE DEF d
  <1> QED BY <1>1, <1>2, <1>3, <1>4, <1>5 DEF d

-----------------------------------------------------------------------------
(* What an Init leaves has the types of what it found. *)
LEMMA PrefixTyped ==
    ASSUME NEW S, NEW s \in Seq(S), NEW n \in 1 .. Len(s)
    PROVE  SubSeq(s, 1, n - 1) \in Seq(S)
  <1>1. Len(s) \in Nat /\ n - 1 \in Nat /\ n - 1 <= Len(s)
    BY LenProperties
  <1>2. \A i \in 1 .. n - 1 : s[i] \in S
    BY <1>1, ElementOfSeq
  <1> QED BY <1>1, <1>2, SubSeqProperties

LEMMA UntouchingTyped ==
    ASSUME NEW c, NEW d, Typed(c), Untouching(c, d) PROVE Typed(d)
  BY DEF Typed, Untouching, Results

LEMMA HeaderLogTyped ==
    ASSUME NEW f \in Seq(Records), NEW s \in Seq(Structs)
    PROVE  /\ f \o <<Plain("info")>> \in Seq(Records)
           /\ (f \o <<Plain("info")>>) \o FormatsOf(s) \in Seq(Records)
  <1>1. Plain("info") \in Records
    BY PlainTyped DEF Kinds
  <1>2. <<Plain("info")>> \in Seq(Records)
    BY <1>1
  <1>3. f \o <<Plain("info")>> \in Seq(Records)
    BY <1>2, ConcatProperties
  <1>4. FormatsOf(s) \in Seq(Records)
    BY FormatsTyped
  <1> QED BY <1>3, <1>4, ConcatProperties

LEMMA StoppingTyped ==
    ASSUME NEW c, NEW d, NEW s \in Seq(Structs), NEW t, Typed(c), Stopping(c, d, s, t) PROVE Typed(d)
  <1>1. RangeOf(s) \subseteq Structs
    BY RangeTyped
  <1>2. d.log \in Seq(Records)
    BY HeaderLogTyped DEF Typed, Stopping
  <1>3. d.formats \subseteq Structs
    BY <1>1, StructsAssumption DEF Typed, Stopping
  <1> QED BY <1>2, <1>3 DEF Typed, Stopping, Results

LEMMA IdsTyped ==
    ASSUME NEW s \in Seq(Structs), NEW n \in Nat, NEW t \in RangeOf(s)
    PROVE  /\ (CHOOSE i \in DOMAIN s : s[i] = t) \in DOMAIN s
           /\ s[CHOOSE i \in DOMAIN s : s[i] = t] = t
           /\ IdsOf(s, n)[t] = (n + (CHOOSE i \in DOMAIN s : s[i] = t) - 1) % IdCount
           /\ IdsOf(s, n)[t] \in Nat
  <1> DEFINE k == CHOOSE i \in DOMAIN s : s[i] = t
  <1>1. \E i \in DOMAIN s : s[i] = t
    BY DEF RangeOf
  <1>2. k \in DOMAIN s /\ s[k] = t
    BY <1>1, Zenon
  <1>3. IdsOf(s, n)[t] = (n + k - 1) % IdCount
    BY DEF IdsOf
  <1> HIDE DEF k
  <1>4. k \in 1 .. Len(s) /\ Len(s) \in Nat
    BY <1>2, LenProperties
  <1>5. n + k - 1 \in Nat
    BY <1>4
  <1>6. \A m \in Nat : m % IdCount \in Nat
    BY IdsAssumption
  <1>7. (n + k - 1) % IdCount \in Nat
    BY <1>5, <1>6
  <1> QED BY <1>2, <1>3, <1>7 DEF k

LEMMA SubscribingTyped ==
    ASSUME NEW c, NEW d, NEW s \in Seq(Structs), Typed(c), Subscribing(c, d, s) PROVE Typed(d)
  <1> DEFINE n == Len(c.subscriptions)
  <1>1. RangeOf(s) \subseteq Structs
    BY RangeTyped
  <1>2. n \in Nat
    BY LenProperties DEF Typed
  <1>3. d.log \in Seq(Records)
    <2>1. (c.log \o <<Plain("info")>>) \o FormatsOf(s) \in Seq(Records)
      BY HeaderLogTyped DEF Typed
    <2>2. AddsOf(s, n) \in Seq(Records)
      BY <1>2, AddsTyped
    <2>3. ((c.log \o <<Plain("info")>>) \o FormatsOf(s)) \o AddsOf(s, n) \in Seq(Records)
      BY <2>1, <2>2, ConcatProperties
    <2> QED BY <2>3 DEF Subscribing
  <1>4. d.subscriptions \in Seq(Nat)
    <2>1. SizesOf(s) \in Seq(Nat)
      BY SizesTyped
    <2>2. c.subscriptions \o SizesOf(s) \in Seq(Nat)
      BY <2>1, ConcatProperties DEF Typed
    <2> QED BY <2>2 DEF Subscribing
  <1>5. \A t \in RangeOf(s) : IdsOf(s, n)[t] \in Nat
    BY <1>2, IdsTyped
  <1>6. DOMAIN d.idMap \subseteq Structs /\ \A t \in DOMAIN d.idMap : d.idMap[t] \in Nat
    <2>1. /\ DOMAIN d.idMap = RangeOf(s) \union DOMAIN c.idMap
          /\ \A t \in DOMAIN d.idMap :
               d.idMap[t] = IF t \in RangeOf(s) THEN IdsOf(s, n)[t] ELSE c.idMap[t]
      BY DEF Subscribing
    <2> HIDE DEF n
    <2> QED BY <1>1, <1>5, <2>1 DEF Typed
  <1>7. d.formats \subseteq Structs
    BY <1>1 DEF Typed, Subscribing
  <1>8. d.writer \in Stores /\ d.headerComplete \in BOOLEAN /\ d.result \in Results
    BY DEF Subscribing, Stores, Results
  <1> QED BY <1>3, <1>4, <1>6, <1>7, <1>8 DEF Typed

LEMMA InitializedTyped ==
    ASSUME NEW c, DOMAIN c = FieldNames, Typed(c), NEW key, NEW value, NEW structs \in Seq(Structs)
    PROVE  Typed(Initialized(c, key, value, structs))
  <1> DEFINE d == Initialized(c, key, value, structs)
  <1>1. \/ Untouching(c, d)
        \/ \E n \in Stops(c, structs) : Stopping(c, d, SubSeq(structs, 1, n - 1), structs[n])
        \/ Subscribing(c, d, structs)
    BY InitializedIs
  <1> HIDE DEF d
  <1>2. ASSUME NEW n \in Stops(c, structs), Stopping(c, d, SubSeq(structs, 1, n - 1), structs[n])
        PROVE  Typed(d)
    <2>1. n \in 1 .. Len(structs)
      BY DEF Stops
    <2>2. SubSeq(structs, 1, n - 1) \in Seq(Structs)
      BY <2>1, PrefixTyped
    <2> QED BY <1>2, <2>2, StoppingTyped
  <1>3. Typed(d)
    BY <1>1, <1>2, UntouchingTyped, SubscribingTyped
  <1> QED BY <1>3 DEF d

-----------------------------------------------------------------------------
(***************************************************************************)
(* What a step does, whichever call it is: the cases that the invariants   *)
(* below tell apart.                                                       *)
(***************************************************************************)
Elsewhere == UNCHANGED <<currentFileSize, closedLogs, initParams, logged>>

Idles == Elsewhere /\ UNCHANGED <<writer, headerComplete, formats, subscriptions, idMap, log>>

AppendsPlain(kind) ==
    /\ kind \in IF headerComplete THEN {"text", "parameter"} ELSE {"info", "parameter"}
    /\ writer # "null"
    /\ log' = Append(log, Plain(kind))
    /\ Elsewhere
    /\ UNCHANGED <<writer, headerComplete, formats, subscriptions, idMap>>

AppendsFormat(t) ==
    /\ "writeMessageFormat" \in Api
    /\ ~ headerComplete
    /\ formats' = formats \union {t}
    /\ log' = IF writer = "null" \/ t \in LongFormats THEN log
              ELSE Append(log, Record("format", t, 0, 0))
    /\ Elsewhere
    /\ UNCHANGED <<writer, headerComplete, subscriptions, idMap>>

CompletesHeader ==
    /\ "headerComplete" \in Api
    /\ ~ headerComplete /\ writer # "null"
    /\ writer' = "data" /\ headerComplete' = TRUE
    /\ Elsewhere
    /\ UNCHANGED <<formats, subscriptions, idMap, log>>

AppendsAdd(t) ==
    /\ "writeAddLoggedMessage" \in Api
    /\ headerComplete /\ t \in formats
    /\ subscriptions' = Append(subscriptions, MessageSize[t])
    /\ log' = IF t \in LongNames THEN log
              ELSE Append(log, Record("add", t, Len(subscriptions) % IdCount, 0))
    /\ Elsewhere
    /\ UNCHANGED <<writer, headerComplete, formats, idMap>>

(* The checks a piece of data has passed; with Write, its id is the type's. *)
Served(id, t) ==
    /\ headerComplete /\ writer # "null"
    /\ id < Len(subscriptions)
    /\ "writeData" \in Api \/ (t \in DOMAIN idMap /\ id = idMap[t])

(* Data that is too long is counted, and not written. *)
Counts(t) ==
    /\ headerComplete /\ writer # "null" /\ ~ IsFull(t)
    /\ currentFileSize' = currentFileSize + SizeOf[t]
    /\ UNCHANGED <<closedLogs, initParams, logged, log>>
    /\ UNCHANGED <<writer, headerComplete, formats, subscriptions, idMap>>

AppendsData(id, t) ==
    /\ Served(id, t) /\ ~ IsFull(t)
    /\ log' = Append(log, DataRecord(id, t))
    /\ logged' = Append(logged, serial)
    /\ currentFileSize' = currentFileSize + SizeOf[t]
    /\ UNCHANGED <<closedLogs, initParams, writer, headerComplete, formats, subscriptions, idMap>>

Renamed == [initParams EXCEPT !.fileName = NewFilename(initParams.fileName)]
Renames == initParams.fileName # <<>> /\ initParams' = Renamed

GivesUp(t) ==
    /\ headerComplete
    /\ \E x \in {Usage, InvalidArgument, Parsing} : Become(Ends(Cleared, x))
    /\ currentFileSize' = currentFileSize + SizeOf[t]
    /\ closedLogs' = Append(closedLogs, log)
    /\ UNCHANGED initParams \/ Renames
    /\ UNCHANGED logged

NextFile == Initialized(NewFile, initParams.key, initParams.value, initParams.structs)

Wrote(c, id, t) == [c EXCEPT !.log = Append(@, DataRecord(id, t))]

Rotates(id, t) ==
    /\ Served(id, t)
    /\ currentFileSize' = 0
    /\ closedLogs' = Append(closedLogs, log)
    /\ Renames
    /\ \/ /\ NextFile.result = Ok
          /\ Become(Wrote(NextFile, id, t))
          /\ logged' = Append(logged, serial)
       \/ /\ \E r \in Results \ {Ok} : Become(Ends(NextFile, r))
          /\ UNCHANGED logged

Shape ==
    \/ Idles
    \/ \E kind \in Kinds : AppendsPlain(kind)
    \/ \E t \in Structs : AppendsFormat(t)
    \/ CompletesHeader
    \/ \E t \in Structs : AppendsAdd(t)
    \/ \E key \in Keys, value \in Values, structs \in Seq(Structs) : InitLogger(key, value, structs)
    \/ \E t \in Structs : Counts(t)
    \/ \E id \in Nat, t \in Structs : AppendsData(id, t)
    \/ \E t \in Structs : GivesUp(t)
    \/ \E id \in Nat, t \in Structs : Rotates(id, t)

(* A file name that has a version has a next one, with one. *)
LEMMA RenamedTyped ==
    ASSUME ParamsTyped(initParams), initParams.fileName # <<>> PROVE ParamsTyped(Renamed)
  <1> DEFINE name == initParams.fileName
  <1>1. name \in Seq(Parts) /\ Len(name) >= 2 /\ Len(name) \in Nat
    BY LenProperties DEF ParamsTyped, IsValidFilename
  <1>2. /\ Extension \in Parts /\ Text("") \in Parts
        /\ \A n \in Int : Number(n) \in Parts
    <2>1. \A text \in Texts, n \in Int : [text |-> text, number |-> n] \in Parts
      BY DEF Parts
    <2>2. "" \in Texts /\ "ulg" \in Texts
      BY TextsAssumption, Zenon
    <2>3. NotANumber \in Int
      BY DEF NotANumber
    <2> QED BY <2>1, <2>2, <2>3, Zenon DEF Extension, Text, Number
  <1>3. VersionPart(name).number + 1 \in Int
    <2>1. Len(name) - 1 \in 1 .. Len(name)
      BY <1>1
    <2>2. name[Len(name) - 1] \in Parts
      BY <1>1, <2>1, ElementOfSeq
    <2> QED BY <2>2 DEF VersionPart, Parts
  <1>4. NewFilename(name) \in Seq(Parts) /\ IsValidFilename(NewFilename(name))
    <2>1. CASE NoStem(name)
      <3>1. NewFilename(name) = <<Text(""), Number(1), Extension>>
        BY <2>1 DEF NewFilename
      <3>2. 1 \in Int /\ Number(1) \in Parts
        <4>1. 1 \in Int
          OBVIOUS
        <4> QED BY <1>2, <4>1, Zenon
      <3> DEFINE new == <<Text(""), Number(1), Extension>>
      <3>3. ASSUME NEW a \in Parts, NEW b \in Parts, NEW e \in Parts
            PROVE  <<a, b, e>> \in Seq(Parts) /\ Len(<<a, b, e>>) = 3 /\ <<a, b, e>>[3] = e
        OBVIOUS
      <3>4. new \in Seq(Parts) /\ Len(new) = 3 /\ new[3] = Extension
        BY <1>2, <3>2, <3>3, Zenon
      <3> HIDE DEF new
      <3>5. Len(new) >= 2 /\ new[Len(new)] = Extension
        BY <3>4
      <3> QED BY <3>1, <3>4, <3>5 DEF IsValidFilename, new
    <2>2. CASE ~ NoStem(name)
      <3> DEFINE stem == IF Len(name) = 2 THEN name ELSE SubSeq(name, 1, Len(name) - 2)
                 tail == <<Number(VersionPart(name).number + 1), Extension>>
      <3>1. NewFilename(name) = stem \o tail
        BY <2>2 DEF NewFilename
      <3>2. stem \in Seq(Parts)
        <4>1. Len(name) - 1 \in 1 .. Len(name) /\ (Len(name) - 1) - 1 = Len(name) - 2
          BY <1>1
        <4>2. SubSeq(name, 1, Len(name) - 2) \in Seq(Parts)
          BY <1>1, <4>1, PrefixTyped
        <4> QED BY <1>1, <4>2
      <3>3. tail \in Seq(Parts) /\ Len(tail) = 2 /\ tail[2] = Extension
        <4>1. ASSUME NEW a \in Parts, NEW e \in Parts
              PROVE  <<a, e>> \in Seq(Parts) /\ Len(<<a, e>>) = 2 /\ <<a, e>>[2] = e
          OBVIOUS
        <4>2. Number(VersionPart(name).number + 1) \in Parts
          BY <1>2, <1>3
        <4> QED BY <1>2, <4>1, <4>2, Zenon
      <3> HIDE DEF stem, tail
      <3>4. Len(stem) \in Nat
        BY <3>2, LenProperties
      <3>5. /\ stem \o tail \in Seq(Parts)
            /\ Len(stem \o tail) = Len(stem) + 2
            /\ (stem \o tail)[Len(stem) + 2] = tail[2]
        <4>1. /\ stem \o tail \in Seq(Parts)
              /\ Len(stem \o tail) = Len(stem) + Len(tail)
              /\ \A i \in 1 .. Len(stem) + Len(tail) :
                   (stem \o tail)[i] = IF i <= Len(stem) THEN stem[i] ELSE tail[i - Len(stem)]
          BY <3>2, <3>3, ConcatProperties
        <4>2. Len(stem) + 2 \in 1 .. Len(stem) + Len(tail) /\ ~ (Len(stem) + 2 <= Len(stem))
              /\ Len(stem) + 2 - Len(stem) = 2
          BY <3>3, <3>4
        <4> QED BY <3>3, <4>1, <4>2
      <3> QED BY <3>1, <3>3, <3>4, <3>5 DEF IsValidFilename
    <2> QED BY <2>1, <2>2
  <1>5. Renamed.fileName = NewFilename(name) /\ Renamed.key = initParams.key
        /\ Renamed.value = initParams.value /\ Renamed.structs = initParams.structs
        /\ Renamed \in [fileName : Seq(Parts), key : Keys \union {""}, value : Values \union {""},
                        structs : Seq(Structs)]
    BY <1>4 DEF Renamed, ParamsTyped
  <1> QED BY <1>4, <1>5 DEF ParamsTyped

-----------------------------------------------------------------------------
(* Every call is one of the shapes. *)
LEMMA ThrowIdles ==
    ASSUME NEW exception, Throw(exception), UNCHANGED initParams PROVE Idles
  BY DEF Throw, Idles, Elsewhere

LEMMA WriteDataImplShape ==
    ASSUME IInv, TypeInv, NEW id \in Nat, NEW t \in Structs, WriteDataImpl(id, t),
           "writeData" \in Api \/ (t \in DOMAIN idMap /\ id = idMap[t])
    PROVE  Shape
  <1> DEFINE d     == IF NextFile.result = Ok THEN Resumed(NextFile, id, t) ELSE NextFile
             Moves == Become(d) /\ logged' = IF d.result = Ok THEN Append(logged, serial) ELSE logged
  <1> HIDE DEF d, Moves
  <1>1. CASE Throw(Usage) /\ UNCHANGED initParams
    BY <1>1, ThrowIdles DEF Shape
  <1>2. CASE /\ headerComplete /\ ~ (id >= Len(subscriptions)) /\ IsFull(t) /\ Rotate(id, t)
    <2>1. Served(id, t)
      <3>1. writer # "null"
        BY <1>2 DEF IInv, LayersAgree
      <3>2. Len(subscriptions) \in Nat
        BY LenProperties DEF TypeInv, Typed, Fields
      <3>3. id < Len(subscriptions)
        BY <1>2, <3>2
      <3> QED BY <1>2, <3>1, <3>3 DEF Served
    <2>2. CASE Throw(Undefined) /\ UNCHANGED initParams
      BY <2>2, ThrowIdles DEF Shape
    <2>3. ASSUME NEW x \in {Usage, InvalidArgument, Parsing}, GiveUp(x, t),
                 UNCHANGED initParams \/ Renames
          PROVE  Shape
      <3>1. GivesUp(t)
        BY <1>2, <2>3 DEF GivesUp, GiveUp
      <3> QED BY <3>1 DEF Shape
    <2>4. ASSUME Renames, currentFileSize' = 0, closedLogs' = Append(closedLogs, log), Moves
          PROVE  Shape
      <3>1. DOMAIN NextFile = FieldNames /\ NextFile.result \in {Ok, Usage, Parsing}
        BY NewFileSound DEF NextFile
      <3>2. CASE NextFile.result = Ok /\ ~ TooLong(id)
        <4>1. d = Wrote(NextFile, id, t)
          BY <3>2 DEF d, Resumed, Wrote
        <4>2. d.result = Ok
          BY <3>1, <3>2, <4>1 DEF Wrote, FieldNames
        <4>3. Rotates(id, t)
          BY <2>1, <2>4, <3>2, <4>1, <4>2 DEF Moves, Rotates
        <4> QED BY <4>3 DEF Shape
      <3>3. CASE ~ (NextFile.result = Ok /\ ~ TooLong(id))
        <4>1. \E r \in {Usage, Parsing} : d.result = r /\ Become(Ends(NextFile, r))
          <5>1. CASE NextFile.result = Ok
            <6>1. d = Ends(NextFile, Parsing)
              BY <3>3, <5>1 DEF d, Resumed
            <6>2. d.result = Parsing
              BY <3>1, <6>1, EndsFields
            <6> QED BY <2>4, <6>1, <6>2 DEF Moves
          <5>2. CASE NextFile.result # Ok
            <6>1. d = NextFile /\ NextFile.result \in {Usage, Parsing}
              BY <3>1, <5>2 DEF d
            <6>2. Become(Ends(NextFile, NextFile.result))
              BY <2>4, <3>1, <6>1, EndsIs DEF Moves, Ended, Become
            <6> QED BY <6>1, <6>2
          <5> QED BY <5>1, <5>2
        <4>2. \A r \in {Usage, Parsing} : r \in Results \ {Ok}
          BY DEF Results, Ok, Usage, Parsing
        <4>3. (\E r \in Results \ {Ok} : Become(Ends(NextFile, r))) /\ logged' = logged
          BY <2>4, <4>1, <4>2 DEF Moves
        <4>4. Rotates(id, t)
          BY <2>1, <2>4, <4>3 DEF Rotates
        <4> QED BY <4>4 DEF Shape
      <3> QED BY <3>2, <3>3
    <2>5. \/ Throw(Undefined) /\ UNCHANGED initParams
          \/ \E x \in {Usage, InvalidArgument, Parsing} :
               GiveUp(x, t) /\ (UNCHANGED initParams \/ Renames)
          \/ /\ Renames /\ currentFileSize' = 0
             /\ closedLogs' = Append(closedLogs, log)
             /\ Moves
      <3>1. CASE file # "open" /\ Throw(Undefined) /\ UNCHANGED initParams
        BY <3>1
      <3>2. CASE /\ GiveUp(IF initParams.fileName = <<>> THEN Usage ELSE InvalidArgument, t)
                 /\ UNCHANGED initParams
        BY <3>2
      <3>3. CASE GiveUp(Parsing, t) /\ Renames
        BY <3>3
      <3>4. CASE /\ Renames /\ currentFileSize' = 0
                 /\ closedLogs' = Append(closedLogs, log)
                 /\ Moves
        BY <3>4
      <3> QED BY <1>2, <3>1, <3>2, <3>3, <3>4
              DEF Rotate, Renames, Renamed, HasNoNewName, Moves, d, NextFile
    <2> QED BY <2>2, <2>3, <2>4, <2>5
  <1>3. CASE headerComplete /\ ~ (id >= Len(subscriptions)) /\ ~ IsFull(t) /\ AppendData(id, t)
    <2>1. writer # "null"
      BY <1>3 DEF IInv, LayersAgree
    <2>2. Len(subscriptions) \in Nat
      BY LenProperties DEF TypeInv, Typed, Fields
    <2>3. id < Len(subscriptions)
      BY <1>3, <2>2
    <2>4. CASE TooLong(id)
      <3>1. Counts(t)
        BY <1>3, <2>1, <2>4 DEF Counts, AppendData
      <3> QED BY <3>1 DEF Shape
    <2>5. CASE ~ TooLong(id)
      <3>1. AppendsData(id, t)
        BY <1>3, <2>1, <2>3, <2>5 DEF AppendsData, Served, AppendData
      <3> QED BY <3>1 DEF Shape
    <2> QED BY <2>4, <2>5
  <1> QED BY <1>1, <1>2, <1>3 DEF WriteDataImpl

LEMMA StructListsTyped == StructLists \subseteq Seq(Structs)
  <1>1. \A t \in Structs : <<t>> \in Seq(Structs)
    OBVIOUS
  <1>2. ASSUME NEW s \in Structs \X Structs PROVE s \in Seq(Structs)
    <2>1. PICK a \in Structs, b \in Structs : s = <<a, b>>
      OBVIOUS
    <2>2. \A x, y \in Structs : <<x, y>> \in Seq(Structs)
      OBVIOUS
    <2> QED BY <2>1, <2>2, Zenon
  <1>3. <<>> \in Seq(Structs)
    OBVIOUS
  <1> QED BY <1>1, <1>2, <1>3 DEF StructLists

LEMMA NextShape ==
    ASSUME IInv, TypeInv, Next PROVE Shape
  <1>1. ASSUME NEW key \in Keys, NEW value \in Values, NEW structs \in StructLists,
               InitLogger(key, value, structs)
        PROVE  Shape
    BY <1>1, StructListsTyped DEF Shape
  <1>2. ASSUME NEW method, NEW kind \in {"info", "parameter"}, NEW fits,
               WriteHeaderRecord(method, kind, fits)
        PROVE  Shape
    <2>1. CASE headerComplete \/ writer = "null" \/ ~ fits
      BY <1>2, <2>1, ThrowIdles DEF WriteHeaderRecord, Logs, Shape
    <2>2. CASE ~ headerComplete /\ writer # "null" /\ fits
      <3>1. AppendsPlain(kind)
        BY <1>2, <2>2 DEF WriteHeaderRecord, Logs, AppendsPlain, Elsewhere
      <3>2. kind \in Kinds
        BY DEF Kinds
      <3> QED BY <3>1, <3>2 DEF Shape
    <2> QED BY <2>1, <2>2
  <1>3. ASSUME NEW method, NEW kind \in {"text", "parameter"}, NEW fits,
               WriteDataRecord(method, kind, fits)
        PROVE  Shape
    <2>1. CASE ~ headerComplete \/ writer = "null" \/ ~ fits
      BY <1>3, <2>1, ThrowIdles DEF WriteDataRecord, Logs, Shape
    <2>2. CASE headerComplete /\ writer # "null" /\ fits
      <3>1. AppendsPlain(kind)
        BY <1>3, <2>2 DEF WriteDataRecord, Logs, AppendsPlain, Elsewhere
      <3>2. kind \in Kinds
        BY DEF Kinds
      <3> QED BY <3>1, <3>2 DEF Shape
    <2> QED BY <2>1, <2>2
  <1>4. ASSUME NEW t \in Structs, WriteMessageFormat(t) PROVE Shape
    <2>1. CASE headerComplete \/ t \in Refused \union formats
      BY <1>4, <2>1, ThrowIdles DEF WriteMessageFormat, Shape
    <2>2. CASE ~ (headerComplete \/ t \in Refused \union formats)
      <3>1. AppendsFormat(t)
        BY <1>4, <2>2 DEF WriteMessageFormat, Call, AppendsFormat, Elsewhere
      <3> QED BY <3>1 DEF Shape
    <2> QED BY <2>1, <2>2
  <1>5. CASE HeaderComplete
    <2>1. CASE headerComplete \/ writer = "null"
      BY <1>5, <2>1, ThrowIdles DEF HeaderComplete, Shape
    <2>2. CASE ~ headerComplete /\ writer # "null"
      <3>1. CompletesHeader
        BY <1>5, <2>2 DEF HeaderComplete, Call, CompletesHeader, Elsewhere
      <3> QED BY <3>1 DEF Shape
    <2> QED BY <2>1, <2>2
  <1>6. ASSUME NEW t \in Structs, WriteAddLoggedMessage(t) PROVE Shape
    <2>1. CASE ~ headerComplete \/ t \notin formats
      BY <1>6, <2>1, ThrowIdles DEF WriteAddLoggedMessage, Shape
    <2>2. CASE headerComplete /\ t \in formats
      <3>1. AppendsAdd(t)
        BY <1>6, <2>2 DEF WriteAddLoggedMessage, Call, AppendsAdd, Elsewhere
      <3> QED BY <3>1 DEF Shape
    <2> QED BY <2>1, <2>2
  <1>7. ASSUME NEW value \in BOOLEAN, CreateInstanceAgain(value) PROVE Shape
    BY <1>7 DEF CreateInstanceAgain, Shape, Idles, Elsewhere
  <1>8. CASE Fsync
    BY <1>8, ThrowIdles DEF Fsync, Shape
  <1>9. ASSUME NEW id \in 0 .. Len(subscriptions), NEW t \in Structs, WriteData(id, t)
        PROVE  Shape
    <2>1. id \in Nat
      BY LenProperties DEF TypeInv, Typed, Fields
    <2>2. "writeData" \in Api /\ WriteDataImpl(id, t)
      BY <1>9 DEF WriteData, Call
    <2> QED BY <2>1, <2>2, WriteDataImplShape
  <1>10. ASSUME NEW t \in Structs, Write(t) PROVE Shape
    <2>1. CASE (Throw(Usage) \/ Throw(Ok)) /\ UNCHANGED initParams
      BY <2>1, ThrowIdles DEF Shape
    <2>2. CASE t \in DOMAIN idMap /\ WriteDataImpl(idMap[t], t)
      <3>1. idMap[t] \in Nat
        BY <2>2 DEF TypeInv, Typed, Fields
      <3> QED BY <2>2, <3>1, WriteDataImplShape
    <2> QED BY <1>10, <2>1, <2>2 DEF Write
  <1>11. ASSUME NEW fits \in BOOLEAN,
                \/ WriteHeaderRecord("writeInfo", "info", fits)
                \/ WriteHeaderRecord("writeParameter", "parameter", fits)
                \/ WriteDataRecord("writeTextMessage", "text", fits)
                \/ WriteDataRecord("writeParameterChange", "parameter", fits)
         PROVE  Shape
    BY <1>2, <1>3, <1>11
  <1> QED BY <1>1, <1>4, <1>5, <1>6, <1>7, <1>8, <1>9, <1>10, <1>11 DEF Next

-----------------------------------------------------------------------------
LEMMA FieldsAre ==
    /\ DOMAIN Fields = FieldNames
    /\ Fields.writer = writer /\ Fields.headerComplete = headerComplete /\ Fields.formats = formats
    /\ Fields.subscriptions = subscriptions /\ Fields.idMap = idMap /\ Fields.log = log
    /\ Fields.result = Ok
  BY DEF Fields, FieldNames

LEMMA BecomeTyped ==
    ASSUME NEW c, Typed(c), Become(c) PROVE Typed(Fields)'
  BY DEF Typed, Become, Fields, Results

LEMMA NewFileIs ==
    /\ DOMAIN NewFile = FieldNames
    /\ NewFile.writer = "header" /\ NewFile.headerComplete = FALSE /\ NewFile.formats = {}
    /\ NewFile.subscriptions = <<>> /\ NewFile.idMap = <<>> /\ NewFile.log = <<Plain("fileHeader")>>
    /\ NewFile.result = Ok
  BY DEF NewFile, Cleared, FieldNames

LEMMA ClearedIs ==
    ASSUME NEW x
    PROVE  LET c == Ends(Cleared, x)
           IN  /\ c.writer = "null" /\ c.headerComplete = FALSE /\ c.formats = {}
               /\ c.subscriptions = <<>> /\ c.idMap = <<>> /\ c.log = <<>> /\ c.result = x
  BY DEF Cleared, Ends

LEMMA EmptyTyped ==
    /\ <<>> \in Seq(Nat) /\ <<>> \in Seq(Records) /\ DOMAIN <<>> = {} /\ Len(<<>>) = 0
    /\ <<Plain("fileHeader")>> \in Seq(Records)
  <1>1. Plain("fileHeader") \in Records
    BY PlainTyped DEF Kinds
  <1>2. \A r \in Records : <<r>> \in Seq(Records)
    OBVIOUS
  <1>3. <<>> \in Seq(Nat) /\ <<>> \in Seq(Records) /\ DOMAIN <<>> = {} /\ Len(<<>>) = 0
    OBVIOUS
  <1> QED BY <1>1, <1>2, <1>3

LEMMA NewFileTyped == Typed(NewFile)
  BY NewFileIs, EmptyTyped DEF Typed, Stores, Results

LEMMA ClearedTyped ==
    ASSUME NEW x \in {Usage, InvalidArgument, Parsing} PROVE Typed(Ends(Cleared, x))
  <1> DEFINE c == Ends(Cleared, x)
  <1>1. /\ c.writer = "null" /\ c.headerComplete = FALSE /\ c.formats = {}
        /\ c.subscriptions = <<>> /\ c.idMap = <<>> /\ c.log = <<>> /\ c.result = x
    BY ClearedIs
  <1>2. x \in Results
    BY DEF Results
  <1> HIDE DEF c
  <1>3. Typed(c)
    BY <1>1, <1>2, EmptyTyped DEF Typed, Stores
  <1> QED BY <1>3 DEF c

LEMMA AppendTyped ==
    ASSUME NEW S, NEW f \in Seq(S), NEW r \in S
    PROVE  /\ Append(f, r) \in Seq(S)
           /\ Len(Append(f, r)) = Len(f) + 1 /\ Len(f) \in Nat
           /\ \A i \in 1 .. Len(f) : Append(f, r)[i] = f[i]
           /\ Append(f, r)[Len(f) + 1] = r
  OBVIOUS

LEMMA DataTyped ==
    ASSUME NEW id \in Nat, NEW t \in Structs, serial \in Nat PROVE DataRecord(id, t) \in Records
  BY RecordTyped DEF DataRecord, Kinds

LEMMA WroteTyped ==
    ASSUME NEW c, DOMAIN c = FieldNames, Typed(c), NEW id \in Nat, NEW t \in Structs, serial \in Nat
    PROVE  Typed(Wrote(c, id, t))
  <1> DEFINE d == Wrote(c, id, t)
  <1>1. /\ d.writer = c.writer /\ d.headerComplete = c.headerComplete /\ d.formats = c.formats
        /\ d.subscriptions = c.subscriptions /\ d.idMap = c.idMap /\ d.result = c.result
        /\ d.log = Append(c.log, DataRecord(id, t))
    BY DEF Wrote, FieldNames
  <1>2. Append(c.log, DataRecord(id, t)) \in Seq(Records)
    BY DataTyped, AppendTyped DEF Typed
  <1> HIDE DEF d
  <1>3. Typed(d)
    BY <1>1, <1>2 DEF Typed
  <1> QED BY <1>3 DEF d

LEMMA EndsTyped ==
    ASSUME NEW c, DOMAIN c = FieldNames, Typed(c), NEW r \in Results PROVE Typed(Ends(c, r))
  <1>1. Ended(c, Ends(c, r), r)
    BY EndsIs
  <1> QED BY <1>1 DEF Ended, Typed

LEMMA NextFileTyped ==
    ASSUME ParamsTyped(initParams) PROVE Typed(NextFile) /\ DOMAIN NextFile = FieldNames
  <1>1. initParams.structs \in Seq(Structs)
    BY DEF ParamsTyped
  <1> QED BY <1>1, NewFileIs, NewFileTyped, InitializedTyped, InitializedDomain DEF NextFile

-----------------------------------------------------------------------------
LEMMA InitTypeInv == Init => TypeInv
  <1> SUFFICES ASSUME Init PROVE TypeInv
    OBVIOUS
  <1>1. PICK c \in Constructors, name \in Names :
          /\ c = "CreateInstance" => IsValidFilename(name)
          /\ file = IF c = "callback" THEN "null" ELSE "open"
          /\ initParams = [fileName |-> IF c = "CreateInstance" THEN name ELSE <<>>,
                           key |-> "", value |-> "", structs |-> <<>>]
    BY DEF Init
  <1>2. ParamsTyped(initParams)
    <2>1. name \in Seq(Parts) /\ <<>> \in Seq(Parts) /\ <<>> \in Seq(Structs)
      BY NamesAssumption
    <2>2. "" \in Keys \union {""} /\ "" \in Values \union {""}
      OBVIOUS
    <2>3. (IF c = "CreateInstance" THEN name ELSE <<>>) \in Seq(Parts)
      BY <2>1
    <2>4. initParams.fileName = (IF c = "CreateInstance" THEN name ELSE <<>>)
      BY <1>1
    <2>5. initParams \in [fileName : Seq(Parts), key : Keys \union {""}, value : Values \union {""},
                          structs : Seq(Structs)]
      BY <1>1, <2>1, <2>2, <2>3
    <2>6. initParams.fileName # <<>> => IsValidFilename(initParams.fileName)
      BY <1>1, <2>4
    <2> QED BY <2>5, <2>6 DEF ParamsTyped
  <1>3. Typed(Fields)
    <2>1. /\ writer = "header" /\ headerComplete = FALSE /\ formats = {} /\ subscriptions = <<>>
          /\ idMap = <<>> /\ log = <<Plain("fileHeader")>>
      BY DEF Init
    <2> QED BY <2>1, FieldsAre, EmptyTyped DEF Typed, Stores, Results
  <1>4. /\ file \in {"null", "open", "closed"} /\ on \in BOOLEAN /\ currentFileSize \in Nat
        /\ serial \in 0 .. MaxCalls /\ result \in Results
    <2>1. file \in {"null", "open", "closed"} /\ on \in BOOLEAN
      BY <1>1 DEF Init
    <2>2. currentFileSize = 0 /\ serial = 0 /\ result = Ok
      BY DEF Init
    <2>3. 0 \in 0 .. MaxCalls
      BY CallsAssumption
    <2> QED BY <2>1, <2>2, <2>3 DEF Results
  <1>5. closedLogs \in Seq(Seq(Records)) /\ logged \in Seq(Nat) /\ Len(logged) <= serial
    <2>1. <<>> \in Seq(Seq(Records)) /\ <<>> \in Seq(Nat) /\ Len(<<>>) = 0
      OBVIOUS
    <2>2. closedLogs = <<>> /\ logged = <<>> /\ serial = 0
      BY DEF Init
    <2>3. Len(logged) = 0
      BY <2>1, <2>2, Zenon
    <2> QED BY <2>1, <2>2, <2>3
  <1> QED BY <1>2, <1>3, <1>4, <1>5 DEF TypeInv

(* Whatever is called, it is a call, and ends as calls end. *)
LEMMA NextCalls ==
    ASSUME TypeInv, Next
    PROVE  /\ serial < MaxCalls /\ serial' = serial + 1
           /\ result' \in Results
           /\ on' \in BOOLEAN
           /\ file' \in {"null", "open", "closed"}
  <1> DEFINE Tame == result' \in Results /\ on' \in BOOLEAN /\ file' \in {"null", "open", "closed"}
  <1>1. Ok \in Results /\ Usage \in Results /\ Parsing \in Results /\ InvalidArgument \in Results
        /\ Undefined \in Results
    BY DEF Results
  <1>2. file \in {"null", "open", "closed"} /\ on \in BOOLEAN
    BY DEF TypeInv
  <1>3. ASSUME NEW x \in Results, Throw(x), UNCHANGED on PROVE Tame
    BY <1>2, <1>3 DEF Throw
  <1>4. ASSUME NEW r, NEW fits, Logs(r, fits), UNCHANGED on PROVE Tame
    BY <1>1, <1>2, <1>3, <1>4 DEF Logs
  <1>5. ASSUME NEW key \in Keys, NEW value \in Values, NEW structs \in StructLists,
               InitLogger(key, value, structs)
        PROVE  Tame
    <2>1. Typed(Initialized(Fields, key, value, structs))
      BY FieldsAre, InitializedTyped, StructListsTyped DEF TypeInv
    <2> QED BY <1>2, <1>5, <2>1 DEF InitLogger, Become, Typed
  <1>6. ASSUME NEW id, NEW t \in Structs, WriteDataImpl(id, t), UNCHANGED on PROVE Tame
    <2>1. ASSUME NEW x \in Results, GiveUp(x, t) PROVE result' = x
      BY <2>1, ClearedIs DEF GiveUp, Become
    <2>2. ASSUME Rotate(id, t) PROVE Tame
      <3>1. Typed(NextFile) /\ DOMAIN NextFile = FieldNames
        BY NextFileTyped DEF TypeInv
      <3>2. Resumed(NextFile, id, t).result \in {Parsing, NextFile.result}
        BY <3>1, ResumedFields
      <3>3. Become(Resumed(NextFile, id, t)) \/ Become(NextFile) => result' \in Results
        BY <1>1, <3>1, <3>2 DEF Become, Typed
      <3>4. CASE file # "open" /\ Throw(Undefined)
        BY <1>1, <1>3, <1>6, <3>4
      <3>5. CASE file' = "closed" /\ GiveUp(IF initParams.fileName = <<>> THEN Usage ELSE InvalidArgument, t)
        BY <1>1, <1>2, <1>6, <2>1, <3>5
      <3>6. CASE file' = "null" /\ GiveUp(Parsing, t)
        BY <1>1, <1>2, <1>6, <2>1, <3>6
      <3>7. CASE file' = "open" /\ (Become(Resumed(NextFile, id, t)) \/ Become(NextFile))
        BY <1>2, <1>6, <3>3, <3>7
      <3> QED BY <2>2, <3>4, <3>5, <3>6, <3>7 DEF Rotate, NextFile
    <2>3. ASSUME AppendData(id, t) PROVE Tame
      BY <1>1, <1>2, <1>3, <1>6, <2>3 DEF AppendData
    <2> QED BY <1>1, <1>3, <1>6, <2>2, <2>3 DEF WriteDataImpl
  <1>7. ASSUME NEW t \in Structs, Write(t) PROVE Tame
    BY <1>1, <1>3, <1>6, <1>7 DEF Write
  <1>8. ASSUME NEW method, NEW kind, NEW fits,
               WriteHeaderRecord(method, kind, fits) \/ WriteDataRecord(method, kind, fits)
        PROVE  Tame
    BY <1>1, <1>3, <1>4, <1>8 DEF WriteHeaderRecord, WriteDataRecord
  <1>9. ASSUME NEW t \in Structs, WriteMessageFormat(t) \/ WriteAddLoggedMessage(t) PROVE Tame
    BY <1>1, <1>2, <1>3, <1>9 DEF WriteMessageFormat, WriteAddLoggedMessage
  <1>10. ASSUME HeaderComplete PROVE Tame
    <2>1. UNCHANGED on /\ (Throw(Usage) \/ Throw(Undefined) \/ (result' = Ok /\ UNCHANGED file))
      BY <1>10 DEF HeaderComplete
    <2> QED BY <1>1, <1>2, <1>3, <2>1
  <1>11. ASSUME Fsync PROVE Tame
    <2>1. UNCHANGED on /\ (Throw(Undefined) \/ Throw(Ok))
      BY <1>11 DEF Fsync
    <2> QED BY <1>1, <1>3, <2>1
  <1>12. ASSUME NEW value \in BOOLEAN, CreateInstanceAgain(value) PROVE Tame
    BY <1>1, <1>2, <1>12 DEF CreateInstanceAgain
  <1>13. ASSUME NEW id, NEW t \in Structs, WriteData(id, t) PROVE Tame
    BY <1>6, <1>13 DEF WriteData
  <1>14. serial < MaxCalls /\ serial' = serial + 1
    BY DEF Next, Call, InitLogger, WriteHeaderRecord, WriteDataRecord, WriteMessageFormat,
           HeaderComplete, WriteAddLoggedMessage, CreateInstanceAgain, Fsync, WriteData, Write
  <1> HIDE DEF Tame
  <1>15. Tame
    <2>1. ASSUME NEW fits \in BOOLEAN,
                 \/ WriteHeaderRecord("writeInfo", "info", fits)
                 \/ WriteHeaderRecord("writeParameter", "parameter", fits)
                 \/ WriteDataRecord("writeTextMessage", "text", fits)
                 \/ WriteDataRecord("writeParameterChange", "parameter", fits)
          PROVE  Tame
      BY <1>8, <2>1
    <2> QED BY <1>5, <1>7, <1>9, <1>10, <1>11, <1>12, <1>13, <2>1 DEF Next
  <1> QED BY <1>14, <1>15 DEF Tame

LEMMA NextTypeInv ==
    ASSUME IInv, TypeInv, Next PROVE TypeInv'
  <1>1. serial' \in 0 .. MaxCalls /\ serial \in Nat /\ serial' = serial + 1
    BY NextCalls, CallsAssumption DEF TypeInv
  <1>2. result' \in Results /\ on' \in BOOLEAN /\ file' \in {"null", "open", "closed"}
    BY NextCalls
  <1> DEFINE Rest == /\ currentFileSize' \in Nat /\ ParamsTyped(initParams)'
                     /\ closedLogs' \in Seq(Seq(Records))
                     /\ logged' \in Seq(Nat) /\ Len(logged') <= serial'
  <1>3. logged' = logged => logged' \in Seq(Nat) /\ Len(logged') <= serial'
    <2>1. Len(logged) \in Nat /\ Len(logged) <= serial /\ logged \in Seq(Nat)
      BY LenProperties DEF TypeInv
    <2>2. Len(logged) <= serial'
      BY <1>1, <2>1
    <2> QED BY <2>1, <2>2
  <1>4. logged' = Append(logged, serial) => logged' \in Seq(Nat) /\ Len(logged') <= serial'
    <2>1. Len(logged) \in Nat /\ Len(logged) <= serial /\ logged \in Seq(Nat)
      BY LenProperties DEF TypeInv
    <2>2. Append(logged, serial) \in Seq(Nat) /\ Len(Append(logged, serial)) = Len(logged) + 1
      BY <1>1, <2>1, AppendTyped
    <2>3. Len(logged) + 1 <= serial'
      BY <1>1, <2>1
    <2> QED BY <2>2, <2>3
  <1>5. Append(closedLogs, log) \in Seq(Seq(Records))
    BY AppendTyped DEF TypeInv, Typed, Fields
  <1>6. ASSUME Elsewhere PROVE Rest
    BY <1>3, <1>6 DEF Elsewhere, TypeInv, ParamsTyped
  <1>7. ASSUME NEW t \in Structs PROVE currentFileSize + SizeOf[t] \in Nat
    <2>1. currentFileSize \in Nat /\ SizeOf[t] \in Nat
      BY StructsAssumption DEF TypeInv
    <2> QED BY <2>1
  <1>9. CASE Idles
    <2>1. Typed(Fields)'
      BY <1>9 DEF Idles, TypeInv, Typed, Fields
    <2> QED BY <1>1, <1>2, <1>6, <1>9, <2>1 DEF TypeInv, Idles
  <1>10. ASSUME NEW kind \in Kinds, AppendsPlain(kind) PROVE TypeInv'
    <2>1. Append(log, Plain(kind)) \in Seq(Records)
      BY PlainTyped, AppendTyped DEF TypeInv, Typed, Fields
    <2>2. Typed(Fields)'
      BY <1>10, <2>1 DEF AppendsPlain, TypeInv, Typed, Fields
    <2> QED BY <1>1, <1>2, <1>6, <1>10, <2>2 DEF TypeInv, AppendsPlain
  <1>11. ASSUME NEW t \in Structs, AppendsFormat(t) PROVE TypeInv'
    <2>1. Record("format", t, 0, 0) \in Records
      BY RecordTyped DEF Kinds
    <2>2. Append(log, Record("format", t, 0, 0)) \in Seq(Records) /\ log \in Seq(Records)
      BY <2>1, AppendTyped DEF TypeInv, Typed, Fields
    <2>3. log' \in Seq(Records)
      BY <1>11, <2>2 DEF AppendsFormat
    <2>4. Typed(Fields)'
      BY <1>11, <2>3 DEF AppendsFormat, TypeInv, Typed, Fields
    <2> QED BY <1>1, <1>2, <1>6, <1>11, <2>4 DEF TypeInv, AppendsFormat
  <1>12. CASE CompletesHeader
    <2>1. Typed(Fields)'
      BY <1>12 DEF CompletesHeader, TypeInv, Typed, Fields, Stores
    <2> QED BY <1>1, <1>2, <1>6, <1>12, <2>1 DEF TypeInv, CompletesHeader
  <1>13. ASSUME NEW t \in Structs, AppendsAdd(t) PROVE TypeInv'
    <2>1. Len(subscriptions) % IdCount \in Nat
      <3>1. \A n \in Nat : n % IdCount \in Nat
        BY IdsAssumption
      <3>2. Len(subscriptions) \in Nat
        BY LenProperties DEF TypeInv, Typed, Fields
      <3> QED BY <3>1, <3>2
    <2>2. Record("add", t, Len(subscriptions) % IdCount, 0) \in Records
      BY <2>1, RecordTyped DEF Kinds
    <2>3. log' \in Seq(Records)
      <3> DEFINE r == Record("add", t, Len(subscriptions) % IdCount, 0)
      <3>1. r \in Records /\ log \in Seq(Records)
        BY <2>2 DEF TypeInv, Typed, Fields
      <3>2. log' = log \/ log' = Append(log, r)
        BY <1>13 DEF AppendsAdd
      <3> HIDE DEF r
      <3> QED BY <3>1, <3>2, AppendTyped
    <2>4. subscriptions' \in Seq(Nat)
      BY <1>13, StructsAssumption, AppendTyped DEF TypeInv, Typed, Fields, AppendsAdd
    <2>5. Typed(Fields)'
      BY <1>13, <2>3, <2>4 DEF AppendsAdd, TypeInv, Typed, Fields
    <2> QED BY <1>1, <1>2, <1>6, <1>13, <2>5 DEF TypeInv, AppendsAdd
  <1>14. ASSUME NEW key \in Keys, NEW value \in Values, NEW structs \in Seq(Structs),
                InitLogger(key, value, structs)
         PROVE  TypeInv'
    <2> DEFINE d == Initialized(Fields, key, value, structs)
    <2>1. Typed(d) /\ Become(d)
      BY <1>14, FieldsAre, InitializedTyped DEF TypeInv, InitLogger
    <2> HIDE DEF d
    <2>2. Typed(Fields)'
      BY <2>1, BecomeTyped
    <2>3. Cached(key, value, structs) \in Seq(Structs)
      <3> DEFINE stop == StopOf(Fields, structs)
      <3>1. Stops(Fields, structs) # {} => stop \in 1 .. Len(structs)
        BY FirstStop
      <3>2. Cached(key, value, structs) =
                              IF headerComplete \/ writer = "null" \/ <<key, value>> \in LongInfos
                              THEN <<>>
                              ELSE IF Stops(Fields, structs) = {} THEN structs
                              ELSE IF structs[stop] \in Nameless THEN SubSeq(structs, 1, stop - 1)
                              ELSE SubSeq(structs, 1, stop)
        BY DEF Cached, StopOf
      <3> HIDE DEF stop
      <3>3. stop \in 1 .. Len(structs) => /\ SubSeq(structs, 1, stop - 1) \in Seq(Structs)
                                          /\ SubSeq(structs, 1, stop) \in Seq(Structs)
        <4> SUFFICES ASSUME stop \in 1 .. Len(structs)
                     PROVE  /\ SubSeq(structs, 1, stop - 1) \in Seq(Structs)
                            /\ SubSeq(structs, 1, stop) \in Seq(Structs)
          OBVIOUS
        <4>1. \A i \in 1 .. stop : structs[i] \in Structs
          BY ElementOfSeq, LenProperties
        <4>2. stop \in Nat /\ stop <= Len(structs) /\ Len(structs) \in Nat
          BY LenProperties
        <4> QED BY <4>1, <4>2, PrefixTyped, SubSeqProperties
      <3>4. <<>> \in Seq(Structs)
        OBVIOUS
      <3> QED BY <3>1, <3>2, <3>3, <3>4
    <2>4. ParamsTyped(initParams)'
      <3>1. initParams.structs \o Cached(key, value, structs) \in Seq(Structs)
        BY <2>3, ConcatProperties DEF TypeInv, ParamsTyped
      <3>2. initParams' = initParams
            \/ initParams' = [initParams EXCEPT !.key = key, !.value = value,
                                                !.structs = @ \o Cached(key, value, structs)]
        BY <1>14 DEF InitLogger
      <3> QED BY <3>1, <3>2 DEF TypeInv, ParamsTyped
    <2>5. Rest
      BY <1>3, <1>14, <2>4 DEF InitLogger, TypeInv
    <2> QED BY <1>1, <1>2, <2>2, <2>5 DEF TypeInv
  <1>15. ASSUME NEW id \in Nat, NEW t \in Structs, AppendsData(id, t) PROVE TypeInv'
    <2>1. log' \in Seq(Records)
      BY <1>1, <1>15, DataTyped, AppendTyped DEF TypeInv, Typed, Fields, AppendsData
    <2>2. Typed(Fields)'
      BY <1>15, <2>1 DEF AppendsData, TypeInv, Typed, Fields
    <2>3. Rest
      BY <1>4, <1>7, <1>15 DEF AppendsData, TypeInv, ParamsTyped
    <2> QED BY <1>1, <1>2, <2>2, <2>3 DEF TypeInv
  <1>16. ASSUME NEW t \in Structs, GivesUp(t) PROVE TypeInv'
    <2>1. PICK x \in {Usage, InvalidArgument, Parsing} : Become(Ends(Cleared, x))
      BY <1>16 DEF GivesUp
    <2>2. Typed(Fields)'
      BY <2>1, ClearedTyped, BecomeTyped
    <2>3. ParamsTyped(initParams)'
      BY <1>16, RenamedTyped DEF GivesUp, Renames, TypeInv, ParamsTyped
    <2>4. Rest
      BY <1>3, <1>5, <1>7, <1>16, <2>3 DEF GivesUp
    <2> QED BY <1>1, <1>2, <2>2, <2>4 DEF TypeInv
  <1>17. ASSUME NEW id \in Nat, NEW t \in Structs, Rotates(id, t) PROVE TypeInv'
    <2>1. Typed(NextFile) /\ DOMAIN NextFile = FieldNames
      BY NextFileTyped DEF TypeInv
    <2>2. Typed(Wrote(NextFile, id, t)) /\ \A r \in Results : Typed(Ends(NextFile, r))
      BY <1>1, <2>1, WroteTyped, EndsTyped
    <2>3. Typed(Fields)'
      BY <1>17, <2>1, <2>2, BecomeTyped DEF Rotates
    <2>4. ParamsTyped(initParams)'
      BY <1>17, RenamedTyped DEF Rotates, Renames, TypeInv
    <2>5. Rest
      BY <1>3, <1>4, <1>5, <1>17, <2>4 DEF Rotates
    <2> QED BY <1>1, <1>2, <2>3, <2>5 DEF TypeInv
  <1>19. ASSUME NEW t \in Structs, Counts(t) PROVE TypeInv'
    <2>1. Typed(Fields)'
      BY <1>19 DEF Counts, TypeInv, Typed, Fields
    <2>2. Rest
      BY <1>3, <1>7, <1>19 DEF Counts, TypeInv, ParamsTyped
    <2> QED BY <1>1, <1>2, <2>1, <2>2 DEF TypeInv
  <1>18. Shape
    BY NextShape
  <1> QED BY <1>9, <1>10, <1>11, <1>12, <1>13, <1>14, <1>15, <1>16, <1>17, <1>18, <1>19 DEF Shape

LEMMA TypesKept == Spec => []TypeInv
  <1>1. IInv /\ TypeInv /\ [Next]_vars => TypeInv'
    <2> SUFFICES ASSUME IInv, TypeInv, [Next]_vars PROVE TypeInv'
      OBVIOUS
    <2>1. CASE UNCHANGED vars
      BY <2>1 DEF vars, TypeInv, Typed, Fields, ParamsTyped
    <2> QED BY <2>1, NextTypeInv
  <1> QED BY <1>1, InitTypeInv, Invariant, PTL DEF Spec

(* The types of all variables. Of the file names: a name that is rotated    *)
(* keeps the extension without which the next rotation would fail.          *)
THEOREM TypeCorrect == Spec => []TypeOK
  <1>1. TypeInv => TypeOK
    BY DEF TypeInv, Typed, Fields, ParamsTyped, TypeOK
  <1> QED BY <1>1, TypesKept, PTL

-----------------------------------------------------------------------------
(***************************************************************************)
(* The inductive invariant of the files. That a file which goes on can be  *)
(* read takes what the logger remembers of it: before headerComplete it    *)
(* holds nothing of the data section and nothing is subscribed, and every  *)
(* name in _formats, the one thing writeAddLoggedMessage asks, is in the   *)
(* current file, but for those whose format is too long.                   *)
(***************************************************************************)
InHeader(f) == \A i \in 1 .. Len(f) : f[i].kind \notin {"add", "data", "text"}

Defines(f, t) == \E i \in 1 .. Len(f) : f[i] = Record("format", t, 0, 0)

Consistent(c) ==
    /\ c.writer = "null" => c.log = <<>>
    /\ c.writer # "null" => c.log # <<>> /\ \A t \in c.formats \ LongFormats : Defines(c.log, t)
    /\ ~ c.headerComplete => c.subscriptions = <<>> /\ InHeader(c.log)
    /\ Readable(c.log)

FilesInv == Consistent(Fields) /\ \A f \in RangeOf(closedLogs) : Readable(f)

(* A file can be read with more behind it if that is no file header,        *)
(* belongs to the header only where the file is still in it, and subscribes *)
(* what the file defines.                                                   *)
LEMMA ReadableConcat ==
    ASSUME NEW f \in Seq(Records), NEW g \in Seq(Records), Readable(f), f # <<>>,
           \A j \in 1 .. Len(g) : g[j].kind # "fileHeader",
           \A j \in 1 .. Len(g) : g[j].kind \in {"format", "info"} => InHeader(f) /\ InHeader(g),
           \A j \in 1 .. Len(g) : g[j].kind = "add" => g[j].type \in LongFormats \/ Defines(f, g[j].type)
    PROVE  Readable(f \o g) /\ f \o g # <<>>
  <1> DEFINE h == f \o g
             m == Len(f)
             n == Len(g)
  <1>1. m \in Nat /\ n \in Nat /\ m # 0
    BY LenProperties, EmptySeq
  <1>2. /\ h \in Seq(Records) /\ Len(h) = m + n
        /\ \A i \in 1 .. m + n : h[i] = IF i <= m THEN f[i] ELSE g[i - m]
    BY ConcatProperties
  <1>3. \A i \in 1 .. m : i \in 1 .. m + n /\ h[i] = f[i]
    BY <1>1, <1>2
  <1>4. \A i \in 1 .. m + n : ~ (i \in 1 .. m) => i - m \in 1 .. n /\ h[i] = g[i - m]
    BY <1>1, <1>2
  <1> HIDE DEF h
  <1>5. h # <<>> /\ h[1] = Plain("fileHeader")
    <2>1. h # <<>>
      BY <1>1, <1>2, EmptySeq
    <2>2. f[1] = Plain("fileHeader")
      BY DEF Readable
    <2>3. 1 \in 1 .. m
      BY <1>1
    <2> QED BY <1>3, <2>1, <2>2, <2>3
  <1>6. ASSUME NEW i \in 1 .. Len(h), NEW j \in 1 .. Len(h), i < j
        PROVE  /\ h[j].kind # "fileHeader"
               /\ h[j].kind \in {"format", "info"} => h[i].kind \notin {"add", "data", "text"}
    <2>1. CASE j \in 1 .. m
      <3>1. i \in 1 .. m
        BY <1>1, <1>2, <1>6, <2>1
      <3>2. h[i] = f[i] /\ h[j] = f[j]
        BY <1>3, <2>1, <3>1
      <3> QED BY <1>6, <2>1, <3>1, <3>2 DEF Readable
    <2>2. CASE ~ (j \in 1 .. m)
      <3>1. j - m \in 1 .. n /\ h[j] = g[j - m]
        BY <1>2, <1>4, <2>2
      <3>2. CASE i \in 1 .. m
        <4>1. h[i] = f[i]
          BY <1>3, <3>2
        <4> QED BY <3>1, <3>2, <4>1 DEF InHeader
      <3>3. CASE ~ (i \in 1 .. m)
        <4>1. i - m \in 1 .. n /\ h[i] = g[i - m]
          BY <1>2, <1>4, <3>3
        <4> QED BY <3>1, <4>1 DEF InHeader
      <3> QED BY <3>2, <3>3
    <2> QED BY <2>1, <2>2
  <1>7. ASSUME NEW j \in 1 .. Len(h), h[j].kind = "add", h[j].type \notin LongFormats
        PROVE  \E i \in 1 .. j - 1 : h[i] = Record("format", h[j].type, 0, 0)
    <2>1. CASE j \in 1 .. m
      <3>1. h[j] = f[j]
        BY <1>3, <2>1
      <3>2. PICK i \in 1 .. j - 1 : f[i] = Record("format", f[j].type, 0, 0)
        BY <1>7, <2>1, <3>1 DEF Readable, Defined
      <3>3. i \in 1 .. m
        BY <1>1, <2>1
      <3> QED BY <1>3, <3>1, <3>2, <3>3
    <2>2. CASE ~ (j \in 1 .. m)
      <3>1. j - m \in 1 .. n /\ h[j] = g[j - m]
        BY <1>2, <1>4, <2>2
      <3>2. PICK i \in 1 .. m : f[i] = Record("format", h[j].type, 0, 0)
        BY <1>7, <3>1 DEF Defines
      <3>3. i \in 1 .. j - 1
        BY <1>1, <1>2, <2>2
      <3> QED BY <1>3, <3>2, <3>3
    <2> QED BY <2>1, <2>2
  <1>8. Readable(h)
    BY <1>5, <1>6, <1>7 DEF Readable, Defined
  <1> QED BY <1>5, <1>8 DEF h

LEMMA InHeaderConcat ==
    ASSUME NEW f \in Seq(Records), NEW g \in Seq(Records), InHeader(f), InHeader(g)
    PROVE  InHeader(f \o g)
  <1>1. Len(f) \in Nat /\ Len(g) \in Nat
    BY LenProperties
  <1>2. /\ Len(f \o g) = Len(f) + Len(g)
        /\ \A i \in 1 .. Len(f) + Len(g) : (f \o g)[i] = IF i <= Len(f) THEN f[i] ELSE g[i - Len(f)]
    BY ConcatProperties
  <1>3. ASSUME NEW i \in 1 .. Len(f) + Len(g) PROVE (f \o g)[i].kind \notin {"add", "data", "text"}
    <2>1. CASE i \in 1 .. Len(f)
      <3>1. (f \o g)[i] = f[i]
        BY <1>1, <1>2, <2>1
      <3> QED BY <2>1, <3>1 DEF InHeader
    <2>2. CASE ~ (i \in 1 .. Len(f))
      <3>1. i - Len(f) \in 1 .. Len(g) /\ (f \o g)[i] = g[i - Len(f)]
        BY <1>1, <1>2, <2>2
      <3> QED BY <3>1 DEF InHeader
    <2> QED BY <2>1, <2>2
  <1> QED BY <1>2, <1>3 DEF InHeader

LEMMA DefinesConcat ==
    ASSUME NEW f \in Seq(Records), NEW g \in Seq(Records), NEW t, Defines(f, t) \/ Defines(g, t)
    PROVE  Defines(f \o g, t)
  <1>1. Len(f) \in Nat /\ Len(g) \in Nat
    BY LenProperties
  <1>2. /\ Len(f \o g) = Len(f) + Len(g)
        /\ \A i \in 1 .. Len(f) + Len(g) : (f \o g)[i] = IF i <= Len(f) THEN f[i] ELSE g[i - Len(f)]
    BY ConcatProperties
  <1>3. ASSUME NEW i \in 1 .. Len(f) PROVE i \in 1 .. Len(f \o g) /\ (f \o g)[i] = f[i]
    BY <1>1, <1>2
  <1>4. ASSUME NEW i \in 1 .. Len(g)
        PROVE  i + Len(f) \in 1 .. Len(f \o g) /\ (f \o g)[i + Len(f)] = g[i]
    <2>1. i + Len(f) \in 1 .. Len(f) + Len(g) /\ ~ (i + Len(f) <= Len(f)) /\ i + Len(f) - Len(f) = i
      BY <1>1
    <2> QED BY <1>2, <2>1
  <1> QED BY <1>3, <1>4 DEF Defines

LEMMA OneRecord ==
    ASSUME NEW r \in Records
    PROVE  /\ <<r>> \in Seq(Records) /\ Len(<<r>>) = 1 /\ \A i \in 1 .. 1 : <<r>>[i] = r
           /\ r.kind \notin {"add", "data", "text"} => InHeader(<<r>>)
  <1>1. <<r>> \in Seq(Records) /\ Len(<<r>>) = 1 /\ \A i \in 1 .. 1 : <<r>>[i] = r
    OBVIOUS
  <1> QED BY <1>1 DEF InHeader

LEMMA ReadableAppend ==
    ASSUME NEW f \in Seq(Records), NEW r \in Records, Readable(f), f # <<>>,
           r.kind # "fileHeader",
           r.kind \in {"format", "info"} => InHeader(f),
           r.kind = "add" => r.type \in LongFormats \/ Defines(f, r.type)
    PROVE  /\ Readable(Append(f, r)) /\ Append(f, r) # <<>>
           /\ \A t : Defines(f, t) => Defines(Append(f, r), t)
           /\ InHeader(f) /\ r.kind \notin {"add", "data", "text"} => InHeader(Append(f, r))
  <1> DEFINE g == <<r>>
  <1>1. g \in Seq(Records) /\ Len(g) = 1 /\ \A i \in 1 .. 1 : g[i] = r
    BY OneRecord
  <1>2. r.kind \notin {"add", "data", "text"} => InHeader(g)
    BY OneRecord
  <1>3. Append(f, r) = f \o g
    BY AppendIsConcat
  <1> HIDE DEF g
  <1>4. r.kind \in {"format", "info"} => r.kind \notin {"add", "data", "text"}
    OBVIOUS
  <1>5. Readable(f \o g) /\ f \o g # <<>>
    <2>1. \A j \in 1 .. Len(g) : g[j] = r
      BY <1>1
    <2>2. \A j \in 1 .. Len(g) : g[j].kind # "fileHeader"
      BY <2>1
    <2>3. \A j \in 1 .. Len(g) : g[j].kind \in {"format", "info"} => InHeader(f) /\ InHeader(g)
      BY <1>2, <1>4, <2>1
    <2>4. \A j \in 1 .. Len(g) : g[j].kind = "add" => g[j].type \in LongFormats \/ Defines(f, g[j].type)
      BY <2>1
    <2> QED BY <1>1, <2>2, <2>3, <2>4, ReadableConcat
  <1>6. \A t : Defines(f, t) => Defines(f \o g, t)
    BY <1>1, DefinesConcat
  <1>7. InHeader(f) /\ r.kind \notin {"add", "data", "text"} => InHeader(f \o g)
    BY <1>1, <1>2, InHeaderConcat
  <1> QED BY <1>3, <1>5, <1>6, <1>7

(* The key-value info and the formats of an Init. *)
LEMMA HeaderLog ==
    ASSUME NEW f \in Seq(Records), NEW s \in Seq(Structs), Readable(f), f # <<>>, InHeader(f)
    PROVE  LET h == (f \o <<Plain("info")>>) \o FormatsOf(s)
           IN  /\ Readable(h) /\ h # <<>> /\ InHeader(h)
               /\ \A t : Defines(f, t) \/ t \in RangeOf(s) => Defines(h, t)
  <1> DEFINE info == <<Plain("info")>>
             g    == f \o info
             fs   == FormatsOf(s)
  <1>1. Plain("info") \in Records /\ Plain("info").kind = "info"
    BY PlainTyped DEF Kinds, Plain, Record
  <1>2. info \in Seq(Records) /\ Append(f, Plain("info")) = g
    BY <1>1, OneRecord, AppendIsConcat
  <1>3. g \in Seq(Records)
    BY <1>2, ConcatProperties
  <1>4. Readable(g) /\ g # <<>> /\ InHeader(g) /\ \A t : Defines(f, t) => Defines(g, t)
    BY <1>1, <1>2, ReadableAppend
  <1> HIDE DEF info, g
  <1>5. fs \in Seq(Records) /\ Len(fs) = Len(s)
        /\ \A i \in 1 .. Len(s) : fs[i] = Record("format", s[i], 0, 0)
    BY FormatsTyped
  <1> HIDE DEF fs
  <1>6. \A i \in 1 .. Len(fs) : fs[i].kind = "format"
    BY <1>5, RecordFields
  <1>7. InHeader(fs)
    BY <1>6 DEF InHeader
  <1>8. Readable(g \o fs) /\ g \o fs # <<>>
    BY <1>3, <1>4, <1>5, <1>6, <1>7, ReadableConcat
  <1>9. InHeader(g \o fs)
    BY <1>3, <1>4, <1>5, <1>7, InHeaderConcat
  <1>10. ASSUME NEW t, Defines(f, t) \/ t \in RangeOf(s) PROVE Defines(g \o fs, t)
    <2>1. CASE Defines(f, t)
      BY <1>3, <1>4, <1>5, <2>1, DefinesConcat
    <2>2. CASE t \in RangeOf(s)
      <3>1. PICK i \in 1 .. Len(s) : s[i] = t
        BY <2>2, LenProperties DEF RangeOf
      <3>2. Defines(fs, t)
        BY <1>5, <3>1 DEF Defines
      <3> QED BY <1>3, <1>5, <3>2, DefinesConcat
    <2> QED BY <1>10, <2>1, <2>2
  <1> QED BY <1>8, <1>9, <1>10 DEF g, info, fs

LEMMA StoppingConsistent ==
    ASSUME NEW c, NEW d, NEW s \in Seq(Structs), NEW t, Typed(c), Consistent(c), Stopping(c, d, s, t)
    PROVE  Consistent(d)
  <1>1. c.log \in Seq(Records) /\ Readable(c.log) /\ c.log # <<>> /\ InHeader(c.log)
        /\ c.subscriptions = <<>> /\ \A x \in c.formats \ LongFormats : Defines(c.log, x)
    BY DEF Typed, Consistent, Stopping
  <1> DEFINE h == (c.log \o <<Plain("info")>>) \o FormatsOf(s)
  <1>2. /\ Readable(h) /\ h # <<>> /\ InHeader(h)
        /\ \A x : Defines(c.log, x) \/ x \in RangeOf(s) => Defines(h, x)
    BY <1>1, HeaderLog
  <1>3. d.log = h /\ d.writer # "null" /\ d.subscriptions = <<>>
        /\ d.formats \subseteq (c.formats \union RangeOf(s)) \union LongFormats
    BY <1>1 DEF Stopping
  <1> HIDE DEF h
  <1> QED BY <1>1, <1>2, <1>3 DEF Consistent

LEMMA SubscribingConsistent ==
    ASSUME NEW c, NEW d, NEW s \in Seq(Structs), Typed(c), Consistent(c), Subscribing(c, d, s)
    PROVE  Consistent(d)
  <1>1. c.log \in Seq(Records) /\ Readable(c.log) /\ c.log # <<>> /\ InHeader(c.log)
        /\ c.subscriptions = <<>> /\ \A t \in c.formats \ LongFormats : Defines(c.log, t)
    BY DEF Typed, Consistent, Subscribing
  <1> DEFINE h  == (c.log \o <<Plain("info")>>) \o FormatsOf(s)
             as == AddsOf(s, Len(c.subscriptions))
  <1>2. h \in Seq(Records)
    BY <1>1, HeaderLogTyped
  <1>3. /\ Readable(h) /\ h # <<>> /\ InHeader(h)
        /\ \A t : Defines(c.log, t) \/ t \in RangeOf(s) => Defines(h, t)
    BY <1>1, HeaderLog
  <1>4. /\ d.log = h \o as /\ d.writer = "data" /\ d.headerComplete = TRUE
        /\ d.formats = c.formats \union RangeOf(s)
    BY DEF Subscribing
  <1> HIDE DEF h
  <1>5. as \in Seq(Records) /\ Len(as) = Len(s)
        /\ \A i \in 1 .. Len(s) : as[i].kind = "add" /\ as[i].type = s[i]
    <2>1. Len(c.subscriptions) \in Nat
      BY LenProperties DEF Typed
    <2>2. as \in Seq(Records) /\ Len(as) = Len(s)
          /\ \A i \in 1 .. Len(s) :
               as[i] = Record("add", s[i], (Len(c.subscriptions) + i - 1) % IdCount, 0)
      BY <2>1, AddsTyped
    <2> HIDE DEF as
    <2>3. ASSUME NEW i \in 1 .. Len(s) PROVE as[i].kind = "add" /\ as[i].type = s[i]
      <3>1. as[i] = Record("add", s[i], (Len(c.subscriptions) + i - 1) % IdCount, 0)
        BY <2>2
      <3>2. \A m : Record("add", s[i], m, 0).kind = "add" /\ Record("add", s[i], m, 0).type = s[i]
        BY RecordFields
      <3> QED BY <3>1, <3>2
    <2> QED BY <2>2, <2>3
  <1> HIDE DEF as
  <1>6. \A i \in 1 .. Len(as) : s[i] \in RangeOf(s)
    BY <1>5, LenProperties DEF RangeOf
  <1>7. Readable(h \o as) /\ h \o as # <<>>
    BY <1>2, <1>3, <1>5, <1>6, ReadableConcat
  <1>8. \A t \in d.formats \ LongFormats : Defines(h \o as, t)
    BY <1>1, <1>2, <1>3, <1>4, <1>5, DefinesConcat
  <1> QED BY <1>4, <1>7, <1>8 DEF Consistent

LEMMA InitializedConsistent ==
    ASSUME NEW c, DOMAIN c = FieldNames, Typed(c), Consistent(c),
           NEW key, NEW value, NEW structs \in Seq(Structs)
    PROVE  Consistent(Initialized(c, key, value, structs))
  <1> DEFINE d == Initialized(c, key, value, structs)
  <1>1. \/ Untouching(c, d)
        \/ \E n \in Stops(c, structs) : Stopping(c, d, SubSeq(structs, 1, n - 1), structs[n])
        \/ Subscribing(c, d, structs)
    BY InitializedIs
  <1> HIDE DEF d
  <1>2. ASSUME NEW n \in Stops(c, structs), Stopping(c, d, SubSeq(structs, 1, n - 1), structs[n])
        PROVE  Consistent(d)
    <2>1. n \in 1 .. Len(structs)
      BY DEF Stops
    <2>2. SubSeq(structs, 1, n - 1) \in Seq(Structs)
      BY <2>1, PrefixTyped
    <2> QED BY <1>2, <2>2, StoppingConsistent
  <1>3. ASSUME Untouching(c, d) PROVE Consistent(d)
    BY <1>3 DEF Untouching, Consistent
  <1>4. Consistent(d)
    BY <1>1, <1>2, <1>3, SubscribingConsistent
  <1> QED BY <1>4 DEF d

-----------------------------------------------------------------------------
LEMMA RangeAppend ==
    ASSUME NEW S, NEW s \in Seq(S), NEW x \in S PROVE RangeOf(Append(s, x)) = RangeOf(s) \union {x}
  <1>1. /\ Append(s, x) \in Seq(S) /\ Len(Append(s, x)) = Len(s) + 1 /\ Len(s) \in Nat
        /\ \A i \in 1 .. Len(s) : Append(s, x)[i] = s[i]
        /\ Append(s, x)[Len(s) + 1] = x
    BY AppendTyped
  <1>2. DOMAIN s = 1 .. Len(s) /\ DOMAIN Append(s, x) = 1 .. Len(s) + 1
    BY <1>1, LenProperties
  <1>3. 1 .. Len(s) + 1 = 1 .. Len(s) \union {Len(s) + 1}
    BY <1>1
  <1> QED BY <1>1, <1>2, <1>3 DEF RangeOf

LEMMA BecomeConsistent ==
    ASSUME NEW c, Consistent(c), Become(c) PROVE Consistent(Fields)'
  BY DEF Consistent, Become, Fields

LEMMA NewFileConsistent == Consistent(NewFile)
  <1>1. Plain("fileHeader") \in Records /\ Plain("fileHeader").kind = "fileHeader"
    BY PlainTyped, RecordFields DEF Kinds, Plain
  <1> DEFINE f == <<Plain("fileHeader")>>
  <1>2. Len(f) = 1 /\ f # <<>> /\ f[1] = Plain("fileHeader")
    OBVIOUS
  <1> HIDE DEF f
  <1>3. \A i \in 1 .. Len(f) : i = 1
    BY <1>2
  <1>4. Readable(f) /\ InHeader(f)
    BY <1>1, <1>2, <1>3 DEF Readable, InHeader
  <1>5. NewFile.log = f
    BY NewFileIs DEF f
  <1> QED BY <1>2, <1>4, <1>5, NewFileIs DEF Consistent

LEMMA EmptyReadable == Readable(<<>>) /\ InHeader(<<>>)
  <1>1. Len(<<>>) = 0
    OBVIOUS
  <1>2. \A i \in 1 .. Len(<<>>) : FALSE
    BY <1>1
  <1> QED BY <1>2 DEF Readable, InHeader

LEMMA WroteConsistent ==
    ASSUME NEW c, DOMAIN c = FieldNames, Typed(c), Consistent(c), NEW id \in Nat, NEW t \in Structs,
           serial \in Nat, c.headerComplete, c.writer # "null"
    PROVE  Consistent(Wrote(c, id, t))
  <1> DEFINE d == Wrote(c, id, t)
  <1>1. /\ d.writer = c.writer /\ d.headerComplete = c.headerComplete /\ d.formats = c.formats
        /\ d.subscriptions = c.subscriptions /\ d.log = Append(c.log, DataRecord(id, t))
    BY DEF Wrote, FieldNames
  <1>2. DataRecord(id, t) \in Records /\ DataRecord(id, t).kind = "data"
    BY DataTyped, RecordFields DEF DataRecord
  <1>3. /\ Readable(d.log) /\ d.log # <<>>
        /\ \A x \in c.formats \ LongFormats : Defines(d.log, x)
    BY <1>1, <1>2, ReadableAppend DEF Typed, Consistent
  <1> HIDE DEF d
  <1>4. Consistent(d)
    BY <1>1, <1>3 DEF Consistent
  <1> QED BY <1>4 DEF d

LEMMA EndsConsistent ==
    ASSUME NEW c, DOMAIN c = FieldNames, Consistent(c), NEW r PROVE Consistent(Ends(c, r))
  <1>1. Ended(c, Ends(c, r), r)
    BY EndsIs
  <1> QED BY <1>1 DEF Ended, Consistent

LEMMA RotatesTo ==
    ASSUME ParamsTyped(initParams), NEW id, NEW t, Rotates(id, t)
    PROVE  /\ writer' = NextFile.writer /\ headerComplete' = NextFile.headerComplete
           /\ formats' = NextFile.formats /\ idMap' = NextFile.idMap
           /\ \/ /\ NextFile.result = Ok /\ result' = Ok
                 /\ log' = Append(NextFile.log, DataRecord(id, t)) /\ logged' = Append(logged, serial)
              \/ result' # Ok /\ log' = NextFile.log /\ logged' = logged
  <1>1. DOMAIN NextFile = FieldNames
    BY NextFileTyped
  <1>2. CASE /\ NextFile.result = Ok
             /\ Become(Wrote(NextFile, id, t)) /\ logged' = Append(logged, serial)
    BY <1>1, <1>2 DEF Wrote, Become, FieldNames
  <1>3. ASSUME NEW r \in Results \ {Ok}, Become(Ends(NextFile, r)), logged' = logged
        PROVE  /\ writer' = NextFile.writer /\ headerComplete' = NextFile.headerComplete
               /\ formats' = NextFile.formats /\ idMap' = NextFile.idMap
               /\ result' # Ok /\ log' = NextFile.log /\ logged' = logged
    <2>1. Ended(NextFile, Ends(NextFile, r), r)
      BY <1>1, EndsIs
    <2> QED BY <1>3, <2>1 DEF Ended, Become
  <1> QED BY <1>2, <1>3 DEF Rotates

LEMMA NextFileConsistent == ASSUME ParamsTyped(initParams) PROVE Consistent(NextFile)
  <1>1. initParams.structs \in Seq(Structs)
    BY DEF ParamsTyped
  <1> QED BY <1>1, NewFileIs, NewFileTyped, NewFileConsistent, InitializedConsistent DEF NextFile

LEMMA NextFileOk ==
    ASSUME ParamsTyped(initParams), NextFile.result = Ok
    PROVE  /\ Subscribing(NewFile, NextFile, initParams.structs)
           /\ Stops(NewFile, initParams.structs) = {}
           /\ initParams.key # "" /\ initParams.value # ""
  <1>1. initParams.structs \in Seq(Structs)
    BY DEF ParamsTyped
  <1>2. \/ Untouching(NewFile, NextFile)
        \/ \E n \in Stops(NewFile, initParams.structs) :
             Stopping(NewFile, NextFile, SubSeq(initParams.structs, 1, n - 1), initParams.structs[n])
        \/ /\ Subscribing(NewFile, NextFile, initParams.structs)
           /\ initParams.key # "" /\ initParams.value # "" /\ Stops(NewFile, initParams.structs) = {}
    BY <1>1, NewFileIs, InitializedIs DEF NextFile
  <1>3. Ok \notin {Usage, Parsing, Undefined}
    BY DEF Ok, Usage, Parsing, Undefined
  <1> QED BY <1>2, <1>3 DEF Untouching, Stopping

LEMMA InitFilesInv == Init => FilesInv
  <1> SUFFICES ASSUME Init PROVE FilesInv
    OBVIOUS
  <1>1. /\ writer = "header" /\ headerComplete = FALSE /\ formats = {} /\ subscriptions = <<>>
        /\ log = <<Plain("fileHeader")>> /\ closedLogs = <<>>
    BY DEF Init
  <1>2. Consistent(Fields)
    BY <1>1, FieldsAre, NewFileIs, NewFileConsistent DEF Consistent
  <1>3. RangeOf(<<>>) = {}
    BY DEF RangeOf
  <1> QED BY <1>1, <1>2, <1>3 DEF FilesInv

(* A record behind the current file, with everything else of the logger,    *)
(* or all but the subscriptions, as it was.                                 *)
LEMMA AppendKeeps ==
    ASSUME TypeInv, FilesInv, NEW r \in Records, writer # "null",
           r.kind # "fileHeader",
           headerComplete => r.kind \notin {"format", "info"},
           ~ headerComplete => r.kind \notin {"add", "data", "text"},
           r.kind = "add" => r.type \in formats,
           log' = Append(log, r), UNCHANGED <<writer, headerComplete, formats, closedLogs>>,
           headerComplete \/ UNCHANGED subscriptions
    PROVE  FilesInv'
  <1>1. log \in Seq(Records) /\ Readable(log) /\ log # <<>>
        /\ (\A t \in formats \ LongFormats : Defines(log, t))
        /\ (~ headerComplete => subscriptions = <<>> /\ InHeader(log))
    BY FieldsAre DEF TypeInv, Typed, FilesInv, Consistent
  <1>2. /\ Readable(Append(log, r)) /\ Append(log, r) # <<>>
        /\ \A t : Defines(log, t) => Defines(Append(log, r), t)
        /\ InHeader(log) /\ r.kind \notin {"add", "data", "text"} => InHeader(Append(log, r))
    BY <1>1, ReadableAppend
  <1>3. Consistent(Fields)'
    BY <1>1, <1>2 DEF Consistent, Fields
  <1> QED BY <1>3 DEF FilesInv

LEMMA NextFilesInv ==
    ASSUME IInv, TypeInv, FilesInv, Next PROVE FilesInv'
  <1>1. CASE Idles
    BY <1>1 DEF Idles, Elsewhere, FilesInv, Consistent, Fields
  <1>2. ASSUME NEW kind \in Kinds, AppendsPlain(kind) PROVE FilesInv'
    <2>1. Plain(kind) \in Records /\ Plain(kind).kind = kind
      BY PlainTyped, RecordFields DEF Plain
    <2> QED BY <1>2, <2>1, AppendKeeps DEF AppendsPlain, Elsewhere
  <1>3. ASSUME NEW t \in Structs, AppendsFormat(t) PROVE FilesInv'
    <2> DEFINE r == Record("format", t, 0, 0)
    <2>1. r \in Records /\ r.kind = "format"
      BY RecordTyped, RecordFields DEF Kinds
    <2>2. CASE writer = "null" \/ t \in LongFormats
      BY <1>3, <2>2 DEF AppendsFormat, Elsewhere, FilesInv, Consistent, Fields
    <2>3. CASE writer # "null" /\ t \notin LongFormats
      <3>1. /\ log' = Append(log, r) /\ formats' = formats \union {t} /\ ~ headerComplete
            /\ UNCHANGED <<writer, headerComplete, subscriptions, closedLogs>>
        BY <1>3, <2>3 DEF AppendsFormat, Elsewhere
      <3>2. log \in Seq(Records) /\ Readable(log) /\ log # <<>>
            /\ (\A x \in formats \ LongFormats : Defines(log, x)) /\ subscriptions = <<>> /\ InHeader(log)
        BY <2>3, <3>1, FieldsAre DEF TypeInv, Typed, FilesInv, Consistent
      <3>3. /\ Readable(Append(log, r)) /\ Append(log, r) # <<>> /\ InHeader(Append(log, r))
            /\ \A x : Defines(log, x) => Defines(Append(log, r), x)
        BY <2>1, <3>2, ReadableAppend
      <3>4. Defines(Append(log, r), t)
        <4>1. Len(log) + 1 \in 1 .. Len(Append(log, r)) /\ Append(log, r)[Len(log) + 1] = r
          BY <2>1, <3>2, AppendTyped
        <4> QED BY <4>1 DEF Defines
      <3>5. Consistent(Fields)'
        BY <2>3, <3>1, <3>2, <3>3, <3>4 DEF Consistent, Fields
      <3> QED BY <3>1, <3>5 DEF FilesInv
    <2> QED BY <2>2, <2>3
  <1>4. CASE CompletesHeader
    BY <1>4 DEF CompletesHeader, Elsewhere, FilesInv, Consistent, Fields
  <1>5. ASSUME NEW t \in Structs, AppendsAdd(t) PROVE FilesInv'
    <2> DEFINE r == Record("add", t, Len(subscriptions) % IdCount, 0)
    <2>1. r.kind = "add" /\ r.type = t
      BY RecordFields
    <2>2. r \in Records
      <3>1. \A n \in Nat : n % IdCount \in Nat
        BY IdsAssumption
      <3>2. Len(subscriptions) \in Nat
        BY LenProperties DEF TypeInv, Typed, Fields
      <3> QED BY <3>1, <3>2, RecordTyped DEF Kinds
    <2>3. writer # "null"
      BY <1>5 DEF AppendsAdd, IInv, LayersAgree
    <2>4. log' = (IF t \in LongNames THEN log ELSE Append(log, r)) /\ headerComplete /\ t \in formats
          /\ UNCHANGED <<writer, headerComplete, formats, closedLogs>>
      BY <1>5 DEF AppendsAdd, Elsewhere
    <2> HIDE DEF r
    <2>5. CASE t \in LongNames
      BY <2>4, <2>5 DEF FilesInv, Consistent, Fields
    <2>6. CASE t \notin LongNames
      BY <2>1, <2>2, <2>3, <2>4, <2>6, AppendKeeps
    <2> QED BY <2>5, <2>6
  <1>6. ASSUME NEW key \in Keys, NEW value \in Values, NEW structs \in Seq(Structs),
               InitLogger(key, value, structs)
        PROVE  FilesInv'
    <2> DEFINE d == Initialized(Fields, key, value, structs)
    <2>1. Consistent(d)
      BY FieldsAre, InitializedConsistent DEF TypeInv, FilesInv
    <2>2. Become(d) /\ closedLogs' = closedLogs
      BY <1>6 DEF InitLogger
    <2> HIDE DEF d
    <2>3. Consistent(Fields)'
      BY <2>1, <2>2, BecomeConsistent
    <2> QED BY <2>2, <2>3 DEF FilesInv
  <1>7. ASSUME NEW id \in Nat, NEW t \in Structs, AppendsData(id, t) PROVE FilesInv'
    <2>1. serial \in Nat
      BY CallsAssumption DEF TypeInv
    <2>2. DataRecord(id, t) \in Records /\ DataRecord(id, t).kind = "data"
      BY <2>1, DataTyped, RecordFields DEF DataRecord
    <2> QED BY <1>7, <2>2, AppendKeeps DEF AppendsData, Served
  <1>8. log \in Seq(Records) /\ closedLogs \in Seq(Seq(Records)) /\ Readable(log)
    BY FieldsAre DEF TypeInv, Typed, FilesInv, Consistent
  <1>9. closedLogs' = Append(closedLogs, log) => \A f \in RangeOf(closedLogs') : Readable(f)
    BY <1>8, RangeAppend DEF FilesInv
  <1>10. ASSUME NEW t \in Structs, GivesUp(t) PROVE FilesInv'
    <2>1. PICK x \in {Usage, InvalidArgument, Parsing} : Become(Ends(Cleared, x))
      BY <1>10 DEF GivesUp
    <2> DEFINE c == Ends(Cleared, x)
    <2>2. /\ c.writer = "null" /\ c.headerComplete = FALSE /\ c.formats = {}
          /\ c.subscriptions = <<>> /\ c.log = <<>>
      BY ClearedIs
    <2> HIDE DEF c
    <2>3. Consistent(c)
      BY <2>2, EmptyReadable DEF Consistent
    <2>4. Consistent(Fields)'
      BY <2>1, <2>3, BecomeConsistent DEF c
    <2> QED BY <1>9, <1>10, <2>4 DEF GivesUp, FilesInv
  <1>11. ASSUME NEW id \in Nat, NEW t \in Structs, Rotates(id, t) PROVE FilesInv'
    <2>1. Typed(NextFile) /\ DOMAIN NextFile = FieldNames /\ Consistent(NextFile)
      BY NextFileTyped, NextFileConsistent DEF TypeInv
    <2>2. NextFile.result = Ok => Consistent(Wrote(NextFile, id, t))
      <3>1. NextFile.result = Ok => NextFile.headerComplete /\ NextFile.writer = "data"
        BY NextFileOk DEF TypeInv, Subscribing
      <3>2. serial \in Nat
        BY CallsAssumption DEF TypeInv
      <3> QED BY <2>1, <3>1, <3>2, WroteConsistent
    <2>3. \A r : Consistent(Ends(NextFile, r))
      BY <2>1, EndsConsistent
    <2>4. Consistent(Fields)'
      BY <1>11, <2>2, <2>3, BecomeConsistent DEF Rotates
    <2> QED BY <1>9, <1>11, <2>4 DEF Rotates, FilesInv
  <1>13. ASSUME NEW t \in Structs, Counts(t) PROVE FilesInv'
    BY <1>13 DEF Counts, FilesInv, Consistent, Fields
  <1>12. Shape
    BY NextShape
  <1> QED BY <1>1, <1>2, <1>3, <1>4, <1>5, <1>6, <1>7, <1>10, <1>11, <1>12, <1>13 DEF Shape

LEMMA FilesKept == Spec => []FilesInv
  <1>1. IInv /\ TypeInv /\ FilesInv /\ [Next]_vars => FilesInv'
    <2> SUFFICES ASSUME IInv, TypeInv, FilesInv, [Next]_vars PROVE FilesInv'
      OBVIOUS
    <2>1. CASE UNCHANGED vars
      BY <2>1 DEF vars, FilesInv, Consistent, Fields
    <2> QED BY <2>1, NextFilesInv
  <1> QED BY <1>1, InitFilesInv, TypesKept, Invariant, PTL DEF Spec

(* Every file, the current one and those before it, has what a reader needs *)
(* of it in the order it needs it: also those a rotation or an Init left    *)
(* half way, and whatever methods are called in between.                    *)
THEOREM FilesCanBeRead == Spec => []FilesAreReadable
  <1>1. TypeInv /\ FilesInv => FilesAreReadable
    <2> SUFFICES ASSUME TypeInv, FilesInv PROVE FilesAreReadable
      OBVIOUS
    <2>1. RangeOf(Append(closedLogs, log)) = RangeOf(closedLogs) \union {log}
      BY RangeAppend, FieldsAre DEF TypeInv, Typed
    <2>2. Readable(log)
      BY FieldsAre DEF FilesInv, Consistent
    <2> QED BY <2>1, <2>2 DEF FilesInv, FilesAreReadable
  <1> QED BY <1>1, FilesKept, TypesKept, PTL

-----------------------------------------------------------------------------
(***************************************************************************)
(* The ids that Write looks up. They are handed out as uint16_t, so this   *)
(* needs types that are not more than the ids: of more, two would share an *)
(* id, and the subscription of one would be the other's.                   *)
(***************************************************************************)
FewTypes == IsFiniteSet(Structs) /\ Cardinality(Structs) <= IdCount

IdsIn(c) ==
    \A t \in DOMAIN c.idMap :
      c.idMap[t] < Len(c.subscriptions) /\ c.subscriptions[c.idMap[t] + 1] = MessageSize[t]

(* A list that Init accepts names no type twice. *)
LEMMA AcceptedListIsShort ==
    ASSUME FewTypes, NEW c, NEW s \in Seq(Structs), Stops(c, s) = {}
    PROVE  Len(s) <= IdCount
  <1>1. Len(s) \in Nat /\ s \in [1 .. Len(s) -> Structs]
    BY LenProperties
  <1>2. ASSUME NEW i \in 1 .. Len(s), NEW j \in 1 .. Len(s), j < i PROVE s[i] # s[j]
    <2>1. i \notin Stops(c, s)
      OBVIOUS
    <2>2. s[i] \notin {s[k] : k \in 1 .. i - 1}
      BY <2>1 DEF Stops
    <2>3. j \in 1 .. i - 1
      BY <1>1, <1>2
    <2> QED BY <2>2, <2>3
  <1>3. \A i, j \in 1 .. Len(s) : s[i] = s[j] => i = j
    BY <1>1, <1>2
  <1>4. s \in Injection(1 .. Len(s), Structs)
    BY <1>1, <1>3 DEF Injection, IsInjective
  <1>5. Cardinality(1 .. Len(s)) <= Cardinality(Structs)
    BY <1>4, FS_Injection DEF FewTypes
  <1>6. Cardinality(1 .. Len(s)) = Len(s)
    <2>1. /\ 1 \in Int /\ Len(s) \in Int
      BY <1>1
    <2>2. Cardinality(1 .. Len(s)) = IF 1 > Len(s) THEN 0 ELSE Len(s) - 1 + 1
      BY <2>1, FS_Interval
    <2> QED BY <1>1, <2>2
  <1>7. Cardinality(Structs) \in Nat /\ IdCount \in Nat
    BY FS_CardinalityType, IdsAssumption DEF FewTypes
  <1> QED BY <1>1, <1>5, <1>6, <1>7 DEF FewTypes

(* Of a list that is not longer than that, the place is the id. *)
LEMMA IdIsPlace ==
    ASSUME NEW s \in Seq(Structs), Len(s) <= IdCount, NEW t \in RangeOf(s)
    PROVE  /\ IdsOf(s, 0)[t] \in Nat /\ IdsOf(s, 0)[t] < Len(s)
           /\ s[IdsOf(s, 0)[t] + 1] = t
  <1> DEFINE k == CHOOSE i \in DOMAIN s : s[i] = t
  <1>1. k \in DOMAIN s /\ s[k] = t /\ IdsOf(s, 0)[t] = (0 + k - 1) % IdCount
    BY IdsTyped
  <1> HIDE DEF k
  <1>2. k \in 1 .. Len(s) /\ Len(s) \in Nat
    BY <1>1, LenProperties
  <1>3. 0 + k - 1 \in Nat /\ 0 + k - 1 < IdCount /\ 0 + k - 1 = k - 1
    BY <1>2, IdsAssumption
  <1>4. \A m \in Nat : m < IdCount => m % IdCount = m
    BY IdsAssumption
  <1>5. IdsOf(s, 0)[t] = k - 1
    BY <1>1, <1>3, <1>4
  <1>6. k - 1 \in Nat /\ k - 1 < Len(s) /\ k - 1 + 1 = k
    BY <1>2
  <1> QED BY <1>1, <1>5, <1>6

LEMMA SubscribingFresh ==
    ASSUME NEW c, NEW d, NEW s \in Seq(Structs), c.subscriptions = <<>>, c.idMap = <<>>,
           Subscribing(c, d, s)
    PROVE  d.idMap = IdsOf(s, 0) /\ d.subscriptions = SizesOf(s)
  <1>1. Len(<<>>) = 0 /\ DOMAIN <<>> = {}
    OBVIOUS
  <1>2. d.idMap = [t \in RangeOf(s) \union DOMAIN c.idMap |->
                     IF t \in RangeOf(s) THEN IdsOf(s, 0)[t] ELSE c.idMap[t]]
    BY <1>1 DEF Subscribing
  <1>3. d.idMap = [t \in RangeOf(s) |-> IdsOf(s, 0)[t]]
    BY <1>1, <1>2
  <1>4. IdsOf(s, 0) = [t \in RangeOf(s) |-> IdsOf(s, 0)[t]]
    BY DEF IdsOf
  <1>5. SizesOf(s) \in Seq(Nat)
    BY SizesTyped
  <1>6. <<>> \o SizesOf(s) = SizesOf(s)
    BY <1>5, ConcatEmptySeq
  <1>7. d.subscriptions = <<>> \o SizesOf(s)
    BY DEF Subscribing
  <1> QED BY <1>3, <1>4, <1>6, <1>7

LEMMA FreshIdsIn ==
    ASSUME FewTypes, NEW c, NEW d, NEW s \in Seq(Structs), c.subscriptions = <<>>, c.idMap = <<>>,
           Stops(c, s) = {}, Subscribing(c, d, s)
    PROVE  IdsIn(d)
  <1>1. d.idMap = IdsOf(s, 0) /\ d.subscriptions = SizesOf(s)
    BY SubscribingFresh
  <1>2. Len(s) <= IdCount /\ Len(s) \in Nat
    BY AcceptedListIsShort, LenProperties
  <1>3. DOMAIN IdsOf(s, 0) = RangeOf(s)
    BY DEF IdsOf
  <1>4. ASSUME NEW t \in RangeOf(s)
        PROVE  IdsOf(s, 0)[t] < Len(SizesOf(s)) /\ SizesOf(s)[IdsOf(s, 0)[t] + 1] = MessageSize[t]
    <2>1. IdsOf(s, 0)[t] \in Nat /\ IdsOf(s, 0)[t] < Len(s) /\ s[IdsOf(s, 0)[t] + 1] = t
      BY <1>2, IdIsPlace
    <2>2. Len(SizesOf(s)) = Len(s) /\ \A i \in 1 .. Len(s) : SizesOf(s)[i] = MessageSize[s[i]]
      BY SizesTyped
    <2>3. IdsOf(s, 0)[t] + 1 \in 1 .. Len(s)
      BY <1>2, <2>1
    <2> QED BY <2>1, <2>2, <2>3
  <1> QED BY <1>1, <1>3, <1>4 DEF IdsIn

LEMMA InitializedIdsIn ==
    ASSUME FewTypes, NEW c, DOMAIN c = FieldNames, Sound(c), Consistent(c), IdsIn(c),
           NEW key, NEW value, NEW structs \in Seq(Structs)
    PROVE  IdsIn(Initialized(c, key, value, structs))
  <1> DEFINE d == Initialized(c, key, value, structs)
  <1>1. \/ Untouching(c, d)
        \/ \E n \in Stops(c, structs) : Stopping(c, d, SubSeq(structs, 1, n - 1), structs[n])
        \/ Subscribing(c, d, structs) /\ Stops(c, structs) = {}
    BY InitializedIs
  <1> HIDE DEF d
  <1>2. ASSUME Untouching(c, d) \/ \E s, t : Stopping(c, d, s, t) PROVE IdsIn(d)
    BY <1>2 DEF Untouching, Stopping, IdsIn
  <1>3. ASSUME Subscribing(c, d, structs), Stops(c, structs) = {} PROVE IdsIn(d)
    <2>1. c.subscriptions = <<>> /\ c.idMap = <<>>
      BY <1>3 DEF Subscribing, Consistent, Sound
    <2> QED BY <1>3, <2>1, FreshIdsIn
  <1>4. IdsIn(d)
    BY <1>1, <1>2, <1>3
  <1> QED BY <1>4 DEF d

LEMMA EmptyIdsIn == ASSUME NEW c, c.idMap = <<>> PROVE IdsIn(c)
  <1>1. DOMAIN <<>> = {}
    OBVIOUS
  <1> QED BY <1>1 DEF IdsIn

LEMMA BecomeIdsIn == ASSUME NEW c, IdsIn(c), Become(c) PROVE IdsIn(Fields)'
  BY DEF IdsIn, Become, Fields

LEMMA InitIds == Init => IdsIn(Fields)
  BY FieldsAre, EmptyIdsIn DEF Init

LEMMA FieldsSound == IInv => Sound(Fields)
  BY DEF Sound, Fields, IInv, WritersExist, LayersAgree, NoIdsYet

LEMMA NextIds ==
    ASSUME FewTypes, IInv, TypeInv, FilesInv, IdsIn(Fields), Next PROVE IdsIn(Fields)'
  <1>1. ASSUME UNCHANGED <<idMap, subscriptions>> PROVE IdsIn(Fields)'
    BY <1>1 DEF IdsIn, Fields
  <1>2. CASE \/ Idles \/ CompletesHeader
             \/ \E kind \in Kinds : AppendsPlain(kind)
             \/ \E t \in Structs : AppendsFormat(t)
             \/ \E t \in Structs : Counts(t)
             \/ \E id \in Nat, t \in Structs : AppendsData(id, t)
    BY <1>1, <1>2 DEF Idles, CompletesHeader, AppendsPlain, AppendsFormat, Counts, AppendsData
  <1>3. ASSUME NEW t \in Structs, AppendsAdd(t) PROVE IdsIn(Fields)'
    <2>1. idMap' = idMap /\ subscriptions' = Append(subscriptions, MessageSize[t])
      BY <1>3 DEF AppendsAdd
    <2>2. subscriptions \in Seq(Nat) /\ MessageSize[t] \in Nat
      BY StructsAssumption, FieldsAre DEF TypeInv, Typed
    <2>3. /\ Len(subscriptions') = Len(subscriptions) + 1 /\ Len(subscriptions) \in Nat
          /\ \A i \in 1 .. Len(subscriptions) : subscriptions'[i] = subscriptions[i]
      BY <2>1, <2>2, AppendTyped
    <2>4. ASSUME NEW x \in DOMAIN idMap
          PROVE  idMap[x] < Len(subscriptions') /\ subscriptions'[idMap[x] + 1] = MessageSize[x]
      <3>1. idMap[x] \in Nat
        BY FieldsAre DEF TypeInv, Typed
      <3>2. idMap[x] < Len(subscriptions) /\ subscriptions[idMap[x] + 1] = MessageSize[x]
        BY FieldsAre DEF IdsIn
      <3>3. idMap[x] + 1 \in 1 .. Len(subscriptions) /\ idMap[x] < Len(subscriptions) + 1
        BY <2>3, <3>1, <3>2
      <3> QED BY <2>3, <3>2, <3>3
    <2> QED BY <2>1, <2>4 DEF IdsIn, Fields
  <1>4. ASSUME NEW key \in Keys, NEW value \in Values, NEW structs \in Seq(Structs),
               InitLogger(key, value, structs)
        PROVE  IdsIn(Fields)'
    <2> DEFINE d == Initialized(Fields, key, value, structs)
    <2>1. IdsIn(d)
      BY FieldsAre, FieldsSound, InitializedIdsIn DEF FilesInv
    <2>2. Become(d)
      BY <1>4 DEF InitLogger
    <2> HIDE DEF d
    <2> QED BY <2>1, <2>2, BecomeIdsIn
  <1>5. ASSUME NEW t \in Structs, GivesUp(t) PROVE IdsIn(Fields)'
    <2>1. PICK x \in {Usage, InvalidArgument, Parsing} : Become(Ends(Cleared, x))
      BY <1>5 DEF GivesUp
    <2>2. IdsIn(Ends(Cleared, x))
      BY ClearedIs, EmptyIdsIn
    <2> QED BY <2>1, <2>2, BecomeIdsIn
  <1>6. ASSUME NEW id \in Nat, NEW t \in Structs, Rotates(id, t) PROVE IdsIn(Fields)'
    <2>1. IdsIn(NextFile)
      <3>1. initParams.structs \in Seq(Structs)
        BY DEF TypeInv, ParamsTyped
      <3>2. Sound(NewFile) /\ IdsIn(NewFile)
        BY NewFileIs, EmptyIdsIn DEF Sound, Stores
      <3> QED BY <3>1, <3>2, NewFileIs, NewFileConsistent, InitializedIdsIn DEF NextFile
    <2>2. IdsIn(Wrote(NextFile, id, t)) /\ \A r : IdsIn(Ends(NextFile, r))
      BY <2>1 DEF IdsIn, Wrote, Ends
    <2> QED BY <1>6, <2>1, <2>2, BecomeIdsIn DEF Rotates
  <1>7. Shape
    BY NextShape
  <1> QED BY <1>2, <1>3, <1>4, <1>5, <1>6, <1>7 DEF Shape

(* What Write looks up by name is a subscription of the current file with   *)
(* that type's size: the old file's ids are gone with it, and those of the  *)
(* next are counted from the start again.                                   *)
THEOREM IdsStaySubscribed ==
    ASSUME FewTypes PROVE Spec => []IdsAreSubscribed
  <1>1. IInv /\ TypeInv /\ FilesInv /\ IdsIn(Fields) /\ [Next]_vars => IdsIn(Fields)'
    <2> SUFFICES ASSUME IInv, TypeInv, FilesInv, IdsIn(Fields), [Next]_vars PROVE IdsIn(Fields)'
      OBVIOUS
    <2>1. CASE UNCHANGED vars
      BY <2>1 DEF vars, IdsIn, Fields
    <2> QED BY <2>1, NextIds
  <1>2. IdsIn(Fields) => IdsAreSubscribed
    BY DEF IdsIn, Fields, IdsAreSubscribed
  <1> QED BY <1>1, <1>2, InitIds, FilesKept, TypesKept, Invariant, PTL DEF Spec
==============================================================================
