------------------------------ MODULE ZzDataLog ------------------------------
(***************************************************************************)
(* zz_data_log (zz_data_log.hpp, zz_data_log.cpp) with the Writer it owns: *)
(* a logger that starts a new file when the current one has taken enough   *)
(* data, and replays the cached Init parameters into it. One action is one *)
(* call of the public interface, with everything it does until it returns  *)
(* or throws; `result' is how it ended. Calls here come one at a time, as  *)
(* from one thread.                                                        *)
(*                                                                         *)
(* A file is the sequence of the records serialized into it. Formatting,   *)
(* regular expressions and padding rules decide one thing only: whether    *)
(* writeMessageFormat refuses a struct. A message that is too long for its *)
(* size field is refused by serialize with a ParsingException, behind what *)
(* the call has done to the logger before.                                 *)
(***************************************************************************)
EXTENDS LogFileName

CONSTANTS Structs,      \* the message types of the application
          Refused,      \* those writeMessageFormat throws a UsageException for
          Nameless,     \* those without a name or without fields
          LongFormats,  \* those of the others whose format is too long for a message
          LongNames,    \* those of them whose name is too long for a subscription
          LongInfos,    \* pairs of a key and a value too long for an info message
          MaxPayload,   \* what the size field of a message can say: 65535
          SizeOf,       \* sizeof of a type
          MessageSize,  \* the size its fields add up to
          MaxFileSize,  \* kMaxFileSize
          IdCount,      \* how many values a uint16_t message id has
          Keys,         \* keys of the info message that Init writes, "" among them
          Values,       \* and its values
          Names,        \* file names the logger may be constructed with
          Constructors, \* which constructors are used: "CreateInstance", "file", "callback"
          Api,          \* which methods the application calls
          MaxCalls      \* bound on the calls that are made

ASSUME StructsAssumption ==
    /\ Refused \subseteq Structs /\ Nameless \subseteq Structs
    /\ LongFormats \subseteq Structs \ (Refused \union Nameless)
    /\ LongNames \subseteq LongFormats     \* a format begins with the name
    /\ MessageSize \in [Structs -> Nat]
    /\ SizeOf \in [Structs -> Nat]
    /\ \A t \in Structs : MessageSize[t] <= SizeOf[t]
ASSUME SizeAssumption == MaxFileSize \in Nat \ {0} /\ \A t \in Structs : SizeOf[t] < MaxFileSize
ASSUME PayloadAssumption == MaxPayload \in Nat
ASSUME IdsAssumption == IdCount \in Nat \ {0}
ASSUME NamesAssumption == Names \subseteq Seq(Parts)
ASSUME CallsAssumption == MaxCalls \in Nat

VARIABLES writer,           \* _writer: "null", or what its _header_complete says
          file,             \* _file: "null", "open", or "closed": passed to fclose, not reset
          headerComplete,   \* _header_complete
          formats,          \* the names in _formats
          subscriptions,    \* _subscriptions: expected message sizes
          idMap,            \* id_map_
          on,               \* ZzDataLogOn_
          currentFileSize,  \* _currentFileSize
          initParams,       \* init_params_
          log,              \* what was written to the current file
          closedLogs,       \* the files before it, in order
          serial,           \* calls made so far; numbers the data of a call
          logged,           \* the serials of calls that returned after writing their data
          result            \* how the last call ended

vars == <<writer, file, headerComplete, formats, subscriptions, idMap, on, currentFileSize,
          initParams, log, closedLogs, serial, logged, result>>

(* How a call ends: it returns, throws, or does something C++ leaves       *)
(* undefined (a call through a null _writer, a FILE used after fclose).    *)
Ok == "ok"
Usage == "UsageException"
Parsing == "ParsingException"
InvalidArgument == "std::invalid_argument"
Undefined == "undefined behaviour"
Results == {Ok, Usage, Parsing, InvalidArgument, Undefined}

Kinds == {"fileHeader", "info", "format", "parameter", "add", "data", "text"}
NoStruct == "-"
Record(kind, type, id, number) == [kind |-> kind, type |-> type, id |-> id, number |-> number]
Plain(kind) == Record(kind, NoStruct, 0, 0)

RangeOf(s) == {s[i] : i \in DOMAIN s}

-----------------------------------------------------------------------------
(* zz_data_log(filename), zz_data_log(filename, timestamp_us) and           *)
(* zz_data_log(data_write_cb, timestamp_us). Only the first, which          *)
(* CreateInstance calls, remembers the file name; only CreateInstance sets  *)
(* ZzDataLogOn_, which is otherwise read uninitialized.                     *)
Init ==
    /\ \E c \in Constructors, name \in Names :
         /\ c = "CreateInstance" => IsValidFilename(name)
         /\ file = IF c = "callback" THEN "null" ELSE "open"
         /\ initParams = [fileName |-> IF c = "CreateInstance" THEN name ELSE <<>>,
                          key |-> "", value |-> "", structs |-> <<>>]
    /\ writer = "header"
    /\ log = <<Plain("fileHeader")>>
    /\ headerComplete = FALSE
    /\ formats = {}
    /\ subscriptions = <<>>
    /\ idMap = <<>>
    /\ on \in BOOLEAN
    /\ currentFileSize = 0
    /\ closedLogs = <<>>
    /\ serial = 0
    /\ logged = <<>>
    /\ result = Ok

(* The call that is made next; after undefined behaviour there is none.     *)
Call(method) ==
    /\ method \in Api
    /\ result # Undefined
    /\ serial < MaxCalls
    /\ serial' = serial + 1

(* A call that ends before it changes anything. *)
Throw(exception) ==
    /\ result' = exception
    /\ UNCHANGED <<writer, file, headerComplete, formats, subscriptions, idMap,
                   currentFileSize, log, closedLogs, logged>>

(* A record is serialized through _writer, unless it is too long. *)
Logs(record, fits) ==
    IF writer = "null" THEN Throw(Undefined)
    ELSE IF ~ fits THEN Throw(Parsing)
    ELSE /\ result' = Ok
         /\ log' = Append(log, record)
         /\ UNCHANGED <<writer, file, headerComplete, formats, subscriptions, idMap,
                        currentFileSize, closedLogs, logged>>

-----------------------------------------------------------------------------
(* Both Inits, from a logger whose fields are those of c: the key-value     *)
(* info, the formats, headerComplete, the subscriptions. It stops at the    *)
(* first struct whose format is refused, with what came before it done.     *)
Stops(c, structs) ==
    {i \in 1 .. Len(structs) :
       structs[i] \in Refused \union Nameless \union LongFormats \union c.formats
                       \union {structs[j] : j \in 1 .. i - 1}}

RegisteredInMemory(c, structs) ==      \* mutant: the formats are not written again
    [c EXCEPT !.formats = @ \union RangeOf(structs), !.log = @ \o <<Plain("info")>>]

Registered(c, structs) ==
    [c EXCEPT !.formats = @ \union RangeOf(structs),
              !.log = @ \o <<Plain("info")>>
                        \o [i \in 1 .. Len(structs) |-> Record("format", structs[i], 0, 0)]]

Subscribed(c, structs) ==
    LET id(i) == (Len(c.subscriptions) + i - 1) % IdCount
        ids   == [t \in RangeOf(structs) |-> id(CHOOSE i \in DOMAIN structs : structs[i] = t)]
    IN  [c EXCEPT !.writer = "data",
                  !.headerComplete = TRUE,
                  !.subscriptions = @ \o [i \in 1 .. Len(structs) |-> MessageSize[structs[i]]],
                  !.idMap = [t \in DOMAIN ids \union DOMAIN c.idMap |->
                               IF t \in DOMAIN ids THEN ids[t] ELSE c.idMap[t]],
                  !.log = @ \o [i \in 1 .. Len(structs) |-> Record("add", structs[i], id(i), 0)]]

Ends(c, r) == [c EXCEPT !.result = r]

(* writeMessageFormat(t) throws: for a format that is only too long, with t *)
(* in _formats already.                                                     *)
Rejected(c, t) ==
    IF t \in LongFormats \ c.formats THEN Ends([c EXCEPT !.formats = @ \union {t}], Parsing)
    ELSE Ends(c, Usage)

Initialized(c, key, value, structs) ==
    IF key = "" \/ value = "" \/ c.headerComplete THEN Ends(c, Usage)
    ELSE IF c.writer = "null" THEN Ends(c, Undefined)
    ELSE IF <<key, value>> \in LongInfos THEN Ends(c, Parsing)
    ELSE IF Stops(c, structs) = {} THEN Ends(Subscribed(Registered(c, structs), structs), Ok)
    ELSE LET stop == CHOOSE i \in Stops(c, structs) : \A j \in Stops(c, structs) : i <= j
         IN  Rejected(Registered(c, SubSeq(structs, 1, stop - 1)), structs[stop])

Fields == [writer |-> writer, headerComplete |-> headerComplete, formats |-> formats,
           subscriptions |-> subscriptions, idMap |-> idMap, log |-> log, result |-> Ok]

Become(c) ==
    /\ writer' = c.writer
    /\ headerComplete' = c.headerComplete
    /\ formats' = c.formats
    /\ subscriptions' = c.subscriptions
    /\ idMap' = c.idMap
    /\ log' = c.log
    /\ result' = c.result

(* Init<T>(key, key_value, all_structs): what it caches for later files is  *)
(* cached before the calls that may throw, up to the struct they throw for. *)
Cached(key, value, structs) ==
    LET stops == Stops(Fields, structs)
        stop  == CHOOSE i \in stops : \A j \in stops : i <= j
    IN  IF headerComplete \/ writer = "null" \/ <<key, value>> \in LongInfos THEN <<>>
        ELSE IF stops = {} THEN structs
        ELSE IF structs[stop] \in Nameless THEN SubSeq(structs, 1, stop - 1)
        ELSE SubSeq(structs, 1, stop)

InitLogger(key, value, structs) ==
    /\ Call("Init")
    /\ Become(Initialized(Fields, key, value, structs))
    /\ initParams' = IF key = "" \/ value = "" THEN initParams
                     ELSE [initParams EXCEPT !.key = key, !.value = value,
                                             !.structs = @ \o Cached(key, value, structs)]
    /\ UNCHANGED <<file, on, currentFileSize, closedLogs, logged>>

-----------------------------------------------------------------------------
(* writeInfo, writeParameter; writeParameterChange, writeTextMessage. *)
WriteHeaderRecord(method, kind, fits) ==
    /\ Call(method)
    /\ IF headerComplete THEN Throw(Usage) ELSE Logs(Plain(kind), fits)
    /\ UNCHANGED <<on, initParams>>

WriteDataRecord(method, kind, fits) ==
    /\ Call(method)
    /\ IF headerComplete THEN Logs(Plain(kind), fits) ELSE Throw(Usage)
    /\ UNCHANGED <<on, initParams>>

WriteMessageFormat(t) ==
    /\ Call("writeMessageFormat")
    /\ IF headerComplete \/ t \in Refused \union formats THEN Throw(Usage)
       ELSE /\ formats' = formats \union {t}
            /\ IF writer = "null" THEN result' = Undefined /\ UNCHANGED log
               ELSE IF t \in LongFormats THEN result' = Parsing /\ UNCHANGED log
               ELSE result' = Ok /\ log' = Append(log, Record("format", t, 0, 0))
            /\ UNCHANGED <<writer, file, headerComplete, subscriptions, idMap,
                           currentFileSize, closedLogs, logged>>
    /\ UNCHANGED <<on, initParams>>

HeaderComplete ==
    /\ Call("headerComplete")
    /\ IF headerComplete THEN Throw(Usage)
       ELSE IF writer = "null" THEN Throw(Undefined)
       ELSE /\ headerComplete' = TRUE
            /\ writer' = "data"
            /\ result' = Ok
            /\ UNCHANGED <<file, formats, subscriptions, idMap, currentFileSize, log,
                           closedLogs, logged>>
    /\ UNCHANGED <<on, initParams>>

WriteAddLoggedMessage(t) ==
    /\ Call("writeAddLoggedMessage")
    /\ IF ~ headerComplete \/ t \notin formats THEN Throw(Usage)
       ELSE /\ subscriptions' = Append(subscriptions, MessageSize[t])
            /\ IF t \in LongNames THEN result' = Parsing /\ UNCHANGED log
               ELSE /\ result' = Ok
                    /\ log' = Append(log, Record("add", t, Len(subscriptions) % IdCount, 0))
            /\ UNCHANGED <<writer, file, headerComplete, formats, idMap, currentFileSize,
                           closedLogs, logged>>
    /\ UNCHANGED <<on, initParams>>

(* CreateInstance on an existing instance only sets ZzDataLogOn_. *)
CreateInstanceAgain(value) ==
    /\ Call("CreateInstance")
    /\ on' = value
    /\ result' = Ok
    /\ UNCHANGED <<writer, file, headerComplete, formats, subscriptions, idMap,
                   currentFileSize, initParams, log, closedLogs, logged>>

(* fsync(): skipped for no file; fflush of a FILE that fclose has freed.    *)
Fsync ==
    /\ Call("fsync")
    /\ Throw(IF file = "closed" THEN Undefined ELSE Ok)
    /\ UNCHANGED <<on, initParams>>

-----------------------------------------------------------------------------
(* writeDataImpl(id, data of type t). *)
DataRecord(id, t) == Record("data", t, id, serial)

IsFullLate(t) == currentFileSize + SizeOf[t] > MaxFileSize      \* mutant: > for >=
IsFull(t) == currentFileSize + SizeOf[t] >= MaxFileSize

(* Data for a subscription that is too long, with its id, for a message. *)
TooLong(id) == subscriptions[id + 1] + 2 > MaxPayload

(* The file has room: the record is written behind the others, or refused   *)
(* after it was counted.                                                    *)
AppendData(id, t) ==
    /\ IF writer = "null" THEN Throw(Undefined)
       ELSE /\ currentFileSize' = currentFileSize + SizeOf[t]
            /\ IF TooLong(id) THEN result' = Parsing /\ UNCHANGED <<log, logged>>
               ELSE /\ log' = Append(log, DataRecord(id, t))
                    /\ logged' = Append(logged, serial)
                    /\ result' = Ok
            /\ UNCHANGED <<writer, file, headerComplete, formats, subscriptions, idMap, closedLogs>>
    /\ UNCHANGED initParams

ClearedKeepingHeader ==         \* mutant: _header_complete not reset
    [writer |-> "null", headerComplete |-> TRUE, formats |-> {}, subscriptions |-> <<>>,
     idMap |-> <<>>, log |-> <<>>, result |-> Ok]

ClearedKeepingIds ==            \* mutant: no id_map_.clear()
    [writer |-> "null", headerComplete |-> FALSE, formats |-> {}, subscriptions |-> <<>>,
     idMap |-> idMap, log |-> <<>>, result |-> Ok]

ClearedKeepingSubscriptions ==  \* mutant: no _subscriptions.clear()
    [writer |-> "null", headerComplete |-> FALSE, formats |-> {},
     subscriptions |-> subscriptions, idMap |-> <<>>, log |-> <<>>, result |-> Ok]

ClearedLate ==                  \* mutant: cleared only behind what can throw
    [Fields EXCEPT !.writer = "null", !.log = <<>>]

ClearedKeepingWriter ==         \* mutant: no _writer.reset()
    [writer |-> "header", headerComplete |-> FALSE, formats |-> {}, subscriptions |-> <<>>,
     idMap |-> <<>>, log |-> <<>>, result |-> Ok]

(* The logger between the two files: no writer, no formats, no ids. *)
Cleared == [writer |-> "null", headerComplete |-> FALSE, formats |-> {}, subscriptions |-> <<>>,
            idMap |-> <<>>, log |-> <<>>, result |-> Ok]

NewFile == [Cleared EXCEPT !.writer = "header", !.log = <<Plain("fileHeader")>>]

ResumedWithout(c, id, t) == c      \* mutant: a return behind the rotation

(* The record that set off the rotation goes to the new file, under the id  *)
(* it came with, cut to the size the old file subscribed.                   *)
Resumed(c, id, t) ==
    IF TooLong(id) THEN Ends(c, Parsing) ELSE [c EXCEPT !.log = Append(@, DataRecord(id, t))]

(* The logger a rotation leaves behind when it does not come to a new file. *)
GiveUp(exception, t) ==
    /\ Become(Ends(Cleared, exception))
    /\ currentFileSize' = currentFileSize + SizeOf[t]
    /\ closedLogs' = Append(closedLogs, log)
    /\ UNCHANGED logged

(* generateNewPathOrFilename throws: UsageException for an empty name, else *)
(* what std::stoi throws.                                                   *)
HasNoNewName(name) == name # <<>> => HasNoVersion(name)

(* The old file is closed before anything that may fail.                    *)
Rotate(id, t) ==
    LET old == initParams.fileName
        new == NewFilename(old)
        c   == Initialized(NewFile, initParams.key, initParams.value, initParams.structs)
        d   == IF c.result = Ok THEN Resumed(c, id, t) ELSE c
    IN
    \/ /\ file # "open"                       \* fclose(nullptr), or again
       /\ Throw(Undefined)
       /\ UNCHANGED initParams
    \/ /\ file = "open"
       /\ HasNoNewName(old)
       /\ file' = "closed"
       /\ GiveUp(IF old = <<>> THEN Usage ELSE InvalidArgument, t)
       /\ UNCHANGED initParams
    \/ /\ file = "open"
       /\ ~ HasNoNewName(old)
       /\ initParams' = [initParams EXCEPT !.fileName = new]
       /\ \/ /\ file' = "null"                \* fopen failed
             /\ GiveUp(Parsing, t)
          \/ /\ file' = "open"
             /\ currentFileSize' = 0
             /\ closedLogs' = Append(closedLogs, log)
             /\ Become(d)
             /\ logged' = IF d.result = Ok THEN Append(logged, serial) ELSE logged

WriteDataImpl(id, t) ==
    IF \/ ~ headerComplete
       \/ id >= Len(subscriptions)
       \/ SizeOf[t] < subscriptions[id + 1]
    THEN Throw(Usage) /\ UNCHANGED initParams
    ELSE IF IsFull(t) THEN Rotate(id, t) ELSE AppendData(id, t)

(* writeData(id, data) *)
WriteData(id, t) ==
    /\ Call("writeData")
    /\ WriteDataImpl(id, t)
    /\ UNCHANGED on

(* Write(data): under the mutex, with the id that Init gave the type.       *)
Write(t) ==
    /\ Call("Write")
    /\ IF t \notin DOMAIN idMap THEN Throw(Usage) /\ UNCHANGED initParams
       ELSE IF ~ on THEN Throw(Ok) /\ UNCHANGED initParams
       ELSE WriteDataImpl(idMap[t], t)
    /\ UNCHANGED on

-----------------------------------------------------------------------------
StructLists == {<<>>} \union {<<t>> : t \in Structs} \union (Structs \X Structs)

Next ==
    \/ \E key \in Keys, value \in Values, structs \in StructLists : InitLogger(key, value, structs)
    \/ \E fits \in BOOLEAN :
         \/ WriteHeaderRecord("writeInfo", "info", fits)
         \/ WriteHeaderRecord("writeParameter", "parameter", fits)
         \/ WriteDataRecord("writeTextMessage", "text", fits)
         \/ WriteDataRecord("writeParameterChange", "parameter", fits)
    \/ \E t \in Structs \ Nameless : WriteMessageFormat(t)
    \/ HeaderComplete
    \/ \E t \in Structs : WriteAddLoggedMessage(t)
    \/ \E value \in BOOLEAN : CreateInstanceAgain(value)
    \/ Fsync
    \/ \E id \in 0 .. Len(subscriptions), t \in Structs : WriteData(id, t)
    \/ \E t \in Structs : Write(t)

Spec == Init /\ [][Next]_vars

-----------------------------------------------------------------------------
Stores == {"null", "header", "data"}

(* Every variable has its type, file names keep the extension they must have, *)
(* and no call logs more than one piece of data.                             *)
TypeOK ==
    /\ writer \in Stores
    /\ file \in {"null", "open", "closed"}
    /\ headerComplete \in BOOLEAN
    /\ formats \subseteq Structs
    /\ subscriptions \in Seq(Nat)
    /\ DOMAIN idMap \subseteq Structs
    /\ on \in BOOLEAN
    /\ currentFileSize \in Nat
    /\ initParams.fileName # <<>> => IsValidFilename(initParams.fileName)
    /\ initParams.key \in Keys \union {""} /\ initParams.value \in Values \union {""}
    /\ initParams.structs \in Seq(Structs)
    /\ serial \in 0 .. MaxCalls
    /\ Len(logged) <= serial
    /\ result \in Results

(* The logger's flag and the flag of the Writer it owns never disagree: no  *)
(* check passes in the logger for the Writer to refuse, and none passes     *)
(* while there is no Writer. Rotation replaces the one and resets the other *)
(* at different points, with exceptions in between.                         *)
LayersAgree == headerComplete <=> writer = "data"

(* Nothing is serialized into a FILE that was closed: wherever a rotation   *)
(* stops, no Writer is left that writes to the old file.                    *)
WriterHasOpenFile == writer # "null" => file # "closed"

(* The id that Write looks up by name is one of a subscription with that    *)
(* type's size, in the current file and not in the one before it.           *)
IdsAreSubscribed ==
    \A t \in DOMAIN idMap :
      /\ idMap[t] < Len(subscriptions)
      /\ subscriptions[idMap[t] + 1] = MessageSize[t]

(* What a reader of each file needs: formats before anything of the data    *)
(* section, subscriptions of formats the same file defines, file header     *)
(* first; also in a file that a rotation began, or where an Init stopped.   *)
(* Formats too long to be written are left out: writeMessageFormat has      *)
(* registered one when its message is refused, so that the application can  *)
(* subscribe it in a file that does not define it.                          *)
Defined(f, j) == \E i \in 1 .. j - 1 : f[i] = Record("format", f[j].type, 0, 0)

Readable(f) ==
    /\ f # <<>> => f[1] = Plain("fileHeader")
    /\ \A i, j \in 1 .. Len(f) : i < j =>
         /\ f[j].kind # "fileHeader"
         /\ f[j].kind \in {"format", "info"} => f[i].kind \notin {"add", "data", "text"}
    /\ \A j \in 1 .. Len(f) : f[j].kind = "add" => f[j].type \in LongFormats \/ Defined(f, j)

FilesAreReadable == \A f \in RangeOf(Append(closedLogs, log)) : Readable(f)

(* Every record of data is in a file that subscribed its id before it, once *)
(* and for its type: a rotation hands out the ids the old file had.         *)
Attributed(f) ==
    \A k \in 1 .. Len(f) : f[k].kind = "data" =>
      \E j \in 1 .. k - 1 :
        /\ f[j].kind = "add" /\ f[j].id = f[k].id /\ f[j].type = f[k].type
        /\ \A i \in 1 .. k : f[i].kind = "add" /\ f[i].id = f[k].id => i = j

DataIsAttributed == \A f \in RangeOf(Append(closedLogs, log)) : Attributed(f)

(* The data of the calls that returned, in their order and nothing else, is *)
(* what the files hold together: none lost or doubled at a rotation.        *)
IsData(record) == record.kind = "data"

SerialsUpTo(f) ==
    LET upTo[n \in 0 .. Len(f)] ==
          IF n = 0 THEN <<>>
          ELSE IF IsData(f[n]) THEN Append(upTo[n - 1], f[n].number) ELSE upTo[n - 1]
    IN  upTo

SerialsIn(f) == SerialsUpTo(f)[Len(f)]

AllUpTo(files) ==
    LET upTo[n \in 0 .. Len(files)] ==
          IF n = 0 THEN <<>> ELSE upTo[n - 1] \o SerialsIn(files[n])
    IN  upTo

AllSerials == AllUpTo(closedLogs)[Len(closedLogs)] \o SerialsIn(log)

DataIsLoggedOnce == AllSerials = logged

(* Between calls, a file that takes data has room for less than the limit.  *)
RoomIsLeft == headerComplete => currentFileSize < MaxFileSize

(* A rotation that succeeds leaves every type under the id it had before.   *)
RotationKeepsIds ==
    [][closedLogs' # closedLogs /\ result' = Ok => idMap' = idMap]_vars

(* Write does nothing undefined, also after a rotation that failed: the     *)
(* cleared id map turns it away.                                            *)
WriteIsDefined == [][\A t \in Structs : Write(t) => result' # Undefined]_vars

(* "ULog serialization class which checks for integrity and correct calling *)
(* order. It throws an UsageException() in case of a failed integrity       *)
(* check": no sequence of calls ends in undefined behaviour.                *)
NothingUndefined == result # Undefined

(* What a file can grow to: the record that sets off a rotation is written  *)
(* to the new file behind the reset of the counter and not counted, so the  *)
(* data stays below the limit and one more record.                          *)
BytesUpTo(f) ==
    LET upTo[n \in 0 .. Len(f)] ==
          IF n = 0 THEN 0
          ELSE upTo[n - 1] + (IF IsData(f[n]) THEN SizeOf[f[n].type] ELSE 0)
    IN  upTo

BytesOf(f) == BytesUpTo(f)[Len(f)]

FileSizeIsBounded ==
    \A f \in RangeOf(Append(closedLogs, log)) :
      f # <<>> => \E t \in Structs : BytesOf(f) < MaxFileSize + SizeOf[t]
==============================================================================
