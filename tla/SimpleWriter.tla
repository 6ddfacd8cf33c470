---------------------------- MODULE SimpleWriter ----------------------------
(***************************************************************************)
(* ulog_cpp::SimpleWriter (simple_writer.hpp, simple_writer.cpp) over the  *)
(* Writer it owns and the serialize methods of messages.cpp. One action is *)
(* one call that passes the checks of SimpleWriter: the others throw a     *)
(* UsageException and change nothing. A message that is too long for its   *)
(* size field is refused behind the checks, by a ParsingException that     *)
(* leaves its format or subscription registered.                           *)
(*                                                                         *)
(* The log is the sequence of its messages, each with its bytes, behind    *)
(* the file header. `done' is what an application would remember of its    *)
(* own calls.                                                              *)
(***************************************************************************)
EXTENDS Serialization, FieldLayout

CONSTANTS FormatsGiven,     \* names and fields writeMessageFormat is called with
          Keys,             \* the names of infos and parameters
          Values,           \* and their values: a type and its bytes
          MultiIds,         \* instance ids of subscriptions
          Texts,            \* text messages: level, timestamp and text
          Contents,         \* what structs are filled with
          MaxCalls          \* bound on the calls that return, and on the subscriptions

ASSUME WriterAssumption ==
    /\ FormatsGiven \subseteq [name   : Seq(Byte),
                               fields : Seq([type : STRING, name : Seq(Byte), array : Int32])]
    /\ Keys \subseteq Seq(Byte)
    /\ Values \subseteq [type : {"std::string", "int32_t", "float"}, bytes : Seq(Byte)]
    /\ MultiIds \subseteq Byte
    /\ Texts \subseteq [level : Levels, stamp : [1 .. 8 -> Byte], text : Seq(Byte)]
    /\ Contents \subseteq Nat
    /\ MaxCalls \in Nat

VARIABLES headerComplete,   \* _header_complete, of SimpleWriter and of Writer
          formats,          \* _formats: name -> the fields its message size is computed from
          subscriptions,    \* _subscriptions: expected message sizes
          log,              \* the messages written
          done              \* the calls that returned, in order

writerVars == <<headerComplete, formats, subscriptions, log, done>>

-----------------------------------------------------------------------------
(* FileHeader(timestamp): version 1, flag bits without a flag. *)
FileHeader == FileHeaderMessage(<<85, 76, 111, 103, 1, 18, 53, 1>> \o Zeros(8), Zeros(40))

FieldTexts(fields) == [i \in 1 .. Len(fields) |-> FieldText(fields[i])]

(* MessageInfo(key, value): the field a value of each type is written with. *)
InfoFieldUnsized(key, value) ==      \* mutant: a string's array_length is not set
    FieldText([type |-> IF value.type = "std::string" THEN "char" ELSE value.type,
               name |-> key, array |-> -1])

InfoField(key, value) ==
    FieldText(IF value.type = "std::string"
              THEN [type |-> "char", name |-> key, array |-> Len(value.bytes)]
              ELSE [type |-> value.type, name |-> key, array |-> -1])

(* kFormatNameRegex, kFieldNameRegex *)
Lower            == 97 .. 122
Upper            == 65 .. 90
FormatCharacters == Lower \union Upper \union Digit \union {95, 45, 47}
FieldCharacters  == Lower \union Digit \union {95}
IsName(s, characters) == s # <<>> /\ Range(s) \subseteq characters

TimestampFirst(fields) ==
    /\ fields # <<>>
    /\ fields[1] = [type |-> "uint64_t", name |-> <<116, 105, 109, 101, 115, 116, 97, 109, 112>>,
                    array |-> -1]

(* What writeMessageFormat asks of a format, besides that it is a new one.  *)
HasNames(name, fields) ==
    /\ IsName(name, FormatCharacters)
    /\ \A i \in 1 .. Len(fields) : IsName(fields[i].name, FieldCharacters)

HasBasicTypes(fields) == \A i \in 1 .. Len(fields) : fields[i].type \in BasicTypes

-----------------------------------------------------------------------------
WriterInit ==
    /\ headerComplete = FALSE
    /\ formats = <<>>
    /\ subscriptions = <<>>
    /\ log = <<>>
    /\ done = <<>>

(* The call `what' writes m and returns, or finds it too long and throws.   *)
Writes(what, m) ==
    /\ Len(done) < MaxCalls
    /\ IF Fits(m) THEN log' = Append(log, m) /\ done' = Append(done, what)
                  ELSE UNCHANGED <<log, done>>

(* writeInfo, writeParameter and writeParameterChange, of a key and a value *)
WriteKeyed(call, type, key, value) ==
    /\ headerComplete = (call = "writeParameterChange")
    /\ KeyFits(InfoField(key, value))
    /\ Writes([call |-> call, key |-> key, value |-> value],
              KeyedMessage(type, InfoField(key, value), value.bytes))
    /\ UNCHANGED <<headerComplete, formats, subscriptions>>

AddsFormat(name, fields) ==
    /\ ~ headerComplete
    /\ name \notin DOMAIN formats
    /\ formats' = [n \in DOMAIN formats \union {name} |-> IF n = name THEN fields ELSE formats[n]]
    /\ Writes([call |-> "writeMessageFormat", name |-> name, fields |-> fields],
              FormatMessage(name, FieldTexts(fields)))
    /\ UNCHANGED <<headerComplete, subscriptions>>

WriteMessageFormatPadded(name, fields) ==      \* mutant: no check for padding
    TimestampFirst(fields) /\ HasNames(name, fields) /\ HasBasicTypes(fields)
      /\ AddsFormat(name, fields)

WriteMessageFormatNamed(name, fields) ==      \* mutant: no check of names
    TimestampFirst(fields) /\ HasBasicTypes(fields) /\ NeedsNoPadding(fields)
      /\ AddsFormat(name, fields)

WriteMessageFormat(name, fields) ==
    /\ TimestampFirst(fields)
    /\ HasNames(name, fields)
    /\ HasBasicTypes(fields)
    /\ NeedsNoPadding(fields)
    /\ AddsFormat(name, fields)

HeaderComplete ==
    /\ ~ headerComplete
    /\ headerComplete' = TRUE
    /\ UNCHANGED <<formats, subscriptions, log, done>>

(* The id returned is the place in _subscriptions, as a uint16_t.           *)
IdReturned == Len(subscriptions) % 65536

WriteAddLoggedMessage(name, multi) ==
    /\ headerComplete
    /\ name \in DOMAIN formats
    /\ Len(subscriptions) < MaxCalls
    /\ subscriptions' = Append(subscriptions, MessageSize(formats[name]))
    /\ Writes([call |-> "writeAddLoggedMessage", name |-> name, multi |-> multi, id |-> IdReturned],
              AddMessage(multi, IdReturned, name))
    /\ UNCHANGED <<headerComplete, formats>>

WriteTextMessage(text) ==
    /\ headerComplete
    /\ Writes([call |-> "writeTextMessage", text |-> text],
              TextMessage(LOGGING, text.level, text.stamp, text.text))
    /\ UNCHANGED <<headerComplete, formats, subscriptions>>

(* The data given may be longer than the message: a struct has padding at   *)
(* its end, and only the first bytes are written.                           *)
WriteData(id, data, call) ==
    /\ headerComplete
    /\ id < Len(subscriptions)
    /\ Len(data) >= subscriptions[id + 1]
    /\ Writes(call, DataMessage(id, SubSeq(data, 1, subscriptions[id + 1])))
    /\ UNCHANGED <<headerComplete, formats, subscriptions>>

(* What an application does with an id: it writes structs of the type it    *)
(* subscribed.                                                              *)
SubscribedAs(id) ==
    {done[i].name : i \in {j \in 1 .. Len(done) :
                            done[j].call = "writeAddLoggedMessage" /\ done[j].id = id}}

Write ==
    \/ \E key \in Keys, value \in Values :
         \/ WriteKeyed("writeInfo", INFO, key, value)
         \/ /\ value.type # "std::string"
            /\ \/ WriteKeyed("writeParameter", PARAMETER, key, value)
               \/ WriteKeyed("writeParameterChange", PARAMETER, key, value)
    \/ \E given \in FormatsGiven : WriteMessageFormat(given.name, given.fields)
    \/ \E name \in DOMAIN formats, multi \in MultiIds : WriteAddLoggedMessage(name, multi)
    \/ HeaderComplete
    \/ \E text \in Texts : WriteTextMessage(text)
    \/ \E id \in 0 .. Len(subscriptions) - 1, content \in Contents :
         \E name \in SubscribedAs(id) :
           WriteData(id, StructOf(formats[name], content),
                     [call |-> "writeData", id |-> id, content |-> content])
=============================================================================
