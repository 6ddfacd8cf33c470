------------------------------ MODULE RoundTrip ------------------------------
(***************************************************************************)
(* What SimpleWriter writes, Reader and DataContainer read: the writer's   *)
(* log, taken message by message through the reader's dispatch into a data *)
(* container, at any distance behind the writer. How the reader finds the  *)
(* messages in chunks of bytes is the subject of module Reader.            *)
(***************************************************************************)
EXTENDS SimpleWriter, Handlers

CONSTANT StorageConfigs

VARIABLES read,          \* how many messages of the log were read
          readerState,   \* Reader::_state
          container      \* the DataContainer

vars == <<headerComplete, formats, subscriptions, log, done, read, readerState, container>>

Init ==
    /\ WriterInit
    /\ read = 0
    /\ readerState = ReadingMagic
    /\ container \in {Unfilled(config) : config \in StorageConfigs}

WriterStep == Write /\ UNCHANGED <<read, readerState, container>>

ReadFileHeader ==
    /\ readerState = ReadingMagic
    /\ HasMagic(FileHeader)
    /\ container' = Told(container, FlagBitsCalls(SubSeq(FileHeader, FileHeaderLen + 1, Len(FileHeader))),
                         PrologueOf(FileHeader))
    /\ readerState' = ReadingHeader
    /\ UNCHANGED <<headerComplete, formats, subscriptions, log, done, read>>

(* A rejected message is reported and ends the reading here.                *)
ReadMessage ==
    /\ readerState \in {ReadingHeader, ReadingData}
    /\ container.errors = 0
    /\ read < Len(log)
    /\ read' = read + 1
    /\ LET m == log[read + 1]
           h == Handling(readerState, m, Accepts(container, readerState, m))
       IN  /\ readerState' = h.state
           /\ container' = Told(container,
                                h.calls \o IF h.outcome = Parsed THEN <<>> ELSE <<"error">>, m)
    /\ UNCHANGED <<headerComplete, formats, subscriptions, log, done>>

Next == WriterStep \/ ReadFileHeader \/ ReadMessage

Spec == Init /\ [][Next]_vars

-----------------------------------------------------------------------------
(* Every message of the log has the length its own header says. *)
TypeOK ==
    /\ headerComplete \in BOOLEAN
    /\ \A name \in DOMAIN formats : [name |-> name, fields |-> formats[name]] \in FormatsGiven
    /\ subscriptions \in Seq(Nat)
    /\ \A i \in 1 .. Len(log) : log[i] \in Seq(Byte) /\ Len(log[i]) = MsgLen(log[i])
    /\ Len(done) = Len(log)
    /\ read \in 0 .. Len(log)
    /\ readerState \in States

(* The reader finds no corruption in what SimpleWriter wrote, and the data  *)
(* container takes all of it: no message is shorter than the reader wants,  *)
(* no id is subscribed twice or used before it is. (For texts of a byte at  *)
(* least: the reader's smallest text message has one, the writer's none.)   *)
NoErrors == container.errors = 0

(* Once read to its end, a log holds what the application wrote: every      *)
(* format, the texts in order, and under each id it was given the structs   *)
(* it wrote with it, in order, each field with its value where the format   *)
(* says it is: the compiler's padding is nowhere in between.                *)
Done(call)   == SelectSeq(done, LAMBDA c : c.call = call)
DoneSet(call) == {c \in {done[i] : i \in 1 .. Len(done)} : c.call = call}

WrittenFor(sub) ==
    LET calls == SelectSeq(done, LAMBDA c : c.call = "writeData" /\ c.id = sub.id)
    IN  [name |-> sub.name, multi |-> sub.multi,
         data |-> [i \in 1 .. Len(calls) |-> MessageOf(formats[sub.name], calls[i].content)]]

AllRead == readerState # ReadingMagic /\ read = Len(log)

FormatsReadBack ==
    container.formats =
      [n \in {c.name : c \in DoneSet("writeMessageFormat")} |-> FieldTexts(formats[n])]

DataReadsBack ==
    /\ container.logging =
         [i \in 1 .. Len(Done("writeTextMessage")) |-> Done("writeTextMessage")[i].text]
    /\ DOMAIN container.subscriptions = {c.id : c \in DoneSet("writeAddLoggedMessage")}
    /\ \A c \in DoneSet("writeAddLoggedMessage") : container.subscriptions[c.id] = WrittenFor(c)

ReadsBack ==
    AllRead => FormatsReadBack /\ (container.config = "FullLog" => DataReadsBack)

(* value() of an info gives, in its type, what writeInfo was given: for a   *)
(* key written twice the first. A parameter is one of those written.        *)
ValueOfKept(kept) == Value(kept.field, kept.value)

FirstValue(key) ==
    LET calls == Done("writeInfo")
    IN  calls[CHOOSE i \in 1 .. Len(calls) :
                calls[i].key = key /\ \A j \in 1 .. i - 1 : calls[j].key # key].value

ParametersKept ==
    {container.initialParameters[k] : k \in DOMAIN container.initialParameters}
      \union Range(container.changedParameters)

ValuesReadBack ==
    AllRead =>
      /\ DOMAIN container.info = {c.key : c \in DoneSet("writeInfo")}
      /\ \A key \in DOMAIN container.info : ValueOfKept(container.info[key]) = FirstValue(key)
      /\ \A kept \in ParametersKept :
           \E c \in DoneSet("writeParameter") \union DoneSet("writeParameterChange") :
             NameOf(kept.field) = c.key /\ ValueOfKept(kept) = c.value

(* "Write a parameter change": a call behind headerComplete. But the log    *)
(* does not hold that call, and the reader ends the header with the first   *)
(* subscription or text: a change before that is read as the initial value, *)
(* or dropped for the one there is.                                         *)
ChangesReadBack ==
    AllRead /\ container.config = "FullLog" =>
      container.changedParameters =
        [i \in 1 .. Len(Done("writeParameterChange")) |->
           LET c == Done("writeParameterChange")[i]
           IN  [field |-> InfoField(c.key, c.value), value |-> c.value.bytes]]
==============================================================================
