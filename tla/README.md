# ULog reader and writers in TLA+

A verification project for My_Ulog, a C++ library that reads and writes ULog
flight logs (a fork of `ulog_cpp` with a rotating logger, `zz_data_log`, added).
The modules model the parser, the messages in both directions, the two loggers,
the threads that share one of them, and the in-memory container; TLC checks them
on small logs and short call sequences, and TLAPS proves the invariants that
matter most for all values of the constants.

File names below are relative to the repository.

## 1. The system

| component | state | operations |
|---|---|---|
| `Reader` (`src/reader.cpp`) | `_state` (magic, flag bits, header, data, invalid), partial message buffer with length and capacity, `_need_recovery`, `_corruption_reported` | `readChunk`; inside it `readMagic`, `readFlagBits`, `readHeaderMessage`, `readDataMessage`, `corruptionDetected`, `appendToPartialBuffer`, `tryToRecover` |
| message classes (`src/messages.cpp`) | none | construct from bytes (may throw), construct from values, `serialize` |
| `DataHandlerInterface` | none | the callbacks the reader makes |
| `DataContainer` (`src/data_container.cpp`) | maps and lists of what was read, `_header_complete`, stored errors | one per callback; some refuse with an exception |
| `Writer` (`src/writer.cpp`) | `_header_complete` | the same callbacks: serialize one message into a write callback |
| `SimpleWriter` (`src/simple_writer.cpp`) | `_writer`, `_file`, `_header_complete`, `_formats`, `_subscriptions` | `write…`, `headerComplete`, `fsync` |
| `zz_data_log` (`src/zz_data_log.cpp`) | as `SimpleWriter`, and the shared instance, `id_map_`, `mutex_`, `ZzDataLogOn_`, `_currentFileSize`, the cached `init_params_`, a static counter in `Write` | `CreateInstance`, `GetInstance`, `Init`, `Write`, all of `SimpleWriter`'s, rotation inside `writeDataImpl` |

How they interact. An application writes through a logger; the logger checks the
order of the calls and hands message objects to its `Writer`, which serializes
them into a file or callback. Another application feeds the file to a `Reader`
in chunks of any size; the reader calls a `DataHandlerInterface`, a
`DataContainer` or, to copy a log, a `Writer`, whose exceptions come back to the
reader as if the log were corrupt. All of this runs in one thread, except
`zz_data_log`: `examples/logger_test.cpp` shares one between threads. `Write`
locks a mutex; `fsync`, `CreateInstance` and `writeData` do not.

What is hard, and the properties that make each part right:

* **Reader**: any message, or its three byte header, may be split over chunks;
  bytes live in the chunk, in the buffer, or in both while a recovery moves them;
  a recovery calls `readChunk` again. Right means: the calls depend on the log
  and not on its cuts; nothing is lost, doubled, reordered; every call returns;
  the handler sees header before data.
* **Messages**: two directions written by hand. Right means: what a constructor
  takes apart, `serialize` puts together, for every kind of message.
* **zz_data_log**: a rotation is a sequence of steps (close, clear, name, open,
  replay `Init`, write) most of which can throw. Right means: the files together
  hold what was written, each readable by itself, each datum under its own type;
  a failure leaves a logger that refuses calls.
* **its threads**: one may rotate while the others wait, flush or switch the
  logger off. Right means: writes are those of one thread in the order of the
  mutex, and messages are not torn.
* **SimpleWriter with DataContainer**: right means that what was written is read.

## 2. Modules

| module | models | built on |
|---|---|---|
| `ULogMessages` | message headers, and how the constructor from bytes ends: parsed, `ParsingException`, or a foreign exception of `std::stoi`, whose reading of a number is defined here | |
| `Fields` | the basic types, the text of a field, the decoding of a value | `ULogMessages` |
| `Serialization` | what each constructor keeps of a message's bytes, and `serialize` | `Fields` |
| `ReaderDispatch` | `readHeaderMessage`, `readDataMessage`, the dispatch in `readChunk`, the checks of the prologue, the test for a sane header | `ULogMessages` |
| `Reader` | `Reader`: one action per turn of a loop | `ReaderDispatch` |
| `LogParser` | **abstract specification** of the reader: a cursor that moves forward over the log | `ReaderDispatch` |
| `Writer` | `Writer` as a data handler: a record, and what each callback does to it | `Serialization` |
| `DataContainer` | the container, in the same way | `Serialization` |
| `Handlers` | the two handlers as one, behind the reader's dispatch | the two before, `ReaderDispatch` |
| `LogReference` | **reference definition**: calls and handler for a whole log, message by message instead of chunk by chunk | `Handlers` |
| `LogReading` | a `Reader` with a `Writer` or a `DataContainer` as its handler | `Reader`, `LogReference` |
| `LogFileName` | `isValidFilename`, `generateNewFilename`, `generateNewPathOrFilename` | |
| `ZzDataLog` | `zz_data_log` and its `Writer`: one action per public method | `LogFileName` |
| `ZzThreads` | the same logger shared by threads: one action per access to shared state | `ZzDataLog` |
| `FieldLayout` | sizes of fields and of formats, and how a compiler lays out a struct | `Fields` |
| `SimpleWriter` | `SimpleWriter`, every writing call | `Serialization`, `FieldLayout` |
| `RoundTrip` | a `SimpleWriter` whose log a reader takes into a `DataContainer`, at any distance | `SimpleWriter`, `Handlers` |
| `MCReader`, `MCLogReading`, `MCZzDataLog`, `MCZzThreads`, `MCRoundTrip` | instances for TLC | |
| `ReaderProofs` | theorems and proofs: the buffer, progress, the callbacks, the refinement of `LogParser` | `Reader` |
| `LogReadingProofs` | theorems and proofs: the calls and the handler are those of the whole log; what a store of the header keeps | `LogReading`, `ReaderProofs`, `RecursionProofs` |
| `RecursionProofs` | lemmas: induction over a set of numbers, and what recursive functions compute | |
| `ZzDataLogProofs`, `ZzDataLogRecords` | theorems and proofs: the logger's flags, types, files and ids; the data over rotations | `ZzDataLog`, `RecursionProofs`, each on the one before |
| `ZzThreadsProofs` | theorems and proofs about the threads | `ZzThreads`, `ZzDataLogRecords` |
| `MessageProofs` | theorems and proofs: what is serialized is parsed | `Serialization`, `ReaderDispatch`, `RecursionProofs` |
| `RoundTripProofs` | theorems and proofs about the writer and the reader behind it | `RoundTrip`, `MessageProofs` |

`LogParser` and `LogReference` are specifications, not translations, and so
have no lines in the map. Definitions named as mutants in a comment are
plausible bugs; each property is shown to fail with one of them.

**Reader.** `stream` is the caller's log, `fed` how much of it was handed over,
`length` the unread rest of the running chunk (the code's `length`), `pc` where
the running call is. A chunk's unread bytes are then the last `length` of
`stream[1..fed]`, so no second copy of the data is kept. `ReadChunk` is the call;
`ReadMagic` and `ReadFlagBits` are the prologue; `CompletePartial`,
`ExtendPartial`, `TakeWhole` and `StartPartial` are the four ways through the
body of the loop (a message completed in the buffer, not completed, taken from
the chunk, begun in the buffer); `LeaveLoop` is its exit and the call of
`tryToRecover`; `RecoverShort`, `RecoverNothing` and `RecoverFound` are the ways
through the body of the recovery. The nested `readChunk` is a jump back to
`Entry`: nothing is done after it returns, so no stack is needed. `calls`
records every callback with the position in the log it was made for; errors that
are not recoverable appear as `fatal`.

Messages are real bytes, since framing and recovery look at any byte as if it
began a header. `Reader` looks at what is *in* a message as far as its
constructor's checks do, and lets any handler refuse any message.

**LogReading.** The steps are the reader's, but a message is refused when, and
only when, the handler of this run refuses it; `Listening` lets the handler take
the callbacks a step has added to `calls`. A handler is a record: a `Writer`'s
has the bytes it wrote, a `DataContainer`'s the maps and lists it filled. A
container that has everything keeps default parameters under their types, multi
infos as lists of lists, and after a refused continuation the empty list that
`operator[]` has made.

**ZzDataLog.** `writer` is `null`, or the `_header_complete` of the Writer:
`header` or `data`. `file` is `null`, `open`, or `closed`: handed to `fclose` and
still in `_file`. A file is the sequence of the records in it; files a rotation
closed are in `closedLogs`. `result` is how the last call ended, undefined
behaviour among the ways; after that the model stops. `serial` numbers the
calls, so that each datum can be told apart, and `logged` has the numbers of the
data calls that returned. What `writeMessageFormat` checks with regular
expressions and padding rules is one set, `Refused`; structs without a name or
fields are `Nameless`. A message that is too long for its size field is refused
by `serialize`, with a `ParsingException`, behind what the call has done to the
logger before: a format is registered (`Rejected`, `WriteMessageFormat`), a
subscription is in `_subscriptions`, data is counted (`AppendData`) or has
rotated the file (`Resumed`). Which formats, names and infos of `Init` are too
long are sets, `LongFormats`, `LongNames`, `LongInfos`; data is so by its size
and `MaxPayload`; and of the other messages either may be true (`fits`), as
nothing is left behind by them. A rotation is `Rotate`, with the failure of each
step as a disjunct or, for the replayed `Init`, inside `Initialized`, which both
`Init`s share.

**ZzThreads.** The variables of `ZzDataLog`, and for each thread where it is in
its call (`pc`) and its local variables (`own`). A step is what lies between two
accesses to shared state. `Lock` … `Counted` are `Write`, from the lock to the
counter that makes every tenth record flush; `Check` and `Grow` are the
beginning of `writeDataImpl`, `Reset` … `Replay` its rotation, which ends in an
exception at `Name`, `Open` or `Replay`; `SerializeHead` and `SerializeBody` are
the two `fwrite`s of a data message, and a head stands in the log as a record of
its own; data whose size, as `Check` has copied it (`own.length`), is too long
for a message leaves at `SerializeHead` with an exception. `Test`, `Flush` and
`Sync` are the three looks of `fsync` at `_file`, which `Write` takes under its
mutex and main without; `Toggle` is `CreateInstance` on an existing instance,
which sets `ZzDataLogOn_`. The replayed `Init` is one step, for it uses nothing
the other threads touch meanwhile but the file, which is open. `undefined` becomes true
when a closed `FILE` or a destroyed `Writer` is used. `before` and `seen` are
history variables for the refinement mapping.

**RoundTrip.** `SimpleWriter` writes real bytes, `RoundTrip!ReadMessage` reads
them one message at a time through the same `ReaderDispatch` as the reader, into
a `DataContainer`. Framing is left to `Reader`. A format is a name and a list of
fields with type, name and array length; a value has a type and bytes. The
structs an application passes to `writeData` are laid out by `FieldLayout` as a
compiler does, each field at a multiple of its size, and are compared with the
bytes that come back.

## 3. What TLC checks

Runs that pass:

| run | question | bounds and result |
|---|---|---|
| `safety` | does the reader keep its buffer, its order of calls and its promise (`ImplementsLogParser`) for every cut, whatever its handler refuses? | 19 logs, every way to cut them into chunks, every handler verdict; `BufferSizeInit` 6 instead of 2048, so that the buffer is smaller than most messages; 101 305 states |
| `returns` | does each `readChunk` return? | 3 logs with repeated corruption, weak fairness; 9 447 states |
| `copy` | with the real handlers: are calls and contents those of the uncut log, and is a copy faithful? | 21 logs, every cut, `Writer` and both storage configurations of `DataContainer`; 421 149 states |
| `managed` | `Init` and `Write` over rotations | 4 types, one whose format and one whose data is too long, files that are full after two or three records, 6 calls: two rotations fit; 884 080 states |
| `anycall` | all methods in any order, from each constructor, with names with and without a version | 5 types: one fine, two too long, one of them by its name, one refused, one nameless; a key that is too long; 5 calls: a set-up, a rotation and calls after it; 1 518 922 states |
| `threads` | is a logger that threads share the logger of one thread? | two writers with 3 calls each, of different types, main with 2 calls of `fsync`, `CreateInstance`, or a `Write` of data too long, files that are full after one or two records; `FlushEvery` 2 instead of 10; 254 124 states |
| `roundtrip` | is what was written read? | 8 formats, of which 2 are written and 6 refused for a reason each, integers and strings, structs with padding at the end, 5 calls; 497 360 states |

The logs of `safety` hold every message type, every kind of message the code
refuses, a message of size and of type zero, junk without a header, corruption
before and after the end of the header, refused magic and flags, a flag message
that is longer than the reader knows, and a length `std::stoi` refuses. All
lengths of chunks are allowed, which includes cuts inside headers and inside
corrupt stretches. `copy` adds logs whose bytes a copy changes (a level below
the known ones, an array length in another notation, messages longer than they
need be), logs the handlers refuse parts of (a format and an id twice, a multi
info that continues nothing), the log that `std::stoi` refuses, one whose
header goes on behind such a message, and one that ends with an empty message,
and leaves out refused prologues, where no calls
follow, and the longer flag message.

`SizeOf` 4 with a `MessageSize` of 3 gives a type with padding at its end.
`MaxFileSize` 8 makes `>=` and `>` differ (4 + 4), and leaves room for two of the
smaller records. Three calls of each of two threads fill a file, rotate, and
reach every step of the rotation with the other thread at each of its own
steps. `MaxPayload` 60 instead of 65535 makes one format of `roundtrip` too long
to be written; in the runs of the rotating logger it is 5, which is enough for
the id and data of 3 bytes, and not for the 4 of type `wide`.

Deadlock is not checked: a log ends, calls are bounded (`MaxCalls`, `Calls`), and
after undefined behaviour there is no next call. That a thread is not left
waiting for the mutex is `CallsReturn` of `threads`.

Properties, by hazard:

* *Chunks*: `BufferIsContiguous` (the buffer is exactly the bytes before the
  unread rest, also while a chunk behind a refused prologue is framed), `ChunkingInvisible`, `NothingMissed`, `DeliveredInOrder`,
  `DeliveredAtOnce`.
* *Recovery*: `BufferFits`, `RecoveryAppends`, `StepsDescend` (what is left to do
  gets less with each step of a call), `CallsReturn`, and in `ImplementsLogParser` that no possible header is
  passed over.
* *Order*: `CallbackOrder`, `FatalIsFinal`.
* *Both directions*: `CopyIsStable` (a copy of a copy is the copy),
  `CopyReadsAlike` (a container gets from a copy what it gets from the log).
* *Container*: `PartsStayTogether`, `OnlyHeaderKept`.
* *Rotation*: `DataIsAttributed`, `DataIsLoggedOnce`, `RotationKeepsIds`,
  `FilesAreReadable`, `IdsAreSubscribed`, `RoomIsLeft`, `FileSizeIsBounded`.
  `FilesAreReadable` asks that a file defines what it subscribes, except formats
  too long to be written, for which the code does not keep it (see below).
* *Failed rotation*: `LayersAgree`, `WriterHasOpenFile`, `WriteIsDefined`.
* *Threads*: `WritesAreAtomic` (the refinement: when a thread lets go of the
  mutex, it has done what the one action `ZzDataLog!Write` does, and the logger
  does not change otherwise), `MessagesAreWhole`, `WriteIsSafe` (only an `fsync`
  without the mutex can meet a closed `FILE`), `FlushKeepsUp` (what a crash can
  cost is less than `FlushEvery` records of each type, also after a rotation),
  `CallsReturn`.
* *Round trip*: `NoErrors`, `ReadsBack`, `ValuesReadBack`.

Runs that find a violation, each of something the repository says of itself:

| run | said | done |
|---|---|---|
| `buffer` | `reader.hpp`: the buffer contains at most one message unless recovering | after a recovery it holds all that the chunk ended with, undelivered |
| `undefined` | `zz_data_log.hpp`: a wrong call throws a `UsageException` | after a failed rotation `fsync` uses a closed `FILE`, `Init` a null Writer |
| `reinit` | an id is good for the data it was given for | after a refused `Init`, a second one and a rotation, ids have moved |
| `fsync` | `zz_data_log.hpp`: flush the buffer and call fsync on the file | while another thread's `Write` rotates, it flushes the closed `FILE` |
| `change` | `simple_writer.hpp`: writes a parameter change | read as initial parameter, or dropped, when nothing that ends the header came before |

Three more disagreements have no run of their own. Each is a single path that the
models contain:

* the exception of `std::stoi` that leaves `readChunk`, where `README.md` says
  that parsing can be continued (`safety` has such a log);
* the name "test.ulg", which `zz_data_log.hpp` says becomes "test.1.ulg" and which
  throws at the first rotation (`anycall` and `undefined` have such names);
* a format that `writeMessageFormat` refuses as too long after it has registered
  the name. `zz_data_log.hpp` says that a time series is based on a format from
  `writeMessageFormat`; but after `headerComplete`, `writeAddLoggedMessage` takes
  this name too, and the file has a subscription of a format it does not define
  (`anycall` has such formats; without its exception for them, TLC finds
  `FilesAreReadable` violated in three calls).

The violating runs use the same models with an instance chosen for the question;
the passing runs leave out what leads there: `managed` nameless structs, keys
that are too long and file names without a version; `anycall` nothing, since
`FilesAreReadable` names its exception; `roundtrip` no call, since its properties
say nothing of changed parameters; and `threads` nothing, since `WriteIsSafe`
names the exception. A key that is too long leads to ids that have moved as a
nameless struct does: `Init` caches it before the exception, a rotation fails at
it with the header still open, and a second `Init` then completes the new file
with a list that is not the cached one.

**Fairness.** `FairSpec` has weak fairness of `Step`, the steps of a running
call, and nothing else: a call that was made runs on, as C++ does, and nobody
owes the reader another chunk. Nothing can disable a step of the call, so weak
fairness is enough. `FairManaged` has weak fairness of `Continue(t)` for each
thread: an operating system lets each runnable thread run. A thread that waits
for the mutex is not runnable and is owed nothing; it gets the mutex because
calls are finitely many, and `std::mutex` promises no more. The other
specifications have none.

## 4. What is proved

TLAPS proves, for all values of the constants under the assumptions named in
the modules (`ASSUME`, which TLC evaluates for each instance):

| theorem | states | of |
|---|---|---|
| `ReaderProofs!TypeCorrect` | `TypeOK` | `Spec` of `Reader` |
| `NoByteLost` | `BufferIsContiguous` | |
| `NoOverrun` | `BufferFits` | |
| `RecoveryHasRoom` | `RecoveryAppends` | |
| `EveryStepDescends` | `StepsDescend` | |
| `SectionsInOrder` | `CallbackOrder` | |
| `NoMessageTwice` | `DeliveredInOrder` | |
| `NothingAfterFatal` | `FatalIsFinal` | |
| `DeliversAtOnce` | `DeliveredAtOnce` | |
| `ReaderImplementsLogParser` | `ImplementsLogParser` | |
| `LogReadingProofs!CutUnseen` | `ChunkingInvisible` | `Reading` of `LogReading`, with `FlagsFit` |
| `AllIsRead` | `NothingMissed` | with the same |
| `HeaderIsKept` | `OnlyHeaderKept` | with the same, handlers as the constructors make them (`FromConstructors`) |
| `ZzDataLogProofs!FlagsAgree` | `LayersAgree` | `Spec` of `ZzDataLog` |
| `NoWriterOnClosedFile` | `WriterHasOpenFile` | |
| `FileHasRoom` | `RoomIsLeft` | |
| `WriteStaysDefined` | `WriteIsDefined` | |
| `TypeCorrect` | `TypeOK` | |
| `FilesCanBeRead` | `FilesAreReadable`, which leaves out formats too long to be written | |
| `IdsStaySubscribed` | `IdsAreSubscribed` | with `FewTypes` |
| `ZzDataLogRecords!IdsSurviveRotation` | `RotationKeepsIds` | with `OnlyInit` |
| `DataStaysAttributed` | `DataIsAttributed` | with `ManagedCalls`, `FewTypes` |
| `NothingLostOrDoubled` | `DataIsLoggedOnce` | |
| `FilesStayBounded` | `FileSizeIsBounded` | with `Structs # {}` |
| `ZzThreadsProofs!WritesAreSafe` | `WriteIsSafe` | `Managed` of `ZzThreads` |
| `ThreadsTypeCorrect` | `ThreadsTypeOK` | |
| `MessagesStayWhole` | `MessagesAreWhole` | |
| `CrashCostsLittle` | `FlushKeepsUp` | |
| `WritesAreSerial` | `WritesAreAtomic` | with `EnoughCalls` |
| `RoundTripProofs!RoundTripTyped` | `TypeOK` | `Spec` of `RoundTrip`, with `TextsNotEmpty`, `IdsSuffice` |
| `RoundTripNoErrors` | `NoErrors` | with the same |
| `MessageProofs!FieldTextParsed` | the text of a field is parsed | no specification: of all bytes, names, numbers |
| `FormatGood`, `KeyedGood`, `AddGood`, `TextGood`, `DataGood` | a message that fits is parsed, with its name or its id | the same |

**Reader, the buffer** (`ReaderProofs`; `StreamsAssumption`, `ChunksAssumption`,
`BufferAssumption`: initial capacity above a header's 3 bytes,
`VerdictsAssumption`). The theorems come from one inductive invariant, `IInv`.
`BufferIsContiguous` is nearly inductive by itself: each action moves bytes
between chunk and buffer, and lemmas on `SubSeq` say that the two ends still
meet. What it lacks are the facts that make the recovery's cases exhaustive.
`RoomToRecover` is the interesting one: when a recovery begins, the buffer is
below its capacity, because a message either came from the chunk (the buffer is
empty) or was removed from the buffer; and a turn that finds nothing leaves at
most a header's three bytes, below any capacity (`Enlarged`). `RecoverMeans`,
`IdleConsumed` and `NothingBuffered` tie `pc` to `needRecovery`, `length` and the
prologue.

**Reader, progress**. The measure is
`<<Unhandled, length, Rank>>` in lexicographic order: bytes in chunk and buffer,
bytes in the chunk, the place in the call. A handled message lowers the first, a
byte moved from chunk to buffer the second, leaving a loop the third. The case
that needs an argument is `AddsSome`: a message that is not complete in the
buffer takes a byte of the chunk at least, because the length in its header does
not depend on what is behind it (`LengthOfPrefix`). A recovery that jumps back to
the loop raises `Rank`, but has taken a byte before (`RoomToRecover`).

**Reader, callbacks**. `CallsInv` adds to `IInv` what the callbacks
made so far say of `state` (`CallsTellState`: none in the prologue, only errors
once the data is invalid, the file header and no `headerComplete` in the header,
both in the data section), and that each was made for bytes behind the
cursor (`CallsBehind`). A step then adds few callbacks, and `OneByOne` says which
may come after which. `DeliversAtOnce` has an invariant of its own, `AtOnceInv`:
while nothing was corrupt, no complete message is left in the buffer between two
steps, because `ensure_enough_data` takes from the chunk no more than the message
at the front of the buffer needs, and that need does not change as bytes are
added (`LengthInBuffer`).

**Reader, refinement** (from both invariants). A step of the
reader maps to a step of `LogParser`, or to none:

| step of `Reader` | step of `LogParser` |
|---|---|
| `ReadChunk` | none; `Ignore` of what was handed over, once the data is invalid |
| `ReadMagic`, `ReadFlagBits` | `Open`, `ReadFlags`; `Refuse` |
| `CompletePartial`, `TakeWhole` | `Take`; `Break` where an exception leaves the reader |
| `ExtendPartial`, `StartPartial`, `LeaveLoop`, `RecoverShort` | none |
| `RecoverNothing`, `RecoverFound` | `Resync` (`Ignore` in invalid data): no possible header was passed over |

`NoByteLost` is what makes it true: the bytes that `Reader` frames in its buffer
are those that `LogParser` has at its cursor. `LogParser` instantiates
`ReaderDispatch` itself, and to a prover its operators are others than the
reader's: the lemmas `Same…` say that they are equal.

**Reader with its handlers** (`LogReadingProofs`; also `BothVerdicts`: the reader
allows for every verdict). `LogReference` reads a log without chunks: a reading
(`Opened`, then `Onward`) has a position, the calls made and the handler they
led to. `ReadInv` adds to `IInv` that calls and handler of the chunked reader are
those of one of the readings of the whole log (`Reached`), and that this reading
stands where the reader stands: at its cursor, or, while it searches after a
corruption, at the first possible header that is still ahead (`Heading`), or at
the end where there is none. So a step that moves bytes does not change the
reading, one that handles a message goes on to the next, and a search that moves
the cursor does not move past the reading (`SearchKeepsUp`). Readings go on until
nothing follows, and the calls of each begin those of the next (`ReadingsGo`,
`ReadingsEnd`), which gives `ChunkingInvisible`. For `NothingMissed`,
`LastSearched` says that a search which runs out of bytes leaves no more than a
header in the buffer. The theorems suppose of the logs that a flag bits message
is no longer than the reader knows it (`FlagsFit`): of a longer one the reader
skips what is in the chunk, and what it reads then depends on the cut. TLC found,
when the property was stated for every log, that a message of three bytes, a
header and nothing more, at the very end is reported or not depending on the cut,
because a chunk is framed only if it is longer than a header; `MessageWaits` has
that case.

`OnlyHeaderKept` compares the handler with a second reading, that of the log cut
before the message which ended the header. Every reading of a log is of the
header (`InHeader`) or of the data section behind one that was (`InData`):
`headerComplete` is the first callback of its message, and from it on a store of
the header changes its errors and its default parameters only (`Alike`,
`ToldAtTurn`, `ToldInData`; `ToldInTurn` takes the fold over the callbacks
apart). The readings of the cut log are those of the log (`CutStep`,
`CutReading`), because what is before the cut is the same, with one exception: a
refused message right before the cut leaves no possible header to go on at, so
the reading ends there, with the same store. TLC found the property false when
it was stated also behind an exception that leaves the reader: the rest of the
chunk is lost then, formats of the header with it, and what is kept depends on
the cut. `ForeignInHeader` is such a log, and `OnlyHeaderKept` says no more of it
than of the others, what holds until the exception.

**zz_data_log, flags** (`ZzDataLogProofs`; `StructsAssumption`, `SizeAssumption`:
each struct is smaller than a file, `IdsAssumption`, `CallsAssumption`). The
invariant adds to the properties that an open header means no ids (`NoIdsYet`:
`Write` is turned away before it reaches anything), that a logger past its header
has an open file (`FileIsOpen`), and what is known of the sizes.
`WriteStaysDefined` is for loggers that write to a file: a logger with a callback
has a null file, and its first rotation is undefined.

**zz_data_log, files** (also `NamesAssumption`,
`TextsAssumption`). `Initialized`, which both `Init`s share, is taken apart once:
it does nothing, or stops at a struct (`Stopping`), or gets to its end
(`Subscribing`), and lemmas say what a log gains in each case. `Shape` does the
same for `Next`. `TypeInv` has the types that `TypeOK` leaves out, those of
records for instance; the part of `TypeOK` that is more than a type, that a
cached file name keeps its extension, needs that the next name is valid again
when the last one was. `FilesInv` adds to readability that a file in its header
has nothing of the data section, and that every name in `_formats` that is not
too long is in the current file: the one thing `writeAddLoggedMessage` asks. Of
names that are too long the theorem says nothing: they stay registered, and the
file has nothing of them (section 3). `IdsStaySubscribed` has the hypothesis that
types are not more than ids. The code casts the number of subscriptions to
`uint16_t`, and without it the theorem is false: two types would share an id.

**zz_data_log, data** (`ZzDataLogRecords`). `CacheInv` says when a rotation repeats
what the file before it had: the cached list is the one this file was
initialized with, or a list that no file can be initialized with, because it
still has the struct for which an earlier `Init` stopped. It needs `OnlyInit`:
no call of `writeMessageFormat` or `headerComplete`, which complete a file that
no list initialized; no struct without a name, which stops an `Init` before it is
cached, so that run `reinit` shows ids that have moved; and infos that fit
(`InfosFit`), for a cached key that is too long stops each rotation whatever the
list is, and the new file is open to a list that is not the cached one.
`AttributedInv` says that every id `Write` looks up is subscribed in the current
file once and for its type. It needs `ManagedCalls`: neither `writeData`, which
takes any id from the application, nor `writeAddLoggedMessage`, which subscribes
behind the cache. `SizesInv` says that the counter is behind the file by at most
one record; it may be ahead of it, for data that is too long is counted before it
is refused. `Structs # {}` is there because without a type there is no record to
compare a file with.

**Induction over data.** What the folds over a log compute (`SerialsIn`, `BytesOf`)
are recursive functions, so they can be reasoned about. The library's induction
theorems take an operator, which no installed prover can instantiate;
`NatSetInduction` states induction for a *set* of numbers instead, and is proved
once from the well-foundedness of `<`. On it rest the lemmas of `RecursionProofs`:
the function a recursive definition means exists, and its last value is one step
behind the one before, so what a step preserves holds of the whole.

**Threads** (`ZzThreadsProofs`; also `ThreadsAssumption`: among others that the
`Init` of main succeeds), for any number of threads, programs and calls. `Guarded`
has mutual exclusion (`Exclusion`: a thread that is past the lock of a `Write`
holds the mutex), what the logger is when nobody holds it (`Settled`: it takes
data and its file is open, or it has no ids and turns each `Write` away), and what
the holder finds at each of its steps (`Expected`): a rotation that throws has
come past the point where the ids are cleared. `StepsInv` adds the types, and
what a rotation has made of the logger when it gets to a label (`HolderBuilds`),
which nobody else can have changed. `WholeInv` says that only the holder can have
written a head without its body, and that files which a rotation closed have
none. `FlushInv` bounds the records that are in the buffer only by the counter,
in a way that depends on where the holder is: past the `fwrite` and not yet
counted, or counted to `FlushEvery` and on its way to `fflush`.

**Threads, refinement** (`WritesAreSerial`, from `Guarded` and `StepsInv`). The
steps of `Write` map to `ZzDataLog!Write` where the thread lets go of the mutex,
and to nothing elsewhere; a step without the mutex maps to nothing. `SoFarInv`
says for each label what the `Write` that holds the mutex has made of the logger
it found (`before`): nothing up to `grow`, with the length of its data as the
subscription said it, the new size, the file it closed (`OldClosed`), the new
name (`NamedAnew`), at last the data behind the file as it was (`HasRoom`) or
behind what the replayed `Init` has written (`HasRotated`). Nobody else can have touched it, by `Exclusion`. Each way to return is then one
outcome of `Write`:

| the step that returns | outcome of `ZzDataLog!Write` |
|---|---|
| `Lookup`, `Check` | a `UsageException`, the logger as it was |
| `LeaveOff` | nothing is done |
| `Name`, `Open`, `Replay` | `Rotate`, with the exception of the name, of `fopen`, of `Init` |
| `SerializeHead` | `AppendData`, or a `Rotate` that gets to its end, with data too long: `ParsingException` |
| `Counted`, `Test`, `Sync` | `AppendData`, or a `Rotate` that succeeds |

A `head` in the log is not a record of `ZzDataLog`: `WithoutHeads` leaves it out
and is a recursive function, taken apart like the folds above. `EnoughCalls` ties
the bounds of the two modules together: `ZzDataLog` stops at `MaxCalls` calls, so
the threads' programs must not have more; `AdmittedInv` counts the calls that got
the mutex. Run `threads` has eight calls and `MaxCalls = 8`.

**Messages** (`MessageProofs`; `PayloadAssumption`). The constructors look for
colons, semicolons, spaces and brackets in bytes, so the lemmas say where in a
text these can be: a type is letters and digits, a length is digits
(`DecimalTyped`), a name has none of the separators (`Free`). `Divides` says that
a text is two parts with one separator between, `Closed` that each field of a
format's text ends at a semicolon, by induction over the fields. That
`std::stoi` does not throw on a length is `StoiReads`: its digits, as
`std::to_string` writes them, are not above those of the largest `int`
(`DecimalBelow`, by induction over the digits). `Message` and `Parts` then say
what is in a message, byte by byte, and `Good` that the reader builds an object
from it.

**Round trip** (`RoundTripProofs`; `WriterAssumption`). `RoundTripInv` has one
part for the writer and one for the reader behind it. `WriterInv` says of the
log: each message is `Good`, no format and no id is there twice, and data is
under an id that was subscribed before it. Its names are registered ones, and its
ids are less than the number of subscriptions (`LogOk`), so that the next id is
a new one. `ReadInv` says that the container has
accepted what was read so far: no error, and of names and ids exactly those of
the messages read, or fewer where it stores the header only (`Knows`). The next
message of the log is then one that the container takes, because the log has its
name or its id for the first time, or had the id of its data before. Neither
part is inductive without the other, as a container refuses names and ids it
has, whoever wrote them. The hypotheses are what the code leaves to the
application. `TextsNotEmpty`: the reader takes an empty text message for
corruption. `IdsSuffice`: the id is a `uint16_t`, and with more than 65536
subscriptions one is there twice and its subscription is refused. Sizes of
fields are natural numbers here; the code's `unsigned` agrees for structs of less
than 2 GB.

Only model-checked: `CopyIsStable`, `CopyReadsAlike` and `PartsStayTogether`,
which compare a container or a copy with a filtered and sorted log, through
operators of the libraries (`SelectSeq`, `SetToSortSeq`, `@@`) of which the
provers know nothing but their recursive definitions; `ReadsBack` and `ValuesReadBack`, what a whole log contains when it
is read to its end: every number and text would have to be followed through
serialization and back; and `CallsReturn` of both modules: liveness is out of
TLAPS's reach.

## 5. Where the models stop

* A flag bits message that is longer than its chunk takes `length` below zero;
  the model puts it at 0, which the loop cannot tell apart.
* `readChunk` with length 0 or less is not modelled.
* No `headerComplete` callback throws (none in the repository does).
* Numbers stay bytes: `Value` gives a type and the bytes `memcpy` would take.
  The text of a log level is left out.
* Directories in front of a file name are copied by the code and left out, and
  versions out of `int`'s range do not occur in file names.
* `fopen` may fail in a rotation; `fwrite`, `fflush` and disks do not fail.
* `ZzDataLogOn_` has either value at first, as it is read uninitialized in
  loggers not made by `CreateInstance`.
* Texts and strings have a byte at least: the reader refuses the empty text
  messages that the writers write (`LOGGING` of size 9; it wants 10), and gives
  an empty string back as an array of no bytes.
* Threads call `Write`, `fsync` and `CreateInstance` on an existing instance.
  Calls of `writeData` and `writeTextMessage` without the mutex from several
  threads, as in one mode of `examples/logger_test.cpp`, and the creation of the
  instance by two threads at once are not modelled. Of a race on an `int` or a
  `bool` the model has the interleavings of its reads and writes, not the whole
  of what C++ leaves undefined.
* The 65537th subscription gets an id a second time in both writer models; no
  run makes so many, and the theorems about ids have the hypothesis that there
  are not so many.

### Not modelled

The examples and the generator of structs, which are applications without state
of their own; the tests and the build.

## 6. Plan

Done: the reader with its abstract specification and with its real handlers,
messages in both directions, the container complete, the rotating logger with
one thread and with several, the round trip with typed values, the proofs of
section 4.
Next, in this order:

1. `ReadsBack` as a theorem, from the relation of `done` to the log that
   `WriterInv` has.
2. `writeData` without the mutex: the run that shows a torn message.
