------------------------------ MODULE ZzThreads ------------------------------
(***************************************************************************)
(* One zz_data_log shared by threads, as in examples/logger_test.cpp.      *)
(* Write holds mutex_ for the whole call; fsync and CreateInstance, which  *)
(* threads call beside it, take no lock. A step is what a thread does      *)
(* between two accesses to shared state, so that the rotation of one       *)
(* thread is seen half done by the others. The state is that of ZzDataLog, *)
(* whose calls are the calls of this module done in one step. The methods  *)
(* main calls before it starts the threads are not called from here.       *)
(*                                                                         *)
(* A message reaches the FILE in two fwrites at least, its head and its    *)
(* body (messages.cpp:425-426): a head is a record of its own in the log.  *)
(***************************************************************************)
EXTENDS ZzDataLog, FiniteSets

CONSTANTS Threads,      \* the threads that share the logger
          Program,      \* which methods a thread calls
          TypeOf,       \* the type of the data a thread writes
          Calls,        \* how many calls a thread makes
          AllStructs,   \* what main passed to Init
          FlushEvery,   \* Write calls fsync at every FlushEvery-th record of a type: 10
          Free          \* mutex_ when nobody holds it

ASSUME ThreadsAssumption ==
    /\ TypeOf \in [Threads -> Structs]
    /\ Calls \in [Threads -> Nat]
    /\ AllStructs \in Seq(Structs) /\ Stops(NewFile, AllStructs) = {}      \* its Init succeeds
    /\ <<"k", "k">> \notin LongInfos
    /\ FlushEvery \in Nat \ {0}
    /\ Free \notin Threads

VARIABLES lock,       \* the thread that holds mutex_, or Free
          pc,         \* where each thread is in its call, "idle" between calls
          own,        \* the local variables of its call
          made,       \* the calls it has begun
          count,      \* the static counter in Write<T>, for each type
          flushed,    \* how much of the log is beyond stdio's buffer
          undefined,  \* a closed FILE or a destroyed Writer was used
          before,     \* history: the logger when the lock was taken
          seen        \* history: ZzDataLogOn_ as the last Write read it

loggerVars == <<writer, file, headerComplete, formats, subscriptions, idMap,
                currentFileSize, initParams, log, closedLogs>>
threadVars == <<vars, lock, pc, own, made, count, flushed, undefined, before, seen>>

Logger == [writer |-> writer, file |-> file, headerComplete |-> headerComplete,
           formats |-> formats, subscriptions |-> subscriptions, idMap |-> idMap,
           currentFileSize |-> currentFileSize, initParams |-> initParams, log |-> log,
           closedLogs |-> closedLogs, serial |-> serial, logged |-> logged, result |-> result]

Local == [id |-> 0, number |-> 0, size |-> 0, length |-> 0]

-----------------------------------------------------------------------------
(* main: CreateInstance and Init, before it starts the threads.             *)
ThreadsInit ==
    LET c == Subscribed(Registered(NewFile, AllStructs), AllStructs)
    IN  /\ writer = c.writer /\ headerComplete = c.headerComplete /\ formats = c.formats
        /\ subscriptions = c.subscriptions /\ idMap = c.idMap /\ log = c.log
        /\ \E name \in Names :
             initParams = [fileName |-> name, key |-> "k", value |-> "k", structs |-> AllStructs]
        /\ file = "open" /\ on \in BOOLEAN /\ currentFileSize = 0 /\ closedLogs = <<>>
        /\ serial = 0 /\ logged = <<>> /\ result = Ok
        /\ lock = Free /\ pc = [t \in Threads |-> "idle"] /\ own = [t \in Threads |-> Local]
        /\ made = [t \in Threads |-> 0] /\ count = [s \in Structs |-> 0]
        /\ flushed = 0 /\ undefined = FALSE /\ before = Logger /\ seen = on

At(t, label) == pc[t] = label /\ ~ undefined
Goto(t, label) == pc' = [pc EXCEPT ![t] = label]
Breaks == undefined' = TRUE

(* A call ends; the lock_guard of a Write, if it is one, goes out of scope. *)
Return(t, r) ==
    /\ Goto(t, "idle")
    /\ result' = IF lock = t THEN r ELSE result
    /\ lock' = IF lock = t THEN Free ELSE lock

Begin(t, method, label) ==
    /\ At(t, "idle") /\ method \in Program[t] /\ made[t] < Calls[t]
    /\ made' = [made EXCEPT ![t] = @ + 1]
    /\ Goto(t, label)
    /\ UNCHANGED <<vars, lock, count, flushed, undefined, before, seen>>

-----------------------------------------------------------------------------
(* Write(data) *)
CallWrite(t) == Begin(t, "Write", "lock") /\ UNCHANGED own

LockNothing(t) ==     \* mutant: no lock_guard
    /\ At(t, "lock")
    /\ before' = Logger
    /\ own' = [own EXCEPT ![t] = [Local EXCEPT !.number = serial]]
    /\ serial' = serial + 1
    /\ Goto(t, "lookup")
    /\ UNCHANGED <<loggerVars, on, logged, result, lock, made, count, flushed, undefined, seen>>

Lock(t) ==
    /\ At(t, "lock") /\ lock = Free
    /\ lock' = t
    /\ before' = Logger
    /\ own' = [own EXCEPT ![t] = [Local EXCEPT !.number = serial]]
    /\ serial' = serial + 1
    /\ Goto(t, "lookup")
    /\ UNCHANGED <<loggerVars, on, logged, result, made, count, flushed, undefined, seen>>

Lookup(t) ==
    /\ At(t, "lookup")
    /\ IF TypeOf[t] \notin DOMAIN idMap THEN Return(t, Usage) /\ UNCHANGED own
       ELSE /\ own' = [own EXCEPT ![t].id = idMap[TypeOf[t]]]
            /\ Goto(t, "switch")
            /\ UNCHANGED <<lock, result>>
    /\ UNCHANGED <<loggerVars, on, serial, logged, made, count, flushed, undefined, before, seen>>

ReadSwitch(t) ==
    /\ At(t, "switch")
    /\ seen' = on
    /\ Goto(t, IF on THEN "check" ELSE "off")
    /\ UNCHANGED <<vars, lock, own, made, count, flushed, undefined, before>>

LeaveOff(t) ==
    /\ At(t, "off")
    /\ Return(t, Ok)
    /\ UNCHANGED <<loggerVars, on, serial, logged, own, made, count, flushed, undefined, before, seen>>

DueLate(s) == count[s] = FlushEvery      \* mutant: the counter is looked at before it is raised
Due(s) == count[s] + 1 = FlushEvery

Counted(t) ==
    /\ At(t, "count")
    /\ LET s == TypeOf[t] IN
         /\ count' = [count EXCEPT ![s] = IF Due(s) THEN 0 ELSE @ + 1]
         /\ IF Due(s) THEN Goto(t, "test") /\ UNCHANGED <<lock, result>> ELSE Return(t, Ok)
    /\ UNCHANGED <<loggerVars, on, serial, logged, own, made, flushed, undefined, before, seen>>

-----------------------------------------------------------------------------
(* writeDataImpl, up to the counter, which is read and then written. The    *)
(* data is copied, as long as the subscription says.                        *)
Check(t) ==
    /\ At(t, "check")
    /\ IF \/ ~ headerComplete
          \/ own[t].id >= Len(subscriptions)
          \/ SizeOf[TypeOf[t]] < subscriptions[own[t].id + 1]
       THEN Return(t, Usage) /\ UNCHANGED own
       ELSE /\ own' = [own EXCEPT ![t].size = currentFileSize + SizeOf[TypeOf[t]],
                                  ![t].length = subscriptions[own[t].id + 1]]
            /\ Goto(t, "grow")
            /\ UNCHANGED <<lock, result>>
    /\ UNCHANGED <<loggerVars, on, serial, logged, made, count, flushed, undefined, before, seen>>

Grow(t) ==
    /\ At(t, "grow")
    /\ currentFileSize' = own[t].size
    /\ Goto(t, IF own[t].size >= MaxFileSize THEN "reset" ELSE "head")
    /\ UNCHANGED <<writer, file, headerComplete, formats, subscriptions, idMap, initParams, log,
                   closedLogs, on, serial, logged, result, lock, own, made, count, flushed,
                   undefined, before, seen>>

(* writeDataImpl: the rotation. The Writer and its callback are destroyed,  *)
(* also for a thread that is in them.                                       *)
Reset(t) ==
    /\ At(t, "reset")
    /\ IF \E u \in Threads \ {t} : pc[u] = "body"
       THEN Breaks /\ UNCHANGED <<writer, pc>>
       ELSE writer' = "null" /\ Goto(t, "close") /\ UNCHANGED undefined
    /\ UNCHANGED <<file, headerComplete, formats, subscriptions, idMap, currentFileSize, initParams,
                   log, closedLogs, on, serial, logged, result, lock, own, made, count, flushed,
                   before, seen>>

Close(t) ==
    /\ At(t, "close")
    /\ IF file = "open"
       THEN /\ file' = "closed" /\ closedLogs' = Append(closedLogs, log) /\ log' = <<>>
            /\ flushed' = 0
            /\ Goto(t, "clear")
            /\ UNCHANGED undefined
       ELSE Breaks /\ UNCHANGED <<file, closedLogs, log, flushed, pc>>
    /\ UNCHANGED <<writer, headerComplete, formats, subscriptions, idMap, currentFileSize,
                   initParams, on, serial, logged, result, lock, own, made, count, before, seen>>

ClearNothing(t) ==      \* mutant: cleared only when there is a new file
    At(t, "clear") /\ Goto(t, "name")
    /\ UNCHANGED <<vars, lock, own, made, count, flushed, undefined, before, seen>>

Clear(t) ==
    /\ At(t, "clear")
    /\ headerComplete' = FALSE /\ formats' = {} /\ subscriptions' = <<>> /\ idMap' = <<>>
    /\ Goto(t, "name")
    /\ UNCHANGED <<writer, file, currentFileSize, initParams, log, closedLogs, on, serial, logged,
                   result, lock, own, made, count, flushed, undefined, before, seen>>

Name(t) ==
    /\ At(t, "name")
    /\ LET old == initParams.fileName IN
         IF HasNoNewName(old)
         THEN Return(t, IF old = <<>> THEN Usage ELSE InvalidArgument) /\ UNCHANGED initParams
         ELSE /\ initParams' = [initParams EXCEPT !.fileName = NewFilename(old)]
              /\ Goto(t, "open")
              /\ UNCHANGED <<lock, result>>
    /\ UNCHANGED <<writer, file, headerComplete, formats, subscriptions, idMap, currentFileSize,
                   log, closedLogs, on, serial, logged, own, made, count, flushed, undefined,
                   before, seen>>

Open(t) ==
    /\ At(t, "open")
    /\ \/ file' = "open" /\ Goto(t, "begin") /\ UNCHANGED <<lock, result>>
       \/ file' = "null" /\ Return(t, Parsing)
    /\ UNCHANGED <<writer, headerComplete, formats, subscriptions, idMap, currentFileSize,
                   initParams, log, closedLogs, on, serial, logged, own, made, count, flushed,
                   undefined, before, seen>>

StartSizeKept == currentFileSize      \* mutant: no _currentFileSize = 0
StartSize == 0

Start(t) ==
    /\ At(t, "begin")
    /\ IF file = "open"
       THEN /\ currentFileSize' = StartSize
            /\ writer' = "header"
            /\ log' = Append(log, Plain("fileHeader"))
            /\ Goto(t, "replay")
            /\ UNCHANGED undefined
       ELSE Breaks /\ UNCHANGED <<currentFileSize, writer, log, pc>>
    /\ UNCHANGED <<file, headerComplete, formats, subscriptions, idMap, initParams, closedLogs, on,
                   serial, logged, result, lock, own, made, count, flushed, before, seen>>

Replay(t) ==
    /\ At(t, "replay")
    /\ LET c == Initialized(Fields, initParams.key, initParams.value, initParams.structs)
           r == IF c.result = Ok THEN result ELSE c.result
       IN  IF c.result = Undefined \/ file # "open"
           THEN Breaks /\ UNCHANGED <<loggerVars, result, pc, lock>>
           ELSE /\ Become([c EXCEPT !.result = r])
                /\ UNCHANGED <<file, currentFileSize, initParams, closedLogs, undefined>>
                /\ Goto(t, IF c.result = Ok THEN "head" ELSE "idle")
                /\ lock' = IF c.result = Ok THEN lock ELSE Free
    /\ UNCHANGED <<on, serial, logged, own, made, count, flushed, before, seen>>

-----------------------------------------------------------------------------
(* _writer->data(...): serialize, with two calls of the write callback,     *)
(* which looks _file up at each of them; or with none, when the data is too *)
(* long for a message.                                                      *)
Piece(t, kind) == Record(kind, TypeOf[t], own[t].id, own[t].number)

SerializeHead(t) ==
    /\ At(t, "head")
    /\ IF writer = "null" THEN Breaks /\ UNCHANGED <<log, result, lock, pc>>
       ELSE IF own[t].length + 2 > MaxPayload THEN Return(t, Parsing) /\ UNCHANGED <<log, undefined>>
       ELSE IF file # "open" THEN Breaks /\ UNCHANGED <<log, result, lock, pc>>
       ELSE /\ log' = Append(log, Piece(t, "head"))
            /\ Goto(t, "body")
            /\ UNCHANGED <<result, lock, undefined>>
    /\ UNCHANGED <<writer, file, headerComplete, formats, subscriptions, idMap, currentFileSize,
                   initParams, closedLogs, on, serial, logged, own, made, count, flushed, before,
                   seen>>

SerializeBody(t) ==
    /\ At(t, "body")
    /\ IF file # "open" THEN Breaks /\ UNCHANGED <<log, logged, pc>>
       ELSE /\ log' = Append(log, Piece(t, "data"))
            /\ logged' = Append(logged, own[t].number)
            /\ Goto(t, "count")
            /\ UNCHANGED undefined
    /\ UNCHANGED <<writer, file, headerComplete, formats, subscriptions, idMap, currentFileSize,
                   initParams, closedLogs, on, serial, result, lock, own, made, count, flushed,
                   before, seen>>

-----------------------------------------------------------------------------
(* fsync(): looks at _file, flushes it, which for a null pointer means all  *)
(* files, and takes its descriptor, which a null pointer has none of.       *)
CallFsync(t) == Begin(t, "fsync", "test") /\ UNCHANGED own

TestLocking(t) ==      \* mutant: fsync takes mutex_, which Write holds when it calls it
    /\ At(t, "test") /\ lock = Free
    /\ IF file = "null" THEN Return(t, Ok) ELSE Goto(t, "flush") /\ UNCHANGED <<lock, result>>
    /\ UNCHANGED <<loggerVars, on, serial, logged, own, made, count, flushed, undefined, before, seen>>

Test(t) ==
    /\ At(t, "test")
    /\ IF file = "null" THEN Return(t, Ok) ELSE Goto(t, "flush") /\ UNCHANGED <<lock, result>>
    /\ UNCHANGED <<loggerVars, on, serial, logged, own, made, count, flushed, undefined, before, seen>>

Flush(t) ==
    /\ At(t, "flush")
    /\ IF file # "closed" THEN flushed' = Len(log) /\ Goto(t, "sync") /\ UNCHANGED undefined
       ELSE Breaks /\ UNCHANGED <<flushed, pc>>
    /\ UNCHANGED <<loggerVars, on, serial, logged, result, lock, own, made, count, before, seen>>

Sync(t) ==
    /\ At(t, "sync")
    /\ IF file = "open" THEN Return(t, Ok) /\ UNCHANGED undefined
       ELSE Breaks /\ UNCHANGED <<pc, lock, result>>
    /\ UNCHANGED <<loggerVars, on, serial, logged, own, made, count, flushed, before, seen>>

(* CreateInstance, when there is an instance *)
Toggle(t, value) ==
    /\ At(t, "idle") /\ "CreateInstance" \in Program[t] /\ made[t] < Calls[t]
    /\ made' = [made EXCEPT ![t] = @ + 1]
    /\ on' = value
    /\ UNCHANGED <<loggerVars, serial, logged, result, lock, pc, own, count, flushed, undefined,
                   before, seen>>

-----------------------------------------------------------------------------
InWriteDataImpl(t) ==
    Check(t) \/ Grow(t) \/ Reset(t) \/ Close(t) \/ Clear(t) \/ Name(t) \/ Open(t) \/ Start(t)
      \/ Replay(t)

(* A step of a call that has begun. *)
Continue(t) ==
    \/ Lock(t) \/ Lookup(t) \/ ReadSwitch(t) \/ LeaveOff(t) \/ InWriteDataImpl(t)
    \/ SerializeHead(t) \/ SerializeBody(t) \/ Counted(t)
    \/ Test(t) \/ Flush(t) \/ Sync(t)

Invoke(t) ==
    CallWrite(t) \/ CallFsync(t) \/ \E value \in BOOLEAN : Toggle(t, value)

ThreadsNext == \E t \in Threads : Invoke(t) \/ Continue(t)

Managed == ThreadsInit /\ [][ThreadsNext]_threadVars

(* A thread that is in a call goes on; the mutex, which nobody waits for    *)
(* for ever when calls are finitely many, needs no fairness of its own.     *)
FairManaged == Managed /\ \A t \in Threads : WF_threadVars(Continue(t))

-----------------------------------------------------------------------------
Labels == {"idle", "lock", "lookup", "switch", "off", "check", "grow", "reset", "close", "clear",
           "name", "open", "begin", "replay", "head", "body", "count", "test", "flush",
           "sync"}

(* The threads' variables have their types, and only a thread that is in a  *)
(* call holds the mutex.                                                    *)
ThreadsTypeOK ==
    /\ lock \in Threads \union {Free}
    /\ pc \in [Threads -> Labels]
    /\ \A t \in Threads : lock = t => pc[t] \notin {"idle", "lock"}
    /\ made \in [Threads -> Nat]
    /\ count \in [Structs -> 0 .. FlushEvery - 1]
    /\ flushed \in 0 .. Len(log)
    /\ undefined \in BOOLEAN

(* Each message is in its file in one piece: behind a head comes its body,  *)
(* or, at the end of the current file, is about to.                         *)
Whole(f, last) ==
    \A i \in 1 .. Len(f) : f[i].kind = "head" =>
      \/ i < Len(f) /\ f[i + 1] = [f[i] EXCEPT !.kind = "data"]
      \/ last /\ i = Len(f) /\ \E t \in Threads : pc[t] = "body" /\ Piece(t, "head") = f[i]

MessagesAreWhole ==
    Whole(log, TRUE) /\ \A i \in 1 .. Len(closedLogs) : Whole(closedLogs[i], FALSE)

(* What a crash can cost: of each type, fewer than FlushEvery records are   *)
(* in stdio's buffer only, though the counter runs on over a rotation.      *)
Unflushed(s) ==
    {i \in flushed + 1 .. Len(log) : log[i].kind = "data" /\ log[i].type = s}

FlushKeepsUp == lock = Free => \A s \in Structs : Cardinality(Unflushed(s)) < FlushEvery

(* Beside Writes under the mutex, the only call that can find the FILE      *)
(* closed is an fsync that does not hold it.                                *)
WriteIsSafe == undefined => \E t \in Threads : pc[t] \in {"flush", "sync"} /\ lock # t

(* "Flush the buffer and call fsync() on the file": no thread's call, fsync *)
(* among them, uses a FILE that is closed.                                  *)
FilesInUseAreOpen == ~ undefined

(* The logger as ZzDataLog has it: messages in one piece, and nothing of    *)
(* what the Write that holds the mutex is about to do.                      *)
WithoutHeadsUpTo(f) ==
    LET upTo[n \in 0 .. Len(f)] ==
          IF n = 0 THEN <<>>
          ELSE IF f[n].kind = "head" THEN upTo[n - 1] ELSE Append(upTo[n - 1], f[n])
    IN  upTo

WithoutHeads(f) == WithoutHeadsUpTo(f)[Len(f)]

Seen == IF lock = Free THEN Logger ELSE before
AtOnce == INSTANCE ZzDataLog WITH
    writer <- Seen.writer, file <- Seen.file, headerComplete <- Seen.headerComplete,
    formats <- Seen.formats, subscriptions <- Seen.subscriptions, idMap <- Seen.idMap,
    on <- seen, currentFileSize <- Seen.currentFileSize, initParams <- Seen.initParams,
    log <- WithoutHeads(Seen.log),
    closedLogs <- [i \in 1 .. Len(Seen.closedLogs) |-> WithoutHeads(Seen.closedLogs[i])],
    serial <- Seen.serial, logged <- Seen.logged, result <- Seen.result

(* Every Write has, when it lets go of the mutex, done to the logger what   *)
(* the one action of ZzDataLog does, and in between nobody sees it do       *)
(* anything else: the writes of all threads are those of one, in the order  *)
(* in which they got the mutex. ZzDataLogOn_, which no mutex guards, is     *)
(* what the Write read.                                                     *)
WritesAreAtomic ==
    [][\/ lock # Free /\ lock' = Free /\ AtOnce!Write(TypeOf[lock])
       \/ Seen' = Seen]_threadVars

(* Every call returns, those that wait for the mutex too.                   *)
CallsReturn == \A t \in Threads : pc[t] # "idle" ~> (pc[t] = "idle" \/ undefined)
==============================================================================
