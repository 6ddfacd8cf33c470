-------------------------- MODULE ZzThreadsProofs --------------------------
(***************************************************************************)
(* Theorems about ZzThreads, for any number of threads, programs and calls:*)
(* Write excludes Write, no Write uses a FILE that is closed, also behind a *)
(* rotation that failed, no message is divided, a crash loses less than     *)
(* FlushEvery records of a type, and the Writes of the threads are those of *)
(* ZzDataLog, one behind the other.                                         *)
(***************************************************************************)
EXTENDS ZzThreads, ZzDataLogRecords

-----------------------------------------------------------------------------
(* The logger as a Write finds it, and as it must be at each of its steps:  *)
(* either it takes data, or the ids are gone and no Write gets past its     *)
(* first look at them.                                                      *)
Settled ==
    /\ writer \in Stores
    /\ headerComplete <=> writer = "data"
    /\ ~ headerComplete => idMap = <<>>
    /\ writer # "null" => file = "open"

Ready   == headerComplete /\ writer = "data" /\ file = "open"
Emptied == ~ headerComplete /\ idMap = <<>>

Expected(label) ==
    /\ label = "lookup" => Settled
    /\ label \in {"switch", "off", "check", "grow", "reset", "head", "body", "count", "test",
                 "flush", "sync"} => Ready
    /\ label = "close" => writer = "null" /\ file = "open"
    /\ label = "clear" => writer = "null"
    /\ label \in {"name", "open"} => writer = "null" /\ Emptied
    /\ label = "begin" => writer = "null" /\ Emptied /\ file = "open"
    /\ label = "replay" => writer = "header" /\ Emptied /\ file = "open"

(* What a thread may be at without the mutex. *)
Outside == {"idle", "lock", "test", "flush", "sync"}

ThreadTypes == lock \in Threads \union {Free} /\ pc \in [Threads -> Labels]

Exclusion ==
    \A t \in Threads : /\ lock # t => pc[t] \in Outside
                       /\ lock = t => pc[t] \notin {"idle", "lock"}

SettledWhenFree == lock = Free => Settled
HolderFinds     == \A t \in Threads : lock = t => Expected(pc[t])

Guarded ==
    /\ ThreadTypes
    /\ Exclusion
    /\ SettledWhenFree
    /\ HolderFinds
    /\ WriteIsSafe

-----------------------------------------------------------------------------
(* A step of the thread that holds the mutex, and keeps it. *)
LEMMA HolderMoves ==
    ASSUME Guarded, NEW t \in Threads, lock = t, lock' = lock,
           NEW label \in Labels \ {"idle", "lock"}, Goto(t, label), Expected(label)',
           ~ undefined, UNCHANGED undefined
    PROVE  Guarded'
  <1>1. t # Free
    BY ThreadsAssumption
  <1>2. pc' \in [Threads -> Labels] /\ pc'[t] = label /\ \A u \in Threads \ {t} : pc'[u] = pc[u]
    BY DEF Guarded, ThreadTypes, Goto
  <1>3. ThreadTypes'
    BY <1>2 DEF Guarded, ThreadTypes
  <1>4. Exclusion'
    BY <1>2 DEF Guarded, Exclusion
  <1>5. SettledWhenFree'
    BY <1>1 DEF SettledWhenFree
  <1>6. HolderFinds'
    BY <1>2 DEF HolderFinds
  <1>7. WriteIsSafe'
    BY DEF WriteIsSafe
  <1> QED BY <1>3, <1>4, <1>5, <1>6, <1>7 DEF Guarded

(* The thread that holds the mutex returns or throws. *)
LEMMA HolderReturns ==
    ASSUME Guarded, NEW t \in Threads, lock = t, lock' = Free, Goto(t, "idle"), Settled',
           ~ undefined, UNCHANGED undefined
    PROVE  Guarded'
  <1>1. \A u \in Threads : u # Free
    BY ThreadsAssumption
  <1>2. pc' \in [Threads -> Labels] /\ pc'[t] = "idle" /\ \A u \in Threads \ {t} : pc'[u] = pc[u]
    BY DEF Guarded, ThreadTypes, Goto, Labels
  <1>3. ThreadTypes'
    BY <1>2 DEF ThreadTypes
  <1>4. Exclusion'
    BY <1>1, <1>2 DEF Guarded, Exclusion, Outside
  <1>5. SettledWhenFree'
    BY DEF SettledWhenFree
  <1>6. HolderFinds'
    BY <1>1 DEF HolderFinds
  <1>7. WriteIsSafe'
    BY DEF WriteIsSafe
  <1> QED BY <1>3, <1>4, <1>5, <1>6, <1>7 DEF Guarded

(* A step of a thread without it, which leaves the logger alone. *)
LEMMA OthersMove ==
    ASSUME Guarded, NEW t \in Threads, lock # t, lock' = lock,
           NEW label \in Outside, Goto(t, label),
           UNCHANGED loggerVars, ~ undefined, UNCHANGED undefined
    PROVE  Guarded'
  <1>1. pc' \in [Threads -> Labels] /\ pc'[t] = label /\ \A u \in Threads \ {t} : pc'[u] = pc[u]
    BY DEF Guarded, ThreadTypes, Goto, Labels, Outside
  <1>2. ThreadTypes'
    BY <1>1 DEF Guarded, ThreadTypes
  <1>3. Exclusion'
    BY <1>1 DEF Guarded, Exclusion
  <1>4. SettledWhenFree'
    BY DEF Guarded, SettledWhenFree, Settled, loggerVars
  <1>5. HolderFinds'
    BY <1>1 DEF Guarded, HolderFinds, Expected, Settled, Ready, Emptied, loggerVars
  <1>6. WriteIsSafe'
    BY DEF WriteIsSafe
  <1> QED BY <1>2, <1>3, <1>4, <1>5, <1>6 DEF Guarded

(* A step that moves no thread. *)
LEMMA NobodyMoves ==
    ASSUME Guarded, UNCHANGED <<loggerVars, lock, pc>>, UNCHANGED undefined
    PROVE  Guarded'
  BY DEF Guarded, ThreadTypes, Exclusion, SettledWhenFree, HolderFinds, WriteIsSafe, Expected,
         Settled, Ready, Emptied, loggerVars

(* A thread inside Write holds the mutex, and finds what it expects. *)
LEMMA InsideWrite ==
    ASSUME Guarded, NEW t \in Threads, NEW label \in Labels \ Outside, At(t, label)
    PROVE  lock = t /\ ~ undefined /\ pc[t] = label /\ Expected(label)
  BY DEF Guarded, Exclusion, HolderFinds, At

-----------------------------------------------------------------------------
(* Write, up to the data. *)
LEMMA BeginKeeps ==
    ASSUME Guarded, NEW t \in Threads, NEW method, NEW label \in Outside, Begin(t, method, label)
    PROVE  Guarded'
  <1>1. lock # t
    BY DEF Guarded, Exclusion, Begin, At
  <1> QED BY <1>1, OthersMove DEF Begin, At, vars, loggerVars

LEMMA LockKeeps == ASSUME Guarded, NEW t \in Threads, Lock(t) PROVE Guarded'
  <1>1. \A u \in Threads : u # Free
    BY ThreadsAssumption
  <1>2. lock = Free /\ lock' = t /\ Goto(t, "lookup") /\ UNCHANGED loggerVars /\ ~ undefined'
    BY DEF Lock, At
  <1>3. pc' \in [Threads -> Labels] /\ pc'[t] = "lookup" /\ \A u \in Threads \ {t} : pc'[u] = pc[u]
    BY <1>2 DEF Guarded, ThreadTypes, Goto, Labels
  <1>4. Settled'
    BY <1>2 DEF Guarded, SettledWhenFree, Settled, loggerVars
  <1>5. ThreadTypes'
    BY <1>2, <1>3 DEF ThreadTypes
  <1>6. Exclusion'
    BY <1>1, <1>2, <1>3 DEF Guarded, Exclusion
  <1>7. SettledWhenFree' /\ HolderFinds'
    BY <1>2, <1>3, <1>4 DEF SettledWhenFree, HolderFinds, Expected
  <1>8. WriteIsSafe'
    BY <1>2 DEF WriteIsSafe
  <1> QED BY <1>5, <1>6, <1>7, <1>8 DEF Guarded

(* Ids are known only to a logger that takes data. *)
LEMMA LookupKeeps == ASSUME Guarded, NEW t \in Threads, Lookup(t) PROVE Guarded'
  <1>1. lock = t /\ ~ undefined /\ Settled
    BY InsideWrite DEF Lookup, Expected, Labels, Outside
  <1>2. UNCHANGED <<loggerVars, undefined>>
    BY DEF Lookup
  <1>3. Settled'
    BY <1>1, <1>2 DEF Settled, loggerVars
  <1>4. CASE TypeOf[t] \notin DOMAIN idMap
    BY <1>1, <1>2, <1>3, <1>4, HolderReturns DEF Lookup, Return
  <1>5. CASE TypeOf[t] \in DOMAIN idMap
    <2>1. Ready
      BY <1>1, <1>5 DEF Settled, Ready
    <2>2. Expected("switch")'
      BY <1>2, <2>1 DEF Expected, Ready, loggerVars
    <2> QED BY <1>1, <1>2, <1>5, <2>2, HolderMoves DEF Lookup, Labels
  <1> QED BY <1>4, <1>5

(* A step of Write that leaves a logger that takes data as it is, and goes  *)
(* on or returns.                                                           *)
LEMMA ReadyStays ==
    ASSUME Guarded, NEW t \in Threads, lock = t, ~ undefined, UNCHANGED undefined,
           UNCHANGED <<writer, file, headerComplete>>, Ready
    PROVE  /\ lock' = Free /\ Goto(t, "idle") => Guarded'
           /\ \A label \in {"switch", "off", "check", "grow", "reset", "head", "body", "count",
                             "test", "flush", "sync"} :
                lock' = lock /\ Goto(t, label) => Guarded'
  <1>1. Ready'
    BY DEF Ready
  <1>2. Settled'
    BY <1>1 DEF Ready, Settled, Stores
  <1>3. ASSUME NEW label \in {"switch", "off", "check", "grow", "reset", "head", "body", "count",
                             "test", "flush", "sync"},
               lock' = lock, Goto(t, label)
        PROVE  Guarded'
    <2>1. Expected(label)'
      BY <1>1 DEF Expected
    <2> QED BY <1>3, <2>1, HolderMoves DEF Labels
  <1> QED BY <1>2, <1>3, HolderReturns

LEMMA ReadSwitchKeeps == ASSUME Guarded, NEW t \in Threads, ReadSwitch(t) PROVE Guarded'
  <1>1. lock = t /\ ~ undefined /\ Ready
    BY InsideWrite DEF ReadSwitch, Expected, Labels, Outside
  <1> QED BY <1>1, ReadyStays DEF ReadSwitch, vars

LEMMA LeaveOffKeeps == ASSUME Guarded, NEW t \in Threads, LeaveOff(t) PROVE Guarded'
  <1>1. lock = t /\ ~ undefined /\ Ready
    BY InsideWrite DEF LeaveOff, Expected, Labels, Outside
  <1> QED BY <1>1, ReadyStays DEF LeaveOff, Return, loggerVars

LEMMA CountedKeeps == ASSUME Guarded, NEW t \in Threads, Counted(t) PROVE Guarded'
  <1>1. lock = t /\ ~ undefined /\ Ready
    BY InsideWrite DEF Counted, Expected, Labels, Outside
  <1>2. \/ lock' = Free /\ Goto(t, "idle")
        \/ lock' = lock /\ Goto(t, "test")
    BY <1>1 DEF Counted, Return
  <1> QED BY <1>1, <1>2, ReadyStays DEF Counted, loggerVars

LEMMA CheckKeeps == ASSUME Guarded, NEW t \in Threads, Check(t) PROVE Guarded'
  <1>1. lock = t /\ ~ undefined /\ Ready
    BY InsideWrite DEF Check, Expected, Labels, Outside
  <1>2. \/ lock' = Free /\ Goto(t, "idle")
        \/ lock' = lock /\ Goto(t, "grow")
    BY <1>1 DEF Check, Return
  <1> QED BY <1>1, <1>2, ReadyStays DEF Check, loggerVars

LEMMA GrowKeeps == ASSUME Guarded, NEW t \in Threads, Grow(t) PROVE Guarded'
  <1>1. lock = t /\ ~ undefined /\ Ready
    BY InsideWrite DEF Grow, Expected, Labels, Outside
  <1>2. lock' = lock /\ (Goto(t, "reset") \/ Goto(t, "head"))
    BY DEF Grow
  <1> QED BY <1>1, <1>2, ReadyStays DEF Grow

-----------------------------------------------------------------------------
(* The rotation. No other thread is in the Writer when it is destroyed.     *)
LEMMA ResetKeeps == ASSUME Guarded, NEW t \in Threads, Reset(t) PROVE Guarded'
  <1>1. lock = t /\ ~ undefined /\ Ready
    BY InsideWrite DEF Reset, Expected, Labels, Outside
  <1>2. \A u \in Threads \ {t} : pc[u] # "body"
    BY <1>1 DEF Guarded, Exclusion, Outside
  <1>3. writer' = "null" /\ Goto(t, "close") /\ UNCHANGED <<undefined, file, lock>>
    BY <1>2 DEF Reset
  <1>4. Expected("close")'
    BY <1>1, <1>3 DEF Expected, Ready
  <1> QED BY <1>1, <1>3, <1>4, HolderMoves DEF Labels

LEMMA CloseKeeps == ASSUME Guarded, NEW t \in Threads, Close(t) PROVE Guarded'
  <1>1. lock = t /\ ~ undefined /\ writer = "null" /\ file = "open"
    BY InsideWrite DEF Close, Expected, Labels, Outside
  <1>2. Goto(t, "clear") /\ UNCHANGED <<undefined, writer, lock>>
    BY <1>1 DEF Close
  <1>3. Expected("clear")'
    BY <1>1, <1>2 DEF Expected
  <1> QED BY <1>1, <1>2, <1>3, HolderMoves DEF Labels

LEMMA ClearKeeps == ASSUME Guarded, NEW t \in Threads, Clear(t) PROVE Guarded'
  <1>1. lock = t /\ ~ undefined /\ writer = "null"
    BY InsideWrite DEF Clear, Expected, Labels, Outside
  <1>2. /\ headerComplete' = FALSE /\ idMap' = <<>> /\ Goto(t, "name")
        /\ UNCHANGED <<undefined, writer, lock>>
    BY DEF Clear
  <1>3. Expected("name")'
    BY <1>1, <1>2 DEF Expected, Emptied
  <1> QED BY <1>1, <1>2, <1>3, HolderMoves DEF Labels

(* From here on the rotation may give up: without Writer and ids.           *)
LEMMA NameKeeps == ASSUME Guarded, NEW t \in Threads, Name(t) PROVE Guarded'
  <1>1. lock = t /\ ~ undefined /\ writer = "null" /\ Emptied
    BY InsideWrite DEF Name, Expected, Labels, Outside
  <1>2. UNCHANGED <<writer, file, headerComplete, idMap, undefined>>
    BY DEF Name
  <1>3. Settled' /\ Expected("open")'
    BY <1>1, <1>2 DEF Settled, Stores, Expected, Emptied
  <1>4. \/ lock' = Free /\ Goto(t, "idle")
        \/ lock' = lock /\ Goto(t, "open")
    BY <1>1 DEF Name, Return
  <1> QED BY <1>1, <1>2, <1>3, <1>4, HolderMoves, HolderReturns DEF Labels

LEMMA OpenKeeps == ASSUME Guarded, NEW t \in Threads, Open(t) PROVE Guarded'
  <1>1. lock = t /\ ~ undefined /\ writer = "null" /\ Emptied
    BY InsideWrite DEF Open, Expected, Labels, Outside
  <1>2. UNCHANGED <<writer, headerComplete, idMap, undefined>>
    BY DEF Open
  <1>3. CASE file' = "open" /\ Goto(t, "begin") /\ lock' = lock
    <2>1. Expected("begin")'
      BY <1>1, <1>2, <1>3 DEF Expected, Emptied
    <2> QED BY <1>1, <1>2, <1>3, <2>1, HolderMoves DEF Labels
  <1>4. CASE file' = "null" /\ Return(t, Parsing)
    <2>1. Settled'
      BY <1>1, <1>2 DEF Settled, Stores, Emptied
    <2> QED BY <1>1, <1>2, <1>4, <2>1, HolderReturns DEF Return
  <1> QED BY <1>3, <1>4 DEF Open

LEMMA StartKeeps == ASSUME Guarded, NEW t \in Threads, Start(t) PROVE Guarded'
  <1>1. lock = t /\ ~ undefined /\ Emptied /\ file = "open"
    BY InsideWrite DEF Start, Expected, Labels, Outside
  <1>2. /\ writer' = "header" /\ Goto(t, "replay")
        /\ UNCHANGED <<file, headerComplete, idMap, undefined, lock>>
    BY <1>1 DEF Start
  <1>3. Expected("replay")'
    BY <1>1, <1>2 DEF Expected, Emptied
  <1> QED BY <1>1, <1>2, <1>3, HolderMoves DEF Labels

(* An Init that succeeds leaves a logger that takes data.                   *)
LEMMA InitializedTakesData ==
    ASSUME NEW c, DOMAIN c = FieldNames, NEW key, NEW value, NEW structs,
           Initialized(c, key, value, structs).result = Ok
    PROVE  Initialized(c, key, value, structs).writer = "data"
  <1> DEFINE d    == Initialized(c, key, value, structs)
             stop == CHOOSE i \in Stops(c, structs) : \A j \in Stops(c, structs) : i <= j
             e    == Subscribed(Registered(c, structs), structs)
             f    == Registered(c, SubSeq(structs, 1, stop - 1))
  <1>1. DOMAIN e = FieldNames /\ e.writer = "data"
    BY RegisteredFields, SubscribedFields
  <1>2. DOMAIN f = FieldNames
    BY RegisteredFields
  <1>3. d \in {Ends(c, Usage), Ends(c, Undefined), Ends(c, Parsing), Ends(e, Ok),
               Rejected(f, structs[stop])}
    BY Zenon DEF Initialized
  <1> HIDE DEF d, e, f
  <1>4. /\ Ends(c, Usage).result = Usage /\ Ends(c, Undefined).result = Undefined
        /\ Ends(c, Parsing).result = Parsing /\ Ends(e, Ok).writer = "data"
        /\ Rejected(f, structs[stop]).result \in {Usage, Parsing}
    BY <1>1, <1>2, EndsFields, RejectedFields
  <1>5. Usage # Ok /\ Undefined # Ok /\ Parsing # Ok
    BY DEF Usage, Undefined, Parsing, Ok
  <1>6. d.result = Ok
    BY DEF d
  <1>7. d.writer = "data"
    BY <1>3, <1>4, <1>5, <1>6
  <1> QED BY <1>7 DEF d

LEMMA ReplayKeeps == ASSUME Guarded, NEW t \in Threads, Replay(t) PROVE Guarded'
  <1> DEFINE c == Initialized(Fields, initParams.key, initParams.value, initParams.structs)
             r == IF c.result = Ok THEN result ELSE c.result
  <1>1. lock = t /\ ~ undefined /\ writer = "header" /\ Emptied /\ file = "open"
    BY InsideWrite DEF Replay, Expected, Labels, Outside
  <1>2. DOMAIN Fields = FieldNames /\ Fields.writer = writer
    BY DEF Fields, FieldNames
  <1>3. Sound(Fields)
    BY <1>1 DEF Sound, Fields, Stores, Emptied
  <1>4. /\ Sound(c) /\ c.writer # "null" /\ c.result \in {Ok, Usage, Parsing}
        /\ c.result = Ok => c.writer = "data"
    BY <1>1, <1>2, <1>3, InitializedSound, InitializedTakesData
  <1>5. c.result # Undefined
    BY <1>4 DEF Ok, Usage, Parsing, Undefined
  <1>6. /\ Become([c EXCEPT !.result = r])
        /\ UNCHANGED <<file, undefined>>
        /\ Goto(t, IF c.result = Ok THEN "head" ELSE "idle")
        /\ lock' = IF c.result = Ok THEN lock ELSE Free
    BY <1>1, <1>5 DEF Replay
  <1> HIDE DEF c, r
  <1>7. writer' = c.writer /\ headerComplete' = c.headerComplete /\ idMap' = c.idMap
    BY <1>6 DEF Become
  <1>8. CASE c.result = Ok
    <2>1. Expected("head")'
      BY <1>1, <1>4, <1>6, <1>7, <1>8 DEF Expected, Ready, Sound
    <2> QED BY <1>1, <1>6, <1>8, <2>1, HolderMoves DEF Labels
  <1>9. CASE c.result # Ok
    <2>1. Settled'
      BY <1>1, <1>4, <1>6, <1>7 DEF Settled, Sound
    <2> QED BY <1>1, <1>6, <1>9, <2>1, HolderReturns
  <1> QED BY <1>8, <1>9

-----------------------------------------------------------------------------
(* The data, and fsync. *)
LEMMA SerializeHeadKeeps == ASSUME Guarded, NEW t \in Threads, SerializeHead(t) PROVE Guarded'
  <1>1. lock = t /\ ~ undefined /\ Ready
    BY InsideWrite DEF SerializeHead, Expected, Labels, Outside
  <1>2. /\ UNCHANGED <<undefined, writer, file, headerComplete>>
        /\ \/ Goto(t, "body") /\ lock' = lock
           \/ Goto(t, "idle") /\ lock' = Free
    BY <1>1 DEF SerializeHead, Ready, Return
  <1> QED BY <1>1, <1>2, ReadyStays

LEMMA SerializeBodyKeeps == ASSUME Guarded, NEW t \in Threads, SerializeBody(t) PROVE Guarded'
  <1>1. lock = t /\ ~ undefined /\ Ready
    BY InsideWrite DEF SerializeBody, Expected, Labels, Outside
  <1>2. Goto(t, "count") /\ UNCHANGED <<undefined, writer, file, headerComplete, lock>>
    BY <1>1 DEF SerializeBody, Ready
  <1> QED BY <1>1, <1>2, ReadyStays

LEMMA TestKeeps == ASSUME Guarded, NEW t \in Threads, Test(t) PROVE Guarded'
  <1>1. ~ undefined /\ UNCHANGED <<loggerVars, undefined>>
    BY DEF Test, At
  <1>2. CASE lock = t
    <2>1. Ready
      BY <1>2 DEF Guarded, HolderFinds, Expected, Test, At
    <2>2. Goto(t, "flush") /\ lock' = lock
      BY <2>1 DEF Test, Ready
    <2> QED BY <1>1, <1>2, <2>1, <2>2, ReadyStays DEF loggerVars
  <1>3. CASE lock # t
    <2>1. (Goto(t, "idle") \/ Goto(t, "flush")) /\ lock' = lock
      BY <1>3 DEF Test, Return
    <2> QED BY <1>1, <1>3, <2>1, OthersMove DEF Outside
  <1> QED BY <1>2, <1>3

(* The FILE is open for the thread that holds the mutex; an fsync without   *)
(* it may find it closed, or closed since it was flushed.                   *)
LEMMA FlushKeeps ==
    ASSUME Guarded, NEW t \in Threads, Flush(t) \/ Sync(t) PROVE Guarded'
  <1>1. ~ undefined /\ pc[t] \in {"flush", "sync"} /\ UNCHANGED loggerVars
    BY DEF Flush, Sync, At
  <1>2. CASE lock = t
    <2>1. Ready
      BY <1>1, <1>2 DEF Guarded, HolderFinds, Expected
    <2>2. /\ UNCHANGED undefined
          /\ \/ Goto(t, "sync") /\ lock' = lock
             \/ Goto(t, "idle") /\ lock' = Free
      BY <1>2, <2>1 DEF Flush, Sync, Return, Ready
    <2> QED BY <1>1, <1>2, <2>1, <2>2, ReadyStays DEF loggerVars
  <1>3. CASE lock # t /\ UNCHANGED undefined /\ ~ UNCHANGED pc
    <2>1. (Goto(t, "idle") \/ Goto(t, "sync")) /\ lock' = lock
      BY <1>3 DEF Flush, Sync, Return
    <2> QED BY <1>1, <1>3, <2>1, OthersMove DEF Outside
  <1>4. CASE lock # t /\ UNCHANGED <<pc, lock>>
    <2>1. WriteIsSafe'
      BY <1>1, <1>4 DEF WriteIsSafe
    <2> QED BY <1>1, <1>4, <2>1
            DEF Guarded, ThreadTypes, Exclusion, SettledWhenFree, HolderFinds, Expected, Settled,
                Ready, Emptied, loggerVars
  <1>5. lock = t \/ (UNCHANGED undefined /\ ~ UNCHANGED pc) \/ UNCHANGED <<pc, lock>>
    <2>1. \A label \in {"idle", "sync"} : Goto(t, label) /\ label # pc[t] => ~ UNCHANGED pc
      BY DEF Goto, Guarded, ThreadTypes
    <2> QED BY <2>1 DEF Flush, Sync, Return, At
  <1> QED BY <1>2, <1>3, <1>4, <1>5

-----------------------------------------------------------------------------
LEMMA InitGuarded == ThreadsInit => Guarded
  <1> SUFFICES ASSUME ThreadsInit PROVE Guarded
    OBVIOUS
  <1> DEFINE c == Subscribed(Registered(NewFile, AllStructs), AllStructs)
  <1>1. /\ writer = c.writer /\ headerComplete = c.headerComplete /\ file = "open"
        /\ lock = Free /\ pc = [t \in Threads |-> "idle"] /\ undefined = FALSE
    BY DEF ThreadsInit
  <1>2. c.writer = "data" /\ c.headerComplete = TRUE
    <2> DEFINE d == Registered(NewFile, AllStructs)
    <2>2. DOMAIN d = FieldNames
      BY NewFileIs, RegisteredFields
    <2> HIDE DEF d
    <2>3. Subscribed(d, AllStructs).writer = "data" /\ Subscribed(d, AllStructs).headerComplete = TRUE
      BY <2>2, SubscribedFields
    <2> QED BY <2>3 DEF c, d
  <1> HIDE DEF c
  <1>3. Settled
    BY <1>1, <1>2 DEF Settled, Stores
  <1>4. \A t \in Threads : t # Free
    BY ThreadsAssumption
  <1> QED BY <1>1, <1>3, <1>4
          DEF Guarded, ThreadTypes, Labels, Exclusion, Outside, SettledWhenFree, HolderFinds, WriteIsSafe

LEMMA NextGuarded == Guarded /\ [ThreadsNext]_threadVars => Guarded'
  <1> SUFFICES ASSUME Guarded, [ThreadsNext]_threadVars
               PROVE  Guarded'
    OBVIOUS
  <1>1. ASSUME NEW t \in Threads, Invoke(t) PROVE Guarded'
    <2>1. CASE CallWrite(t)
      BY <2>1, BeginKeeps DEF CallWrite, Outside
    <2>2. CASE CallFsync(t)
      BY <2>2, BeginKeeps DEF CallFsync, Outside
    <2>3. ASSUME NEW value \in BOOLEAN, Toggle(t, value) PROVE Guarded'
      BY <2>3, NobodyMoves DEF Toggle
    <2> QED BY <1>1, <2>1, <2>2, <2>3 DEF Invoke
  <1>2. ASSUME NEW t \in Threads, Continue(t) PROVE Guarded'
    BY <1>2, LockKeeps, LookupKeeps, ReadSwitchKeeps, LeaveOffKeeps, CountedKeeps, CheckKeeps,
       GrowKeeps, ResetKeeps, CloseKeeps, ClearKeeps, NameKeeps, OpenKeeps, StartKeeps,
       ReplayKeeps, SerializeHeadKeeps, SerializeBodyKeeps, TestKeeps, FlushKeeps
       DEF Continue, InWriteDataImpl
  <1>3. CASE UNCHANGED threadVars
    BY <1>3, NobodyMoves DEF threadVars, vars, loggerVars
  <1> QED BY <1>1, <1>2, <1>3 DEF ThreadsNext

LEMMA AlwaysGuarded == Managed => []Guarded
  BY InitGuarded, NextGuarded, PTL DEF Managed

(* No Write uses a FILE that is closed or a Writer that was destroyed, for  *)
(* any number of threads, wherever a rotation of one of them stops: only an *)
(* fsync without the mutex can.                                             *)
THEOREM WritesAreSafe == Managed => []WriteIsSafe
  <1>1. Guarded => WriteIsSafe
    BY DEF Guarded
  <1> QED BY <1>1, AlwaysGuarded, PTL

-----------------------------------------------------------------------------
(***************************************************************************)
(* What the threads write. A file holds, beside the records of ZzDataLog,  *)
(* the heads of messages.                                                  *)
(***************************************************************************)
Pieces == [kind : Kinds \union {"head"}, type : Structs \union {NoStruct}, id : Nat, number : Nat]

Locals == [id : Nat, number : Nat, size : Nat, length : Nat]

ParamNames == {"fileName", "key", "value", "structs"}

LoggerTyped ==
    /\ subscriptions \in Seq(Nat)
    /\ \A s \in DOMAIN idMap : idMap[s] \in Nat
    /\ DOMAIN initParams = ParamNames /\ initParams.structs = AllStructs
    /\ currentFileSize \in Nat
    /\ log \in Seq(Pieces)
    /\ closedLogs \in Seq(Seq(Pieces))
    /\ serial \in Nat

CallsTyped ==
    /\ own \in [Threads -> Locals]
    /\ made \in [Threads -> Nat]
    /\ count \in [Structs -> 0 .. FlushEvery - 1]
    /\ flushed \in 0 .. Len(log)
    /\ undefined \in BOOLEAN

(* What a rotation has made of the logger when it gets to a label: nobody   *)
(* else has written to the file, or subscribed anything in it.              *)
HolderBuilds ==
    \A t \in Threads : lock = t =>
      /\ pc[t] = "clear" => log = <<>>
      /\ pc[t] \in {"name", "open", "begin"} => Fields = Cleared
      /\ pc[t] = "replay" => Fields = NewFile

StepsInv == LoggerTyped /\ CallsTyped /\ HolderBuilds

LEMMA PiecesTyped ==
    /\ Records \subseteq Pieces /\ Seq(Records) \subseteq Seq(Pieces)
    /\ \A r \in Records : r.kind # "head"
  <1>1. Records \subseteq Pieces
    BY DEF Records, Pieces
  <1>2. \A r \in Records : r.kind # "head"
    BY DEF Records, Kinds
  <1>3. ASSUME NEW f \in Seq(Records) PROVE f \in Seq(Pieces)
    <2>1. \A i \in 1 .. Len(f) : f[i] \in Pieces
      BY <1>1, ElementOfSeq
    <2>2. Len(f) \in Nat /\ f \in [1 .. Len(f) -> Records]
      BY LenProperties
    <2>3. f \in [1 .. Len(f) -> Pieces]
      BY <2>1, <2>2
    <2> QED BY <2>2, <2>3
  <1> QED BY <1>1, <1>2, <1>3

LEMMA PieceTyped ==
    ASSUME StepsInv, NEW t \in Threads
    PROVE  Piece(t, "head") \in Pieces /\ Piece(t, "data") \in Pieces
  <1>1. own[t] \in Locals /\ TypeOf[t] \in Structs
    BY ThreadsAssumption DEF StepsInv, CallsTyped
  <1>2. own[t].id \in Nat /\ own[t].number \in Nat
    BY <1>1 DEF Locals
  <1> QED BY <1>1, <1>2 DEF Piece, Record, Pieces, Kinds

(* The file that an Init has just begun holds no message of the threads. *)
Header(f) == \A i \in 1 .. Len(f) : f[i].kind \notin {"head", "data"}

Begun(c) ==
    /\ c.log \in Seq(Pieces) /\ c.log # <<>>
    /\ Header(c.log)
    /\ c.subscriptions \in Seq(Nat)
    /\ \A s \in DOMAIN c.idMap : c.idMap[s] \in Nat

LEMMA NewLog ==
    ASSUME NEW key, NEW value PROVE Begun(Initialized(NewFile, key, value, AllStructs))
  <1> DEFINE d == Initialized(NewFile, key, value, AllStructs)
  <1>1. AllStructs \in Seq(Structs)
    BY ThreadsAssumption
  <1>2. Typed(d)
    BY <1>1, NewFileIs, NewFileTyped, InitializedTyped
  <1>3. d.log = NewFile.log \/ (NoData(NewFile.log) /\ NoData(d.log))
    BY <1>1, NewFileIs, NewFileTyped, NewFileConsistent, InitializedNoData
  <1>4. NoData(NewFile.log)
    <2>1. InHeader(NewFile.log)
      BY NewFileIs, NewFileConsistent DEF Consistent
    <2> QED BY <2>1 DEF InHeader, NoData, IsData
  <1>9. Consistent(d) /\ d.writer # "null"
    <2>1. Sound(NewFile) /\ NewFile.writer # "null"
      BY NewFileIs DEF Sound, Stores
    <2> QED BY <1>1, <2>1, NewFileIs, NewFileTyped, NewFileConsistent, InitializedConsistent, InitializedSound
  <1> HIDE DEF d
  <1>5. /\ NoData(d.log) /\ d.log \in Seq(Records) /\ d.subscriptions \in Seq(Nat)
        /\ \A s \in DOMAIN d.idMap : d.idMap[s] \in Nat
    BY <1>2, <1>3, <1>4 DEF Typed
  <1>6. \A i \in 1 .. Len(d.log) : d.log[i] \in Records
    BY <1>5, ElementOfSeq
  <1>7. \A i \in 1 .. Len(d.log) : d.log[i].kind \notin {"head", "data"}
    BY <1>5, <1>6, PiecesTyped DEF NoData, IsData
  <1>8. Begun(d)
    BY <1>5, <1>7, <1>9, PiecesTyped DEF Begun, Header, Consistent
  <1> QED BY <1>8 DEF d

(* main's Init is one of a new file. *)
LEMMA MainBegins ==
    ASSUME ThreadsInit
    PROVE  /\ log \in Seq(Pieces) /\ Header(log) /\ subscriptions \in Seq(Nat)
           /\ \A s \in DOMAIN idMap : idMap[s] \in Nat
           /\ DOMAIN initParams = ParamNames /\ initParams.structs = AllStructs
  <1> DEFINE c == Subscribed(Registered(NewFile, AllStructs), AllStructs)
             d == Initialized(NewFile, "k", "k", AllStructs)
  <1>1. idMap = c.idMap /\ log = c.log /\ subscriptions = c.subscriptions
    BY DEF ThreadsInit
  <1>3. d = Ends(c, Ok)
    <2>1. /\ Stops(NewFile, AllStructs) = {} /\ <<"k", "k">> \notin LongInfos
          /\ NewFile.headerComplete = FALSE /\ NewFile.writer # "null"
      BY ThreadsAssumption, NewFileIs
    <2>2. "k" # ""
      BY Zenon
    <2> QED BY <2>1, <2>2, Zenon DEF Initialized
  <1>4. DOMAIN c = FieldNames
    <2> DEFINE e == Registered(NewFile, AllStructs)
    <2>1. DOMAIN e = FieldNames
      BY NewFileIs, RegisteredFields
    <2> HIDE DEF e
    <2>2. DOMAIN Subscribed(e, AllStructs) = FieldNames
      BY <2>1, SubscribedFields
    <2> QED BY <2>2 DEF e
  <1>5. Begun(d)
    BY NewLog
  <1> HIDE DEF c, d
  <1>6. d.idMap = c.idMap /\ d.log = c.log /\ d.subscriptions = c.subscriptions
    <2>1. Ended(c, d, Ok)
      BY <1>3, <1>4, EndsIs
    <2> QED BY <2>1 DEF Ended
  <1>7. DOMAIN initParams = ParamNames /\ initParams.structs = AllStructs
    BY DEF ThreadsInit, ParamNames
  <1> QED BY <1>1, <1>5, <1>6, <1>7 DEF Begun

LEMMA InitStepsInv == ThreadsInit => StepsInv
  <1> SUFFICES ASSUME ThreadsInit PROVE StepsInv
    OBVIOUS
  <1>1. /\ currentFileSize = 0 /\ closedLogs = <<>> /\ serial = 0 /\ lock = Free
        /\ own = [t \in Threads |-> Local] /\ made = [t \in Threads |-> 0]
        /\ count = [s \in Structs |-> 0] /\ flushed = 0 /\ undefined = FALSE
    BY DEF ThreadsInit
  <1>2. LoggerTyped
    <2>1. closedLogs \in Seq(Seq(Pieces))
      BY <1>1
    <2> QED BY <1>1, <2>1, MainBegins DEF LoggerTyped
  <1>3. CallsTyped
    <2>1. own \in [Threads -> Locals] /\ made \in [Threads -> Nat]
      BY <1>1 DEF Local, Locals
    <2>2. count \in [Structs -> 0 .. FlushEvery - 1]
      BY <1>1, ThreadsAssumption
    <2>3. 0 \in 0 .. Len(log)
      BY MainBegins, LenProperties
    <2> QED BY <1>1, <2>1, <2>2, <2>3 DEF CallsTyped
  <1>4. HolderBuilds
    BY <1>1, ThreadsAssumption DEF HolderBuilds
  <1> QED BY <1>2, <1>3, <1>4 DEF StepsInv

-----------------------------------------------------------------------------
(* A step that leaves the logger to the others as it is. *)
Building == {"clear", "name", "open", "begin", "replay"}

LEMMA LeavesLogger ==
    ASSUME Guarded, StepsInv, NEW t \in Threads, UNCHANGED loggerVars,
           UNCHANGED pc \/ \E label \in Labels \ Building : Goto(t, label),
           lock' \in {lock, t, Free}, pc[t] \notin Building,
           serial' \in Nat, own' \in [Threads -> Locals], made' \in [Threads -> Nat],
           count' \in [Structs -> 0 .. FlushEvery - 1], flushed' \in 0 .. Len(log), undefined' \in BOOLEAN
    PROVE  StepsInv'
  <1>1. LoggerTyped'
    BY DEF StepsInv, LoggerTyped, loggerVars
  <1>2. CallsTyped'
    BY DEF CallsTyped, loggerVars
  <1>3. Fields' = Fields
    BY DEF Fields, loggerVars
  <1>4. ASSUME NEW u \in Threads, lock' = u
        PROVE  /\ pc'[u] = "clear" => log' = <<>>
               /\ pc'[u] \in {"name", "open", "begin"} => Fields' = Cleared
               /\ pc'[u] = "replay" => Fields' = NewFile
    <2>1. u # Free
      BY ThreadsAssumption
    <2>2. CASE u = t
      <3>1. pc'[t] \notin Building
        BY DEF Goto, Guarded, ThreadTypes
      <3> QED BY <2>2, <3>1 DEF Building
    <2>3. CASE u # t
      <3>1. lock = u
        BY <1>4, <2>1, <2>3
      <3>2. pc'[u] = pc[u]
        BY <2>3 DEF Goto, Guarded, ThreadTypes
      <3> QED BY <1>3, <3>1, <3>2 DEF StepsInv, HolderBuilds, loggerVars
    <2> QED BY <2>2, <2>3
  <1>5. HolderBuilds'
    BY <1>4 DEF HolderBuilds, Fields, Cleared, NewFile
  <1> QED BY <1>1, <1>2, <1>5 DEF StepsInv

(* A step of the holder, which has changed the logger.                      *)
LEMMA HolderChanges ==
    ASSUME Guarded, StepsInv, NEW t \in Threads, lock = t, lock' \in {t, Free},
           NEW label \in Labels, Goto(t, label),
           LoggerTyped', UNCHANGED <<own, made, count>>, flushed' \in 0 .. Len(log'), undefined' \in BOOLEAN,
           label = "clear" => log' = <<>>,
           label \in {"name", "open", "begin"} => Fields' = Cleared,
           label = "replay" => Fields' = NewFile
    PROVE  StepsInv'
  <1>1. CallsTyped'
    BY DEF StepsInv, CallsTyped
  <1>2. pc'[t] = label
    BY DEF Goto, Guarded, ThreadTypes
  <1>3. \A u \in Threads : lock' = u => u = t
    BY ThreadsAssumption
  <1>4. HolderBuilds'
    BY <1>2, <1>3 DEF HolderBuilds
  <1> QED BY <1>1, <1>4 DEF StepsInv

LEMMA TypesAre ==
    ASSUME StepsInv, NEW t \in Threads
    PROVE  /\ own[t] \in Locals /\ made[t] \in Nat /\ TypeOf[t] \in Structs
           /\ SizeOf[TypeOf[t]] \in Nat /\ count[TypeOf[t]] \in 0 .. FlushEvery - 1
           /\ \A x \in Locals : [own EXCEPT ![t] = x] \in [Threads -> Locals]
           /\ Local \in Locals
  <1>1. own \in [Threads -> Locals] /\ made \in [Threads -> Nat]
        /\ count \in [Structs -> 0 .. FlushEvery - 1]
    BY DEF StepsInv, CallsTyped
  <1>2. TypeOf[t] \in Structs
    BY ThreadsAssumption
  <1>3. SizeOf[TypeOf[t]] \in Nat
    BY <1>2, StructsAssumption
  <1>4. Local \in Locals
    BY DEF Local, Locals
  <1> QED BY <1>1, <1>2, <1>3, <1>4

(* What a thread does outside of the logger, or only looks at in it.        *)
LEMMA BeginSteps ==
    ASSUME Guarded, StepsInv, NEW t \in Threads, NEW method, NEW label \in {"lock", "test"},
           Begin(t, method, label), UNCHANGED own
    PROVE  StepsInv'
  <1>1. made' \in [Threads -> Nat]
    BY TypesAre DEF Begin, StepsInv, CallsTyped
  <1>2. UNCHANGED <<loggerVars, serial, lock, count, flushed, undefined>>
    BY DEF Begin, vars, loggerVars
  <1>3. pc[t] \notin Building /\ Goto(t, label) /\ label \in Labels \ Building
    BY DEF Begin, At, Building, Labels
  <1> QED BY <1>1, <1>2, <1>3, LeavesLogger DEF StepsInv, LoggerTyped, CallsTyped

LEMMA ToggleSteps ==
    ASSUME Guarded, StepsInv, NEW t \in Threads, NEW value, Toggle(t, value) PROVE StepsInv'
  <1>1. made' \in [Threads -> Nat]
    BY TypesAre DEF Toggle, StepsInv, CallsTyped
  <1>2. UNCHANGED <<loggerVars, serial, lock, pc, own, count, flushed, undefined>>
    BY DEF Toggle
  <1>3. pc[t] \notin Building
    BY DEF Toggle, At, Building
  <1> QED BY <1>1, <1>2, <1>3, LeavesLogger DEF StepsInv, LoggerTyped, CallsTyped

LEMMA LockSteps == ASSUME Guarded, StepsInv, NEW t \in Threads, Lock(t) PROVE StepsInv'
  <1>1. serial \in Nat
    BY DEF StepsInv, LoggerTyped
  <1>2. [Local EXCEPT !.number = serial] \in Locals
    BY <1>1 DEF Local, Locals
  <1>3. own' \in [Threads -> Locals]
    BY <1>2, TypesAre DEF Lock
  <1>4. UNCHANGED <<loggerVars, made, count, flushed, undefined>> /\ serial' \in Nat /\ lock' = t
    BY <1>1 DEF Lock
  <1>5. pc[t] \notin Building /\ Goto(t, "lookup") /\ "lookup" \in Labels \ Building
    BY DEF Lock, At, Building, Labels
  <1> QED BY <1>3, <1>4, <1>5, LeavesLogger DEF StepsInv, CallsTyped

LEMMA LookupSteps == ASSUME Guarded, StepsInv, NEW t \in Threads, Lookup(t) PROVE StepsInv'
  <1>1. own' \in [Threads -> Locals]
    <2>1. CASE TypeOf[t] \in DOMAIN idMap
      <3>1. idMap[TypeOf[t]] \in Nat
        BY <2>1 DEF StepsInv, LoggerTyped
      <3>2. own' = [own EXCEPT ![t] = [own[t] EXCEPT !.id = idMap[TypeOf[t]]]]
        BY <2>1 DEF Lookup
      <3>3. [own[t] EXCEPT !.id = idMap[TypeOf[t]]] \in Locals
        BY <3>1, TypesAre DEF Locals
      <3> QED BY <3>2, <3>3, TypesAre
    <2>2. CASE TypeOf[t] \notin DOMAIN idMap
      BY <2>2 DEF Lookup, StepsInv, CallsTyped
    <2> QED BY <2>1, <2>2
  <1>2. UNCHANGED <<loggerVars, serial, made, count, flushed, undefined>> /\ lock' \in {lock, Free}
    BY DEF Lookup, Return
  <1>3. pc[t] \notin Building /\ (Goto(t, "idle") \/ Goto(t, "switch"))
        /\ "idle" \in Labels \ Building /\ "switch" \in Labels \ Building
    BY DEF Lookup, Return, At, Building, Labels
  <1> QED BY <1>1, <1>2, <1>3, LeavesLogger DEF StepsInv, LoggerTyped, CallsTyped

(* What the thread remembers of its look at the subscription. *)
Checked(t) ==
    [own EXCEPT ![t] = [own[t] EXCEPT !.size = currentFileSize + SizeOf[TypeOf[t]],
                                      !.length = subscriptions[own[t].id + 1]]]

LEMMA CheckedIs ==
    ASSUME StepsInv, NEW t \in Threads
    PROVE  [own EXCEPT ![t].size = currentFileSize + SizeOf[TypeOf[t]],
                       ![t].length = subscriptions[own[t].id + 1]] = Checked(t)
  <1>1. own = [u \in Threads |-> own[u]] /\ own[t] \in Locals
    BY DEF StepsInv, CallsTyped
  <1> QED BY <1>1 DEF Checked, Locals

LEMMA CheckSteps == ASSUME Guarded, StepsInv, NEW t \in Threads, Check(t) PROVE StepsInv'
  <1>1. own' \in [Threads -> Locals]
    <2> DEFINE size   == currentFileSize + SizeOf[TypeOf[t]]
               length == subscriptions[own[t].id + 1]
    <2>1. size \in Nat
      BY TypesAre DEF StepsInv, LoggerTyped
    <2>2. own' = own \/ (own[t].id < Len(subscriptions) /\ own' = Checked(t))
      <3>1. own[t].id \in Nat /\ Len(subscriptions) \in Nat
        BY TypesAre, LenProperties DEF Locals, StepsInv, LoggerTyped
      <3>2. own' = own \/ (~ (own[t].id >= Len(subscriptions)) /\ own' = Checked(t))
        BY CheckedIs DEF Check
      <3> QED BY <3>1, <3>2
    <2>3. CASE own[t].id < Len(subscriptions) /\ own' = Checked(t)
      <3>1. own[t].id + 1 \in 1 .. Len(subscriptions)
        BY <2>3, TypesAre, LenProperties DEF Locals, StepsInv, LoggerTyped
      <3>2. length \in Nat
        BY <3>1, ElementOfSeq DEF StepsInv, LoggerTyped
      <3>3. [own[t] EXCEPT !.size = size, !.length = length] \in Locals
        BY <2>1, <3>2, TypesAre DEF Locals
      <3> QED BY <2>3, <3>3, TypesAre DEF Checked
    <2> QED BY <2>2, <2>3 DEF StepsInv, CallsTyped
  <1>2. UNCHANGED <<loggerVars, serial, made, count, flushed, undefined>> /\ lock' \in {lock, Free}
    BY DEF Check, Return
  <1>3. pc[t] \notin Building /\ (Goto(t, "idle") \/ Goto(t, "grow"))
        /\ "idle" \in Labels \ Building /\ "grow" \in Labels \ Building
    BY DEF Check, Return, At, Building, Labels
  <1> QED BY <1>1, <1>2, <1>3, LeavesLogger DEF StepsInv, LoggerTyped, CallsTyped

LEMMA CountedSteps == ASSUME Guarded, StepsInv, NEW t \in Threads, Counted(t) PROVE StepsInv'
  <1> DEFINE s == TypeOf[t]
             n == IF Due(s) THEN 0 ELSE count[s] + 1
  <1>1. n \in 0 .. FlushEvery - 1
    BY TypesAre, ThreadsAssumption DEF Due
  <1>2. count' = [count EXCEPT ![s] = n]
    BY DEF Counted
  <1> HIDE DEF n
  <1>3. count' \in [Structs -> 0 .. FlushEvery - 1]
    BY <1>1, <1>2, TypesAre DEF StepsInv, CallsTyped
  <1>4. UNCHANGED <<loggerVars, serial, own, made, flushed, undefined>> /\ lock' \in {lock, Free}
    BY DEF Counted, Return
  <1>5. pc[t] \notin Building /\ (Goto(t, "idle") \/ Goto(t, "test"))
        /\ "idle" \in Labels \ Building /\ "test" \in Labels \ Building
    BY DEF Counted, Return, At, Building, Labels
  <1> QED BY <1>3, <1>4, <1>5, LeavesLogger DEF StepsInv, LoggerTyped, CallsTyped

LEMMA LookingSteps ==
    ASSUME Guarded, StepsInv, NEW t \in Threads,
           ReadSwitch(t) \/ LeaveOff(t) \/ Test(t) \/ Flush(t) \/ Sync(t)
    PROVE  StepsInv'
  <1>1. UNCHANGED <<loggerVars, serial, own, made, count>> /\ lock' \in {lock, Free}
    BY DEF ReadSwitch, LeaveOff, Test, Flush, Sync, Return, vars, loggerVars
  <1>2. pc[t] \notin Building
    BY DEF ReadSwitch, LeaveOff, Test, Flush, Sync, At, Building
  <1>3. UNCHANGED pc \/ \E label \in {"idle", "check", "off", "flush", "sync"} : Goto(t, label)
    BY DEF ReadSwitch, LeaveOff, Test, Flush, Sync, Return
  <1>4. flushed' \in 0 .. Len(log) /\ undefined' \in BOOLEAN
    <2>1. log \in Seq(Pieces) /\ flushed \in 0 .. Len(log) /\ undefined \in BOOLEAN
      BY DEF StepsInv, LoggerTyped, CallsTyped
    <2>2. Len(log) \in 0 .. Len(log)
      BY <2>1, LenProperties
    <2> QED BY <2>1, <2>2 DEF ReadSwitch, LeaveOff, Test, Flush, Sync, Breaks
  <1>5. {"idle", "check", "off", "flush", "sync"} \subseteq Labels \ Building
    BY DEF Labels, Building
  <1> QED BY <1>1, <1>2, <1>3, <1>4, <1>5, LeavesLogger DEF StepsInv, LoggerTyped, CallsTyped

-----------------------------------------------------------------------------
(* The rotation, label by label. *)
LEMMA Kept ==
    ASSUME StepsInv
    PROVE  /\ log \in Seq(Pieces) /\ closedLogs \in Seq(Seq(Pieces)) /\ Len(log) \in Nat
           /\ currentFileSize \in Nat /\ serial \in Nat /\ flushed \in 0 .. Len(log)
           /\ undefined \in BOOLEAN
  BY LenProperties DEF StepsInv, LoggerTyped, CallsTyped

LEMMA GrowSteps == ASSUME Guarded, StepsInv, NEW t \in Threads, Grow(t) PROVE StepsInv'
  <1>1. lock = t
    BY InsideWrite DEF Grow, Labels, Outside
  <1>2. own[t].size \in Nat
    BY TypesAre DEF Locals
  <1>3. UNCHANGED <<log, closedLogs, subscriptions, idMap, initParams, serial, own, made, count,
                    flushed, undefined, lock>>
        /\ currentFileSize' \in Nat /\ (Goto(t, "reset") \/ Goto(t, "head"))
    BY <1>2 DEF Grow
  <1>4. LoggerTyped'
    BY <1>3 DEF StepsInv, LoggerTyped
  <1> QED BY <1>1, <1>3, <1>4, Kept, HolderChanges DEF Labels

LEMMA ResetSteps == ASSUME Guarded, StepsInv, NEW t \in Threads, Reset(t) PROVE StepsInv'
  <1>1. lock = t /\ \A u \in Threads \ {t} : pc[u] # "body"
    BY InsideWrite DEF Reset, Labels, Outside, Guarded, Exclusion
  <1>2. UNCHANGED <<log, closedLogs, subscriptions, idMap, initParams, currentFileSize, serial, own,
                    made, count, flushed, undefined, lock>>
        /\ Goto(t, "close")
    BY <1>1 DEF Reset
  <1>3. LoggerTyped'
    BY <1>2 DEF StepsInv, LoggerTyped
  <1> QED BY <1>1, <1>2, <1>3, Kept, HolderChanges DEF Labels

LEMMA CloseSteps == ASSUME Guarded, StepsInv, NEW t \in Threads, Close(t) PROVE StepsInv'
  <1>1. lock = t /\ file = "open"
    BY InsideWrite DEF Close, Expected, Labels, Outside
  <1>2. UNCHANGED <<subscriptions, idMap, initParams, currentFileSize, serial, own, made, count,
                    undefined, lock>>
        /\ log' = <<>> /\ closedLogs' = Append(closedLogs, log) /\ flushed' = 0 /\ Goto(t, "clear")
    BY <1>1 DEF Close
  <1>3. log' \in Seq(Pieces) /\ closedLogs' \in Seq(Seq(Pieces)) /\ flushed' \in 0 .. Len(log')
    BY <1>2, Kept
  <1>4. LoggerTyped'
    BY <1>2, <1>3 DEF StepsInv, LoggerTyped
  <1> QED BY <1>1, <1>2, <1>3, <1>4, Kept, HolderChanges DEF Labels

LEMMA ClearSteps == ASSUME Guarded, StepsInv, NEW t \in Threads, Clear(t) PROVE StepsInv'
  <1>1. lock = t /\ writer = "null"
    BY InsideWrite DEF Clear, Expected, Labels, Outside
  <1>2. log = <<>>
    BY <1>1 DEF StepsInv, HolderBuilds, Clear, At
  <1>3. /\ UNCHANGED <<writer, log, closedLogs, initParams, currentFileSize, serial, own, made, count,
                       flushed, undefined, lock>>
        /\ headerComplete' = FALSE /\ formats' = {} /\ subscriptions' = <<>> /\ idMap' = <<>>
        /\ Goto(t, "name")
    BY DEF Clear
  <1>4. Fields' = Cleared
    BY <1>1, <1>2, <1>3 DEF Fields, Cleared
  <1>5. LoggerTyped'
    BY <1>3 DEF StepsInv, LoggerTyped
  <1> QED BY <1>1, <1>3, <1>4, <1>5, Kept, HolderChanges DEF Labels

LEMMA NameSteps == ASSUME Guarded, StepsInv, NEW t \in Threads, Name(t) PROVE StepsInv'
  <1>1. lock = t
    BY InsideWrite DEF Name, Labels, Outside
  <1>2. Fields = Cleared
    BY <1>1 DEF StepsInv, HolderBuilds, Name, At
  <1>3. /\ UNCHANGED <<writer, headerComplete, formats, subscriptions, idMap, log, closedLogs,
                       currentFileSize, serial, own, made, count, flushed, undefined>>
        /\ \/ Goto(t, "idle") /\ lock' = Free
           \/ Goto(t, "open") /\ lock' = lock
    BY <1>1 DEF Name, Return
  <1>4. Fields' = Cleared
    BY <1>2, <1>3 DEF Fields
  <1>5. DOMAIN initParams' = ParamNames /\ initParams'.structs = AllStructs
    <2>1. DOMAIN initParams = ParamNames /\ initParams.structs = AllStructs
      BY DEF StepsInv, LoggerTyped
    <2>2. initParams' = initParams \/ \E x : initParams' = [initParams EXCEPT !.fileName = x]
      BY DEF Name
    <2> QED BY <2>1, <2>2 DEF ParamNames
  <1>6. LoggerTyped'
    BY <1>3, <1>5 DEF StepsInv, LoggerTyped
  <1> QED BY <1>1, <1>3, <1>4, <1>6, Kept, HolderChanges DEF Labels

LEMMA OpenSteps == ASSUME Guarded, StepsInv, NEW t \in Threads, Open(t) PROVE StepsInv'
  <1>1. lock = t
    BY InsideWrite DEF Open, Labels, Outside
  <1>2. Fields = Cleared
    BY <1>1 DEF StepsInv, HolderBuilds, Open, At
  <1>3. /\ UNCHANGED <<writer, headerComplete, formats, subscriptions, idMap, log, closedLogs,
                       initParams, currentFileSize, serial, own, made, count, flushed, undefined>>
        /\ \/ Goto(t, "idle") /\ lock' = Free
           \/ Goto(t, "begin") /\ lock' = lock
    BY <1>1 DEF Open, Return
  <1>4. Fields' = Cleared
    BY <1>2, <1>3 DEF Fields
  <1>5. LoggerTyped'
    BY <1>3 DEF StepsInv, LoggerTyped
  <1> QED BY <1>1, <1>3, <1>4, <1>5, Kept, HolderChanges DEF Labels

(* The new file, field by field. *)
LEMMA NewFileRecord ==
    NewFile = [writer |-> "header", headerComplete |-> FALSE, formats |-> {}, subscriptions |-> <<>>,
               idMap |-> <<>>, log |-> <<Plain("fileHeader")>>, result |-> Ok]
  <1> DEFINE c == NewFile
             d == [writer |-> c.writer, headerComplete |-> c.headerComplete, formats |-> c.formats,
                   subscriptions |-> c.subscriptions, idMap |-> c.idMap, log |-> c.log,
                   result |-> c.result]
  <1>1. c = [x \in FieldNames |-> c[x]]
    <2>1. NewFile = [x \in DOMAIN NewFile |-> NewFile[x]]
      BY DEF NewFile, Cleared
    <2> QED BY <2>1, NewFileIs
  <1> HIDE DEF c
  <1>2. d = [x \in FieldNames |-> d[x]]
    BY DEF FieldNames
  <1>3. \A x \in FieldNames : c[x] = d[x]
    BY DEF FieldNames
  <1> HIDE DEF d
  <1>4. c = d
    BY <1>1, <1>2, <1>3
  <1> QED BY <1>4, NewFileIs, Zenon DEF c, d

LEMMA StartSteps == ASSUME Guarded, StepsInv, NEW t \in Threads, Start(t) PROVE StepsInv'
  <1>1. lock = t /\ file = "open"
    BY InsideWrite DEF Start, Expected, Labels, Outside
  <1>2. Fields = Cleared
    BY <1>1 DEF StepsInv, HolderBuilds, Start, At
  <1>3. headerComplete = FALSE /\ formats = {} /\ subscriptions = <<>> /\ idMap = <<>> /\ log = <<>>
    BY <1>2 DEF Fields, Cleared
  <1>4. /\ UNCHANGED <<headerComplete, formats, subscriptions, idMap, closedLogs, initParams, serial,
                       own, made, count, flushed, undefined, lock>>
        /\ currentFileSize' = 0 /\ writer' = "header" /\ log' = Append(log, Plain("fileHeader"))
        /\ Goto(t, "replay")
    BY <1>1 DEF Start, StartSize
  <1>5. Plain("fileHeader") \in Pieces
    BY PlainTyped, PiecesTyped DEF Kinds
  <1>6. log' \in Seq(Pieces) /\ log' = <<Plain("fileHeader")>> /\ flushed' \in 0 .. Len(log')
    BY <1>3, <1>4, <1>5, Kept
  <1>7. Fields' = NewFile
    BY <1>3, <1>4, <1>6, NewFileRecord, Zenon DEF Fields
  <1>8. LoggerTyped'
    BY <1>4, <1>6 DEF StepsInv, LoggerTyped
  <1> QED BY <1>1, <1>4, <1>6, <1>7, <1>8, Kept, HolderChanges DEF Labels

(* What a Replay leaves is a file that an Init has begun. *)
LEMMA ReplayBegins ==
    ASSUME Guarded, StepsInv, NEW t \in Threads, Replay(t)
    PROVE  /\ lock = t /\ log = <<Plain("fileHeader")>>
           /\ UNCHANGED <<closedLogs, initParams, currentFileSize, serial, own, made, count, flushed, undefined>>
           /\ \/ Goto(t, "idle") /\ lock' = Free
              \/ Goto(t, "head") /\ lock' = lock
           /\ log' \in Seq(Pieces) /\ log' # <<>> /\ Header(log') /\ subscriptions' \in Seq(Nat)
           /\ \A s \in DOMAIN idMap' : idMap'[s] \in Nat
  <1> DEFINE c == Initialized(Fields, initParams.key, initParams.value, initParams.structs)
             r == IF c.result = Ok THEN result ELSE c.result
  <1>1. lock = t /\ ~ undefined /\ writer = "header" /\ Emptied /\ file = "open"
    BY InsideWrite DEF Replay, Expected, Labels, Outside
  <1>2. Fields = NewFile
    BY <1>1 DEF StepsInv, HolderBuilds, Replay, At
  <1>3. Begun(c)
    BY <1>2, NewLog DEF StepsInv, LoggerTyped
  <1>4. DOMAIN c = FieldNames
    BY <1>2, NewFileIs, InitializedDomain
  <1>5. c.result # Undefined
    <2>1. NewFile.writer # "null" /\ AllStructs \in Seq(Structs)
      BY NewFileIs, ThreadsAssumption
    <2>2. Sound(NewFile)
      BY NewFileIs DEF Sound, Stores
    <2>3. c.result \in {Ok, Usage, Parsing}
      BY <1>2, <2>1, <2>2, NewFileIs, InitializedSound
    <2> HIDE DEF c
    <2> QED BY <2>3 DEF Ok, Usage, Parsing, Undefined
  <1>6. /\ Become([c EXCEPT !.result = r])
        /\ UNCHANGED <<closedLogs, initParams, currentFileSize, serial, own, made, count, flushed, undefined>>
        /\ \/ Goto(t, "idle") /\ lock' = Free
           \/ Goto(t, "head") /\ lock' = lock
    BY <1>1, <1>5 DEF Replay
  <1> HIDE DEF c, r
  <1>7. log' = c.log /\ subscriptions' = c.subscriptions /\ idMap' = c.idMap
    BY <1>4, <1>6 DEF Become, FieldNames
  <1>8. /\ log' \in Seq(Pieces) /\ log' # <<>> /\ Header(log') /\ subscriptions' \in Seq(Nat)
        /\ \A s \in DOMAIN idMap' : idMap'[s] \in Nat
    BY <1>3, <1>7 DEF Begun
  <1>9. log = <<Plain("fileHeader")>>
    BY <1>2, NewFileIs DEF Fields
  <1> QED BY <1>1, <1>6, <1>8, <1>9

LEMMA ReplaySteps == ASSUME Guarded, StepsInv, NEW t \in Threads, Replay(t) PROVE StepsInv'
  <1>1. LoggerTyped'
    BY ReplayBegins DEF StepsInv, LoggerTyped
  <1>2. flushed' \in 0 .. Len(log')
    <2>1. Len(log) = 1
      BY ReplayBegins
    <2>2. Len(log') \in Nat /\ Len(log') # 0
      BY ReplayBegins, LenProperties, EmptySeq
    <2> QED BY <2>1, <2>2, ReplayBegins, Kept
  <1> QED BY <1>1, <1>2, ReplayBegins, Kept, HolderChanges DEF Labels

(* The data. *)
LEMMA SerializeSteps ==
    ASSUME Guarded, StepsInv, NEW t \in Threads, SerializeHead(t) \/ SerializeBody(t)
    PROVE  StepsInv'
  <1>1. lock = t /\ ~ undefined /\ Ready
    BY InsideWrite DEF SerializeHead, SerializeBody, Expected, Labels, Outside
  <1>2. /\ UNCHANGED <<subscriptions, idMap, initParams, currentFileSize, closedLogs, serial, own, made,
                       count, flushed, undefined>>
        /\ \/ /\ log' = Append(log, Piece(t, "head")) \/ log' = Append(log, Piece(t, "data"))
              /\ lock' = lock /\ (Goto(t, "body") \/ Goto(t, "count"))
           \/ log' = log /\ lock' = Free /\ Goto(t, "idle")
    BY <1>1 DEF SerializeHead, SerializeBody, Ready, Return
  <1>3. log' \in Seq(Pieces) /\ (Len(log') = Len(log) + 1 \/ Len(log') = Len(log))
    <2>1. ASSUME NEW r \in Pieces
          PROVE  Append(log, r) \in Seq(Pieces) /\ Len(Append(log, r)) = Len(log) + 1
      BY Kept, AppendTyped
    <2> QED BY <1>2, <2>1, PieceTyped, Kept
  <1>4. LoggerTyped'
    BY <1>2, <1>3 DEF StepsInv, LoggerTyped
  <1>5. flushed' \in 0 .. Len(log')
    BY <1>2, <1>3, Kept
  <1> QED BY <1>1, <1>2, <1>4, <1>5, Kept, HolderChanges DEF Labels

LEMMA NextStepsInv == Guarded /\ StepsInv /\ [ThreadsNext]_threadVars => StepsInv'
  <1> SUFFICES ASSUME Guarded, StepsInv, [ThreadsNext]_threadVars
               PROVE  StepsInv'
    OBVIOUS
  <1>1. ASSUME NEW t \in Threads, Invoke(t) PROVE StepsInv'
    BY <1>1, BeginSteps, ToggleSteps DEF Invoke, CallWrite, CallFsync
  <1>2. ASSUME NEW t \in Threads, Continue(t) PROVE StepsInv'
    BY <1>2, LockSteps, LookupSteps, CheckSteps, CountedSteps, LookingSteps, GrowSteps, ResetSteps,
       CloseSteps, ClearSteps, NameSteps, OpenSteps, StartSteps, ReplaySteps, SerializeSteps
       DEF Continue, InWriteDataImpl
  <1>3. CASE UNCHANGED threadVars
    BY <1>3 DEF threadVars, vars, StepsInv, LoggerTyped, CallsTyped, HolderBuilds, Fields
  <1> QED BY <1>1, <1>2, <1>3 DEF ThreadsNext

LEMMA StepsKept == Managed => []StepsInv
  BY InitStepsInv, NextStepsInv, AlwaysGuarded, PTL DEF Managed

(* The threads' variables have their types, and a thread holds the mutex    *)
(* only in a call, wherever a call throws or a rotation gives up.           *)
THEOREM ThreadsTypeCorrect == Managed => []ThreadsTypeOK
  <1>1. Guarded /\ StepsInv => ThreadsTypeOK
    BY DEF Guarded, ThreadTypes, Exclusion, StepsInv, CallsTyped, ThreadsTypeOK
  <1> QED BY <1>1, AlwaysGuarded, StepsKept, PTL

-----------------------------------------------------------------------------
(***************************************************************************)
(* Heads and bodies. No other thread writes between the two, and no        *)
(* rotation does, so that the invariant is inductive by itself.            *)
(***************************************************************************)
Complete(f) ==
    \A i \in 1 .. Len(f) : f[i].kind = "head" => i < Len(f) /\ f[i + 1] = [f[i] EXCEPT !.kind = "data"]

WholeInv == Whole(log, TRUE) /\ \A f \in RangeOf(closedLogs) : Complete(f)

LEMMA WholeInvSays == ASSUME StepsInv, WholeInv PROVE MessagesAreWhole
  <1>1. closedLogs \in Seq(Seq(Pieces)) /\ DOMAIN closedLogs = 1 .. Len(closedLogs)
    BY Kept, LenProperties
  <1>2. \A f : Complete(f) => Whole(f, FALSE)
    BY DEF Complete, Whole
  <1> QED BY <1>1, <1>2 DEF WholeInv, MessagesAreWhole, RangeOf

LEMMA PieceFields ==
    ASSUME NEW t \in Threads
    PROVE  /\ Piece(t, "head").kind = "head" /\ Piece(t, "data").kind = "data"
           /\ [Piece(t, "head") EXCEPT !.kind = "data"] = Piece(t, "data")
  BY DEF Piece, Record

(* The files stay, and whoever is between a head and its body stays there.  *)
Between(t) == pc[t] = "body" => pc'[t] = "body" /\ own'[t] = own[t]

LEMMA FilesStay ==
    ASSUME WholeInv, UNCHANGED <<log, closedLogs>>, \A t \in Threads : Between(t)
    PROVE  WholeInv'
  <1>1. ASSUME NEW t \in Threads, pc[t] = "body"
        PROVE  pc'[t] = "body" /\ Piece(t, "head")' = Piece(t, "head")
    BY <1>1 DEF Between, Piece
  <1>2. Whole(log, TRUE) => Whole(log, TRUE)'
    BY <1>1 DEF Whole
  <1> QED BY <1>2 DEF WholeInv

(* In a file that is not written to between head and body, each head has    *)
(* its body.                                                                *)
LEMMA WholeAlone ==
    ASSUME NEW f, Whole(f, TRUE), \A t \in Threads : pc[t] # "body"
    PROVE  Complete(f)
  BY DEF Whole, Complete

LEMMA HeaderWhole == ASSUME NEW f, Header(f) PROVE Whole(f, TRUE) /\ Whole(f, TRUE)'
  BY DEF Header, Whole

(* A step of a thread that is not between the two. *)
LEMMA OthersBetween ==
    ASSUME Guarded, StepsInv, NEW t \in Threads, pc[t] # "body",
           UNCHANGED pc \/ \E label : Goto(t, label),
           UNCHANGED own \/ \E x : own' = [own EXCEPT ![t] = x]
    PROVE  \A u \in Threads : Between(u)
  <1>1. own \in [Threads -> Locals] /\ pc \in [Threads -> Labels]
    BY DEF StepsInv, CallsTyped, Guarded, ThreadTypes
  <1>2. \A u \in Threads \ {t} : pc'[u] = pc[u] /\ own'[u] = own[u]
    BY <1>1 DEF Goto
  <1> QED BY <1>2 DEF Between

LEMMA WritesNothing ==
    ASSUME Guarded, StepsInv, WholeInv, NEW t \in Threads,
           \/ Invoke(t) \/ Lock(t) \/ Lookup(t) \/ ReadSwitch(t) \/ LeaveOff(t) \/ Check(t) \/ Grow(t)
           \/ Reset(t) \/ Clear(t) \/ Name(t) \/ Open(t) \/ Counted(t) \/ Test(t) \/ Flush(t)
           \/ Sync(t)
    PROVE  WholeInv'
  <1>1. UNCHANGED <<log, closedLogs>> /\ pc[t] # "body"
    BY DEF Invoke, CallWrite, CallFsync, Begin, Toggle, Lock, Lookup, ReadSwitch, LeaveOff, Check,
           Grow, Reset, Clear, Name, Open, Counted, Test, Flush, Sync, At, vars, loggerVars
  <1>2. UNCHANGED pc \/ \E label : Goto(t, label)
    BY DEF Invoke, CallWrite, CallFsync, Begin, Toggle, Lock, Lookup, ReadSwitch, LeaveOff, Check,
           Grow, Reset, Clear, Name, Open, Counted, Test, Flush, Sync, Return
  <1>3. UNCHANGED own \/ \E x : own' = [own EXCEPT ![t] = x]
    BY DEF Invoke, CallWrite, CallFsync, Begin, Toggle, Lock, Lookup, ReadSwitch, LeaveOff, Check,
           Grow, Reset, Clear, Name, Open, Counted, Test, Flush, Sync
  <1> QED BY <1>1, <1>2, <1>3, OthersBetween, FilesStay

(* The rotation closes a file that has no head without a body. *)
LEMMA CloseWhole ==
    ASSUME Guarded, StepsInv, WholeInv, NEW t \in Threads, Close(t) PROVE WholeInv'
  <1>1. lock = t /\ file = "open"
    BY InsideWrite DEF Close, Expected, Labels, Outside
  <1>2. log' = <<>> /\ closedLogs' = Append(closedLogs, log)
    BY <1>1 DEF Close
  <1>3. \A u \in Threads : pc[u] # "body"
    BY <1>1 DEF Guarded, Exclusion, Outside, Close, At
  <1>4. Complete(log)
    BY <1>3, WholeAlone DEF WholeInv
  <1>5. \A f \in RangeOf(closedLogs') : Complete(f)
    BY <1>2, <1>4, Kept, RangeAppend DEF WholeInv
  <1>6. Whole(log, TRUE)'
    BY <1>2 DEF Whole
  <1> QED BY <1>5, <1>6 DEF WholeInv

LEMMA StartBegins ==
    ASSUME Guarded, StepsInv, NEW t \in Threads, Start(t) PROVE Header(log')
  <1>1. lock = t /\ file = "open"
    BY InsideWrite DEF Start, Expected, Labels, Outside
  <1>2. Fields = Cleared
    BY <1>1 DEF StepsInv, HolderBuilds, Start, At
  <1>3. log = <<>> /\ log' = Append(log, Plain("fileHeader"))
    BY <1>1, <1>2 DEF Fields, Cleared, Start
  <1>4. log' = <<Plain("fileHeader")>> /\ Plain("fileHeader").kind = "fileHeader"
    BY <1>3 DEF Plain, Record
  <1> QED BY <1>4 DEF Header

(* The new file has no message yet. *)
LEMMA BeginWhole ==
    ASSUME Guarded, StepsInv, WholeInv, NEW t \in Threads, Start(t) \/ Replay(t) PROVE WholeInv'
  <1>1. UNCHANGED closedLogs
    BY DEF Start, Replay, loggerVars
  <1>2. CASE Start(t)
    <2>1. Header(log')
      BY <1>2, StartBegins
    <2> QED BY <1>1, <2>1, HeaderWhole DEF WholeInv, Header, Whole
  <1>3. CASE Replay(t)
    <2>1. Header(log')
      BY <1>3, ReplayBegins
    <2> QED BY <1>1, <2>1, HeaderWhole DEF WholeInv, Header, Whole
  <1> QED BY <1>2, <1>3

(* The data that is refused as too long leaves no head. *)
Refuses(t) == own[t].length + 2 > MaxPayload

LEMMA RefusedWhole ==
    ASSUME Guarded, StepsInv, WholeInv, NEW t \in Threads, SerializeHead(t), Refuses(t)
    PROVE  WholeInv'
  <1>1. lock = t /\ ~ undefined /\ Ready /\ pc[t] = "head"
    BY InsideWrite DEF SerializeHead, Expected, Labels, Outside
  <1>2. UNCHANGED <<log, closedLogs, own>> /\ Goto(t, "idle")
    BY <1>1 DEF SerializeHead, Ready, Refuses, Return
  <1> QED BY <1>1, <1>2, OthersBetween, FilesStay

LEMMA HeadWhole ==
    ASSUME Guarded, StepsInv, WholeInv, NEW t \in Threads, SerializeHead(t), ~ Refuses(t)
    PROVE  WholeInv'
  <1>1. lock = t /\ ~ undefined /\ Ready /\ pc[t] = "head"
    BY InsideWrite DEF SerializeHead, Expected, Labels, Outside
  <1>2. log' = Append(log, Piece(t, "head")) /\ Goto(t, "body") /\ UNCHANGED <<closedLogs, own>>
    BY <1>1 DEF SerializeHead, Ready, Refuses
  <1>3. \A u \in Threads : pc[u] # "body"
    BY <1>1 DEF Guarded, Exclusion, Outside
  <1>4. Complete(log)
    BY <1>3, WholeAlone DEF WholeInv
  <1>5. pc'[t] = "body" /\ Piece(t, "head")' = Piece(t, "head")
    BY <1>2 DEF Goto, Guarded, ThreadTypes, Piece
  <1>6. /\ Len(log') = Len(log) + 1 /\ Len(log) \in Nat
        /\ \A j \in 1 .. Len(log) : log'[j] = log[j]
        /\ log'[Len(log) + 1] = Piece(t, "head")
    BY <1>2, Kept, PieceTyped, AppendTyped
  <1>7. ASSUME NEW i \in 1 .. Len(log'), log'[i].kind = "head"
        PROVE  \/ i < Len(log') /\ log'[i + 1] = [log'[i] EXCEPT !.kind = "data"]
               \/ i = Len(log') /\ log'[i] = Piece(t, "head")
    <2>1. CASE i \in 1 .. Len(log)
      <3>1. i < Len(log) /\ log[i + 1] = [log[i] EXCEPT !.kind = "data"]
        BY <1>4, <1>6, <1>7, <2>1 DEF Complete
      <3>2. i + 1 \in 1 .. Len(log)
        BY <1>6, <2>1, <3>1
      <3>3. log'[i + 1] = log[i + 1] /\ log'[i] = log[i] /\ i < Len(log')
        BY <1>6, <2>1, <3>1, <3>2
      <3> QED BY <3>1, <3>3
    <2>2. CASE i \notin 1 .. Len(log)
      <3>1. i = Len(log) + 1
        BY <1>6, <2>2
      <3> QED BY <1>6, <3>1
    <2> QED BY <2>1, <2>2
  <1>8. Whole(log, TRUE)'
    BY <1>5, <1>7 DEF Whole
  <1> QED BY <1>2, <1>8 DEF WholeInv

LEMMA BodyWhole ==
    ASSUME Guarded, StepsInv, WholeInv, NEW t \in Threads, SerializeBody(t) PROVE WholeInv'
  <1>1. lock = t /\ ~ undefined /\ Ready /\ pc[t] = "body"
    BY InsideWrite DEF SerializeBody, Expected, Labels, Outside
  <1>2. log' = Append(log, Piece(t, "data")) /\ UNCHANGED <<closedLogs, own>>
    BY <1>1 DEF SerializeBody, Ready
  <1>3. \A u \in Threads : pc[u] = "body" => u = t
    BY <1>1 DEF Guarded, Exclusion, Outside
  <1>4. /\ Len(log') = Len(log) + 1 /\ Len(log) \in Nat
        /\ \A j \in 1 .. Len(log) : log'[j] = log[j]
        /\ log'[Len(log) + 1] = Piece(t, "data")
    BY <1>2, Kept, PieceTyped, AppendTyped
  <1>5. ASSUME NEW i \in 1 .. Len(log'), log'[i].kind = "head"
        PROVE  i < Len(log') /\ log'[i + 1] = [log'[i] EXCEPT !.kind = "data"]
    <2>1. i \in 1 .. Len(log)
      <3>1. CASE i \notin 1 .. Len(log)
        <4>1. i = Len(log) + 1
          BY <1>4, <3>1
        <4> QED BY <1>4, <1>5, <4>1, PieceFields
      <3> QED BY <3>1
    <2>2. i < Len(log') /\ log'[i] = log[i]
      BY <1>4, <2>1
    <2>3. CASE i < Len(log)
      <3>1. log[i + 1] = [log[i] EXCEPT !.kind = "data"]
        BY <1>3, <1>5, <2>1, <2>2, <2>3 DEF WholeInv, Whole
      <3>2. i + 1 \in 1 .. Len(log)
        BY <1>4, <2>1, <2>3
      <3> QED BY <1>4, <2>2, <3>1, <3>2
    <2>4. CASE i = Len(log)
      <3>1. ~ (i < Len(log))
        BY <1>4, <2>4
      <3>2. log[i] = Piece(t, "head")
        BY <1>3, <1>5, <2>1, <2>2, <3>1 DEF WholeInv, Whole
      <3> QED BY <1>4, <2>2, <2>4, <3>2, PieceFields
    <2> QED BY <1>4, <2>1, <2>3, <2>4
  <1>6. Whole(log, TRUE)'
    BY <1>5 DEF Whole
  <1> QED BY <1>2, <1>6 DEF WholeInv

LEMMA NextWhole == Guarded /\ StepsInv /\ WholeInv /\ [ThreadsNext]_threadVars => WholeInv'
  <1> SUFFICES ASSUME Guarded, StepsInv, WholeInv, [ThreadsNext]_threadVars
               PROVE  WholeInv'
    OBVIOUS
  <1>1. ASSUME NEW t \in Threads, Invoke(t) \/ Continue(t) PROVE WholeInv'
    BY <1>1, WritesNothing, CloseWhole, BeginWhole, RefusedWhole, HeadWhole, BodyWhole
       DEF Continue, InWriteDataImpl
  <1>2. CASE UNCHANGED threadVars
    BY <1>2, FilesStay DEF threadVars, vars, Between
  <1> QED BY <1>1, <1>2 DEF ThreadsNext

(* Each message is in its file in one piece, whatever other threads do      *)
(* between its head and its body, and is not divided between two files.     *)
THEOREM MessagesStayWhole == Managed => []MessagesAreWhole
  <1>1. ThreadsInit => WholeInv
    <2>1. ThreadsInit => Header(log) /\ closedLogs = <<>>
      BY MainBegins DEF ThreadsInit
    <2>2. RangeOf(<<>>) = {}
      BY DEF RangeOf
    <2> QED BY <2>1, <2>2, HeaderWhole DEF WholeInv
  <1>2. StepsInv /\ WholeInv => MessagesAreWhole
    BY WholeInvSays
  <1> QED BY <1>1, <1>2, NextWhole, AlwaysGuarded, StepsKept, PTL DEF Managed

-----------------------------------------------------------------------------
(***************************************************************************)
(* What a crash can cost. The data of a type that is in stdio's buffer     *)
(* only has been counted, but for the record of the thread that is about   *)
(* to; and there are no more than FlushEvery when a thread that has reset  *)
(* the counter is on its way to flush them.                                *)
(***************************************************************************)
HolderAt(s) == IF lock # Free /\ TypeOf[lock] = s THEN pc[lock] ELSE "idle"

Counting == {"count", "test", "flush"}

Allowed(s) ==
    IF HolderAt(s) = "count" THEN count[s] + 1
    ELSE IF HolderAt(s) \in {"test", "flush"} THEN FlushEvery ELSE count[s]

FlushInv == \A s \in Structs : Cardinality(Unflushed(s)) <= Allowed(s)

LEMMA UnflushedFinite ==
    ASSUME StepsInv, NEW s \in Structs
    PROVE  /\ IsFiniteSet(Unflushed(s)) /\ Cardinality(Unflushed(s)) \in Nat
           /\ count[s] \in Nat /\ count[s] < FlushEvery /\ FlushEvery \in Nat /\ Allowed(s) \in Nat
  <1>1. flushed + 1 \in Int /\ Len(log) \in Int
    BY Kept
  <1>2. IsFiniteSet(flushed + 1 .. Len(log))
    BY <1>1, FS_Interval
  <1>3. Unflushed(s) \in SUBSET (flushed + 1 .. Len(log))
    BY DEF Unflushed
  <1>4. IsFiniteSet(Unflushed(s))
    BY <1>2, <1>3, FS_Subset
  <1>5. Cardinality(Unflushed(s)) \in Nat
    BY <1>4, FS_CardinalityType
  <1>6. FlushEvery \in Nat
    BY ThreadsAssumption
  <1>7. count[s] \in 0 .. FlushEvery - 1
    BY DEF StepsInv, CallsTyped
  <1> QED BY <1>4, <1>5, <1>6, <1>7 DEF Allowed

(* Where the holder is, behind a step of t. *)
LEMMA HolderGoes ==
    ASSUME Guarded, NEW t \in Threads, NEW s \in Structs
    PROVE  /\ lock = t => HolderAt(s) = IF TypeOf[t] = s THEN pc[t] ELSE "idle"
           /\ lock = Free => HolderAt(s) = "idle"
           /\ lock' = Free => HolderAt(s)' = "idle"
           /\ \A label : lock' = t /\ Goto(t, label) =>
                HolderAt(s)' = IF TypeOf[t] = s THEN label ELSE "idle"
           /\ \A label : lock # t /\ lock' = lock /\ Goto(t, label) => HolderAt(s)' = HolderAt(s)
           /\ UNCHANGED <<lock, pc>> => HolderAt(s)' = HolderAt(s)
  <1>1. \A u \in Threads : u # Free
    BY ThreadsAssumption
  <1>2. \A label : Goto(t, label) => /\ pc'[t] = label
                                     /\ \A u \in Threads \ {t} : pc'[u] = pc[u]
    BY DEF Goto, Guarded, ThreadTypes
  <1>3. lock \in Threads \union {Free}
    BY DEF Guarded, ThreadTypes
  <1> QED BY <1>1, <1>2, <1>3 DEF HolderAt

(* A step that writes nothing, flushes nothing and counts nothing. *)
LEMMA FlushStays ==
    ASSUME FlushInv, UNCHANGED <<log, flushed, count>>,
           \A s \in Structs : \/ HolderAt(s)' = HolderAt(s)
                              \/ HolderAt(s) \notin Counting /\ HolderAt(s)' \notin Counting
                              \/ HolderAt(s) = "test" /\ HolderAt(s)' = "flush"
    PROVE  FlushInv'
  <1>1. \A s \in Structs : Unflushed(s)' = Unflushed(s)
    BY DEF Unflushed
  <1>2. \A s \in Structs : Allowed(s)' = Allowed(s)
    BY DEF Allowed, Counting
  <1> QED BY <1>1, <1>2 DEF FlushInv

(* A step behind which nothing is in the buffer, of any type. *)
LEMMA FlushedAll ==
    ASSUME StepsInv', \A s \in Structs : Unflushed(s)' = {}
    PROVE  FlushInv'
  <1>1. ASSUME NEW s \in Structs PROVE Allowed(s)' \in Nat
    <2>1. count'[s] \in 0 .. FlushEvery - 1 /\ FlushEvery \in Nat
      BY ThreadsAssumption DEF StepsInv, CallsTyped
    <2> QED BY <2>1 DEF Allowed
  <1>2. Cardinality({}) = 0
    BY FS_EmptySet
  <1> QED BY <1>1, <1>2 DEF FlushInv

(* Where a step of a thread leaves the holder: the steps of Write before it *)
(* counts come to no label at which more is allowed, or return.             *)
LEMMA InvokeFlush ==
    ASSUME Guarded, FlushInv, NEW t \in Threads, Invoke(t) PROVE FlushInv'
  <1>1. UNCHANGED <<log, flushed, count, lock>> /\ pc[t] = "idle"
    BY DEF Invoke, CallWrite, CallFsync, Begin, Toggle, At, vars, loggerVars
  <1>2. lock # t
    BY <1>1 DEF Guarded, Exclusion
  <1>3. UNCHANGED pc \/ \E label : Goto(t, label)
    BY DEF Invoke, CallWrite, CallFsync, Begin, Toggle
  <1>4. \A s \in Structs : HolderAt(s)' = HolderAt(s)
    BY <1>1, <1>2, <1>3, HolderGoes
  <1> QED BY <1>1, <1>4, FlushStays

LEMMA WriteFlush ==
    ASSUME Guarded, FlushInv, NEW t \in Threads,
           \/ Lock(t) \/ Lookup(t) \/ ReadSwitch(t) \/ LeaveOff(t) \/ Check(t) \/ Grow(t)
           \/ Reset(t) \/ Clear(t) \/ Name(t) \/ Open(t)
    PROVE  FlushInv'
  <1>1. UNCHANGED <<log, flushed, count>>
    BY DEF Lock, Lookup, ReadSwitch, LeaveOff, Check, Grow, Reset, Clear, Name, Open, vars, loggerVars
  <1>2. pc[t] \in Labels \ Counting /\ (lock = t \/ lock = Free)
    <2>1. pc[t] \in {"lock", "lookup", "switch", "off", "check", "grow", "reset", "clear", "name", "open"}
      BY DEF Lock, Lookup, ReadSwitch, LeaveOff, Check, Grow, Reset, Clear, Name, Open, At
    <2>2. pc[t] = "lock" => lock = Free
      BY DEF Lock, Lookup, ReadSwitch, LeaveOff, Check, Grow, Reset, Clear, Name, Open, At
    <2>3. pc[t] # "lock" => lock = t
      BY <2>1 DEF Guarded, Exclusion, Outside
    <2> QED BY <2>1, <2>2, <2>3 DEF Labels, Counting
  <1>3. \/ lock' = Free
        \/ lock' = t /\ \E label : label \notin Counting /\ Goto(t, label)
        \/ UNCHANGED <<lock, pc>>
    BY <1>2 DEF Lock, Lookup, ReadSwitch, LeaveOff, Check, Grow, Reset, Clear, Name, Open, Return, Counting
  <1>4. \A s \in Structs : HolderAt(s) \notin Counting
    BY <1>2, HolderGoes DEF Counting
  <1>5. \A s \in Structs : HolderAt(s)' \notin Counting
    BY <1>3, <1>4, HolderGoes DEF Counting
  <1> QED BY <1>1, <1>4, <1>5, FlushStays

LEMMA TestFlush == ASSUME Guarded, FlushInv, NEW t \in Threads, Test(t) PROVE FlushInv'
  <1>1. UNCHANGED <<log, flushed, count>> /\ pc[t] = "test"
    BY DEF Test, At, loggerVars
  <1>2. CASE lock = t
    <2>1. Ready
      BY <1>1, <1>2 DEF Guarded, HolderFinds, Expected
    <2>2. Goto(t, "flush") /\ lock' = t
      BY <1>2, <2>1 DEF Test, Ready
    <2>3. \A s \in Structs : \/ HolderAt(s) = "test" /\ HolderAt(s)' = "flush"
                             \/ HolderAt(s)' = HolderAt(s)
      BY <1>1, <1>2, <2>2, HolderGoes
    <2> QED BY <1>1, <2>3, FlushStays
  <1>3. CASE lock # t
    <2>1. lock' = lock /\ \E label : Goto(t, label)
      BY <1>3 DEF Test, Return
    <2>2. \A s \in Structs : HolderAt(s)' = HolderAt(s)
      BY <1>3, <2>1, HolderGoes
    <2> QED BY <1>1, <2>2, FlushStays
  <1> QED BY <1>2, <1>3

LEMMA SyncFlush == ASSUME Guarded, FlushInv, NEW t \in Threads, Sync(t) PROVE FlushInv'
  <1>1. UNCHANGED <<log, flushed, count>> /\ pc[t] = "sync"
    BY DEF Sync, At, loggerVars
  <1>2. CASE UNCHANGED <<lock, pc>>
    <2>1. \A s \in Structs : HolderAt(s)' = HolderAt(s)
      BY <1>2, HolderGoes
    <2> QED BY <1>1, <2>1, FlushStays
  <1>3. CASE lock = t /\ lock' = Free
    <2>1. \A s \in Structs : HolderAt(s) \notin Counting /\ HolderAt(s)' \notin Counting
      BY <1>1, <1>3, HolderGoes DEF Counting
    <2> QED BY <1>1, <2>1, FlushStays
  <1>4. CASE lock # t /\ lock' = lock /\ Goto(t, "idle")
    <2>1. \A s \in Structs : HolderAt(s)' = HolderAt(s)
      BY <1>4, HolderGoes
    <2> QED BY <1>1, <2>1, FlushStays
  <1> QED BY <1>2, <1>3, <1>4 DEF Sync, Return

LEMMA CountedFlush == ASSUME Guarded, StepsInv, FlushInv, NEW t \in Threads, Counted(t) PROVE FlushInv'
  <1> DEFINE s == TypeOf[t]
  <1>1. lock = t /\ pc[t] = "count"
    BY InsideWrite DEF Counted, Labels, Outside
  <1>2. UNCHANGED <<log, flushed>> /\ count' = [count EXCEPT ![s] = IF Due(s) THEN 0 ELSE count[s] + 1]
        /\ (Due(s) => Goto(t, "test") /\ lock' = t)
        /\ (~ Due(s) => lock' = Free)
    BY <1>1 DEF Counted, Return, loggerVars
  <1>3. s \in Structs /\ count \in [Structs -> 0 .. FlushEvery - 1]
    BY ThreadsAssumption DEF StepsInv, CallsTyped
  <1>4. ASSUME NEW u \in Structs PROVE Cardinality(Unflushed(u))' <= Allowed(u)'
    <2>1. Unflushed(u)' = Unflushed(u)
      BY <1>2 DEF Unflushed
    <2>2. Cardinality(Unflushed(u)) <= Allowed(u)
      BY DEF FlushInv
    <2>3. Allowed(u)' = Allowed(u)
      <3>1. CASE u # s
        <4>1. HolderAt(u) = "idle" /\ HolderAt(u)' = "idle"
          BY <1>1, <1>2, <3>1, HolderGoes
        <4>2. count'[u] = count[u]
          BY <1>2, <1>3, <3>1
        <4> QED BY <4>1, <4>2 DEF Allowed
      <3>2. CASE u = s /\ Due(s)
        <4>1. HolderAt(u) = "count" /\ HolderAt(u)' = "test"
          BY <1>1, <1>2, <3>2, HolderGoes
        <4> QED BY <3>2, <4>1 DEF Allowed, Due
      <3>3. CASE u = s /\ ~ Due(s)
        <4>1. HolderAt(u) = "count" /\ HolderAt(u)' = "idle"
          BY <1>1, <1>2, <3>3, HolderGoes
        <4>2. count'[u] = count[u] + 1
          BY <1>2, <1>3, <3>3
        <4> QED BY <4>1, <4>2 DEF Allowed
      <3> QED BY <3>1, <3>2, <3>3
    <2> QED BY <2>1, <2>2, <2>3
  <1> QED BY <1>4 DEF FlushInv

(* fsync empties the buffer, if it does not find the FILE closed. *)
LEMMA FlushFlush ==
    ASSUME Guarded, StepsInv, StepsInv', FlushInv, NEW t \in Threads, Flush(t) PROVE FlushInv'
  <1>1. CASE file # "closed"
    <2>1. flushed' = Len(log) /\ log' = log
      BY <1>1 DEF Flush, loggerVars
    <2>2. Len(log) \in Nat
      BY Kept
    <2>3. flushed' + 1 .. Len(log') = {}
      BY <2>1, <2>2
    <2>4. \A s \in Structs : Unflushed(s)' = {}
      BY <2>3 DEF Unflushed
    <2> QED BY <2>4, FlushedAll
  <1>2. CASE file = "closed"
    <2>1. UNCHANGED <<log, flushed, count, lock, pc>>
      BY <1>2 DEF Flush, loggerVars
    <2>2. \A s \in Structs : HolderAt(s)' = HolderAt(s)
      BY <2>1, HolderGoes
    <2> QED BY <2>1, <2>2, FlushStays
  <1> QED BY <1>1, <1>2

(* A new file has no data. *)
LEMMA NewFileFlush ==
    ASSUME Guarded, StepsInv, StepsInv', NEW t \in Threads, Close(t) \/ Start(t) \/ Replay(t)
    PROVE  FlushInv'
  <1>1. Header(log')
    <2>1. CASE Close(t)
      <3>1. lock = t /\ file = "open"
        BY <2>1, InsideWrite DEF Close, Expected, Labels, Outside
      <3>2. log' = <<>>
        BY <2>1, <3>1 DEF Close
      <3> QED BY <3>2 DEF Header
    <2>2. CASE Start(t)
      BY <2>2, StartBegins
    <2>3. CASE Replay(t)
      BY <2>3, ReplayBegins
    <2> QED BY <2>1, <2>2, <2>3
  <1>2. \A s \in Structs : Unflushed(s)' = {}
    <2>1. flushed' \in Nat /\ Len(log') \in Nat
      BY LenProperties DEF StepsInv, LoggerTyped, CallsTyped
    <2>2. ASSUME NEW f \in Nat, NEW n \in Nat, NEW i \in f + 1 .. n PROVE i \in 1 .. n
      OBVIOUS
    <2>3. \A i \in flushed' + 1 .. Len(log') : i \in 1 .. Len(log')
      BY <2>1, <2>2
    <2> QED BY <1>1, <2>3 DEF Unflushed, Header
  <1> QED BY <1>2, FlushedAll

LEMMA RefusedFlush ==
    ASSUME Guarded, StepsInv, FlushInv, NEW t \in Threads, SerializeHead(t), Refuses(t)
    PROVE  FlushInv'
  <1>1. lock = t /\ ~ undefined /\ Ready /\ pc[t] = "head"
    BY InsideWrite DEF SerializeHead, Expected, Labels, Outside
  <1>2. UNCHANGED <<log, flushed, count>> /\ lock' = Free
    BY <1>1 DEF SerializeHead, Ready, Refuses, Return
  <1>3. \A s \in Structs : HolderAt(s) \notin Counting /\ HolderAt(s)' \notin Counting
    BY <1>1, <1>2, HolderGoes DEF Counting
  <1> QED BY <1>2, <1>3, FlushStays

LEMMA HeadFlush ==
    ASSUME Guarded, StepsInv, FlushInv, NEW t \in Threads, SerializeHead(t), ~ Refuses(t)
    PROVE  FlushInv'
  <1>1. lock = t /\ ~ undefined /\ Ready /\ pc[t] = "head"
    BY InsideWrite DEF SerializeHead, Expected, Labels, Outside
  <1>2. log' = Append(log, Piece(t, "head")) /\ Goto(t, "body") /\ UNCHANGED <<flushed, count, lock>>
    BY <1>1 DEF SerializeHead, Ready, Refuses
  <1>3. /\ Len(log') = Len(log) + 1 /\ Len(log) \in Nat
        /\ \A j \in 1 .. Len(log) : log'[j] = log[j]
        /\ log'[Len(log) + 1] = Piece(t, "head")
    BY <1>2, Kept, PieceTyped, AppendTyped
  <1>4. ASSUME NEW s \in Structs PROVE Cardinality(Unflushed(s))' <= Allowed(s)'
    <2>1. ASSUME NEW i \in flushed' + 1 .. Len(log'), log'[i].kind = "data", log'[i].type = s
          PROVE  i \in Unflushed(s)
      <3>1. i # Len(log) + 1
        BY <1>3, <2>1, PieceFields
      <3>2. i \in flushed + 1 .. Len(log) /\ i \in 1 .. Len(log)
        BY <1>2, <1>3, <3>1, Kept
      <3> QED BY <1>3, <2>1, <3>2 DEF Unflushed
    <2>2. Unflushed(s)' \in SUBSET Unflushed(s)
      BY <2>1 DEF Unflushed
    <2>3. Cardinality(Unflushed(s)') <= Cardinality(Unflushed(s)) /\ Cardinality(Unflushed(s)') \in Nat
      BY <2>2, UnflushedFinite, FS_Subset, FS_CardinalityType
    <2>4. HolderAt(s) \notin Counting /\ HolderAt(s)' \notin Counting
      BY <1>1, <1>2, HolderGoes DEF Counting
    <2>5. Allowed(s)' = Allowed(s)
      BY <1>2, <2>4 DEF Allowed, Counting
    <2>6. Cardinality(Unflushed(s)) <= Allowed(s)
      BY DEF FlushInv
    <2> QED BY <2>3, <2>5, <2>6, UnflushedFinite
  <1> QED BY <1>4 DEF FlushInv

(* The record that is not counted yet. *)
LEMMA BodyFlush == ASSUME Guarded, StepsInv, FlushInv, NEW t \in Threads, SerializeBody(t) PROVE FlushInv'
  <1>1. lock = t /\ ~ undefined /\ Ready /\ pc[t] = "body"
    BY InsideWrite DEF SerializeBody, Expected, Labels, Outside
  <1>2. log' = Append(log, Piece(t, "data")) /\ Goto(t, "count") /\ UNCHANGED <<flushed, count, lock>>
    BY <1>1 DEF SerializeBody, Ready
  <1>3. /\ Len(log') = Len(log) + 1 /\ Len(log) \in Nat
        /\ \A j \in 1 .. Len(log) : log'[j] = log[j]
        /\ log'[Len(log) + 1] = Piece(t, "data")
    BY <1>2, Kept, PieceTyped, AppendTyped
  <1>4. Piece(t, "data").type = TypeOf[t]
    BY DEF Piece, Record
  <1>5. ASSUME NEW s \in Structs PROVE Cardinality(Unflushed(s))' <= Allowed(s)'
    <2> DEFINE more == IF TypeOf[t] = s THEN Unflushed(s) \union {Len(log) + 1} ELSE Unflushed(s)
    <2>1. ASSUME NEW i \in flushed' + 1 .. Len(log'), log'[i].kind = "data", log'[i].type = s
          PROVE  i \in more
      <3>1. CASE i = Len(log) + 1
        BY <1>3, <1>4, <2>1, <3>1
      <3>2. CASE i # Len(log) + 1
        <4>1. i \in flushed + 1 .. Len(log) /\ i \in 1 .. Len(log)
          BY <1>2, <1>3, <3>2, Kept
        <4>2. i \in Unflushed(s)
          BY <1>3, <2>1, <4>1 DEF Unflushed
        <4> QED BY <4>2
      <3> QED BY <3>1, <3>2
    <2>2. Unflushed(s)' \in SUBSET more
      BY <2>1 DEF Unflushed
    <2>3. IsFiniteSet(more) /\ Cardinality(more) \in Nat
          /\ Cardinality(more) <= Cardinality(Unflushed(s)) + (IF TypeOf[t] = s THEN 1 ELSE 0)
      <3>1. CASE TypeOf[t] = s
        <4> DEFINE u == Unflushed(s)
                   n == Len(log) + 1
        <4>1. IsFiniteSet(u) /\ Cardinality(u) \in Nat
          BY UnflushedFinite
        <4>2. more = u \union {n}
          BY <3>1
        <4> HIDE DEF u, n, more
        <4>3. IsFiniteSet(u \union {n})
              /\ Cardinality(u \union {n}) = IF n \in u THEN Cardinality(u) ELSE Cardinality(u) + 1
          BY <4>1, FS_AddElement
        <4>4. IsFiniteSet(more) /\ Cardinality(more) \in Nat /\ Cardinality(more) <= Cardinality(u) + 1
          BY <4>1, <4>2, <4>3
        <4> QED BY <3>1, <4>4 DEF u
      <3>2. CASE TypeOf[t] # s
        BY <3>2, UnflushedFinite
      <3> QED BY <3>1, <3>2
    <2>4. Cardinality(Unflushed(s)') <= Cardinality(more) /\ Cardinality(Unflushed(s)') \in Nat
      BY <2>2, <2>3, FS_Subset, FS_CardinalityType
    <2> HIDE DEF more
    <2>5. HolderAt(s) \notin Counting /\ HolderAt(s)' = IF TypeOf[t] = s THEN "count" ELSE "idle"
      BY <1>1, <1>2, HolderGoes DEF Counting
    <2>6. Allowed(s) = count[s] /\ Allowed(s)' = count[s] + (IF TypeOf[t] = s THEN 1 ELSE 0)
      BY <1>2, <2>5, UnflushedFinite DEF Allowed, Counting
    <2>7. Cardinality(Unflushed(s)) <= count[s]
      BY <2>6 DEF FlushInv
    <2> QED BY <2>3, <2>4, <2>6, <2>7, UnflushedFinite
  <1> QED BY <1>5 DEF FlushInv

LEMMA NextFlush ==
    Guarded /\ StepsInv /\ StepsInv' /\ FlushInv /\ [ThreadsNext]_threadVars => FlushInv'
  <1> SUFFICES ASSUME Guarded, StepsInv, StepsInv', FlushInv, [ThreadsNext]_threadVars
               PROVE  FlushInv'
    OBVIOUS
  <1>1. ASSUME NEW t \in Threads, Continue(t) PROVE FlushInv'
    BY <1>1, WriteFlush, TestFlush, SyncFlush, CountedFlush, FlushFlush, NewFileFlush, RefusedFlush,
       HeadFlush, BodyFlush
       DEF Continue, InWriteDataImpl
  <1>2. CASE UNCHANGED threadVars
    <2>1. \A s \in Structs : HolderAt(s)' = HolderAt(s)
      BY <1>2 DEF HolderAt, threadVars
    <2> QED BY <1>2, <2>1, FlushStays DEF threadVars, vars
  <1> QED BY <1>1, <1>2, InvokeFlush DEF ThreadsNext

(* Between Writes, fewer than FlushEvery records of a type are in the       *)
(* buffer only, for any number of threads that write it, over rotations,    *)
(* and whenever other threads call fsync.                                   *)
THEOREM CrashCostsLittle == Managed => []FlushKeepsUp
  <1>1. ThreadsInit => FlushInv
    <2> SUFFICES ASSUME ThreadsInit PROVE FlushInv
      OBVIOUS
    <2>1. Header(log) /\ flushed = 0 /\ StepsInv
      BY MainBegins, InitStepsInv DEF ThreadsInit
    <2>2. \A s \in Structs : Unflushed(s) = {}
      <3>1. \A i \in flushed + 1 .. Len(log) : i \in 1 .. Len(log)
        BY <2>1
      <3> QED BY <2>1, <3>1 DEF Unflushed, Header
    <2>3. \A s \in Structs : Allowed(s) \in Nat
      BY <2>1, UnflushedFinite
    <2> QED BY <2>2, <2>3, FS_EmptySet DEF FlushInv
  <1>2. ASSUME StepsInv, FlushInv PROVE FlushKeepsUp
    <2>1. ASSUME lock = Free, NEW s \in Structs PROVE Cardinality(Unflushed(s)) < FlushEvery
      <3>1. Allowed(s) = count[s]
        BY <2>1 DEF Allowed, HolderAt
      <3>2. Cardinality(Unflushed(s)) <= count[s]
        BY <1>2, <3>1 DEF FlushInv
      <3> QED BY <1>2, <3>2, UnflushedFinite
    <2> QED BY <2>1 DEF FlushKeepsUp
  <1> QED BY <1>1, <1>2, NextFlush, AlwaysGuarded, StepsKept, PTL DEF Managed

-----------------------------------------------------------------------------
(***************************************************************************)
(* The Writes of all threads are the Writes of ZzDataLog. AtOnce is that   *)
(* module with the logger as it is seen: what a Write found until it lets  *)
(* go of the mutex, then what it has made of it. First, each outcome of    *)
(* ZzDataLog's Write, from the logger "old" that it finds and the logger   *)
(* "new" that it leaves. The operators of AtOnce on data are those of this *)
(* module.                                                                 *)
(***************************************************************************)
LEMMA SameRecord ==
    ASSUME NEW k, NEW t, NEW i, NEW n
    PROVE  AtOnce!Record(k, t, i, n) = Record(k, t, i, n) /\ AtOnce!Plain(k) = Plain(k)
  BY DEF AtOnce!Record, Record, AtOnce!Plain, Plain, AtOnce!NoStruct, NoStruct

LEMMA SameResults ==
    /\ AtOnce!Ok = Ok /\ AtOnce!Usage = Usage /\ AtOnce!Parsing = Parsing
    /\ AtOnce!InvalidArgument = InvalidArgument /\ AtOnce!Undefined = Undefined
  BY DEF AtOnce!Ok, AtOnce!Usage, AtOnce!Parsing, AtOnce!InvalidArgument, AtOnce!Undefined,
         Ok, Usage, Parsing, InvalidArgument, Undefined

LEMMA ResultsDiffer ==
    /\ Ok # Undefined /\ Usage # Undefined /\ Parsing # Undefined /\ InvalidArgument # Undefined
    /\ Ok # Parsing
  BY DEF Ok, Usage, Parsing, InvalidArgument, Undefined

(* The call gets its number, and some of the logger stays. *)
Begins(old, new) ==
    /\ "Write" \in Api /\ old.result # Undefined /\ old.serial < MaxCalls /\ new.serial = old.serial + 1

LoggerKept(old, new) ==
    /\ new.writer = old.writer /\ new.file = old.file /\ new.headerComplete = old.headerComplete
    /\ new.formats = old.formats /\ new.subscriptions = old.subscriptions /\ new.idMap = old.idMap
    /\ new.currentFileSize = old.currentFileSize /\ new.initParams = old.initParams
    /\ new.log = old.log /\ new.closedLogs = old.closedLogs /\ new.logged = old.logged

(* The logger is on, knows the type and accepts its size. *)
TakesData(old, s) ==
    /\ s \in DOMAIN old.idMap /\ seen /\ old.headerComplete
    /\ ~ (old.idMap[s] >= Len(old.subscriptions))
    /\ ~ (SizeOf[s] < old.subscriptions[old.idMap[s] + 1])

LEMMA WriteRefused ==
    ASSUME NEW CONSTANT s, NEW CONSTANT old, NEW CONSTANT new, Seen = old, Seen' = new, seen' = seen,
           Begins(old, new), LoggerKept(old, new), new.result = Usage,
           \/ s \notin DOMAIN old.idMap
           \/ s \in DOMAIN old.idMap /\ seen /\ ~ TakesData(old, s)
    PROVE  AtOnce!Write(s)
  <1>1. AtOnce!Call("Write")
    BY SameResults DEF AtOnce!Call, Begins
  <1>2. AtOnce!Throw(Usage) /\ Seen'.initParams = Seen.initParams
    BY DEF AtOnce!Throw, LoggerKept
  <1> QED BY <1>1, <1>2, SameResults DEF AtOnce!Write, AtOnce!WriteDataImpl, TakesData

LEMMA WriteIsOff ==
    ASSUME NEW CONSTANT s, NEW CONSTANT old, NEW CONSTANT new, Seen = old, Seen' = new, seen' = seen,
           Begins(old, new), LoggerKept(old, new), new.result = Ok, s \in DOMAIN old.idMap, ~ seen
    PROVE  AtOnce!Write(s)
  <1>1. AtOnce!Call("Write")
    BY SameResults DEF AtOnce!Call, Begins
  <1>2. AtOnce!Throw(Ok) /\ Seen'.initParams = Seen.initParams
    BY DEF AtOnce!Throw, LoggerKept
  <1> QED BY <1>1, <1>2, SameResults DEF AtOnce!Write

(* The record of the call, behind what the file has in it, unless it is too *)
(* long for a message.                                                      *)
DataOf(old, s) == Record("data", s, old.idMap[s], old.serial)
Long(old, s)   == old.subscriptions[old.idMap[s] + 1] + 2 > MaxPayload

LogsData(old, new, s, base) ==
    IF Long(old, s)
    THEN /\ WithoutHeads(new.log) = WithoutHeads(base)
         /\ new.logged = old.logged
         /\ new.result = Parsing
    ELSE /\ WithoutHeads(new.log) = Append(WithoutHeads(base), DataOf(old, s))
         /\ new.logged = Append(old.logged, old.serial)
         /\ new.result = Ok

LEMMA WriteAppends ==
    ASSUME NEW CONSTANT s, NEW CONSTANT old, NEW CONSTANT new, Seen = old, Seen' = new, seen' = seen,
           Begins(old, new), TakesData(old, s), old.writer # "null",
           ~ (old.currentFileSize + SizeOf[s] >= MaxFileSize),
           LogsData(old, new, s, old.log),
           new.writer = old.writer, new.file = old.file, new.headerComplete = old.headerComplete,
           new.formats = old.formats, new.subscriptions = old.subscriptions, new.idMap = old.idMap,
           new.currentFileSize = old.currentFileSize + SizeOf[s], new.initParams = old.initParams,
           new.closedLogs = old.closedLogs
    PROVE  AtOnce!Write(s)
  <1>1. AtOnce!Call("Write")
    BY SameResults DEF AtOnce!Call, Begins
  <1>2. AtOnce!DataRecord(old.idMap[s], s) = DataOf(old, s)
    BY SameRecord DEF AtOnce!DataRecord, DataOf
  <1>3. AtOnce!TooLong(old.idMap[s]) <=> Long(old, s)
    BY DEF AtOnce!TooLong, Long
  <1>4. AtOnce!AppendData(old.idMap[s], s)
    <2>1. CASE Long(old, s)
      BY <1>3, <2>1, SameResults DEF AtOnce!AppendData, LogsData
    <2>2. CASE ~ Long(old, s)
      BY <1>2, <1>3, <2>2, SameResults DEF AtOnce!AppendData, LogsData
    <2> QED BY <2>1, <2>2
  <1>5. AtOnce!WriteDataImpl(old.idMap[s], s)
    BY <1>4 DEF AtOnce!WriteDataImpl, AtOnce!IsFull, TakesData
  <1> QED BY <1>1, <1>5 DEF AtOnce!Write, TakesData

(* What AtOnce makes of the file that it closes. *)
ClosesOld(old, new) ==
    [i \in 1 .. Len(new.closedLogs) |-> WithoutHeads(new.closedLogs[i])] =
      Append([i \in 1 .. Len(old.closedLogs) |-> WithoutHeads(old.closedLogs[i])], WithoutHeads(old.log))

(* A rotation that ends without a new file. *)
GaveUp(old, new, s) ==
    /\ new.writer = "null" /\ new.headerComplete = FALSE /\ new.formats = {}
    /\ new.subscriptions = <<>> /\ new.idMap = <<>> /\ WithoutHeads(new.log) = <<>>
    /\ new.currentFileSize = old.currentFileSize + SizeOf[s]
    /\ new.logged = old.logged

LEMMA SameGiveUp ==
    ASSUME NEW CONSTANT s, NEW CONSTANT old, NEW CONSTANT new, Seen = old, Seen' = new,
           GaveUp(old, new, s), ClosesOld(old, new)
    PROVE  AtOnce!GiveUp(new.result, s)
  <1>1. AtOnce!Cleared = Cleared
    BY SameResults DEF AtOnce!Cleared, Cleared
  <1> DEFINE c == AtOnce!Ends(AtOnce!Cleared, new.result)
  <1>2. /\ c.writer = "null" /\ c.headerComplete = FALSE /\ c.formats = {}
        /\ c.subscriptions = <<>> /\ c.idMap = <<>> /\ c.log = <<>> /\ c.result = new.result
    BY <1>1 DEF AtOnce!Ends, Cleared
  <1> HIDE DEF c
  <1>3. AtOnce!Become(c)
    BY <1>2 DEF AtOnce!Become, GaveUp
  <1>4. AtOnce!GiveUp(new.result, s)
    BY <1>3 DEF AtOnce!GiveUp, GaveUp, ClosesOld, c
  <1> QED BY <1>4

(* The next file and what Init makes of it. *)
LEMMA SameNames ==
    ASSUME NEW name
    PROVE  (AtOnce!HasNoNewName(name) <=> HasNoNewName(name)) /\ AtOnce!NewFilename(name) = NewFilename(name)
  BY DEF AtOnce!HasNoNewName, HasNoNewName, AtOnce!HasNoVersion, HasNoVersion, AtOnce!NoStem, NoStem,
         AtOnce!IsNumber, IsNumber, AtOnce!VersionPart, VersionPart, AtOnce!NewFilename, NewFilename,
         AtOnce!Text, Text, AtOnce!Number, Number, AtOnce!NotANumber, NotANumber,
         AtOnce!Extension, Extension

LEMMA SameInit ==
    ASSUME NEW c, NEW key, NEW value, NEW structs
    PROVE  AtOnce!Initialized(c, key, value, structs) = Initialized(c, key, value, structs)
  <1>1. \A e : AtOnce!Stops(e, structs) = Stops(e, structs)
    BY DEF AtOnce!Stops, Stops
  <1>2. \A s : AtOnce!RangeOf(s) = RangeOf(s)
    BY DEF AtOnce!RangeOf, RangeOf
  <1>3. \A e, s : AtOnce!Registered(e, s) = Registered(e, s)
    BY <1>2, SameRecord, Zenon DEF AtOnce!Registered, Registered
  <1>4. \A e, s : AtOnce!Subscribed(e, s) = Subscribed(e, s)
    <2> SUFFICES ASSUME NEW e, NEW s PROVE AtOnce!Subscribed(e, s) = Subscribed(e, s)
      OBVIOUS
    <2> DEFINE id(i) == (Len(e.subscriptions) + i - 1) % IdCount
    <2>1. [i \in 1 .. Len(s) |-> AtOnce!Record("add", s[i], id(i), 0)]
            = [i \in 1 .. Len(s) |-> Record("add", s[i], id(i), 0)]
      BY SameRecord, Zenon
    <2>2. AtOnce!RangeOf(s) = RangeOf(s)
      BY <1>2
    <2> DEFINE ids == [t \in RangeOf(s) |-> id(CHOOSE i \in DOMAIN s : s[i] = t)]
               aids == [t \in AtOnce!RangeOf(s) |-> id(CHOOSE i \in DOMAIN s : s[i] = t)]
               map(f) == [t \in DOMAIN f \union DOMAIN e.idMap |-> IF t \in DOMAIN f THEN f[t] ELSE e.idMap[t]]
    <2>3. aids = ids
      BY <2>2, Zenon
    <2>4. map(aids) = map(ids)
      <3> HIDE DEF aids, ids, map
      <3> QED BY <2>3
    <2> DEFINE adds == [i \in 1 .. Len(s) |-> Record("add", s[i], id(i), 0)]
               aadds == [i \in 1 .. Len(s) |-> AtOnce!Record("add", s[i], id(i), 0)]
               sizes == [i \in 1 .. Len(s) |-> MessageSize[s[i]]]
               whole(m, a) == [e EXCEPT !.writer = "data",
                                 !.headerComplete = TRUE,
                                 !.subscriptions = @ \o sizes,
                                 !.idMap = m,
                                 !.log = @ \o a]
    <2>5. Subscribed(e, s) = whole(map(ids), adds)
      BY Zenon DEF Subscribed
    <2>6. AtOnce!Subscribed(e, s) = whole(map(aids), aadds)
      BY Zenon DEF AtOnce!Subscribed
    <2>7. aadds = adds
      BY <2>1
    <2> HIDE DEF aadds, adds, map, ids, aids, sizes, whole
    <2> QED BY <2>4, <2>5, <2>6, <2>7
  <1>5. \A e, r : AtOnce!Ends(e, r) = Ends(e, r)
    BY DEF AtOnce!Ends, Ends
  <1> DEFINE done == AtOnce!Subscribed(AtOnce!Registered(c, structs), structs)
  <1>6. done = Subscribed(Registered(c, structs), structs)
    BY <1>3, <1>4, Zenon
  <1>7. /\ AtOnce!Ends(c, AtOnce!Usage) = Ends(c, Usage)
        /\ AtOnce!Ends(c, AtOnce!Undefined) = Ends(c, Undefined)
        /\ AtOnce!Ends(done, AtOnce!Ok) = Ends(Subscribed(Registered(c, structs), structs), Ok)
    BY <1>5, <1>6, SameResults, Zenon
  <1> DEFINE stop == CHOOSE i \in Stops(c, structs) : \A j \in Stops(c, structs) : i <= j
             astop == CHOOSE i \in AtOnce!Stops(c, structs) : \A j \in AtOnce!Stops(c, structs) : i <= j
             most == SubSeq(structs, 1, stop - 1)
             amost == SubSeq(structs, 1, astop - 1)
  <1>8. amost = most /\ AtOnce!Stops(c, structs) = Stops(c, structs)
    BY <1>1, Zenon
  <1>9. AtOnce!Rejected(AtOnce!Registered(c, amost), structs[astop]) = Rejected(Registered(c, most), structs[stop])
    <2>1. \A e, t : AtOnce!Rejected(e, t) = Rejected(e, t)
      BY <1>5, SameResults, Zenon DEF AtOnce!Rejected, Rejected
    <2>2. astop = stop
      BY <1>8, Zenon
    <2> HIDE DEF most, amost, stop, astop
    <2> QED BY <1>3, <1>8, <2>1, <2>2, Zenon
  <1> DEFINE ending(none, refused, undefined0, parsing, all, some) ==
               IF key = "" \/ value = "" \/ c.headerComplete THEN refused
               ELSE IF c.writer = "null" THEN undefined0
               ELSE IF <<key, value>> \in LongInfos THEN parsing
               ELSE IF none = {} THEN all ELSE some
  <1>10. AtOnce!Initialized(c, key, value, structs)
           = ending(AtOnce!Stops(c, structs), AtOnce!Ends(c, AtOnce!Usage), AtOnce!Ends(c, AtOnce!Undefined),
                    AtOnce!Ends(c, AtOnce!Parsing), AtOnce!Ends(done, AtOnce!Ok),
                    AtOnce!Rejected(AtOnce!Registered(c, amost), structs[astop]))
    BY Zenon DEF AtOnce!Initialized
  <1>11. Initialized(c, key, value, structs)
           = ending(Stops(c, structs), Ends(c, Usage), Ends(c, Undefined), Ends(c, Parsing),
                    Ends(Subscribed(Registered(c, structs), structs), Ok),
                    Rejected(Registered(c, most), structs[stop]))
    BY Zenon DEF Initialized
  <1>12. AtOnce!Ends(c, AtOnce!Parsing) = Ends(c, Parsing)
    BY <1>5, SameResults, Zenon
  <1> HIDE DEF done, most, amost, stop, astop, ending
  <1> QED BY <1>7, <1>8, <1>9, <1>10, <1>11, <1>12

LEMMA SameNewFile == AtOnce!NewFile = NewFile
  <1>1. AtOnce!Cleared = Cleared
    BY SameResults DEF AtOnce!Cleared, Cleared
  <1> QED BY <1>1, SameRecord, Zenon DEF AtOnce!NewFile, NewFile

(* A Write that rotates, by where the rotation ends. *)
Fills(old, s) == old.currentFileSize + SizeOf[s] >= MaxFileSize

LEMMA WriteRotates ==
    ASSUME NEW CONSTANT s, NEW CONSTANT old, NEW CONSTANT new, Seen = old, Seen' = new, seen' = seen,
           Begins(old, new), TakesData(old, s), Fills(old, s), AtOnce!Rotate(old.idMap[s], s)
    PROVE  AtOnce!Write(s)
  <1>1. AtOnce!Call("Write")
    BY SameResults DEF AtOnce!Call, Begins
  <1>2. AtOnce!WriteDataImpl(old.idMap[s], s)
    BY DEF AtOnce!WriteDataImpl, AtOnce!IsFull, TakesData, Fills
  <1> QED BY <1>1, <1>2 DEF AtOnce!Write, TakesData

LEMMA RotationNotNamed ==
    ASSUME NEW CONSTANT s, NEW CONSTANT old, NEW CONSTANT new, Seen = old, Seen' = new,
           old.file = "open", HasNoNewName(old.initParams.fileName), new.file = "closed",
           GaveUp(old, new, s), ClosesOld(old, new),
           new.result = IF old.initParams.fileName = <<>> THEN Usage ELSE InvalidArgument,
           new.initParams = old.initParams
    PROVE  AtOnce!Rotate(old.idMap[s], s)
  <1>1. AtOnce!GiveUp(new.result, s)
    BY SameGiveUp
  <1>2. AtOnce!HasNoNewName(old.initParams.fileName)
    BY SameNames
  <1> QED BY <1>1, <1>2, SameResults DEF AtOnce!Rotate

NewName(old) == [old.initParams EXCEPT !.fileName = NewFilename(old.initParams.fileName)]

LEMMA RotationNotOpened ==
    ASSUME NEW CONSTANT s, NEW CONSTANT old, NEW CONSTANT new, Seen = old, Seen' = new,
           old.file = "open", ~ HasNoNewName(old.initParams.fileName), new.file = "null",
           GaveUp(old, new, s), ClosesOld(old, new),
           new.result = Parsing,
           new.initParams = NewName(old)
    PROVE  AtOnce!Rotate(old.idMap[s], s)
  <1>1. AtOnce!GiveUp(new.result, s)
    BY SameGiveUp
  <1>2. ~ AtOnce!HasNoNewName(old.initParams.fileName)
    BY SameNames
  <1>3. new.initParams = [old.initParams EXCEPT !.fileName = AtOnce!NewFilename(old.initParams.fileName)]
    BY SameNames DEF NewName
  <1> QED BY <1>1, <1>2, <1>3, SameResults DEF AtOnce!Rotate

InitOf(old) ==
    Initialized(NewFile, old.initParams.key, old.initParams.value, old.initParams.structs)

Became(new, c) ==
    /\ new.writer = c.writer /\ new.headerComplete = c.headerComplete /\ new.formats = c.formats
    /\ new.subscriptions = c.subscriptions /\ new.idMap = c.idMap

LEMMA RotationRefused ==
    ASSUME NEW CONSTANT s, NEW CONSTANT old, NEW CONSTANT new, Seen = old, Seen' = new,
           old.file = "open", ~ HasNoNewName(old.initParams.fileName), new.file = "open",
           ClosesOld(old, new), new.initParams = NewName(old), new.currentFileSize = 0,
           Became(new, InitOf(old)), WithoutHeads(new.log) = InitOf(old).log,
           new.result = InitOf(old).result, InitOf(old).result # Ok,
           new.logged = old.logged
    PROVE  AtOnce!Rotate(old.idMap[s], s)
  <1> DEFINE c == InitOf(old)
  <1>1. AtOnce!Become(c)
    BY DEF AtOnce!Become, Became
  <1>2. ~ AtOnce!HasNoNewName(old.initParams.fileName)
    BY SameNames
  <1>3. new.initParams = [old.initParams EXCEPT !.fileName = AtOnce!NewFilename(old.initParams.fileName)]
    BY SameNames DEF NewName
  <1>4. AtOnce!Initialized(AtOnce!NewFile, old.initParams.key, old.initParams.value, old.initParams.structs) = c
    BY SameInit, SameNewFile DEF InitOf
  <1>5. Seen'.closedLogs = new.closedLogs /\ Seen'.logged = new.logged
    OBVIOUS
  <1> QED BY <1>1, <1>2, <1>3, <1>4, <1>5, SameResults DEF AtOnce!Rotate, ClosesOld

LEMMA RotationWrites ==
    ASSUME NEW CONSTANT s, NEW CONSTANT old, NEW CONSTANT new, Seen = old, Seen' = new,
           old.file = "open", ~ HasNoNewName(old.initParams.fileName), new.file = "open",
           ClosesOld(old, new), new.initParams = NewName(old), new.currentFileSize = 0,
           Became(new, InitOf(old)), InitOf(old).result = Ok,
           LogsData(old, new, s, InitOf(old).log),
           WithoutHeads(InitOf(old).log) = InitOf(old).log,
           DOMAIN InitOf(old) = FieldNames
    PROVE  AtOnce!Rotate(old.idMap[s], s)
  <1> DEFINE c == InitOf(old)
             d == AtOnce!Resumed(c, old.idMap[s], s)
  <1>0. AtOnce!DataRecord(old.idMap[s], s) = DataOf(old, s)
    BY SameRecord DEF AtOnce!DataRecord, DataOf
  <1>8. AtOnce!TooLong(old.idMap[s]) <=> Long(old, s)
    BY DEF AtOnce!TooLong, Long
  <1>9. d = IF Long(old, s) THEN [c EXCEPT !.result = Parsing]
            ELSE [c EXCEPT !.log = Append(c.log, DataOf(old, s))]
    <2>1. CASE Long(old, s)
      BY <1>8, <2>1, SameResults, Zenon DEF AtOnce!Resumed, AtOnce!Ends
    <2>2. CASE ~ Long(old, s)
      BY <1>0, <1>8, <2>2, Zenon DEF AtOnce!Resumed
    <2> HIDE DEF d, c
    <2> QED BY <2>1, <2>2
  <1>10. /\ d.writer = c.writer /\ d.headerComplete = c.headerComplete /\ d.formats = c.formats
         /\ d.subscriptions = c.subscriptions /\ d.idMap = c.idMap
         /\ d.result = (IF Long(old, s) THEN Parsing ELSE Ok)
         /\ d.log = (IF Long(old, s) THEN c.log ELSE Append(c.log, DataOf(old, s)))
    <2> HIDE DEF c, d
    <2> QED BY <1>9 DEF c, FieldNames
  <1>1. AtOnce!Become(d)
    <2>1. /\ WithoutHeads(new.log) = (IF Long(old, s) THEN c.log ELSE Append(c.log, DataOf(old, s)))
          /\ new.result = (IF Long(old, s) THEN Parsing ELSE Ok)
      BY DEF LogsData
    <2> HIDE DEF d
    <2> QED BY <1>10, <2>1 DEF AtOnce!Become, Became
  <1>2. ~ AtOnce!HasNoNewName(old.initParams.fileName)
    BY SameNames
  <1>3. new.initParams = [old.initParams EXCEPT !.fileName = AtOnce!NewFilename(old.initParams.fileName)]
    BY SameNames DEF NewName
  <1>4. AtOnce!Initialized(AtOnce!NewFile, old.initParams.key, old.initParams.value, old.initParams.structs) = c
    BY SameInit, SameNewFile DEF InitOf
  <1>5. new.logged = IF d.result = Ok THEN Append(old.logged, old.serial) ELSE old.logged
    <2> HIDE DEF d
    <2> QED BY <1>10, ResultsDiffer DEF LogsData
  <1>6. Seen'.closedLogs = new.closedLogs /\ Seen'.logged = new.logged
    OBVIOUS
  <1>7. c.result = Ok
    OBVIOUS
  <1> HIDE DEF d
  <1> QED BY <1>1, <1>2, <1>3, <1>4, <1>5, <1>6, <1>7, SameResults DEF AtOnce!Rotate, ClosesOld, d

-----------------------------------------------------------------------------
(* Files as ZzDataLog has them: WithoutHeads, and what one more record adds *)
(* to it.                                                                   *)
WithoutStep(f) ==
    [n \in 1 .. Len(f) |-> [x \in Seq(Pieces) |-> IF f[n].kind = "head" THEN x ELSE Append(x, f[n])]]

LEMMA WithoutHeadsUpToIs ==
    ASSUME NEW f \in Seq(Pieces)
    PROVE  /\ Iterates(WithoutHeadsUpTo(f), Len(f), Seq(Pieces), <<>>, WithoutStep(f))
           /\ \A n \in 1 .. Len(f) : \A x \in Seq(Pieces) :
                WithoutStep(f)[n][x] = IF f[n].kind = "head" THEN x ELSE Append(x, f[n])
  <1> DEFINE m == Len(f)
             G(g) == [n \in 0 .. m |-> IF n = 0 THEN <<>>
                                       ELSE IF f[n].kind = "head" THEN g[n - 1]
                                       ELSE Append(g[n - 1], f[n])]
             u == CHOOSE g : g = G(g)
  <1>1. WithoutHeadsUpTo(f) = u
    BY DEF WithoutHeadsUpTo
  <1>2. m \in Nat /\ \A n \in 1 .. m : f[n] \in Pieces
    BY LenProperties, ElementOfSeq
  <1> HIDE DEF m
  <1>4. ASSUME NEW n \in 1 .. m, NEW x \in Seq(Pieces)
        PROVE  /\ WithoutStep(f)[n][x] = IF f[n].kind = "head" THEN x ELSE Append(x, f[n])
               /\ WithoutStep(f)[n][x] \in Seq(Pieces)
    <2>1. WithoutStep(f)[n][x] = IF f[n].kind = "head" THEN x ELSE Append(x, f[n])
      BY DEF WithoutStep, m
    <2>2. Append(x, f[n]) \in Seq(Pieces)
      BY <1>2
    <2> QED BY <2>1, <2>2
  <1>5. WithoutStep(f) \in [1 .. m -> [Seq(Pieces) -> Seq(Pieces)]]
    <2>1. ASSUME NEW n \in 1 .. m, NEW x \in Seq(Pieces)
          PROVE  (IF f[n].kind = "head" THEN x ELSE Append(x, f[n])) \in Seq(Pieces)
      BY <1>2
    <2> QED BY <2>1 DEF WithoutStep, m
  <1>6. <<>> \in Seq(Pieces)
    OBVIOUS
  <1>7. PICK g : Iterates(g, m, Seq(Pieces), <<>>, WithoutStep(f))
    BY <1>2, <1>5, <1>6, RecursionExists
  <1>8. g = G(g)
    <2>1. \A n \in 1 .. m : g[n - 1] \in Seq(Pieces) /\ g[n] = WithoutStep(f)[n][g[n - 1]]
      BY <1>2, <1>7 DEF Iterates
    <2>2. \A n \in 1 .. m : g[n] = IF f[n].kind = "head" THEN g[n - 1] ELSE Append(g[n - 1], f[n])
      BY <1>4, <2>1
    <2>3. g[0] = <<>> /\ g = [n \in 0 .. m |-> g[n]]
      BY <1>7 DEF Iterates
    <2>4. \A n \in 0 .. m : n = 0 \/ n \in 1 .. m
      BY <1>2
    <2> QED BY <2>2, <2>3, <2>4
  <1>9. u = G(u)
    <2> HIDE DEF G
    <2> QED BY <1>8, Zenon
  <1> HIDE DEF u
  <1>10. /\ u[0] = <<>>
         /\ \A n \in 1 .. m : u[n] = IF f[n].kind = "head" THEN u[n - 1] ELSE Append(u[n - 1], f[n])
    <2>1. ASSUME NEW h
          PROVE  /\ G(h)[0] = <<>>
                 /\ \A n \in 1 .. m :
                      G(h)[n] = IF f[n].kind = "head" THEN h[n - 1] ELSE Append(h[n - 1], f[n])
      BY <1>2
    <2> HIDE DEF G
    <2> QED BY <1>9, <2>1
  <1>11. IsOver(u, m)
    BY <1>9 DEF IsOver
  <1> HIDE DEF G
  <1>12. \A n \in 1 .. m : u[n - 1] \in Seq(Pieces) => u[n] = WithoutStep(f)[n][u[n - 1]]
    BY <1>4, <1>10
  <1> QED BY <1>1, <1>2, <1>4, <1>5, <1>6, <1>10, <1>11, <1>12, RecursionTyped DEF m

LEMMA WithoutHeadsAppend ==
    ASSUME NEW f \in Seq(Pieces), NEW r \in Pieces
    PROVE  /\ WithoutHeads(f) \in Seq(Pieces)
           /\ WithoutHeads(Append(f, r)) = IF r.kind = "head" THEN WithoutHeads(f)
                                                              ELSE Append(WithoutHeads(f), r)
  <1> DEFINE m == Len(f)
             g == Append(f, r)
  <1>1. /\ m \in Nat /\ g \in Seq(Pieces) /\ Len(g) = m + 1 /\ g[m + 1] = r
        /\ \A n \in 1 .. m : g[n] = f[n]
    BY AppendTyped
  <1>2. Iterates(WithoutHeadsUpTo(f), m, Seq(Pieces), <<>>, WithoutStep(f))
    BY WithoutHeadsUpToIs
  <1> HIDE DEF g, m
  <1>3. Iterates(WithoutHeadsUpTo(g), m + 1, Seq(Pieces), <<>>, WithoutStep(g))
    BY <1>1, WithoutHeadsUpToIs
  <1>4. ASSUME NEW n \in 1 .. m PROVE WithoutStep(f)[n] = WithoutStep(g)[n]
    <2>1. n \in 1 .. Len(f) /\ n \in 1 .. Len(g) /\ g[n] = f[n]
      BY <1>1 DEF m
    <2> QED BY <2>1 DEF WithoutStep
  <1>5. WithoutHeadsUpTo(g)[m + 1] = WithoutStep(g)[m + 1][WithoutHeadsUpTo(f)[m]]
        /\ WithoutHeadsUpTo(f)[m] \in Seq(Pieces)
    BY <1>1, <1>2, <1>3, <1>4, IteratesOnce
  <1>6. m + 1 \in 1 .. Len(g)
    BY <1>1
  <1>7. \A x \in Seq(Pieces) : WithoutStep(g)[m + 1][x] = IF r.kind = "head" THEN x ELSE Append(x, r)
    BY <1>1, <1>6 DEF WithoutStep
  <1> QED BY <1>1, <1>5, <1>7 DEF WithoutHeads, m, g

(* A file that has none is as it is. *)
LEMMA NoHeadsLeft ==
    ASSUME NEW f \in Seq(Pieces), Header(f) PROVE WithoutHeads(f) = f
  <1> DEFINE g == WithoutHeadsUpTo(f)
             S == {k \in Nat : k <= Len(f) => g[k] = [i \in 1 .. k |-> f[i]]}
  <1>1. Iterates(g, Len(f), Seq(Pieces), <<>>, WithoutStep(f))
    BY WithoutHeadsUpToIs
  <1> HIDE DEF g
  <1>2. Len(f) \in Nat /\ f = [i \in 1 .. Len(f) |-> f[i]]
    BY LenProperties
  <1>3. 0 \in S
    <2>1. g[0] = <<>>
      BY <1>1 DEF Iterates
    <2>2. [i \in 1 .. 0 |-> f[i]] = <<>>
      OBVIOUS
    <2> QED BY <2>1, <2>2
  <1>4. ASSUME NEW k \in Nat, k \in S PROVE k + 1 \in S
    <2> SUFFICES ASSUME k + 1 <= Len(f) PROVE g[k + 1] = [i \in 1 .. k + 1 |-> f[i]]
      OBVIOUS
    <2> DEFINE p == [i \in 1 .. k |-> f[i]]
    <2>1. g[k] = p
      BY <1>2, <1>4
    <2>2. k + 1 \in 1 .. Len(f) /\ k + 1 - 1 = k /\ k \in 0 .. Len(f) /\ f[k + 1].kind # "head"
      BY <1>2 DEF Header
    <2>3. g[k + 1] = WithoutStep(f)[k + 1][g[k]] /\ g[k] \in Seq(Pieces)
      BY <1>1, <2>2 DEF Iterates
    <2>4. g[k + 1] = Append(g[k], f[k + 1])
      BY <2>2, <2>3, WithoutHeadsUpToIs
    <2>5. \A i \in 1 .. k : f[i] \in Pieces
      BY <1>2, ElementOfSeq
    <2>6. f[k + 1] \in Pieces
      BY <2>2, ElementOfSeq
    <2>7. Append(p, f[k + 1]) = [i \in 1 .. k + 1 |-> f[i]]
      <3>1. p \in Seq(Pieces) /\ Len(p) = k
        BY <2>5
      <3>2. /\ Append(p, f[k + 1]) \in Seq(Pieces) /\ Len(Append(p, f[k + 1])) = k + 1
            /\ Append(p, f[k + 1])[k + 1] = f[k + 1]
            /\ \A n \in 1 .. k : Append(p, f[k + 1])[n] = p[n]
        BY <3>1, <2>6, AppendTyped
      <3>3. DOMAIN Append(p, f[k + 1]) = 1 .. k + 1
        BY <3>2, LenProperties
      <3>4. Append(p, f[k + 1]) = [i \in 1 .. k + 1 |-> Append(p, f[k + 1])[i]]
        BY <3>2, <3>3, LenProperties
      <3>5. \A i \in 1 .. k + 1 : Append(p, f[k + 1])[i] = f[i]
        <4>1. \A i \in 1 .. k + 1 : i \in 1 .. k \/ i = k + 1
          OBVIOUS
        <4> QED BY <3>2, <4>1
      <3> QED BY <3>4, <3>5
    <2> QED BY <2>1, <2>4, <2>7
  <1>5. S = Nat
    <2>1. S \in SUBSET Nat
      OBVIOUS
    <2> HIDE DEF S
    <2> QED BY <1>3, <1>4, <2>1, NatSetInduction
  <1> QED BY <1>2, <1>5 DEF WithoutHeads, g

(* The closed files, one by one. *)
LEMMA ClosedWithoutHeads ==
    ASSUME NEW files \in Seq(Seq(Pieces)), NEW f \in Seq(Pieces)
    PROVE  [i \in 1 .. Len(Append(files, f)) |-> WithoutHeads(Append(files, f)[i])]
             = Append([i \in 1 .. Len(files) |-> WithoutHeads(files[i])], WithoutHeads(f))
  <1> DEFINE m == Len(files)
             g == Append(files, f)
             a == [i \in 1 .. m |-> WithoutHeads(files[i])]
             w == WithoutHeads(f)
             b == Append(a, w)
  <1>1. /\ m \in Nat /\ Len(g) = m + 1 /\ g[m + 1] = f /\ \A n \in 1 .. m : g[n] = files[n]
    BY AppendTyped
  <1>2. \A n \in 1 .. m : files[n] \in Seq(Pieces)
    BY <1>1, ElementOfSeq
  <1>3. \A h \in Seq(Pieces) : WithoutHeads(h) \in Seq(Pieces)
    <2> SUFFICES ASSUME NEW h \in Seq(Pieces) PROVE WithoutHeads(h) \in Seq(Pieces)
      OBVIOUS
    <2>1. Iterates(WithoutHeadsUpTo(h), Len(h), Seq(Pieces), <<>>, WithoutStep(h))
      BY WithoutHeadsUpToIs
    <2>2. Len(h) \in 0 .. Len(h)
      BY LenProperties
    <2> QED BY <2>1, <2>2 DEF Iterates, WithoutHeads
  <1>4. a \in Seq(Seq(Pieces)) /\ Len(a) = m /\ w \in Seq(Pieces)
    BY <1>1, <1>2, <1>3
  <1> HIDE DEF g
  <1>5. /\ b \in Seq(Seq(Pieces)) /\ Len(b) = m + 1 /\ b[m + 1] = w /\ \A n \in 1 .. m : b[n] = a[n]
    <2> HIDE DEF a, w, m
    <2> QED BY <1>4, AppendTyped
  <1>6. b = [i \in 1 .. m + 1 |-> b[i]]
    <2> HIDE DEF b
    <2> QED BY <1>1, <1>5, LenProperties
  <1>7. \A i \in 1 .. m + 1 : b[i] = WithoutHeads(g[i])
    <2>1. \A i \in 1 .. m + 1 : i \in 1 .. m \/ i = m + 1
      BY <1>1
    <2>2. \A n \in 1 .. m : a[n] = WithoutHeads(files[n])
      OBVIOUS
    <2> HIDE DEF a, b, m
    <2> QED BY <1>1, <1>5, <2>1, <2>2
  <1> HIDE DEF b, a
  <1> QED BY <1>1, <1>6, <1>7 DEF b, a, g

-----------------------------------------------------------------------------
(***************************************************************************)
(* Calls of Write are numbered as they get the mutex. There are as many    *)
(* numbers in ZzDataLog as there are calls in the threads' programs.       *)
(***************************************************************************)
Writes == UNION {{t} \X (1 .. Calls[t]) : t \in {u \in Threads : "Write" \in Program[u]}}

EnoughCalls == "Write" \in Api /\ IsFiniteSet(Writes) /\ Cardinality(Writes) <= MaxCalls

(* The calls that have got the mutex, and others that never want it. *)
Admitted ==
    {call \in Writes : call[2] <= made[call[1]] /\ (pc[call[1]] = "lock" => call[2] # made[call[1]])}

AdmittedInv ==
    /\ serial <= Cardinality(Admitted)
    /\ \A t \in Threads : pc[t] = "lock" => <<t, made[t]>> \in Writes

-----------------------------------------------------------------------------
(***************************************************************************)
(* What the thread that holds the mutex has done of ZzDataLog's Write, at  *)
(* each of its steps, to the logger it found.                              *)
(***************************************************************************)
SameFile == /\ file = before.file /\ headerComplete = before.headerComplete
            /\ formats = before.formats /\ subscriptions = before.subscriptions /\ idMap = before.idMap

SameLogs == log = before.log /\ closedLogs = before.closedLogs /\ initParams = before.initParams

AsFound == /\ SameFile /\ SameLogs
             /\ writer = before.writer /\ currentFileSize = before.currentFileSize

Numbered(t) ==
    /\ Begins(before, [serial |-> serial])
    /\ own[t].number = before.serial
    /\ before.log \in Seq(Pieces) /\ before.closedLogs \in Seq(Seq(Pieces))
    /\ DOMAIN before.initParams = ParamNames /\ before.initParams.structs = AllStructs

Known(t)   == TypeOf[t] \in DOMAIN before.idMap /\ own[t].id = before.idMap[TypeOf[t]]
Measured(t) == own[t].length = before.subscriptions[before.idMap[TypeOf[t]] + 1]
Entered(t) == Known(t) /\ TakesData(before, TypeOf[t]) /\ Measured(t)
Raised(t)  == currentFileSize = before.currentFileSize + SizeOf[TypeOf[t]]
Rotating(t) == Entered(t) /\ Fills(before, TypeOf[t]) /\ before.file = "open"
OldClosed  == closedLogs = Append(before.closedLogs, before.log)
NamedAnew   == ~ HasNoNewName(before.initParams.fileName) /\ initParams = NewName(before)

HasRotated(t) ==
    /\ Rotating(t) /\ OldClosed /\ NamedAnew /\ file = "open" /\ currentFileSize = 0
    /\ InitOf(before).result = Ok
    /\ Became([writer |-> writer, headerComplete |-> headerComplete, formats |-> formats,
               subscriptions |-> subscriptions, idMap |-> idMap], InitOf(before))

HasRoom(t) ==
    /\ Entered(t) /\ ~ Fills(before, TypeOf[t])
    /\ SameFile /\ writer = before.writer /\ writer # "null"
    /\ Raised(t) /\ closedLogs = before.closedLogs /\ initParams = before.initParams

Prepared(t) == HasRoom(t) \/ HasRotated(t)
Base(t)     == IF Fills(before, TypeOf[t]) THEN InitOf(before).log ELSE before.log
WithHead(t) == Append(Base(t), Piece(t, "head"))
WithData(t) == Append(WithHead(t), Piece(t, "data"))

SoFar(t) ==
    /\ Numbered(t)
    /\ pc[t] = "lookup" => AsFound
    /\ pc[t] \in {"switch", "off", "check"} => AsFound /\ Known(t)
    /\ pc[t] = "off" => ~ seen
    /\ pc[t] = "check" => seen
    /\ pc[t] = "grow" => AsFound /\ Entered(t) /\ own[t].size = before.currentFileSize + SizeOf[TypeOf[t]]
    /\ pc[t] = "reset" => SameFile /\ SameLogs /\ Rotating(t) /\ Raised(t)
    /\ pc[t] = "close" => SameLogs /\ Rotating(t) /\ Raised(t)
    /\ pc[t] \in {"clear", "name"} => Rotating(t) /\ Raised(t) /\ OldClosed /\ initParams = before.initParams
    /\ pc[t] \in {"clear", "name"} => file = "closed"
    /\ pc[t] \in {"open", "begin"} => Rotating(t) /\ Raised(t) /\ OldClosed /\ NamedAnew
    /\ pc[t] = "replay" => Rotating(t) /\ currentFileSize = 0 /\ OldClosed /\ NamedAnew
    /\ pc[t] \in {"head", "body", "count", "test", "flush", "sync"} => Prepared(t)
    /\ pc[t] \in {"body", "count", "test", "flush", "sync"} => ~ Long(before, TypeOf[t])
    /\ pc[t] = "head" => log = Base(t)
    /\ pc[t] = "body" => log = WithHead(t)
    /\ pc[t] \in {"count", "test", "flush", "sync"} => log = WithData(t)
    /\ logged = IF pc[t] \in {"count", "test", "flush", "sync"} THEN Append(before.logged, before.serial)
                ELSE before.logged

SoFarInv == result # Undefined /\ \A t \in Threads : lock = t => SoFar(t)

-----------------------------------------------------------------------------
(* A call gets the mutex once, and numbers are enough. *)
LEMMA AdmittedFinite ==
    ASSUME EnoughCalls
    PROVE  /\ IsFiniteSet(Admitted) /\ Cardinality(Admitted) \in Nat
           /\ Cardinality(Admitted) <= MaxCalls
  <1>1. Admitted \in SUBSET Writes /\ IsFiniteSet(Writes)
    BY DEF Admitted, EnoughCalls
  <1>2. IsFiniteSet(Admitted) /\ Cardinality(Admitted) <= Cardinality(Writes)
    BY <1>1, FS_Subset
  <1>3. Cardinality(Admitted) \in Nat /\ Cardinality(Writes) \in Nat
    BY <1>1, <1>2, FS_CardinalityType
  <1> QED BY <1>2, <1>3, CallsAssumption DEF EnoughCalls

LEMMA WritesAre ==
    ASSUME NEW t \in Threads, NEW n
    PROVE  <<t, n>> \in Writes <=> "Write" \in Program[t] /\ n \in 1 .. Calls[t]
  BY DEF Writes

(* Calls that were admitted stay so. *)
LEMMA AdmittedStays ==
    ASSUME EnoughCalls, StepsInv, AdmittedInv, UNCHANGED serial,
           \A u \in Threads : /\ made'[u] \in {made[u], made[u] + 1}
                              /\ pc'[u] = "lock" => \/ made'[u] = made[u] /\ pc[u] = "lock"
                                                    \/ made'[u] = made[u] + 1 /\ <<u, made'[u]>> \in Writes
    PROVE  AdmittedInv'
  <1>1. IsFiniteSet(Admitted) /\ IsFiniteSet(Admitted') /\ Cardinality(Admitted) \in Nat
        /\ Cardinality(Admitted') \in Nat
    <2>1. Admitted \in SUBSET Writes /\ Admitted' \in SUBSET Writes /\ IsFiniteSet(Writes)
      BY DEF Admitted, EnoughCalls
    <2>2. IsFiniteSet(Admitted) /\ IsFiniteSet(Admitted')
      BY <2>1, FS_Subset
    <2> QED BY <2>2, FS_CardinalityType
  <1>2. Admitted \subseteq Admitted'
    <2> SUFFICES ASSUME NEW call \in Admitted PROVE call \in Admitted'
      OBVIOUS
    <2>1. call \in Writes /\ call[1] \in Threads /\ call[2] \in Nat
      BY ThreadsAssumption DEF Admitted, Writes
    <2>2. made[call[1]] \in Nat
      BY <2>1, TypesAre
    <2>3. call[2] <= made[call[1]] /\ (pc[call[1]] = "lock" => call[2] # made[call[1]])
      BY DEF Admitted
    <2> DEFINE u == call[1]
               n == call[2]
    <2> HIDE DEF u, n
    <2>4. n <= made'[u] /\ (pc'[u] = "lock" => n # made'[u])
      <3>1. /\ made'[u] \in {made[u], made[u] + 1}
            /\ pc'[u] = "lock" => \/ made'[u] = made[u] /\ pc[u] = "lock"
                                  \/ made'[u] = made[u] + 1
        BY <2>1 DEF u
      <3>2. n \in Nat /\ made[u] \in Nat /\ n <= made[u] /\ (pc[u] = "lock" => n # made[u])
        BY <2>1, <2>2, <2>3 DEF u, n
      <3> QED BY <3>1, <3>2
    <2>5. call \in Writes /\ call[2] <= made'[call[1]] /\ (pc'[call[1]] = "lock" => call[2] # made'[call[1]])
      BY <2>1, <2>4 DEF u, n
    <2> QED BY <2>5 DEF Admitted
  <1>3. Cardinality(Admitted) <= Cardinality(Admitted')
    BY <1>1, <1>2, FS_Subset
  <1>4. serial' <= Cardinality(Admitted')
    BY <1>1, <1>3 DEF AdmittedInv, StepsInv, LoggerTyped
  <1>5. \A u \in Threads : pc'[u] = "lock" => <<u, made'[u]>> \in Writes
    BY DEF AdmittedInv
  <1> QED BY <1>4, <1>5 DEF AdmittedInv

(* A call that gets the mutex is one more. *)
LEMMA LockAdmits ==
    ASSUME EnoughCalls, Guarded, StepsInv, AdmittedInv, NEW t \in Threads, Lock(t)
    PROVE  AdmittedInv' /\ serial < MaxCalls
  <1> DEFINE call == <<t, made[t]>>
  <1>1. pc[t] = "lock" /\ serial' = serial + 1 /\ made' = made /\ pc' = [pc EXCEPT ![t] = "lookup"]
    BY DEF Lock, At, Goto
  <1>2. pc \in [Threads -> Labels] /\ made[t] \in Nat /\ serial \in Nat
    BY TypesAre DEF Guarded, ThreadTypes, StepsInv, LoggerTyped
  <1>3. call \in Writes /\ call \notin Admitted
    BY <1>1 DEF AdmittedInv, Admitted
  <1>4. Admitted' = Admitted \union {call}
    <2>1. ASSUME NEW c \in Writes PROVE c \in Admitted' <=> c \in Admitted \/ c = call
      <3>1. c[1] \in Threads /\ c = <<c[1], c[2]>> /\ c[2] \in Nat
        BY ThreadsAssumption DEF Writes
      <3>2. CASE c[1] = t
        BY <1>1, <1>2, <3>1, <3>2 DEF Admitted
      <3>3. CASE c[1] # t
        BY <1>1, <1>2, <3>1, <3>3 DEF Admitted
      <3> QED BY <3>2, <3>3
    <2> QED BY <1>3, <2>1 DEF Admitted
  <1>5. IsFiniteSet(Admitted) /\ Cardinality(Admitted) \in Nat
    BY AdmittedFinite
  <1>6. Cardinality(Admitted') = Cardinality(Admitted) + 1
    BY <1>3, <1>4, <1>5, FS_AddElement
  <1>7. IsFiniteSet(Admitted') /\ Cardinality(Admitted') <= MaxCalls
    <2>1. Admitted' \in SUBSET Writes /\ IsFiniteSet(Writes)
      BY DEF Admitted, EnoughCalls
    <2>2. IsFiniteSet(Admitted') /\ Cardinality(Admitted') <= Cardinality(Writes)
      BY <2>1, FS_Subset
    <2>3. Cardinality(Writes) \in Nat
      BY <2>1, FS_CardinalityType
    <2> QED BY <1>5, <1>6, <2>2, <2>3, CallsAssumption DEF EnoughCalls
  <1>8. \A u \in Threads : pc'[u] = "lock" => <<u, made'[u]>> \in Writes
    BY <1>1, <1>2 DEF AdmittedInv
  <1>9. serial <= Cardinality(Admitted)
    BY DEF AdmittedInv
  <1>10. serial' <= Cardinality(Admitted') /\ serial < MaxCalls
    BY <1>1, <1>2, <1>5, <1>6, <1>7, <1>9, CallsAssumption
  <1> QED BY <1>8, <1>10 DEF AdmittedInv

LEMMA NextAdmitted ==
    ASSUME EnoughCalls, Guarded, StepsInv, AdmittedInv, [ThreadsNext]_threadVars PROVE AdmittedInv'
  <1>0. \A u \in Threads : made[u] \in Nat
    BY TypesAre
  <1>1. ASSUME NEW t \in Threads, Invoke(t) PROVE AdmittedInv'
    <2>0. pc \in [Threads -> Labels] /\ made \in [Threads -> Nat] /\ Calls[t] \in Nat
      BY ThreadsAssumption DEF Guarded, ThreadTypes, StepsInv, CallsTyped
    <2>1. CASE CallWrite(t)
      <3>1. /\ made' = [made EXCEPT ![t] = @ + 1] /\ pc' = [pc EXCEPT ![t] = "lock"]
            /\ "Write" \in Program[t] /\ made[t] < Calls[t] /\ serial' = serial
        BY <2>1 DEF CallWrite, Begin, Goto, vars
      <3>2. <<t, made'[t]>> \in Writes
        BY <2>0, <3>1, WritesAre
      <3> QED BY <2>0, <3>1, <3>2, AdmittedStays
    <2>2. CASE CallFsync(t)
      <3>1. /\ made' = [made EXCEPT ![t] = @ + 1] /\ pc' = [pc EXCEPT ![t] = "test"] /\ serial' = serial
        BY <2>2 DEF CallFsync, Begin, Goto, vars
      <3> QED BY <2>0, <3>1, AdmittedStays
    <2>3. ASSUME NEW value \in BOOLEAN, Toggle(t, value) PROVE AdmittedInv'
      <3>1. made' = [made EXCEPT ![t] = @ + 1] /\ pc' = pc /\ serial' = serial /\ pc[t] # "lock"
        BY <2>3 DEF Toggle, At
      <3> QED BY <2>0, <3>1, AdmittedStays
    <2> QED BY <1>1, <2>1, <2>2, <2>3 DEF Invoke
  <1>2. ASSUME NEW t \in Threads, Continue(t) PROVE AdmittedInv'
    <2>1. CASE Lock(t)
      BY <2>1, LockAdmits
    <2>2. CASE ~ Lock(t)
      <3>1. UNCHANGED <<serial, made>> /\ (pc' = pc \/ \E label \in Labels \ {"lock"} : Goto(t, label))
        BY <1>2, <2>2 DEF Continue, InWriteDataImpl, Lookup, ReadSwitch, LeaveOff, Check, Grow, Reset, Close, Clear,
             Name, Open, Start, Replay, SerializeHead, SerializeBody, Counted, Test, Flush, Sync, Return, Labels, vars
      <3>2. \A u \in Threads : pc'[u] = "lock" => pc[u] = "lock"
        BY <3>1 DEF Goto, Guarded, ThreadTypes
      <3> QED BY <1>0, <3>1, <3>2, AdmittedStays
    <2> QED BY <2>1, <2>2
  <1>3. CASE UNCHANGED threadVars
    BY <1>0, <1>3, AdmittedStays DEF threadVars, vars
  <1> QED BY <1>1, <1>2, <1>3 DEF ThreadsNext

-----------------------------------------------------------------------------
(* Steps beside the Write that holds the mutex. *)
LEMMA OthersSoFar ==
    ASSUME Guarded, SoFarInv, UNCHANGED <<loggerVars, serial, logged, result, before, seen, lock>>,
           \A u \in Threads : lock = u => pc'[u] = pc[u] /\ own'[u] = own[u]
    PROVE  SoFarInv'
  <1>1. ASSUME NEW u \in Threads, lock' = u PROVE SoFar(u)'
    <2>1. SoFar(u) /\ lock = u /\ pc'[u] = pc[u] /\ own'[u] = own[u]
      BY <1>1 DEF SoFarInv
    <2>2. UNCHANGED <<writer, file, headerComplete, formats, subscriptions, idMap,
                      currentFileSize, initParams, log, closedLogs, serial, logged, before, seen>>
      BY DEF loggerVars
    <2>3. (SameFile' <=> SameFile) /\ (SameLogs' <=> SameLogs) /\ (AsFound' <=> AsFound)
      BY <2>2 DEF SameFile, SameLogs, AsFound
    <2>4. (Numbered(u)' <=> Numbered(u)) /\ (Known(u)' <=> Known(u)) /\ (Entered(u)' <=> Entered(u))
      BY <2>1, <2>2 DEF Numbered, Begins, Known, Entered, TakesData, Measured
    <2>5. /\ Rotating(u)' <=> Rotating(u)
          /\ Raised(u)' <=> Raised(u)
          /\ OldClosed' <=> OldClosed
          /\ NamedAnew' <=> NamedAnew
      BY <2>2, <2>4 DEF Rotating, Fills, Raised, OldClosed, NamedAnew, NewName
    <2>6. (Prepared(u)' <=> Prepared(u)) /\ (Long(before, TypeOf[u])' <=> Long(before, TypeOf[u]))
      BY <2>2, <2>3, <2>4, <2>5 DEF Prepared, HasRoom, HasRotated, Fills, Became, InitOf, Long
    <2>7. Base(u)' = Base(u) /\ WithHead(u)' = WithHead(u) /\ WithData(u)' = WithData(u)
      BY <2>1, <2>2 DEF Base, Fills, InitOf, WithHead, WithData, Piece
    <2> QED BY <2>1, <2>2, <2>3, <2>4, <2>5, <2>6, <2>7 DEF SoFar
  <1>2. result' # Undefined
    BY DEF SoFarInv
  <1> QED BY <1>1, <1>2 DEF SoFarInv

LEMMA HolderSoFar ==
    ASSUME SoFarInv, NEW t \in Threads, lock = t, lock' = lock, UNCHANGED result, SoFar(t)'
    PROVE  SoFarInv'
  BY DEF SoFarInv

LEMMA ReturnSoFar ==
    ASSUME SoFarInv, lock' = Free, result' # Undefined
    PROVE  SoFarInv'
  BY ThreadsAssumption DEF SoFarInv

LEMMA NumberedStays ==
    ASSUME NEW t \in Threads, Numbered(t), UNCHANGED <<before, serial>>, own'[t].number = own[t].number
    PROVE  Numbered(t)'
  BY DEF Numbered, Begins

(* Write, up to the data: what it finds is what was seen before. *)
LEMMA LockSoFar ==
    ASSUME EnoughCalls, Guarded, StepsInv, AdmittedInv, SoFarInv, NEW t \in Threads, Lock(t)
    PROVE  SoFarInv'
  <1>1. serial < MaxCalls /\ serial \in Nat /\ result # Undefined
    BY LockAdmits DEF SoFarInv, StepsInv, LoggerTyped
  <1>2. /\ lock' = t /\ before' = Logger /\ own' = [own EXCEPT ![t] = [Local EXCEPT !.number = serial]]
        /\ serial' = serial + 1 /\ pc' = [pc EXCEPT ![t] = "lookup"]
        /\ UNCHANGED <<writer, file, headerComplete, formats, subscriptions, idMap,
                       currentFileSize, initParams, log, closedLogs, logged, result>>
    BY DEF Lock, loggerVars, Goto
  <1>3. own'[t].number = serial /\ pc'[t] = "lookup"
    <2>1. own \in [Threads -> Locals] /\ pc \in [Threads -> Labels]
      BY DEF StepsInv, CallsTyped, Guarded, ThreadTypes
    <2> QED BY <1>2, <2>1 DEF Local
  <1>4. /\ before'.writer = writer' /\ before'.file = file' /\ before'.headerComplete = headerComplete'
        /\ before'.formats = formats' /\ before'.subscriptions = subscriptions' /\ before'.idMap = idMap'
        /\ before'.currentFileSize = currentFileSize' /\ before'.initParams = initParams'
        /\ before'.log = log' /\ before'.closedLogs = closedLogs' /\ before'.serial = serial
        /\ before'.logged = logged' /\ before'.result = result
    BY <1>2 DEF Logger
  <1>5. Numbered(t)'
    <2>1. log' \in Seq(Pieces) /\ closedLogs' \in Seq(Seq(Pieces))
          /\ DOMAIN initParams' = ParamNames /\ initParams'.structs = AllStructs
      BY <1>2 DEF StepsInv, LoggerTyped
    <2>2. "Write" \in Api
      BY DEF EnoughCalls
    <2> QED BY <1>1, <1>2, <1>3, <1>4, <2>1, <2>2 DEF Numbered, Begins
  <1>6. AsFound'
    BY <1>4 DEF AsFound, SameFile, SameLogs
  <1>7. SoFar(t)'
    BY <1>3, <1>4, <1>5, <1>6 DEF SoFar
  <1>8. \A u \in Threads : lock' = u => u = t
    BY <1>2
  <1> QED BY <1>1, <1>2, <1>7, <1>8 DEF SoFarInv

LEMMA LookupSoFar ==
    ASSUME Guarded, StepsInv, SoFarInv, NEW t \in Threads, Lookup(t)
    PROVE  SoFarInv'
  <1>1. lock = t /\ pc[t] = "lookup" /\ SoFar(t)
    BY InsideWrite DEF Lookup, Labels, Outside, SoFarInv
  <1>2. CASE TypeOf[t] \notin DOMAIN idMap
    BY <1>1, <1>2, ReturnSoFar, ResultsDiffer DEF Lookup, Return
  <1>3. CASE TypeOf[t] \in DOMAIN idMap
    <2>1. /\ own' = [own EXCEPT ![t] = [own[t] EXCEPT !.id = idMap[TypeOf[t]]]]
          /\ pc' = [pc EXCEPT ![t] = "switch"] /\ UNCHANGED <<lock, result>>
          /\ UNCHANGED <<writer, file, headerComplete, formats, subscriptions, idMap,
                         currentFileSize, initParams, log, closedLogs, logged, serial, before>>
      BY <1>3 DEF Lookup, Goto, loggerVars
    <2>2. own[t] \in Locals /\ own \in [Threads -> Locals] /\ pc \in [Threads -> Labels]
      BY TypesAre DEF StepsInv, CallsTyped, Guarded, ThreadTypes
    <2>3. own'[t].id = idMap[TypeOf[t]] /\ own'[t].number = own[t].number /\ pc'[t] = "switch"
      BY <2>1, <2>2 DEF Locals
    <2>4. Numbered(t)' /\ AsFound
      BY <1>1, <2>1, <2>3, NumberedStays DEF SoFar
    <2>5. AsFound' /\ Known(t)'
      BY <1>3, <2>1, <2>3, <2>4 DEF AsFound, SameFile, SameLogs, Known
    <2>6. SoFar(t)'
      BY <1>1, <2>1, <2>3, <2>4, <2>5 DEF SoFar
    <2> QED BY <1>1, <2>1, <2>6, HolderSoFar
  <1> QED BY <1>2, <1>3

LEMMA SwitchSoFar ==
    ASSUME Guarded, StepsInv, SoFarInv, NEW t \in Threads, ReadSwitch(t)
    PROVE  SoFarInv'
  <1>1. lock = t /\ pc[t] = "switch" /\ SoFar(t)
    BY InsideWrite DEF ReadSwitch, Labels, Outside, SoFarInv
  <1>2. /\ seen' = on /\ pc' = [pc EXCEPT ![t] = IF on THEN "check" ELSE "off"]
        /\ UNCHANGED <<writer, file, headerComplete, formats, subscriptions, idMap, result, lock,
                       currentFileSize, initParams, log, closedLogs, logged, serial, before, own>>
    BY DEF ReadSwitch, Goto, vars
  <1>3. pc'[t] = IF on THEN "check" ELSE "off"
    BY <1>2 DEF Guarded, ThreadTypes
  <1>4. Numbered(t)' /\ AsFound /\ Known(t)
    BY <1>1, <1>2, NumberedStays DEF SoFar
  <1>5. AsFound' /\ Known(t)'
    BY <1>2, <1>4 DEF AsFound, SameFile, SameLogs, Known
  <1>6. SoFar(t)'
    BY <1>1, <1>2, <1>3, <1>4, <1>5 DEF SoFar
  <1> QED BY <1>1, <1>2, <1>6, HolderSoFar

LEMMA CheckSoFar ==
    ASSUME Guarded, StepsInv, SoFarInv, NEW t \in Threads, Check(t)
    PROVE  SoFarInv'
  <1>1. lock = t /\ pc[t] = "check" /\ SoFar(t)
    BY InsideWrite DEF Check, Labels, Outside, SoFarInv
  <1> DEFINE refused == \/ ~ headerComplete
                        \/ own[t].id >= Len(subscriptions)
                        \/ SizeOf[TypeOf[t]] < subscriptions[own[t].id + 1]
  <1>2. CASE refused
    BY <1>1, <1>2, ReturnSoFar, ResultsDiffer DEF Check, Return
  <1>3. CASE ~ refused
    <2>1. /\ own' = Checked(t)
          /\ pc' = [pc EXCEPT ![t] = "grow"] /\ UNCHANGED <<lock, result>>
          /\ UNCHANGED <<writer, file, headerComplete, formats, subscriptions, idMap,
                         currentFileSize, initParams, log, closedLogs, logged, serial, before, seen>>
      BY <1>3, CheckedIs DEF Check, Goto, loggerVars
    <2>2. own[t] \in Locals /\ own \in [Threads -> Locals] /\ pc \in [Threads -> Labels]
      BY TypesAre DEF StepsInv, CallsTyped, Guarded, ThreadTypes
    <2>3. /\ own'[t].id = own[t].id /\ own'[t].number = own[t].number /\ pc'[t] = "grow"
          /\ own'[t].size = currentFileSize + SizeOf[TypeOf[t]]
          /\ own'[t].length = subscriptions[own[t].id + 1]
      BY <2>1, <2>2 DEF Checked, Locals
    <2>4. Numbered(t)' /\ AsFound /\ Known(t) /\ seen
      BY <1>1, <2>1, <2>3, NumberedStays DEF SoFar
    <2>5. AsFound' /\ Known(t)' /\ own'[t].size = before'.currentFileSize + SizeOf[TypeOf[t]]
      BY <2>1, <2>3, <2>4 DEF AsFound, SameFile, SameLogs, Known
    <2>6. Entered(t)'
      BY <1>3, <2>1, <2>3, <2>4, <2>5 DEF Entered, TakesData, Known, AsFound, SameFile, Measured
    <2>7. SoFar(t)'
      BY <1>1, <2>1, <2>3, <2>4, <2>5, <2>6 DEF SoFar
    <2> QED BY <1>1, <2>1, <2>7, HolderSoFar
  <1> QED BY <1>2, <1>3

(* What a Write has made sure of before it writes stays so. *)
LEMMA EnteredStays ==
    ASSUME NEW t \in Threads, UNCHANGED <<before, seen>>, own'[t] = own[t]
    PROVE  /\ Entered(t) => Entered(t)'
           /\ Rotating(t) => Rotating(t)'
           /\ Fills(before, TypeOf[t])' <=> Fills(before, TypeOf[t])
  BY DEF Entered, Rotating, Known, TakesData, Fills, Measured

LEMMA GrowSoFar ==
    ASSUME Guarded, StepsInv, SoFarInv, NEW t \in Threads, Grow(t)
    PROVE  SoFarInv'
  <1>1. lock = t /\ pc[t] = "grow" /\ SoFar(t) /\ Ready
    BY InsideWrite DEF Grow, Labels, Outside, SoFarInv, Expected
  <1>2. /\ currentFileSize' = own[t].size
        /\ pc' = [pc EXCEPT ![t] = IF own[t].size >= MaxFileSize THEN "reset" ELSE "head"]
        /\ UNCHANGED <<writer, file, headerComplete, formats, subscriptions, idMap, result, lock, seen,
                       initParams, log, closedLogs, logged, serial, before, own>>
    BY DEF Grow, Goto
  <1>3. pc'[t] = IF own[t].size >= MaxFileSize THEN "reset" ELSE "head"
    BY <1>2 DEF Guarded, ThreadTypes
  <1>4. Numbered(t)' /\ AsFound /\ Entered(t) /\ own[t].size = before.currentFileSize + SizeOf[TypeOf[t]]
    BY <1>1, <1>2, NumberedStays DEF SoFar
  <1>5. SameFile' /\ SameLogs' /\ Raised(t)' /\ writer' = before'.writer /\ Entered(t)'
    BY <1>2, <1>4, EnteredStays DEF AsFound, SameFile, SameLogs, Raised
  <1>6. Fills(before, TypeOf[t]) <=> own[t].size >= MaxFileSize
    BY <1>4 DEF Fills
  <1>7. before.file = "open" /\ before.writer = "data"
    BY <1>1, <1>4 DEF Ready, AsFound, SameFile
  <1>8. CASE own[t].size >= MaxFileSize
    <2>1. Rotating(t)' /\ pc'[t] = "reset"
      BY <1>2, <1>3, <1>5, <1>6, <1>7, <1>8, EnteredStays DEF Rotating
    <2>2. SoFar(t)'
      BY <1>1, <1>2, <1>4, <1>5, <2>1 DEF SoFar
    <2> QED BY <1>1, <1>2, <2>2, HolderSoFar
  <1>9. CASE ~ (own[t].size >= MaxFileSize)
    <2>1. ~ Fills(before, TypeOf[t])' /\ pc'[t] = "head"
      BY <1>2, <1>3, <1>6, <1>9, EnteredStays
    <2>2. HasRoom(t)' /\ log' = Base(t)'
      BY <1>2, <1>5, <1>7, <2>1 DEF HasRoom, Base, SameLogs
    <2>3. SoFar(t)'
      BY <1>1, <1>2, <1>4, <2>1, <2>2 DEF SoFar, Prepared
    <2> QED BY <1>1, <1>2, <2>3, HolderSoFar
  <1> QED BY <1>8, <1>9

-----------------------------------------------------------------------------
(* The rotation. *)
LEMMA ResetSoFar ==
    ASSUME Guarded, StepsInv, SoFarInv, NEW t \in Threads, Reset(t)
    PROVE  SoFarInv'
  <1>1. lock = t /\ pc[t] = "reset" /\ SoFar(t) /\ \A u \in Threads \ {t} : pc[u] # "body"
    BY InsideWrite DEF Reset, Labels, Outside, SoFarInv, Guarded, Exclusion
  <1>2. /\ pc' = [pc EXCEPT ![t] = "close"]
        /\ UNCHANGED <<file, headerComplete, formats, subscriptions, idMap, result, lock, seen, currentFileSize,
                       initParams, log, closedLogs, logged, serial, before, own>>
    BY <1>1 DEF Reset, Goto
  <1>3. pc'[t] = "close"
    BY <1>2 DEF Guarded, ThreadTypes
  <1>4. Numbered(t)' /\ SameLogs /\ Rotating(t) /\ Raised(t)
    BY <1>1, <1>2, NumberedStays DEF SoFar
  <1>5. SameLogs' /\ Rotating(t)' /\ Raised(t)'
    BY <1>2, <1>4, EnteredStays DEF SameLogs, Raised
  <1>6. SoFar(t)'
    BY <1>1, <1>2, <1>3, <1>4, <1>5 DEF SoFar
  <1> QED BY <1>1, <1>2, <1>6, HolderSoFar

LEMMA CloseSoFar ==
    ASSUME Guarded, StepsInv, SoFarInv, NEW t \in Threads, Close(t)
    PROVE  SoFarInv'
  <1>1. lock = t /\ pc[t] = "close" /\ SoFar(t) /\ file = "open"
    BY InsideWrite DEF Close, Labels, Outside, SoFarInv, Expected
  <1>2. /\ pc' = [pc EXCEPT ![t] = "clear"] /\ closedLogs' = Append(closedLogs, log) /\ file' = "closed"
        /\ UNCHANGED <<writer, headerComplete, formats, subscriptions, idMap, result, lock, seen, currentFileSize,
                       initParams, logged, serial, before, own>>
    BY <1>1 DEF Close, Goto
  <1>3. pc'[t] = "clear"
    BY <1>2 DEF Guarded, ThreadTypes
  <1>4. Numbered(t)' /\ SameLogs /\ Rotating(t) /\ Raised(t)
    BY <1>1, <1>2, NumberedStays DEF SoFar
  <1>5. OldClosed' /\ Rotating(t)' /\ Raised(t)' /\ initParams' = before'.initParams
    BY <1>2, <1>4, EnteredStays DEF SameLogs, Raised, OldClosed
  <1>6. SoFar(t)'
    BY <1>1, <1>2, <1>3, <1>4, <1>5 DEF SoFar
  <1> QED BY <1>1, <1>2, <1>6, HolderSoFar

LEMMA ClearSoFar ==
    ASSUME Guarded, StepsInv, SoFarInv, NEW t \in Threads, Clear(t)
    PROVE  SoFarInv'
  <1>1. lock = t /\ pc[t] = "clear" /\ SoFar(t)
    BY InsideWrite DEF Clear, Labels, Outside, SoFarInv
  <1>2. /\ pc' = [pc EXCEPT ![t] = "name"]
        /\ UNCHANGED <<writer, file, result, lock, seen, currentFileSize, initParams, log, closedLogs,
                       logged, serial, before, own>>
    BY DEF Clear, Goto
  <1>3. pc'[t] = "name"
    BY <1>2 DEF Guarded, ThreadTypes
  <1>4. /\ Numbered(t)' /\ Rotating(t) /\ Raised(t) /\ OldClosed /\ initParams = before.initParams
        /\ file = "closed"
    BY <1>1, <1>2, NumberedStays DEF SoFar
  <1>5. OldClosed' /\ Rotating(t)' /\ Raised(t)' /\ initParams' = before'.initParams
    BY <1>2, <1>4, EnteredStays DEF Raised, OldClosed
  <1>6. SoFar(t)'
    BY <1>1, <1>2, <1>3, <1>4, <1>5 DEF SoFar
  <1> QED BY <1>1, <1>2, <1>6, HolderSoFar

LEMMA NameSoFar ==
    ASSUME Guarded, StepsInv, SoFarInv, NEW t \in Threads, Name(t)
    PROVE  SoFarInv'
  <1>1. lock = t /\ pc[t] = "name" /\ SoFar(t)
    BY InsideWrite DEF Name, Labels, Outside, SoFarInv
  <1>2. CASE HasNoNewName(initParams.fileName)
    <2>1. lock' = Free /\ (result' = Usage \/ result' = InvalidArgument)
      BY <1>1, <1>2 DEF Name, Return
    <2> QED BY <2>1, ReturnSoFar, ResultsDiffer
  <1>3. CASE ~ HasNoNewName(initParams.fileName)
    <2>1. /\ pc' = [pc EXCEPT ![t] = "open"]
          /\ initParams' = [initParams EXCEPT !.fileName = NewFilename(initParams.fileName)]
          /\ UNCHANGED <<writer, file, result, lock, seen, currentFileSize, log, closedLogs,
                         logged, serial, before, own>>
      BY <1>3 DEF Name, Goto
    <2>2. pc'[t] = "open"
      BY <2>1 DEF Guarded, ThreadTypes
    <2>3. Numbered(t)' /\ Rotating(t) /\ Raised(t) /\ OldClosed /\ initParams = before.initParams
      BY <1>1, <2>1, NumberedStays DEF SoFar
    <2>4. OldClosed' /\ Rotating(t)' /\ Raised(t)'
      BY <2>1, <2>3, EnteredStays DEF Raised, OldClosed
    <2>5. NamedAnew'
      BY <1>3, <2>1, <2>3 DEF NamedAnew, NewName
    <2>6. SoFar(t)'
      BY <1>1, <2>1, <2>2, <2>3, <2>4, <2>5 DEF SoFar
    <2> QED BY <1>1, <2>1, <2>6, HolderSoFar
  <1> QED BY <1>2, <1>3

(* The name of the next file stays what a rotation has made it. *)
LEMMA NamedStays == ASSUME NamedAnew, UNCHANGED <<before, initParams>> PROVE NamedAnew'
  BY DEF NamedAnew, NewName

LEMMA OpenSoFar ==
    ASSUME Guarded, StepsInv, SoFarInv, NEW t \in Threads, Open(t)
    PROVE  SoFarInv'
  <1>1. lock = t /\ pc[t] = "open" /\ SoFar(t)
    BY InsideWrite DEF Open, Labels, Outside, SoFarInv
  <1>2. CASE file' = "null" /\ Return(t, Parsing)
    BY <1>1, <1>2, ReturnSoFar, ResultsDiffer DEF Return
  <1>3. CASE file' = "open" /\ Goto(t, "begin") /\ UNCHANGED <<lock, result>>
    <2>1. /\ pc' = [pc EXCEPT ![t] = "begin"]
          /\ UNCHANGED <<writer, result, lock, seen, currentFileSize, log, closedLogs, initParams,
                         logged, serial, before, own>>
      BY <1>3 DEF Open, Goto
    <2>2. pc'[t] = "begin"
      BY <2>1 DEF Guarded, ThreadTypes
    <2>3. Numbered(t)' /\ Rotating(t) /\ Raised(t) /\ OldClosed /\ NamedAnew
      BY <1>1, <2>1, NumberedStays DEF SoFar
    <2>4. OldClosed' /\ Rotating(t)' /\ Raised(t)' /\ NamedAnew'
      BY <2>1, <2>3, EnteredStays, NamedStays DEF Raised, OldClosed
    <2>5. SoFar(t)'
      BY <1>1, <2>1, <2>2, <2>3, <2>4 DEF SoFar
    <2> QED BY <1>1, <2>1, <2>5, HolderSoFar
  <1> QED BY <1>2, <1>3 DEF Open

LEMMA StartSoFar ==
    ASSUME Guarded, StepsInv, SoFarInv, NEW t \in Threads, Start(t)
    PROVE  SoFarInv'
  <1>1. lock = t /\ pc[t] = "begin" /\ SoFar(t) /\ file = "open"
    BY InsideWrite DEF Start, Labels, Outside, SoFarInv, Expected
  <1>2. /\ pc' = [pc EXCEPT ![t] = "replay"] /\ currentFileSize' = 0
        /\ UNCHANGED <<file, result, lock, seen, closedLogs, initParams, logged, serial, before, own>>
    BY <1>1 DEF Start, StartSize, Goto
  <1>3. pc'[t] = "replay"
    BY <1>2 DEF Guarded, ThreadTypes
  <1>4. Numbered(t)' /\ Rotating(t) /\ OldClosed /\ NamedAnew
    BY <1>1, <1>2, NumberedStays DEF SoFar
  <1>5. OldClosed' /\ Rotating(t)' /\ NamedAnew'
    BY <1>2, <1>4, EnteredStays, NamedStays DEF OldClosed
  <1>6. SoFar(t)'
    BY <1>1, <1>2, <1>3, <1>4, <1>5 DEF SoFar
  <1> QED BY <1>1, <1>2, <1>6, HolderSoFar

(* What Init makes of the new file, for the structs that main passed to it. *)
LEMMA InitOfIs ==
    ASSUME NEW t \in Threads, Numbered(t)
    PROVE  /\ DOMAIN InitOf(before) = FieldNames /\ Begun(InitOf(before))
           /\ InitOf(before).result \in {Ok, Usage, Parsing}
           /\ WithoutHeads(InitOf(before).log) = InitOf(before).log
  <1> DEFINE c == InitOf(before)
  <1>1. before.initParams.structs = AllStructs /\ AllStructs \in Seq(Structs)
    BY ThreadsAssumption DEF Numbered
  <1>2. DOMAIN c = FieldNames /\ Begun(c)
    BY <1>1, NewFileIs, InitializedDomain, NewLog DEF InitOf
  <1>3. c.result \in {Ok, Usage, Parsing}
    <2>1. NewFile.writer # "null" /\ Sound(NewFile)
      BY NewFileIs DEF Sound, Stores
    <2> QED BY <1>1, <2>1, NewFileIs, InitializedSound DEF InitOf
  <1> HIDE DEF c
  <1>4. WithoutHeads(c.log) = c.log
    BY <1>2, NoHeadsLeft DEF Begun
  <1> QED BY <1>2, <1>3, <1>4 DEF c

(* The Init of the new file is that of the file before, under a new name.   *)
LEMMA ReplayIs ==
    ASSUME Guarded, StepsInv, SoFarInv, NEW t \in Threads, Replay(t)
    PROVE  /\ lock = t /\ pc[t] = "replay" /\ SoFar(t) /\ file = "open"
           /\ UNCHANGED <<file, seen, currentFileSize, closedLogs, initParams, logged, serial, before, own>>
           /\ writer' = InitOf(before).writer /\ headerComplete' = InitOf(before).headerComplete
           /\ formats' = InitOf(before).formats /\ subscriptions' = InitOf(before).subscriptions
           /\ idMap' = InitOf(before).idMap /\ log' = InitOf(before).log
           /\ InitOf(before).result = Ok => UNCHANGED <<lock, result>> /\ Goto(t, "head")
           /\ InitOf(before).result # Ok => lock' = Free /\ result' = InitOf(before).result
  <1> DEFINE c == InitOf(before)
             r == IF c.result = Ok THEN result ELSE c.result
  <1>1. lock = t /\ pc[t] = "replay" /\ SoFar(t) /\ file = "open" /\ Fields = NewFile
    BY InsideWrite DEF Replay, Labels, Outside, SoFarInv, Expected, StepsInv, HolderBuilds
  <1>2. Numbered(t) /\ NamedAnew
    BY <1>1 DEF SoFar
  <1>3. /\ initParams.key = before.initParams.key /\ initParams.value = before.initParams.value
        /\ initParams.structs = before.initParams.structs
    BY <1>2 DEF NamedAnew, NewName, Numbered, ParamNames
  <1>4. Initialized(Fields, initParams.key, initParams.value, initParams.structs) = c
    BY <1>1, <1>3 DEF InitOf
  <1>5. c.result # Undefined /\ DOMAIN c = FieldNames
    BY <1>2, InitOfIs, ResultsDiffer
  <1> HIDE DEF c
  <1>6. /\ Become([c EXCEPT !.result = r])
        /\ UNCHANGED <<file, seen, currentFileSize, closedLogs, initParams, logged, serial, before, own>>
        /\ Goto(t, IF c.result = Ok THEN "head" ELSE "idle")
        /\ lock' = IF c.result = Ok THEN lock ELSE Free
    BY <1>1, <1>4, <1>5 DEF Replay
  <1> HIDE DEF r
  <1>7. /\ writer' = c.writer /\ headerComplete' = c.headerComplete /\ formats' = c.formats
        /\ subscriptions' = c.subscriptions /\ idMap' = c.idMap /\ log' = c.log /\ result' = r
    BY <1>5, <1>6 DEF Become, FieldNames
  <1> QED BY <1>1, <1>6, <1>7 DEF c, r

LEMMA ReplaySoFar ==
    ASSUME Guarded, StepsInv, SoFarInv, NEW t \in Threads, Replay(t)
    PROVE  SoFarInv'
  <1>1. /\ lock = t /\ pc[t] = "replay" /\ SoFar(t) /\ file = "open"
        /\ UNCHANGED <<file, seen, currentFileSize, closedLogs, initParams, logged, serial, before, own>>
    BY ReplayIs
  <1>2. Numbered(t)' /\ Rotating(t) /\ currentFileSize = 0 /\ OldClosed /\ NamedAnew /\ Numbered(t)
    BY <1>1, NumberedStays DEF SoFar
  <1>3. CASE InitOf(before).result = Ok
    <2>1. UNCHANGED <<lock, result>> /\ pc'[t] = "head"
      BY <1>3, ReplayIs DEF Goto, Guarded, ThreadTypes
    <2>2. InitOf(before)' = InitOf(before)
      BY <1>1 DEF InitOf
    <2>3. Became([writer |-> writer, headerComplete |-> headerComplete, formats |-> formats,
                  subscriptions |-> subscriptions, idMap |-> idMap], InitOf(before))'
      BY <2>2, ReplayIs DEF Became
    <2>4. Rotating(t)' /\ OldClosed' /\ NamedAnew'
      BY <1>1, <1>2, EnteredStays, NamedStays DEF OldClosed
    <2>5. HasRotated(t)'
      BY <1>1, <1>2, <1>3, <2>2, <2>3, <2>4 DEF HasRotated
    <2>6. log' = Base(t)'
      BY <2>2, <2>4, ReplayIs DEF Base, Rotating
    <2>7. SoFar(t)'
      BY <1>1, <1>2, <2>1, <2>5, <2>6 DEF SoFar, Prepared
    <2> QED BY <1>1, <2>1, <2>7, HolderSoFar
  <1>4. CASE InitOf(before).result # Ok
    <2>1. lock' = Free /\ result' # Undefined
      BY <1>2, <1>4, ReplayIs, InitOfIs, ResultsDiffer
    <2> QED BY <2>1, ReturnSoFar
  <1> QED BY <1>3, <1>4

-----------------------------------------------------------------------------
(* The data: the logger is as the Write leaves it, but for the log. *)
LEMMA PreparedStays ==
    ASSUME NEW t \in Threads, Prepared(t),
           UNCHANGED <<before, seen, writer, file, headerComplete, formats, subscriptions, idMap,
                       currentFileSize, initParams, closedLogs>>, own'[t] = own[t]
    PROVE  /\ Prepared(t)' /\ Base(t)' = Base(t) /\ WithHead(t)' = WithHead(t) /\ WithData(t)' = WithData(t)
           /\ Long(before, TypeOf[t])' <=> Long(before, TypeOf[t])
  BY DEF Prepared, HasRoom, HasRotated, Entered, Known, TakesData, Rotating, Fills, SameFile, Raised,
     OldClosed, NamedAnew, NewName, Became, InitOf, Base, WithHead, WithData, Piece, Measured, Long

(* What is too long for a message is known when the Write has entered. *)
LEMMA EnteredRefuses ==
    ASSUME NEW t \in Threads, Prepared(t) PROVE Entered(t) /\ (Refuses(t) <=> Long(before, TypeOf[t]))
  <1>1. Entered(t)
    BY DEF Prepared, HasRoom, HasRotated, Rotating
  <1> QED BY <1>1 DEF Entered, Measured, Refuses, Long

LEMMA HeadSoFar ==
    ASSUME Guarded, StepsInv, SoFarInv, NEW t \in Threads, SerializeHead(t)
    PROVE  SoFarInv'
  <1>1. lock = t /\ pc[t] = "head" /\ SoFar(t) /\ Ready
    BY InsideWrite DEF SerializeHead, Labels, Outside, SoFarInv, Expected
  <1>2. CASE Refuses(t)
    <2>1. lock' = Free /\ result' = Parsing
      BY <1>1, <1>2 DEF SerializeHead, Ready, Refuses, Return
    <2> QED BY <2>1, ReturnSoFar, ResultsDiffer
  <1>3. CASE ~ Refuses(t)
    <2>1. /\ pc' = [pc EXCEPT ![t] = "body"] /\ log' = Append(log, Piece(t, "head"))
          /\ UNCHANGED <<writer, file, headerComplete, formats, subscriptions, idMap, currentFileSize, initParams,
                         closedLogs, logged, result, lock, seen, serial, before, own>>
      BY <1>1, <1>3 DEF SerializeHead, Ready, Refuses, Goto
    <2>2. pc'[t] = "body"
      BY <2>1 DEF Guarded, ThreadTypes
    <2>3. Numbered(t)' /\ Prepared(t) /\ log = Base(t)
      BY <1>1, <2>1, NumberedStays DEF SoFar
    <2>4. Prepared(t)' /\ WithHead(t)' = WithHead(t) /\ log' = WithHead(t)
      BY <2>1, <2>3, PreparedStays DEF WithHead
    <2>5. ~ Long(before, TypeOf[t])'
      BY <1>3, <2>1, <2>3, EnteredRefuses, PreparedStays
    <2>6. SoFar(t)'
      BY <1>1, <2>1, <2>2, <2>3, <2>4, <2>5 DEF SoFar
    <2> QED BY <1>1, <2>1, <2>6, HolderSoFar
  <1> QED BY <1>2, <1>3

LEMMA BodySoFar ==
    ASSUME Guarded, StepsInv, SoFarInv, NEW t \in Threads, SerializeBody(t)
    PROVE  SoFarInv'
  <1>1. lock = t /\ pc[t] = "body" /\ SoFar(t) /\ Ready
    BY InsideWrite DEF SerializeBody, Labels, Outside, SoFarInv, Expected
  <1>2. /\ pc' = [pc EXCEPT ![t] = "count"] /\ log' = Append(log, Piece(t, "data"))
        /\ logged' = Append(logged, own[t].number)
        /\ UNCHANGED <<writer, file, headerComplete, formats, subscriptions, idMap, currentFileSize, initParams,
                       closedLogs, result, lock, seen, serial, before, own>>
    BY <1>1 DEF SerializeBody, Ready, Goto
  <1>3. pc'[t] = "count"
    BY <1>2 DEF Guarded, ThreadTypes
  <1>4. /\ Numbered(t)' /\ Numbered(t) /\ Prepared(t) /\ log = WithHead(t) /\ logged = before.logged
        /\ ~ Long(before, TypeOf[t])
    BY <1>1, <1>2, NumberedStays DEF SoFar
  <1>5. /\ Prepared(t)' /\ WithData(t)' = WithData(t) /\ log' = WithData(t)
        /\ ~ Long(before, TypeOf[t])'
    BY <1>2, <1>4, PreparedStays DEF WithData
  <1>6. logged' = Append(before'.logged, before'.serial)
    BY <1>2, <1>4 DEF Numbered
  <1>7. SoFar(t)'
    BY <1>3, <1>4, <1>5, <1>6 DEF SoFar
  <1> QED BY <1>1, <1>2, <1>7, HolderSoFar

(* Behind the data, the Write only counts and flushes. *)
LEMMA FinishingSoFar ==
    ASSUME Guarded, SoFarInv, NEW t \in Threads, lock = t, pc[t] \in {"count", "test", "flush", "sync"},
           UNCHANGED <<loggerVars, serial, logged, before, seen, own>>,
           \/ lock' = Free /\ result' = Ok
           \/ UNCHANGED <<lock, result>> /\ \E label \in {"count", "test", "flush", "sync"} : Goto(t, label)
    PROVE  SoFarInv'
  <1>1. CASE lock' = Free /\ result' = Ok
    BY <1>1, ReturnSoFar, ResultsDiffer
  <1>2. CASE UNCHANGED <<lock, result>> /\ \E label \in {"count", "test", "flush", "sync"} : Goto(t, label)
    <2>1. pc'[t] \in {"count", "test", "flush", "sync"}
      BY <1>2 DEF Goto, Guarded, ThreadTypes
    <2>2. UNCHANGED <<before, seen, writer, file, headerComplete, formats, subscriptions, idMap,
                      currentFileSize, initParams, closedLogs, serial, log, logged, own>>
      BY DEF loggerVars
    <2>3. /\ Numbered(t)' /\ Prepared(t) /\ log = WithData(t) /\ logged = Append(before.logged, before.serial)
          /\ ~ Long(before, TypeOf[t])
      BY <2>2, NumberedStays DEF SoFar, SoFarInv
    <2>4. Prepared(t)' /\ log' = WithData(t)' /\ ~ Long(before, TypeOf[t])'
      BY <2>2, <2>3, PreparedStays
    <2>5. SoFar(t)'
      BY <2>1, <2>2, <2>3, <2>4 DEF SoFar
    <2> QED BY <1>2, <2>5, HolderSoFar
  <1> QED BY <1>1, <1>2

LEMMA CountedSoFar ==
    ASSUME Guarded, StepsInv, SoFarInv, NEW t \in Threads, Counted(t)
    PROVE  SoFarInv'
  <1>1. lock = t /\ pc[t] = "count"
    BY InsideWrite DEF Counted, Labels, Outside
  <1>2. UNCHANGED <<loggerVars, serial, logged, before, seen, own>>
    BY DEF Counted
  <1>3. \/ lock' = Free /\ result' = Ok
        \/ UNCHANGED <<lock, result>> /\ Goto(t, "test")
    BY <1>1 DEF Counted, Return
  <1> QED BY <1>1, <1>2, <1>3, FinishingSoFar

LEMMA FsyncSoFar ==
    ASSUME Guarded, StepsInv, SoFarInv, NEW t \in Threads, Test(t) \/ Flush(t) \/ Sync(t)
    PROVE  SoFarInv'
  <1>1. UNCHANGED <<loggerVars, serial, logged, before, seen, own>>
    BY DEF Test, Flush, Sync
  <1>2. pc[t] \in {"test", "flush", "sync"}
    BY DEF Test, Flush, Sync, At
  <1>3. CASE lock = t
    <2>1. \/ lock' = Free /\ result' = Ok
          \/ UNCHANGED <<lock, result>> /\ \E label \in {"flush", "sync"} : Goto(t, label)
      <3>1. Ready
        BY <1>2, <1>3 DEF Guarded, HolderFinds, Expected
      <3> QED BY <1>3, <3>1 DEF Test, Flush, Sync, Return, Ready
    <2> QED BY <1>1, <1>2, <1>3, <2>1, FinishingSoFar
  <1>4. CASE lock # t
    <2>1. UNCHANGED <<lock, result>>
      BY <1>4 DEF Test, Flush, Sync, Return
    <2>2. \A u \in Threads : u # t => pc'[u] = pc[u]
      BY DEF Test, Flush, Sync, Return, Goto, Guarded, ThreadTypes
    <2> QED BY <1>1, <1>4, <2>1, <2>2, OthersSoFar
  <1> QED BY <1>3, <1>4

LEMMA LeaveOffSoFar ==
    ASSUME Guarded, StepsInv, SoFarInv, NEW t \in Threads, LeaveOff(t)
    PROVE  SoFarInv'
  <1>1. lock = t
    BY InsideWrite DEF LeaveOff, Labels, Outside
  <1>2. lock' = Free /\ result' = Ok
    BY <1>1 DEF LeaveOff, Return
  <1> QED BY <1>2, ReturnSoFar, ResultsDiffer

LEMMA InvokeSoFar ==
    ASSUME Guarded, StepsInv, SoFarInv, NEW t \in Threads, Invoke(t)
    PROVE  SoFarInv'
  <1>1. UNCHANGED <<loggerVars, serial, logged, result, before, seen, lock, own>> /\ pc[t] = "idle"
    BY DEF Invoke, CallWrite, CallFsync, Begin, Toggle, At, vars, loggerVars
  <1>2. lock # t
    BY <1>1 DEF Guarded, Exclusion
  <1>3. \A u \in Threads : u # t => pc'[u] = pc[u]
    BY DEF Invoke, CallWrite, CallFsync, Begin, Toggle, Goto, Guarded, ThreadTypes
  <1> QED BY <1>1, <1>2, <1>3, OthersSoFar

LEMMA NextSoFar ==
    ASSUME EnoughCalls, Guarded, StepsInv, AdmittedInv, SoFarInv, [ThreadsNext]_threadVars
    PROVE  SoFarInv'
  <1>1. ASSUME NEW t \in Threads, Continue(t) PROVE SoFarInv'
    BY <1>1, LockSoFar, LookupSoFar, SwitchSoFar, LeaveOffSoFar, CheckSoFar, GrowSoFar, ResetSoFar, CloseSoFar,
       ClearSoFar, NameSoFar, OpenSoFar, StartSoFar, ReplaySoFar, HeadSoFar, BodySoFar, CountedSoFar, FsyncSoFar
       DEF Continue, InWriteDataImpl
  <1>2. CASE UNCHANGED threadVars
    BY <1>2, OthersSoFar DEF threadVars, vars, loggerVars
  <1> QED BY <1>1, <1>2, InvokeSoFar DEF ThreadsNext

LEMMA InitSoFar == ASSUME EnoughCalls, ThreadsInit PROVE AdmittedInv /\ SoFarInv
  <1>1. serial = 0 /\ lock = Free /\ result = Ok /\ \A t \in Threads : pc[t] = "idle"
    BY DEF ThreadsInit
  <1>2. AdmittedInv
    BY <1>1, AdmittedFinite DEF AdmittedInv
  <1>3. SoFarInv
    BY <1>1, ThreadsAssumption, ResultsDiffer DEF SoFarInv
  <1> QED BY <1>2, <1>3

LEMMA AlwaysSoFar == ASSUME EnoughCalls PROVE Managed => [](AdmittedInv /\ SoFarInv)
  <1>1. ThreadsInit => AdmittedInv /\ SoFarInv
    BY InitSoFar
  <1>2. Guarded /\ StepsInv /\ (AdmittedInv /\ SoFarInv) /\ [ThreadsNext]_threadVars
          => (AdmittedInv /\ SoFarInv)'
    BY NextAdmitted, NextSoFar
  <1> QED BY <1>1, <1>2, AlwaysGuarded, StepsKept, PTL DEF Managed

-----------------------------------------------------------------------------
(* What is seen of the Write that lets go of the mutex: what it found, then *)
(* what it made of it.                                                      *)
LEMMA ReturnIsSeen ==
    ASSUME NEW t \in Threads, lock = t, lock' = Free, SoFar(t), UNCHANGED serial
    PROVE  Seen = before /\ Seen' = Logger' /\ Begins(before, Logger')
  <1>1. Seen = before /\ Seen' = Logger'
    BY ThreadsAssumption DEF Seen
  <1>2. Logger'.serial = serial
    BY DEF Logger
  <1> QED BY <1>1, <1>2 DEF SoFar, Numbered, Begins

(* A Write that is turned away, or finds the logger switched off. *)
LEMMA RefusalIsWrite ==
    ASSUME NEW t \in Threads, lock = t, lock' = Free, SoFar(t), AsFound, logged = before.logged,
           UNCHANGED <<loggerVars, serial, logged, seen>>,
           \/ result' = Usage /\ TypeOf[t] \notin DOMAIN idMap
           \/ result' = Usage /\ TypeOf[t] \in DOMAIN idMap /\ seen /\ ~ TakesData(before, TypeOf[t])
           \/ result' = Ok /\ TypeOf[t] \in DOMAIN idMap /\ ~ seen
    PROVE  AtOnce!Write(TypeOf[t])
  <1>1. PICK old, new : old = before /\ new = Logger'
    OBVIOUS
  <1>2. Seen = old /\ Seen' = new /\ Begins(old, new)
    BY <1>1, ReturnIsSeen
  <1>3. LoggerKept(old, new) /\ new.result = result' /\ old.idMap = idMap
    BY <1>1 DEF LoggerKept, Logger, AsFound, SameFile, SameLogs, loggerVars
  <1> QED BY <1>1, <1>2, <1>3, WriteRefused, WriteIsOff

(* Where a Write returns before it has changed anything. *)
LEMMA LookupReturns ==
    ASSUME Guarded, SoFarInv, NEW t \in Threads, Lookup(t), lock' = Free PROVE AtOnce!Write(TypeOf[t])
  <1>1. lock = t /\ pc[t] = "lookup" /\ SoFar(t)
    BY InsideWrite DEF Lookup, Labels, Outside, SoFarInv
  <1>2. TypeOf[t] \notin DOMAIN idMap /\ result' = Usage
    BY <1>1, ThreadsAssumption DEF Lookup, Return
  <1>3. AsFound /\ logged = before.logged /\ UNCHANGED <<loggerVars, serial, logged, seen>>
    BY <1>1 DEF SoFar, Lookup
  <1> QED BY <1>1, <1>2, <1>3, RefusalIsWrite

LEMMA LeaveOffReturns ==
    ASSUME Guarded, SoFarInv, NEW t \in Threads, LeaveOff(t), lock' = Free PROVE AtOnce!Write(TypeOf[t])
  <1>1. lock = t /\ pc[t] = "off" /\ SoFar(t)
    BY InsideWrite DEF LeaveOff, Labels, Outside, SoFarInv
  <1>2. AsFound /\ Known(t) /\ ~ seen /\ logged = before.logged
    BY <1>1 DEF SoFar
  <1>3. UNCHANGED <<loggerVars, serial, logged, seen>> /\ result' = Ok
    BY <1>1 DEF LeaveOff, Return
  <1>4. TypeOf[t] \in DOMAIN idMap
    BY <1>2 DEF Known, AsFound, SameFile
  <1> QED BY <1>1, <1>2, <1>3, <1>4, RefusalIsWrite

LEMMA CheckReturns ==
    ASSUME Guarded, SoFarInv, NEW t \in Threads, Check(t), lock' = Free PROVE AtOnce!Write(TypeOf[t])
  <1>1. lock = t /\ pc[t] = "check" /\ SoFar(t)
    BY InsideWrite DEF Check, Labels, Outside, SoFarInv
  <1>2. AsFound /\ Known(t) /\ seen /\ logged = before.logged
    BY <1>1 DEF SoFar
  <1>3. /\ UNCHANGED <<loggerVars, serial, logged, seen>> /\ result' = Usage
        /\ \/ ~ headerComplete
           \/ own[t].id >= Len(subscriptions)
           \/ SizeOf[TypeOf[t]] < subscriptions[own[t].id + 1]
    BY <1>1, ThreadsAssumption DEF Check, Return
  <1>4. TypeOf[t] \in DOMAIN idMap /\ ~ TakesData(before, TypeOf[t])
    BY <1>2, <1>3 DEF Known, AsFound, SameFile, TakesData
  <1> QED BY <1>1, <1>2, <1>3, <1>4, RefusalIsWrite

-----------------------------------------------------------------------------
(* A rotation that gives up. *)
LEMMA OldIsClosed ==
    ASSUME NEW t \in Threads, Numbered(t), OldClosed, UNCHANGED closedLogs
    PROVE  ClosesOld(before, Logger')
  <1>1. Logger'.closedLogs = Append(before.closedLogs, before.log)
    BY DEF Logger, OldClosed
  <1>2. before.closedLogs \in Seq(Seq(Pieces)) /\ before.log \in Seq(Pieces)
    BY DEF Numbered
  <1> QED BY <1>1, <1>2, ClosedWithoutHeads DEF ClosesOld

LEMMA ClearedGivesUp ==
    ASSUME NEW t \in Threads, Fields = Cleared, Raised(t), logged = before.logged,
           UNCHANGED <<writer, headerComplete, formats, subscriptions, idMap, log, currentFileSize, logged>>
    PROVE  GaveUp(before, Logger', TypeOf[t])
  <1>1. /\ writer = "null" /\ headerComplete = FALSE /\ formats = {} /\ subscriptions = <<>>
        /\ idMap = <<>> /\ log = <<>>
    BY DEF Fields, Cleared
  <1>2. WithoutHeads(<<>>) = <<>>
    <2>1. <<>> \in Seq(Pieces) /\ Header(<<>>)
      BY DEF Header
    <2> QED BY <2>1, NoHeadsLeft
  <1> QED BY <1>1, <1>2 DEF GaveUp, Logger, Raised

LEMMA NameReturns ==
    ASSUME Guarded, StepsInv, SoFarInv, NEW t \in Threads, Name(t), lock' = Free PROVE AtOnce!Write(TypeOf[t])
  <1>1. lock = t /\ pc[t] = "name" /\ SoFar(t) /\ Fields = Cleared
    BY InsideWrite DEF Name, Labels, Outside, SoFarInv, StepsInv, HolderBuilds
  <1>2. /\ Numbered(t) /\ Rotating(t) /\ Raised(t) /\ OldClosed /\ initParams = before.initParams
        /\ file = "closed" /\ logged = before.logged
    BY <1>1 DEF SoFar
  <1>3. /\ HasNoNewName(initParams.fileName)
        /\ result' = IF initParams.fileName = <<>> THEN Usage ELSE InvalidArgument
        /\ UNCHANGED <<writer, file, headerComplete, formats, subscriptions, idMap, currentFileSize,
                       log, closedLogs, serial, logged, seen, initParams>>
    BY <1>1, ThreadsAssumption DEF Name, Return
  <1>4. PICK old, new : old = before /\ new = Logger'
    OBVIOUS
  <1>5. Seen = old /\ Seen' = new /\ Begins(old, new)
    BY <1>1, <1>3, <1>4, ReturnIsSeen
  <1>6. ClosesOld(old, new) /\ GaveUp(old, new, TypeOf[t])
    BY <1>1, <1>2, <1>3, <1>4, OldIsClosed, ClearedGivesUp
  <1>7. new.file = "closed" /\ new.initParams = old.initParams
        /\ new.result = IF old.initParams.fileName = <<>> THEN Usage ELSE InvalidArgument
    BY <1>2, <1>3, <1>4 DEF Logger
  <1>8. HasNoNewName(old.initParams.fileName) /\ old.file = "open"
        /\ TakesData(old, TypeOf[t]) /\ Fills(old, TypeOf[t])
    BY <1>2, <1>3, <1>4 DEF Rotating, Entered
  <1>9. AtOnce!Rotate(old.idMap[TypeOf[t]], TypeOf[t])
    BY <1>5, <1>6, <1>7, <1>8, RotationNotNamed
  <1> QED BY <1>3, <1>5, <1>8, <1>9, WriteRotates

LEMMA OpenReturns ==
    ASSUME Guarded, StepsInv, SoFarInv, NEW t \in Threads, Open(t), lock' = Free PROVE AtOnce!Write(TypeOf[t])
  <1>1. lock = t /\ pc[t] = "open" /\ SoFar(t) /\ Fields = Cleared
    BY InsideWrite DEF Open, Labels, Outside, SoFarInv, StepsInv, HolderBuilds
  <1>2. /\ Numbered(t) /\ Rotating(t) /\ Raised(t) /\ OldClosed /\ NamedAnew /\ logged = before.logged
    BY <1>1 DEF SoFar
  <1>3. /\ file' = "null" /\ result' = Parsing
        /\ UNCHANGED <<writer, headerComplete, formats, subscriptions, idMap, currentFileSize,
                       log, closedLogs, serial, logged, seen, initParams>>
    BY <1>1, ThreadsAssumption DEF Open, Return
  <1>4. PICK old, new : old = before /\ new = Logger'
    OBVIOUS
  <1>5. Seen = old /\ Seen' = new /\ Begins(old, new)
    BY <1>1, <1>3, <1>4, ReturnIsSeen
  <1>6. ClosesOld(old, new) /\ GaveUp(old, new, TypeOf[t])
    BY <1>1, <1>2, <1>3, <1>4, OldIsClosed, ClearedGivesUp
  <1>7. new.file = "null" /\ new.result = Parsing /\ new.initParams = NewName(old)
    BY <1>2, <1>3, <1>4 DEF Logger, NamedAnew
  <1>8. ~ HasNoNewName(old.initParams.fileName) /\ old.file = "open"
        /\ TakesData(old, TypeOf[t]) /\ Fills(old, TypeOf[t])
    BY <1>2, <1>4 DEF Rotating, Entered, NamedAnew
  <1>9. AtOnce!Rotate(old.idMap[TypeOf[t]], TypeOf[t])
    BY <1>5, <1>6, <1>7, <1>8, RotationNotOpened
  <1> QED BY <1>3, <1>5, <1>8, <1>9, WriteRotates

LEMMA ReplayReturns ==
    ASSUME Guarded, StepsInv, SoFarInv, NEW t \in Threads, Replay(t), lock' = Free PROVE AtOnce!Write(TypeOf[t])
  <1>1. lock = t /\ pc[t] = "replay" /\ SoFar(t) /\ file = "open"
        /\ UNCHANGED <<file, seen, currentFileSize, closedLogs, initParams, logged, serial, before, own>>
    BY ReplayIs
  <1>2. /\ Numbered(t) /\ Rotating(t) /\ currentFileSize = 0 /\ OldClosed /\ NamedAnew
        /\ logged = before.logged
    BY <1>1 DEF SoFar
  <1>3. InitOf(before).result # Ok /\ result' = InitOf(before).result
    BY <1>1, ReplayIs, ThreadsAssumption
  <1>4. PICK old, new : old = before /\ new = Logger'
    OBVIOUS
  <1>5. Seen = old /\ Seen' = new /\ Begins(old, new)
    BY <1>1, <1>4, ReturnIsSeen
  <1>6. ClosesOld(old, new)
    BY <1>1, <1>2, <1>4, OldIsClosed
  <1>7. /\ new.file = "open" /\ new.initParams = NewName(old) /\ new.currentFileSize = 0
        /\ new.logged = old.logged /\ new.result = InitOf(old).result /\ InitOf(old).result # Ok
        /\ new.log = InitOf(old).log
    BY <1>1, <1>2, <1>3, <1>4, ReplayIs DEF Logger, NamedAnew
  <1>8. Became(new, InitOf(old))
    BY <1>4, ReplayIs DEF Became, Logger
  <1>9. WithoutHeads(new.log) = InitOf(old).log
    BY <1>2, <1>4, <1>7, InitOfIs
  <1>10. ~ HasNoNewName(old.initParams.fileName) /\ old.file = "open"
         /\ TakesData(old, TypeOf[t]) /\ Fills(old, TypeOf[t])
    BY <1>2, <1>4 DEF Rotating, Entered, NamedAnew
  <1>11. AtOnce!Rotate(old.idMap[TypeOf[t]], TypeOf[t])
    BY <1>5, <1>6, <1>7, <1>8, <1>9, <1>10, RotationRefused
  <1> QED BY <1>1, <1>5, <1>10, <1>11, WriteRotates

-----------------------------------------------------------------------------
(* A Write that has written its data. *)
LEMMA DataIsAppended ==
    ASSUME StepsInv, NEW t \in Threads, SoFar(t), Entered(t)
    PROVE  WithoutHeads(WithData(t)) = Append(WithoutHeads(Base(t)), DataOf(before, TypeOf[t]))
  <1>1. Base(t) \in Seq(Pieces)
    <2>1. InitOf(before).log \in Seq(Pieces) /\ before.log \in Seq(Pieces)
      BY InitOfIs DEF SoFar, Numbered, Begun
    <2> QED BY <2>1 DEF Base
  <1>2. /\ Piece(t, "head") \in Pieces /\ Piece(t, "data") \in Pieces
        /\ Piece(t, "head").kind = "head" /\ Piece(t, "data").kind = "data"
    BY PieceTyped DEF Piece, Record
  <1>3. WithHead(t) \in Seq(Pieces) /\ WithoutHeads(WithHead(t)) = WithoutHeads(Base(t))
    BY <1>1, <1>2, AppendTyped, WithoutHeadsAppend DEF WithHead
  <1>4. Piece(t, "data") = DataOf(before, TypeOf[t])
    BY DEF Piece, DataOf, Entered, Known, SoFar, Numbered
  <1> QED BY <1>2, <1>3, <1>4, WithoutHeadsAppend DEF WithData

LEMMA LoggedIsWrite ==
    ASSUME NEW t \in Threads, lock = t, lock' = Free, SoFar(t), Prepared(t), file = "open",
           UNCHANGED <<loggerVars, serial, seen>>,
           LogsData(before, Logger', TypeOf[t], Base(t))
    PROVE  AtOnce!Write(TypeOf[t])
  <1> DEFINE s == TypeOf[t]
  <1>1. Numbered(t) /\ Prepared(t)
    BY DEF SoFar
  <1>2. PICK old, new : old = before /\ new = Logger'
    OBVIOUS
  <1>3. Seen = old /\ Seen' = new /\ Begins(old, new)
    BY <1>2, ReturnIsSeen
  <1>4. /\ new.writer = writer /\ new.file = file /\ new.headerComplete = headerComplete
        /\ new.formats = formats /\ new.subscriptions = subscriptions /\ new.idMap = idMap
        /\ new.currentFileSize = currentFileSize /\ new.initParams = initParams
        /\ new.closedLogs = closedLogs
    BY <1>2 DEF Logger, loggerVars
  <1>5. Entered(t) /\ TakesData(old, s)
    BY <1>1, <1>2, EnteredRefuses DEF Entered
  <1>6. LogsData(old, new, s, Base(t))
    BY <1>2
  <1>7. CASE HasRoom(t)
    <2>1. Base(t) = old.log /\ ~ (old.currentFileSize + SizeOf[s] >= MaxFileSize)
      BY <1>2, <1>7 DEF HasRoom, Base, Fills
    <2>2. LogsData(old, new, s, old.log)
      BY <1>6, <2>1
    <2>3. /\ new.writer = old.writer /\ old.writer # "null" /\ new.file = old.file
          /\ new.headerComplete = old.headerComplete /\ new.formats = old.formats
          /\ new.subscriptions = old.subscriptions /\ new.idMap = old.idMap
          /\ new.currentFileSize = old.currentFileSize + SizeOf[s]
          /\ new.initParams = old.initParams /\ new.closedLogs = old.closedLogs
      BY <1>2, <1>4, <1>7 DEF HasRoom, SameFile, Raised
    <2> HIDE DEF s
    <2>4. AtOnce!Write(s)
      BY <1>3, <1>5, <2>1, <2>2, <2>3, WriteAppends
    <2> QED BY <2>4 DEF s
  <1>8. CASE HasRotated(t)
    <2>1. /\ Rotating(t) /\ OldClosed /\ NamedAnew /\ currentFileSize = 0 /\ InitOf(old).result = Ok
      BY <1>2, <1>8 DEF HasRotated
    <2>2. Base(t) = InitOf(old).log /\ WithoutHeads(InitOf(old).log) = InitOf(old).log
          /\ DOMAIN InitOf(old) = FieldNames
      BY <1>1, <1>2, <2>1, InitOfIs DEF Rotating, Base
    <2>3. ClosesOld(old, new)
      BY <1>1, <1>2, <2>1, OldIsClosed DEF loggerVars
    <2>4. Became(new, InitOf(old))
      BY <1>2, <1>4, <1>8 DEF HasRotated, Became
    <2>5. LogsData(old, new, s, InitOf(old).log)
      BY <1>6, <2>2
    <2>6. new.file = "open" /\ new.initParams = NewName(old) /\ new.currentFileSize = 0
      BY <1>1, <1>2, <1>4, <2>1 DEF NamedAnew
    <2>7. ~ HasNoNewName(old.initParams.fileName) /\ old.file = "open" /\ Fills(old, s)
      BY <1>2, <2>1 DEF Rotating, NamedAnew
    <2> HIDE DEF s
    <2>8. AtOnce!Rotate(old.idMap[s], s)
      BY <1>3, <1>4, <2>1, <2>2, <2>3, <2>4, <2>5, <2>6, <2>7, RotationWrites
    <2>9. AtOnce!Write(s)
      BY <1>3, <1>5, <2>7, <2>8, WriteRotates
    <2> QED BY <2>9 DEF s
  <1> QED BY <1>1, <1>7, <1>8 DEF Prepared

LEMMA FinishedIsWrite ==
    ASSUME StepsInv, NEW t \in Threads, lock = t, lock' = Free, SoFar(t),
           pc[t] \in {"count", "test", "flush", "sync"}, file = "open",
           UNCHANGED <<loggerVars, serial, logged, seen>>, result' = Ok
    PROVE  AtOnce!Write(TypeOf[t])
  <1>1. /\ Prepared(t) /\ log = WithData(t) /\ logged = Append(before.logged, before.serial)
        /\ ~ Long(before, TypeOf[t])
    BY DEF SoFar
  <1>2. WithoutHeads(log) = Append(WithoutHeads(Base(t)), DataOf(before, TypeOf[t]))
    BY <1>1, EnteredRefuses, DataIsAppended
  <1>3. Logger'.log = log /\ Logger'.logged = logged /\ Logger'.result = Ok
    BY DEF Logger, loggerVars
  <1>4. LogsData(before, Logger', TypeOf[t], Base(t))
    BY <1>1, <1>2, <1>3 DEF LogsData
  <1> QED BY <1>1, <1>4, LoggedIsWrite

(* A Write whose data is too long for a message. *)
LEMMA HeadReturns ==
    ASSUME Guarded, StepsInv, SoFarInv, NEW t \in Threads, SerializeHead(t), lock' = Free
    PROVE  AtOnce!Write(TypeOf[t])
  <1>1. lock = t /\ pc[t] = "head" /\ SoFar(t) /\ Ready
    BY InsideWrite DEF SerializeHead, Labels, Outside, SoFarInv, Expected
  <1>2. Prepared(t) /\ log = Base(t) /\ logged = before.logged
    BY <1>1 DEF SoFar
  <1>3. Refuses(t) /\ result' = Parsing /\ UNCHANGED log
    BY <1>1, ThreadsAssumption DEF SerializeHead, Ready, Refuses, Return
  <1>4. UNCHANGED <<loggerVars, serial, logged, seen>>
    BY <1>3 DEF SerializeHead, loggerVars
  <1>5. Logger'.log = log /\ Logger'.logged = logged /\ Logger'.result = Parsing
    BY <1>3, <1>4 DEF Logger
  <1>6. Long(before, TypeOf[t])
    BY <1>2, <1>3, EnteredRefuses
  <1>7. LogsData(before, Logger', TypeOf[t], Base(t))
    BY <1>2, <1>5, <1>6 DEF LogsData
  <1> QED BY <1>1, <1>2, <1>4, <1>7, LoggedIsWrite DEF Ready

LEMMA FinishReturns ==
    ASSUME Guarded, StepsInv, SoFarInv, NEW t \in Threads, lock = t, lock' = Free,
           Counted(t) \/ Test(t) \/ Flush(t) \/ Sync(t)
    PROVE  AtOnce!Write(TypeOf[t])
  <1>1. pc[t] \in {"count", "test", "flush", "sync"} /\ SoFar(t)
    BY DEF SoFarInv, Counted, Test, Flush, Sync, At
  <1>2. file = "open"
    BY <1>1 DEF Guarded, HolderFinds, Expected, Ready
  <1>3. UNCHANGED <<loggerVars, serial, logged, seen>>
    BY DEF Counted, Test, Flush, Sync
  <1>4. result' = Ok
    BY <1>2, ThreadsAssumption DEF Counted, Test, Flush, Sync, Return
  <1> QED BY <1>1, <1>2, <1>3, <1>4, FinishedIsWrite

-----------------------------------------------------------------------------
(* Only a Write that lets go of the mutex changes what is seen. *)
LEMMA HolderIsHidden ==
    ASSUME NEW t \in Threads, lock = t, lock' = lock, UNCHANGED before
    PROVE  Seen' = Seen
  BY ThreadsAssumption DEF Seen

LEMMA OthersAreHidden ==
    ASSUME UNCHANGED <<loggerVars, serial, logged, result, lock, before>>
    PROVE  Seen' = Seen
  BY DEF Seen, Logger, loggerVars

LEMMA LockIsHidden == ASSUME NEW t \in Threads, Lock(t) PROVE Seen' = Seen
  <1>1. lock = Free /\ lock' = t /\ t # Free /\ before' = Logger
    BY ThreadsAssumption DEF Lock
  <1> QED BY <1>1 DEF Seen

LEMMA WritesOrHides ==
    ASSUME Guarded, StepsInv, SoFarInv, NEW t \in Threads, Continue(t)
    PROVE  \/ lock = t /\ lock' = Free /\ AtOnce!Write(TypeOf[t])
           \/ Seen' = Seen
  <1>1. CASE Lock(t)
    BY <1>1, LockIsHidden
  <1>2. CASE lock = t /\ lock' = Free
    <2>1. ~ Lock(t)
      BY <1>2, ThreadsAssumption DEF Lock
    <2>2. ~ (ReadSwitch(t) \/ Grow(t) \/ Reset(t) \/ Close(t) \/ Clear(t) \/ Start(t)
             \/ SerializeBody(t))
      BY <1>2, ThreadsAssumption
         DEF ReadSwitch, Grow, Reset, Close, Clear, Start, SerializeBody
    <2> QED BY <1>2, <2>1, <2>2, LookupReturns, LeaveOffReturns, CheckReturns, NameReturns, OpenReturns,
            ReplayReturns, HeadReturns, FinishReturns DEF Continue, InWriteDataImpl
  <1>3. CASE lock = t /\ lock' # Free
    <2>1. ~ Lock(t)
      BY <1>3, ThreadsAssumption DEF Lock
    <2>2. lock' = lock /\ UNCHANGED before
      BY <1>3, <2>1 DEF Continue, InWriteDataImpl, Lookup, ReadSwitch, LeaveOff, Check, Grow, Reset, Close, Clear,
         Name, Open, Start, Replay, SerializeHead, SerializeBody, Counted, Test, Flush, Sync, Return
    <2> QED BY <1>3, <2>2, HolderIsHidden
  <1>4. CASE lock # t /\ ~ Lock(t)
    <2>1. pc[t] \in Outside
      BY <1>4 DEF Guarded, Exclusion
    <2>2. Test(t) \/ Flush(t) \/ Sync(t)
      BY <1>4, <2>1 DEF Outside, Continue, InWriteDataImpl, Lookup, ReadSwitch, LeaveOff, Check, Grow, Reset, Close,
         Clear, Name, Open, Start, Replay, SerializeHead, SerializeBody, Counted, At
    <2>3. UNCHANGED <<loggerVars, serial, logged, result, lock, before>>
      BY <1>4, <2>2 DEF Test, Flush, Sync, Return
    <2> QED BY <2>3, OthersAreHidden
  <1> QED BY <1>1, <1>2, <1>3, <1>4

(* For any number of threads, the calls of Write that share the mutex are   *)
(* those of ZzDataLog's one action, in the order in which they got it:      *)
(* whether they are refused, append, rotate or fail on the way, and         *)
(* whatever fsync and CreateInstance do in between. ZzDataLog numbers as    *)
(* many calls as the threads' programs make.                                *)
THEOREM WritesAreSerial ==
    ASSUME EnoughCalls PROVE Managed => WritesAreAtomic
  <1>1. ASSUME Guarded, StepsInv, SoFarInv, [ThreadsNext]_threadVars
        PROVE  [\/ lock # Free /\ lock' = Free /\ AtOnce!Write(TypeOf[lock])
                \/ Seen' = Seen]_threadVars
    <2>1. ASSUME NEW t \in Threads, Continue(t)
          PROVE  \/ lock # Free /\ lock' = Free /\ AtOnce!Write(TypeOf[lock])
                 \/ Seen' = Seen
      <3>1. CASE lock = t /\ lock' = Free /\ AtOnce!Write(TypeOf[t])
        <4>1. lock # Free
          BY <3>1, ThreadsAssumption
        <4>2. AtOnce!Write(TypeOf[lock])
          BY <3>1
        <4> QED BY <3>1, <4>1, <4>2
      <3> QED BY <1>1, <2>1, <3>1, WritesOrHides
    <2>2. ASSUME NEW t \in Threads, Invoke(t) PROVE Seen' = Seen
      <3>1. UNCHANGED <<loggerVars, serial, logged, result, lock, before>>
        BY <2>2 DEF Invoke, CallWrite, CallFsync, Begin, Toggle, vars, loggerVars
      <3> QED BY <3>1, OthersAreHidden
    <2> QED BY <1>1, <2>1, <2>2 DEF ThreadsNext
  <1>2. Managed => [](AdmittedInv /\ SoFarInv)
    BY AlwaysSoFar
  <1> QED BY <1>1, <1>2, AlwaysGuarded, StepsKept, PTL DEF Managed, WritesAreAtomic
=============================================================================
