---------------------------- MODULE DataContainer ----------------------------
(***************************************************************************)
(* ulog_cpp::DataContainer (data_container.hpp, data_container.cpp): the   *)
(* data handler that keeps a log, or its header, in memory. A store is the *)
(* record of its fields. A callback may be refused with a                  *)
(* ParsingException, which the reader takes for a corruption of the log:   *)
(* Refuses says when, and Stored what each call leaves behind.             *)
(***************************************************************************)
EXTENDS Serialization

(* DataContainer(storage_config) *)
Unfilled(config) ==
    [kind |-> "DataContainer", config |-> config, headerComplete |-> FALSE,
     hadFatalError |-> FALSE, errors |-> 0, fileHeader |-> <<>>, info |-> <<>>, multi |-> <<>>,
     formats |-> <<>>, initialParameters |-> <<>>, defaultParameters |-> <<>>,
     changedParameters |-> <<>>, subscriptions |-> <<>>, logging |-> <<>>, dropouts |-> <<>>]

(* std::map::insert: a key that is there keeps its value.                   *)
Inserted(map, key, value) ==
    [k \in DOMAIN map \union {key} |-> IF k \in DOMAIN map THEN map[k] ELSE value]

(* operator[]: a key that is not there gets an empty list.                  *)
ListAt(map, key) == IF key \in DOMAIN map THEN map[key] ELSE <<>>
WithList(map, key, list) ==
    [k \in DOMAIN map \union {key} |-> IF k = key THEN list ELSE map[k]]

-----------------------------------------------------------------------------
(* What StorageConfig::Header leaves out: all data messages, and behind the *)
(* header everything but formats and default parameters.                    *)
IgnoresNothing(s, cb) == FALSE      \* mutant: StorageConfig is not looked at

Ignores(s, cb) ==
    /\ s.config = "Header"
    /\ \/ cb = "data"
       \/ /\ s.headerComplete
          /\ cb \in {"messageInfo", "parameter", "addLoggedMessage", "logging", "dropout"}

Continues(cb, m) == cb = "messageInfo" /\ MsgType(m) = INFO_MULTIPLE /\ IsContinued(m)

Refuses(s, cb, m) ==
    /\ ~ Ignores(s, cb)
    /\ \/ Continues(cb, m) /\ ListAt(s.multi, NameOf(FieldOf(m))) = <<>>
       \/ cb = "messageFormat" /\ FormatName(m) \in DOMAIN s.formats
       \/ cb = "addLoggedMessage" /\ AddedId(m) \in DOMAIN s.subscriptions
       \/ cb = "data" /\ MessageId(m) \notin DOMAIN s.subscriptions

(* Multi infos: a message that is continued goes to the last list of its    *)
(* key, another begins a list of its own.                                   *)
AppendedToFirst(lists, value) ==      \* mutant: front() for back()
    [lists EXCEPT ![1] = Append(@, value)]

AppendedToLast(lists, value) == [lists EXCEPT ![Len(lists)] = Append(@, value)]

Keyed(m) == [field |-> FieldOf(m), value |-> ValueOf(m)]

KeptMulti(s, m) ==
    LET key   == NameOf(FieldOf(m))
        lists == ListAt(s.multi, key)
    IN  [s EXCEPT !.multi =
           WithList(@, key, IF IsContinued(m) THEN AppendedToLast(lists, Keyed(m))
                                              ELSE Append(lists, <<Keyed(m)>>))]

Kept(s, cb, m) ==
    CASE cb = "headerComplete"   -> [s EXCEPT !.headerComplete = TRUE]
      [] cb = "fileHeader"       -> [s EXCEPT !.fileHeader = m]
      [] cb = "error"            -> [s EXCEPT !.errors = @ + 1]
      [] cb = "fatal"            -> [s EXCEPT !.errors = @ + 1, !.hadFatalError = TRUE]
      [] cb = "messageFormat"    -> [s EXCEPT !.formats = Inserted(@, FormatName(m), FieldsOf(m))]
      [] cb = "messageInfo" /\ MsgType(m) = INFO_MULTIPLE -> KeptMulti(s, m)
      [] cb = "messageInfo" /\ MsgType(m) = INFO ->
           [s EXCEPT !.info = Inserted(@, NameOf(FieldOf(m)), Keyed(m))]
      [] cb = "parameter" /\ s.headerComplete ->
           [s EXCEPT !.changedParameters = Append(@, Keyed(m))]
      [] cb = "parameter" /\ ~ s.headerComplete ->
           [s EXCEPT !.initialParameters = Inserted(@, NameOf(FieldOf(m)), Keyed(m))]
      [] cb = "parameterDefault" ->
           [s EXCEPT !.defaultParameters =
              Inserted(@, NameOf(FieldOf(m)), <<DefaultTypes(m), Keyed(m)>>)]
      [] cb = "addLoggedMessage" ->
           [s EXCEPT !.subscriptions =
              Inserted(@, AddedId(m), [name |-> AddedName(m), multi |-> MultiIdOf(m), data |-> <<>>])]
      [] cb = "data"             ->
           [s EXCEPT !.subscriptions[MessageId(m)].data = Append(@, DataOf(m))]
      [] cb = "logging"          ->
           [s EXCEPT !.logging =
              Append(@, [level |-> LevelOf(m), stamp |-> StampOf(m), text |-> TextOf(m)])]
      [] cb = "dropout"          -> [s EXCEPT !.dropouts = Append(@, DurationOf(m))]
      [] cb = "sync"             -> s

(* A continuation that is refused has left an empty list under its key.     *)
Stored(s, cb, m) ==
    IF Ignores(s, cb) THEN s
    ELSE IF ~ Refuses(s, cb, m) THEN Kept(s, cb, m)
    ELSE IF Continues(cb, m) THEN [s EXCEPT !.multi = WithList(@, NameOf(FieldOf(m)), <<>>)]
    ELSE s
==============================================================================
