------------------------------- MODULE Writer -------------------------------
(***************************************************************************)
(* ulog_cpp::Writer (writer.cpp): the data handler that serializes what it *)
(* is called with. As the handler of a Reader it copies a log. A writer is *)
(* the record of its header flag and of the bytes it wrote.                *)
(***************************************************************************)
EXTENDS Serialization

NewWriter == [kind |-> "Writer", headerComplete |-> FALSE, out |-> <<>>]

(* serialize, behind the constructor from bytes: what becomes of m.         *)
Rewritten(m) ==
    LET t == MsgType(m) IN
    CASE t \in {INFO, PARAMETER}        -> KeyedMessage(t, FieldOf(m), ValueOf(m))
      [] t = INFO_MULTIPLE              -> MultiMessage(IsContinued(m), FieldOf(m), ValueOf(m))
      [] t = PARAMETER_DEFAULT          -> DefaultMessage(DefaultTypes(m), FieldOf(m), ValueOf(m))
      [] t = FORMAT                     -> FormatMessage(FormatName(m), FieldsOf(m))
      [] t = ADD_LOGGED_MSG             -> AddMessage(MultiIdOf(m), AddedId(m), AddedName(m))
      [] t \in {LOGGING, LOGGING_TAGGED} -> TextMessage(t, LevelOf(m), StampOf(m), TextOf(m))
      [] t = DATA                       -> DataMessage(MessageId(m), DataOf(m))
      [] t = DROPOUT                    -> DropoutMessage(DurationOf(m))
      [] t = SYNC                       -> SyncMessage

(* The calls the Writer refuses with a ParsingException, which a reader     *)
(* takes for a corrupt log.                                                 *)
WriterRefuses(w, cb, m) ==
    \/ cb = "messageFormat" /\ w.headerComplete
    \/ cb = "addLoggedMessage" /\ ~ w.headerComplete
    \/ /\ cb \notin {"headerComplete", "error", "fatal", "fileHeader"}
       /\ ~ Fits(Rewritten(m))

(* What a call leaves behind. Errors are not the Writer's business.         *)
Copied(w, cb, m) ==
    CASE cb = "headerComplete"        -> [w EXCEPT !.headerComplete = TRUE]
      [] cb \in {"error", "fatal"}    -> w
      [] cb = "fileHeader"            -> [w EXCEPT !.out = @ \o FileHeaderMessage(m.header, m.flags)]
      [] OTHER -> IF WriterRefuses(w, cb, m) THEN w ELSE [w EXCEPT !.out = @ \o Rewritten(m)]
=============================================================================
