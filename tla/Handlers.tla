------------------------------ MODULE Handlers ------------------------------
(***************************************************************************)
(* The repository's two data handlers behind the dispatch of the reader: a *)
(* handler is a Writer or a DataContainer, and gets the messages the       *)
(* reader takes from a log.                                                *)
(***************************************************************************)
EXTENDS ReaderDispatch, Writer, DataContainer

Refused(h, cb, m) == IF h.kind = "Writer" THEN WriterRefuses(h, cb, m) ELSE Refuses(h, cb, m)
After(h, cb, m)   == IF h.kind = "Writer" THEN Copied(h, cb, m) ELSE Stored(h, cb, m)

(* The callbacks cbs, made one after the other for the message m.           *)
Told(h, cbs, m) == FoldLeft(LAMBDA g, cb : After(g, cb, m), h, cbs)

(* Whether the handler takes the message m, which the reader finds in state *)
(* st: the end of the header, if it is that, comes first.                   *)
Accepts(h, st, m) ==
    LET type  == MsgType(m)
        now   == StateFor(st, type)
        ready == IF now = st THEN h ELSE After(h, "headerComplete", m)
    IN  Handled(now, type) => ~ Refused(ready, CallbackOf(type), m)

(* What FileHeader keeps of a prologue: its flag bits only if it has some.  *)
PrologueOf(log) ==
    LET flags == SubSeq(log, FileHeaderLen + 1, FileHeaderLen + FlagBitsLen)
    IN  [header |-> SubSeq(log, 1, FileHeaderLen),
         flags  |-> IF IsFlagBits(flags) THEN SubSeq(flags, HeaderLen + 1, FlagBitsLen) ELSE <<>>]
=============================================================================
