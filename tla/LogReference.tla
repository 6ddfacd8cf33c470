---------------------------- MODULE LogReference ----------------------------
(***************************************************************************)
(* What a whole log does to a handler, message by message instead of chunk *)
(* by chunk: the reference the chunked reader is compared with, and the    *)
(* way a log that was written is read back.                                *)
(***************************************************************************)
EXTENDS Handlers

CallsAt(cbs, p) == [i \in 1 .. Len(cbs) |-> [cb |-> cbs[i], at |-> p]]

(* What follows the first p bytes of log s.                                 *)
LengthAt(s, p)  == MsgLen(SubSeq(s, p + 1, p + HeaderLen))
MessageIn(s, p) == SubSeq(s, p + 1, p + LengthAt(s, p))
Complete(s, p)  == p + HeaderLen <= Len(s) /\ p + LengthAt(s, p) <= Len(s)
Resumes(s, p)   == {q \in p .. Len(s) - HeaderLen - 1 : SaneHeader(s, q)}

(* A reading so far: how many bytes are read, in which state, whether a     *)
(* corruption was reported or nothing follows, the calls made and the       *)
(* handler they have led to. It begins with an accepted prologue.           *)
Opened(s, handler) ==
    LET flags == SubSeq(s, FileHeaderLen + 1, FileHeaderLen + FlagBitsLen)
        cbs   == FlagBitsCalls(flags)
    IN  [at |-> FileHeaderLen + FlagBitsSkip(flags), state |-> ReadingHeader,
         reported |-> FALSE, over |-> FALSE,
         calls |-> CallsAt(cbs, FileHeaderLen), handler |-> Told(handler, cbs, PrologueOf(s))]

(* The message m at hand and what handling it came to, and behind a corrupt *)
(* one the next possible header.                                            *)
Behind(s, r, m, h) ==
    LET cbs  == h.calls \o IF h.outcome = Rejected /\ ~ r.reported THEN <<"error">> ELSE <<>>
        next == Resumes(s, r.at + Len(m))
    IN  [at       |-> IF h.outcome = Rejected /\ next # {} THEN First(next) ELSE r.at + Len(m),
         state    |-> h.state,
         reported |-> r.reported \/ h.outcome = Rejected,
         over     |-> h.outcome = Foreign \/ (h.outcome = Rejected /\ next = {}),
         calls    |-> r.calls \o CallsAt(cbs, r.at),
         handler  |-> Told(r.handler, cbs, m)]

Past(s, r) ==
    LET m == MessageIn(s, r.at)
    IN  Behind(s, r, m, Handling(r.state, m, Accepts(r.handler, r.state, m)))

Ends(s, r)   == r.over \/ ~ Complete(s, r.at)
Onward(s, r) == IF Ends(s, r) THEN r ELSE Past(s, r)

(* From r on, to the end of the log: each message has a header.             *)
AtMost(s) == Len(s) \div HeaderLen

ReadFrom(s, r) ==
    LET after[n \in 0 .. AtMost(s)] == IF n = 0 THEN r ELSE Onward(s, after[n - 1])
    IN  after[AtMost(s)]

(* The first `end' bytes.                                                   *)
ReadUpTo(s, end, handler) == ReadFrom(SubSeq(s, 1, end), Opened(s, handler))

ReadLog(s, handler) == ReadUpTo(s, Len(s), handler)
=============================================================================
