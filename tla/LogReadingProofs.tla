-------------------------- MODULE LogReadingProofs --------------------------
(***************************************************************************)
(* Theorems about LogReading, for every log, every handler and every way   *)
(* to cut the log into chunks: what the callbacks have done is what the    *)
(* messages of the whole log do, one after the other (LogReference), as    *)
(* far as the reader has come, and nothing is missing at the end. A store  *)
(* of the header keeps what the header has left in it.                     *)
(***************************************************************************)
EXTENDS LogReading, ReaderProofs, RecursionProofs

Calls == Seq([cb : Callbacks, at : Nat])

(* Prefixes, place by place. *)
Begins(a, b) == a \in Calls /\ b \in Calls /\ Len(a) <= Len(b) /\ \A i \in 1 .. Len(a) : a[i] = b[i]

LEMMA BeginsIsPrefix == ASSUME NEW a, NEW b, Begins(a, b) PROVE IsPrefix(a, b)
  <1>1. a \in Calls /\ b \in Calls /\ Len(a) \in Nat /\ Len(b) \in Nat /\ Len(a) <= Len(b)
    BY LenProperties DEF Begins, Calls
  <1> DEFINE front == SubSeq(b, 1, Len(a))
  <1>2. \A i \in 1 .. Len(a) : b[i] \in [cb : Callbacks, at : Nat]
    <2>1. \A i \in 1 .. Len(a) : i \in 1 .. Len(b)
      BY <1>1
    <2> QED BY <1>1, <2>1, ElementOfSeq DEF Calls
  <1>3. /\ front \in Calls /\ Len(front) = IF 1 <= Len(a) THEN Len(a) - 1 + 1 ELSE 0
        /\ \A i \in 1 .. Len(a) - 1 + 1 : front[i] = b[1 + i - 1]
    BY <1>1, <1>2, SubSeqProperties DEF Calls
  <1>4. (IF 1 <= Len(a) THEN Len(a) - 1 + 1 ELSE 0) = Len(a) /\ Len(a) - 1 + 1 = Len(a)
    BY <1>1
  <1> HIDE DEF front
  <1>5. ASSUME NEW i \in 1 .. Len(a) PROVE a[i] = front[i]
    <2>1. 1 + i - 1 = i
      OBVIOUS
    <2> QED BY <1>3, <1>4, <2>1 DEF Begins
  <1>6. a = front
    BY <1>1, <1>3, <1>4, <1>5, SeqEqual DEF Calls
  <1>7. SubSeq(a, 1, Len(a)) = a
    BY <1>1, SubSeqFull DEF Calls
  <1> QED BY <1>1, <1>6, <1>7 DEF IsPrefix, front

LEMMA BeginsSelf == ASSUME NEW a \in Calls PROVE Begins(a, a)
  BY LenProperties DEF Begins, Calls

LEMMA BeginsBoth == ASSUME NEW a, NEW b, NEW c, Begins(a, b), Begins(b, c) PROVE Begins(a, c)
  <1>1. Len(a) \in Nat /\ Len(b) \in Nat /\ Len(c) \in Nat
    BY LenProperties DEF Begins, Calls
  <1> QED BY <1>1 DEF Begins

LEMMA BeginsMore == ASSUME NEW a \in Calls, NEW b \in Calls PROVE Begins(a, a \o b) /\ a \o b \in Calls
  <1>1. /\ a \o b \in Calls /\ Len(a) \in Nat /\ Len(b) \in Nat /\ Len(a \o b) = Len(a) + Len(b)
        /\ \A i \in 1 .. Len(a) + Len(b) : (a \o b)[i] = IF i <= Len(a) THEN a[i] ELSE b[i - Len(a)]
    BY ConcatProperties, LenProperties DEF Calls
  <1> DEFINE ab == a \o b
  <1> HIDE DEF ab
  <1>2. /\ ab \in Calls /\ Len(a) <= Len(ab) /\ \A i \in 1 .. Len(a) : a[i] = ab[i]
    <2>1. Len(a) <= Len(ab)
      BY <1>1 DEF ab
    <2>2. ASSUME NEW i \in 1 .. Len(a) PROVE a[i] = ab[i]
      <3>1. i \in 1 .. Len(a) + Len(b) /\ i <= Len(a)
        BY <1>1
      <3> QED BY <1>1, <3>1 DEF ab
    <2> QED BY <1>1, <2>1, <2>2 DEF ab
  <1> QED BY <1>2 DEF Begins, ab

-----------------------------------------------------------------------------
(* The readings of a log, from its prologue on.                             *)
Readings(s, r, F) == F = [n \in 0 .. AtMost(s) |-> IF n = 0 THEN r ELSE Onward(s, F[n - 1])]
Whole(s, r)       == CHOOSE F : Readings(s, r, F)

LEMMA AtMostIs ==
    ASSUME NEW s, Len(s) \in Nat
    PROVE  /\ AtMost(s) \in Nat
           /\ HeaderLen * AtMost(s) <= Len(s) /\ Len(s) < HeaderLen * AtMost(s) + HeaderLen
  BY DEF AtMost, HeaderLen

LEMMA ReadingsExist == ASSUME NEW s, NEW r, AtMost(s) \in Nat PROVE \E F : Readings(s, r, F)
  <1> DEFINE Step1(F, n) == IF n = 0 THEN r ELSE Onward(s, F[n - 1])
             Over(F, m) == F = [n \in 0 .. m |-> Step1(F, n)]
             S == {m \in Nat : \E F : Over(F, m)}
  <1>1. 0 \in S
    <2> DEFINE F == [n \in 0 .. 0 |-> r]
    <2>1. Over(F, 0)
      OBVIOUS
    <2> HIDE DEF F, Over
    <2> QED BY <2>1
  <1>2. ASSUME NEW m \in Nat, m \in S PROVE m + 1 \in S
    <2>1. PICK F : Over(F, m)
      <3> HIDE DEF Over
      <3> QED BY <1>2
    <2> DEFINE G == [n \in 0 .. m + 1 |-> IF n = m + 1 THEN Step1(F, n) ELSE F[n]]
    <2>2. G[m + 1] = Step1(F, m + 1) /\ \A n \in 0 .. m : G[n] = F[n]
      <3> HIDE DEF Step1
      <3> QED OBVIOUS
    <2>3. G = [n \in 0 .. m + 1 |-> G[n]]
      <3> HIDE DEF Step1
      <3> QED OBVIOUS
    <2>4. \A n \in 0 .. m : F[n] = Step1(F, n)
      <3> HIDE DEF Step1
      <3> QED BY <2>1
    <2> HIDE DEF G
    <2>5. ASSUME NEW n \in 0 .. m + 1 PROVE Step1(G, n) = Step1(F, n)
      <3>1. n # 0 => n - 1 \in 0 .. m
        OBVIOUS
      <3> QED BY <2>2, <3>1
    <2> HIDE DEF Step1
    <2>6. ASSUME NEW n \in 0 .. m + 1 PROVE G[n] = Step1(G, n)
      <3>1. n \in 0 .. m \/ n = m + 1
        OBVIOUS
      <3> QED BY <2>2, <2>4, <2>5, <3>1
    <2>7. Over(G, m + 1)
      BY <2>3, <2>6
    <2> HIDE DEF Over
    <2> QED BY <2>7
  <1>3. S = Nat
    <2>1. S \in SUBSET Nat
      OBVIOUS
    <2> HIDE DEF S
    <2> QED BY <1>1, <1>2, <2>1, NatSetInduction
  <1>4. \E F : Over(F, AtMost(s))
    <2> HIDE DEF Over
    <2> QED BY <1>3
  <1> QED BY <1>4 DEF Readings

LEMMA WholeIs ==
    ASSUME NEW s, NEW r, Len(s) \in Nat
    PROVE  /\ Whole(s, r)[0] = r
           /\ \A n \in 1 .. AtMost(s) : Whole(s, r)[n] = Onward(s, Whole(s, r)[n - 1])
           /\ ReadFrom(s, r) = Whole(s, r)[AtMost(s)]
  <1>1. Readings(s, r, Whole(s, r))
    BY AtMostIs, ReadingsExist, Zenon DEF Whole
  <1>2. ReadFrom(s, r) = Whole(s, r)[AtMost(s)]
    BY Zenon DEF ReadFrom, Whole, Readings
  <1> DEFINE F == Whole(s, r)
  <1> HIDE DEF F
  <1>3. \A n \in 0 .. AtMost(s) : F[n] = IF n = 0 THEN r ELSE Onward(s, F[n - 1])
    BY <1>1 DEF Readings, F
  <1>4. F[0] = r /\ \A n \in 1 .. AtMost(s) : F[n] = Onward(s, F[n - 1])
    BY <1>3, AtMostIs
  <1> QED BY <1>2, <1>4 DEF F

-----------------------------------------------------------------------------
(* One message more.                                                        *)
LEMMA FirstOf ==
    ASSUME NEW S, S \subseteq Nat, S # {}
    PROVE  First(S) \in S /\ \A q \in S : First(S) <= q
  <1>1. \E x \in S : \A y \in S : x <= y
    BY LeastNumber
  <1> QED BY <1>1, Zenon DEF First

LEMMA FirstIsLeast ==
    ASSUME NEW S, S \subseteq Nat, NEW p \in S, \A q \in S : p <= q
    PROVE  First(S) = p
  <1>1. First(S) \in S /\ \A q \in S : First(S) <= q
    BY FirstOf
  <1>2. First(S) \in Nat /\ p \in Nat /\ First(S) <= p /\ p <= First(S)
    BY <1>1
  <1> QED BY <1>2

(* What a reading is made of, but for the handler.                          *)
IsReading(r) ==
    r.at \in Nat /\ r.state \in States /\ r.reported \in BOOLEAN /\ r.over \in BOOLEAN /\ r.calls \in Calls

LEMMA PieceOf ==
    ASSUME NEW s \in Seq(Byte), NEW p \in Nat, NEW n \in Nat, p + n <= Len(s)
    PROVE  SubSeq(s, p + 1, p + n) \in Seq(Byte) /\ Len(SubSeq(s, p + 1, p + n)) = n
  <1>1. Len(s) \in Nat
    BY LenProperties
  <1>2. \A i \in p + 1 .. p + n : s[i] \in Byte
    BY <1>1, ElementOfSeq
  <1>3. /\ SubSeq(s, p + 1, p + n) \in Seq(Byte)
        /\ Len(SubSeq(s, p + 1, p + n)) = IF p + 1 <= p + n THEN p + n - (p + 1) + 1 ELSE 0
    BY <1>2, SubSeqProperties
  <1>4. (IF p + 1 <= p + n THEN p + n - (p + 1) + 1 ELSE 0) = n
    OBVIOUS
  <1> QED BY <1>3, <1>4

LEMMA MessageType ==
    ASSUME NEW s \in Seq(Byte), NEW p \in Nat, Complete(s, p)
    PROVE  /\ LengthAt(s, p) \in Nat /\ LengthAt(s, p) >= HeaderLen
           /\ Len(MessageIn(s, p)) = LengthAt(s, p) /\ p + LengthAt(s, p) <= Len(s)
  <1>1. Len(s) \in Nat /\ HeaderLen \in Nat /\ p + HeaderLen <= Len(s) /\ p + LengthAt(s, p) <= Len(s)
    BY LenProperties DEF Complete, HeaderLen
  <1> DEFINE front == SubSeq(s, p + 1, p + HeaderLen)
  <1>2. front \in Seq(Byte) /\ Len(front) = HeaderLen
    BY <1>1, PieceOf
  <1>3. MsgLen(front) \in Nat /\ MsgLen(front) >= HeaderLen
    <2> HIDE DEF front
    <2>1. Len(front) >= HeaderLen
      BY <1>2 DEF HeaderLen
    <2> QED BY <1>2, <2>1, HeaderBytes
  <1>4. LengthAt(s, p) = MsgLen(front)
    BY DEF LengthAt
  <1> HIDE DEF front
  <1>5. Len(SubSeq(s, p + 1, p + LengthAt(s, p))) = LengthAt(s, p)
    BY <1>1, <1>3, <1>4, PieceOf
  <1> QED BY <1>1, <1>3, <1>4, <1>5 DEF MessageIn

LEMMA CallsAtType ==
    ASSUME NEW cbs \in Seq(Callbacks), NEW p \in Nat
    PROVE  CallsAt(cbs, p) \in Calls
  BY DEF CallsAt, Calls

ErrorUnless(b) == IF b THEN <<>> ELSE <<"error">>

LEMMA ErrorUnlessType == ASSUME NEW b PROVE ErrorUnless(b) \in Seq(Callbacks)
  <1>1. "error" \in Callbacks
    BY DEF Callbacks
  <1> QED BY <1>1 DEF ErrorUnless

LEMMA ResumesType ==
    ASSUME NEW s \in Seq(Byte), NEW p \in Nat
    PROVE  Resumes(s, p) \subseteq Nat /\ \A q \in Resumes(s, p) : p <= q
  <1>1. Len(s) \in Nat
    BY LenProperties
  <1> QED BY <1>1 DEF Resumes, HeaderLen

LEMMA PastType ==
    ASSUME NEW s \in Seq(Byte), NEW r, IsReading(r), Complete(s, r.at)
    PROVE  /\ IsReading(Past(s, r)) /\ Begins(r.calls, Past(s, r).calls)
           /\ Past(s, r).at >= r.at + HeaderLen
  <1> DEFINE m    == MessageIn(s, r.at)
             h    == Handling(r.state, m, Accepts(r.handler, r.state, m))
             more == IF h.outcome = Rejected /\ ~ r.reported THEN <<"error">> ELSE <<>>
             cbs  == h.calls \o more
             next == Resumes(s, r.at + Len(m))
             end  == IF h.outcome = Rejected /\ next # {} THEN First(next) ELSE r.at + Len(m)
             past == [at |-> end, state |-> h.state, reported |-> r.reported \/ h.outcome = Rejected,
                      over |-> h.outcome = Foreign \/ (h.outcome = Rejected /\ next = {}),
                      calls |-> r.calls \o CallsAt(cbs, r.at), handler |-> Told(r.handler, cbs, m)]
  <1>1. Past(s, r) = past
    BY Zenon DEF Past, Behind
  <1>2. r.at \in Nat /\ r.state \in States /\ r.calls \in Calls
    BY DEF IsReading
  <1>3. Len(m) \in Nat /\ Len(m) >= HeaderLen /\ r.at + Len(m) \in Nat
    <2>1. Len(m) \in Nat /\ Len(m) >= HeaderLen
      BY <1>2, MessageType
    <2> HIDE DEF m
    <2> QED BY <1>2, <2>1
  <1> HIDE DEF m
  <1>4. h.state \in States /\ h.calls \in Seq(Callbacks)
    BY <1>2, HandlingType DEF States
  <1> HIDE DEF h
  <1>5. more \in Seq(Callbacks)
    BY ErrorUnlessType DEF ErrorUnless
  <1> HIDE DEF more
  <1>6. cbs \in Seq(Callbacks)
    BY <1>4, <1>5, ConcatProperties
  <1> HIDE DEF cbs
  <1>7. Begins(r.calls, r.calls \o CallsAt(cbs, r.at)) /\ r.calls \o CallsAt(cbs, r.at) \in Calls
    BY <1>2, <1>6, CallsAtType, BeginsMore
  <1>8. end \in Nat /\ end >= r.at + HeaderLen
    <2>1. next # {} => First(next) \in next
      BY <1>3, ResumesType, FirstOf
    <2>2. \A q \in next : q \in Nat /\ q >= r.at + Len(m)
      BY <1>3, ResumesType
    <2> HIDE DEF next
    <2>3. end \in Nat /\ end >= r.at + Len(m)
      BY <1>2, <1>3, <2>1, <2>2
    <2> HIDE DEF end
    <2> QED BY <1>2, <1>3, <2>3 DEF HeaderLen
  <1> HIDE DEF end, next
  <1>9. /\ past.at = end /\ past.state = h.state /\ past.calls = r.calls \o CallsAt(cbs, r.at)
        /\ past.reported \in BOOLEAN /\ past.over \in BOOLEAN
    <2>1. past.reported = (r.reported \/ h.outcome = Rejected)
      OBVIOUS
    <2>2. past.over = (h.outcome = Foreign \/ (h.outcome = Rejected /\ next = {}))
      OBVIOUS
    <2> QED BY <2>1, <2>2
  <1> HIDE DEF past
  <1>10. IsReading(past)
    BY <1>4, <1>7, <1>8, <1>9 DEF IsReading
  <1> QED BY <1>1, <1>7, <1>8, <1>9, <1>10

-----------------------------------------------------------------------------
(* The readings of a log, one after the other: each goes on from the one    *)
(* before it, until nothing follows.                                        *)
LEMMA ReadingsGo ==
    ASSUME NEW s \in Seq(Byte), NEW r, IsReading(r)
    PROVE  \A n \in 0 .. AtMost(s) :
             IsReading(Whole(s, r)[n]) /\ (Ends(s, Whole(s, r)[n]) \/ Whole(s, r)[n].at >= HeaderLen * n)
  <1> DEFINE F == Whole(s, r)
             good(n) == IsReading(F[n]) /\ (Ends(s, F[n]) \/ F[n].at >= HeaderLen * n)
             S == {n \in Nat : n <= AtMost(s) => good(n)}
  <1>1. Len(s) \in Nat /\ AtMost(s) \in Nat
    BY LenProperties, AtMostIs
  <1>2. F[0] = r /\ \A n \in 1 .. AtMost(s) : F[n] = Onward(s, F[n - 1])
    BY <1>1, WholeIs
  <1> HIDE DEF F
  <1>3. 0 \in S
    <2>1. r.at \in Nat
      BY DEF IsReading
    <2>2. good(0)
      BY <1>2, <2>1 DEF HeaderLen
    <2> HIDE DEF good
    <2> QED BY <2>2
  <1>4. ASSUME NEW n \in Nat, n \in S PROVE n + 1 \in S
    <2> SUFFICES ASSUME n + 1 <= AtMost(s) PROVE good(n + 1)
      <3> HIDE DEF good
      <3> QED OBVIOUS
    <2>1. good(n)
      <3> HIDE DEF good
      <3> QED BY <1>1, <1>4
    <2>2. F[n + 1] = Onward(s, F[n])
      <3>1. n + 1 \in 1 .. AtMost(s) /\ n + 1 - 1 = n
        BY <1>1
      <3> QED BY <1>2, <3>1
    <2>3. CASE Ends(s, F[n])
      BY <2>1, <2>2, <2>3 DEF Onward
    <2>4. CASE ~ Ends(s, F[n])
      <3>1. F[n + 1] = Past(s, F[n]) /\ Complete(s, F[n].at)
        BY <2>2, <2>4 DEF Onward, Ends
      <3>2. IsReading(F[n + 1]) /\ F[n + 1].at >= F[n].at + HeaderLen
        BY <2>1, <3>1, PastType
      <3>3. F[n].at \in Nat /\ F[n].at >= HeaderLen * n /\ F[n + 1].at \in Nat
        BY <2>1, <2>4, <3>2 DEF IsReading
      <3>4. F[n + 1].at >= HeaderLen * (n + 1)
        BY <3>2, <3>3 DEF HeaderLen
      <3> QED BY <3>2, <3>4
    <2> QED BY <2>3, <2>4
  <1>5. S = Nat
    <2>1. S \in SUBSET Nat
      OBVIOUS
    <2> HIDE DEF S
    <2> QED BY <1>3, <1>4, <2>1, NatSetInduction
  <1>6. \A n \in 0 .. AtMost(s) : good(n)
    <2> HIDE DEF good
    <2> QED BY <1>1, <1>5
  <1> QED BY <1>6 DEF F

(* The whole log begins with what is read of it so far, and is that once    *)
(* nothing follows.                                                         *)
LEMMA ReadingsEnd ==
    ASSUME NEW s \in Seq(Byte), NEW r, IsReading(r), NEW n \in 0 .. AtMost(s)
    PROVE  /\ Begins(Whole(s, r)[n].calls, ReadFrom(s, r).calls)
           /\ Ends(s, Whole(s, r)[n]) => ReadFrom(s, r) = Whole(s, r)[n]
  <1> DEFINE F == Whole(s, r)
             good(k) == Begins(F[n].calls, F[k].calls) /\ (Ends(s, F[n]) => F[k] = F[n])
             S == {k \in Nat : k >= n /\ k <= AtMost(s) => good(k)}
  <1>1. Len(s) \in Nat /\ AtMost(s) \in Nat
    BY LenProperties, AtMostIs
  <1>2. /\ \A k \in 1 .. AtMost(s) : F[k] = Onward(s, F[k - 1])
        /\ \A k \in 0 .. AtMost(s) : IsReading(F[k])
        /\ ReadFrom(s, r) = F[AtMost(s)]
    BY <1>1, WholeIs, ReadingsGo
  <1> HIDE DEF F
  <1>3. good(n)
    <2>1. F[n].calls \in Calls
      BY <1>2 DEF IsReading
    <2> QED BY <2>1, BeginsSelf
  <1>4. 0 \in S
    <2>1. 0 >= n => n = 0
      BY <1>1
    <2> HIDE DEF good
    <2> QED BY <1>3, <2>1
  <1>5. ASSUME NEW k \in Nat, k \in S PROVE k + 1 \in S
    <2> SUFFICES ASSUME k + 1 >= n, k + 1 <= AtMost(s) PROVE good(k + 1)
      <3> HIDE DEF good
      <3> QED OBVIOUS
    <2>1. CASE k + 1 = n
      <3> HIDE DEF good
      <3> QED BY <1>3, <2>1
    <2>2. CASE k >= n
      <3>1. good(k)
        <4> HIDE DEF good
        <4> QED BY <1>1, <1>5, <2>2
      <3>2. F[k + 1] = Onward(s, F[k]) /\ IsReading(F[k])
        <4>1. k + 1 \in 1 .. AtMost(s) /\ k + 1 - 1 = k /\ k \in 0 .. AtMost(s)
          BY <1>1
        <4> QED BY <1>2, <4>1
      <3>3. CASE Ends(s, F[k])
        BY <3>1, <3>2, <3>3 DEF Onward
      <3>4. CASE ~ Ends(s, F[k])
        <4>1. F[k + 1] = Past(s, F[k]) /\ Complete(s, F[k].at)
          BY <3>2, <3>4 DEF Onward, Ends
        <4>2. Begins(F[k].calls, F[k + 1].calls)
          BY <3>2, <4>1, PastType
        <4>3. Begins(F[n].calls, F[k + 1].calls)
          BY <3>1, <4>2, BeginsBoth
        <4>4. ~ Ends(s, F[n])
          BY <3>1, <3>4
        <4> QED BY <4>3, <4>4
      <3> QED BY <3>3, <3>4
    <2> QED BY <1>1, <2>1, <2>2
  <1>6. S = Nat
    <2>1. S \in SUBSET Nat
      OBVIOUS
    <2> HIDE DEF S
    <2> QED BY <1>4, <1>5, <2>1, NatSetInduction
  <1>7. good(AtMost(s))
    <2>1. AtMost(s) >= n /\ AtMost(s) <= AtMost(s)
      BY <1>1
    <2> HIDE DEF good
    <2> QED BY <1>1, <1>6, <2>1
  <1> QED BY <1>2, <1>7 DEF F

-----------------------------------------------------------------------------
(* What the handler hears in a step of the reader.                          *)
LEMMA ToldNothing == ASSUME NEW h, NEW m PROVE Told(h, <<>>, m) = h
  <1> DEFINE cbs == <<>>
             telling(g) == [s \in SUBSET DOMAIN cbs |->
                              IF s = {} THEN h ELSE After(g[s \ {Max(s)}], cbs[Max(s)], m)]
             g == [s \in SUBSET {} |-> h]
             u == CHOOSE f : f = telling(f)
  <1>1. Told(h, cbs, m) = u[DOMAIN cbs]
    BY DEF Told, FoldLeft, MapThenFoldSet
  <1>2. DOMAIN cbs = {}
    OBVIOUS
  <1> HIDE DEF cbs
  <1>3. \A f : telling(f) = g
    BY <1>2
  <1> HIDE DEF telling, g
  <1>4. u = telling(u)
    BY <1>3
  <1>5. u[{}] = h
    BY <1>3, <1>4 DEF g
  <1> QED BY <1>1, <1>2, <1>5 DEF cbs

Subject == IF state \in {ReadingMagic, ReadingFlagBits} THEN PrologueOf(stream) ELSE MessageIn(stream, At)

LEMMA Unheard ==
    ASSUME TypeOK, Listening, calls' = calls
    PROVE  handler' = handler /\ given' = given
  <1>1. calls \in Seq([cb : Callbacks, at : Nat]) /\ Len(calls) \in Nat
    BY LenProperties DEF TypeOK
  <1> DEFINE made == SubSeq(calls, Len(calls) + 1, Len(calls))
             cbs  == [i \in 1 .. Len(made) |-> made[i].cb]
  <1>2. made = <<>>
    <2>1. Len(calls) < Len(calls) + 1
      BY <1>1
    <2> QED BY <1>1, <2>1, SubSeqEmpty
  <1>3. cbs = <<>>
    BY <1>2
  <1>4. handler' = Told(handler, cbs, Subject) /\ given' = given
    BY DEF Listening, Subject
  <1> QED BY <1>3, <1>4, ToldNothing

LEMMA Heard ==
    ASSUME TypeOK, Listening, NEW cbs \in Seq(Callbacks), calls' = Calling(cbs)
    PROVE  handler' = Told(handler, cbs, Subject) /\ given' = given
  <1>1. /\ calls \in Calls /\ Len(calls) \in Nat /\ Len(cbs) \in Nat
        /\ Len(calls') = Len(calls) + Len(cbs)
        /\ \A i \in Len(calls) + 1 .. Len(calls') :
             i - Len(calls) \in 1 .. Len(cbs) /\ calls'[i].cb = cbs[i - Len(calls)]
    BY Recorded DEF Calls
  <1>2. calls' \in Calls
    BY CallingType DEF Calls
  <1> DEFINE made == SubSeq(calls', Len(calls) + 1, Len(calls'))
             told == [i \in 1 .. Len(made) |-> made[i].cb]
  <1>3. /\ made \in Calls
        /\ Len(made) = IF Len(calls) + 1 <= Len(calls') THEN Len(calls') - (Len(calls) + 1) + 1 ELSE 0
        /\ \A i \in 1 .. Len(calls') - (Len(calls) + 1) + 1 : made[i] = calls'[Len(calls) + 1 + i - 1]
    <2>1. Len(calls') \in Nat
      BY <1>1
    <2>2. \A i \in Len(calls) + 1 .. Len(calls') : calls'[i] \in [cb : Callbacks, at : Nat]
      <3>1. \A i \in Len(calls) + 1 .. Len(calls') : i \in 1 .. Len(calls')
        BY <1>1, <2>1
      <3> QED BY <1>2, <3>1, ElementOfSeq DEF Calls
    <2> QED BY <1>1, <2>1, <2>2, SubSeqProperties DEF Calls
  <1> HIDE DEF made
  <1>4. Len(made) = Len(cbs) /\ \A i \in 1 .. Len(cbs) : made[i].cb = cbs[i]
    <2>1. Len(calls') - (Len(calls) + 1) + 1 = Len(cbs)
      BY <1>1
    <2>2. Len(made) = Len(cbs)
      <3>1. ~ (Len(calls) + 1 <= Len(calls')) => Len(cbs) = 0
        BY <1>1
      <3> QED BY <1>3, <2>1, <3>1
    <2>3. ASSUME NEW i \in 1 .. Len(cbs) PROVE made[i].cb = cbs[i]
      <3>1. Len(calls) + 1 + i - 1 = Len(calls) + i /\ Len(calls) + i \in Len(calls) + 1 .. Len(calls')
            /\ Len(calls) + i - Len(calls) = i
        BY <1>1
      <3>2. made[i] = calls'[Len(calls) + i]
        BY <1>3, <2>1, <3>1
      <3> QED BY <1>1, <3>1, <3>2
    <2> QED BY <2>2, <2>3
  <1>5. told = cbs
    <2>1. told = [i \in 1 .. Len(cbs) |-> made[i].cb]
      BY <1>4
    <2>2. \A i \in 1 .. Len(cbs) : made[i].cb \in Callbacks
      BY <1>4, ElementOfSeq
    <2>3. told \in Seq(Callbacks) /\ Len(told) = Len(cbs) /\ \A i \in 1 .. Len(cbs) : told[i] = cbs[i]
      BY <1>1, <1>4, <2>1, <2>2
    <2> HIDE DEF told
    <2> QED BY <1>1, <2>3, SeqEqual
  <1>6. handler' = Told(handler, told, Subject) /\ given' = given
    BY DEF Listening, Subject, made
  <1> QED BY <1>5, <1>6

-----------------------------------------------------------------------------
(***************************************************************************)
(* The inductive invariant. The reader and its handler are where one of    *)
(* the readings of the whole log is (KeepsUp): at its next message, or in  *)
(* a search for it (Heading). Nothing has happened before the prologue is  *)
(* over (Begun), and a search that has used up its chunk has left at most  *)
(* a header's length of bytes to be searched (LastSearched).               *)
(***************************************************************************)
View(p, o) == [at |-> p, state |-> state, reported |-> corruptionReported, over |-> o,
               calls |-> calls, handler |-> handler]

Heading(p, o) ==
    IF ~ needRecovery THEN p = At /\ ~ o
    ELSE IF Resumes(stream, At) = {} THEN o
    ELSE ~ o /\ p = First(Resumes(stream, At))

Reached(n, p, o) ==
    /\ n \in 0 .. AtMost(stream) /\ o \in BOOLEAN
    /\ Len(stream) >= FileHeaderLen + FlagBitsLen
    /\ Whole(stream, Opened(stream, given))[n] = View(p, o)
    /\ Heading(p, o)

KeepsUp == InSections /\ ~ escaped => \E n, p, o : Reached(n, p, o)

Begun ==
    state \in Prologue =>
      /\ calls = <<>> /\ handler = given /\ ~ corruptionReported
      /\ At = IF state = ReadingMagic THEN 0 ELSE FileHeaderLen

LastSearched == needRecovery /\ length = 0 => Len(buffer) <= HeaderLen

Follows == KeepsUp /\ Begun

ReadInv == IInv /\ LastSearched /\ Follows

(* A flag bits message is no longer than the reader knows it. Of a longer   *)
(* one the reader skips what is in the chunk, so the cut would matter.      *)
FlagsOf(s)  == SubSeq(s, FileHeaderLen + 1, FileHeaderLen + FlagBitsLen)
FlagsFit(s) == FlagBitsSkip(FlagsOf(s)) <= FlagBitsLen

(* A search uses up the chunk; it stops in a buffer it has searched.        *)
LEMMA WaitingAddsNone ==
    ASSUME TypeOK, CompleteMessageWaits
    PROVE  Added = 0
  <1>1. Len(buffer) \in Nat /\ length \in Nat /\ buffer \in Seq(Byte)
    BY LenProperties DEF TypeOK
  <1> DEFINE n == Least(HeaderLen, length)
             b == buffer \o Data(n)
  <1>2. n \in 0 .. length
    BY <1>1 DEF Least, HeaderLen
  <1>3. Data(n) \in Seq(Byte) /\ b \in Seq(Byte) /\ Len(b) = Len(buffer) + n
    BY <1>2, DataBytes, Appending
  <1>4. Lacking = Required(b) - Len(buffer)
    BY DEF Lacking
  <1> HIDE DEF n
  <1>5. Len(buffer) > HeaderLen /\ Len(buffer) >= HeaderLen /\ Len(buffer) >= MsgLen(buffer)
    BY <1>1 DEF CompleteMessageWaits, HeaderLen
  <1>6. MsgLen(b) = MsgLen(buffer) /\ MsgLen(buffer) \in Nat
    BY <1>1, <1>3, <1>5, LengthOfPrefix, HeaderBytes
  <1> HIDE DEF b
  <1>7. Required(b) = MsgLen(b)
    BY <1>1, <1>2, <1>3, <1>5 DEF Required, HeaderLen
  <1>8. Lacking \in Int /\ Lacking <= 0
    BY <1>1, <1>4, <1>5, <1>6, <1>7
  <1> QED BY <1>1, <1>8 DEF Added, Greatest, Least

LEMMA NextSearched == ASSUME IInv, LastSearched, [Next]_vars PROVE LastSearched'
  <1>1. TypeOK /\ length \in Nat /\ Len(buffer) \in Nat /\ Len(<<>>) = 0
    BY LenProperties, EmptySeq DEF IInv, TypeOK
  <1>2. ASSUME UNCHANGED <<length, buffer, needRecovery>> PROVE LastSearched'
    BY <1>2 DEF LastSearched
  <1>3. ASSUME NEW n \in ChunkSizes, ReadChunk(n) PROVE LastSearched'
    <2>1. n \in Nat \ {0} /\ length = 0
      BY <1>3, ChunksAssumption DEF IInv, IdleConsumed, ReadChunk
    <2> QED BY <1>3, <2>1 DEF LastSearched, ReadChunk
  <1>4. CASE LeaveLoop \/ LeaveRecovery \/ UNCHANGED vars
    BY <1>2, <1>4 DEF LeaveLoop, LeaveRecovery, vars
  <1>5. CASE ReadMagic \/ ReadFlagBits
    <2>1. ~ needRecovery /\ needRecovery' = needRecovery
      BY <1>5 DEF IInv, NothingBuffered, Prologue, ReadMagic, ReadFlagBits
    <2> QED BY <2>1 DEF LastSearched
  <1>6. CASE ExtendPartial \/ StartPartial
    <2>1. ~ needRecovery /\ needRecovery' = needRecovery
      BY <1>6 DEF ExtendPartial, StartPartial, InLoop
    <2> QED BY <2>1 DEF LastSearched
  <1>7. ASSUME NEW accepts, CompletePartial(accepts) PROVE LastSearched'
    <2>1. PICK m \in FramedInBuffer :
            Handle(m, accepts, Filled, SubSeq(Filled, Len(m) + 1, Len(Filled)), length - Added)
      BY <1>7 DEF CompletePartial
    <2> DEFINE rest == SubSeq(Filled, Len(m) + 1, Len(Filled))
    <2>2. ~ needRecovery /\ length > 0
      BY <1>7 DEF CompletePartial, InLoop
    <2>3. needRecovery' => buffer' = rest /\ length' = length - Added
      BY <2>1, <2>2 DEF Handle
    <2>4. SUFFICES ASSUME length' = 0, needRecovery' PROVE Len(buffer') <= HeaderLen
      BY DEF LastSearched
    <2>5. Added # 0
      BY <1>1, <2>2, <2>3, <2>4
    <2>6. ~ CompleteMessageWaits
      BY <1>1, <2>5, WaitingAddsNone
    <2>7. Len(m) = Len(Filled) /\ Len(Filled) \in Nat
      BY <1>1, <2>6, JustFilled, FilledType, LenProperties
    <2>8. rest = <<>>
      BY <2>7, SubSeqEmpty
    <2> HIDE DEF rest
    <2> QED BY <1>1, <2>3, <2>4, <2>8 DEF HeaderLen
  <1>8. ASSUME NEW accepts, TakeWhole(accepts) PROVE LastSearched'
    <2>1. needRecovery' => buffer' = <<>>
      BY <1>8 DEF TakeWhole, Handle, InLoop
    <2> QED BY <1>1, <2>1 DEF LastSearched, HeaderLen
  <1>9. CASE RecoverShort
    BY <1>1, <1>9, Recovering DEF RecoverShort, LastSearched, HeaderLen
  <1>10. CASE RecoverNothing
    <2>1. Len(Searched) \in Nat /\ ScanStart = 0 /\ Len(Searched) >= HeaderLen /\ InRecovery
      BY <1>10, Recovering DEF RecoverNothing
    <2> DEFINE k == Greatest(ScanStart, ScanEnd)
    <2>2. k = Len(Searched) - HeaderLen /\ k \in 0 .. Len(Searched)
      BY <2>1 DEF Greatest, ScanEnd, HeaderLen
    <2>3. buffer' = Drop(k)
      BY <1>10 DEF RecoverNothing
    <2> HIDE DEF k
    <2>4. Len(buffer') = Len(Searched) - k
      BY <2>1, <2>2, <2>3, DropLength
    <2>5. Len(buffer') = HeaderLen
      BY <2>1, <2>2, <2>4 DEF HeaderLen
    <2> QED BY <2>5 DEF LastSearched, HeaderLen
  <1>11. CASE RecoverFound
    BY <1>11 DEF RecoverFound, LastSearched
  <1> QED BY <1>3, <1>4, <1>5, <1>6, <1>7, <1>8, <1>9, <1>10, <1>11 DEF Next, Step

-----------------------------------------------------------------------------
(* Steps that make no calls. *)
Quiet == UNCHANGED <<stream, state, corruptionReported, calls, handler, given, escaped>>

LEMMA QuietKeepsUp ==
    ASSUME KeepsUp, Quiet,
           InSections /\ ~ escaped => \A p, o : o \in BOOLEAN /\ Heading(p, o) => Heading(p, o)'
    PROVE  KeepsUp'
  <1> SUFFICES ASSUME InSections', ~ escaped' PROVE (\E n, p, o : Reached(n, p, o))'
    BY DEF KeepsUp
  <1>1. InSections /\ ~ escaped
    BY DEF Quiet, InSections
  <1>2. PICK n, p, o : Reached(n, p, o)
    BY <1>1 DEF KeepsUp
  <1>3. Heading(p, o)'
    BY <1>1, <1>2 DEF Reached
  <1>4. View(p, o)' = View(p, o)
    BY DEF View, Quiet
  <1>5. Reached(n, p, o)'
    BY <1>2, <1>3, <1>4 DEF Reached, Quiet
  <1> QED BY <1>5

LEMMA QuietKeepsBegun == ASSUME Begun, Quiet, state \in Prologue => At' = At PROVE Begun'
  BY DEF Begun, Quiet

LEMMA SameViewKeeps ==
    ASSUME ReadInv, SameView, handler' = handler, given' = given
    PROVE  Follows'
  <1>1. Quiet /\ At' = At /\ stream' = stream /\ needRecovery' = needRecovery
    BY DEF SameView, Quiet
  <1>2. \A p, o : Heading(p, o) => Heading(p, o)'
    BY <1>1 DEF Heading
  <1> QED BY <1>1, <1>2, QuietKeepsUp, QuietKeepsBegun DEF Follows, ReadInv

(* Bytes passed over in a search hold no header to go on at. *)
LEMMA ResumesLater ==
    ASSUME NEW s \in Seq(Byte), NEW p \in Nat, NEW q \in Nat, p <= q,
           \A i \in p .. q - 1 : ~ SaneHeader(s, i)
    PROVE  Resumes(s, q) = Resumes(s, p)
  <1>1. Len(s) \in Nat
    BY LenProperties
  <1>2. ASSUME NEW i PROVE i \in Resumes(s, q) <=> i \in Resumes(s, p)
    <2>1. CASE i \in p .. q - 1
      BY <1>1, <2>1 DEF Resumes, HeaderLen
    <2>2. CASE ~ (i \in p .. q - 1)
      BY <1>1, <2>2 DEF Resumes, HeaderLen
    <2> QED BY <2>1, <2>2
  <1> QED BY <1>2

LEMMA ResumesHere ==
    ASSUME NEW s \in Seq(Byte), NEW p \in Nat, SaneHeader(s, p), p + HeaderLen < Len(s)
    PROVE  Resumes(s, p) # {} /\ First(Resumes(s, p)) = p
  <1>1. Len(s) \in Nat
    BY LenProperties
  <1>2. p \in Resumes(s, p)
    BY <1>1 DEF Resumes, HeaderLen
  <1>3. Resumes(s, p) \subseteq Nat /\ \A q \in Resumes(s, p) : p <= q
    BY ResumesType
  <1> QED BY <1>2, <1>3, FirstIsLeast

LEMMA SearchKeepsUp ==
    ASSUME ReadInv, Quiet, needRecovery, At' \in At .. Len(stream),
           \A q \in At .. At' - 1 : ~ SaneHeader(stream, q),
           ~ needRecovery' => At' + HeaderLen < Len(stream) /\ SaneHeader(stream, At')
    PROVE  KeepsUp'
  <1>1. At \in Nat /\ At' \in Nat /\ At <= At' /\ stream \in Seq(Byte) /\ stream' = stream
    BY CursorInLog DEF Follows, ReadInv, IInv, Quiet
  <1>2. Resumes(stream, At') = Resumes(stream, At)
    BY <1>1, ResumesLater
  <1>3. ASSUME NEW p, NEW o \in BOOLEAN, Heading(p, o) PROVE Heading(p, o)'
    <2>1. CASE needRecovery'
      BY <1>1, <1>2, <1>3, <2>1 DEF Heading
    <2>2. CASE ~ needRecovery'
      <3>1. Resumes(stream, At') # {} /\ First(Resumes(stream, At')) = At'
        BY <1>1, <2>2, ResumesHere
      <3>2. ~ o /\ p = At'
        BY <1>2, <1>3, <3>1 DEF Heading
      <3> QED BY <2>2, <3>2 DEF Heading
    <2> QED BY <2>1, <2>2
  <1> QED BY <1>3, QuietKeepsUp DEF Follows, ReadInv

LEMMA RecoverNothingReads ==
    ASSUME ReadInv, RecoverNothing, ~ escaped, handler' = handler, given' = given
    PROVE  KeepsUp'
  <1>1. /\ Len(Searched) \in Nat /\ ScanStart = 0 /\ needRecovery /\ InRecovery
        /\ Len(Searched) >= HeaderLen /\ IInv /\ Len(stream) \in Nat /\ At \in Nat
    BY Recovering, CursorInLog DEF Follows, RecoverNothing, ReadInv, IInv
  <1> DEFINE k == Greatest(ScanStart, ScanEnd)
  <1>2. k = Len(Searched) - HeaderLen /\ k \in 0 .. Len(Searched) - HeaderLen
    BY <1>1 DEF Greatest, ScanEnd, HeaderLen
  <1>3. /\ buffer' = Drop(k) /\ length' = length - Appended /\ fed' = fed /\ needRecovery' = needRecovery
        /\ Candidates = {} /\ UNCHANGED <<stream, state, corruptionReported, calls, escaped>>
    BY DEF RecoverNothing
  <1> HIDE DEF k, InRecovery
  <1>4. /\ At' \in At .. Len(stream) - HeaderLen
        /\ \A q \in At .. At' - 1 : ~ SaneHeader(stream, q)
    BY <1>1, <1>2, <1>3, DropMoves
  <1>5. Quiet /\ At' \in At .. Len(stream)
    BY <1>1, <1>3, <1>4 DEF Quiet, HeaderLen
  <1> QED BY <1>1, <1>3, <1>4, <1>5, SearchKeepsUp

LEMMA RecoverFoundReads ==
    ASSUME ReadInv, RecoverFound, ~ escaped, handler' = handler, given' = given
    PROVE  KeepsUp'
  <1>1. /\ TypeOK /\ Len(Searched) \in Nat /\ ScanStart = 0 /\ needRecovery /\ InRecovery
        /\ Len(Searched) >= HeaderLen /\ IInv /\ Len(stream) \in Nat /\ At \in Nat
    BY Recovering, CursorInLog DEF Follows, RecoverFound, ReadInv, IInv
  <1>2. PICK k \in Candidates : buffer' = Drop(k) /\ \A i \in Candidates : k <= i
    BY DEF RecoverFound
  <1>3. k \in 0 .. Len(Searched) - HeaderLen /\ k \in 0 .. Len(Searched)
    BY <1>1 DEF Candidates, ScanEnd, HeaderLen
  <1>4. fed' = fed /\ UNCHANGED <<stream, state, corruptionReported, calls, escaped>>
    BY DEF RecoverFound
  <1>5. SUFFICES ASSUME InSections PROVE KeepsUp'
    BY <1>4 DEF KeepsUp, InSections
  <1>6. length' = length - Appended
    BY <1>5 DEF RecoverFound, Entry, InSections, ReadingHeader, ReadingData, ReadingMagic, ReadingFlagBits,
         InvalidData
  <1>7. /\ At' \in At .. Len(stream) - HeaderLen
        /\ \A q \in At .. At' - 1 : ~ SaneHeader(stream, q)
        /\ At' + HeaderLen < Len(stream) /\ SaneHeader(stream, At')
    BY <1>1, <1>2, <1>3, <1>4, <1>6, DropMoves
  <1>8. Quiet /\ At' \in At .. Len(stream)
    BY <1>1, <1>4, <1>7 DEF Quiet, HeaderLen
  <1> QED BY <1>1, <1>7, <1>8, SearchKeepsUp

-----------------------------------------------------------------------------
(* The prologue. *)
LEMMA OpenedType ==
    ASSUME NEW s \in Seq(Byte), NEW h, Len(s) >= FileHeaderLen + FlagBitsLen
    PROVE  IsReading(Opened(s, h))
  <1> DEFINE b == FlagsOf(s)
             cbs == FlagBitsCalls(b)
             opened == [at |-> FileHeaderLen + FlagBitsSkip(b), state |-> ReadingHeader,
                        reported |-> FALSE, over |-> FALSE,
                        calls |-> CallsAt(cbs, FileHeaderLen), handler |-> Told(h, cbs, PrologueOf(s))]
  <1>1. Opened(s, h) = opened
    BY Zenon DEF Opened, FlagsOf
  <1>2. b \in Seq(Byte) /\ Len(b) = FlagBitsLen
    <2>1. FileHeaderLen \in Nat /\ FlagBitsLen \in Nat /\ FileHeaderLen + FlagBitsLen <= Len(s)
      BY LenProperties DEF FileHeaderLen, FlagBitsLen
    <2> QED BY <2>1, PieceOf DEF FlagsOf
  <1> HIDE DEF b
  <1>3. MsgLen(b) \in Nat
    <2>1. Len(b) >= HeaderLen
      BY <1>2 DEF FlagBitsLen, HeaderLen
    <2> QED BY <1>2, <2>1, HeaderBytes
  <1>4. FileHeaderLen + FlagBitsSkip(b) \in Nat /\ FileHeaderLen \in Nat
    BY <1>3 DEF FlagBitsSkip, FileHeaderLen
  <1>5. cbs \in Seq(Callbacks)
    <2>1. {"fileHeader", "error", "fatal"} \subseteq Callbacks
      BY DEF Callbacks
    <2>2. \A c \in Callbacks : <<c>> \in Seq(Callbacks)
      OBVIOUS
    <2>3. /\ (IF HasAppendedData(b) THEN <<"error">> ELSE <<>>) \in Seq(Callbacks)
          /\ (IF IsIncompatible(b) THEN <<"fatal">> ELSE <<"fileHeader">>) \in Seq(Callbacks)
          /\ <<"fileHeader">> \in Seq(Callbacks)
      BY <2>1, <2>2, EmptySeq
    <2> QED BY <2>3, ConcatProperties DEF FlagBitsCalls
  <1> HIDE DEF cbs
  <1>6. CallsAt(cbs, FileHeaderLen) \in Calls
    BY <1>4, <1>5, CallsAtType
  <1>7. /\ opened.at = FileHeaderLen + FlagBitsSkip(b) /\ opened.state = ReadingHeader
        /\ opened.reported = FALSE /\ opened.over = FALSE /\ opened.calls = CallsAt(cbs, FileHeaderLen)
    OBVIOUS
  <1> HIDE DEF opened
  <1> QED BY <1>1, <1>4, <1>6, <1>7 DEF IsReading, States

LEMMA InvalidReads == ASSUME state' = InvalidData PROVE Follows'
  BY DEF Follows, KeepsUp, Begun, InSections, Prologue, ReadingMagic, ReadingFlagBits, ReadingHeader, ReadingData,
         InvalidData

LEMMA ReadMagicReads ==
    ASSUME ReadInv, ReadMagic, Listening PROVE Follows'
  <1>1. /\ TypeOK /\ buffer = <<>> /\ buffer' = buffer /\ fed' = fed /\ state = ReadingMagic
        /\ corruptionReported' = corruptionReported
    BY DEF Follows, ReadInv, IInv, NothingBuffered, Prologue, ReadMagic
  <1>2. At = fed - length /\ fed \in Nat /\ length \in Nat /\ (length' \in Int => At' = fed - length')
    BY <1>1, CursorInLog, EmptySeq DEF At
  <1>3. calls = <<>> /\ handler = given /\ ~ corruptionReported /\ At = 0
    BY <1>1 DEF Follows, ReadInv, Begun, Prologue
  <1>4. CASE state' = InvalidData
    BY <1>4, InvalidReads
  <1>5. CASE state' # InvalidData
    <2>1. state' = ReadingFlagBits /\ length' = length - FileHeaderLen /\ calls' = calls
      BY <1>5 DEF ReadMagic
    <2>2. handler' = handler /\ given' = given
      BY <1>1, <2>1, Unheard
    <2>3. At' = FileHeaderLen
      BY <1>2, <1>3, <2>1 DEF FileHeaderLen
    <2>4. Begun'
      BY <1>1, <1>3, <2>1, <2>2, <2>3 DEF Begun, ReadingMagic, ReadingFlagBits
    <2>5. KeepsUp'
      BY <2>1 DEF KeepsUp, InSections, ReadingFlagBits, ReadingHeader, ReadingData
    <2> QED BY <2>4, <2>5 DEF Follows
  <1> QED BY <1>4, <1>5

LEMMA ReadFlagBitsReads ==
    ASSUME ReadInv, ReadFlagBits, Listening, FlagsFit(stream) PROVE Follows'
  <1>1. /\ TypeOK /\ buffer = <<>> /\ buffer' = buffer /\ fed' = fed /\ state = ReadingFlagBits
        /\ ~ needRecovery /\ corruptionReported' = corruptionReported /\ needRecovery' = needRecovery
        /\ stream' = stream
    BY DEF Follows, ReadInv, IInv, NothingBuffered, Prologue, ReadFlagBits
  <1>2. /\ At = fed - length /\ fed \in 0 .. Len(stream) /\ length \in Nat /\ Len(stream) \in Nat
        /\ length' \in Int => At' = fed - length'
    BY <1>1, CursorInLog, EmptySeq DEF At, TypeOK
  <1>3. calls = <<>> /\ handler = given /\ ~ corruptionReported /\ At = FileHeaderLen
    BY <1>1 DEF Follows, ReadInv, Begun, Prologue, ReadingFlagBits, ReadingMagic
  <1>4. SUFFICES ASSUME state' # InvalidData PROVE Follows'
    BY InvalidReads
  <1> DEFINE b == FlagsOf(stream)
             cbs == FlagBitsCalls(b)
  <1>5. length >= FlagBitsLen
    BY <1>2, <1>4 DEF ReadFlagBits, FlagBitsLen
  <1>6. Data(FlagBitsLen) = b
    BY <1>2, <1>3 DEF Data, FlagsOf
  <1>7. FlagBitsSkip(b) \in Nat /\ cbs \in Seq(Callbacks) /\ FlagBitsSkip(b) <= FlagBitsLen
    BY <1>1, <1>5, <1>6, FlagBitsType DEF FlagsFit
  <1>8. state' = ReadingHeader /\ calls' = Calling(cbs) /\ length' = Greatest(length - FlagBitsSkip(b), 0)
    BY <1>2, <1>4, <1>5, <1>6 DEF ReadFlagBits, FlagBitsLen
  <1>9. handler' = Told(handler, cbs, PrologueOf(stream)) /\ given' = given
    BY <1>1, <1>7, <1>8, Heard DEF Subject
  <1>10. calls' = CallsAt(cbs, FileHeaderLen)
    <2>1. CallsAt(cbs, FileHeaderLen) \in Calls
      BY <1>7, CallsAtType DEF FileHeaderLen
    <2>2. Calling(cbs) = <<>> \o CallsAt(cbs, FileHeaderLen)
      BY <1>3 DEF Calling, CallsAt
    <2> QED BY <1>8, <2>1, <2>2, ConcatEmptySeq DEF Calls
  <1>11. Opened(stream, given) =
           [at |-> FileHeaderLen + FlagBitsSkip(b), state |-> ReadingHeader, reported |-> FALSE, over |-> FALSE,
            calls |-> CallsAt(cbs, FileHeaderLen), handler |-> Told(given, cbs, PrologueOf(stream))]
    BY Zenon DEF Opened, FlagsOf
  <1> HIDE DEF b, cbs
  <1>12. At' = FileHeaderLen + FlagBitsSkip(b)
    BY <1>2, <1>3, <1>5, <1>7, <1>8 DEF Greatest, FlagBitsLen, FileHeaderLen
  <1>13. corruptionReported' = FALSE /\ needRecovery' = FALSE
    BY <1>1, <1>3 DEF TypeOK
  <1> PICK p : p = At'
    OBVIOUS
  <1>14. Opened(stream, given) = View(p, FALSE)'
    BY <1>3, <1>8, <1>9, <1>10, <1>11, <1>12, <1>13 DEF View
  <1>15. Heading(p, FALSE)'
    BY <1>13 DEF Heading
  <1>16. Whole(stream, Opened(stream, given))[0] = Opened(stream, given)
    BY <1>2, WholeIs
  <1>17. Len(stream) >= FileHeaderLen + FlagBitsLen
    BY <1>2, <1>3, <1>5 DEF FlagBitsLen, FileHeaderLen
  <1>18. Reached(0, p, FALSE)'
    <2>1. (Whole(stream, Opened(stream, given))[0] = View(p, FALSE))'
      BY <1>1, <1>9, <1>14, <1>16, Zenon
    <2>2. 0 \in 0 .. AtMost(stream)
      BY <1>2, AtMostIs
    <2> QED BY <1>1, <1>15, <1>17, <2>1, <2>2 DEF Reached
  <1>19. KeepsUp'
    BY <1>18 DEF KeepsUp
  <1>20. Begun'
    BY <1>8 DEF Begun, Prologue, ReadingMagic, ReadingFlagBits, ReadingHeader
  <1> QED BY <1>19, <1>20 DEF Follows

-----------------------------------------------------------------------------
(* A message that is handled is the next one of the whole log. *)
LEMMA FramesRead ==
    ASSUME ReadInv, InLoop, ~ escaped, Listening, NEW framed, Frames(framed, Takes(framed)),
           stream' = stream, fed' = fed
    PROVE  Follows'
  <1>1. TypeOK /\ state \in States /\ needRecovery = FALSE /\ state \notin Prologue
        /\ stream \in Seq(Byte) /\ Len(stream) \in Nat /\ At \in Nat /\ corruptionReported \in BOOLEAN
    BY PrologueOver, CursorInLog DEF Follows, ReadInv, IInv, InLoop, TypeOK
  <1>2. PICK m, held, rest, unread :
          /\ framed = {m} /\ AtCursor(m)
          /\ Handle(m, Takes(framed), held, rest, unread)
          /\ fed - unread - Len(rest) = At + Len(m)
    BY DEF Frames
  <1> DEFINE accepts == Accepts(handler, state, m)
             h == Handling(state, m, accepts)
  <1>3. Handle(m, accepts, held, rest, unread)
    <2>1. accepts \in BOOLEAN
      BY DEF Accepts
    <2> HIDE DEF accepts
    <2>2. Takes(framed) = accepts
      BY <1>2, <2>1 DEF Takes, accepts
    <2> QED BY <1>2, <2>2
  <1>4. /\ state' = h.state /\ h.calls \in Seq(Callbacks)
        /\ h.state = state \/ (state = ReadingHeader /\ h.state = ReadingData)
    BY <1>1, <1>3, HandlingType DEF Handle
  <1>5. Begun'
    BY <1>1, <1>4 DEF Begun, Prologue, ReadingMagic, ReadingFlagBits, ReadingHeader, ReadingData
  <1>6. SUFFICES ASSUME InSections', ~ escaped' PROVE KeepsUp'
    BY <1>5 DEF KeepsUp, Follows
  <1>7. InSections
    BY <1>4, <1>6 DEF InSections
  <1>8. PICK n, p, o : Reached(n, p, o)
    BY <1>7 DEF Follows, ReadInv, KeepsUp
  <1>9. p = At /\ o = FALSE
    BY <1>1, <1>8 DEF Reached, Heading
  <1> DEFINE F == Whole(stream, Opened(stream, given))
             r == View(At, FALSE)
  <1>10. F[n] = r /\ n \in 0 .. AtMost(stream) /\ Len(stream) >= FileHeaderLen + FlagBitsLen
    BY <1>8, <1>9 DEF Reached
  <1>11. /\ r.at = At /\ r.state = state /\ r.reported = corruptionReported /\ r.over = FALSE
         /\ r.calls = calls /\ r.handler = handler
    BY DEF View
  <1>12. Complete(stream, At) /\ MessageIn(stream, At) = m
    <2>1. /\ Len(stream) - At >= HeaderLen /\ Len(stream) - At >= LengthAt(stream, At)
          /\ m = SubSeq(stream, At + 1, At + LengthAt(stream, At))
      BY <1>2 DEF AtCursor, LengthAt
    <2>2. LengthAt(stream, At) \in Nat
      <3>1. At + HeaderLen <= Len(stream) /\ HeaderLen \in Nat
        BY <1>1, <2>1 DEF HeaderLen
      <3>2. /\ SubSeq(stream, At + 1, At + HeaderLen) \in Seq(Byte)
            /\ Len(SubSeq(stream, At + 1, At + HeaderLen)) = HeaderLen
        BY <1>1, <3>1, PieceOf
      <3>3. HeaderLen >= HeaderLen
        BY DEF HeaderLen
      <3> QED BY <3>2, <3>3, HeaderBytes DEF LengthAt
    <2> QED BY <1>1, <2>1, <2>2 DEF Complete, MessageIn, HeaderLen
  <1>13. Len(m) \in Nat /\ At + Len(m) \in Nat
    <2>1. Len(m) \in Nat
      BY <1>1, <1>12, MessageType
    <2> QED BY <1>1, <2>1
  <1> HIDE DEF accepts, r
  <1>14. Onward(stream, r) = Past(stream, r)
    BY <1>11, <1>12 DEF Onward, Ends
  <1>15. n + 1 \in 0 .. AtMost(stream) /\ F[n + 1] = Past(stream, r)
    <2>1. F[n].at >= HeaderLen * n /\ n \in Nat
      <3>1. IsReading(Opened(stream, given))
        BY <1>1, <1>10, OpenedType
      <3>2. Ends(stream, F[n]) \/ F[n].at >= HeaderLen * n
        BY <1>1, <1>10, <3>1, ReadingsGo
      <3>3. ~ Ends(stream, F[n])
        BY <1>10, <1>11, <1>12 DEF Ends
      <3> QED BY <1>10, <3>2, <3>3
    <2>2. At + HeaderLen <= Len(stream) /\ At >= HeaderLen * n
      BY <1>10, <1>11, <1>12, <2>1 DEF Complete
    <2>3. n + 1 \in 1 .. AtMost(stream) /\ (n + 1) - 1 = n
      BY <1>1, <2>1, <2>2, AtMostIs DEF HeaderLen
    <2>4. F[n + 1] = Onward(stream, F[n])
      <3>1. \A k \in 1 .. AtMost(stream) : F[k] = Onward(stream, F[k - 1])
        BY <1>1, WholeIs
      <3> HIDE DEF F
      <3> DEFINE k == n + 1
      <3>2. k \in 1 .. AtMost(stream) /\ k - 1 = n
        BY <2>3
      <3> HIDE DEF k
      <3>3. F[k] = Onward(stream, F[n])
        BY <3>1, <3>2
      <3> QED BY <3>3 DEF k
    <2> QED BY <1>10, <1>14, <2>3, <2>4
  <1> DEFINE more == IF h.outcome = Rejected /\ ~ corruptionReported THEN <<"error">> ELSE <<>>
             cbs  == h.calls \o more
             next == Resumes(stream, At + Len(m))
             end  == IF h.outcome = Rejected /\ next # {} THEN First(next) ELSE At + Len(m)
             over == h.outcome = Foreign \/ (h.outcome = Rejected /\ next = {})
             rep  == corruptionReported \/ h.outcome = Rejected
  <1>16. Past(stream, r) = [at |-> end, state |-> h.state, reported |-> rep, over |-> over,
                            calls |-> calls \o CallsAt(cbs, At), handler |-> Told(handler, cbs, m)]
    BY <1>11, <1>12, Zenon DEF Past, Behind, accepts
  <1>17. more \in Seq(Callbacks)
    BY ErrorUnlessType DEF ErrorUnless
  <1> HIDE DEF h, F
  <1>18. /\ h.outcome \in {Parsed, Rejected} /\ length' = unread /\ buffer' = rest
         /\ needRecovery' = (h.outcome = Rejected) /\ corruptionReported' = rep
         /\ calls' = Calling(cbs)
    <2>1. Parsed # Rejected /\ Parsed # Foreign /\ Rejected # Foreign
      BY DEF Parsed, Rejected, Foreign
    <2>2. h.outcome \in {Parsed, Rejected, Foreign} /\ h.outcome # Foreign
      BY <1>3, <1>6, <2>1 DEF Handle, h
    <2>3. CASE h.outcome = Parsed
      <3>1. /\ calls' = Calling(h.calls) /\ length' = unread /\ buffer' = rest
            /\ needRecovery' = needRecovery /\ corruptionReported' = corruptionReported
        BY <1>3, <2>1, <2>3 DEF Handle, h
      <3>2. cbs = h.calls
        BY <1>4, <2>1, <2>3, ConcatEmptySeq DEF h
      <3> HIDE DEF cbs
      <3> QED BY <1>1, <2>1, <2>3, <3>1, <3>2
    <2>4. CASE h.outcome = Rejected
      <3>1. /\ calls' = Calling(h.calls \o CorruptionCalls) /\ length' = unread /\ buffer' = rest
            /\ needRecovery' = TRUE /\ corruptionReported' = TRUE
        BY <1>3, <2>1, <2>4 DEF Handle, h
      <3>2. CorruptionCalls = more
        BY <1>1, <2>4 DEF CorruptionCalls
      <3> QED BY <1>1, <2>1, <2>4, <3>1, <3>2
    <2> QED BY <2>2, <2>3, <2>4
  <1>19. cbs \in Seq(Callbacks)
    BY <1>4, <1>17, ConcatProperties DEF h
  <1> HIDE DEF cbs
  <1>20. calls' = calls \o CallsAt(cbs, At)
    BY <1>18 DEF Calling, CallsAt
  <1>21. handler' = Told(handler, cbs, m) /\ given' = given
    <2>1. Subject = m
      BY <1>1, <1>12 DEF Subject, Prologue
    <2> QED BY <1>1, <1>18, <1>19, <2>1, Heard
  <1>22. At' = At + Len(m)
    BY <1>2, <1>18 DEF At
  <1>23. over = (h.outcome = Rejected /\ next = {}) /\ over \in BOOLEAN
    BY <1>18 DEF Parsed, Rejected, Foreign
  <1>24. PICK q, v : q = end /\ v = over
    OBVIOUS
  <1>25. Heading(q, v)'
    <2>1. Resumes(stream, At)' = next
      BY <1>1, <1>22
    <2> HIDE DEF next
    <2> QED BY <1>18, <1>22, <1>23, <1>24, <2>1 DEF Heading, Parsed, Rejected
  <1> HIDE DEF end, over, rep
  <1>26. Past(stream, r) = View(q, v)'
    BY <1>4, <1>16, <1>18, <1>20, <1>21, <1>24 DEF View, h
  <1>27. Reached(n + 1, q, v)'
    BY <1>10, <1>15, <1>21, <1>23, <1>24, <1>25, <1>26 DEF Reached, F
  <1> QED BY <1>27 DEF KeepsUp

-----------------------------------------------------------------------------
LEMMA ReadingSteps ==
    ASSUME ReadInv, ReadingNext, FlagsFit(stream)
    PROVE  Next /\ ReadInv'
  <1>1. IInv /\ TypeOK /\ LastSearched /\ Listening /\ ReadingStep
    BY DEF Follows, ReadInv, IInv, ReadingNext
  <1>2. \A messages : Takes(messages) \in HandlerVerdicts
    BY BothVerdicts DEF Takes
  <1>3. Next
    BY <1>1, <1>2 DEF ReadingStep, Next, Step
  <1>4. IInv' /\ LastSearched'
    BY <1>1, <1>3, NextIInv, NextSearched
  <1> SUFFICES Follows'
    BY <1>3, <1>4 DEF ReadInv
  <1>5. ASSUME calls' = calls, SameView PROVE Follows'
    BY <1>1, <1>5, Unheard, SameViewKeeps
  <1>6. CASE ReadMagic \/ ReadFlagBits
    BY <1>1, <1>6, ReadMagicReads, ReadFlagBitsReads
  <1>7. CASE LeaveLoop \/ LeaveRecovery
    <2>1. SameView /\ calls' = calls
      BY <1>7 DEF LeaveLoop, LeaveRecovery, SameView, At
    <2> QED BY <1>5, <2>1
  <1>8. CASE ExtendPartial
    <2>1. Added \in 0 .. length /\ Len(buffer') = Len(buffer) + Added
      BY <1>1, <1>8, FilledType DEF ExtendPartial
    <2>2. SameView /\ calls' = calls
      BY <1>1, <1>8, <2>1, MovingStutters DEF ExtendPartial
    <2> QED BY <1>5, <2>2
  <1>9. CASE StartPartial
    <2>1. Appended \in 0 .. length /\ buffer = <<>>
      BY <1>1, <1>9, SearchedType DEF IInv, StartPartial
    <2>2. Len(buffer') = Len(buffer) + Appended
      BY <1>1, <1>9, <2>1, DataBytes, EmptySeq DEF StartPartial
    <2>3. SameView /\ calls' = calls
      BY <1>1, <1>9, <2>1, <2>2, MovingStutters DEF StartPartial
    <2> QED BY <1>5, <2>3
  <1>10. CASE RecoverShort
    <2>1. Appended \in 0 .. length /\ Len(buffer') = Len(buffer) + Appended
      BY <1>1, <1>10, Recovering DEF RecoverShort
    <2>2. SameView /\ calls' = calls
      BY <1>1, <1>10, <2>1, MovingStutters DEF RecoverShort
    <2> QED BY <1>5, <2>2
  <1>11. ASSUME NEW n \in ChunkSizes, ReadChunk(n) PROVE Follows'
    <2>1. /\ length = 0 /\ n \in Nat /\ buffer' = buffer /\ fed' = fed + n /\ calls' = calls
          /\ UNCHANGED <<stream, state, needRecovery, corruptionReported, escaped>>
      BY <1>1, <1>11, ChunksAssumption DEF IInv, IdleConsumed, ReadChunk
    <2>2. CASE Entry(state) # "idle"
      <3>1. At' = At
        <4>1. fed \in Nat /\ Len(buffer) \in Nat /\ length' = n
          BY <1>1, <1>11, <2>2, CursorInLog DEF ReadChunk
        <4> QED BY <2>1, <4>1 DEF At
      <3> QED BY <1>5, <2>1, <3>1 DEF SameView
    <2>3. CASE Entry(state) = "idle"
      <3>1. state' = InvalidData
        BY <1>1, <2>1, <2>3 DEF Entry, TypeOK, States
      <3> QED BY <3>1, InvalidReads
    <2> QED BY <2>2, <2>3
  <1>12. ASSUME state \notin Prologue, state' = state PROVE Begun'
    BY <1>12 DEF Begun
  <1>13. ASSUME escaped' = TRUE PROVE KeepsUp'
    BY <1>13 DEF KeepsUp
  <1>14. CASE RecoverNothing \/ RecoverFound
    <2>1. calls' = calls /\ state' = state /\ escaped' = escaped /\ state \notin Prologue
      BY <1>1, <1>14, Recovering DEF RecoverNothing, RecoverFound
    <2>2. handler' = handler /\ given' = given
      BY <1>1, <2>1, Unheard
    <2>3. CASE escaped
      BY <1>1, <1>12, <1>13, <2>1, <2>3 DEF Follows, TypeOK
    <2>4. CASE ~ escaped
      BY <1>12, <1>14, <2>1, <2>2, <2>4, RecoverNothingReads, RecoverFoundReads DEF Follows
    <2> QED BY <2>3, <2>4
  <1>15. CASE CompletePartial(Takes(FramedInBuffer)) \/ TakeWhole(Takes(FramedInChunk))
    <2>1. InLoop /\ stream' = stream /\ fed' = fed
      BY <1>15 DEF CompletePartial, TakeWhole
    <2>2. CASE escaped
      <3>1. PICK m, accepts, held, rest, unread : Handle(m, accepts, held, rest, unread)
        BY <1>15 DEF CompletePartial, TakeWhole
      <3>2. escaped' = TRUE /\ state' = Handling(state, m, accepts).state
        BY <1>1, <2>2, <3>1 DEF Handle, TypeOK
      <3>3. state' # ReadingMagic /\ state' # ReadingFlagBits
        <4>1. state \in States /\ state \notin Prologue
          BY <1>1, <2>1, PrologueOver DEF TypeOK
        <4> QED BY <3>2, <4>1, HandlingType
                DEF Prologue, ReadingMagic, ReadingFlagBits, ReadingHeader, ReadingData
      <3> QED BY <1>13, <3>2, <3>3 DEF Follows, Begun, Prologue
    <2>3. CASE ~ escaped
      <3>1. Frames(FramedInBuffer, Takes(FramedInBuffer)) \/ Frames(FramedInChunk, Takes(FramedInChunk))
        BY <1>1, <1>15, <2>3, CompletePartialFrames, TakeWholeFrames
      <3> QED BY <1>1, <2>1, <2>3, <3>1, FramesRead
    <2> QED BY <2>2, <2>3
  <1> QED BY <1>1, <1>6, <1>7, <1>8, <1>9, <1>10, <1>11, <1>14, <1>15 DEF ReadingStep

LEMMA ReadingStutters == ASSUME ReadInv, UNCHANGED readingVars PROVE ReadInv'
  <1>1. UNCHANGED vars /\ handler' = handler /\ given' = given
    BY DEF readingVars
  <1>2. IInv' /\ LastSearched' /\ SameView
    BY <1>1, NextIInv, NextSearched DEF Follows, ReadInv, vars, SameView, At
  <1> QED BY <1>1, <1>2, SameViewKeeps DEF Follows, ReadInv

LEMMA ReadingBegins == ReadingInit => ReadInv
  <1> SUFFICES ASSUME ReadingInit PROVE ReadInv
    OBVIOUS
  <1>1. Init /\ handler = given /\ IInv
    BY InitIInv DEF ReadingInit
  <1>2. At = 0
    <2>1. Len(buffer) = 0 /\ fed = 0 /\ length = 0
      BY <1>1, EmptySeq DEF Init
    <2> QED BY <2>1 DEF At
  <1>3. LastSearched /\ Begun
    BY <1>1, <1>2 DEF Init, LastSearched, Begun
  <1>4. KeepsUp
    BY <1>1 DEF Init, KeepsUp, InSections, ReadingMagic, ReadingHeader, ReadingData
  <1> QED BY <1>1, <1>3, <1>4 DEF Follows, ReadInv

LEMMA ReadInvariant == ASSUME \A s \in Streams : FlagsFit(s) PROVE Reading => []ReadInv
  <1>1. ReadingInit => ReadInv
    BY ReadingBegins
  <1>2. ReadInv /\ [ReadingNext]_readingVars => ReadInv'
    <2>1. ReadInv => FlagsFit(stream)
      BY DEF Follows, ReadInv, IInv, TypeOK
    <2> QED BY <2>1, ReadingSteps, ReadingStutters
  <1> QED BY <1>1, <1>2, PTL DEF Reading

(* However the log is cut, the callbacks are a prefix of those the messages *)
(* of the whole log lead to: reader.cpp finds the same messages across the  *)
(* ends of the chunks and gives up and goes on at the same places, and what *)
(* the handler refuses on the way it refuses there too.                     *)
THEOREM CutUnseen ==
    ASSUME \A s \in Streams : FlagsFit(s)
    PROVE  Reading => []ChunkingInvisible
  <1>1. ReadInv => ChunkingInvisible
    <2> SUFFICES ASSUME ReadInv, InSections, ~ escaped PROVE IsPrefix(calls, WholeLog.calls)
      BY DEF ChunkingInvisible
    <2>1. stream \in Seq(Byte) /\ Len(stream) \in Nat
      BY CursorInLog DEF Follows, ReadInv, IInv
    <2>2. PICK n, p, o : Reached(n, p, o)
      BY DEF Follows, ReadInv, KeepsUp
    <2> DEFINE r == Opened(stream, given)
    <2>3. n \in 0 .. AtMost(stream) /\ Whole(stream, r)[n].calls = calls /\ IsReading(r)
      BY <2>1, <2>2, OpenedType DEF Reached, View
    <2>4. WholeLog = ReadFrom(stream, r)
      BY <2>1, SubSeqFull DEF WholeLog, ReadLog, ReadUpTo
    <2> HIDE DEF r
    <2>5. Begins(calls, WholeLog.calls)
      BY <2>1, <2>3, <2>4, ReadingsEnd
    <2> QED BY <2>5, BeginsIsPrefix
  <1> QED BY <1>1, ReadInvariant, PTL

(* Once the log is fed to its end and no message waits in the buffer, all   *)
(* the callbacks of the whole log were made, and the handler is what they   *)
(* make of it.                                                              *)
THEOREM AllIsRead ==
    ASSUME \A s \in Streams : FlagsFit(s)
    PROVE  Reading => []NothingMissed
  <1>1. ReadInv => NothingMissed
    <2> SUFFICES ASSUME ReadInv, AllRead PROVE calls = WholeLog.calls /\ handler = WholeLog.handler
      BY DEF NothingMissed
    <2>1. /\ stream \in Seq(Byte) /\ Len(stream) \in Nat /\ At \in Nat /\ Len(buffer) \in Nat
          /\ length = 0 /\ fed = Len(stream) /\ InSections /\ ~ escaped /\ ~ MessageWaits
          /\ BufferIsContiguous /\ At <= Len(stream)
      BY CursorInLog DEF Follows, ReadInv, IInv, IdleConsumed, AllRead
    <2>2. PICK n, p, o : Reached(n, p, o)
      BY <2>1 DEF Follows, ReadInv, KeepsUp
    <2> DEFINE r == Opened(stream, given)
               F == Whole(stream, r)
    <2>3. /\ n \in 0 .. AtMost(stream) /\ IsReading(r) /\ F[n].calls = calls /\ F[n].handler = handler
          /\ F[n].at = p /\ F[n].over = o
      BY <2>1, <2>2, OpenedType DEF Reached, View
    <2>4. WholeLog = ReadFrom(stream, r)
      BY <2>1, SubSeqFull DEF WholeLog, ReadLog, ReadUpTo
    <2>5. Heading(p, o)
      BY <2>2 DEF Reached
    <2>6. At = Len(stream) - Len(buffer)
      BY <2>1 DEF At
    <2> HIDE DEF r
    <2>7. CASE needRecovery
      <3>1. Len(buffer) <= HeaderLen
        BY <2>1, <2>7 DEF Follows, ReadInv, LastSearched
      <3>2. Resumes(stream, At) = {}
        BY <2>1, <2>6, <3>1 DEF Resumes, HeaderLen
      <3>3. Ends(stream, F[n])
        BY <2>3, <2>5, <2>7, <3>2 DEF Heading, Ends
      <3> QED BY <2>1, <2>3, <2>4, <3>3, ReadingsEnd
    <2>8. CASE ~ needRecovery
      <3>1. p = At
        BY <2>5, <2>8 DEF Heading
      <3>2. ~ Complete(stream, At)
        <4> SUFFICES ASSUME Complete(stream, At) PROVE FALSE
          OBVIOUS
        <4>1. Len(buffer) >= HeaderLen /\ LengthAt(stream, At) \in Nat /\ Len(buffer) >= LengthAt(stream, At)
          BY <2>1, <2>6, MessageType DEF Complete, HeaderLen
        <4>2. buffer = SubSeq(stream, At + 1, Len(stream))
          BY <2>1 DEF BufferIsContiguous, Framing, InSections, ReadingHeader, ReadingData, InvalidData
        <4> DEFINE front == SubSeq(stream, At + 1, At + HeaderLen)
        <4>3. front = SubSeq(buffer, 1, HeaderLen)
          <5>1. /\ At + 1 \in 1 .. Len(stream) /\ Len(stream) \in 1 .. Len(stream)
                /\ 1 \in 1 .. Len(stream) - (At + 1) + 1
                /\ HeaderLen \in 1 .. Len(stream) - (At + 1) + 1
            BY <2>1, <2>6, <4>1 DEF HeaderLen
          <5>2. SubSeq(SubSeq(stream, At + 1, Len(stream)), 1, HeaderLen)
                  = SubSeq(stream, (At + 1) + 1 - 1, (At + 1) + HeaderLen - 1)
            BY <2>1, <5>1, SubSeqOfSubSeq
          <5>3. (At + 1) + 1 - 1 = At + 1 /\ (At + 1) + HeaderLen - 1 = At + HeaderLen
            BY <2>1 DEF HeaderLen
          <5> QED BY <4>2, <5>2, <5>3
        <4>4. buffer \in Seq(Byte)
          BY DEF Follows, ReadInv, IInv, TypeOK
        <4>5. front[1] = buffer[1] /\ front[2] = buffer[2]
          BY <4>1, <4>3, <4>4, FrontOf
        <4>6. MsgLen(buffer) = LengthAt(stream, At)
          BY <4>5 DEF MsgLen, MsgSize, LengthAt
        <4> QED BY <2>1, <4>1, <4>6 DEF MessageWaits
      <3>3. Ends(stream, F[n])
        BY <2>3, <3>1, <3>2 DEF Ends
      <3> QED BY <2>1, <2>3, <2>4, <3>3, ReadingsEnd
    <2> QED BY <2>7, <2>8
  <1> QED BY <1>1, ReadInvariant, PTL

-----------------------------------------------------------------------------
(* What a handler has been told is what its callbacks did, one after the    *)
(* other.                                                                   *)
LEMMA MaxIs ==
    ASSUME NEW S \in SUBSET Int, NEW p \in S, \A q \in S : p >= q
    PROVE  Max(S) = p
  <1>1. \A x \in S : (\A j \in S : x >= j) => x = p
    OBVIOUS
  <1>2. Max(S) \in S /\ \A j \in S : Max(S) >= j
    BY Zenon DEF Max
  <1>. QED BY <1>1, <1>2

Telling(g, h, cbs, m, k) ==
    [s \in SUBSET (1 .. k) |-> IF s = {} THEN h ELSE After(g[s \ {Max(s)}], cbs[Max(s)], m)]

LEMMA TellingExists ==
    ASSUME NEW h, NEW cbs, NEW m, NEW n \in Nat
    PROVE  \E g : g = Telling(g, h, cbs, m, n)
  <1> DEFINE S == {k \in Nat : \E g : g = Telling(g, h, cbs, m, k)}
  <1>1. 0 \in S
    <2> DEFINE g == [s \in {{}} |-> h]
    <2>1. SUBSET (1 .. 0) = {{}}
      OBVIOUS
    <2>2. g = Telling(g, h, cbs, m, 0)
      BY <2>1 DEF Telling
    <2> QED BY <2>2
  <1>2. ASSUME NEW k \in Nat, k \in S PROVE k + 1 \in S
    <2>1. PICK g : g = Telling(g, h, cbs, m, k)
      BY <1>2
    <2> DEFINE step(f, s) == IF s = {} THEN h ELSE After(f[s \ {Max(s)}], cbs[Max(s)], m)
               G == [s \in SUBSET (1 .. k + 1) |-> IF k + 1 \in s THEN After(g[s \ {k + 1}], cbs[k + 1], m)
                                                                  ELSE g[s]]
    <2>2. \A s \in SUBSET (1 .. k) : k + 1 \notin s /\ s \in SUBSET (1 .. k + 1)
      BY <1>2
    <2>3. \A s \in SUBSET (1 .. k) : G[s] = g[s]
      BY <2>2
    <2>4. \A s \in SUBSET (1 .. k) : g[s] = step(g, s)
      BY <2>1 DEF Telling
    <2>5. ASSUME NEW s \in SUBSET (1 .. k + 1) PROVE G[s] = step(G, s)
      <3>1. CASE k + 1 \in s
        <4>1. Max(s) = k + 1
          <5>1. \A q \in s : k + 1 >= q
            BY <2>5
          <5>2. s \in SUBSET Int
            OBVIOUS
          <5> QED BY <3>1, <5>1, <5>2, MaxIs
        <4>2. s \ {k + 1} \in SUBSET (1 .. k) /\ s # {}
          BY <3>1
        <4>3. G[s] = After(g[s \ {k + 1}], cbs[k + 1], m)
          BY <3>1
        <4>4. G[s \ {k + 1}] = g[s \ {k + 1}]
          BY <2>3, <4>2
        <4> HIDE DEF G
        <4> QED BY <4>1, <4>2, <4>3, <4>4
      <3>2. CASE k + 1 \notin s
        <4>1. s \in SUBSET (1 .. k) /\ s \ {Max(s)} \in SUBSET (1 .. k)
          <5>1. ASSUME NEW x \in s PROVE x \in 1 .. k
            <6>1. x \in 1 .. k + 1 /\ x # k + 1
              BY <3>2
            <6> QED BY <6>1
          <5> QED BY <5>1
        <4>2. G[s] = g[s] /\ G[s \ {Max(s)}] = g[s \ {Max(s)}]
          BY <2>3, <4>1
        <4> HIDE DEF G
        <4> QED BY <2>4, <4>1, <4>2
      <3> QED BY <3>1, <3>2
    <2>6. G = [s \in SUBSET (1 .. k + 1) |-> G[s]]
      OBVIOUS
    <2> HIDE DEF G
    <2>7. G = Telling(G, h, cbs, m, k + 1)
      BY <2>5, <2>6, Zenon DEF Telling
    <2> QED BY <2>7
  <1>3. S = Nat
    <2>1. S \in SUBSET Nat
      OBVIOUS
    <2> HIDE DEF S
    <2> QED BY <1>1, <1>2, <2>1, NatSetInduction
  <1> QED BY <1>3

(* The containers T that the calls cbs make of h, one after the other. *)
Turns(T, h, cbs, m) ==
    /\ T[0] = h
    /\ \A k \in 1 .. Len(cbs) : T[k] = After(T[k - 1], cbs[k], m)
    /\ Told(h, cbs, m) = T[Len(cbs)]

LEMMA ToldInTurn ==
    ASSUME NEW h, NEW C, NEW cbs \in Seq(C), NEW m
    PROVE  \E T : Turns(T, h, cbs, m)
  <1> DEFINE n == Len(cbs)
             u == CHOOSE g : g = Telling(g, h, cbs, m, n)
             T == [k \in 0 .. n |-> u[1 .. k]]
  <1>1. n \in Nat /\ DOMAIN cbs = 1 .. n
    BY LenProperties
  <1>2. u = Telling(u, h, cbs, m, n)
    BY <1>1, TellingExists, Zenon
  <1>3. Told(h, cbs, m) = u[1 .. n]
    <2> HIDE DEF n
    <2>1. Told(h, cbs, m) = (CHOOSE g : g = Telling(g, h, cbs, m, n))[1 .. n]
      BY <1>1 DEF Told, FoldLeft, MapThenFoldSet, Telling
    <2> QED BY <2>1
  <1> HIDE DEF u, n
  <1>4. \A s \in SUBSET (1 .. n) :
          u[s] = IF s = {} THEN h ELSE After(u[s \ {Max(s)}], cbs[Max(s)], m)
    BY <1>2 DEF Telling
  <1>5. T[0] = h
    <2>1. 1 .. 0 = {} /\ {} \in SUBSET (1 .. n) /\ 0 \in 0 .. n
      BY <1>1
    <2>2. u[{}] = h
      BY <1>4, <2>1
    <2>3. T[0] = u[1 .. 0]
      BY <2>1
    <2> HIDE DEF T
    <2> QED BY <2>1, <2>2, <2>3
  <1>6. ASSUME NEW k \in 1 .. n PROVE T[k] = After(T[k - 1], cbs[k], m)
    <2>1. (1 .. k) \ {k} = 1 .. k - 1 /\ 1 .. k # {} /\ 1 .. k \in SUBSET (1 .. n) /\ k - 1 \in 0 .. n /\ k \in 0 .. n
      <3>1. \A x : x \in (1 .. k) \ {k} <=> x \in 1 .. k - 1
        BY <1>1
      <3>2. (1 .. k) \ {k} = 1 .. k - 1
        BY <3>1
      <3>3. k \in 1 .. k /\ k - 1 \in 0 .. n /\ k \in 0 .. n /\ \A x \in 1 .. k : x \in 1 .. n
        BY <1>1
      <3> QED BY <3>2, <3>3
    <2>2. Max(1 .. k) = k
      <3>1. \A q \in 1 .. k : k >= q
        BY <1>1
      <3>2. 1 .. k \in SUBSET Int /\ k \in 1 .. k
        BY <1>1
      <3> QED BY <3>1, <3>2, MaxIs
    <2>3. u[1 .. k] = After(u[1 .. k - 1], cbs[k], m)
      BY <1>4, <2>1, <2>2
    <2> QED BY <2>1, <2>3
  <1>7. T[n] = Told(h, cbs, m)
    BY <1>1, <1>3
  <1> HIDE DEF T
  <1>8. Turns(T, h, cbs, m)
    BY <1>5, <1>6, <1>7 DEF n, Turns
  <1> QED BY <1>8

-----------------------------------------------------------------------------
(* A container that keeps the header only, and what each callback may       *)
(* change of it.                                                            *)
StoreFields ==
    {"kind", "config", "headerComplete", "hadFatalError", "errors", "fileHeader", "info", "multi",
     "formats", "initialParameters", "defaultParameters", "changedParameters", "subscriptions",
     "logging", "dropouts"}

Store(h) ==
    /\ h = [f \in StoreFields |-> h[f]]
    /\ h["kind"] = "DataContainer" /\ h["config"] = "Header"

StillChanging == {"headerComplete", "errors", "defaultParameters"}

Alike(g, h) == \A f \in StoreFields \ StillChanging : g[f] = h[f]

HeaderStore(h) == Store(h) /\ h["headerComplete"] = FALSE
FullStore(h)   == Store(h) /\ h["headerComplete"] = TRUE

HeaderCalls == HeaderOnly \union AnyTime \union {"fileHeader", "error", "fatal"}
DataCalls   == DataOnly \union AnyTime \union {"error"}

LEMMA StoreWith ==
    ASSUME NEW h, Store(h), NEW f \in StoreFields, NEW x
    PROVE  /\ [h EXCEPT ![f] = x] = [e \in StoreFields |-> [h EXCEPT ![f] = x][e]]
           /\ \A e \in StoreFields : [h EXCEPT ![f] = x][e] = IF e = f THEN x ELSE h[e]
  <1>1. DOMAIN h = StoreFields
    BY Zenon DEF Store
  <1> QED BY <1>1

LEMMA HeaderStoreWith ==
    ASSUME NEW h, HeaderStore(h), NEW f \in StoreFields \ {"kind", "config", "headerComplete"}, NEW x
    PROVE  HeaderStore([h EXCEPT ![f] = x])
  <1> DEFINE g == [h EXCEPT ![f] = x]
  <1>1. g = [e \in StoreFields |-> g[e]] /\ \A e \in StoreFields : g[e] = IF e = f THEN x ELSE h[e]
    BY StoreWith DEF HeaderStore
  <1>2. {"kind", "config", "headerComplete"} \subseteq StoreFields
    BY DEF StoreFields
  <1> HIDE DEF g
  <1>3. g["kind"] = h["kind"] /\ g["config"] = h["config"] /\ g["headerComplete"] = h["headerComplete"]
    BY <1>1, <1>2
  <1>4. HeaderStore(g)
    BY <1>1, <1>3 DEF HeaderStore, Store
  <1> QED BY <1>4 DEF g

LEMMA FullStoreWith ==
    ASSUME NEW h, FullStore(h), NEW f \in StillChanging \ {"headerComplete"}, NEW x
    PROVE  FullStore([h EXCEPT ![f] = x]) /\ Alike([h EXCEPT ![f] = x], h)
  <1> DEFINE g == [h EXCEPT ![f] = x]
  <1>1. f \in StoreFields
    BY DEF StoreFields, StillChanging
  <1>2. g = [e \in StoreFields |-> g[e]] /\ \A e \in StoreFields : g[e] = IF e = f THEN x ELSE h[e]
    BY <1>1, StoreWith DEF FullStore
  <1>3. {"kind", "config", "headerComplete"} \subseteq StoreFields /\ f \notin {"kind", "config", "headerComplete"}
    BY DEF StoreFields, StillChanging
  <1> HIDE DEF g
  <1>4. g["kind"] = h["kind"] /\ g["config"] = h["config"] /\ g["headerComplete"] = h["headerComplete"]
    BY <1>2, <1>3
  <1>5. FullStore(g) /\ Alike(g, h)
    BY <1>2, <1>4 DEF FullStore, Store, Alike
  <1> QED BY <1>5 DEF g

LEMMA HeaderCallKeeps ==
    ASSUME NEW h, HeaderStore(h), NEW cb \in HeaderCalls, NEW m,
           cb = "messageInfo" => MsgType(m) \in {INFO, INFO_MULTIPLE}
    PROVE  HeaderStore(After(h, cb, m))
  <1>1. h.kind = "DataContainer" /\ h.headerComplete = FALSE
    BY DEF HeaderStore, Store
  <1>2. ~ Ignores(h, cb)
    BY <1>1 DEF Ignores, HeaderCalls, HeaderOnly, AnyTime
  <1>3. After(h, cb, m) = Stored(h, cb, m)
    BY <1>1 DEF After
  <1> DEFINE ok(f) == \A x : HeaderStore([h EXCEPT ![f] = x])
  <1>4. /\ ok("errors") /\ ok("hadFatalError") /\ ok("fileHeader") /\ ok("info") /\ ok("multi") /\ ok("formats")
        /\ ok("initialParameters") /\ ok("defaultParameters")
    BY HeaderStoreWith DEF StoreFields
  <1> HIDE DEF ok
  <1>6. CASE Refuses(h, cb, m)
    <2> DEFINE x == WithList(h.multi, NameOf(FieldOf(m)), <<>>)
    <2>1. Stored(h, cb, m) = IF Continues(cb, m) THEN [h EXCEPT !.multi = x] ELSE h
      BY <1>2, <1>6, Zenon DEF Stored
    <2> HIDE DEF x
    <2>2. HeaderStore([h EXCEPT !.multi = x])
      BY <1>4 DEF ok
    <2> QED BY <1>3, <2>1, <2>2
  <1>7. CASE ~ Refuses(h, cb, m)
    <2>1. After(h, cb, m) = Kept(h, cb, m)
      BY <1>2, <1>3, <1>7, Zenon DEF Stored
    <2>2. CASE cb = "error"
      <3> DEFINE x == h.errors + 1
      <3>1. Kept(h, cb, m) = [h EXCEPT !.errors = x]
        BY <2>2 DEF Kept
      <3> HIDE DEF x
      <3>2. HeaderStore([h EXCEPT !.errors = x])
        BY <1>4 DEF ok
      <3> QED BY <2>1, <3>1, <3>2
    <2>3. CASE cb = "fatal"
      <3>1. Kept(h, cb, m) = [h EXCEPT !.errors = @ + 1, !.hadFatalError = TRUE]
        BY <2>3 DEF Kept
      <3> DEFINE g == [h EXCEPT !.errors = @ + 1]
      <3>2. HeaderStore(g)
        BY <1>4 DEF ok
      <3>3. Kept(h, cb, m) = [g EXCEPT !.hadFatalError = TRUE]
        BY <3>1
      <3> HIDE DEF g
      <3>4. HeaderStore([g EXCEPT !["hadFatalError"] = TRUE])
        BY <3>2, HeaderStoreWith DEF StoreFields
      <3> QED BY <2>1, <3>3, <3>4
    <2>4. CASE cb = "fileHeader"
      <3>1. Kept(h, cb, m) = [h EXCEPT !.fileHeader = m]
        BY <2>4 DEF Kept
      <3>2. HeaderStore([h EXCEPT !.fileHeader = m])
        BY <1>4 DEF ok
      <3> QED BY <2>1, <3>1, <3>2
    <2>5. CASE cb = "messageFormat"
      <3> DEFINE x == Inserted(h.formats, FormatName(m), FieldsOf(m))
      <3>1. Kept(h, cb, m) = [h EXCEPT !.formats = x]
        BY <2>5 DEF Kept
      <3> HIDE DEF x
      <3>2. HeaderStore([h EXCEPT !.formats = x])
        BY <1>4 DEF ok
      <3> QED BY <2>1, <3>1, <3>2
    <2>6. CASE cb = "messageInfo" /\ MsgType(m) = INFO_MULTIPLE
      <3>1. Kept(h, cb, m) = KeptMulti(h, m)
        <4>1. INFO # INFO_MULTIPLE
          BY DEF INFO, INFO_MULTIPLE
        <4> QED BY <2>6, <4>1 DEF Kept
      <3>2. PICK x : KeptMulti(h, m) = [h EXCEPT !.multi = x]
        BY DEF KeptMulti
      <3>3. HeaderStore([h EXCEPT !.multi = x])
        BY <1>4 DEF ok
      <3> QED BY <2>1, <3>1, <3>2, <3>3
    <2>7. CASE cb = "messageInfo" /\ MsgType(m) = INFO
      <3>1. INFO # INFO_MULTIPLE
        BY DEF INFO, INFO_MULTIPLE
      <3> DEFINE x == Inserted(h.info, NameOf(FieldOf(m)), Keyed(m))
      <3>2. Kept(h, cb, m) = [h EXCEPT !.info = x]
        BY <2>7, <3>1 DEF Kept
      <3> HIDE DEF x
      <3>3. HeaderStore([h EXCEPT !.info = x])
        BY <1>4 DEF ok
      <3> QED BY <2>1, <3>2, <3>3
    <2>8. CASE cb = "parameter"
      <3> DEFINE x == Inserted(h.initialParameters, NameOf(FieldOf(m)), Keyed(m))
      <3>1. Kept(h, cb, m) = [h EXCEPT !.initialParameters = x]
        BY <1>1, <2>8 DEF Kept
      <3> HIDE DEF x
      <3>2. HeaderStore([h EXCEPT !.initialParameters = x])
        BY <1>4 DEF ok
      <3> QED BY <2>1, <3>1, <3>2
    <2>9. CASE cb = "parameterDefault"
      <3> DEFINE x == Inserted(h.defaultParameters, NameOf(FieldOf(m)), <<DefaultTypes(m), Keyed(m)>>)
      <3>1. Kept(h, cb, m) = [h EXCEPT !.defaultParameters = x]
        BY <2>9 DEF Kept
      <3> HIDE DEF x
      <3>2. HeaderStore([h EXCEPT !.defaultParameters = x])
        BY <1>4 DEF ok
      <3> QED BY <2>1, <3>1, <3>2
    <2> QED BY <2>2, <2>3, <2>4, <2>5, <2>6, <2>7, <2>8, <2>9 DEF HeaderCalls, HeaderOnly, AnyTime
  <1> QED BY <1>6, <1>7

LEMMA HeaderCompletes ==
    ASSUME NEW h, HeaderStore(h), NEW m
    PROVE  FullStore(After(h, "headerComplete", m)) /\ Alike(After(h, "headerComplete", m), h)
  <1> DEFINE g == [h EXCEPT !["headerComplete"] = TRUE]
  <1>1. h.kind = "DataContainer" /\ h.headerComplete = FALSE
    BY DEF HeaderStore, Store
  <1>2. ~ Ignores(h, "headerComplete") /\ ~ Refuses(h, "headerComplete", m)
    BY <1>1 DEF Ignores, Refuses, Continues
  <1>3. Kept(h, "headerComplete", m) = [h EXCEPT !.headerComplete = TRUE]
    BY DEF Kept
  <1>4. After(h, "headerComplete", m) = g
    BY <1>1, <1>2, <1>3 DEF After, Stored
  <1>5. "headerComplete" \in StoreFields /\ {"kind", "config"} \subseteq StoreFields
    BY DEF StoreFields
  <1>6. g = [e \in StoreFields |-> g[e]] /\ \A e \in StoreFields : g[e] = IF e = "headerComplete" THEN TRUE ELSE h[e]
    <2>1. Store(h)
      BY DEF HeaderStore
    <2> QED BY <1>5, <2>1, StoreWith, Zenon
  <1> HIDE DEF g
  <1>7. g["kind"] = h["kind"] /\ g["config"] = h["config"] /\ g["headerComplete"] = TRUE
    BY <1>5, <1>6
  <1>8. Alike(g, h)
    BY <1>6 DEF Alike, StillChanging
  <1> QED BY <1>4, <1>6, <1>7, <1>8 DEF FullStore, HeaderStore, Store

LEMMA DataCallKeeps ==
    ASSUME NEW h, FullStore(h), NEW cb \in DataCalls, NEW m
    PROVE  FullStore(After(h, cb, m)) /\ Alike(After(h, cb, m), h)
  <1>1. h.kind = "DataContainer" /\ h.config = "Header" /\ h.headerComplete = TRUE
    BY DEF FullStore, Store
  <1>2. After(h, cb, m) = Stored(h, cb, m)
    BY <1>1 DEF After
  <1>3. FullStore(h) /\ Alike(h, h)
    BY DEF Alike
  <1>4. CASE Ignores(h, cb)
    BY <1>2, <1>3, <1>4 DEF Stored
  <1>5. CASE ~ Ignores(h, cb)
    <2>1. cb \in {"error", "parameterDefault", "sync"}
      BY <1>1, <1>5 DEF Ignores, DataCalls, DataOnly, AnyTime
    <2>2. ~ Refuses(h, cb, m)
      BY <2>1 DEF Refuses, Continues
    <2>3. After(h, cb, m) = Kept(h, cb, m)
      BY <1>2, <1>5, <2>2, Zenon DEF Stored
    <2>4. \A x : /\ FullStore([h EXCEPT !.errors = x]) /\ Alike([h EXCEPT !.errors = x], h)
                 /\ FullStore([h EXCEPT !.defaultParameters = x]) /\ Alike([h EXCEPT !.defaultParameters = x], h)
      <3>1. {"errors", "defaultParameters"} \subseteq StillChanging \ {"headerComplete"}
        BY DEF StillChanging
      <3>2. ASSUME NEW x
            PROVE  /\ FullStore([h EXCEPT !["errors"] = x]) /\ Alike([h EXCEPT !["errors"] = x], h)
                   /\ FullStore([h EXCEPT !["defaultParameters"] = x])
                   /\ Alike([h EXCEPT !["defaultParameters"] = x], h)
        BY <3>1, FullStoreWith
      <3> QED BY <3>2
    <2>5. CASE cb = "error"
      <3>1. Kept(h, cb, m) = [h EXCEPT !.errors = @ + 1]
        BY <2>5 DEF Kept
      <3> QED BY <2>3, <2>4, <3>1
    <2>6. CASE cb = "parameterDefault"
      <3>1. Kept(h, cb, m) = [h EXCEPT !.defaultParameters =
                                Inserted(@, NameOf(FieldOf(m)), <<DefaultTypes(m), Keyed(m)>>)]
        BY <2>6 DEF Kept
      <3> QED BY <2>3, <2>4, <3>1
    <2>7. CASE cb = "sync"
      <3>1. Kept(h, cb, m) = h
        BY <2>7 DEF Kept
      <3> QED BY <1>3, <2>3, <3>1
    <2> QED BY <2>1, <2>5, <2>6, <2>7
  <1> QED BY <1>4, <1>5

TellsData(T, cbs, m, j, n) ==
    \A k \in j + 1 .. n : cbs[k] \in DataCalls /\ T[k] = After(T[k - 1], cbs[k], m)

LEMMA DataCallsKeep ==
    ASSUME NEW n \in Nat, NEW j \in 0 .. n, NEW T, NEW cbs, NEW m, NEW h,
           FullStore(T[j]) /\ Alike(T[j], h),
           TellsData(T, cbs, m, j, n)
    PROVE  FullStore(T[n]) /\ Alike(T[n], h)
  <1> DEFINE good(k) == FullStore(T[k]) /\ Alike(T[k], h)
             S == {k \in Nat : k >= j /\ k <= n => good(k)}
  <1> HIDE DEF good
  <1>1. good(j)
    BY DEF good
  <1>2. 0 \in S
    <2>1. 0 >= j => j = 0
      OBVIOUS
    <2> QED BY <1>1, <2>1
  <1>3. ASSUME NEW k \in Nat, k \in S PROVE k + 1 \in S
    <2> SUFFICES ASSUME k + 1 >= j, k + 1 <= n PROVE good(k + 1)
      OBVIOUS
    <2>1. CASE k + 1 = j
      BY <1>1, <2>1
    <2>2. CASE k >= j
      <3>1. good(k)
        BY <1>3, <2>2
      <3>2. k + 1 \in j + 1 .. n /\ (k + 1) - 1 = k
        BY <2>2
      <3> DEFINE i == k + 1
      <3>3. i \in j + 1 .. n /\ i - 1 = k
        BY <3>2
      <3> HIDE DEF i
      <3>4. cbs[i] \in DataCalls /\ T[i] = After(T[k], cbs[i], m)
        BY <3>3 DEF TellsData
      <3>5. FullStore(T[i]) /\ Alike(T[i], T[k])
        BY <3>1, <3>4, DataCallKeeps DEF good
      <3>6. good(i)
        BY <3>1, <3>5 DEF good, Alike
      <3> QED BY <3>6 DEF i
    <2> QED BY <2>1, <2>2
  <1>4. S = Nat
    <2>1. S \in SUBSET Nat
      OBVIOUS
    <2> HIDE DEF S
    <2> QED BY <1>2, <1>3, <2>1, NatSetInduction
  <1>5. good(n)
    BY <1>4
  <1> QED BY <1>5 DEF good

LEMMA ToldInData ==
    ASSUME NEW h, FullStore(h), NEW m, NEW cbs \in Seq(DataCalls)
    PROVE  FullStore(Told(h, cbs, m)) /\ Alike(Told(h, cbs, m), h)
  <1> DEFINE n == Len(cbs)
  <1>1. n \in Nat /\ 0 \in 0 .. n
    BY LenProperties
  <1>0. PICK T : Turns(T, h, cbs, m)
    BY ToldInTurn
  <1>2. T[0] = h /\ (\A k \in 1 .. n : T[k] = After(T[k - 1], cbs[k], m)) /\ Told(h, cbs, m) = T[n]
    BY <1>0 DEF Turns
  <1>3. FullStore(T[0]) /\ Alike(T[0], h)
    BY <1>2 DEF Alike
  <1>4. TellsData(T, cbs, m, 0, n)
    BY <1>1, <1>2, ElementOfSeq DEF TellsData
  <1> HIDE DEF n
  <1>5. FullStore(T[n]) /\ Alike(T[n], h)
    BY <1>1, <1>3, <1>4, DataCallsKeep
  <1> QED BY <1>2, <1>5

LEMMA ToldAtTurn ==
    ASSUME NEW h, HeaderStore(h), NEW m, NEW cbs \in Seq(Callbacks), Len(cbs) >= 1,
           cbs[1] = "headerComplete", \A k \in 2 .. Len(cbs) : cbs[k] \in DataCalls
    PROVE  FullStore(Told(h, cbs, m)) /\ Alike(Told(h, cbs, m), h)
  <1> DEFINE n == Len(cbs)
  <1>1. n \in Nat /\ 1 \in 0 .. n /\ 1 \in 1 .. n /\ 1 - 1 = 0
    BY LenProperties
  <1>0. PICK T : Turns(T, h, cbs, m)
    BY ToldInTurn
  <1>2. T[0] = h /\ (\A k \in 1 .. n : T[k] = After(T[k - 1], cbs[k], m)) /\ Told(h, cbs, m) = T[n]
    BY <1>0 DEF Turns
  <1>3. T[1] = After(h, "headerComplete", m)
    BY <1>1, <1>2
  <1>4. FullStore(T[1]) /\ Alike(T[1], h)
    BY <1>3, HeaderCompletes
  <1>5. \A k \in 2 .. n : cbs[k] \in DataCalls /\ T[k] = After(T[k - 1], cbs[k], m)
    BY <1>1, <1>2
  <1> HIDE DEF n
  <1>6. FullStore(T[n]) /\ Alike(T[n], h)
    <2>1. TellsData(T, cbs, m, 1, n)
      BY <1>5 DEF TellsData
    <2> QED BY <1>1, <1>4, <2>1, DataCallsKeep
  <1> QED BY <1>2, <1>6

LEMMA ToldInHeader ==
    ASSUME NEW h, HeaderStore(h), NEW m, NEW cbs \in Seq(HeaderCalls),
           \A k \in 1 .. Len(cbs) : cbs[k] = "messageInfo" => MsgType(m) \in {INFO, INFO_MULTIPLE}
    PROVE  HeaderStore(Told(h, cbs, m))
  <1> DEFINE n == Len(cbs)
  <1>1. n \in Nat
    BY LenProperties
  <1>0. PICK T : Turns(T, h, cbs, m)
    BY ToldInTurn
  <1>2. T[0] = h /\ (\A k \in 1 .. n : T[k] = After(T[k - 1], cbs[k], m)) /\ Told(h, cbs, m) = T[n]
    BY <1>0 DEF Turns
  <1> DEFINE S == {k \in Nat : k <= n => HeaderStore(T[k])}
  <1>3. 0 \in S
    BY <1>2
  <1>4. ASSUME NEW k \in Nat, k \in S PROVE k + 1 \in S
    <2> SUFFICES ASSUME k + 1 <= n PROVE HeaderStore(T[k + 1])
      OBVIOUS
    <2> DEFINE i == k + 1
    <2>1. i \in 1 .. n /\ i - 1 = k /\ HeaderStore(T[k])
      BY <1>1, <1>4
    <2> HIDE DEF i
    <2>2. cbs[i] \in HeaderCalls /\ T[i] = After(T[k], cbs[i], m)
      BY <1>2, <2>1, ElementOfSeq
    <2>3. cbs[i] = "messageInfo" => MsgType(m) \in {INFO, INFO_MULTIPLE}
      BY <2>1
    <2>4. HeaderStore(T[i])
      BY <2>1, <2>2, <2>3, HeaderCallKeeps
    <2> QED BY <2>4 DEF i
  <1>5. S = Nat
    <2>1. S \in SUBSET Nat
      OBVIOUS
    <2> HIDE DEF S
    <2> QED BY <1>3, <1>4, <2>1, NatSetInduction
  <1>6. HeaderStore(T[n])
    BY <1>1, <1>5
  <1> QED BY <1>2, <1>6

-----------------------------------------------------------------------------
(* The callbacks for one message: in the header they are those of a header, *)
(* or headerComplete first and then those of the data section.              *)
InTwo(st, t, hand, ends, made) ==
    /\ hand.calls = ends \o made
    /\ \/ hand.state = st /\ ends = <<>>
       \/ st = ReadingHeader /\ hand.state = ReadingData /\ ends = <<"headerComplete">>
    /\ made = <<>> \/ (Handled(hand.state, t) /\ made = <<CallbackOf(t)>>)

LEMMA HeardIs ==
    ASSUME NEW st, NEW m, NEW accepts, NEW hand, hand = Handling(st, m, accepts)
    PROVE  \E ends, made : InTwo(st, MsgType(m), hand, ends, made)
  <1> DEFINE t     == MsgType(m)
             now   == StateFor(st, t)
             ends  == IF now # st THEN <<"headerComplete">> ELSE <<>>
             built == IF Handled(now, t) THEN ParseOutcome(m) ELSE Parsed
             made  == IF Handled(now, t) /\ built = Parsed THEN <<CallbackOf(t)>> ELSE <<>>
  <1>1. CASE Empty(m)
    <2>1. hand.calls = <<>> /\ hand.state = st
      BY <1>1 DEF Handling
    <2>2. <<>> \o <<>> = <<>>
      OBVIOUS
    <2>3. InTwo(st, t, hand, <<>>, <<>>)
      BY <2>1, <2>2 DEF InTwo
    <2> QED BY <2>3
  <1>2. CASE ~ Empty(m)
    <2>1. hand = Dispatch(st, m, accepts)
      BY <1>2 DEF Handling
    <2>2. hand.state = now /\ hand.calls = ends \o made
      BY <2>1 DEF Dispatch
    <2>3. now = st \/ (st = ReadingHeader /\ now = ReadingData)
      BY DEF StateFor
    <2>4. (now = st /\ ends = <<>>) \/ (st = ReadingHeader /\ now = ReadingData /\ ends = <<"headerComplete">>)
      BY <2>3
    <2>5. made = <<>> \/ (Handled(now, t) /\ made = <<CallbackOf(t)>>)
      OBVIOUS
    <2> HIDE DEF ends, made, now, t
    <2>6. made = <<>> \/ (Handled(hand.state, t) /\ made = <<CallbackOf(t)>>)
      BY <2>2, <2>5
    <2>7. (hand.state = st /\ ends = <<>>) \/ (st = ReadingHeader /\ hand.state = ReadingData /\ ends = <<"headerComplete">>)
      BY <2>2, <2>4
    <2>8. InTwo(st, t, hand, ends, made)
      BY <2>2, <2>6, <2>7 DEF InTwo
    <2> QED BY <2>8 DEF t
  <1> QED BY <1>1, <1>2

LEMMA SectionCallbacks ==
    /\ \A t \in HeaderTypes : /\ CallbackOf(t) \in HeaderCalls
                              /\ CallbackOf(t) = "messageInfo" => t \in {INFO, INFO_MULTIPLE}
    /\ \A t \in DataTypes : CallbackOf(t) \in DataCalls
    /\ ReadingHeader # ReadingData
  BY DEF HeaderTypes, DataTypes, InBothSections, EndsHeader, CallbackOf, HeaderCalls, DataCalls, HeaderOnly,
         DataOnly, AnyTime, INFO, INFO_MULTIPLE, PARAMETER, PARAMETER_DEFAULT, FORMAT, ReadingHeader, ReadingData,
         ADD_LOGGED_MSG, LOGGING, LOGGING_TAGGED, DATA, DROPOUT, SYNC

LEMMA HeardInData ==
    ASSUME NEW m, NEW accepts, NEW more, more \in {<<>>, <<"error">>},
           NEW hand, hand = Handling(ReadingData, m, accepts)
    PROVE  hand.state = ReadingData /\ hand.calls \o more \in Seq(DataCalls)
  <1>1. PICK ends, made : InTwo(ReadingData, MsgType(m), hand, ends, made)
    BY HeardIs
  <1>2. hand.state = ReadingData /\ ends = <<>>
    BY <1>1, SectionCallbacks DEF InTwo
  <1>3. made \in Seq(DataCalls)
    <2>1. \A c \in DataCalls : <<c>> \in Seq(DataCalls)
      OBVIOUS
    <2>2. Handled(hand.state, MsgType(m)) => CallbackOf(MsgType(m)) \in DataCalls
      BY <1>2, SectionCallbacks DEF Handled
    <2> QED BY <1>1, <2>1, <2>2, EmptySeq DEF InTwo
  <1>4. more \in Seq(DataCalls)
    <2>1. \A c \in DataCalls : <<c>> \in Seq(DataCalls)
      OBVIOUS
    <2>2. "error" \in DataCalls
      BY DEF DataCalls
    <2> QED BY <2>1, <2>2, EmptySeq
  <1>5. hand.calls = made
    BY <1>1, <1>2, <1>3, ConcatEmptySeq DEF InTwo
  <1> QED BY <1>2, <1>3, <1>4, <1>5, ConcatProperties

(* What the handler hears of a message of the header section: the section   *)
(* goes on, or the message ends it.                                         *)
HeardInside(hand, cbs, m) ==
    /\ hand.state = ReadingHeader /\ cbs \in Seq(HeaderCalls)
    /\ \A k \in 1 .. Len(cbs) : cbs[k] = "messageInfo" => MsgType(m) \in {INFO, INFO_MULTIPLE}

HeardAtEnd(hand, cbs) ==
    /\ hand.state = ReadingData /\ cbs \in Seq(Callbacks) /\ Len(cbs) >= 1
    /\ cbs[1] = "headerComplete" /\ \A k \in 2 .. Len(cbs) : cbs[k] \in DataCalls

LEMMA HeardInHeader ==
    ASSUME NEW m, NEW accepts, NEW more, more \in {<<>>, <<"error">>},
           NEW hand, hand = Handling(ReadingHeader, m, accepts), NEW cbs, cbs = hand.calls \o more
    PROVE  HeardInside(hand, cbs, m) \/ HeardAtEnd(hand, cbs)
  <1> DEFINE t == MsgType(m)
             D == {c \in HeaderCalls : c = "messageInfo" => t \in {INFO, INFO_MULTIPLE}}
  <1>1. PICK ends, made : InTwo(ReadingHeader, t, hand, ends, made)
    BY HeardIs
  <1> HIDE DEF t
  <1>2. CASE hand.state = ReadingHeader /\ ends = <<>>
    <2>1. made \in Seq(D)
      <3>1. \A c \in D : <<c>> \in Seq(D)
        OBVIOUS
      <3>2. Handled(hand.state, t) => CallbackOf(t) \in D
        BY <1>2, SectionCallbacks DEF Handled
      <3> HIDE DEF D
      <3> QED BY <1>1, <3>1, <3>2, EmptySeq DEF InTwo
    <2>2. more \in Seq(D)
      <3>1. "error" \in D
        BY DEF HeaderCalls
      <3>2. \A c \in D : <<c>> \in Seq(D)
        OBVIOUS
      <3> HIDE DEF D
      <3> QED BY <3>1, <3>2, EmptySeq
    <2>3. cbs \in Seq(D)
      <3> HIDE DEF D
      <3>1. hand.calls = made
        BY <1>1, <1>2, <2>1, ConcatEmptySeq DEF InTwo
      <3> QED BY <2>1, <2>2, <3>1, ConcatProperties
    <2>4. \A k \in 1 .. Len(cbs) : cbs[k] \in D
      <3> HIDE DEF D
      <3> QED BY <2>3, ElementOfSeq
    <2>5. cbs \in Seq(HeaderCalls)
      BY <2>3
    <2>6. HeardInside(hand, cbs, m)
      BY <1>2, <2>4, <2>5 DEF t, HeardInside
    <2> QED BY <2>6
  <1>3. CASE hand.state = ReadingData /\ ends = <<"headerComplete">>
    <2>1. {"headerComplete", "error"} \subseteq Callbacks /\ DataCalls \subseteq Callbacks /\ "error" \in DataCalls
      BY DEF Callbacks, DataCalls
    <2>2. ends \in Seq(Callbacks) /\ Len(ends) = 1 /\ ends[1] = "headerComplete"
      BY <1>3, <2>1
    <2>3. more \in Seq(DataCalls) /\ more \in Seq(Callbacks)
      <3>1. \A c : c \in DataCalls => <<c>> \in Seq(DataCalls)
        OBVIOUS
      <3>2. more \in Seq(DataCalls)
        BY <2>1, <3>1, EmptySeq
      <3> QED BY <2>1, <3>2
    <2>4. made \in Seq(DataCalls) /\ made \in Seq(Callbacks)
      <3>1. \A c \in DataCalls : <<c>> \in Seq(DataCalls)
        OBVIOUS
      <3>2. Handled(hand.state, t) => CallbackOf(t) \in DataCalls
        BY <1>3, SectionCallbacks DEF Handled
      <3>3. made \in Seq(DataCalls)
        BY <1>1, <3>1, <3>2, EmptySeq DEF InTwo
      <3> QED BY <2>1, <3>3
    <2> DEFINE em == ends \o made
    <2>5. /\ em \in Seq(Callbacks) /\ Len(em) = 1 + Len(made) /\ Len(made) \in Nat /\ Len(more) \in Nat
          /\ \A i \in 1 .. 1 + Len(made) : em[i] = IF i <= 1 THEN ends[i] ELSE made[i - 1]
      <3>1. Len(made) \in Nat /\ Len(more) \in Nat
        BY <2>3, <2>4, LenProperties
      <3>2. /\ em \in Seq(Callbacks) /\ Len(em) = Len(ends) + Len(made)
            /\ \A i \in 1 .. Len(ends) + Len(made) : em[i] = IF i <= Len(ends) THEN ends[i] ELSE made[i - Len(ends)]
        <4>1. ends \in Seq(Callbacks) /\ made \in Seq(Callbacks)
          BY <2>2, <2>4
        <4> QED BY <4>1, ConcatProperties
      <3> HIDE DEF em
      <3> QED BY <2>2, <3>1, <3>2
    <2> HIDE DEF em
    <2>6. /\ cbs = em \o more /\ cbs \in Seq(Callbacks) /\ Len(cbs) = Len(em) + Len(more)
          /\ \A i \in 1 .. Len(em) + Len(more) : cbs[i] = IF i <= Len(em) THEN em[i] ELSE more[i - Len(em)]
      BY <1>1, <2>3, <2>5, ConcatProperties DEF em, InTwo
    <2>7. Len(cbs) >= 1 /\ cbs[1] = "headerComplete"
      BY <2>2, <2>5, <2>6
    <2>8. ASSUME NEW k \in 2 .. Len(cbs) PROVE cbs[k] \in DataCalls
      <3>1. CASE k <= Len(em)
        <4>1. k - 1 \in 1 .. Len(made) /\ k \in 1 .. 1 + Len(made) /\ k \in 1 .. Len(em) + Len(more) /\ ~ (k <= 1)
          BY <2>5, <2>6, <3>1
        <4>2. cbs[k] = made[k - 1]
          BY <2>5, <2>6, <3>1, <4>1
        <4> QED BY <2>4, <4>1, <4>2, ElementOfSeq
      <3>2. CASE ~ (k <= Len(em))
        <4>1. k - Len(em) \in 1 .. Len(more) /\ k \in 1 .. Len(em) + Len(more)
          BY <2>5, <2>6, <3>2
        <4>2. cbs[k] = more[k - Len(em)]
          BY <2>6, <3>2, <4>1
        <4> QED BY <2>3, <4>1, <4>2, ElementOfSeq
      <3> QED BY <3>1, <3>2
    <2>9. HeardAtEnd(hand, cbs)
      BY <1>3, <2>6, <2>7, <2>8 DEF HeardAtEnd
    <2> QED BY <2>9
  <1> QED BY <1>1, <1>2, <1>3 DEF InTwo

-----------------------------------------------------------------------------
(* The handler of a reading: as the header has filled it, or complete.      *)
PastBy(s, r, hand, more) ==
    LET cbs == hand.calls \o more
    IN  /\ hand = Handling(r.state, MessageIn(s, r.at), Accepts(r.handler, r.state, MessageIn(s, r.at)))
        /\ more \in {<<>>, <<"error">>}
        /\ Past(s, r).state = hand.state
        /\ Past(s, r).calls = r.calls \o CallsAt(cbs, r.at)
        /\ Past(s, r).handler = Told(r.handler, cbs, MessageIn(s, r.at))

LEMMA PastIsBy == ASSUME NEW s, NEW r PROVE \E hand, more : PastBy(s, r, hand, more)
  <1> DEFINE m    == MessageIn(s, r.at)
             hand == Handling(r.state, m, Accepts(r.handler, r.state, m))
             more == IF hand.outcome = Rejected /\ ~ r.reported THEN <<"error">> ELSE <<>>
  <1>1. /\ Past(s, r).state = hand.state
        /\ Past(s, r).calls = r.calls \o CallsAt(hand.calls \o more, r.at)
        /\ Past(s, r).handler = Told(r.handler, hand.calls \o more, m)
    <2> DEFINE cbs  == hand.calls \o more
               next == Resumes(s, r.at + Len(m))
               a    == IF hand.outcome = Rejected /\ next # {} THEN First(next) ELSE r.at + Len(m)
               e    == r.reported \/ hand.outcome = Rejected
               o    == hand.outcome = Foreign \/ (hand.outcome = Rejected /\ next = {})
               told == Told(r.handler, cbs, m)
               past == [at |-> a, state |-> hand.state, reported |-> e, over |-> o,
                        calls |-> r.calls \o CallsAt(cbs, r.at), handler |-> told]
    <2>1. Past(s, r) = past
      BY Zenon DEF Past, Behind
    <2> HIDE DEF a, e, o, told, cbs, hand
    <2>2. past.state = hand.state /\ past.calls = r.calls \o CallsAt(cbs, r.at) /\ past.handler = told
      OBVIOUS
    <2> HIDE DEF past
    <2> QED BY <2>1, <2>2 DEF cbs, told
  <1>2. more \in {<<>>, <<"error">>}
    OBVIOUS
  <1> HIDE DEF more
  <1>3. PastBy(s, r, hand, more)
    BY <1>1, <1>2, Zenon DEF PastBy
  <1> HIDE DEF hand
  <1> QED BY <1>3

Adds(all, c, cbs, p) ==
    /\ Len(all) = Len(c) + Len(cbs)
    /\ \A i \in 1 .. Len(c) : all[i] = c[i]
    /\ \A i \in Len(c) + 1 .. Len(c) + Len(cbs) :
         i - Len(c) \in 1 .. Len(cbs) /\ all[i].cb = cbs[i - Len(c)] /\ all[i].at = p

LEMMA CallsAdded ==
    ASSUME NEW c \in Calls, NEW cbs \in Seq(Callbacks), NEW p \in Nat
    PROVE  Adds(c \o CallsAt(cbs, p), c, cbs, p)
  <1> DEFINE new == CallsAt(cbs, p)
  <1>1. Len(c) \in Nat /\ Len(cbs) \in Nat
    BY LenProperties DEF Calls
  <1>2. new \in Calls /\ Len(new) = Len(cbs) /\ \A i \in 1 .. Len(cbs) : new[i].cb = cbs[i] /\ new[i].at = p
    <2>1. new \in Calls
      BY CallsAtType
    <2>2. Len(new) = Len(cbs) /\ \A i \in 1 .. Len(cbs) : new[i].cb = cbs[i] /\ new[i].at = p
      BY <1>1 DEF CallsAt
    <2> QED BY <2>1, <2>2
  <1> HIDE DEF new
  <1> DEFINE all == c \o new
  <1>3. /\ Len(all) = Len(c) + Len(new)
        /\ \A i \in 1 .. Len(c) + Len(new) : all[i] = IF i <= Len(c) THEN c[i] ELSE new[i - Len(c)]
    <2>1. c \in Calls /\ new \in Calls
      BY <1>2
    <2> QED BY <2>1, ConcatProperties DEF Calls
  <1> HIDE DEF all
  <1>4. \A i \in 1 .. Len(c) : all[i] = c[i]
    <2>1. \A i \in 1 .. Len(c) : i \in 1 .. Len(c) + Len(new) /\ i <= Len(c)
      BY <1>1, <1>2
    <2> QED BY <1>3, <2>1
  <1>5. ASSUME NEW i \in Len(c) + 1 .. Len(c) + Len(cbs)
        PROVE  i - Len(c) \in 1 .. Len(cbs) /\ all[i].cb = cbs[i - Len(c)] /\ all[i].at = p
    <2>1. i \in 1 .. Len(c) + Len(new) /\ ~ (i <= Len(c)) /\ i - Len(c) \in 1 .. Len(cbs)
      BY <1>1, <1>2
    <2>2. all[i] = new[i - Len(c)]
      BY <1>3, <2>1
    <2> QED BY <1>2, <2>1, <2>2
  <1>6. Adds(all, c, cbs, p)
    BY <1>2, <1>3, <1>4, <1>5 DEF Adds
  <1> QED BY <1>6 DEF all, new

HeaderEndsBy(calls_, p) == \A i \in 1 .. Len(calls_) : calls_[i].cb = "headerComplete" => calls_[i].at = p
NoHeaderEnd(calls_)     == \A i \in 1 .. Len(calls_) : calls_[i].cb # "headerComplete"

InHeader(r)   == r.state = ReadingHeader /\ HeaderStore(r.handler) /\ NoHeaderEnd(r.calls)
InData(q, r) ==
    /\ q.state = ReadingData /\ FullStore(q.handler)
    /\ Alike(q.handler, r.handler) /\ HeaderEndsBy(q.calls, r.at)

LEMMA PastInData ==
    ASSUME NEW s \in Seq(Byte), NEW q, IsReading(q), Complete(s, q.at), NEW r, InData(q, r)
    PROVE  InData(Past(s, q), r)
  <1> DEFINE m == MessageIn(s, q.at)
  <1>1. PICK hand, more : PastBy(s, q, hand, more)
    BY PastIsBy
  <1> DEFINE cbs == hand.calls \o more
             past == Past(s, q)
  <1>2. q.state = ReadingData /\ FullStore(q.handler) /\ q.calls \in Calls /\ q.at \in Nat
    BY DEF InData, IsReading
  <1>3. /\ hand = Handling(ReadingData, m, Accepts(q.handler, q.state, m)) /\ more \in {<<>>, <<"error">>}
        /\ past.state = hand.state /\ past.calls = q.calls \o CallsAt(cbs, q.at)
        /\ past.handler = Told(q.handler, cbs, m)
    BY <1>1, <1>2, Zenon DEF PastBy
  <1> HIDE DEF m, past
  <1>4. hand.state = ReadingData /\ cbs \in Seq(DataCalls)
    BY <1>3, HeardInData
  <1> HIDE DEF cbs
  <1>5. FullStore(past.handler) /\ Alike(past.handler, q.handler)
    BY <1>2, <1>3, <1>4, ToldInData
  <1>6. Alike(past.handler, r.handler)
    BY <1>5 DEF InData, Alike
  <1>7. HeaderEndsBy(past.calls, r.at)
    <2>1. DataCalls \subseteq Callbacks /\ "headerComplete" \notin DataCalls
      BY DEF DataCalls, Callbacks, DataOnly, AnyTime
    <2>2. Adds(past.calls, q.calls, cbs, q.at)
      <3>1. cbs \in Seq(Callbacks)
        BY <1>4, <2>1
      <3> QED BY <1>2, <1>3, <3>1, CallsAdded
    <2>3. Len(q.calls) \in Nat /\ Len(cbs) \in Nat
      BY <1>2, <1>4, LenProperties DEF Calls
    <2>4. ASSUME NEW i \in 1 .. Len(past.calls), past.calls[i].cb = "headerComplete"
          PROVE  past.calls[i].at = r.at
      <3>1. CASE i \in 1 .. Len(q.calls)
        BY <2>2, <2>4, <3>1 DEF InData, HeaderEndsBy, Adds
      <3>2. CASE i \in Len(q.calls) + 1 .. Len(q.calls) + Len(cbs)
        <4>1. cbs[i - Len(q.calls)] \in DataCalls
          BY <1>4, <2>2, <3>2, ElementOfSeq DEF Adds
        <4>2. past.calls[i].cb = cbs[i - Len(q.calls)]
          BY <2>2, <3>2 DEF Adds
        <4> QED BY <2>1, <2>4, <4>1, <4>2
      <3> QED BY <2>2, <2>3, <3>1, <3>2 DEF Adds
    <2> QED BY <2>4 DEF HeaderEndsBy
  <1>8. InData(past, r)
    BY <1>3, <1>4, <1>5, <1>6, <1>7 DEF InData
  <1> QED BY <1>8 DEF past

LEMMA PastInHeader ==
    ASSUME NEW s \in Seq(Byte), NEW r, IsReading(r), Complete(s, r.at), InHeader(r)
    PROVE  InHeader(Past(s, r)) \/ InData(Past(s, r), r)
  <1> DEFINE m == MessageIn(s, r.at)
  <1>1. PICK hand, more : PastBy(s, r, hand, more)
    BY PastIsBy
  <1> DEFINE cbs == hand.calls \o more
             past == Past(s, r)
  <1>2. r.state = ReadingHeader /\ HeaderStore(r.handler) /\ NoHeaderEnd(r.calls) /\ r.calls \in Calls /\ r.at \in Nat
    BY DEF InHeader, IsReading
  <1>3. /\ hand = Handling(ReadingHeader, m, Accepts(r.handler, r.state, m)) /\ more \in {<<>>, <<"error">>}
        /\ past.state = hand.state /\ past.calls = r.calls \o CallsAt(cbs, r.at)
        /\ past.handler = Told(r.handler, cbs, m)
    BY <1>1, <1>2, Zenon DEF PastBy
  <1> HIDE DEF m, past
  <1>4. HeardInside(hand, cbs, m) \/ HeardAtEnd(hand, cbs)
    BY <1>3, HeardInHeader
  <1> HIDE DEF cbs
  <1>5. HeaderCalls \subseteq Callbacks /\ "headerComplete" \notin HeaderCalls
    BY DEF HeaderCalls, Callbacks, HeaderOnly, AnyTime
  <1>6. cbs \in Seq(Callbacks) /\ Len(cbs) \in Nat /\ Len(r.calls) \in Nat
    <2>1. cbs \in Seq(Callbacks)
      BY <1>4, <1>5 DEF HeardInside, HeardAtEnd
    <2> QED BY <1>2, <2>1, LenProperties DEF Calls
  <1>7. Adds(past.calls, r.calls, cbs, r.at)
    BY <1>2, <1>3, <1>6, CallsAdded
  <1>8. \A i \in 1 .. Len(past.calls) : i \in 1 .. Len(r.calls) \/ i \in Len(r.calls) + 1 .. Len(r.calls) + Len(cbs)
    BY <1>6, <1>7 DEF Adds
  <1>9. CASE hand.state = ReadingHeader
    <2>1. /\ cbs \in Seq(HeaderCalls)
          /\ \A k \in 1 .. Len(cbs) : cbs[k] = "messageInfo" => MsgType(m) \in {INFO, INFO_MULTIPLE}
      BY <1>4, <1>9, SectionCallbacks DEF HeardInside, HeardAtEnd
    <2>2. HeaderStore(past.handler)
      BY <1>2, <1>3, <2>1, ToldInHeader
    <2>3. ASSUME NEW i \in 1 .. Len(past.calls) PROVE past.calls[i].cb # "headerComplete"
      <3>1. CASE i \in 1 .. Len(r.calls)
        BY <1>2, <1>7, <3>1 DEF NoHeaderEnd, Adds
      <3>2. CASE i \in Len(r.calls) + 1 .. Len(r.calls) + Len(cbs)
        <4>1. cbs[i - Len(r.calls)] \in HeaderCalls
          BY <1>7, <2>1, <3>2, ElementOfSeq DEF Adds
        <4>2. past.calls[i].cb = cbs[i - Len(r.calls)]
          BY <1>7, <3>2 DEF Adds
        <4> QED BY <1>5, <4>1, <4>2
      <3> QED BY <1>8, <3>1, <3>2
    <2>4. InHeader(past)
      BY <1>3, <1>9, <2>2, <2>3 DEF InHeader, NoHeaderEnd
    <2> QED BY <2>4 DEF past
  <1>10. CASE hand.state = ReadingData
    <2>1. Len(cbs) >= 1 /\ cbs[1] = "headerComplete" /\ \A k \in 2 .. Len(cbs) : cbs[k] \in DataCalls
      BY <1>4, <1>10, SectionCallbacks DEF HeardInside, HeardAtEnd
    <2>2. FullStore(past.handler) /\ Alike(past.handler, r.handler)
      BY <1>2, <1>3, <1>6, <2>1, ToldAtTurn
    <2>3. ASSUME NEW i \in 1 .. Len(past.calls), past.calls[i].cb = "headerComplete"
          PROVE  past.calls[i].at = r.at
      <3>1. CASE i \in 1 .. Len(r.calls)
        BY <1>2, <1>7, <2>3, <3>1 DEF NoHeaderEnd, Adds
      <3>2. CASE i \in Len(r.calls) + 1 .. Len(r.calls) + Len(cbs)
        BY <1>7, <3>2 DEF Adds
      <3> QED BY <1>8, <3>1, <3>2
    <2>4. InData(past, r)
      BY <1>3, <1>10, <2>2, <2>3 DEF InData, HeaderEndsBy
    <2> QED BY <2>4 DEF past
  <1> QED BY <1>4, <1>9, <1>10 DEF HeardInside, HeardAtEnd

-----------------------------------------------------------------------------
(* The readings of a log, each from the one before it.                      *)
GoOn(s, F) ==
    /\ \A k \in 0 .. AtMost(s) : IsReading(F[k])
    /\ \A k \in 1 .. AtMost(s) : F[k] = Onward(s, F[k - 1])

LEMMA WholeGoesOn ==
    ASSUME NEW s \in Seq(Byte), NEW r, IsReading(r)
    PROVE  GoOn(s, Whole(s, r)) /\ Whole(s, r)[0] = r /\ AtMost(s) \in Nat /\ Len(s) \in Nat
  <1>1. Len(s) \in Nat /\ AtMost(s) \in Nat
    BY LenProperties, AtMostIs
  <1> QED BY <1>1, WholeIs, ReadingsGo DEF GoOn

LEMMA OneMore ==
    ASSUME NEW s \in Seq(Byte), NEW F, GoOn(s, F), AtMost(s) \in Nat, NEW k \in 0 .. AtMost(s) - 1
    PROVE  /\ IsReading(F[k]) /\ IsReading(F[k + 1])
           /\ Ends(s, F[k]) => F[k + 1] = F[k]
           /\ ~ Ends(s, F[k]) => /\ F[k + 1] = Past(s, F[k]) /\ Complete(s, F[k].at)
                                 /\ F[k + 1].at >= F[k].at + HeaderLen
  <1> DEFINE i == k + 1
  <1>1. i \in 1 .. AtMost(s) /\ i - 1 = k /\ k \in 0 .. AtMost(s) /\ i \in 0 .. AtMost(s)
    OBVIOUS
  <1> HIDE DEF i
  <1>2. F[i] = Onward(s, F[k]) /\ IsReading(F[k]) /\ IsReading(F[i])
    BY <1>1 DEF GoOn
  <1>3. Ends(s, F[k]) => F[i] = F[k]
    BY <1>2 DEF Onward
  <1>4. ASSUME ~ Ends(s, F[k])
        PROVE  F[i] = Past(s, F[k]) /\ Complete(s, F[k].at) /\ F[i].at >= F[k].at + HeaderLen
    <2>1. F[i] = Past(s, F[k]) /\ Complete(s, F[k].at)
      BY <1>2, <1>4 DEF Onward, Ends
    <2> QED BY <1>2, <2>1, PastType
  <1> QED BY <1>2, <1>3, <1>4 DEF i

(* A reading that nothing follows stays; before one that goes on are those  *)
(* of as many messages less.                                                *)
Since(s, F, j, k) ==
    /\ Ends(s, F[j]) => F[k] = F[j]
    /\ ~ Ends(s, F[k]) => ~ Ends(s, F[j]) /\ F[j].at + HeaderLen * (k - j) <= F[k].at

LEMMA Growing ==
    ASSUME NEW s \in Seq(Byte), NEW F, GoOn(s, F), AtMost(s) \in Nat,
           NEW j \in 0 .. AtMost(s), NEW k \in j .. AtMost(s)
    PROVE  Since(s, F, j, k)
  <1> DEFINE S == {i \in Nat : j + i <= AtMost(s) => Since(s, F, j, j + i)}
  <1>1. 0 \in S
    <2>1. F[j].at \in Nat /\ j + 0 = j /\ j - j = 0
      BY DEF GoOn, IsReading
    <2>2. Since(s, F, j, j)
      BY <2>1 DEF Since, HeaderLen
    <2> QED BY <2>1, <2>2
  <1>2. ASSUME NEW i \in Nat, i \in S PROVE i + 1 \in S
    <2> SUFFICES ASSUME j + (i + 1) <= AtMost(s) PROVE Since(s, F, j, j + (i + 1))
      OBVIOUS
    <2> DEFINE l == j + i
    <2>1. l \in 0 .. AtMost(s) - 1 /\ l + 1 = j + (i + 1) /\ l <= AtMost(s) /\ l \in Nat
      OBVIOUS
    <2>2. Since(s, F, j, l)
      BY <1>2, <2>1
    <2>3. (l + 1) - j = (l - j) + 1 /\ l - j \in Nat
      OBVIOUS
    <2> HIDE DEF l
    <2>4. /\ IsReading(F[l]) /\ IsReading(F[l + 1])
          /\ Ends(s, F[l]) => F[l + 1] = F[l]
          /\ ~ Ends(s, F[l]) => F[l + 1].at >= F[l].at + HeaderLen
      BY <2>1, OneMore
    <2>5. F[j].at \in Nat /\ F[l].at \in Nat /\ F[l + 1].at \in Nat
      BY <2>4 DEF GoOn, IsReading
    <2>6. Since(s, F, j, l + 1)
      <3>1. CASE Ends(s, F[l])
        BY <2>2, <2>4, <3>1 DEF Since
      <3>2. CASE ~ Ends(s, F[l])
        <4>1. ~ Ends(s, F[j]) /\ F[j].at + HeaderLen * (l - j) <= F[l].at
          BY <2>2, <3>2 DEF Since
        <4>2. F[j].at + HeaderLen * ((l + 1) - j) <= F[l + 1].at
          <5>1. F[l].at + HeaderLen <= F[l + 1].at
            BY <2>4, <3>2
          <5>2. \A d, a, b, c \in Nat : a + HeaderLen * d <= b /\ b + HeaderLen <= c => a + HeaderLen * (d + 1) <= c
            BY DEF HeaderLen
          <5>3. F[j].at + HeaderLen * ((l - j) + 1) <= F[l + 1].at
            BY <2>3, <2>5, <4>1, <5>1, <5>2
          <5> QED BY <2>3, <5>3
        <4> QED BY <4>1, <4>2 DEF Since
      <3> QED BY <3>1, <3>2
    <2> QED BY <2>1, <2>6
  <1>3. S = Nat
    <2>1. S \in SUBSET Nat
      OBVIOUS
    <2> HIDE DEF S
    <2> QED BY <1>1, <1>2, <2>1, NatSetInduction
  <1>4. k - j \in Nat /\ j + (k - j) = k /\ k <= AtMost(s)
    OBVIOUS
  <1> QED BY <1>3, <1>4

(* Each reading is of the header, or of the data section that begins at the *)
(* message behind a reading of the header.                                  *)
TurnedAt(s, F, n, k) == n < k /\ ~ Ends(s, F[n]) /\ InHeader(F[n]) /\ InData(F[k], F[n])
Placed(s, F, k)    == InHeader(F[k]) \/ \E n \in 0 .. AtMost(s) : TurnedAt(s, F, n, k)

LEMMA EachInSection ==
    ASSUME NEW s \in Seq(Byte), NEW F, GoOn(s, F), AtMost(s) \in Nat, InHeader(F[0])
    PROVE  \A k \in 0 .. AtMost(s) : Placed(s, F, k)
  <1> DEFINE S == {k \in Nat : k <= AtMost(s) => Placed(s, F, k)}
  <1>1. 0 \in S
    BY DEF Placed
  <1>2. ASSUME NEW k \in Nat, k \in S PROVE k + 1 \in S
    <2> SUFFICES ASSUME k + 1 <= AtMost(s) PROVE Placed(s, F, k + 1)
      OBVIOUS
    <2>1. k \in 0 .. AtMost(s) - 1 /\ Placed(s, F, k) /\ k \in 0 .. AtMost(s) /\ k < k + 1
      BY <1>2
    <2> DEFINE i == k + 1
    <2>2. /\ IsReading(F[k]) /\ IsReading(F[i])
          /\ Ends(s, F[k]) => F[i] = F[k]
          /\ ~ Ends(s, F[k]) => F[i] = Past(s, F[k]) /\ Complete(s, F[k].at)
      BY <2>1, OneMore
    <2>3. \A n \in 0 .. AtMost(s) : n < k => n < i
      OBVIOUS
    <2>4. k < i
      OBVIOUS
    <2> HIDE DEF i
    <2>5. CASE Ends(s, F[k])
      <3>1. F[i] = F[k]
        BY <2>2, <2>5
      <3>2. Placed(s, F, i)
        BY <2>1, <2>3, <3>1 DEF Placed, TurnedAt
      <3> QED BY <3>2 DEF i
    <2>6. CASE ~ Ends(s, F[k])
      <3>1. F[i] = Past(s, F[k]) /\ Complete(s, F[k].at)
        BY <2>2, <2>6
      <3>2. CASE InHeader(F[k])
        <4>1. InHeader(F[i]) \/ InData(F[i], F[k])
          BY <2>2, <3>1, <3>2, PastInHeader
        <4>2. Placed(s, F, i)
          BY <2>1, <2>4, <2>6, <3>2, <4>1 DEF Placed, TurnedAt
        <4> QED BY <4>2 DEF i
      <3>3. CASE \E n \in 0 .. AtMost(s) : TurnedAt(s, F, n, k)
        <4>1. PICK n \in 0 .. AtMost(s) : TurnedAt(s, F, n, k)
          BY <3>3
        <4>2. InData(F[i], F[n])
          BY <2>2, <3>1, <4>1, PastInData DEF TurnedAt
        <4>3. TurnedAt(s, F, n, i)
          BY <2>3, <4>1, <4>2 DEF TurnedAt
        <4>4. Placed(s, F, i)
          BY <4>3 DEF Placed
        <4> QED BY <4>4 DEF i
      <3> QED BY <2>1, <3>2, <3>3 DEF Placed
    <2> QED BY <2>5, <2>6
  <1>3. S = Nat
    <2>1. S \in SUBSET Nat
      OBVIOUS
    <2> HIDE DEF S
    <2> QED BY <1>1, <1>2, <2>1, NatSetInduction
  <1> QED BY <1>3

LEMMA OpenedInHeader ==
    ASSUME NEW s \in Seq(Byte), NEW h, HeaderStore(h), Len(s) >= FileHeaderLen + FlagBitsLen
    PROVE  InHeader(Opened(s, h))
  <1> DEFINE b   == FlagsOf(s)
             cbs == FlagBitsCalls(b)
             m   == PrologueOf(s)
             opened == [at |-> FileHeaderLen + FlagBitsSkip(b), state |-> ReadingHeader,
                        reported |-> FALSE, over |-> FALSE,
                        calls |-> CallsAt(cbs, FileHeaderLen), handler |-> Told(h, cbs, m)]
  <1>1. Opened(s, h) = opened
    BY Zenon DEF Opened, FlagsOf
  <1> HIDE DEF b, m
  <1> DEFINE C == {"fileHeader", "error", "fatal"}
  <1>2. cbs \in Seq(C)
    <2>1. \A c \in C : <<c>> \in Seq(C)
      OBVIOUS
    <2>2. /\ (IF HasAppendedData(b) THEN <<"error">> ELSE <<>>) \in Seq(C)
          /\ (IF IsIncompatible(b) THEN <<"fatal">> ELSE <<"fileHeader">>) \in Seq(C)
          /\ <<"fileHeader">> \in Seq(C)
      BY <2>1, EmptySeq
    <2> HIDE DEF C
    <2> QED BY <2>2, ConcatProperties DEF FlagBitsCalls
  <1>3. C \subseteq HeaderCalls /\ "messageInfo" \notin C /\ "headerComplete" \notin C
    BY DEF HeaderCalls
  <1> HIDE DEF cbs, C
  <1>4. \A k \in 1 .. Len(cbs) : cbs[k] # "messageInfo" /\ cbs[k] # "headerComplete"
    BY <1>2, <1>3, ElementOfSeq
  <1>5. HeaderStore(Told(h, cbs, m))
    <2>1. cbs \in Seq(HeaderCalls)
      BY <1>2, <1>3
    <2> QED BY <1>4, <2>1, ToldInHeader
  <1>6. NoHeaderEnd(CallsAt(cbs, FileHeaderLen))
    <2>1. Len(cbs) \in Nat
      BY <1>2, LenProperties
    <2>2. Len(CallsAt(cbs, FileHeaderLen)) = Len(cbs) /\ \A i \in 1 .. Len(cbs) : CallsAt(cbs, FileHeaderLen)[i].cb = cbs[i]
      BY <2>1 DEF CallsAt
    <2> QED BY <1>4, <2>2 DEF NoHeaderEnd
  <1>7. opened.state = ReadingHeader /\ opened.calls = CallsAt(cbs, FileHeaderLen) /\ opened.handler = Told(h, cbs, m)
    OBVIOUS
  <1> HIDE DEF opened
  <1> QED BY <1>1, <1>5, <1>6, <1>7 DEF InHeader

-----------------------------------------------------------------------------
(* The log cut behind its first p bytes.                                    *)
LEMMA FrontPiece ==
    ASSUME NEW s \in Seq(Byte), NEW p \in 1 .. Len(s), NEW a \in Nat, NEW n \in Nat, a + n <= p
    PROVE  SubSeq(SubSeq(s, 1, p), a + 1, a + n) = SubSeq(s, a + 1, a + n)
  <1>1. CASE n = 0
    BY <1>1, SubSeqEmpty
  <1>2. CASE n # 0
    <2>1. /\ 1 \in 1 .. Len(s) /\ p \in 1 .. Len(s)
          /\ a + 1 \in 1 .. p - 1 + 1 /\ a + n \in 1 .. p - 1 + 1
      BY <1>2, LenProperties
    <2>2. SubSeq(SubSeq(s, 1, p), a + 1, a + n) = SubSeq(s, 1 + (a + 1) - 1, 1 + (a + n) - 1)
      BY <2>1, SubSeqOfSubSeq
    <2>3. 1 + (a + 1) - 1 = a + 1 /\ 1 + (a + n) - 1 = a + n
      OBVIOUS
    <2> QED BY <2>2, <2>3
  <1> QED BY <1>1, <1>2

CutAt(s, p, t) == p \in 1 .. Len(s) /\ t = SubSeq(s, 1, p) /\ t \in Seq(Byte) /\ Len(t) = p

LEMMA CutLog ==
    ASSUME NEW s \in Seq(Byte), NEW p \in 1 .. Len(s)
    PROVE  CutAt(s, p, SubSeq(s, 1, p))
  <1>1. SubSeq(s, 0 + 1, 0 + p) \in Seq(Byte) /\ Len(SubSeq(s, 0 + 1, 0 + p)) = p
    BY LenProperties, PieceOf
  <1>2. 0 + 1 = 1 /\ 0 + p = p
    BY LenProperties
  <1> QED BY <1>1, <1>2 DEF CutAt

LEMMA CutHeader ==
    ASSUME NEW s \in Seq(Byte), NEW p, NEW t, CutAt(s, p, t), NEW a \in Nat, a + HeaderLen <= p
    PROVE  LengthAt(t, a) = LengthAt(s, a) /\ (SaneHeader(t, a) <=> SaneHeader(s, a))
  <1>1. SubSeq(t, a + 1, a + HeaderLen) = SubSeq(s, a + 1, a + HeaderLen)
    <2>1. HeaderLen \in Nat
      BY DEF HeaderLen
    <2> QED BY <2>1, FrontPiece DEF CutAt
  <1> QED BY <1>1 DEF LengthAt, SaneHeader

LEMMA CutMessage ==
    ASSUME NEW s \in Seq(Byte), NEW p, NEW t, CutAt(s, p, t), NEW a \in Nat,
           Complete(s, a), a + LengthAt(s, a) <= p
    PROVE  MessageIn(t, a) = MessageIn(s, a) /\ Complete(t, a)
  <1>1. LengthAt(s, a) \in Nat /\ LengthAt(s, a) >= HeaderLen /\ p \in Nat /\ HeaderLen \in Nat
    BY MessageType DEF CutAt, HeaderLen
  <1>2. a + HeaderLen <= p
    BY <1>1
  <1>3. LengthAt(t, a) = LengthAt(s, a)
    BY <1>2, CutHeader
  <1>4. MessageIn(t, a) = MessageIn(s, a)
    BY <1>1, <1>3, FrontPiece DEF MessageIn, CutAt
  <1> QED BY <1>2, <1>3, <1>4 DEF Complete, CutAt

(* Where a reading goes on.                                                 *)
Answer(r, m) == Handling(r.state, m, Accepts(r.handler, r.state, m))

PastGoes(s, r, m) ==
    LET next == Resumes(s, r.at + Len(m))
    IN  /\ Past(s, r).at = IF Answer(r, m).outcome = Rejected /\ next # {} THEN First(next) ELSE r.at + Len(m)
        /\ Answer(r, m).outcome = Rejected /\ next = {} => Past(s, r).over

LEMMA PastGoesOn == ASSUME NEW s, NEW r PROVE PastGoes(s, r, MessageIn(s, r.at))
  <1> DEFINE m    == MessageIn(s, r.at)
             h    == Answer(r, m)
             next == Resumes(s, r.at + Len(m))
             a    == IF h.outcome = Rejected /\ next # {} THEN First(next) ELSE r.at + Len(m)
             e    == r.reported \/ h.outcome = Rejected
             o    == h.outcome = Foreign \/ (h.outcome = Rejected /\ next = {})
             cbs  == h.calls \o IF h.outcome = Rejected /\ ~ r.reported THEN <<"error">> ELSE <<>>
             c    == r.calls \o CallsAt(cbs, r.at)
             told == Told(r.handler, cbs, m)
             past == [at |-> a, state |-> h.state, reported |-> e, over |-> o, calls |-> c, handler |-> told]
  <1>1. Past(s, r) = past
    BY Zenon DEF Past, Behind, Answer
  <1> HIDE DEF h, e, told, c, cbs
  <1>2. past.at = a /\ (h.outcome = Rejected /\ next = {} => past.over)
    <2> HIDE DEF a, next
    <2> QED OBVIOUS
  <1> HIDE DEF past
  <1> QED BY <1>1, <1>2, Zenon DEF PastGoes, h

(* In two logs with the same message at hand and behind it.                 *)
PastsAgree(s, t, r, m, ns, nt) ==
    /\ Past(t, r).handler = Past(s, r).handler
    /\ Answer(r, m).outcome # Rejected \/ (ns # {} /\ nt # {} /\ First(ns) = First(nt))
       => Past(t, r) = Past(s, r)

LEMMA PastAlike ==
    ASSUME NEW s, NEW t, NEW r, NEW m, m = MessageIn(s, r.at), m = MessageIn(t, r.at),
           NEW ns, NEW nt, ns = Resumes(s, r.at + Len(m)), nt = Resumes(t, r.at + Len(m))
    PROVE  PastsAgree(s, t, r, m, ns, nt)
  <1> DEFINE h    == Answer(r, m)
             a(n) == IF h.outcome = Rejected /\ n # {} THEN First(n) ELSE r.at + Len(m)
             e    == r.reported \/ h.outcome = Rejected
             o(n) == h.outcome = Foreign \/ (h.outcome = Rejected /\ n = {})
             cbs  == h.calls \o IF h.outcome = Rejected /\ ~ r.reported THEN <<"error">> ELSE <<>>
             c    == r.calls \o CallsAt(cbs, r.at)
             told == Told(r.handler, cbs, m)
             past(n) == [at |-> a(n), state |-> h.state, reported |-> e, over |-> o(n), calls |-> c, handler |-> told]
  <1>1. Past(s, r) = past(ns) /\ Past(t, r) = past(nt)
    BY Zenon DEF Past, Behind, Answer
  <1>2. ASSUME h.outcome # Rejected \/ (ns # {} /\ nt # {} /\ First(ns) = First(nt))
        PROVE  a(nt) = a(ns) /\ o(nt) = o(ns)
    <2> HIDE DEF h
    <2> QED BY <1>2
  <1> HIDE DEF e, told, c, cbs, a, o
  <1>3. past(nt).handler = past(ns).handler
    <2> HIDE DEF h
    <2> QED OBVIOUS
  <1>4. a(nt) = a(ns) /\ o(nt) = o(ns) => past(nt) = past(ns)
    <2> HIDE DEF h
    <2> QED OBVIOUS
  <1> HIDE DEF past
  <1> QED BY <1>1, <1>2, <1>3, <1>4, Zenon DEF PastsAgree

LEMMA SaneLength ==
    ASSUME NEW s \in Seq(Byte), NEW q \in Nat, q + HeaderLen <= Len(s), SaneHeader(s, q)
    PROVE  LengthAt(s, q) \in Nat /\ LengthAt(s, q) > HeaderLen
  <1> DEFINE h == SubSeq(s, q + 1, q + HeaderLen)
  <1>1. h \in Seq(Byte) /\ Len(h) = HeaderLen /\ HeaderLen \in Nat
    BY PieceOf DEF HeaderLen
  <1>2. MsgSize(h) # 0 /\ LengthAt(s, q) = MsgLen(h)
    BY DEF SaneHeader, LengthAt
  <1> HIDE DEF h
  <1>3. MsgLen(h) \in Nat /\ MsgLen(h) >= HeaderLen
    <2>1. Len(h) >= HeaderLen
      BY <1>1
    <2> QED BY <1>1, <2>1, HeaderBytes
  <1>4. MsgSize(h) \in Int
    <2>1. \A x, y \in Byte : x + 256 * y \in Int
      BY DEF Byte
    <2>2. 1 \in 1 .. Len(h) /\ 2 \in 1 .. Len(h)
      BY <1>1 DEF HeaderLen
    <2>3. h[1] \in Byte /\ h[2] \in Byte
      BY <1>1, <2>2, ElementOfSeq
    <2> QED BY <2>1, <2>3 DEF MsgSize
  <1> QED BY <1>2, <1>3, <1>4 DEF MsgLen, HeaderLen

LEMMA PastBehind ==
    ASSUME NEW s \in Seq(Byte), NEW r, IsReading(r), Complete(s, r.at), IsReading(Past(s, r))
    PROVE  r.at + LengthAt(s, r.at) <= Past(s, r).at
  <1> DEFINE m    == MessageIn(s, r.at)
             next == Resumes(s, r.at + Len(m))
  <1>1. r.at \in Nat /\ Len(m) = LengthAt(s, r.at) /\ Len(m) \in Nat /\ Past(s, r).at \in Nat
    BY MessageType DEF IsReading
  <1>2. PastGoes(s, r, m)
    BY PastGoesOn
  <1> HIDE DEF m
  <1>3. r.at + Len(m) \in Nat
    BY <1>1
  <1>4. next # {} => First(next) \in Nat /\ First(next) >= r.at + Len(m)
    BY <1>3, ResumesType, FirstOf
  <1> HIDE DEF next
  <1>5. (Past(s, r).at = First(next) /\ next # {}) \/ Past(s, r).at = r.at + Len(m)
    BY <1>2 DEF PastGoes, next
  <1> QED BY <1>1, <1>4, <1>5

(* The readings of the log cut where the n-th one stands are those of the   *)
(* log. Only, where a message refused is the last before the cut, nothing   *)
(* is left to go on at.                                                     *)
CutWell(F, G, n, k) ==
    G[k] = F[k] \/ (k = n /\ G[n].over /\ G[n].handler = F[n].handler)

LEMMA CutStep ==
    ASSUME NEW s \in Seq(Byte), NEW F, GoOn(s, F), AtMost(s) \in Nat,
           NEW n \in 0 .. AtMost(s), ~ Ends(s, F[n]), NEW t, CutAt(s, F[n].at, t),
           NEW G, GoOn(t, G), AtMost(t) \in Nat,
           NEW k \in 0 .. n - 1, k + 1 <= AtMost(t), G[k] = F[k]
    PROVE  CutWell(F, G, n, k + 1)
  <1> DEFINE i == k + 1
             r == F[k]
             m == MessageIn(s, r.at)
             p == F[n].at
             e == r.at + Len(m)
             ns == Resumes(s, e)
             nt == Resumes(t, e)
  <1>1. /\ k \in 0 .. AtMost(s) - 1 /\ k \in 0 .. AtMost(t) - 1 /\ n \in i .. AtMost(s) /\ n \in k .. AtMost(s)
        /\ i \in 0 .. AtMost(s) /\ k \in 0 .. AtMost(s) /\ Len(s) \in Nat /\ HeaderLen \in Nat
    BY LenProperties DEF HeaderLen
  <1>2. Since(s, F, i, n) /\ Since(s, F, k, n)
    BY <1>1, Growing
  <1>3. ~ Ends(s, F[i]) /\ ~ Ends(s, r)
    BY <1>2 DEF Since
  <1>4. IsReading(r) /\ IsReading(F[i]) /\ F[i] = Past(s, r) /\ Complete(s, r.at) /\ IsReading(F[n])
    BY <1>1, <1>3, OneMore DEF GoOn
  <1>5. F[i].at \in Nat /\ p \in Nat /\ r.at \in Nat /\ F[i].at <= p /\ p <= Len(s)
    <2>1. F[i].at \in Nat /\ p \in Nat /\ r.at \in Nat /\ p <= Len(s)
      BY <1>4 DEF IsReading, CutAt
    <2>2. F[i].at + HeaderLen * (n - i) <= p /\ n - i \in Nat
      BY <1>1, <1>2 DEF Since
    <2> HIDE DEF p, r, i
    <2>3. \A d, a, b \in Nat : a + HeaderLen * d <= b => a <= b
      BY DEF HeaderLen
    <2> QED BY <2>1, <2>2, <2>3
  <1>6. r.at + LengthAt(s, r.at) <= F[i].at /\ LengthAt(s, r.at) \in Nat /\ Len(m) = LengthAt(s, r.at)
    <2>1. LengthAt(s, r.at) \in Nat /\ Len(m) = LengthAt(s, r.at)
      BY <1>4, <1>5, MessageType
    <2> QED BY <1>4, <2>1, PastBehind
  <1>7. m = MessageIn(t, r.at) /\ Complete(t, r.at)
    <2>1. r.at \in Nat /\ Complete(s, r.at) /\ CutAt(s, p, t)
      BY <1>4, <1>5
    <2>2. r.at + LengthAt(s, r.at) <= p
      <3> DEFINE a == r.at
                 l == LengthAt(s, a)
                 b == F[i].at
      <3>1. a \in Nat /\ l \in Nat /\ b \in Nat /\ p \in Nat /\ a + l <= b /\ b <= p
        BY <1>5, <1>6
      <3> HIDE DEF a, l, b, p
      <3>2. a + l <= p
        BY <3>1
      <3> QED BY <3>2 DEF a, l
    <2> HIDE DEF r, p
    <2>3. MessageIn(t, r.at) = MessageIn(s, r.at) /\ Complete(t, r.at)
      BY <2>1, <2>2, CutMessage
    <2> QED BY <2>3
  <1>8. G[i] = Past(t, r)
    <2>1. ~ Ends(t, G[k])
      BY <1>3, <1>7 DEF Ends
    <2>2. t \in Seq(Byte)
      BY DEF CutAt
    <2>3. G[i] = Past(t, G[k])
      BY <1>1, <2>1, <2>2, OneMore
    <2> QED BY <2>3
  <1>9. PastGoes(s, r, m)
    BY PastGoesOn
  <1>10. /\ G[i].handler = F[i].handler
         /\ Answer(r, m).outcome # Rejected \/ (ns # {} /\ nt # {} /\ First(ns) = First(nt)) => G[i] = F[i]
    <2>1. m = MessageIn(s, r.at) /\ ns = Resumes(s, r.at + Len(m)) /\ nt = Resumes(t, r.at + Len(m))
      OBVIOUS
    <2> HIDE DEF m, ns, nt, r
    <2>2. PastsAgree(s, t, r, m, ns, nt)
      BY <1>7, <2>1, PastAlike
    <2> QED BY <1>4, <1>8, <2>2 DEF PastsAgree
  <1>11. PastGoes(t, r, m)
    BY <1>7, PastGoesOn
  <1>12. e \in Nat
    BY <1>5, <1>6
  <1> HIDE DEF m, e
  <1>13. CASE Answer(r, m).outcome # Rejected
    BY <1>10, <1>13 DEF CutWell
  <1>14. CASE Answer(r, m).outcome = Rejected
    <2>1. ns # {}
      BY <1>3, <1>4, <1>9, <1>14 DEF PastGoes, Ends, e
    <2>2. F[i].at = First(ns)
      BY <1>4, <1>9, <1>14, <2>1 DEF PastGoes, e
    <2> DEFINE q == First(ns)
    <2>3. q \in ns /\ (\A j \in ns : q <= j) /\ ns \subseteq Nat
      BY <1>12, <2>1, ResumesType, FirstOf
    <2>4. \A j : j \in nt <=> j \in ns /\ j + HeaderLen + 1 <= p
      <3>1. Len(t) = p
        BY DEF CutAt
      <3>2. \A j : j \in nt <=> j \in Nat /\ j >= e /\ j + HeaderLen + 1 <= p /\ SaneHeader(t, j)
        <4> HIDE DEF p
        <4> QED BY <1>5, <1>12, <3>1 DEF Resumes, HeaderLen
      <3>3. \A j : j \in ns <=> j \in Nat /\ j >= e /\ j + HeaderLen + 1 <= Len(s) /\ SaneHeader(s, j)
        BY <1>1, <1>12 DEF Resumes, HeaderLen
      <3>4. \A j \in Nat : j + HeaderLen + 1 <= p => (SaneHeader(t, j) <=> SaneHeader(s, j))
        <4>1. \A j \in Nat : j + HeaderLen + 1 <= p => j + HeaderLen <= p
          BY <1>1, <1>5
        <4> QED BY <4>1, CutHeader
      <3>5. \A j \in Nat : j + HeaderLen + 1 <= p => j + HeaderLen + 1 <= Len(s)
        BY <1>1, <1>5
      <3> HIDE DEF ns, nt, p
      <3> QED BY <3>2, <3>3, <3>4, <3>5
    <2> HIDE DEF q, ns, nt, p, r
    <2>5. CASE nt # {}
      <3>1. nt \subseteq Nat
        BY <2>3, <2>4
      <3>2. q \in nt
        <4>1. PICK j \in nt : j \in ns /\ j + HeaderLen + 1 <= p /\ q <= j /\ j \in Nat /\ q \in Nat
          BY <2>3, <2>4, <2>5
        <4>2. q + HeaderLen + 1 <= p
          BY <1>1, <1>5, <4>1
        <4> QED BY <2>3, <2>4, <4>2
      <3>3. First(nt) = q
        BY <2>3, <2>4, <3>1, <3>2, FirstIsLeast
      <3> QED BY <1>10, <2>1, <2>5, <3>3 DEF CutWell, q
    <2>6. CASE nt = {}
      <3>1. G[i].over
        BY <1>8, <1>11, <1>14, <2>6 DEF PastGoes, e, nt
      <3>2. q \in Nat /\ ~ (q + HeaderLen + 1 <= p)
        BY <2>3, <2>4, <2>6
      <3>3. ASSUME i # n PROVE FALSE
        <4> DEFINE l == i + 1
        <4>1. i \in 0 .. AtMost(s) - 1 /\ n \in l .. AtMost(s) /\ l \in 0 .. AtMost(s)
          BY <1>1, <3>3
        <4>2. F[l] = Past(s, F[i]) /\ Complete(s, F[i].at) /\ IsReading(F[i]) /\ IsReading(F[l])
          BY <1>3, <4>1, OneMore
        <4>3. q + LengthAt(s, q) <= F[l].at
          BY <2>2, <4>2, PastBehind DEF q
        <4>4. Since(s, F, l, n) /\ n - l \in Nat
          BY <4>1, Growing
        <4>5. F[l].at + HeaderLen * (n - l) <= p /\ F[l].at \in Nat
          BY <4>2, <4>4 DEF Since, p, IsReading
        <4>6. LengthAt(s, q) \in Nat /\ LengthAt(s, q) > HeaderLen
          <5>1. q + HeaderLen <= Len(s) /\ SaneHeader(s, q)
            BY <1>1, <2>2, <2>3, <4>2 DEF Complete, Resumes, ns, q
          <5> QED BY <3>2, <5>1, SaneLength
        <4> HIDE DEF l
        <4>7. \A d, a, b \in Nat : a + HeaderLen * d <= b => a <= b
          BY DEF HeaderLen
        <4>8. F[l].at <= p
          BY <1>5, <4>4, <4>5, <4>7
        <4> QED BY <1>1, <1>5, <3>2, <4>3, <4>5, <4>6, <4>8
      <3> QED BY <1>10, <3>1, <3>3 DEF CutWell
    <2> QED BY <2>5, <2>6
  <1> QED BY <1>13, <1>14

LEMMA CutReading ==
    ASSUME NEW s \in Seq(Byte), NEW r, IsReading(r), r.at >= 1,
           NEW n \in 0 .. AtMost(s), ~ Ends(s, Whole(s, r)[n])
    PROVE  ReadFrom(SubSeq(s, 1, Whole(s, r)[n].at), r).handler = Whole(s, r)[n].handler
  <1> DEFINE F == Whole(s, r)
             p == F[n].at
             t == SubSeq(s, 1, p)
             G == Whole(t, r)
  <1>1. GoOn(s, F) /\ F[0] = r /\ AtMost(s) \in Nat /\ Len(s) \in Nat
    BY WholeGoesOn
  <1>2. IsReading(F[n]) /\ F[n].at >= HeaderLen * n
    BY ReadingsGo
  <1>3. p \in Nat /\ p >= HeaderLen * n /\ p + HeaderLen <= Len(s) /\ p >= 1
    <2>1. Complete(s, F[n].at)
      BY DEF Ends
    <2>2. Since(s, F, 0, n)
      <3>1. 0 \in 0 .. AtMost(s) /\ n \in 0 .. AtMost(s)
        BY <1>1
      <3> HIDE DEF F
      <3> QED BY <1>1, <3>1, Growing
    <2>3. r.at + HeaderLen * (n - 0) <= p /\ n - 0 = n /\ r.at \in Nat /\ p \in Nat
      BY <1>1, <1>2, <2>2 DEF Since, IsReading
    <2>4. HeaderLen * n \in Nat
      BY <1>1 DEF HeaderLen
    <2> HIDE DEF F, p
    <2>5. p >= 1
      BY <2>3, <2>4
    <2> QED BY <1>2, <2>1, <2>3, <2>5 DEF Complete, p
  <1>4. CutAt(s, p, t)
    <2>1. p \in 1 .. Len(s)
      <3> HIDE DEF p
      <3> QED BY <1>1, <1>3 DEF HeaderLen
    <2> HIDE DEF p
    <2> QED BY <2>1, CutLog
  <1>5. t \in Seq(Byte) /\ Len(t) = p
    BY <1>4 DEF CutAt
  <1>6. ~ Ends(s, F[n])
    OBVIOUS
  <1> HIDE DEF F, t
  <1>7. GoOn(t, G) /\ G[0] = r /\ AtMost(t) \in Nat
    BY <1>5, WholeGoesOn
  <1> HIDE DEF G
  <1>8. n \in 0 .. AtMost(t)
    <2>1. Len(t) < HeaderLen * AtMost(t) + HeaderLen
      BY <1>3, <1>5, AtMostIs
    <2> QED BY <1>1, <1>3, <1>5, <1>7, <2>1 DEF HeaderLen
  <1> DEFINE S == {k \in Nat : k <= n => CutWell(F, G, n, k)}
  <1>9. 0 \in S
    BY <1>1, <1>7 DEF CutWell
  <1>10. ASSUME NEW k \in Nat, k \in S PROVE k + 1 \in S
    <2> SUFFICES ASSUME k + 1 <= n PROVE CutWell(F, G, n, k + 1)
      OBVIOUS
    <2>1. k \in 0 .. n - 1 /\ k + 1 <= AtMost(t) /\ k # n /\ k <= n
      BY <1>7, <1>8
    <2>2. G[k] = F[k]
      BY <1>10, <2>1 DEF CutWell
    <2> QED BY <1>1, <1>4, <1>6, <1>7, <2>1, <2>2, CutStep
  <1>11. S = Nat
    <2>1. S \in SUBSET Nat
      OBVIOUS
    <2> HIDE DEF S
    <2> QED BY <1>9, <1>10, <2>1, NatSetInduction
  <1>12. CutWell(F, G, n, n)
    BY <1>8, <1>11
  <1>13. Ends(t, G[n]) /\ G[n].handler = F[n].handler
    <2>1. CASE G[n] = F[n]
      <3>1. ~ Complete(t, p)
        BY <1>3, <1>5 DEF Complete, HeaderLen
      <3> QED BY <2>1, <3>1 DEF Ends
    <2>2. CASE G[n].over /\ G[n].handler = F[n].handler
      BY <2>2 DEF Ends
    <2> QED BY <1>12, <2>1, <2>2 DEF CutWell
  <1>14. ReadFrom(t, r) = G[n]
    BY <1>5, <1>8, <1>13, ReadingsEnd DEF G
  <1> QED BY <1>13, <1>14 DEF F, t

LEMMA OpenedAt ==
    ASSUME NEW s \in Seq(Byte), NEW h, Len(s) >= FileHeaderLen + FlagBitsLen
    PROVE  Opened(s, h).at >= 1
  <1> DEFINE b == FlagsOf(s)
  <1>1. Opened(s, h).at = FileHeaderLen + FlagBitsSkip(b)
    BY DEF Opened, FlagsOf
  <1>2. b \in Seq(Byte) /\ Len(b) = FlagBitsLen
    <2>1. FileHeaderLen \in Nat /\ FlagBitsLen \in Nat /\ FileHeaderLen + FlagBitsLen <= Len(s)
      BY LenProperties DEF FileHeaderLen, FlagBitsLen
    <2> QED BY <2>1, PieceOf DEF FlagsOf
  <1> HIDE DEF b
  <1>3. MsgLen(b) \in Nat
    <2>1. Len(b) >= HeaderLen
      BY <1>2 DEF FlagBitsLen, HeaderLen
    <2> QED BY <1>2, <2>1, HeaderBytes
  <1> QED BY <1>1, <1>3 DEF FlagBitsSkip, FileHeaderLen

-----------------------------------------------------------------------------
(* What the handler was when it was given.                                  *)
FromConstructors == NewHandlers \subseteq {NewWriter, Unfilled("Header"), Unfilled("FullLog")}

GivenIsNew == given \in NewHandlers

LEMMA GivenInvariant == Reading => []GivenIsNew
  <1>1. ReadingInit => GivenIsNew
    BY DEF ReadingInit, GivenIsNew
  <1>2. GivenIsNew /\ [ReadingNext]_readingVars => GivenIsNew'
    BY DEF GivenIsNew, ReadingNext, Listening, readingVars
  <1> QED BY <1>1, <1>2, PTL DEF Reading

LEMMA NewStore == HeaderStore(Unfilled("Header"))
  <1> DEFINE h == Unfilled("Header")
  <1>1. h = [f \in StoreFields |-> h[f]]
    BY DEF Unfilled, StoreFields
  <1>2. h["kind"] = "DataContainer" /\ h["config"] = "Header" /\ h["headerComplete"] = FALSE
    BY DEF Unfilled
  <1> HIDE DEF h
  <1>3. HeaderStore(h)
    BY <1>1, <1>2 DEF HeaderStore, Store
  <1> QED BY <1>3 DEF h

LEMMA GivenStore ==
    ASSUME FromConstructors, GivenIsNew, given.kind = "DataContainer", given.config = "Header"
    PROVE  HeaderStore(given)
  <1>1. given \in {NewWriter, Unfilled("Header"), Unfilled("FullLog")}
    BY DEF FromConstructors, GivenIsNew
  <1>2. NewWriter.kind = "Writer" /\ Unfilled("FullLog").config = "FullLog"
    BY DEF NewWriter, Unfilled
  <1>3. given = Unfilled("Header")
    BY <1>1, <1>2
  <1> QED BY <1>3, NewStore

(* Two stores alike differ in what still changes only.                      *)
LEMMA AlikeIsKept ==
    ASSUME NEW g, NEW h, FullStore(g), HeaderStore(h), Alike(g, h)
    PROVE  [g EXCEPT !.headerComplete = FALSE, !.errors = 0, !.defaultParameters = <<>>] =
           [h EXCEPT !.errors = 0, !.defaultParameters = <<>>]
  <1> DEFINE a == [g EXCEPT !["headerComplete"] = FALSE, !["errors"] = 0, !["defaultParameters"] = <<>>]
             b == [h EXCEPT !["errors"] = 0, !["defaultParameters"] = <<>>]
  <1>1. DOMAIN g = StoreFields /\ DOMAIN h = StoreFields
    BY Zenon DEF FullStore, HeaderStore, Store
  <1>2. a = [f \in StoreFields |-> a[f]] /\ b = [f \in StoreFields |-> b[f]]
    BY <1>1
  <1>3. \A f \in StoreFields : a[f] = IF f = "headerComplete" THEN FALSE ELSE IF f = "errors" THEN 0
                                       ELSE IF f = "defaultParameters" THEN <<>> ELSE g[f]
    BY <1>1
  <1>4. \A f \in StoreFields : b[f] = IF f = "errors" THEN 0
                                       ELSE IF f = "defaultParameters" THEN <<>> ELSE h[f]
    BY <1>1
  <1>5. h["headerComplete"] = FALSE
    BY DEF HeaderStore
  <1> HIDE DEF a, b
  <1>6. ASSUME NEW f \in StoreFields PROVE a[f] = b[f]
    <2>1. CASE f = "headerComplete"
      BY <1>3, <1>4, <1>5, <2>1
    <2>2. CASE f \in {"errors", "defaultParameters"}
      BY <1>3, <1>4, <2>2
    <2>3. CASE f \notin StillChanging
      <3>1. g[f] = h[f]
        BY <2>3 DEF Alike
      <3> QED BY <1>3, <1>4, <2>3, <3>1 DEF StillChanging
    <2> QED BY <2>1, <2>2, <2>3 DEF StillChanging
  <1>7. a = b
    BY <1>2, <1>6
  <1> QED BY <1>7 DEF a, b

(* Of a header-only DataContainer, once the header is complete only the     *)
(* errors and the default parameters change: the rest is what the log cut   *)
(* before the message that ended the header leaves in it, however the log   *)
(* is cut into chunks and whatever it refused or lost on the way.           *)
THEOREM HeaderIsKept ==
    ASSUME \A s \in Streams : FlagsFit(s), FromConstructors
    PROVE  Reading => []OnlyHeaderKept
  <1>1. ReadInv /\ GivenIsNew => OnlyHeaderKept
    <2> SUFFICES ASSUME ReadInv, GivenIsNew, given.kind = "DataContainer", given.config = "Header",
                        InSections, ~ escaped, HasCall("headerComplete")
                 PROVE  [handler EXCEPT !.headerComplete = FALSE, !.errors = 0, !.defaultParameters = <<>>] =
                        [ReadUpTo(stream, HeaderEnd, given).handler
                           EXCEPT !.errors = 0, !.defaultParameters = <<>>]
      BY DEF OnlyHeaderKept
    <2>1. stream \in Seq(Byte) /\ Len(stream) \in Nat
      BY CursorInLog DEF Follows, ReadInv, IInv
    <2>2. PICK n, p, o : Reached(n, p, o)
      BY DEF Follows, ReadInv, KeepsUp
    <2> DEFINE r == Opened(stream, given)
               F == Whole(stream, r)
    <2>3. /\ n \in 0 .. AtMost(stream) /\ F[n].calls = calls /\ F[n].handler = handler
          /\ Len(stream) >= FileHeaderLen + FlagBitsLen
      BY <2>2 DEF Reached, View
    <2>4. IsReading(r) /\ r.at >= 1 /\ InHeader(r)
      <3>1. HeaderStore(given)
        BY GivenStore
      <3> QED BY <2>1, <2>3, <3>1, OpenedType, OpenedAt, OpenedInHeader
    <2>5. ReadUpTo(stream, HeaderEnd, given) = ReadFrom(SubSeq(stream, 1, HeaderEnd), r)
      <3>1. \A end : ReadUpTo(stream, end, given) = ReadFrom(SubSeq(stream, 1, end), r)
        BY Zenon DEF ReadUpTo
      <3> HIDE DEF r
      <3> QED BY <3>1
    <2> HIDE DEF r
    <2>6. GoOn(stream, F) /\ F[0] = r /\ AtMost(stream) \in Nat
      BY <2>1, <2>4, WholeGoesOn
    <2>7. PICK i \in 0 .. AtMost(stream) : TurnedAt(stream, F, i, n)
      <3>1. Placed(stream, F, n)
        <4> HIDE DEF F
        <4> QED BY <2>1, <2>3, <2>4, <2>6, EachInSection
      <3>2. ~ InHeader(F[n])
        BY <2>3 DEF InHeader, NoHeaderEnd, HasCall
      <3> QED BY <3>1, <3>2 DEF Placed
    <2> DEFINE q == F[i].at
    <2>8. ReadFrom(SubSeq(stream, 1, q), r).handler = F[i].handler
      BY <2>1, <2>4, <2>7, CutReading DEF TurnedAt
    <2>9. q \in 0 .. Len(stream)
      <3>1. q \in Nat /\ q + HeaderLen <= Len(stream)
        BY <2>6, <2>7 DEF GoOn, IsReading, TurnedAt, Ends, Complete
      <3> HIDE DEF q
      <3> QED BY <2>1, <3>1 DEF HeaderLen
    <2>10. HeaderEndsBy(calls, q) /\ FullStore(handler) /\ Alike(handler, F[i].handler) /\ HeaderStore(F[i].handler)
      BY <2>3, <2>7 DEF TurnedAt, InData, InHeader
    <2> HIDE DEF q, F
    <2>11. HeaderEnd = q
      <3> DEFINE call(e) == [cb |-> "headerComplete", at |-> e]
      <3>1. calls \in Seq([cb : Callbacks, at : Nat])
        BY DEF Follows, ReadInv, IInv, TypeOK
      <3>2. DOMAIN calls = 1 .. Len(calls)
        BY <3>1, LenProperties
      <3>3. call(q) \in Range(calls)
        <4>1. PICK j \in 1 .. Len(calls) : calls[j].cb = "headerComplete"
          BY DEF HasCall
        <4>2. calls[j].at = q /\ calls[j] \in [cb : Callbacks, at : Nat]
          BY <2>10, <3>1, <4>1, ElementOfSeq DEF HeaderEndsBy
        <4>3. calls[j] = call(q)
          BY <4>1, <4>2
        <4> HIDE DEF call
        <4> QED BY <3>2, <4>3 DEF Range
      <3>4. ASSUME NEW e \in 0 .. Len(stream), call(e) \in Range(calls) PROVE e = q
        <4>1. PICK j \in 1 .. Len(calls) : call(e) = calls[j]
          <5> HIDE DEF call
          <5> QED BY <3>2, <3>4 DEF Range
        <4>2. calls[j].cb = "headerComplete" /\ calls[j].at = e
          <5>1. call(e).cb = "headerComplete" /\ call(e).at = e
            OBVIOUS
          <5> HIDE DEF call
          <5> QED BY <4>1, <5>1
        <4> QED BY <2>10, <4>2 DEF HeaderEndsBy
      <3>5. HeaderEnd = CHOOSE e \in 0 .. Len(stream) : call(e) \in Range(calls)
        BY DEF HeaderEnd
      <3> HIDE DEF call
      <3> QED BY <2>9, <3>3, <3>4, <3>5
    <2>12. ReadUpTo(stream, HeaderEnd, given).handler = F[i].handler
      BY <2>5, <2>8, <2>11
    <2> QED BY <2>10, <2>12, AlikeIsKept
  <1>2. Reading => []ReadInv
    BY ReadInvariant
  <1> QED BY <1>1, <1>2, GivenInvariant, PTL
=============================================================================
