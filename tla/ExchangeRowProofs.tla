------------------------- MODULE ExchangeRowProofs -------------------------
(***************************************************************************)
(* The inductive invariant of Exchange, and what each step of the client   *)
(* and of the handlers does to the bytes on their way.  All that is on its *)
(* way to one reader is one row of bytes: what it has read of a frame,     *)
(* what the stream holds, and what the writer has yet to send.  Sending    *)
(* and receiving leave a row as it is; frames are added at its end and     *)
(* bytes leave its front, so that the invariant speaks of rows only.       *)
(***************************************************************************)
EXTENDS Exchange, SequenceTheorems, TLAPS

USE FrameAssumption, ExchangeAssumption, SMTT(20), ZenonT(20)

-----------------------------------------------------------------------------
(* The inductive invariant                                                   *)

\* A byte is one position of the frame of a message.
Bytes == [of : Messages, at : 1..FrameBytes]
Readers == [size : 0..OutOfBounds, got : Seq(Bytes)]

Row(a, b, c) == a \o (b \o c)

\* All that is on its way to the handler of g: what it has read of a frame, what
\* the stream holds and what the call in progress has yet to send.
Unsent(g) ==
  IF cpc = "write" /\ g = descriptor
  THEN SubSeq(Frame(request), sent + 1, FrameBytes) ELSE <<>>
Upward == [g \in Conns |-> Row(hreader[g].got, up[g], Unsent(g))]

\* And to the client.
Unwritten(g) ==
  IF hpc[g] = "write"
  THEN SubSeq(Frame(answer[g]), hsent[g] + 1, FrameBytes) ELSE <<>>
Held(g) == IF g = descriptor THEN reader.got ELSE <<>>
Downward == [g \in Conns |-> Row(Held(g), down[g], Unwritten(g))]

\* The connections whose handler closes its end, and those on which it
\* dispatches nothing more.
Closing == {g \in Conns : hpc[g] \in {"close", "gone"}}
Failing ==
  {g \in Conns : \/ g \in Closing
                 \/ hpc[g] = "write" /\ answer[g].kind = "failure"}

\* The types, with what a call in progress needs.
ClientOK ==
  /\ descriptor \in 0..MaxConnections /\ next_request_id \in Ids
  /\ cpc \in {"idle", "write", "read"}
  /\ cpc # "idle" => descriptor # 0 /\ request.id # 0
  /\ request \in Messages /\ sent \in 0..FrameBytes /\ reader \in Readers

StreamOK ==
  /\ fresh \subseteq Conns /\ clientOpen \subseteq Conns /\ serverOpen \subseteq Conns
  /\ up \in [Conns -> Seq(Bytes)] /\ down \in [Conns -> Seq(Bytes)]
  /\ \A g \in Conns : Len(up[g]) <= RequestBuffer

HandlerOK ==
  /\ hpc \in [Conns -> {"unused", "read", "dispatch", "write", "close", "gone"}]
  /\ hreader \in [Conns -> Readers]
  /\ hrequest \in [Conns -> Messages] /\ answer \in [Conns -> Messages]
  /\ hsent \in [Conns -> 0..FrameBytes]

HistoryOK ==
  /\ calls \in 0..MaxCalls
  /\ result \in [Calls -> Results] /\ answeredFor \in [Calls -> 0..MaxCalls]
  /\ executed \in [Calls -> Nat]

StateOK == ClientOK /\ StreamOK /\ HandlerOK /\ HistoryOK /\ threw \in BOOLEAN

\* The calls: one at a time, each with a result when it is over.
CallInv ==
  /\ cpc = "idle" => request = NoMessage /\ sent = 0
  /\ cpc # "read" => reader = NewReader
  /\ cpc = "write" => sent < FrameBytes
  /\ cpc # "idle" =>
       /\ request.kind = "request" /\ request.call = calls /\ calls > 0
       /\ result[calls] = "none"
       /\ next_request_id # 0 => request.id < next_request_id
  /\ \A c \in Calls : c > calls => result[c] = "none" /\ executed[c] = 0
  /\ \A c \in Calls : c <= calls /\ result[c] = "none" => cpc # "idle" /\ c = calls

\* What the request of a handler is, when it has one.
Decoded(g) ==
  /\ Complete(hreader[g])
  /\ IF Intact(hreader[g].got)
     THEN hrequest[g] = hreader[g].got[1].of
     ELSE /\ Correlated(hreader[g])
          /\ hrequest[g] = [hreader[g].got[1].of EXCEPT !.call = 0]

\* Where a handler is says what it holds.
HandlerInv ==
  \A g \in Conns :
    /\ hpc[g] = "unused" => /\ up[g] = <<>> /\ down[g] = <<>>
                            /\ g \notin fresh /\ g # descriptor
    /\ hpc[g] \in {"unused", "write", "gone"} => hreader[g] = NewReader
    /\ hpc[g] \in {"unused", "read", "dispatch"} =>
         answer[g] = NoMessage /\ hsent[g] = 0
    /\ hpc[g] = "write" =>
         answer[g].kind \in {"response", "failure"} /\ hsent[g] < FrameBytes
    /\ hpc[g] = "dispatch" => Decoded(g)

\* A connection that is not installed has carried the sentinel or nothing.
FreshInv ==
  \A g \in fresh :
    /\ g # descriptor
    /\ Len(Upward[g]) = 0
    /\ \A i \in 1..Len(Downward[g]) : Downward[g][i].of = Sentinel
    /\ Len(Downward[g]) > 0 => Downward[g][1].at = 1

\* Ids that are still to be used are on no message.
IdBound(g) ==
  IF g = descriptor /\ next_request_id # 0 THEN next_request_id ELSE IdSpan

Asked(m, n, bound) ==
  /\ m.kind = "request" /\ m.call \in 1..n
  /\ m.id # 0 /\ m.id < bound

Told(m, n, bound, failing, done) ==
  /\ m.kind \in {"response", "failure"} /\ m.call \in 0..n
  /\ m.id < bound
  /\ m.id = 0 => m = Sentinel
  /\ m.kind = "response" /\ m.call # 0 => done[m.call] > 0
  /\ m.kind = "failure" => failing

\* What is on its way up was asked, and what is on its way down was told: a
\* response for a call is that of an execution, a failure ends the connection.
MessageInv ==
  \A g \in Conns :
    /\ \A i \in 1..Len(Upward[g]) : Asked(Upward[g][i].of, calls, IdBound(g))
    /\ \A i \in 1..Len(Downward[g]) :
         Told(Downward[g][i].of, calls, IdBound(g), g \in Failing, executed)

\* Nothing on its way is mistaken for the request in progress or its answer; its
\* bytes are consecutive and the last.
Is(b, m, n) == b.of = m /\ b.at = n

Trailing(s, m) ==
  \A i, j \in 1..Len(s) : i <= j =>
    /\ s[i].of = m => Is(s[j], m, s[i].at + (j - i))
    /\ s[j].of = m /\ s[j].at > j - i => Is(s[i], m, s[j].at - (j - i))

CurrentInv ==
  cpc # "idle" =>
    /\ \A g \in Conns : \A i \in 1..Len(Upward[g]) :
         \/ Upward[g][i].of.call = request.call
         \/ g = descriptor /\ Upward[g][i].of.id = request.id
         => g = descriptor /\ Upward[g][i].of = request
    /\ \A i \in 1..Len(Downward[descriptor]) :
         Downward[descriptor][i].of.id = request.id =>
           Downward[descriptor][i].of.call = request.call
    /\ Trailing(Upward[descriptor], request)
    /\ /\ hreader[descriptor].size # 0 /\ Len(Upward[descriptor]) > 0
       /\ Is(Upward[descriptor][1], request, HeaderBytes + 1)
       => hreader[descriptor].size = PayloadBytes

\* The last byte of a request is in one place, and gone when it is executed.
Final(b, c) == b.of.call = c /\ b.at = FrameBytes

OnceInv ==
  /\ \A g, h \in Conns, c \in Calls :
       \A i \in 1..Len(Upward[g]), j \in 1..Len(Upward[h]) :
         Final(Upward[g][i], c) /\ Final(Upward[h][j], c) => g = h /\ i = j
  /\ \A g \in Conns, c \in Calls : \A i \in 1..Len(Upward[g]) :
       Final(Upward[g][i], c) => executed[c] = 0
  /\ \A c \in Calls : executed[c] \in {0, 1}

\* A call that ended without leaving its caller in doubt is not executed later.
SettledInv ==
  \A c \in Calls :
    /\ result[c] \in DefiniteFailures => executed[c] = 0
    /\ result[c] = "Answered" => executed[c] = 1
    /\ result[c] \in DefiniteFailures \cup {"Answered", "Failed"} =>
         \A g \in Conns : g \notin Failing =>
           \A i \in 1..Len(Upward[g]) : ~Final(Upward[g][i], c)

\* Once the request in progress is executed, a sentinel comes after its answer.
Answering(s, k, c, size) ==
  /\ k \in 1..Len(s) /\ Final(s[k], c)
  /\ size = 0 => k >= FrameBytes

Refusable(s, c, size, failing) ==
  /\ \A i \in 1..Len(s) :
       s[i].of = Sentinel => \E k \in 1..i - 1 : Answering(s, k, c, size)
  /\ ~failing => \E k \in 1..Len(s) : Answering(s, k, c, size)

RefusalInv ==
  cpc # "idle" /\ executed[request.call] > 0 =>
    Refusable(Downward[descriptor], request.call, reader.size, descriptor \in Failing)

\* Answers follow each other; the last is whole unless the handler gave up.
Chained(s) ==
  \A i, j \in 1..Len(s) : i <= j =>
    /\ s[i].at + (j - i) <= FrameBytes => Is(s[j], s[i].of, s[i].at + (j - i))
    /\ s[i].at + (j - i) = FrameBytes + 1 => s[j].at = 1

ChainInv ==
  \A g \in Conns :
    /\ Chained(Downward[g])
    /\ g \notin Closing /\ Len(Downward[g]) > 0 =>
         Downward[g][Len(Downward[g])].at = FrameBytes

\* As long as no call threw half-way, nothing but the exchange in progress is on
\* the client's connection, and both ends are in step: what comes back is the
\* answer and then perhaps a sentinel, the reader is at the beginning of a frame
\* or of a payload, and once there is an answer nothing is left of the request.
Of(m, c) == c # 0 /\ m.call = c

Orderly(s, c) ==
  /\ \A i \in 1..Len(s) : s[i].of = Sentinel \/ Of(s[i].of, c)
  /\ \A i, j \in 1..Len(s) : i <= j =>
       /\ Of(s[i].of, c) /\ Of(s[j].of, c) => j - i = s[j].at - s[i].at
       /\ s[i].of = Sentinel => s[j].of = Sentinel

InStep(s, size, closing) ==
  /\ size \in {0, PayloadBytes}
  /\ Len(s) > 0 => s[1].at = IF size = 0 THEN 1 ELSE HeaderBytes + 1
  /\ Len(s) = 0 /\ size # 0 => closing

OneWay(u, s, c) ==
  /\ \A i \in 1..Len(u) : Of(u[i].of, c)
  /\ (\E i \in 1..Len(s) : Of(s[i].of, c)) => Len(u) = 0

InCall == IF cpc = "idle" THEN 0 ELSE request.call

ApartInv ==
  ~threw /\ descriptor # 0 =>
    /\ Orderly(Downward[descriptor], InCall)
    /\ InStep(Downward[descriptor], reader.size, descriptor \in Closing)
    /\ descriptor \notin Failing =>
         OneWay(Upward[descriptor], Downward[descriptor], InCall)

ExchangeInv ==
  /\ StateOK /\ CallInv /\ HandlerInv /\ FreshInv /\ MessageInv /\ CurrentInv
  /\ OnceInv /\ SettledInv /\ RefusalInv /\ ChainInv /\ ApartInv /\ AnswersMatch

-----------------------------------------------------------------------------
(* What a step does to a sequence of bytes                                   *)

\* t is the part of s that begins after its first k bytes.
Part(s, t, k) ==
  /\ k \in Nat /\ k + Len(t) <= Len(s)
  /\ \A i \in 1..Len(t) : t[i] = s[i + k]

\* t is s and the frame of m.
Extended(s, t, m) ==
  /\ Len(t) = Len(s) + FrameBytes
  /\ \A i \in 1..Len(s) : t[i] = s[i]
  /\ \A i \in 1..FrameBytes : Is(t[Len(s) + i], m, i)

\* Sizes of frames (frame.hpp): a payload is not empty and not out of bounds.
LEMMA Sizes ==
  /\ HeaderBytes \in Nat /\ HeaderBytes > 0
  /\ PayloadBytes \in Nat /\ PayloadBytes > 0
  /\ PrefixBytes \in Nat /\ PrefixBytes > 0 /\ PrefixBytes <= PayloadBytes
  /\ FrameBytes \in Nat /\ FrameBytes = HeaderBytes + PayloadBytes
  /\ MaximumPayload \in Nat /\ PayloadBytes <= MaximumPayload
  /\ OutOfBounds \in Nat /\ OutOfBounds = MaximumPayload + 1
BY DEF FrameBytes, OutOfBounds

\* What write_frame sends of a message is a sequence of bytes.
LEMMA FrameIsBytes ==
  ASSUME NEW m \in Messages
  PROVE  /\ Frame(m) \in Seq(Bytes) /\ Len(Frame(m)) = FrameBytes
         /\ \A i \in 1..FrameBytes : Frame(m)[i] \in Bytes /\ Is(Frame(m)[i], m, i)
<1>1. FrameBytes \in Nat
  BY Zenon, Sizes
<1>2. \A i \in 1..FrameBytes : [of |-> m, at |-> i] \in Bytes
  BY Zenon, <1>1 DEF Bytes
<1>3. Frame(m) \in [1..FrameBytes -> Bytes]
  BY Zenon, <1>2 DEF Frame
<1> QED
  BY <1>1, <1>2, <1>3 DEF Frame, Is

\* What a sequence of bytes holds.
LEMMA BytesOf ==
  ASSUME NEW s \in Seq(Bytes)
  PROVE  /\ Len(s) \in Nat
         /\ \A i \in 1..Len(s) : s[i] \in Bytes /\ s[i].of \in Messages
                                  /\ s[i].at \in 1..FrameBytes
<1>1. Len(s) \in Nat /\ \A i \in 1..Len(s) : s[i] \in Bytes
  BY Zenon, LenProperties, ElementOfSeq
<1>2. \A b \in Bytes : b.of \in Messages /\ b.at \in 1..FrameBytes
  BY Zenon DEF Bytes
<1> QED
  BY <1>1, <1>2, Zenon

\* What write_frame has still to send of a message after n bytes.
LEMMA RestOfFrame ==
  ASSUME NEW m \in Messages, NEW n \in 0..FrameBytes
  PROVE  LET r == SubSeq(Frame(m), n + 1, FrameBytes) IN
         /\ r \in Seq(Bytes) /\ Len(r) = FrameBytes - n
         /\ \A i \in 1..FrameBytes - n : Is(r[i], m, n + i)
<1> DEFINE f == Frame(m)
<1>1. /\ f \in Seq(Bytes) /\ Len(f) = FrameBytes
      /\ \A i \in 1..FrameBytes : f[i] \in Bytes /\ Is(f[i], m, i)
  BY Zenon, FrameIsBytes
<1> HIDE DEF f
<1>2. /\ SubSeq(f, n + 1, FrameBytes) \in Seq(Bytes)
      /\ Len(SubSeq(f, n + 1, FrameBytes)) =
           IF n + 1 <= FrameBytes THEN FrameBytes - (n + 1) + 1 ELSE 0
      /\ \A i \in 1..FrameBytes - (n + 1) + 1 :
           SubSeq(f, n + 1, FrameBytes)[i] = f[(n + 1) + i - 1]
  <2>1. n + 1 \in Int /\ FrameBytes \in Int /\ \A i \in n + 1..FrameBytes : f[i] \in Bytes
    BY <1>1, Sizes
  <2> QED
    BY <2>1, SubSeqProperties
<1>3. /\ SubSeq(f, n + 1, FrameBytes) \in Seq(Bytes)
      /\ Len(SubSeq(f, n + 1, FrameBytes)) = FrameBytes - n
      /\ \A i \in 1..FrameBytes - n : SubSeq(f, n + 1, FrameBytes)[i] = f[n + i]
  BY <1>2, Sizes
<1>4. \A i \in 1..FrameBytes - n : n + i \in 1..FrameBytes
  BY Sizes
<1>5. \A i \in 1..FrameBytes - n : Is(SubSeq(f, n + 1, FrameBytes)[i], m, n + i)
  BY <1>1, <1>3, <1>4 DEF Is
<1> QED
  BY Zenon, <1>3, <1>5 DEF f

\* w holds the bytes of a, b and c in a row.
Laid(w, a, b, c) ==
  /\ w \in Seq(Bytes) /\ Len(a) \in Nat /\ Len(b) \in Nat /\ Len(c) \in Nat
  /\ Len(w) = Len(a) + Len(b) + Len(c)
  /\ \A i \in 1..Len(a) : w[i] = a[i]
  /\ \A i \in 1..Len(b) : w[Len(a) + i] = b[i]
  /\ \A i \in 1..Len(c) : w[Len(a) + Len(b) + i] = c[i]

\* Three pieces in a row, by position.
LEMMA Pieces ==
  ASSUME NEW a \in Seq(Bytes), NEW b \in Seq(Bytes), NEW c \in Seq(Bytes)
  PROVE  Row(a, b, c) \in Seq(Bytes) /\ Laid(Row(a, b, c), a, b, c)
<1> DEFINE d == b \o c
<1>1. Len(a) \in Nat /\ Len(b) \in Nat /\ Len(c) \in Nat
  BY Zenon, LenProperties
<1>2. /\ d \in Seq(Bytes) /\ Len(d) = Len(b) + Len(c)
      /\ \A i \in 1..Len(b) + Len(c) : d[i] = IF i <= Len(b) THEN b[i] ELSE c[i - Len(b)]
  BY Zenon, ConcatProperties
<1> HIDE DEF d
<1>3. /\ a \o d \in Seq(Bytes) /\ Len(a \o d) = Len(a) + Len(d)
      /\ \A i \in 1..Len(a) + Len(d) :
           (a \o d)[i] = IF i <= Len(a) THEN a[i] ELSE d[i - Len(a)]
  BY Zenon, <1>2, ConcatProperties
<1> DEFINE e == a \o d
<1> HIDE DEF e
<1>4. /\ e \in Seq(Bytes) /\ Len(e) = Len(a) + (Len(b) + Len(c))
      /\ \A i \in 1..Len(a) + (Len(b) + Len(c)) :
           e[i] = IF i <= Len(a) THEN a[i] ELSE d[i - Len(a)]
  BY Zenon, <1>2, <1>3 DEF e
<1>5. \A i \in 1..Len(a) : e[i] = a[i]
  BY <1>1, <1>4
<1>6. \A i \in 1..Len(b) : e[Len(a) + i] = b[i]
  <2> TAKE i \in 1..Len(b)
  <2>1. e[Len(a) + i] = d[(Len(a) + i) - Len(a)] /\ (Len(a) + i) - Len(a) = i
    BY <1>1, <1>4
  <2> QED
    BY <1>1, <1>2, <2>1
<1>7. \A i \in 1..Len(c) : e[Len(a) + Len(b) + i] = c[i]
  <2> TAKE i \in 1..Len(c)
  <2>1. /\ e[Len(a) + Len(b) + i] = d[(Len(a) + Len(b) + i) - Len(a)]
        /\ (Len(a) + Len(b) + i) - Len(a) = Len(b) + i
    BY <1>1, <1>4
  <2>2. d[Len(b) + i] = c[(Len(b) + i) - Len(b)] /\ (Len(b) + i) - Len(b) = i
    BY <1>1, <1>2
  <2> QED
    BY Zenon, <2>1, <2>2
<1> QED
  BY <1>1, <1>4, <1>5, <1>6, <1>7 DEF d, e, Row, Laid

\* The order in which pieces are put together makes no difference.
LEMMA CatAssociative ==
  ASSUME NEW s \in Seq(Bytes), NEW t \in Seq(Bytes), NEW u \in Seq(Bytes)
  PROVE  (s \o t) \o u = s \o (t \o u)
<1> DEFINE p == s \o t
           l == p \o u
           r == s \o (t \o u)
<1>1. Len(s) \in Nat /\ Len(t) \in Nat /\ Len(u) \in Nat
  BY Zenon, LenProperties
<1>2. /\ p \in Seq(Bytes) /\ Len(p) = Len(s) + Len(t)
      /\ \A i \in 1..Len(s) + Len(t) : p[i] = IF i <= Len(s) THEN s[i] ELSE t[i - Len(s)]
  BY Zenon, ConcatProperties
<1> HIDE DEF p
<1>3. /\ l \in Seq(Bytes) /\ Len(l) = Len(p) + Len(u)
      /\ \A i \in 1..Len(p) + Len(u) : l[i] = IF i <= Len(p) THEN p[i] ELSE u[i - Len(p)]
  BY Zenon, <1>2, ConcatProperties
<1>4. /\ r \in Seq(Bytes) /\ Len(r) = Len(s) + Len(t) + Len(u)
      /\ \A i \in 1..Len(s) : r[i] = s[i]
      /\ \A i \in 1..Len(t) : r[Len(s) + i] = t[i]
      /\ \A i \in 1..Len(u) : r[Len(s) + Len(t) + i] = u[i]
  <2>1. Laid(r, s, t, u)
    BY Zenon, Pieces DEF Row
  <2> QED
    BY Zenon, <2>1 DEF Laid
<1> HIDE DEF l, r
<1>5. \A i \in 1..Len(l) : l[i] = r[i]
  <2> TAKE i \in 1..Len(l)
  <2>1. CASE i <= Len(s)
    BY <1>1, <1>2, <1>3, <1>4, <2>1
  <2>2. CASE i > Len(s) /\ i <= Len(s) + Len(t)
    <3>1. i - Len(s) \in 1..Len(t) /\ Len(s) + (i - Len(s)) = i
      BY <1>1, <1>2, <1>3, <2>2
    <3>2. r[i] = t[i - Len(s)]
      BY Zenon, <1>4, <3>1
    <3>3. l[i] = t[i - Len(s)]
      BY <1>1, <1>2, <1>3, <2>2
    <3> QED
      BY Zenon, <3>2, <3>3
  <2>3. CASE i > Len(s) + Len(t)
    <3>1. /\ i - Len(p) \in 1..Len(u) /\ Len(s) + Len(t) + (i - Len(p)) = i
      BY <1>1, <1>2, <1>3, <2>3
    <3>2. r[i] = u[i - Len(p)]
      BY Zenon, <1>4, <3>1
    <3>3. l[i] = u[i - Len(p)]
      BY <1>1, <1>2, <1>3, <2>3
    <3> QED
      BY Zenon, <3>2, <3>3
  <2> QED
    BY <1>1, <1>2, <1>3, <2>1, <2>2, <2>3
<1>6. l = r
  BY <1>1, <1>2, <1>3, <1>4, <1>5, SeqEqual
<1> QED
  BY Zenon, <1>6 DEF l, r, p

\* The last piece ends the row.
LEMMA LaidLast ==
  ASSUME NEW w, NEW a, NEW b, NEW c, Laid(w, a, b, c), Len(c) > 0
  PROVE  Len(w) \in Nat /\ Len(w) >= Len(c) /\ w[Len(w)] = c[Len(c)]
<1>1. Len(c) \in 1..Len(c) /\ Len(w) = Len(a) + Len(b) + Len(c) /\ Len(w) \in Nat
  BY DEF Laid
<1>2. w[Len(a) + Len(b) + Len(c)] = c[Len(c)]
  BY <1>1, Zenon DEF Laid
<1>3. Len(w) >= Len(c)
  BY DEF Laid
<1> QED
  BY <1>1, <1>2, <1>3, Zenon

\* send moves bytes from what is left of a frame onto the stream, and recv from
\* the stream to the reader: the row of bytes stays what it is.
LEMMA SendMoves ==
  ASSUME NEW a \in Seq(Bytes), NEW b \in Seq(Bytes), NEW m \in Messages,
         NEW x \in 0..FrameBytes, NEW n \in 0..FrameBytes - x
  PROVE  Row(a, b \o SubSeq(Frame(m), x + 1, x + n),
                SubSeq(Frame(m), x + n + 1, FrameBytes))
         = Row(a, b, SubSeq(Frame(m), x + 1, FrameBytes))
<1> DEFINE f == Frame(m)
<1>1. f \in Seq(Bytes) /\ Len(f) = FrameBytes /\ \A i \in 1..FrameBytes : f[i] \in Bytes
  BY Zenon, FrameIsBytes
<1> HIDE DEF f
<1>2. SubSeq(f, x + 1, x + n) \in Seq(Bytes) /\ SubSeq(f, x + n + 1, FrameBytes) \in Seq(Bytes)
  <2>1. /\ x + 1 \in Int /\ x + n \in Int /\ x + n + 1 \in Int /\ FrameBytes \in Int
        /\ \A i \in x + 1..x + n : f[i] \in Bytes
        /\ \A i \in x + n + 1..FrameBytes : f[i] \in Bytes
    BY <1>1, Sizes
  <2> QED
    BY Zenon, <2>1, SubSeqProperties
<1>3. SubSeq(f, x + 1, x + n) \o SubSeq(f, x + n + 1, FrameBytes) =
        SubSeq(f, x + 1, FrameBytes)
  <2>1. /\ x + 1 \in 1..Len(f) + 1 /\ x + n \in (x + 1) - 1..Len(f)
        /\ FrameBytes \in x + n..Len(f)
    BY <1>1, Sizes
  <2> QED
    BY Zenon, <1>1, <2>1, ConcatAdjacentSubSeq
<1>4. (b \o SubSeq(f, x + 1, x + n)) \o SubSeq(f, x + n + 1, FrameBytes) =
        b \o (SubSeq(f, x + 1, x + n) \o SubSeq(f, x + n + 1, FrameBytes))
  BY Zenon, <1>2, CatAssociative
<1> QED
  BY Zenon, <1>3, <1>4 DEF f, Row

\* recv takes n bytes of the stream (frame.cpp): the row of what was read and what
\* is still to be read stays as it was.
LEMMA ReceiveMoves ==
  ASSUME NEW a \in Seq(Bytes), NEW b \in Seq(Bytes), NEW c \in Seq(Bytes),
         NEW n \in 1..Len(b)
  PROVE  /\ SubSeq(b, 1, n) \in Seq(Bytes) /\ SubSeq(b, n + 1, Len(b)) \in Seq(Bytes)
         /\ Len(SubSeq(b, 1, n)) = n /\ Len(SubSeq(b, n + 1, Len(b))) = Len(b) - n
         /\ a \o SubSeq(b, 1, n) \in Seq(Bytes)
         /\ Len(a \o SubSeq(b, 1, n)) = Len(a) + n
         /\ Row(a \o SubSeq(b, 1, n), SubSeq(b, n + 1, Len(b)), c) = Row(a, b, c)
<1>1. Len(a) \in Nat /\ Len(b) \in Nat /\ \A i \in 1..Len(b) : b[i] \in Bytes
  BY Zenon, LenProperties, ElementOfSeq
<1>2. /\ SubSeq(b, 1, n) \in Seq(Bytes) /\ SubSeq(b, n + 1, Len(b)) \in Seq(Bytes)
      /\ Len(SubSeq(b, 1, n)) = (IF 1 <= n THEN n - 1 + 1 ELSE 0)
      /\ Len(SubSeq(b, n + 1, Len(b))) = (IF n + 1 <= Len(b) THEN Len(b) - (n + 1) + 1 ELSE 0)
  <2>1. /\ n \in Int /\ 1 \in Int /\ n + 1 \in Int /\ Len(b) \in Int
        /\ \A i \in 1..n : b[i] \in Bytes
        /\ \A i \in n + 1..Len(b) : b[i] \in Bytes
    BY <1>1
  <2> QED
    BY <2>1, SubSeqProperties
<1> DEFINE p == SubSeq(b, 1, n)
           q == SubSeq(b, n + 1, Len(b))
<1>3. p \in Seq(Bytes) /\ q \in Seq(Bytes) /\ Len(p) = n /\ Len(q) = Len(b) - n
  BY <1>1, <1>2
<1>4. p \o q = b
  <2>1. /\ 1 \in 1..Len(b) + 1 /\ n \in 1 - 1..Len(b) /\ Len(b) \in n..Len(b)
    BY <1>1
  <2>2. p \o q = SubSeq(b, 1, Len(b))
    BY Zenon, <2>1, ConcatAdjacentSubSeq
  <2> QED
    BY Zenon, <2>2, SubSeqFull
<1> HIDE DEF p, q
<1>5. a \o p \in Seq(Bytes) /\ Len(a \o p) = Len(a) + n
  BY Zenon, <1>3, ConcatProperties
<1>6. (a \o p) \o (q \o c) = a \o (b \o c)
  <2>1. q \o c \in Seq(Bytes)
    BY Zenon, <1>3, ConcatProperties
  <2>2. (a \o p) \o (q \o c) = a \o (p \o (q \o c))
    BY <1>3, <2>1, CatAssociative
  <2>3. p \o (q \o c) = (p \o q) \o c
    <3>1. p \in Seq(Bytes) /\ q \in Seq(Bytes) /\ c \in Seq(Bytes)
      BY <1>3, Zenon
    <3>2. (p \o q) \o c = p \o (q \o c)
      BY <3>1, CatAssociative
    <3> QED
      BY <3>2, Zenon
  <2> QED
    BY Zenon, <1>4, <2>2, <2>3
<1> QED
  BY Zenon, <1>3, <1>5, <1>6 DEF p, q, Row

\* What is taken from the front or the end of a row leaves a part of it.
LEMMA PartSame ==
  ASSUME NEW s \in Seq(Bytes)
  PROVE  Part(s, s, 0)
<1>1. Len(s) \in Nat
  BY Zenon, LenProperties
<1> QED
  BY <1>1 DEF Part

\* What is left of a row when the bytes read so far are dropped, when the stream
\* is dropped too, or when n more bytes of it are.
LEMMA PartTail ==
  ASSUME NEW a \in Seq(Bytes), NEW b \in Seq(Bytes), NEW c \in Seq(Bytes)
  PROVE  /\ Part(Row(a, b, c), Row(<<>>, b, c), Len(a))
         /\ Part(Row(a, b, c), Row(<<>>, <<>>, c), Len(a) + Len(b))
         /\ \A n \in 1..Len(b) :
              Part(Row(a, b, c), Row(<<>>, SubSeq(b, n + 1, Len(b)), c), Len(a) + n)
<1> DEFINE w == Row(a, b, c)
           d == b \o c
<1>1. <<>> \in Seq(Bytes) /\ Len(<<>>) = 0
  BY Zenon, EmptySeq
<1>2. /\ Len(a) \in Nat /\ Len(b) \in Nat /\ Len(c) \in Nat
      /\ w \in Seq(Bytes) /\ Len(w) = Len(a) + Len(b) + Len(c)
      /\ \A i \in 1..Len(b) : w[Len(a) + i] = b[i]
      /\ \A i \in 1..Len(c) : w[Len(a) + Len(b) + i] = c[i]
  <2>1. Laid(w, a, b, c)
    BY Zenon, Pieces
  <2> QED
    BY Zenon, <2>1 DEF Laid
<1>3. d \in Seq(Bytes) /\ <<>> \o d = d /\ <<>> \o (<<>> \o c) = c
  BY Zenon, ConcatProperties, ConcatEmptySeq
<1>4. w = a \o d /\ Len(d) \in Nat
  BY Zenon, <1>3, LenProperties DEF Row
<1>5. Part(w, d, Len(a))
  <2>1. /\ Len(a \o d) = Len(a) + Len(d)
        /\ \A i \in 1..Len(a) + Len(d) : (a \o d)[i] = IF i <= Len(a) THEN a[i] ELSE d[i - Len(a)]
    BY Zenon, <1>3, ConcatProperties
  <2> HIDE DEF d, w
  <2>2. \A i \in 1..Len(d) : w[i + Len(a)] = d[(i + Len(a)) - Len(a)]
    BY <1>2, <1>4, <2>1
  <2>3. \A i \in 1..Len(d) : w[i + Len(a)] = d[i]
    BY <1>2, <1>4, <2>2
  <2> QED
    BY <1>2, <1>4, <2>1, <2>3 DEF Part
<1>6. Part(w, c, Len(a) + Len(b))
  <2> HIDE DEF w
  <2>1. \A i \in 1..Len(c) : w[i + (Len(a) + Len(b))] = c[i]
    <3> TAKE i \in 1..Len(c)
    <3>1. i + (Len(a) + Len(b)) = Len(a) + Len(b) + i
      BY <1>2
    <3> QED
      BY Zenon, <1>2, <3>1
  <2> QED
    BY <1>2, <2>1 DEF Part
<1>7. ASSUME NEW n \in 1..Len(b)
      PROVE  Part(w, Row(<<>>, SubSeq(b, n + 1, Len(b)), c), Len(a) + n)
  <2> DEFINE p == SubSeq(b, 1, n)
             q == SubSeq(b, n + 1, Len(b))
             e == q \o c
  <2>1. /\ p \in Seq(Bytes) /\ q \in Seq(Bytes)
        /\ a \o p \in Seq(Bytes) /\ Len(a \o p) = Len(a) + n
        /\ (a \o p) \o (q \o c) = w
    <3>1. Row(a \o p, q, c) = w
      BY ReceiveMoves
    <3>2. p \in Seq(Bytes) /\ q \in Seq(Bytes)
      BY Zenon, ReceiveMoves
    <3>3. a \o p \in Seq(Bytes) /\ Len(a \o p) = Len(a) + n
      BY ReceiveMoves
    <3> HIDE DEF w, p, q
    <3> QED
      BY Zenon, <3>1, <3>2, <3>3 DEF Row
  <2>2. e \in Seq(Bytes) /\ <<>> \o e = e
    BY Zenon, <2>1, ConcatProperties, ConcatEmptySeq
  <2> DEFINE f == a \o p
  <2>3. f \in Seq(Bytes) /\ Len(f) = Len(a) + n /\ f \o e = w
    BY Zenon, <2>1
  <2> HIDE DEF e, f, w
  <2>4. /\ Len(w) = Len(f) + Len(e)
        /\ \A i \in 1..Len(f) + Len(e) : w[i] = IF i <= Len(f) THEN f[i] ELSE e[i - Len(f)]
    BY Zenon, <2>2, <2>3, ConcatProperties
  <2>5. Len(e) \in Nat /\ Len(f) \in Nat
    BY Zenon, <2>2, <2>3, LenProperties
  <2>6. \A i \in 1..Len(e) : w[i + Len(f)] = e[(i + Len(f)) - Len(f)]
    BY <2>4, <2>5
  <2>7. \A i \in 1..Len(e) : w[i + Len(f)] = e[i]
    BY <2>5, <2>6
  <2>8. Part(w, e, Len(f))
    BY <2>4, <2>5, <2>7 DEF Part
  <2> QED
    BY Zenon, <2>2, <2>3, <2>8 DEF e, Row
<1> QED
  BY Zenon, <1>3, <1>5, <1>6, <1>7 DEF Row

\* A writer that gives up takes what it has not sent off the end of the row.
LEMMA PartFront ==
  ASSUME NEW a \in Seq(Bytes), NEW b \in Seq(Bytes), NEW c \in Seq(Bytes)
  PROVE  /\ Part(Row(a, b, c), Row(a, b, <<>>), 0)
         /\ Len(Row(a, b, <<>>)) = Len(Row(a, b, c)) - Len(c)
<1> DEFINE w == Row(a, b, c)
           v == Row(a, b, <<>>)
<1>1. <<>> \in Seq(Bytes) /\ Len(<<>>) = 0
  BY Zenon, EmptySeq
<1>2. /\ Len(a) \in Nat /\ Len(b) \in Nat /\ Len(c) \in Nat
      /\ w \in Seq(Bytes) /\ Len(w) = Len(a) + Len(b) + Len(c)
      /\ \A i \in 1..Len(a) : w[i] = a[i]
      /\ \A i \in 1..Len(b) : w[Len(a) + i] = b[i]
  <2>1. Laid(w, a, b, c)
    BY Zenon, Pieces
  <2> QED
    BY Zenon, <2>1 DEF Laid
<1>3. /\ v \in Seq(Bytes) /\ Len(v) = Len(a) + Len(b) + Len(<<>>)
      /\ \A i \in 1..Len(a) : v[i] = a[i]
      /\ \A i \in 1..Len(b) : v[Len(a) + i] = b[i]
  <2>1. Laid(v, a, b, <<>>)
    BY Zenon, <1>1, Pieces
  <2> QED
    BY Zenon, <2>1 DEF Laid
<1> HIDE DEF w, v
<1>4. \A i \in 1..Len(v) : v[i] = w[i]
  <2> TAKE i \in 1..Len(v)
  <2>1. CASE i <= Len(a)
    BY <1>1, <1>2, <1>3, <2>1
  <2>2. CASE i > Len(a)
    <3>1. i - Len(a) \in 1..Len(b) /\ Len(a) + (i - Len(a)) = i
      BY <1>1, <1>2, <1>3, <2>2
    <3> QED
      BY Zenon, <1>2, <1>3, <3>1
  <2> QED
    BY <1>1, <1>2, <1>3, <2>1, <2>2
<1>5. \A i \in 1..Len(v) : i + 0 = i
  BY <1>1, <1>2, <1>3
<1>6. Part(w, v, 0)
  BY <1>1, <1>2, <1>3, <1>4, <1>5 DEF Part
<1> QED
  BY <1>1, <1>2, <1>3, <1>6 DEF w, v

\* A frame that is about to be sent is added at the end.
LEMMA ExtendedByFrame ==
  ASSUME NEW a \in Seq(Bytes), NEW b \in Seq(Bytes), NEW m \in Messages
  PROVE  Extended(Row(a, b, <<>>), Row(a, b, SubSeq(Frame(m), 1, FrameBytes)), m)
<1> DEFINE c == SubSeq(Frame(m), 0 + 1, FrameBytes)
           w == Row(a, b, c)
           v == Row(a, b, <<>>)
<1>1. c \in Seq(Bytes) /\ Len(c) = FrameBytes - 0 /\ \A i \in 1..FrameBytes - 0 : Is(c[i], m, 0 + i)
  BY RestOfFrame, Sizes
<1>2. c \in Seq(Bytes) /\ Len(c) = FrameBytes /\ \A i \in 1..FrameBytes : Is(c[i], m, i)
  BY <1>1, Sizes
<1>3. c = SubSeq(Frame(m), 1, FrameBytes)
  OBVIOUS
<1> HIDE DEF c
<1>4. Len(a) \in Nat /\ Len(b) \in Nat /\ Len(w) = Len(a) + Len(b) + Len(c)
      /\ \A i \in 1..Len(c) : w[Len(a) + Len(b) + i] = c[i]
  <2>1. Laid(w, a, b, c)
    BY Zenon, <1>2, Pieces
  <2> QED
    BY Zenon, <2>1 DEF Laid
<1>5. Part(w, v, 0) /\ Len(v) = Len(w) - Len(c)
  BY Zenon, <1>2, PartFront
<1> HIDE DEF w, v
<1>6. Len(v) = Len(a) + Len(b) /\ Len(w) = Len(v) + FrameBytes /\ Len(v) \in Nat
  BY <1>2, <1>4, <1>5, Sizes
<1>7. \A i \in 1..Len(v) : w[i] = v[i]
  <2> TAKE i \in 1..Len(v)
  <2>1. v[i] = w[i + 0] /\ i + 0 = i
    BY <1>5, <1>6 DEF Part
  <2> QED
    BY Zenon, <2>1
<1>8. \A i \in 1..FrameBytes : Is(w[Len(v) + i], m, i)
  BY Zenon, <1>2, <1>4, <1>6
<1>9. Extended(v, w, m)
  BY Zenon, <1>6, <1>7, <1>8 DEF Extended
<1> QED
  BY Zenon, <1>3, <1>9 DEF w, v

\* Parts of a row keep how its bytes follow each other.
LEMMA PartTrailing ==
  ASSUME NEW s \in Seq(Bytes), NEW t \in Seq(Bytes), NEW k, NEW m,
         Part(s, t, k), Trailing(s, m)
  PROVE  Trailing(t, m)
<1>1. Len(s) \in Nat /\ Len(t) \in Nat /\ k \in Nat
  BY Zenon, LenProperties DEF Part
<1> SUFFICES ASSUME NEW i \in 1..Len(t), NEW j \in 1..Len(t), i <= j
             PROVE  /\ t[i].of = m => Is(t[j], m, t[i].at + (j - i))
                    /\ t[j].of = m /\ t[j].at > j - i => Is(t[i], m, t[j].at - (j - i))
  BY Zenon DEF Trailing
<1>2. /\ i + k \in 1..Len(s) /\ j + k \in 1..Len(s) /\ i + k <= j + k
      /\ (j + k) - (i + k) = j - i
  BY <1>1 DEF Part
<1>3. t[i] = s[i + k] /\ t[j] = s[j + k]
  BY Zenon DEF Part
<1> QED
  BY Zenon, <1>2, <1>3 DEF Trailing

\* Part of a row of frames that follow each other is one too.
LEMMA PartChained ==
  ASSUME NEW s \in Seq(Bytes), NEW t \in Seq(Bytes), NEW k,
         Part(s, t, k), Chained(s)
  PROVE  Chained(t)
<1>1. Len(s) \in Nat /\ Len(t) \in Nat /\ k \in Nat
  BY Zenon, LenProperties DEF Part
<1> SUFFICES ASSUME NEW i \in 1..Len(t), NEW j \in 1..Len(t), i <= j
             PROVE  /\ t[i].at + (j - i) <= FrameBytes => Is(t[j], t[i].of, t[i].at + (j - i))
                    /\ t[i].at + (j - i) = FrameBytes + 1 => t[j].at = 1
  BY Zenon DEF Chained
<1>2. /\ i + k \in 1..Len(s) /\ j + k \in 1..Len(s) /\ i + k <= j + k
      /\ (j + k) - (i + k) = j - i
  BY <1>1 DEF Part
<1>3. t[i] = s[i + k] /\ t[j] = s[j + k]
  BY Zenon DEF Part
<1> QED
  BY Zenon, <1>2, <1>3 DEF Chained

\* A whole frame behind whole frames.
LEMMA ExtendedChained ==
  ASSUME NEW s \in Seq(Bytes), NEW t \in Seq(Bytes), NEW m,
         Extended(s, t, m), Chained(s), Len(s) > 0 => s[Len(s)].at = FrameBytes
  PROVE  Chained(t) /\ Len(t) > 0 /\ t[Len(t)].at = FrameBytes
<1>1. /\ Len(s) \in Nat /\ Len(t) \in Nat /\ Len(t) = Len(s) + FrameBytes
      /\ FrameBytes \in Nat /\ FrameBytes > 0
      /\ \A i \in 1..Len(s) : t[i] = s[i] /\ s[i].at \in 1..FrameBytes
      /\ \A i \in 1..FrameBytes : t[Len(s) + i].of = m /\ t[Len(s) + i].at = i
  <2>1. /\ Len(s) \in Nat /\ Len(t) \in Nat
        /\ \A i \in 1..Len(s) : s[i].at \in 1..FrameBytes
    BY BytesOf, Zenon
  <2>2. FrameBytes \in Nat /\ FrameBytes > 0
    BY Sizes
  <2> QED
    BY <2>1, <2>2, Zenon DEF Extended, Is
<1>2. \A i \in 1..Len(t) : i > Len(s) => t[i].of = m /\ t[i].at = i - Len(s)
  <2> SUFFICES ASSUME NEW i \in 1..Len(t), i > Len(s)
               PROVE  t[i].of = m /\ t[i].at = i - Len(s)
    BY Zenon
  <2>1. i - Len(s) \in 1..FrameBytes /\ Len(s) + (i - Len(s)) = i
    BY <1>1
  <2> QED
    BY Zenon, <1>1, <2>1
<1>3. ASSUME NEW i \in 1..Len(t), NEW j \in 1..Len(t), i <= j
      PROVE  /\ t[i].at + (j - i) <= FrameBytes => Is(t[j], t[i].of, t[i].at + (j - i))
             /\ t[i].at + (j - i) = FrameBytes + 1 => t[j].at = 1
  <2>1. CASE j <= Len(s)
    <3>1. i \in 1..Len(s) /\ j \in 1..Len(s)
      BY <1>1, <1>3, <2>1
    <3> QED
      BY <1>1, <1>3, <3>1 DEF Chained
  <2>2. CASE i > Len(s)
    BY <1>1, <1>2, <1>3, <2>2 DEF Is
  <2>3. CASE i <= Len(s) /\ j > Len(s)
    <3>1. i \in 1..Len(s) /\ Len(s) \in 1..Len(s) /\ i <= Len(s)
      BY <1>1, <2>3
    <3>2. s[i].at + (Len(s) - i) <= FrameBytes => s[i].at + (Len(s) - i) = FrameBytes
      <4>1. s[i].at + (Len(s) - i) <= FrameBytes =>
              Is(s[Len(s)], s[i].of, s[i].at + (Len(s) - i))
        BY Zenon, <3>1 DEF Chained
      <4> QED
        BY <1>1, <3>1, <4>1 DEF Is
    <3>3. t[i].at = s[i].at /\ t[i].at \in 1..FrameBytes /\ t[j].at = j - Len(s)
      BY Zenon, <1>1, <1>2, <2>3, <3>1
    <3> QED
      BY <1>1, <2>3, <3>2, <3>3
  <2> QED
    BY <1>1, <2>1, <2>2, <2>3
<1>4. Chained(t)
  BY Zenon, <1>3 DEF Chained
<1>5. Len(t) > 0 /\ t[Len(t)].at = FrameBytes
  BY <1>1
<1> QED
  BY Zenon, <1>4, <1>5

-----------------------------------------------------------------------------
(* Types                                                                     *)

\* The messages the model makes are messages.
LEMMA MessageTypes ==
  /\ NoMessage \in Messages /\ Sentinel \in Messages
  /\ \A m \in Messages : /\ [m EXCEPT !.call = 0] \in Messages
                         /\ [m EXCEPT !.kind = "failure"] \in Messages
                         /\ [m EXCEPT !.kind = "response"] \in Messages
BY DEF NoMessage, Sentinel, Message, Messages, Ids

\* read_frame keeps its state in range.
LEMMA ReaderTypes ==
  /\ NewReader \in Readers
  /\ \A r \in Readers : r.size \in 0..OutOfBounds /\ r.got \in Seq(Bytes)
  /\ \A r \in Readers, bytes \in Seq(Bytes) : AfterBytes(r, bytes) \subseteq Readers
  /\ \A r \in Readers : Complete(r) \/ Correlated(r) => r.got[1] \in Bytes /\ r.got[1].of \in Messages
<1>1. NewReader \in Readers
  BY EmptySeq, Sizes DEF NewReader, Readers
<1>2. \A r \in Readers : r.size \in 0..OutOfBounds /\ r.got \in Seq(Bytes)
  BY Zenon DEF Readers
<1>3. ASSUME NEW r \in Readers, NEW bytes \in Seq(Bytes), NEW t \in AfterBytes(r, bytes)
      PROVE  t \in Readers
  <2>1. r.got \o bytes \in Seq(Bytes)
    BY Zenon, <1>2, ConcatProperties
  <2> DEFINE got == r.got \o bytes
  <2>2. got \in Seq(Bytes)
    BY Zenon, <2>1
  <2>3. DeclaredSizes(got) \subseteq 0..OutOfBounds
    BY Sizes DEF DeclaredSizes
  <2>4. <<>> \in Seq(Bytes)
    BY Zenon, EmptySeq
  <2>5. t \in [size : DeclaredSizes(got), got : {<<>>}] \/ t = [size |-> r.size, got |-> got]
    BY Zenon DEF AfterBytes
  <2> HIDE DEF got
  <2> QED
    BY Zenon, <1>2, <2>2, <2>3, <2>4, <2>5 DEF Readers
<1>4. ASSUME NEW r \in Readers, Complete(r) \/ Correlated(r)
      PROVE  r.got[1] \in Bytes /\ r.got[1].of \in Messages
  <2>1. Len(r.got) \in Nat
    BY Zenon, <1>2, BytesOf
  <2>2. Len(r.got) > 0
    <3>1. CASE Complete(r)
      BY <2>1, <3>1 DEF Complete
    <3>2. CASE Correlated(r)
      <4>1. Len(r.got) >= PrefixBytes
        BY <3>2, Zenon DEF Correlated
      <4> QED
        BY <2>1, <4>1, Sizes
    <3> QED
      BY <1>4, <3>1, <3>2, Zenon
  <2> QED
    BY <1>2, <2>1, <2>2, BytesOf
<1> QED
  BY Zenon, <1>1, <1>2, <1>3, <1>4

\* encode_protocol_error makes a message of what arrived.
LEMMA FailureTypes ==
  ASSUME NEW r \in Readers
  PROVE  Failure(r) \in Messages
BY ReaderTypes, MessageTypes, Zenon DEF Failure

\* The initial state is of its type.
LEMMA StateOKInit ==
  ASSUME Init
  PROVE  StateOK
<1>1. FrameBytes \in Nat /\ 0 \in 0..FrameBytes
  BY Sizes
<1>2. <<>> \in Seq(Bytes) /\ Len(<<>>) = 0
  BY Zenon, EmptySeq
<1>3. NoMessage \in Messages /\ NewReader \in Readers
  BY Zenon, MessageTypes, ReaderTypes
<1>4. ClientOK
  BY <1>1, <1>3 DEF Init, ClientOK, Ids
<1>5. StreamOK
  BY <1>2 DEF Init, StreamOK
<1>6. HandlerOK
  BY Zenon, <1>1, <1>3 DEF Init, HandlerOK
<1>7. HistoryOK
  BY DEF Init, HistoryOK, Results
<1>8. threw \in BOOLEAN
  BY Zenon DEF Init
<1> QED
  BY <1>4, <1>5, <1>6, <1>7, <1>8, Zenon DEF StateOK

\* The types of the variables are those of the module.
LEMMA StateOKIsTyped ==
  ASSUME StateOK
  PROVE  TypeOK
BY Zenon DEF StateOK, ClientOK, StreamOK, HandlerOK, HistoryOK, TypeOK

\* A call that ends leaves the client's state of its type.
LEMMA EndCallTypes ==
  ASSUME StateOK, NEW how \in Results, EndCall(how)
  PROVE  /\ descriptor' \in {0, descriptor} => ClientOK'
         /\ clientOpen' \in {clientOpen, clientOpen \ {descriptor}}
              /\ UNCHANGED <<up, down, serverOpen>> => StreamOK'
         /\ answeredFor' \in [Calls -> 0..MaxCalls] => HistoryOK'
<1>1. NoMessage \in Messages /\ NewReader \in Readers /\ 0 \in 0..FrameBytes
  BY MessageTypes, ReaderTypes, Sizes
<1>2. descriptor' \in {0, descriptor} => ClientOK'
  BY <1>1 DEF StateOK, ClientOK, EndCall
<1>3. clientOpen' \in {clientOpen, clientOpen \ {descriptor}}
        /\ UNCHANGED <<up, down, serverOpen>> => StreamOK'
  BY Zenon DEF StateOK, StreamOK, EndCall
<1>4. answeredFor' \in [Calls -> 0..MaxCalls] => HistoryOK'
  BY Zenon DEF StateOK, HistoryOK, EndCall
<1> QED
  BY Zenon, <1>2, <1>3, <1>4

\* And so does a call that throws, or one that drops its connection.
LEMMA FailedCallTypes ==
  ASSUME StateOK, NEW how \in Results,
         (EndCall(how) /\ Reset /\ UNCHANGED <<answeredFor, threw>>) \/ Throw,
         UNCHANGED <<up, down, serverOpen, handlerVars>>
  PROVE  StateOK'
<1>1. "Threw" \in Results
  BY Zenon DEF Results
<1>2. PICK end \in Results : EndCall(end)
  BY <1>1, Zenon DEF Throw
<1>3. /\ descriptor' \in {0, descriptor} /\ answeredFor' = answeredFor
      /\ clientOpen' \in {clientOpen, clientOpen \ {descriptor}}
      /\ threw' \in {threw, TRUE}
  BY Zenon DEF Throw, Reset
<1>4. ClientOK' /\ StreamOK' /\ HistoryOK'
  <2>1. answeredFor' \in [Calls -> 0..MaxCalls]
    BY Zenon, <1>3 DEF StateOK, HistoryOK
  <2> QED
    BY Zenon, <1>2, <1>3, <2>1, EndCallTypes
<1>5. HandlerOK'
  BY Zenon DEF StateOK, HandlerOK, handlerVars
<1>6. threw' \in BOOLEAN
  BY <1>3, Zenon DEF StateOK
<1> QED
  BY <1>4, <1>5, <1>6, Zenon DEF StateOK

\* A failure that is written or not is of its type.
LEMMA FailTypes ==
  ASSUME StateOK, NEW g \in Conns, NEW m \in Messages, Fail(g, m)
  PROVE  HandlerOK'
BY Zenon, ReaderTypes DEF StateOK, HandlerOK, Fail

\* Every step keeps the state of its type.
LEMMA StateOKStep ==
  ASSUME StateOK, Next
  PROVE  StateOK'
<1> USE DEF StateOK
<1>1. CASE ConnectOpen
  <2>1. ClientOK' /\ HistoryOK' /\ threw' \in BOOLEAN
    BY <1>1, Zenon DEF ConnectOpen, ClientOK, HistoryOK, callVars
  <2>2. StreamOK'
    BY Zenon, <1>1 DEF ConnectOpen, StreamOK
  <2>3. HandlerOK'
    BY Zenon, <1>1, MessageTypes DEF ConnectOpen, HandlerOK
  <2> QED
    BY <2>1, <2>2, <2>3, Zenon
<1>2. CASE Disconnect
  <2>1. HandlerOK' /\ HistoryOK' /\ threw' \in BOOLEAN
    BY <1>2, Zenon DEF Disconnect, HandlerOK, HistoryOK, callVars, handlerVars
  <2>2. ClientOK' /\ StreamOK'
    BY <1>2 DEF Disconnect, ClientOK, StreamOK
  <2> QED
    BY <2>1, <2>2, Zenon
<1>3. CASE CallBegin
  <2>1. HandlerOK' /\ threw' \in BOOLEAN
    BY <1>3, Zenon DEF CallBegin, HandlerOK, handlerVars
  <2>2. StreamOK'
    BY Zenon, <1>3 DEF CallBegin, StreamOK
  <2>3. HistoryOK'
    BY <1>3 DEF CallBegin, HistoryOK, Results
  <2>4. ClientOK'
    <3>1. NextRequestId \in Ids
      BY DEF NextRequestId, Ids, ClientOK
    <3>2. Message("request", calls', next_request_id) \in Messages
      BY <1>3 DEF CallBegin, Message, Messages, ClientOK, HistoryOK
    <3>3. next_request_id # 0 => Message("request", calls', next_request_id).id # 0
      BY Zenon DEF Message
    <3> QED
      BY <1>3, <3>1, <3>2, <3>3 DEF CallBegin, ClientOK
  <2> QED
    BY <2>1, <2>2, <2>3, <2>4, Zenon
<1>4. CASE ClientSend
  <2>1. HandlerOK' /\ HistoryOK' /\ threw' \in BOOLEAN
    BY <1>4, Zenon DEF ClientSend, HandlerOK, HistoryOK, callVars, handlerVars
  <2>2. descriptor \in Conns
    BY <1>4 DEF ClientSend, ClientOK, Conns
  <2>3. PICK n \in 1..FrameBytes - sent :
          /\ Len(up[descriptor]) + n <= RequestBuffer
          /\ up' = [up EXCEPT ![descriptor] =
                      @ \o SubSeq(Frame(request), sent + 1, sent + n)]
          /\ sent' = sent + n
    BY <1>4, Zenon DEF ClientSend
  <2>4. sent \in 0..FrameBytes /\ sent' \in 0..FrameBytes
    BY <2>3, Sizes DEF ClientOK
  <2>5. ClientOK'
    BY Zenon, <1>4, <2>4 DEF ClientSend, ClientOK
  <2>6. StreamOK'
    <3> DEFINE f == Frame(request)
               bytes == SubSeq(f, sent + 1, sent + n)
    <3>1. \A i \in 1..FrameBytes : f[i] \in Bytes
      BY Zenon, FrameIsBytes DEF ClientOK
    <3> HIDE DEF f
    <3>2. /\ sent + 1 \in Int /\ sent + n \in Int /\ sent + 1 <= sent + n
          /\ \A i \in sent + 1..sent + n : f[i] \in Bytes
          /\ (sent + n) - (sent + 1) + 1 = n
      BY <2>4, <3>1, Sizes
    <3>3. bytes \in Seq(Bytes) /\ Len(bytes) = n
      BY <3>2, SubSeqProperties
    <3> HIDE DEF bytes
    <3>4. /\ up[descriptor] \in Seq(Bytes)
          /\ up[descriptor] \o bytes \in Seq(Bytes)
          /\ Len(up[descriptor] \o bytes) = Len(up[descriptor]) + n
      BY Zenon, <2>2, <3>3, ConcatProperties DEF StreamOK
    <3>5. up' = [up EXCEPT ![descriptor] = up[descriptor] \o bytes]
      BY <2>3, Zenon DEF f, bytes
    <3> QED
      BY Zenon, <1>4, <2>2, <2>3, <3>4, <3>5 DEF ClientSend, StreamOK
  <2> QED
    BY <2>1, <2>5, <2>6, Zenon
<1>5. CASE ClientSendFails
  BY <1>5, FailedCallTypes, Zenon DEF ClientSendFails, Results
<1>6. CASE ClientReceive
  <2>1. HandlerOK' /\ HistoryOK' /\ threw' \in BOOLEAN
    BY <1>6, Zenon DEF ClientReceive, HandlerOK, HistoryOK, callVars, handlerVars
  <2>2. descriptor \in Conns /\ down[descriptor] \in Seq(Bytes) /\ reader \in Readers
    BY <1>6 DEF ClientReceive, ClientOK, StreamOK, Conns
  <2>3. PICK n \in 1..Len(down[descriptor]) :
          /\ reader' \in AfterBytes(reader, SubSeq(down[descriptor], 1, n))
          /\ down' = [down EXCEPT ![descriptor] =
                        SubSeq(down[descriptor], n + 1, Len(down[descriptor]))]
    BY <1>6, Zenon DEF ClientReceive
  <2>4. /\ SubSeq(down[descriptor], 1, n) \in Seq(Bytes)
        /\ SubSeq(down[descriptor], n + 1, Len(down[descriptor])) \in Seq(Bytes)
    BY Zenon, <2>2, ReceiveMoves
  <2>5. reader' \in Readers
    BY <2>2, <2>3, <2>4, ReaderTypes, Zenon
  <2>6. ClientOK'
    BY <1>6, <2>5, Zenon DEF ClientReceive, ClientOK
  <2>7. StreamOK'
    BY Zenon, <1>6, <2>3, <2>4 DEF ClientReceive, StreamOK
  <2> QED
    BY <2>1, <2>6, <2>7, Zenon
<1>7. CASE ClientReadEnds
  BY <1>7, FailedCallTypes, Zenon DEF ClientReadEnds, Results
<1>8. CASE ClientReadFails
  BY <1>8, FailedCallTypes, Zenon DEF ClientReadFails, Results
<1>9. CASE ClientDecode
  <2>1. HandlerOK' /\ threw' \in BOOLEAN
    BY <1>9, Zenon DEF ClientDecode, HandlerOK, handlerVars
  <2>2. reader.got[1].of \in Messages
    BY <1>9, ReaderTypes, Zenon DEF ClientDecode, ClientOK
  <2>3. PICK how \in Results : EndCall(how)
    BY <1>9, Zenon DEF ClientDecode, Results
  <2>4. /\ descriptor' \in {0, descriptor}
        /\ clientOpen' \in {clientOpen, clientOpen \ {descriptor}}
    BY <1>9, Zenon DEF ClientDecode, Reset
  <2>5. answeredFor' \in [Calls -> 0..MaxCalls]
    BY Zenon, <1>9, <2>2 DEF ClientDecode, HistoryOK, Messages
  <2>6. UNCHANGED <<up, down, serverOpen>>
    BY <1>9, Zenon DEF ClientDecode
  <2>7. ClientOK' /\ StreamOK' /\ HistoryOK'
    BY Zenon, <2>3, <2>4, <2>5, <2>6, EndCallTypes
  <2> QED
    BY <2>1, <2>7, Zenon
<1>10. ASSUME NEW g \in Conns, ConnectInstall(g)
       PROVE  StateOK'
  <2>1. HandlerOK' /\ HistoryOK' /\ threw' \in BOOLEAN
    BY <1>10, Zenon DEF ConnectInstall, HandlerOK, HistoryOK, callVars, handlerVars
  <2>2. ClientOK' /\ StreamOK'
    BY <1>10 DEF ConnectInstall, ClientOK, StreamOK, Conns, Ids
  <2> QED
    BY <2>1, <2>2, Zenon
<1>11. ASSUME NEW g \in Conns, HandlerStep(g) \/ HandlerDispatch(g)
       PROVE  StateOK'
  <2>0. hreader[g] \in Readers /\ Failure(hreader[g]) \in Messages
    BY Zenon, FailureTypes DEF HandlerOK
  <2>1. ClientOK' /\ threw' \in BOOLEAN
    BY <1>11, Zenon DEF HandlerStep, HandlerReceive, HandlerReadFails, HandlerDecode,
         HandlerSend, HandlerInterrupted, HandlerClose, HandlerDispatch, HandlerQuiet,
         ClientOK, clientVars, callVars
  <2>2. CASE HandlerReceive(g)
    <3>1. HistoryOK'
      BY <2>2, Zenon DEF HandlerReceive, HandlerQuiet, HistoryOK, callVars
    <3>2. PICK n \in 1..Len(up[g]) :
            /\ \E r \in AfterBytes(hreader[g], SubSeq(up[g], 1, n)) :
                 hreader' = [hreader EXCEPT ![g] = r]
            /\ up' = [up EXCEPT ![g] = SubSeq(up[g], n + 1, Len(up[g]))]
      BY <2>2, Zenon DEF HandlerReceive
    <3>3. up[g] \in Seq(Bytes) /\ Len(up[g]) \in Nat
      BY Zenon, BytesOf DEF StreamOK
    <3>4. /\ SubSeq(up[g], 1, n) \in Seq(Bytes)
          /\ SubSeq(up[g], n + 1, Len(up[g])) \in Seq(Bytes)
          /\ Len(SubSeq(up[g], n + 1, Len(up[g]))) = Len(up[g]) - n
      BY Zenon, <3>3, ReceiveMoves
    <3>5. HandlerOK'
      <4>1. hreader' \in [Conns -> Readers]
        BY Zenon, <2>0, <3>2, <3>4, ReaderTypes DEF HandlerOK
      <4> QED
        BY <2>2, <4>1, Zenon DEF HandlerReceive, HandlerOK
    <3>6. StreamOK'
      <4>1. fresh' = fresh
        BY <2>2, Zenon DEF HandlerReceive, HandlerQuiet, clientVars
      <4> QED
        BY <2>2, <3>2, <3>3, <3>4, <4>1 DEF HandlerReceive, StreamOK
    <3> QED
      BY <2>1, <3>1, <3>5, <3>6, Zenon
  <2>3. CASE HandlerReadFails(g)
    <3>1. HistoryOK' /\ StreamOK'
      BY <2>3, Zenon DEF HandlerReadFails, HandlerQuiet, HistoryOK, StreamOK, callVars,
           clientVars, streamVars
    <3>2. HandlerOK'
      <4>1. CASE Fail(g, Failure(hreader[g]))
        BY Zenon, <2>0, <4>1, FailTypes
      <4>2. CASE ~Fail(g, Failure(hreader[g]))
        BY Zenon, <2>3, <4>2 DEF HandlerReadFails, HandlerOK
      <4> QED
        BY <4>1, <4>2, Zenon
    <3> QED
      BY <2>1, <3>1, <3>2, Zenon
  <2>4. CASE HandlerDecode(g)
    <3>1. HistoryOK' /\ StreamOK'
      BY <2>4, Zenon DEF HandlerDecode, HandlerQuiet, HistoryOK, StreamOK, callVars,
           clientVars, streamVars
    <3>2. HandlerOK'
      <4>1. CASE Fail(g, Failure(hreader[g]))
        BY Zenon, <2>0, <4>1, FailTypes
      <4>2. CASE ~Fail(g, Failure(hreader[g]))
        <5>1. hreader[g].got[1].of \in Messages
          BY <2>0, <2>4, ReaderTypes, Zenon DEF HandlerDecode
        <5> QED
          BY Zenon, <2>4, <4>2, <5>1, MessageTypes DEF HandlerDecode, HandlerOK
      <4> QED
        BY <4>1, <4>2, Zenon
    <3> QED
      BY <2>1, <3>1, <3>2, Zenon
  <2>5. CASE HandlerSend(g)
    <3>1. HistoryOK'
      BY <2>5, Zenon DEF HandlerSend, HandlerQuiet, HistoryOK, callVars
    <3>2. HandlerOK'
      <4>1. PICK n \in 1..FrameBytes - hsent[g] :
              \/ /\ hsent[g] + n < FrameBytes
                 /\ hsent' = [hsent EXCEPT ![g] = hsent[g] + n]
                 /\ UNCHANGED <<hpc, hrequest, answer>>
              \/ /\ \E next \in {"read", "close"} : hpc' = [hpc EXCEPT ![g] = next]
                 /\ hsent' = [hsent EXCEPT ![g] = 0]
                 /\ hrequest' = [hrequest EXCEPT ![g] = NoMessage]
                 /\ answer' = [answer EXCEPT ![g] = NoMessage]
        BY <2>5, Zenon DEF HandlerSend
      <4>2. 0 \in 0..FrameBytes /\ (hsent[g] + n < FrameBytes => hsent[g] + n \in 0..FrameBytes)
        BY Sizes DEF HandlerOK
      <4>3. hreader' = hreader
        BY <2>5, Zenon DEF HandlerSend
      <4> QED
        BY <4>1, <4>2, <4>3, MessageTypes DEF HandlerOK
    <3>3. PICK n \in 1..FrameBytes - hsent[g] :
            down' = [down EXCEPT ![g] =
                       down[g] \o SubSeq(Frame(answer[g]), hsent[g] + 1, hsent[g] + n)]
      BY <2>5, Zenon DEF HandlerSend
    <3>4. down[g] \o SubSeq(Frame(answer[g]), hsent[g] + 1, hsent[g] + n) \in Seq(Bytes)
      <4> DEFINE f == Frame(answer[g])
      <4>1. \A i \in 1..FrameBytes : f[i] \in Bytes
        BY Zenon, FrameIsBytes DEF HandlerOK
      <4> HIDE DEF f
      <4>2. /\ hsent[g] + 1 \in Int /\ hsent[g] + n \in Int
            /\ \A i \in hsent[g] + 1..hsent[g] + n : f[i] \in Bytes
        BY <4>1, Sizes DEF HandlerOK
      <4>3. SubSeq(f, hsent[g] + 1, hsent[g] + n) \in Seq(Bytes)
        BY Zenon, <4>2, SubSeqProperties
      <4>4. down[g] \in Seq(Bytes)
        BY Zenon DEF StreamOK
      <4> QED
        BY Zenon, <4>3, <4>4, ConcatProperties DEF f
    <3>5. StreamOK'
      <4>1. UNCHANGED <<fresh, up, clientOpen, serverOpen>>
        BY <2>5, Zenon DEF HandlerSend, HandlerQuiet, clientVars
      <4> QED
        BY Zenon, <3>3, <3>4, <4>1 DEF StreamOK
    <3> QED
      BY <2>1, <3>1, <3>2, <3>5, Zenon
  <2>6. CASE HandlerInterrupted(g)
    <3>1. HistoryOK' /\ StreamOK'
      BY <2>6, Zenon DEF HandlerInterrupted, HandlerQuiet, HistoryOK, StreamOK, callVars,
           clientVars, streamVars
    <3>2. HandlerOK'
      BY Zenon, <2>6 DEF HandlerInterrupted, HandlerOK
    <3> QED
      BY <2>1, <3>1, <3>2, Zenon
  <2>7. CASE HandlerClose(g)
    <3>1. HistoryOK'
      BY <2>7, Zenon DEF HandlerClose, HandlerQuiet, HistoryOK, callVars
    <3>2. HandlerOK'
      BY <2>7, MessageTypes, ReaderTypes, Sizes DEF HandlerClose, HandlerOK
    <3>3. StreamOK'
      <4>1. UNCHANGED <<fresh, down, clientOpen>>
        BY <2>7, Zenon DEF HandlerClose, HandlerQuiet, clientVars
      <4> QED
        BY <2>7, <4>1, EmptySeq DEF HandlerClose, StreamOK
    <3> QED
      BY <2>1, <3>1, <3>2, <3>3, Zenon
  <2>8. CASE HandlerDispatch(g)
    <3>1. HistoryOK'
      BY <2>8 DEF HandlerDispatch, HistoryOK
    <3>2. StreamOK'
      BY <2>8, Zenon DEF HandlerDispatch, StreamOK, clientVars, streamVars
    <3>3. HandlerOK'
      <4>1. CASE Fail(g, Failure(hreader[g]))
        BY Zenon, <2>0, <4>1, FailTypes
      <4>2. CASE ~Fail(g, Failure(hreader[g]))
        <5>1. [hrequest[g] EXCEPT !.kind = "response"] \in Messages /\ NewReader \in Readers
          BY Zenon, MessageTypes, ReaderTypes DEF HandlerOK
        <5> QED
          BY Zenon, <2>8, <4>2, <5>1 DEF HandlerDispatch, HandlerOK
      <4> QED
        BY <4>1, <4>2, Zenon
    <3> QED
      BY <2>1, <3>1, <3>2, <3>3, Zenon
  <2> QED
    BY <1>11, <2>2, <2>3, <2>4, <2>5, <2>6, <2>7, <2>8, Zenon DEF HandlerStep
<1> QED
  BY <1>1, <1>2, <1>3, <1>4, <1>5, <1>6, <1>7, <1>8, <1>9, <1>10, <1>11, Zenon
     DEF Next, CallStep

-----------------------------------------------------------------------------
(* What a step does to the rows of bytes                                     *)

RowsOK ==
  /\ Upward \in [Conns -> Seq(Bytes)] /\ Downward \in [Conns -> Seq(Bytes)]
  /\ \A g \in Conns :
       /\ hreader[g].got \in Seq(Bytes) /\ up[g] \in Seq(Bytes) /\ Unsent(g) \in Seq(Bytes)
       /\ Held(g) \in Seq(Bytes) /\ down[g] \in Seq(Bytes) /\ Unwritten(g) \in Seq(Bytes)
       /\ Upward[g] = Row(hreader[g].got, up[g], Unsent(g))
       /\ Downward[g] = Row(Held(g), down[g], Unwritten(g))

\* The rows are rows of bytes.
LEMMA RowsTyped == StateOK => RowsOK
<1> SUFFICES ASSUME StateOK PROVE RowsOK
  BY Zenon
<1> USE DEF StateOK
<1>1. ASSUME NEW g \in Conns
      PROVE  /\ hreader[g].got \in Seq(Bytes) /\ up[g] \in Seq(Bytes)
             /\ Unsent(g) \in Seq(Bytes) /\ Held(g) \in Seq(Bytes)
             /\ down[g] \in Seq(Bytes) /\ Unwritten(g) \in Seq(Bytes)
  <2>1. hreader[g].got \in Seq(Bytes) /\ reader.got \in Seq(Bytes)
    BY Zenon, ReaderTypes DEF HandlerOK, ClientOK
  <2>2. up[g] \in Seq(Bytes) /\ down[g] \in Seq(Bytes) /\ <<>> \in Seq(Bytes)
    BY Zenon, EmptySeq DEF StreamOK
  <2>3. /\ SubSeq(Frame(request), sent + 1, FrameBytes) \in Seq(Bytes)
        /\ SubSeq(Frame(answer[g]), hsent[g] + 1, FrameBytes) \in Seq(Bytes)
    BY Zenon, RestOfFrame DEF ClientOK, HandlerOK
  <2> QED
    BY <2>1, <2>2, <2>3, Zenon DEF Unsent, Unwritten, Held
<1>2. \A g \in Conns : /\ Upward[g] = Row(hreader[g].got, up[g], Unsent(g))
                       /\ Downward[g] = Row(Held(g), down[g], Unwritten(g))
  BY Zenon DEF Upward, Downward
<1>3. \A g \in Conns : /\ Row(hreader[g].got, up[g], Unsent(g)) \in Seq(Bytes)
                       /\ Row(Held(g), down[g], Unwritten(g)) \in Seq(Bytes)
  BY Zenon, <1>1, Pieces
<1>4. Upward \in [Conns -> Seq(Bytes)] /\ Downward \in [Conns -> Seq(Bytes)]
  BY Zenon, <1>3 DEF Upward, Downward
<1> QED
  BY Zenon, <1>1, <1>2, <1>4 DEF RowsOK

\* Before and after a step.
LEMMA RowsTypedStep ==
  ASSUME StateOK, StateOK'
  PROVE  RowsOK /\ RowsOK'
BY RowsTyped, PTL

\* The rows of a connection that a step does not touch.
UpKept(h) == Upward'[h] = Upward[h]
DownKept(h) == Downward'[h] = Downward[h]

\* connect changes no row but that of the connection it opens.
Opened(g) ==
  /\ hpc[g] = "unused" /\ fresh' = fresh \cup {g}
  /\ \A h \in Conns : UpKept(h) /\ (h # g => DownKept(h))
  /\ Len(Upward[g]) = 0 /\ Len(Downward[g]) = 0
  /\ \/ hpc' = [hpc EXCEPT ![g] = "read"] /\ answer' = answer /\ DownKept(g)
     \/ /\ hpc' = [hpc EXCEPT ![g] = "write"]
        /\ answer' = [answer EXCEPT ![g] = Sentinel]
        /\ Extended(Downward[g], Downward'[g], Sentinel)

\* The rows of a connection nobody uses are empty.
LEMMA UnusedRows ==
  ASSUME StateOK, HandlerInv, NEW g \in Conns, hpc[g] = "unused"
  PROVE  Upward[g] = Row(<<>>, <<>>, <<>>) /\ Downward[g] = Row(<<>>, <<>>, <<>>)
         /\ Len(Upward[g]) = 0 /\ Len(Downward[g]) = 0
         /\ Unsent(g) = <<>> /\ Held(g) = <<>> /\ Unwritten(g) = <<>>
<1>1. /\ hreader[g] = NewReader /\ up[g] = <<>> /\ down[g] = <<>> /\ g # descriptor
  BY Zenon DEF HandlerInv
<1>2. hreader[g].got = <<>>
  BY <1>1 DEF NewReader
<1>3. Unsent(g) = <<>> /\ Held(g) = <<>> /\ Unwritten(g) = <<>>
  BY Zenon, <1>1 DEF Unsent, Held, Unwritten
<1>4. Upward[g] = Row(<<>>, <<>>, <<>>) /\ Downward[g] = Row(<<>>, <<>>, <<>>)
  BY Zenon, <1>1, <1>2, <1>3, RowsTyped DEF RowsOK
<1>5. Len(Row(<<>>, <<>>, <<>>)) = 0
  <2>1. <<>> \in Seq(Bytes) /\ Len(<<>>) = 0
    BY Zenon, EmptySeq
  <2>2. Laid(Row(<<>>, <<>>, <<>>), <<>>, <<>>, <<>>)
    BY Zenon, <2>1, Pieces
  <2> QED
    BY <2>1, <2>2 DEF Laid
<1> QED
  BY Zenon, <1>3, <1>4, <1>5

\* connect_unix: the new connection carries nothing, or the sentinel of a server
\* that turns it away; the others keep their rows.
LEMMA ConnectOpenRows ==
  ASSUME StateOK, StateOK', HandlerInv, ConnectOpen
  PROVE  \E g \in Conns : Opened(g)
<1>1. RowsOK /\ RowsOK'
  BY Zenon, RowsTypedStep
<1>2. PICK g \in Conns :
        /\ hpc[g] = "unused" /\ fresh' = fresh \cup {g}
        /\ \/ hpc' = [hpc EXCEPT ![g] = "read"] /\ UNCHANGED answer
           \/ /\ hpc' = [hpc EXCEPT ![g] = "write"]
              /\ answer' = [answer EXCEPT ![g] = Sentinel]
  BY Zenon DEF ConnectOpen
<1>3. UNCHANGED <<descriptor, cpc, request, sent, reader, up, down, hreader, hsent>>
  BY Zenon DEF ConnectOpen
<1>4. \A h \in Conns : UpKept(h)
  <2> TAKE h \in Conns
  <2>1. Unsent(h)' = Unsent(h)
    BY <1>3, Zenon DEF Unsent
  <2> QED
    BY <1>1, <1>3, <2>1, Zenon DEF RowsOK, UpKept
<1>5. \A h \in Conns : h # g => DownKept(h)
  <2> SUFFICES ASSUME NEW h \in Conns, h # g PROVE DownKept(h)
    BY Zenon
  <2>1. hpc'[h] = hpc[h] /\ answer'[h] = answer[h]
    BY Zenon, <1>2 DEF StateOK, HandlerOK
  <2>2. Unwritten(h)' = Unwritten(h) /\ Held(h)' = Held(h)
    BY <1>3, <2>1, Zenon DEF Unwritten, Held
  <2> QED
    BY <1>1, <1>3, <2>2, Zenon DEF RowsOK, DownKept
<1>6. /\ Len(Upward[g]) = 0 /\ Len(Downward[g]) = 0
      /\ Downward[g] = Row(<<>>, <<>>, <<>>) /\ Held(g) = <<>>
      /\ hsent[g] = 0 /\ down[g] = <<>>
  BY Zenon, <1>2, UnusedRows DEF HandlerInv
<1>7. Held(g)' = <<>>
  BY <1>3, <1>6, Zenon DEF Held
<1>8. CASE hpc' = [hpc EXCEPT ![g] = "read"] /\ UNCHANGED answer
  <2>1. Unwritten(g)' = <<>>
    BY Zenon, <1>8 DEF Unwritten, StateOK, HandlerOK
  <2>2. DownKept(g)
    BY <1>1, <1>3, <1>6, <1>7, <2>1, Zenon DEF RowsOK, DownKept
  <2> QED
    BY <1>2, <1>4, <1>5, <1>6, <1>8, <2>2, Zenon DEF Opened
<1>9. CASE /\ hpc' = [hpc EXCEPT ![g] = "write"]
           /\ answer' = [answer EXCEPT ![g] = Sentinel]
  <2>1. Unwritten(g)' = SubSeq(Frame(Sentinel), 1, FrameBytes)
    <3>1. hpc'[g] = "write" /\ answer'[g] = Sentinel /\ hsent'[g] + 1 = 1
      BY <1>3, <1>6, <1>9 DEF StateOK, HandlerOK
    <3> QED
      BY <3>1, Zenon DEF Unwritten
  <2>2. Downward'[g] = Row(<<>>, <<>>, SubSeq(Frame(Sentinel), 1, FrameBytes))
    BY <1>1, <1>3, <1>6, <1>7, <2>1, Zenon DEF RowsOK
  <2>3. Extended(Downward[g], Downward'[g], Sentinel)
    <3>1. <<>> \in Seq(Bytes) /\ Sentinel \in Messages
      BY Zenon, EmptySeq, MessageTypes
    <3>2. Extended(Row(<<>>, <<>>, <<>>),
                   Row(<<>>, <<>>, SubSeq(Frame(Sentinel), 1, FrameBytes)), Sentinel)
      BY Zenon, <3>1, ExtendedByFrame
    <3> QED
      BY <1>6, <2>2, <3>2, Zenon
  <2> QED
    BY <1>2, <1>4, <1>5, <1>6, <1>9, <2>3, Zenon DEF Opened
<1> QED
  BY <1>2, <1>8, <1>9, Zenon

\* Taking the mutex to replace or drop the connection changes no row: no call is
\* in progress.
LEMMA InstalledRows ==
  ASSUME StateOK, StateOK', CallInv, cpc = "idle", cpc' = "idle",
         UNCHANGED <<reader, up, down, handlerVars>>
  PROVE  \A h \in Conns : UpKept(h) /\ DownKept(h)
<1>1. RowsOK /\ RowsOK'
  BY Zenon, RowsTypedStep
<1> TAKE h \in Conns
<1>2. Unsent(h)' = Unsent(h)
  BY Zenon DEF Unsent
<1>3. reader = NewReader /\ reader' = NewReader
  BY Zenon DEF CallInv
<1>4. reader.got = <<>> /\ reader'.got = <<>>
  BY <1>3 DEF NewReader
<1>5. Held(h)' = Held(h)
  BY <1>4, Zenon DEF Held
<1>6. Unwritten(h)' = Unwritten(h)
  BY Zenon DEF Unwritten, handlerVars
<1> QED
  BY <1>1, <1>2, <1>5, <1>6, Zenon DEF RowsOK, UpKept, DownKept, handlerVars

\* call adds a frame to the row of its connection, or changes none.
Called ==
  /\ \A h \in Conns : DownKept(h) /\ (h # descriptor => UpKept(h))
  /\ \/ cpc' = "idle" /\ (descriptor \in Conns => UpKept(descriptor))
     \/ /\ cpc' = "write" /\ descriptor' = descriptor /\ descriptor \in Conns
        /\ next_request_id # 0 /\ next_request_id' = NextRequestId
        /\ request' = Message("request", calls', next_request_id) /\ result' = result
        /\ Extended(Upward[descriptor], Upward'[descriptor], request')

\* Client::call takes an id and begins to write its request, whose frame is added
\* to the row, or it returns before the first byte and leaves the rows alone.
LEMMA CallBeginRows ==
  ASSUME StateOK, StateOK', CallInv, CallBegin
  PROVE  Called
<1>1. RowsOK /\ RowsOK'
  BY Zenon, RowsTypedStep
<1>2. cpc = "idle" /\ UNCHANGED <<sent, reader, up, down, handlerVars>>
  BY Zenon DEF CallBegin
<1>3. reader = NewReader /\ sent = 0
  BY <1>2, Zenon DEF CallInv
<1>4. reader.got = <<>> /\ reader'.got = <<>>
  BY Zenon, <1>2, <1>3 DEF NewReader
<1>5. \A h \in Conns : DownKept(h)
  <2> TAKE h \in Conns
  <2>1. Held(h)' = Held(h) /\ Unwritten(h)' = Unwritten(h)
    BY <1>2, <1>4, Zenon DEF Held, Unwritten, handlerVars
  <2> QED
    BY <1>1, <1>2, <2>1, Zenon DEF RowsOK, DownKept
<1>6. \A h \in Conns : Unsent(h) = <<>>
  BY <1>2, Zenon DEF Unsent
<1>7. CASE cpc' = "idle"
  <2>1. \A h \in Conns : UpKept(h)
    <3> TAKE h \in Conns
    <3>1. Unsent(h)' = <<>>
      BY <1>7, Zenon DEF Unsent
    <3> QED
      BY <1>1, <1>2, <1>6, <3>1, Zenon DEF RowsOK, UpKept, handlerVars
  <2> QED
    BY <1>5, <1>7, <2>1, Zenon DEF Called
<1>8. CASE cpc' # "idle"
  <2>1. /\ cpc' = "write" /\ descriptor' = descriptor /\ descriptor # 0
        /\ next_request_id # 0 /\ next_request_id' = NextRequestId
        /\ request' = Message("request", calls', next_request_id) /\ result' = result
    BY <1>2, <1>8, Zenon DEF CallBegin
  <2>2. descriptor \in Conns
    BY <2>1 DEF StateOK, ClientOK, Conns
  <2>3. \A h \in Conns : h # descriptor => UpKept(h)
    <3> SUFFICES ASSUME NEW h \in Conns, h # descriptor PROVE UpKept(h)
      BY Zenon
    <3>1. Unsent(h)' = <<>>
      BY <2>1, Zenon DEF Unsent
    <3> QED
      BY <1>1, <1>2, <1>6, <3>1, Zenon DEF RowsOK, UpKept, handlerVars
  <2> PICK g \in Conns : g = descriptor
    BY Zenon, <2>2
  <2> DEFINE f == SubSeq(Frame(request'), 1, FrameBytes)
  <2>4. Unsent(g)' = f
    <3>1. sent' + 1 = 1
      BY <1>2, <1>3
    <3> QED
      BY <2>1, <3>1, Zenon DEF Unsent
  <2>5. Upward[g] = Row(hreader[g].got, up[g], <<>>)
    BY <1>1, <1>6, <2>2, Zenon DEF RowsOK
  <2>6. Upward'[g] = Row(hreader[g].got, up[g], f)
    BY <1>1, <1>2, <2>2, <2>4, Zenon DEF RowsOK, handlerVars
  <2>7. hreader[g].got \in Seq(Bytes) /\ up[g] \in Seq(Bytes) /\ request' \in Messages
    BY <1>1, <2>2, Zenon DEF RowsOK, StateOK, ClientOK
  <2>8. Extended(Row(hreader[g].got, up[g], <<>>), Row(hreader[g].got, up[g], f), request')
    BY Zenon, <2>7, ExtendedByFrame
  <2>9. Extended(Upward[g], Upward'[g], request')
    BY <2>5, <2>6, <2>8, Zenon
  <2> QED
    BY <1>5, <2>1, <2>2, <2>3, <2>9, Zenon DEF Called
<1> QED
  BY <1>7, <1>8, Zenon

\* send moves bytes along the row.
LEMMA ClientSendRows ==
  ASSUME StateOK, StateOK', ClientSend
  PROVE  \A h \in Conns : UpKept(h) /\ DownKept(h)
<1>1. RowsOK /\ RowsOK'
  BY Zenon, RowsTypedStep
<1>2. UNCHANGED <<descriptor, request, reader, down, handlerVars>> /\ cpc = "write"
  BY Zenon DEF ClientSend
<1>3. descriptor \in Conns /\ request \in Messages /\ sent \in 0..FrameBytes
  BY <1>2 DEF StateOK, ClientOK, Conns
<1> PICK g \in Conns : g = descriptor
  BY Zenon, <1>3
<1>4. PICK n \in 1..FrameBytes - sent :
        /\ up' = [up EXCEPT ![g] = up[g] \o SubSeq(Frame(request), sent + 1, sent + n)]
        /\ sent' = sent + n
  BY Zenon DEF ClientSend
<1>5. cpc' = IF sent' = FrameBytes THEN "read" ELSE "write"
  BY Zenon DEF ClientSend
<1>6. \A h \in Conns : DownKept(h)
  <2> TAKE h \in Conns
  <2>1. Held(h)' = Held(h) /\ Unwritten(h)' = Unwritten(h)
    BY <1>2, Zenon DEF Held, Unwritten, handlerVars
  <2> QED
    BY <1>1, <1>2, <2>1, Zenon DEF RowsOK, DownKept
<1>7. \A h \in Conns : h # g => UpKept(h)
  <2> SUFFICES ASSUME NEW h \in Conns, h # g PROVE UpKept(h)
    BY Zenon
  <2>1. Unsent(h)' = Unsent(h)
    BY <1>2, Zenon DEF Unsent
  <2>2. up'[h] = up[h]
    BY Zenon, <1>4 DEF StateOK, StreamOK
  <2> QED
    BY <1>1, <1>2, <2>1, <2>2, Zenon DEF RowsOK, UpKept, handlerVars
<1>8. UpKept(g)
  <2>1. Unsent(g)' = SubSeq(Frame(request), sent + n + 1, FrameBytes)
    <3>1. CASE sent' = FrameBytes
      <4>1. FrameBytes < sent + n + 1 /\ sent + n + 1 \in Int /\ FrameBytes \in Int
        BY <1>3, <1>4, <3>1, Sizes
      <4>2. SubSeq(Frame(request), sent + n + 1, FrameBytes) = <<>>
        BY Zenon, <4>1, SubSeqEmpty
      <4> QED
        BY Zenon, <1>5, <3>1, <4>2 DEF Unsent
    <3>2. CASE sent' # FrameBytes
      BY <1>2, <1>4, <1>5, <3>2, Zenon DEF Unsent
    <3> QED
      BY <3>1, <3>2, Zenon
  <2>2. Unsent(g) = SubSeq(Frame(request), sent + 1, FrameBytes)
    BY <1>2, Zenon DEF Unsent
  <2>3. up'[g] = up[g] \o SubSeq(Frame(request), sent + 1, sent + n)
    BY Zenon, <1>3, <1>4 DEF StateOK, StreamOK
  <2>4. hreader[g].got \in Seq(Bytes) /\ up[g] \in Seq(Bytes) /\ n \in 0..FrameBytes - sent
    BY <1>1, <1>3, <1>4 DEF RowsOK
  <2>5. Row(hreader[g].got, up[g] \o SubSeq(Frame(request), sent + 1, sent + n),
            SubSeq(Frame(request), sent + n + 1, FrameBytes))
        = Row(hreader[g].got, up[g], SubSeq(Frame(request), sent + 1, FrameBytes))
    BY <1>3, <2>4, SendMoves
  <2>6. Upward[g] = Row(hreader[g].got, up[g], SubSeq(Frame(request), sent + 1, FrameBytes))
    BY <1>1, <1>3, <2>2, Zenon DEF RowsOK
  <2>7. Upward'[g] = Row(hreader[g].got, up[g] \o SubSeq(Frame(request), sent + 1, sent + n),
                         SubSeq(Frame(request), sent + n + 1, FrameBytes))
    BY <1>1, <1>2, <1>3, <2>1, <2>3, Zenon DEF RowsOK, handlerVars
  <2> QED
    BY <2>5, <2>6, <2>7, Zenon DEF UpKept
<1> QED
  BY <1>6, <1>7, <1>8, Zenon

\* recv moves bytes along the row, and drops a header once it is complete: the
\* header of a message declares the size of a message.
Advanced(r, t, w, v) ==
  \/ v = w /\ t.size = r.size
  \/ /\ r.size = 0 /\ t.size # 0
     /\ Part(w, v, HeaderBytes) /\ Len(w) = HeaderBytes + Len(v)
     /\ \A m \in Messages :
          (\A i \in 1..HeaderBytes : Is(w[i], m, i)) => t.size = PayloadBytes

\* A byte is known by its message and its place.
LEMMA ByteEqual ==
  ASSUME NEW b \in Bytes, NEW d \in Bytes, b.of = d.of, b.at = d.at
  PROVE  b = d
BY DEF Bytes

\* read_frame decodes the size that write_frame put into an intact header.
LEMMA HeaderDeclares ==
  ASSUME NEW got \in Seq(Bytes), Len(got) = HeaderBytes, NEW m \in Messages,
         \A i \in 1..HeaderBytes : Is(got[i], m, i)
  PROVE  DeclaredSizes(got) = {PayloadBytes}
<1> DEFINE f == Frame(m)
<1>1. /\ f \in Seq(Bytes) /\ Len(f) = FrameBytes
      /\ \A i \in 1..FrameBytes : f[i] \in Bytes /\ Is(f[i], m, i)
  BY Zenon, FrameIsBytes
<1>2. HeaderBytes \in Nat /\ HeaderBytes > 0 /\ HeaderBytes <= FrameBytes /\ FrameBytes \in Nat
  BY Sizes
<1>3. got[1].of = m
  BY <1>2 DEF Is
<1> HIDE DEF f
<1>4. /\ SubSeq(f, 1, HeaderBytes) \in Seq(Bytes) /\ Len(SubSeq(f, 1, HeaderBytes)) = HeaderBytes
      /\ \A i \in 1..HeaderBytes : SubSeq(f, 1, HeaderBytes)[i] = f[i]
  <2>1. /\ 1 \in Int /\ HeaderBytes \in Int /\ 1 <= HeaderBytes
        /\ \A i \in 1..HeaderBytes : f[i] \in Bytes
    BY <1>1, <1>2
  <2>2. /\ SubSeq(f, 1, HeaderBytes) \in Seq(Bytes)
        /\ Len(SubSeq(f, 1, HeaderBytes)) = HeaderBytes - 1 + 1
        /\ \A i \in 1..HeaderBytes - 1 + 1 : SubSeq(f, 1, HeaderBytes)[i] = f[1 + i - 1]
    BY <2>1, SubSeqProperties
  <2>3. HeaderBytes - 1 + 1 = HeaderBytes /\ \A i \in 1..HeaderBytes : 1 + i - 1 = i
    BY <1>2
  <2> QED
    BY Zenon, <2>2, <2>3
<1>5. \A i \in 1..HeaderBytes : got[i] = SubSeq(f, 1, HeaderBytes)[i]
  <2> TAKE i \in 1..HeaderBytes
  <2>1. i \in 1..FrameBytes /\ i \in 1..Len(got)
    BY <1>2
  <2>2. /\ got[i] \in Bytes /\ f[i] \in Bytes /\ got[i].of = f[i].of /\ got[i].at = f[i].at
    BY Zenon, <1>1, <2>1, BytesOf DEF Is
  <2>3. got[i] = f[i]
    BY Zenon, <2>2, ByteEqual
  <2> QED
    BY Zenon, <1>4, <2>3
<1>6. got = SubSeq(f, 1, HeaderBytes)
  BY Zenon, <1>4, <1>5, SeqEqual
<1> QED
  BY <1>3, <1>6, Zenon DEF DeclaredSizes, f

\* read_frame takes n bytes: the row is as it was, or a header leaves its front.
LEMMA BytesAdvance ==
  ASSUME NEW r \in Readers, NEW b \in Seq(Bytes), NEW c \in Seq(Bytes),
         NEW n \in 1..Len(b), NEW t \in AfterBytes(r, SubSeq(b, 1, n))
  PROVE  Advanced(r, t, Row(r.got, b, c), Row(t.got, SubSeq(b, n + 1, Len(b)), c))
<1> DEFINE p == SubSeq(b, 1, n)
           q == SubSeq(b, n + 1, Len(b))
           got == r.got \o p
           w == Row(r.got, b, c)
<1>1. r.got \in Seq(Bytes) /\ r.size \in 0..OutOfBounds
  BY Zenon, ReaderTypes
<1>2. /\ p \in Seq(Bytes) /\ q \in Seq(Bytes) /\ got \in Seq(Bytes)
      /\ Len(got) = Len(r.got) + n
  BY <1>1, ReceiveMoves
<1>3. Row(got, q, c) = w
  BY <1>1, ReceiveMoves
<1>4. \/ t = [size |-> r.size, got |-> got]
      \/ /\ r.size = 0 /\ Len(got) = HeaderBytes
         /\ t \in [size : DeclaredSizes(got), got : {<<>>}]
  BY Zenon DEF AfterBytes
<1>5. Part(w, Row(<<>>, q, c), Len(r.got) + n)
  BY Zenon, <1>1, PartTail
<1>6. Laid(Row(got, q, c), got, q, c) /\ Laid(Row(<<>>, q, c), <<>>, q, c) /\ Len(<<>>) = 0
  BY Zenon, <1>2, Pieces, EmptySeq
<1> HIDE DEF p, q, got, w
<1>7. CASE t = [size |-> r.size, got |-> got]
  <2>1. t.size = r.size /\ t.got = got
    BY Zenon, <1>7
  <2> QED
    BY <1>3, <2>1, Zenon DEF Advanced, q, w
<1>8. CASE /\ r.size = 0 /\ Len(got) = HeaderBytes
           /\ t \in [size : DeclaredSizes(got), got : {<<>>}]
  <2>1. t.size \in DeclaredSizes(got) /\ t.got = <<>>
    BY Zenon, <1>8
  <2>2. t.size # 0
    BY <2>1, Sizes DEF DeclaredSizes
  <2>3. Part(w, Row(t.got, q, c), HeaderBytes)
    BY Zenon, <1>2, <1>5, <1>8, <2>1
  <2>4. Len(w) = HeaderBytes + Len(Row(t.got, q, c))
    <3>1. /\ Len(w) = HeaderBytes + Len(q) + Len(c) /\ Len(q) \in Nat /\ Len(c) \in Nat
          /\ Len(Row(<<>>, q, c)) = Len(q) + Len(c)
      BY <1>3, <1>6, <1>8 DEF Laid
    <3> QED
      BY <2>1, <3>1, Sizes
  <2>5. ASSUME NEW m \in Messages, \A i \in 1..HeaderBytes : Is(w[i], m, i)
        PROVE  t.size = PayloadBytes
    <3>1. \A i \in 1..HeaderBytes : w[i] = got[i]
      BY Zenon, <1>3, <1>6, <1>8 DEF Laid
    <3>2. \A i \in 1..HeaderBytes : Is(got[i], m, i)
      BY <2>5, <3>1, Zenon
    <3>3. DeclaredSizes(got) = {PayloadBytes}
      BY Zenon, <1>2, <1>8, <3>2, HeaderDeclares
    <3> QED
      BY <2>1, <3>3, Zenon
  <2> QED
    BY <1>8, <2>2, <2>3, <2>4, <2>5, Zenon DEF Advanced, q, w
<1> QED
  BY <1>4, <1>7, <1>8, Zenon

\* The client's read_frame, on the rows of its connection.
LEMMA ClientReceiveRows ==
  ASSUME StateOK, StateOK', ClientReceive
  PROVE  /\ descriptor \in Conns
         /\ \A h \in Conns : UpKept(h) /\ (h # descriptor => DownKept(h))
         /\ Advanced(reader, reader', Downward[descriptor], Downward'[descriptor])
<1>1. RowsOK /\ RowsOK'
  BY Zenon, RowsTypedStep
<1>2. UNCHANGED <<descriptor, cpc, request, sent, up, handlerVars>> /\ cpc = "read"
  BY Zenon DEF ClientReceive
<1>3. descriptor \in Conns /\ reader \in Readers
  BY <1>2 DEF StateOK, ClientOK, Conns
<1> PICK g \in Conns : g = descriptor
  BY Zenon, <1>3
<1>4. PICK n \in 1..Len(down[g]) :
        /\ reader' \in AfterBytes(reader, SubSeq(down[g], 1, n))
        /\ down' = [down EXCEPT ![g] = SubSeq(down[g], n + 1, Len(down[g]))]
  BY Zenon DEF ClientReceive
<1>5. \A h \in Conns : Unsent(h)' = Unsent(h) /\ Unwritten(h)' = Unwritten(h)
  BY <1>2, Zenon DEF Unsent, Unwritten, handlerVars
<1>6. \A h \in Conns : UpKept(h)
  BY <1>1, <1>2, <1>5, Zenon DEF RowsOK, UpKept, handlerVars
<1>7. \A h \in Conns : h # g => DownKept(h)
  <2> SUFFICES ASSUME NEW h \in Conns, h # g PROVE DownKept(h)
    BY Zenon
  <2>1. Held(h)' = Held(h)
    BY <1>2, Zenon DEF Held
  <2>2. down'[h] = down[h]
    BY Zenon, <1>4 DEF StateOK, StreamOK
  <2> QED
    BY <1>1, <1>5, <2>1, <2>2, Zenon DEF RowsOK, DownKept
<1>8. Advanced(reader, reader', Downward[g], Downward'[g])
  <2>1. Held(g) = reader.got /\ Held(g)' = reader'.got
    BY <1>2, Zenon DEF Held
  <2>2. down'[g] = SubSeq(down[g], n + 1, Len(down[g]))
    BY Zenon, <1>4 DEF StateOK, StreamOK
  <2>3. Downward[g] = Row(reader.got, down[g], Unwritten(g))
    BY <1>1, <2>1, Zenon DEF RowsOK
  <2>4. Downward'[g] = Row(reader'.got, SubSeq(down[g], n + 1, Len(down[g])), Unwritten(g))
    BY <1>1, <1>5, <2>1, <2>2, Zenon DEF RowsOK
  <2>5. down[g] \in Seq(Bytes) /\ Unwritten(g) \in Seq(Bytes)
    BY <1>1, Zenon DEF RowsOK
  <2>6. Advanced(reader, reader', Row(reader.got, down[g], Unwritten(g)),
                 Row(reader'.got, SubSeq(down[g], n + 1, Len(down[g])), Unwritten(g)))
    BY Zenon, <1>3, <1>4, <2>5, BytesAdvance
  <2> QED
    BY <2>3, <2>4, <2>6, Zenon
<1> QED
  BY <1>3, <1>6, <1>7, <1>8, Zenon

\* A call that ends takes the bytes it did not send from the end of one row, and
\* those it has read from the front of the other.
Ended ==
  /\ descriptor \in Conns
  /\ \A h \in Conns : h # descriptor => UpKept(h) /\ DownKept(h)
  /\ Part(Upward[descriptor], Upward'[descriptor], 0)
  /\ Part(Downward[descriptor], Downward'[descriptor], Len(reader.got))
  /\ Len(Downward[descriptor]) = Len(reader.got) + Len(Downward'[descriptor])
  /\ cpc = "read" => UpKept(descriptor)
  /\ cpc = "write" =>
       /\ Len(Upward'[descriptor]) < Len(Upward[descriptor])
       /\ Final(Upward[descriptor][Len(Upward[descriptor])], request.call)

\* However a call ends, what it has read or not sent leaves the rows of its
\* connection, and nothing else does.
LEMMA EndCallRows ==
  ASSUME StateOK, StateOK', CallInv, NEW how, EndCall(how), cpc # "idle",
         UNCHANGED <<up, down, handlerVars>>
  PROVE  Ended
<1>1. RowsOK /\ RowsOK'
  BY Zenon, RowsTypedStep
<1>2. descriptor \in Conns /\ request \in Messages /\ sent \in 0..FrameBytes
  BY DEF StateOK, ClientOK, Conns
<1> PICK g \in Conns : g = descriptor
  BY Zenon, <1>2
<1>3. cpc' = "idle" /\ reader' = NewReader
  BY Zenon DEF EndCall
<1>4. \A h \in Conns : Unsent(h)' = <<>> /\ Held(h)' = <<>> /\ Unwritten(h)' = Unwritten(h)
  <2>1. reader'.got = <<>>
    BY Zenon, <1>3 DEF NewReader
  <2> QED
    BY <1>3, <2>1, Zenon DEF Unsent, Held, Unwritten, handlerVars
<1>5. \A h \in Conns : /\ Upward'[h] = Row(hreader[h].got, up[h], <<>>)
                       /\ Downward'[h] = Row(<<>>, down[h], Unwritten(h))
  BY <1>1, <1>4, Zenon DEF RowsOK, handlerVars
<1>6. \A h \in Conns : h # g => UpKept(h) /\ DownKept(h)
  <2>1. \A h \in Conns : h # g => Unsent(h) = <<>> /\ Held(h) = <<>>
    BY Zenon DEF Unsent, Held
  <2> QED
    BY <1>1, <1>5, <2>1, Zenon DEF RowsOK, UpKept, DownKept
<1>7. /\ Upward[g] = Row(hreader[g].got, up[g], Unsent(g))
      /\ Downward[g] = Row(reader.got, down[g], Unwritten(g))
      /\ hreader[g].got \in Seq(Bytes) /\ up[g] \in Seq(Bytes) /\ Unsent(g) \in Seq(Bytes)
      /\ reader.got \in Seq(Bytes) /\ down[g] \in Seq(Bytes) /\ Unwritten(g) \in Seq(Bytes)
  BY <1>1, Zenon DEF RowsOK, Held
<1>8. /\ Part(Upward[g], Upward'[g], 0)
      /\ Len(Upward'[g]) = Len(Upward[g]) - Len(Unsent(g))
  <2> DEFINE a == hreader[g].got
             b == up[g]
             c == Unsent(g)
  <2>1. a \in Seq(Bytes) /\ b \in Seq(Bytes) /\ c \in Seq(Bytes)
    BY <1>7, Zenon
  <2> HIDE DEF a, b, c
  <2>2. /\ Part(Row(a, b, c), Row(a, b, <<>>), 0)
        /\ Len(Row(a, b, <<>>)) = Len(Row(a, b, c)) - Len(c)
    BY Zenon, <2>1, PartFront
  <2> QED
    BY <1>5, <1>7, <2>2, Zenon DEF a, b, c
<1>9. /\ Part(Downward[g], Downward'[g], Len(reader.got))
      /\ Len(Downward[g]) = Len(reader.got) + Len(Downward'[g])
  <2>1. Part(Row(reader.got, down[g], Unwritten(g)), Row(<<>>, down[g], Unwritten(g)),
             Len(reader.got))
    BY Zenon, <1>7, PartTail
  <2>2. Part(Downward[g], Downward'[g], Len(reader.got))
    BY <1>5, <1>7, <2>1, Zenon
  <2>3. <<>> \in Seq(Bytes) /\ Len(<<>>) = 0
    BY Zenon, EmptySeq
  <2>4. /\ Laid(Downward[g], reader.got, down[g], Unwritten(g))
        /\ Laid(Downward'[g], <<>>, down[g], Unwritten(g))
    <3>1. Laid(Row(reader.got, down[g], Unwritten(g)), reader.got, down[g], Unwritten(g))
      BY <1>7, Pieces, Zenon
    <3>2. Laid(Row(<<>>, down[g], Unwritten(g)), <<>>, down[g], Unwritten(g))
      BY <1>7, <2>3, Pieces, Zenon
    <3> QED
      BY <1>5, <1>7, <3>1, <3>2, Zenon
  <2>5. \A w, v, a, b, c :
          Laid(w, a, b, c) /\ Laid(v, <<>>, b, c) => Len(w) = Len(a) + Len(v)
    BY <2>3 DEF Laid
  <2>6. Len(Downward[g]) = Len(reader.got) + Len(Downward'[g])
    BY <2>4, <2>5, Zenon
  <2> QED
    BY <2>2, <2>6, Zenon
<1>10. cpc = "read" => UpKept(g)
  BY <1>5, <1>7, Zenon DEF Unsent, UpKept
<1>11. ASSUME cpc = "write"
       PROVE  Len(Upward'[g]) < Len(Upward[g]) /\ Final(Upward[g][Len(Upward[g])], request.call)
  <2> DEFINE c == Unsent(g)
  <2>1. sent < FrameBytes /\ c = SubSeq(Frame(request), sent + 1, FrameBytes)
    BY <1>11, Zenon DEF CallInv, Unsent
  <2>2. /\ Len(c) = FrameBytes - sent
        /\ \A i \in 1..FrameBytes - sent : Is(c[i], request, sent + i)
    BY Zenon, <1>2, <2>1, RestOfFrame
  <2>3. Laid(Upward[g], hreader[g].got, up[g], c)
    BY <1>7, Pieces
  <2> HIDE DEF c
  <2>4. Len(c) \in Nat /\ Len(c) > 0
    BY <1>2, <2>1, <2>2, Sizes
  <2>5. Upward[g][Len(Upward[g])] = c[Len(c)] /\ Len(Upward[g]) \in Nat
    BY <2>3, <2>4, LaidLast
  <2>6. Is(c[Len(c)], request, FrameBytes)
    <3>1. Len(c) \in 1..FrameBytes - sent /\ sent + Len(c) = FrameBytes
      BY <1>2, <2>2, <2>4, Sizes
    <3> QED
      BY Zenon, <2>2, <3>1
  <2>7. Len(Upward'[g]) < Len(Upward[g])
    <3>1. Len(Upward'[g]) = Len(Upward[g]) - Len(c)
      BY <1>8, Zenon DEF c
    <3> QED
      BY <2>4, <2>5, <3>1
  <2> QED
    BY Zenon, <2>5, <2>6, <2>7 DEF Final, Is
<1> QED
  BY <1>2, <1>6, <1>8, <1>9, <1>10, <1>11, Zenon DEF Ended

\* The steps of a handler change its own connection only.
Apart(g) ==
  /\ UNCHANGED clientVars
  /\ \A h \in Conns : h # g =>
       /\ UpKept(h) /\ DownKept(h)
       /\ hpc'[h] = hpc[h] /\ hreader'[h] = hreader[h] /\ hrequest'[h] = hrequest[h]
       /\ answer'[h] = answer[h] /\ hsent'[h] = hsent[h]
       /\ up'[h] = up[h] /\ down'[h] = down[h]

\* serve_connection leaves the rows of other connections alone.
LEMMA HandlerRows ==
  ASSUME StateOK, StateOK', NEW g \in Conns, HandlerStep(g) \/ HandlerDispatch(g)
  PROVE  Apart(g)
<1>1. UNCHANGED clientVars
  BY Zenon DEF HandlerStep, HandlerReceive, HandlerReadFails, HandlerDecode, HandlerSend,
       HandlerInterrupted, HandlerClose, HandlerDispatch, HandlerQuiet
<1>2. ASSUME NEW h \in Conns, h # g
      PROVE  /\ hpc'[h] = hpc[h] /\ hreader'[h] = hreader[h] /\ hrequest'[h] = hrequest[h]
             /\ answer'[h] = answer[h] /\ hsent'[h] = hsent[h]
             /\ up'[h] = up[h] /\ down'[h] = down[h]
  <2> USE <1>2 DEF StateOK, StreamOK, HandlerOK
  <2>1. CASE HandlerReceive(g)
    BY Zenon, <2>1 DEF HandlerReceive
  <2>2. CASE HandlerReadFails(g)
    BY Zenon, <2>2 DEF HandlerReadFails, Fail, streamVars
  <2>3. CASE HandlerDecode(g)
    <3>1. Fail(g, Failure(hreader[g])) \/ UNCHANGED <<hreader, answer, hsent>>
      BY <2>3, Zenon DEF HandlerDecode
    <3>2. UNCHANGED streamVars
      BY <2>3, Zenon DEF HandlerDecode
    <3>3. CASE Fail(g, Failure(hreader[g]))
      BY Zenon, <3>2, <3>3 DEF Fail, streamVars
    <3>4. CASE ~Fail(g, Failure(hreader[g]))
      BY Zenon, <2>3, <3>2, <3>4 DEF HandlerDecode, streamVars
    <3> QED
      BY <3>3, <3>4, Zenon
  <2>4. CASE HandlerSend(g)
    <3>1. down'[h] = down[h]
      BY Zenon, <2>4 DEF HandlerSend
    <3>2. UNCHANGED <<up, hreader>>
      BY <2>4, Zenon DEF HandlerSend
    <3>3. hpc'[h] = hpc[h] /\ hrequest'[h] = hrequest[h] /\ answer'[h] = answer[h]
      <4>1. \/ UNCHANGED <<hpc, hrequest, answer>>
            \/ /\ \E next \in {"read", "close"} : hpc' = [hpc EXCEPT ![g] = next]
               /\ hrequest' = [hrequest EXCEPT ![g] = NoMessage]
               /\ answer' = [answer EXCEPT ![g] = NoMessage]
        BY <2>4, Zenon DEF HandlerSend
      <4> QED
        BY Zenon, <4>1
    <3>4. hsent'[h] = hsent[h]
      BY Zenon, <2>4 DEF HandlerSend
    <3> QED
      BY <3>1, <3>2, <3>3, <3>4, Zenon
  <2>5. CASE HandlerInterrupted(g)
    BY Zenon, <2>5 DEF HandlerInterrupted, streamVars
  <2>6. CASE HandlerClose(g)
    BY Zenon, <2>6 DEF HandlerClose
  <2>7. CASE HandlerDispatch(g)
    BY Zenon, <2>7 DEF HandlerDispatch, Fail, streamVars
  <2> QED
    BY <2>1, <2>2, <2>3, <2>4, <2>5, <2>6, <2>7, Zenon DEF HandlerStep
<1>3. ASSUME NEW h \in Conns, h # g
      PROVE  UpKept(h) /\ DownKept(h)
  <2>1. RowsOK /\ RowsOK'
    BY Zenon, RowsTypedStep
  <2>2. Unsent(h)' = Unsent(h) /\ Held(h)' = Held(h)
    BY <1>1, Zenon DEF Unsent, Held, clientVars
  <2>3. Unwritten(h)' = Unwritten(h)
    BY <1>2, <1>3, Zenon DEF Unwritten
  <2> QED
    BY <1>2, <1>3, <2>1, <2>2, <2>3, Zenon DEF RowsOK, UpKept, DownKept
<1> QED
  BY <1>1, <1>2, <1>3, Zenon DEF Apart

\* The handler's read_frame, on the rows of its connection.
LEMMA HandlerReceiveRows ==
  ASSUME StateOK, StateOK', NEW g \in Conns, HandlerReceive(g)
  PROVE  DownKept(g) /\ Advanced(hreader[g], hreader'[g], Upward[g], Upward'[g])
<1>1. RowsOK /\ RowsOK'
  BY Zenon, RowsTypedStep
<1>2. PICK n \in 1..Len(up[g]) :
        /\ \E r \in AfterBytes(hreader[g], SubSeq(up[g], 1, n)) :
             hreader' = [hreader EXCEPT ![g] = r]
        /\ up' = [up EXCEPT ![g] = SubSeq(up[g], n + 1, Len(up[g]))]
  BY Zenon DEF HandlerReceive
<1>3. PICK r \in AfterBytes(hreader[g], SubSeq(up[g], 1, n)) :
        hreader' = [hreader EXCEPT ![g] = r]
  BY <1>2, Zenon
<1>4. hreader'[g] = r /\ up'[g] = SubSeq(up[g], n + 1, Len(up[g]))
  BY Zenon, <1>2, <1>3 DEF StateOK, StreamOK, HandlerOK
<1>5. UNCHANGED <<clientVars, down, hpc, answer, hsent>>
  BY Zenon DEF HandlerReceive, HandlerQuiet
<1>6. /\ Unsent(g)' = Unsent(g) /\ Held(g)' = Held(g) /\ Unwritten(g)' = Unwritten(g)
  BY <1>5, Zenon DEF Unsent, Held, Unwritten, clientVars
<1>7. DownKept(g)
  BY <1>1, <1>5, <1>6, Zenon DEF RowsOK, DownKept
<1>8. hreader[g] \in Readers /\ up[g] \in Seq(Bytes) /\ Unsent(g) \in Seq(Bytes)
  BY Zenon, <1>1 DEF RowsOK, StateOK, HandlerOK
<1>9. Advanced(hreader[g], r, Row(hreader[g].got, up[g], Unsent(g)),
               Row(r.got, SubSeq(up[g], n + 1, Len(up[g])), Unsent(g)))
  BY Zenon, <1>8, BytesAdvance
<1>10. /\ Upward[g] = Row(hreader[g].got, up[g], Unsent(g))
       /\ Upward'[g] = Row(r.got, SubSeq(up[g], n + 1, Len(up[g])), Unsent(g))
  BY <1>1, <1>4, <1>6, Zenon DEF RowsOK
<1> QED
  BY <1>4, <1>7, <1>9, <1>10, Zenon

\* A handler that fails drops what it has read and answers, or only drops it.
Dropped(g) ==
  hreader'[g] = NewReader /\ Part(Upward[g], Upward'[g], Len(hreader[g].got))

Answered(g, m) ==
  /\ hpc'[g] = "write" /\ answer'[g] = m /\ Extended(Downward[g], Downward'[g], m)

\* The handler is done with the request it read: its bytes leave the row.
LEMMA DropRows ==
  ASSUME StateOK, StateOK', NEW g \in Conns, UNCHANGED <<clientVars, streamVars>>,
         hreader' = [hreader EXCEPT ![g] = NewReader]
  PROVE  Dropped(g)
<1>1. RowsOK /\ RowsOK'
  BY Zenon, RowsTypedStep
<1>2. hreader'[g] = NewReader
  BY Zenon DEF StateOK, HandlerOK
<1>3. hreader'[g].got = <<>>
  BY <1>2 DEF NewReader
<1>4. Unsent(g)' = Unsent(g)
  BY Zenon DEF Unsent, clientVars
<1>5. /\ Upward[g] = Row(hreader[g].got, up[g], Unsent(g))
      /\ Upward'[g] = Row(<<>>, up[g], Unsent(g))
  BY <1>1, <1>3, <1>4, Zenon DEF RowsOK, streamVars
<1>6. hreader[g].got \in Seq(Bytes) /\ up[g] \in Seq(Bytes) /\ Unsent(g) \in Seq(Bytes)
  BY <1>1, Zenon DEF RowsOK
<1>7. Part(Row(hreader[g].got, up[g], Unsent(g)), Row(<<>>, up[g], Unsent(g)),
           Len(hreader[g].got))
  BY Zenon, <1>6, PartTail
<1> QED
  BY <1>2, <1>5, <1>7, Zenon DEF Dropped

\* serve_connection begins to write m: its frame is added to the row.
LEMMA AnswerRows ==
  ASSUME StateOK, StateOK', HandlerInv, NEW g \in Conns, NEW m \in Messages,
         hpc[g] \in {"read", "dispatch"}, UNCHANGED <<clientVars, streamVars, hsent>>,
         hpc' = [hpc EXCEPT ![g] = "write"], answer' = [answer EXCEPT ![g] = m]
  PROVE  Answered(g, m)
<1>1. RowsOK /\ RowsOK'
  BY Zenon, RowsTypedStep
<1>2. hpc'[g] = "write" /\ answer'[g] = m
  BY Zenon DEF StateOK, HandlerOK
<1>3. hsent'[g] + 1 = 1
  BY DEF HandlerInv
<1>4. Unwritten(g) = <<>> /\ Unwritten(g)' = SubSeq(Frame(m), 1, FrameBytes)
  BY <1>2, <1>3, Zenon DEF Unwritten
<1>5. Held(g)' = Held(g)
  BY Zenon DEF Held, clientVars
<1>6. /\ Downward[g] = Row(Held(g), down[g], <<>>)
      /\ Downward'[g] = Row(Held(g), down[g], SubSeq(Frame(m), 1, FrameBytes))
  BY <1>1, <1>4, <1>5, Zenon DEF RowsOK, streamVars
<1>7. Held(g) \in Seq(Bytes) /\ down[g] \in Seq(Bytes)
  BY <1>1, Zenon DEF RowsOK
<1>8. Extended(Row(Held(g), down[g], <<>>),
               Row(Held(g), down[g], SubSeq(Frame(m), 1, FrameBytes)), m)
  BY Zenon, <1>7, ExtendedByFrame
<1> QED
  BY <1>2, <1>6, <1>8, Zenon DEF Answered

\* A handler that stops reading or writing leaves the row it does not write.
LEMMA SilentRows ==
  ASSUME StateOK, StateOK', NEW g \in Conns, UNCHANGED <<clientVars, down>>,
         hpc[g] # "write", hpc'[g] # "write"
  PROVE  DownKept(g)
<1>1. RowsOK /\ RowsOK'
  BY Zenon, RowsTypedStep
<1>2. Held(g)' = Held(g) /\ Unwritten(g) = <<>> /\ Unwritten(g)' = <<>>
  BY Zenon DEF Held, Unwritten, clientVars
<1> QED
  BY <1>1, <1>2, Zenon DEF RowsOK, DownKept

\* What a handler does about its answers leaves the requests alone.
LEMMA ListeningRows ==
  ASSUME StateOK, StateOK', NEW g \in Conns, UNCHANGED <<clientVars, up, hreader>>
  PROVE  UpKept(g)
<1>1. RowsOK /\ RowsOK'
  BY Zenon, RowsTypedStep
<1>2. Unsent(g)' = Unsent(g)
  BY Zenon DEF Unsent, clientVars
<1> QED
  BY <1>1, <1>2, Zenon DEF RowsOK, UpKept

\* send of a handler moves bytes along the row.
LEMMA HandlerSendRows ==
  ASSUME StateOK, StateOK', NEW g \in Conns, HandlerSend(g)
  PROVE  UpKept(g) /\ DownKept(g)
<1>1. RowsOK /\ RowsOK'
  BY Zenon, RowsTypedStep
<1>2. hpc[g] = "write" /\ UNCHANGED <<clientVars, up, hreader>>
  BY Zenon DEF HandlerSend, HandlerQuiet
<1> DEFINE f == Frame(answer[g])
           x == hsent[g]
<1>3. PICK n \in 1..FrameBytes - x :
        /\ down' = [down EXCEPT ![g] = down[g] \o SubSeq(f, x + 1, x + n)]
        /\ \/ /\ x + n < FrameBytes
              /\ hsent' = [hsent EXCEPT ![g] = x + n]
              /\ UNCHANGED <<hpc, answer>>
           \/ /\ x + n = FrameBytes
              /\ \E next \in {"read", "close"} : hpc' = [hpc EXCEPT ![g] = next]
  BY Zenon DEF HandlerSend
<1>4. x \in 0..FrameBytes /\ n \in 0..FrameBytes - x /\ answer[g] \in Messages
  BY <1>3, Sizes DEF StateOK, HandlerOK
<1>5. Unwritten(g)' = SubSeq(f, x + n + 1, FrameBytes)
  <2>1. CASE x + n < FrameBytes
    <3>1. hpc'[g] = "write" /\ answer'[g] = answer[g] /\ hsent'[g] = x + n
      BY <1>2, <1>3, <1>4, <2>1, Sizes DEF StateOK, HandlerOK
    <3> QED
      BY <3>1, Zenon DEF Unwritten
  <2>2. CASE x + n = FrameBytes
    <3>1. hpc'[g] # "write"
      BY <1>3, <1>4, <2>2, Sizes DEF StateOK, HandlerOK
    <3>2. FrameBytes < x + n + 1 /\ x + n + 1 \in Int /\ FrameBytes \in Int
      BY <1>4, <2>2, Sizes
    <3>3. SubSeq(f, x + n + 1, FrameBytes) = <<>>
      BY Zenon, <3>2, SubSeqEmpty
    <3> QED
      BY <3>1, <3>3, Zenon DEF Unwritten
  <2> QED
    BY <1>3, <2>1, <2>2, Zenon
<1>6. Unwritten(g) = SubSeq(f, x + 1, FrameBytes) /\ Held(g)' = Held(g)
  BY <1>2, Zenon DEF Unwritten, Held, clientVars
<1>7. down'[g] = down[g] \o SubSeq(f, x + 1, x + n)
  BY Zenon, <1>3 DEF StateOK, StreamOK
<1>8. Held(g) \in Seq(Bytes) /\ down[g] \in Seq(Bytes)
  BY <1>1, Zenon DEF RowsOK
<1>9. Row(Held(g), down[g] \o SubSeq(f, x + 1, x + n), SubSeq(f, x + n + 1, FrameBytes))
      = Row(Held(g), down[g], SubSeq(f, x + 1, FrameBytes))
  BY Zenon, <1>4, <1>8, SendMoves
<1>10. /\ Downward[g] = Row(Held(g), down[g], SubSeq(f, x + 1, FrameBytes))
       /\ Downward'[g] = Row(Held(g), down[g] \o SubSeq(f, x + 1, x + n),
                             SubSeq(f, x + n + 1, FrameBytes))
  BY <1>1, <1>5, <1>6, <1>7, Zenon DEF RowsOK
<1>11. DownKept(g)
  BY <1>9, <1>10, Zenon DEF DownKept
<1> QED
  BY <1>2, <1>11, ListeningRows, Zenon

\* A handler that is interrupted takes what it did not write from the end, and
\* one that closes takes all that it could still have read from the front.
LEMMA HandlerInterruptedRows ==
  ASSUME StateOK, StateOK', NEW g \in Conns, HandlerInterrupted(g)
  PROVE  UpKept(g) /\ Part(Downward[g], Downward'[g], 0)
<1>1. RowsOK /\ RowsOK'
  BY Zenon, RowsTypedStep
<1>2. UNCHANGED <<clientVars, up, down, hreader>>
  BY Zenon DEF HandlerInterrupted, HandlerQuiet, streamVars
<1>3. hpc'[g] = "close"
  BY Zenon DEF HandlerInterrupted, StateOK, HandlerOK
<1>4. Unwritten(g)' = <<>> /\ Held(g)' = Held(g)
  BY <1>2, <1>3, Zenon DEF Unwritten, Held, clientVars
<1> DEFINE a == Held(g)
           b == down[g]
           c == Unwritten(g)
<1>5. a \in Seq(Bytes) /\ b \in Seq(Bytes) /\ c \in Seq(Bytes)
  BY <1>1, Zenon DEF RowsOK
<1>6. Downward[g] = Row(a, b, c) /\ Downward'[g] = Row(a, b, <<>>)
  BY <1>1, <1>2, <1>4, Zenon DEF RowsOK
<1> HIDE DEF a, b, c
<1>7. Part(Row(a, b, c), Row(a, b, <<>>), 0)
  BY Zenon, <1>5, PartFront
<1>8. Part(Downward[g], Downward'[g], 0)
  BY <1>6, <1>7, Zenon
<1> QED
  BY <1>2, <1>8, ListeningRows, Zenon

\* The handler's descriptor goes out of scope: nothing is added to the rows.
LEMMA HandlerCloseRows ==
  ASSUME StateOK, StateOK', NEW g \in Conns, HandlerClose(g)
  PROVE  DownKept(g) /\ \E k \in Nat : Part(Upward[g], Upward'[g], k)
<1>1. RowsOK /\ RowsOK'
  BY Zenon, RowsTypedStep
<1>2. UNCHANGED <<clientVars, down>> /\ hpc[g] = "close"
  BY Zenon DEF HandlerClose, HandlerQuiet
<1>3. hpc'[g] = "gone" /\ up'[g] = <<>> /\ hreader'[g] = NewReader
  BY Zenon DEF HandlerClose, StateOK, StreamOK, HandlerOK
<1>4. DownKept(g)
  BY Zenon, <1>2, <1>3, SilentRows
<1>5. hreader'[g].got = <<>> /\ Unsent(g)' = Unsent(g)
  BY <1>2, <1>3 DEF NewReader, Unsent, clientVars
<1> DEFINE a == hreader[g].got
           b == up[g]
           c == Unsent(g)
<1>6. a \in Seq(Bytes) /\ b \in Seq(Bytes) /\ c \in Seq(Bytes)
  BY <1>1, Zenon DEF RowsOK
<1>7. Upward[g] = Row(a, b, c) /\ Upward'[g] = Row(<<>>, <<>>, c)
  BY <1>1, <1>3, <1>5, Zenon DEF RowsOK
<1> HIDE DEF a, b, c
<1>8. Part(Row(a, b, c), Row(<<>>, <<>>, c), Len(a) + Len(b))
  BY Zenon, <1>6, PartTail
<1>9. Len(a) + Len(b) \in Nat
  BY <1>6, BytesOf
<1> QED
  BY <1>4, <1>7, <1>8, <1>9, Zenon

\* What the readers hold is the front of the rows, and the streams the rest.
LEMMA ReaderRows ==
  ASSUME StateOK, NEW g \in Conns
  PROVE  /\ Laid(Upward[g], hreader[g].got, up[g], Unsent(g))
         /\ Laid(Downward[g], Held(g), down[g], Unwritten(g))
         /\ Upward[g] \in Seq(Bytes) /\ Downward[g] \in Seq(Bytes)
         /\ Len(Upward[g]) \in Nat /\ Len(Downward[g]) \in Nat
<1>1. RowsOK
  BY Zenon, RowsTyped
<1>2. Laid(Upward[g], hreader[g].got, up[g], Unsent(g))
  BY <1>1, Pieces DEF RowsOK
<1>3. Laid(Downward[g], Held(g), down[g], Unwritten(g))
  BY <1>1, Pieces DEF RowsOK
<1>4. Upward[g] \in Seq(Bytes) /\ Downward[g] \in Seq(Bytes)
  BY Zenon, <1>1 DEF RowsOK
<1> QED
  BY Zenon, <1>2, <1>3, <1>4, BytesOf

\* What a handler that answers writes: its response, or the failure made of what
\* it has read.
Reply(g, m) ==
  /\ hpc[g] \in {"read", "dispatch"} /\ Dropped(g) /\ Answered(g, m) /\ m \in Messages
  /\ \/ m = Failure(hreader[g])
     \/ hpc[g] = "dispatch" /\ m = [hrequest[g] EXCEPT !.kind = "response"]

Replies(g) == \E m \in Messages : Reply(g, m)

\* In all, the steps of a handler take bytes from one row, and add an answer to
\* the other or take what is not written of one.
Served(g) ==
  /\ \E k \in Nat : Part(Upward[g], Upward'[g], k)
  /\ \/ DownKept(g)
     \/ Part(Downward[g], Downward'[g], 0) /\ hpc'[g] = "close"
     \/ Replies(g)

\* The failures of read_frame, decode_request and encode_response alike.
LEMMA FailRows ==
  ASSUME StateOK, StateOK', HandlerInv, NEW g \in Conns, hpc[g] \in {"read", "dispatch"},
         Fail(g, Failure(hreader[g])), UNCHANGED <<clientVars, streamVars>>
  PROVE  /\ Dropped(g) /\ (Replies(g) \/ (DownKept(g) /\ hpc'[g] = "close"))
         /\ hpc'[g] = "write" => Reply(g, Failure(hreader[g]))
<1>1. Dropped(g)
  BY DropRows, Zenon DEF Fail
<1>2. Failure(hreader[g]) \in Messages
  BY Zenon, FailureTypes DEF StateOK, HandlerOK
<1>3. CASE /\ hpc' = [hpc EXCEPT ![g] = "write"]
           /\ answer' = [answer EXCEPT ![g] = Failure(hreader[g])]
  <2>1. Answered(g, Failure(hreader[g]))
    BY <1>2, <1>3, AnswerRows, Zenon DEF Fail
  <2> QED
    BY <1>1, <1>2, <2>1, Zenon DEF Replies, Reply
<1>4. CASE hpc' = [hpc EXCEPT ![g] = "close"] /\ UNCHANGED answer
  <2>1. hpc'[g] = "close"
    BY Zenon, <1>4 DEF StateOK, HandlerOK
  <2>2. DownKept(g)
    BY Zenon, <2>1, SilentRows DEF streamVars
  <2> QED
    BY Zenon, <1>1, <2>1, <2>2
<1> QED
  BY <1>3, <1>4, Zenon DEF Fail

\* After dispatch the handler writes a response or a failure, or it closes.
LEMMA DispatchRows ==
  ASSUME StateOK, StateOK', HandlerInv, NEW g \in Conns, HandlerDispatch(g)
  PROVE  /\ Dropped(g) /\ (Replies(g) \/ (DownKept(g) /\ hpc'[g] = "close"))
<1>1. hpc[g] = "dispatch" /\ UNCHANGED <<clientVars, streamVars>>
  BY Zenon DEF HandlerDispatch
<1>2. CASE Fail(g, Failure(hreader[g]))
  BY Zenon, <1>1, <1>2, FailRows
<1>3. CASE ~Fail(g, Failure(hreader[g]))
  <2> DEFINE m == [hrequest[g] EXCEPT !.kind = "response"]
  <2>1. /\ hpc' = [hpc EXCEPT ![g] = "write"] /\ answer' = [answer EXCEPT ![g] = m]
        /\ hreader' = [hreader EXCEPT ![g] = NewReader] /\ UNCHANGED hsent
    BY <1>3, Zenon DEF HandlerDispatch
  <2>2. m \in Messages
    BY Zenon, MessageTypes DEF StateOK, HandlerOK
  <2>3. Dropped(g)
    BY Zenon, <1>1, <2>1, DropRows
  <2>4. Answered(g, m)
    BY <1>1, <2>1, <2>2, AnswerRows, Zenon
  <2> QED
    BY <1>1, <2>2, <2>3, <2>4, Zenon DEF Replies, Reply
<1> QED
  BY <1>2, <1>3, Zenon

\* Every step of a handler, on the rows of its connection.
LEMMA ServedRows ==
  ASSUME StateOK, StateOK', HandlerInv, NEW g \in Conns, HandlerStep(g) \/ HandlerDispatch(g)
  PROVE  Apart(g) /\ Served(g)
<1>1. Apart(g)
  BY Zenon, HandlerRows
<1>2. Upward[g] \in Seq(Bytes) /\ 0 \in Nat
  BY Zenon, ReaderRows
<1>3. Part(Upward[g], Upward[g], 0)
  BY Zenon, <1>2, PartSame
<1>4. UpKept(g) => \E k \in Nat : Part(Upward[g], Upward'[g], k)
  BY <1>2, <1>3, Zenon DEF UpKept
<1>5. Dropped(g) => \E k \in Nat : Part(Upward[g], Upward'[g], k)
  BY Zenon DEF Dropped, Part
<1>6. CASE HandlerReceive(g)
  <2>1. DownKept(g) /\ Advanced(hreader[g], hreader'[g], Upward[g], Upward'[g])
    BY Zenon, <1>6, HandlerReceiveRows
  <2>2. UpKept(g) \/ Part(Upward[g], Upward'[g], HeaderBytes)
    BY <2>1, Zenon DEF Advanced, UpKept
  <2> QED
    BY <1>1, <1>4, <2>1, <2>2, Sizes, Zenon DEF Served
<1>7. CASE HandlerReadFails(g)
  <2>1. hpc[g] = "read" /\ UNCHANGED <<clientVars, streamVars>>
    BY <1>7, Zenon DEF HandlerReadFails, HandlerQuiet
  <2>2. CASE Fail(g, Failure(hreader[g]))
    BY <1>1, <1>5, <2>1, <2>2, FailRows, Zenon DEF Served
  <2>3. CASE ~Fail(g, Failure(hreader[g]))
    <3>1. hpc' = [hpc EXCEPT ![g] = "close"] /\ UNCHANGED hreader
      BY <1>7, <2>3, Zenon DEF HandlerReadFails
    <3>2. hpc'[g] = "close"
      BY Zenon, <3>1 DEF StateOK, HandlerOK
    <3>3. DownKept(g) /\ UpKept(g)
      BY Zenon, <2>1, <3>1, <3>2, SilentRows, ListeningRows DEF streamVars
    <3> QED
      BY <1>1, <1>4, <3>3, Zenon DEF Served
  <2> QED
    BY <2>2, <2>3, Zenon
<1>8. CASE HandlerDecode(g)
  <2>1. hpc[g] = "read" /\ UNCHANGED <<clientVars, streamVars>>
    BY <1>8, Zenon DEF HandlerDecode, HandlerQuiet
  <2>2. CASE Fail(g, Failure(hreader[g]))
    BY <1>1, <1>5, <2>1, <2>2, FailRows, Zenon DEF Served
  <2>3. CASE ~Fail(g, Failure(hreader[g]))
    <3>1. hpc' = [hpc EXCEPT ![g] = "dispatch"] /\ UNCHANGED hreader
      BY <1>8, <2>3, Zenon DEF HandlerDecode
    <3>2. hpc'[g] = "dispatch"
      BY Zenon, <3>1 DEF StateOK, HandlerOK
    <3>3. DownKept(g) /\ UpKept(g)
      BY Zenon, <2>1, <3>1, <3>2, SilentRows, ListeningRows DEF streamVars
    <3> QED
      BY <1>1, <1>4, <3>3, Zenon DEF Served
  <2> QED
    BY <2>2, <2>3, Zenon
<1>9. CASE HandlerSend(g)
  BY <1>1, <1>4, <1>9, HandlerSendRows, Zenon DEF Served
<1>10. CASE HandlerInterrupted(g)
  <2>1. hpc'[g] = "close"
    BY Zenon, <1>10 DEF HandlerInterrupted, StateOK, HandlerOK
  <2> QED
    BY <1>1, <1>4, <1>10, <2>1, HandlerInterruptedRows, Zenon DEF Served
<1>11. CASE HandlerClose(g)
  BY <1>1, <1>11, HandlerCloseRows, Zenon DEF Served
<1>12. CASE HandlerDispatch(g)
  BY <1>1, <1>5, <1>12, DispatchRows, Zenon DEF Served
<1> QED
  BY <1>6, <1>7, <1>8, <1>9, <1>10, <1>11, <1>12, Zenon DEF HandlerStep

-----------------------------------------------------------------------------
(* What a reader knows of the bytes it holds                                 *)

\* A payload is intact when its bytes are those of one message, in order.
LEMMA IntactBytes ==
  ASSUME NEW p \in Seq(Bytes), Len(p) > 0
  PROVE  /\ Intact(p) => /\ Len(p) = PayloadBytes
                         /\ \A i \in 1..PayloadBytes : Is(p[i], p[1].of, HeaderBytes + i)
         /\ \A m \in Messages :
              Len(p) = PayloadBytes /\ (\A i \in 1..PayloadBytes : Is(p[i], m, HeaderBytes + i))
                => Intact(p)
<1>1. Len(p) \in Nat /\ \A i \in 1..Len(p) : p[i] \in Bytes /\ p[i].of \in Messages
  BY Zenon, BytesOf
<1>2. HeaderBytes \in 0..FrameBytes /\ FrameBytes - HeaderBytes = PayloadBytes /\ PayloadBytes \in Nat
      /\ PayloadBytes > 0
  BY Sizes
<1>3. \A m \in Messages :
        LET r == SubSeq(Frame(m), HeaderBytes + 1, FrameBytes) IN
        /\ r \in Seq(Bytes) /\ Len(r) = PayloadBytes
        /\ \A i \in 1..PayloadBytes : Is(r[i], m, HeaderBytes + i)
  BY Zenon, <1>2, RestOfFrame
<1>4. p[1].of \in Messages /\ p # <<>>
  BY <1>1, EmptySeq
<1>5. Intact(p) => /\ Len(p) = PayloadBytes
                   /\ \A i \in 1..PayloadBytes : Is(p[i], p[1].of, HeaderBytes + i)
  BY <1>3, <1>4, Zenon DEF Intact
<1>6. ASSUME NEW m \in Messages, Len(p) = PayloadBytes,
             \A i \in 1..PayloadBytes : Is(p[i], m, HeaderBytes + i)
      PROVE  Intact(p)
  <2> DEFINE r == SubSeq(Frame(m), HeaderBytes + 1, FrameBytes)
  <2>1. /\ r \in Seq(Bytes) /\ Len(r) = PayloadBytes
        /\ \A i \in 1..PayloadBytes : Is(r[i], m, HeaderBytes + i)
    BY <1>3, Zenon
  <2> HIDE DEF r
  <2>2. \A i \in 1..Len(p) : p[i] = r[i]
    <3> TAKE i \in 1..Len(p)
    <3>1. p[i] \in Bytes /\ r[i] \in Bytes
      BY Zenon, <1>1, <1>6, <2>1, BytesOf
    <3>2. p[i].of = r[i].of /\ p[i].at = r[i].at
      BY Zenon, <1>6, <2>1 DEF Is
    <3> QED
      BY Zenon, <3>1, <3>2, ByteEqual
  <2>3. p = r
    BY Zenon, <1>6, <2>1, <2>2, SeqEqual
  <2>4. p[1].of = m
    BY <1>2, <1>6 DEF Is
  <2> QED
    BY <1>4, <2>3, <2>4, Zenon DEF Intact, r
<1> QED
  BY Zenon, <1>5, <1>6

\* The bytes at the front of a row that a reader holds.
Front(s, p) == Len(p) <= Len(s) /\ \A i \in 1..Len(p) : s[i] = p[i]

\* What a reader holds is the front of its row.
LEMMA Fronts ==
  ASSUME StateOK, NEW g \in Conns
  PROVE  /\ Front(Upward[g], hreader[g].got) /\ Front(Downward[g], Held(g))
         /\ Len(hreader[g].got) \in Nat /\ Len(Held(g)) \in Nat
<1>1. \A w, a, b, c : Laid(w, a, b, c) => Front(w, a) /\ Len(a) \in Nat
  BY DEF Laid, Front
<1> QED
  BY <1>1, ReaderRows, Zenon

\* The request that a handler dispatches is one that was sent, or is made of the
\* beginning of one.
Whole(g) ==
  /\ Len(hreader[g].got) = PayloadBytes /\ PayloadBytes <= Len(Upward[g])
  /\ Correlated(hreader[g])
  /\ hrequest[g] = Upward[g][1].of
  /\ \A i \in 1..PayloadBytes : Is(Upward[g][i], hrequest[g], HeaderBytes + i)

Garbled(g) ==
  /\ ~Intact(hreader[g].got) /\ Correlated(hreader[g]) /\ Complete(hreader[g])
  /\ hrequest[g] = [Upward[g][1].of EXCEPT !.call = 0]

\* recover_correlation finds the id of the first byte.
LEMMA CorrelatedFirst ==
  ASSUME StateOK, NEW g \in Conns, Correlated(hreader[g])
  PROVE  /\ 1 \in 1..Len(Upward[g]) /\ hreader[g].got[1] = Upward[g][1]
         /\ Upward[g][1].at = HeaderBytes + 1 /\ hreader[g].size # 0
<1>1. Front(Upward[g], hreader[g].got) /\ Len(hreader[g].got) \in Nat
  BY Zenon, Fronts
<1>2. Len(hreader[g].got) >= PrefixBytes /\ hreader[g].size \in 1..MaximumPayload
  BY Zenon DEF Correlated
<1>3. hreader[g].got[1] = [of |-> hreader[g].got[1].of, at |-> HeaderBytes + 1]
  <2>1. 1 \in 1..PrefixBytes
    BY Sizes
  <2> QED
    BY <2>1, Zenon DEF Correlated
<1>4. 1 \in 1..Len(hreader[g].got)
  BY <1>1, <1>2, Sizes
<1>5. Len(Upward[g]) \in Nat
  BY Zenon, ReaderRows
<1>6. 1 \in 1..Len(Upward[g]) /\ hreader[g].got[1] = Upward[g][1]
  BY <1>1, <1>4, <1>5 DEF Front
<1>7. hreader[g].got[1].at = HeaderBytes + 1
  BY <1>3
<1>8. hreader[g].size # 0
  BY <1>2
<1> QED
  BY <1>6, <1>7, <1>8, Zenon

\* A request that serve_connection dispatches is intact, or garbled after its id.
LEMMA Dispatching ==
  ASSUME StateOK, HandlerInv, NEW g \in Conns, hpc[g] = "dispatch"
  PROVE  /\ Whole(g) \/ Garbled(g)
         /\ 1 \in 1..Len(Upward[g]) /\ hreader[g].got[1] = Upward[g][1]
         /\ Correlated(hreader[g])
<1> DEFINE r == hreader[g]
           p == hreader[g].got
<1>1. Decoded(g)
  BY Zenon DEF HandlerInv
<1>2. r \in Readers /\ p \in Seq(Bytes)
  BY Zenon, ReaderTypes DEF StateOK, HandlerOK
<1>3. r.size \in 1..MaximumPayload /\ Len(p) = r.size
  BY <1>1, Zenon DEF Decoded, Complete
<1>4. Front(Upward[g], p) /\ Len(p) \in Nat /\ Len(Upward[g]) \in Nat
  BY Zenon, Fronts, ReaderRows
<1>5. Len(p) > 0
  BY <1>3, <1>4
<1>6. 1 \in 1..Len(Upward[g]) /\ p[1] = Upward[g][1]
  BY <1>4, <1>5 DEF Front
<1>7. CASE Intact(p)
  <2>1. /\ Len(p) = PayloadBytes
        /\ \A i \in 1..PayloadBytes : Is(p[i], p[1].of, HeaderBytes + i)
    BY Zenon, <1>2, <1>5, <1>7, IntactBytes
  <2>2. hrequest[g] = p[1].of
    BY <1>1, <1>7, Zenon DEF Decoded
  <2>3. Correlated(r)
    <3>1. Len(r.got) >= PrefixBytes
      BY Zenon, <2>1, Sizes
    <3>2. ASSUME NEW i \in 1..PrefixBytes
          PROVE  r.got[i] = [of |-> r.got[1].of, at |-> HeaderBytes + i]
      <4>1. i \in 1..PayloadBytes /\ i \in 1..Len(p)
        BY <2>1, Sizes
      <4>2. p[i] \in Bytes /\ Is(p[i], p[1].of, HeaderBytes + i)
        BY Zenon, <1>2, <2>1, <4>1, BytesOf
      <4> QED
        BY Zenon, <4>2 DEF Is, Bytes
    <3> QED
      BY <1>3, <3>1, <3>2, Zenon DEF Correlated
  <2>4. \A i \in 1..PayloadBytes : Is(Upward[g][i], hrequest[g], HeaderBytes + i)
    BY Zenon, <1>4, <2>1, <2>2 DEF Front
  <2>5. PayloadBytes <= Len(Upward[g])
    BY Zenon, <1>4, <2>1 DEF Front
  <2> QED
    BY <1>6, <2>1, <2>2, <2>3, <2>4, <2>5, Zenon DEF Whole
<1>8. CASE ~Intact(p)
  BY <1>1, <1>6, <1>8, Zenon DEF Garbled, Decoded
<1> QED
  BY <1>7, <1>8, Zenon

\* What a failure carries: nothing, or what the first byte in the row carries.
LEMMA FailureIs ==
  ASSUME StateOK, NEW g \in Conns
  PROVE  LET m == Failure(hreader[g]) IN
         /\ m.kind = "failure"
         /\ \/ m = Sentinel /\ ~Correlated(hreader[g])
            \/ /\ Correlated(hreader[g]) /\ 1 \in 1..Len(Upward[g])
               /\ m = [Upward[g][1].of EXCEPT !.kind = "failure"]
               /\ m.call = Upward[g][1].of.call /\ m.id = Upward[g][1].of.id
<1>1. CASE ~Correlated(hreader[g])
  BY Zenon, <1>1 DEF Failure, Sentinel, Message
<1>2. CASE Correlated(hreader[g])
  <2>1. 1 \in 1..Len(Upward[g]) /\ hreader[g].got[1] = Upward[g][1]
    BY Zenon, <1>2, CorrelatedFirst
  <2>2. Upward[g][1].of \in Messages
    BY Zenon, <2>1, ReaderRows, BytesOf
  <2>3. Failure(hreader[g]) = [Upward[g][1].of EXCEPT !.kind = "failure"]
    BY <1>2, <2>1, Zenon DEF Failure
  <2> QED
    BY Zenon, <1>2, <2>1, <2>2, <2>3 DEF Messages
<1> QED
  BY <1>1, <1>2, Zenon

=============================================================================
