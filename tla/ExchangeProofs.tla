--------------------------- MODULE ExchangeProofs ---------------------------
(***************************************************************************)
(* What a caller of Client may rely on, for every size of the frames, the  *)
(* buffers, the ids and the calls: responses are matched to their          *)
(* requests, a failure that says nothing happened is true, a request is    *)
(* executed at most once, and exchanges stay apart.  ExchangeStepProofs    *)
(* has the first half of the invariant; here are the parts about results,  *)
(* answers and the order of the bytes, and the theorems.                   *)
(***************************************************************************)
EXTENDS ExchangeStepProofs

USE FrameAssumption, ExchangeAssumption, SMTT(20), ZenonT(20)

-----------------------------------------------------------------------------
(* What a call reports stays true                                            *)

\* No handler that still dispatches will read the end of the request of c.
NoFinal(c) ==
  \A g \in Conns : g \notin Failing => \A i \in 1..Len(Upward[g]) : ~Final(Upward[g][i], c)

\* What SettledInv says of one call.
SettledCall(c) ==
  /\ result[c] \in DefiniteFailures => executed[c] = 0
  /\ result[c] = "Answered" => executed[c] = 1
  /\ result[c] \in DefiniteFailures \cup {"Answered", "Failed"} => NoFinal(c)

\* Once the last byte of a request is nowhere a handler would read it, it stays so.
LEMMA NoFinalStays ==
  ASSUME ExchangeInv, StateOK', Next, NEW c
  PROVE  /\ UpwardParts /\ NoFinal(c) => NoFinal(c)'
         /\ Requested /\ NoFinal(c) /\ c # calls' => NoFinal(c)'
<1>1. StateOK
  BY Zenon DEF ExchangeInv
<1>2. ASSUME NEW g \in Conns, g \notin Failing'
      PROVE  g \notin Failing
  BY <1>2, FailingStays, Zenon
<1>3. ASSUME UpwardParts, NoFinal(c), NEW g \in Conns, g \notin Failing',
             NEW i \in 1..Len(Upward'[g]), Final(Upward'[g][i], c)
      PROVE  FALSE
  <2>1. PICK k \in Nat : Part(Upward[g], Upward'[g], k)
    BY <1>3, Zenon DEF UpwardParts
  <2>2. i + k \in 1..Len(Upward[g]) /\ Final(Upward[g][i + k], c)
    BY <1>1, <1>3, <2>1, PartFinal, Zenon
  <2> QED
    BY <1>2, <1>3, <2>2, Zenon DEF NoFinal
<1>4. ASSUME Requested, NoFinal(c), c # calls', NEW g \in Conns, g \notin Failing',
             NEW i \in 1..Len(Upward'[g]), Final(Upward'[g][i], c)
      PROVE  FALSE
  <2>1. \/ i \in 1..Len(Upward[g]) /\ Final(Upward[g][i], c) /\ c # calls'
        \/ g = descriptor /\ i = Len(Upward[g]) + FrameBytes /\ c = calls'
    BY <1>4, RequestedFinal, Zenon
  <2> QED
    BY <1>2, <1>4, <2>1, Zenon DEF NoFinal
<1>5. UpwardParts /\ NoFinal(c) => NoFinal(c)'
  BY <1>3, Zenon DEF NoFinal, Final
<1>6. Requested /\ NoFinal(c) /\ c # calls' => NoFinal(c)'
  BY <1>4, Zenon DEF NoFinal, Final
<1> QED
  BY <1>5, <1>6, Zenon

\* What the client decodes is at the front of what is on its way to it.
LEMMA ClientFirst ==
  ASSUME StateOK, NEW g \in Conns, g = descriptor, Complete(reader)
  PROVE  1 \in 1..Len(Downward[g]) /\ Downward[g][1] = reader.got[1]
<1>1. Front(Downward[g], reader.got) /\ Len(reader.got) \in Nat /\ Len(Downward[g]) \in Nat
  <2>1. Held(g) = reader.got
    BY Zenon DEF Held
  <2> QED
    BY Zenon, <2>1, Fronts, ReaderRows
<1>2. Len(reader.got) > 0
  BY <1>1 DEF Complete
<1> QED
  BY <1>1, <1>2 DEF Front

\* How the call in progress may end, and what has become of its request.
LEMMA EndingSettles ==
  ASSUME ExchangeInv, StateOK', Next, NEW how, Ending(how)
  PROVE  /\ how \in DefiniteFailures => executed[calls] = 0
         /\ how = "Answered" => executed[calls] = 1
         /\ how \in DefiniteFailures \cup {"Answered", "Failed"} => NoFinal(calls)'
<1>1. /\ StateOK /\ CallInv /\ MessageInv /\ CurrentInv /\ OnceInv /\ RefusalInv
      /\ cpc # "idle" /\ Ended
  BY Zenon DEF ExchangeInv, Ending
<1>2. request.call = calls /\ calls \in Calls /\ calls # 0
  BY <1>1 DEF CallInv, StateOK, HistoryOK, Calls
<1>3. PICK d \in Conns : d = descriptor
  BY <1>1, Zenon DEF Ended
<1>4. calls' = calls /\ UpwardParts
  <2>1. calls' = calls
    BY Zenon DEF Ending, EndCall
  <2>2. ~Requested
    <3>1. cpc' = "idle"
      BY Zenon DEF Ending, EndCall
    <3> QED
      BY Zenon, <3>1 DEF Requested
  <2> QED
    BY <2>1, <2>2, RowsShrink, Zenon
<1>5. ASSUME d \in Failing
      PROVE  NoFinal(calls)'
  <2>1. NoFinal(calls)
    <3>1. ASSUME NEW g \in Conns, g # descriptor, NEW i \in 1..Len(Upward[g]),
                 Final(Upward[g][i], calls)
          PROVE  FALSE
      BY <1>1, <1>2, <3>1, Zenon DEF CurrentInv, Final
    <3> QED
      BY <1>3, <1>5, <3>1, Zenon DEF NoFinal
  <2> QED
    BY <1>4, <2>1, NoFinalStays, Zenon
<1>6. executed[calls] # 0 => NoFinal(calls)'
  <2>1. executed[calls] # 0 => NoFinal(calls)
    BY <1>1, <1>2, Zenon DEF OnceInv, NoFinal
  <2> QED
    BY <1>4, <2>1, NoFinalStays, Zenon
<1>7. CASE Matched(how)
  <2>1. /\ Complete(reader) /\ reader.got[1].of.id = request.id
        /\ how = IF reader.got[1].of.kind = "response" THEN "Answered" ELSE "Failed"
    BY <1>7, Zenon DEF Matched
  <2>2. 1 \in 1..Len(Downward[d]) /\ Downward[d][1] = reader.got[1]
    BY <1>1, <1>3, <2>1, ClientFirst, Zenon
  <2>3. /\ Told(reader.got[1].of, calls, IdBound(d), d \in Failing, executed)
        /\ reader.got[1].of.call = request.call
    BY <1>1, <1>3, <2>1, <2>2, Zenon DEF MessageInv, CurrentInv
  <2>4. CASE reader.got[1].of.kind = "response"
    <3>1. executed[calls] > 0 /\ how = "Answered"
      BY <1>2, <2>1, <2>3, <2>4, Zenon DEF Told
    <3>2. executed[calls] \in {0, 1}
      BY <1>1, <1>2, Zenon DEF OnceInv
    <3>3. executed[calls] = 1 /\ executed[calls] # 0
      BY <3>1, <3>2
    <3>4. how \notin DefiniteFailures
      BY Zenon, <3>1 DEF DefiniteFailures
    <3> QED
      BY <1>6, <3>3, <3>4, Zenon
  <2>5. CASE reader.got[1].of.kind # "response"
    <3>1. how = "Failed" /\ d \in Failing
      BY <2>1, <2>3, <2>5, Zenon DEF Told
    <3>2. how \notin DefiniteFailures /\ how # "Answered"
      BY Zenon, <3>1 DEF DefiniteFailures
    <3> QED
      BY <1>5, <3>1, <3>2, Zenon
  <2> QED
    BY Zenon, <2>4, <2>5
<1>8. CASE Broken(how)
  <2>1. CASE how = "WriteFailed" /\ cpc = "write"
    <3>1. /\ Part(Upward[d], Upward'[d], 0) /\ Len(Upward'[d]) < Len(Upward[d])
          /\ Final(Upward[d][Len(Upward[d])], calls)
      BY <1>1, <1>2, <1>3, <2>1, Zenon DEF Ended
    <3>2. Len(Upward[d]) \in 1..Len(Upward[d]) /\ Len(Upward'[d]) \in Nat
      BY <1>1, <3>1, BothRows
    <3>3. executed[calls] = 0
      BY <1>1, <1>2, <3>1, <3>2, Zenon DEF OnceInv
    <3>4. ASSUME NEW g \in Conns, NEW i \in 1..Len(Upward'[g]), Final(Upward'[g][i], calls)
          PROVE  FALSE
      <4>1. PICK k \in Nat : Part(Upward[g], Upward'[g], k) /\ (g = d => k = 0)
        <5>1. 0 \in Nat
          BY Zenon
        <5> QED
          BY <1>4, <3>1, <5>1, Zenon DEF UpwardParts
      <4>2. i + k \in 1..Len(Upward[g]) /\ Final(Upward[g][i + k], calls)
        BY <1>1, <3>4, <4>1, PartFinal, Zenon
      <4>3. g = d /\ i + k = Len(Upward[d])
        BY <1>1, <1>2, <3>1, <3>2, <4>2 DEF OnceInv
      <4> QED
        BY <3>1, <3>2, <3>4, <4>1, <4>3
    <3>5. NoFinal(calls)'
      BY <1>4, <3>4, Zenon DEF NoFinal, Final
    <3>6. how # "Answered"
      BY Zenon, <2>1
    <3> QED
      BY <3>3, <3>5, <3>6, Zenon
  <2>2. CASE how \in {"Unknown", "ReadFailed", "Mismatch"}
    BY Zenon, <2>2 DEF DefiniteFailures
  <2>3. CASE /\ how = "Refused" /\ Complete(reader) /\ reader.got[1].of = Sentinel
    <3>1. 1 \in 1..Len(Downward[d]) /\ Downward[d][1].of = Sentinel
      BY <1>1, <1>3, <2>3, ClientFirst, Zenon
    <3>2. Told(Sentinel, calls, IdBound(d), d \in Failing, executed) /\ Sentinel.kind = "failure"
      <4>1. Sentinel.kind = "failure"
        BY Zenon DEF Sentinel, Message
      <4> QED
        BY <1>1, <3>1, <4>1, Zenon DEF MessageInv
    <3>3. d \in Failing
      BY <3>2, Zenon DEF Told
    <3>4. executed[calls] = 0
      <4>1. ~(executed[calls] > 0)
        <5>1. executed[calls] > 0 =>
                \E k \in 1..1 - 1 : Answering(Downward[d], k, calls, reader.size)
          BY <1>1, <1>2, <1>3, <3>1, Zenon DEF RefusalInv, Refusable
        <5> QED
          BY <5>1
      <4>2. executed[calls] \in {0, 1}
        BY <1>1, <1>2, Zenon DEF OnceInv
      <4> QED
        BY <4>1, <4>2
    <3>5. how # "Answered"
      BY Zenon, <2>3
    <3> QED
      BY <1>5, <3>3, <3>4, <3>5, Zenon
  <2> QED
    BY <1>8, <2>1, <2>2, <2>3, Zenon DEF Broken
<1>9. CASE Thrown(how)
  BY Zenon, <1>9 DEF Thrown, DefiniteFailures
<1> QED
  BY <1>7, <1>8, <1>9, Zenon DEF Ending

\* What a call reports of its request is true from then on.
LEMMA SettledInvStep ==
  ASSUME ExchangeInv, StateOK', Next
  PROVE  SettledInv'
<1>1. /\ StateOK /\ CallInv /\ HandlerInv /\ MessageInv /\ OnceInv
      /\ \A c \in Calls : SettledCall(c)
  BY Zenon DEF ExchangeInv, SettledInv, SettledCall, NoFinal
<1>2. /\ result \in [Calls -> Results] /\ executed \in [Calls -> Nat]
      /\ calls \in 0..MaxCalls
  BY <1>1, Zenon DEF StateOK, HistoryOK
<1>3. SUFFICES \A c \in Calls : SettledCall(c)'
  BY <1>3, Zenon DEF SettledInv, SettledCall, NoFinal
<1>4. ASSUME NEW c \in Calls, result'[c] = result[c], executed'[c] = executed[c],
             NoFinal(c) => NoFinal(c)'
      PROVE  SettledCall(c)'
  BY <1>1, <1>4, Zenon DEF SettledCall
<1>5. CASE UNCHANGED <<result, executed>> /\ UpwardParts
  BY <1>4, <1>5, NoFinalStays, Zenon
<1>6. CASE Requested
  <2> TAKE c \in Calls
  <2>1. /\ result' = result /\ executed' = executed /\ calls' = calls + 1
    <3>1. cpc' = "write" /\ CallBegin /\ Called
      BY <1>6, Zenon DEF Requested
    <3>2. cpc' # "idle"
      BY Zenon, <3>1
    <3> QED
      BY <3>1, <3>2, Zenon DEF Called, CallBegin
  <2>2. CASE c # calls'
    BY <1>4, <1>6, <2>1, <2>2, NoFinalStays, Zenon
  <2>3. CASE c = calls'
    <3>1. c > calls
      BY <1>2, <2>1, <2>3
    <3>2. result'[c] = "none"
      BY <1>1, <2>1, <3>1, Zenon DEF CallInv
    <3> QED
      BY Zenon, <3>2 DEF SettledCall, DefiniteFailures
  <2> QED
    BY Zenon, <2>2, <2>3
<1>7. CASE CallBegin /\ UpwardParts /\ ~Requested
  <2> TAKE c \in Calls
  <2>1. /\ executed' = executed /\ calls' = calls + 1 /\ calls' \in Calls
        /\ \E how \in Results : result' = [result EXCEPT ![calls'] = how] \/ result' = result
    <3>1. executed' = executed /\ calls' = calls + 1
      BY <1>7, Zenon DEF CallBegin
    <3>2. \E how \in Results : result' = [result EXCEPT ![calls'] = how] \/ result' = result
      BY <1>7, Zenon DEF CallBegin, Results
    <3>3. calls' \in Calls
      BY <1>2, <1>7, <3>1 DEF CallBegin, Calls
    <3> QED
      BY Zenon, <3>1, <3>2, <3>3
  <2>2. calls' > calls
    BY <1>2, <2>1
  <2>3. CASE c # calls'
    <3>1. result'[c] = result[c]
      BY <1>2, <2>1, <2>3, Zenon
    <3> QED
      BY <1>4, <1>7, <2>1, <2>3, <3>1, NoFinalStays, Zenon
  <2>4. CASE c = calls'
    <3>1. executed'[c] = 0
      BY <1>1, <2>1, <2>2, <2>4, Zenon DEF CallInv
    <3>2. NoFinal(c)
      <4>1. ASSUME NEW g \in Conns, NEW i \in 1..Len(Upward[g]), Final(Upward[g][i], c)
            PROVE  FALSE
        <5>1. Asked(Upward[g][i].of, calls, IdBound(g)) /\ Upward[g][i].of.call = c
          BY <1>1, <4>1, Zenon DEF MessageInv, Final
        <5>2. c \in 1..calls
          BY <5>1, Zenon DEF Asked
        <5> QED
          BY <1>2, <2>1, <2>4, <5>2
      <4> QED
        BY <4>1, Zenon DEF NoFinal
    <3>3. NoFinal(c)'
      BY <1>7, <3>2, NoFinalStays, Zenon
    <3>4. result'[c] # "Answered"
      <4>1. \/ result'[c] = result[c]
            \/ result'[c] \in {"NotConnected", "Exhausted", "NotEncoded"}
        BY <1>2, <1>7, <2>1, <2>4, Zenon DEF CallBegin
      <4>2. result[c] = "none"
        BY <1>1, <2>1, <2>2, <2>4, Zenon DEF CallInv
      <4> QED
        BY Zenon, <4>1, <4>2
    <3> QED
      BY <3>1, <3>3, <3>4, Zenon DEF SettledCall
  <2> QED
    BY Zenon, <2>3, <2>4
<1>8. ASSUME NEW how, Ending(how)
      PROVE  \A c \in Calls : SettledCall(c)'
  <2> TAKE c \in Calls
  <2>1. /\ result' = [result EXCEPT ![request.call] = how] /\ executed' = executed
        /\ cpc' = "idle" /\ cpc # "idle" /\ calls' = calls
    BY <1>8, Zenon DEF Ending, EndCall
  <2>2. request.call = calls /\ calls \in Calls
    BY <1>1, <1>2, <2>1 DEF CallInv, Calls
  <2>3. UpwardParts
    <3>1. ~Requested
      BY Zenon, <2>1 DEF Requested
    <3> QED
      BY <3>1, RowsShrink, Zenon
  <2>4. CASE c # calls
    <3>1. result'[c] = result[c]
      BY <1>2, <2>1, <2>2, <2>4, Zenon
    <3> QED
      BY <1>4, <2>1, <2>3, <3>1, NoFinalStays, Zenon
  <2>5. CASE c = calls
    <3>1. result'[c] = how
      BY <1>2, <2>1, <2>2, <2>5, Zenon
    <3>2. /\ how \in DefiniteFailures => executed[calls] = 0
          /\ how = "Answered" => executed[calls] = 1
          /\ how \in DefiniteFailures \cup {"Answered", "Failed"} => NoFinal(calls)'
      BY <1>8, EndingSettles, Zenon
    <3>3. NoFinal(calls)' => NoFinal(c)'
      BY <2>1, <2>5, Zenon DEF NoFinal, Final
    <3> QED
      BY <2>1, <2>5, <3>1, <3>2, <3>3, Zenon DEF SettledCall
  <2> QED
    BY Zenon, <2>4, <2>5
<1>9. ASSUME NEW g \in Conns, HandlerDispatch(g), UpwardParts
      PROVE  \A c \in Calls : SettledCall(c)'
  <2> TAKE c \in Calls
  <2>1. /\ result' = result /\ hpc[g] = "dispatch"
        /\ \A x \in Calls : executed'[x] = IF x = hrequest[g].call
                                           THEN executed[x] + 1 ELSE executed[x]
    BY <1>9, Zenon DEF HandlerDispatch
  <2>2. CASE c # hrequest[g].call
    BY <1>4, <1>9, <2>1, <2>2, NoFinalStays, Zenon
  <2>3. CASE c = hrequest[g].call
    <3>1. c # 0
      BY DEF Calls
    <3>2. PayloadBytes \in 1..Len(Upward[g]) /\ Final(Upward[g][PayloadBytes], c)
      BY <1>1, <1>9, <2>3, <3>1, DispatchedFinal, Zenon
    <3>3. g \notin Failing
      BY Zenon, <2>1 DEF Failing, Closing
    <3>4. ~NoFinal(c)
      BY <3>2, <3>3, Zenon DEF NoFinal
    <3> QED
      BY <1>1, <2>1, <3>4, Zenon DEF SettledCall
  <2> QED
    BY Zenon, <2>2, <2>3
<1>10. CASE UpwardParts
  <2>1. CASE (\E g \in Conns : Opening(g) \/ ConnectInstall(g)) \/ Disconnect
    BY <1>5, <1>10, <2>1, Zenon DEF Opening, ConnectInstall, Disconnect, callVars
  <2>2. CASE ClientSend \/ Receiving
    BY <1>5, <1>10, <2>2, Zenon DEF ClientSend, Receiving, ClientReceive, callVars
  <2>3. CASE \E g \in Conns : HandlerStep(g)
    BY <1>5, <1>10, <2>3, Zenon DEF HandlerStep, HandlerReceive, HandlerReadFails,
       HandlerDecode, HandlerSend, HandlerInterrupted, HandlerClose, HandlerQuiet, callVars
  <2> QED
    BY <1>1, <1>6, <1>7, <1>8, <1>9, <1>10, <2>1, <2>2, <2>3, StepCases, Zenon DEF Serving
<1> QED
  BY <1>6, <1>10, RowsShrink, Zenon

-----------------------------------------------------------------------------
(* A sentinel comes after the answer                                         *)

\* A header that is dropped was in front of the answer.
LEMMA RefusableTail ==
  ASSUME NEW s \in Seq(Bytes), NEW t \in Seq(Bytes), NEW c, NEW size, NEW failing,
         Part(s, t, HeaderBytes), Len(s) = HeaderBytes + Len(t), size # 0,
         Refusable(s, c, 0, failing)
  PROVE  Refusable(t, c, size, failing)
<1>1. /\ Len(s) \in Nat /\ Len(t) \in Nat
      /\ \A i \in 1..Len(t) : i + HeaderBytes \in 1..Len(s) /\ t[i] = s[i + HeaderBytes]
  BY PartBytes
<1>2. HeaderBytes \in Nat /\ FrameBytes \in Nat /\ FrameBytes > HeaderBytes
  BY Sizes
<1>3. ASSUME NEW k, Answering(s, k, c, 0)
      PROVE  k \in Nat /\ k > HeaderBytes /\ Answering(t, k - HeaderBytes, c, size)
  <2>1. k \in 1..Len(s) /\ k >= FrameBytes /\ Final(s[k], c)
    BY <1>3, Zenon DEF Answering
  <2>2. /\ k \in Nat /\ k > HeaderBytes
        /\ k - HeaderBytes \in 1..Len(t) /\ (k - HeaderBytes) + HeaderBytes = k
    BY <1>1, <1>2, <2>1
  <2>3. t[k - HeaderBytes] = s[k]
    BY Zenon, <1>1, <2>2
  <2> QED
    BY <2>1, <2>2, <2>3, Zenon DEF Answering
<1>4. ASSUME NEW i \in 1..Len(t), t[i].of = Sentinel
      PROVE  \E k \in 1..i - 1 : Answering(t, k, c, size)
  <2>1. i + HeaderBytes \in 1..Len(s) /\ s[i + HeaderBytes].of = Sentinel
    BY <1>1, <1>4, Zenon
  <2>2. PICK k \in 1..(i + HeaderBytes) - 1 : Answering(s, k, c, 0)
    BY <2>1, Zenon DEF Refusable
  <2>3. k \in Nat /\ k > HeaderBytes /\ Answering(t, k - HeaderBytes, c, size)
    BY <1>3, <2>2, Zenon
  <2>4. k - HeaderBytes \in 1..i - 1
    BY <1>1, <1>2, <2>2, <2>3
  <2> QED
    BY <2>3, <2>4, Zenon
<1>5. ASSUME ~failing
      PROVE  \E k \in 1..Len(t) : Answering(t, k, c, size)
  <2>1. PICK k \in 1..Len(s) : Answering(s, k, c, 0)
    BY <1>5, Zenon DEF Refusable
  <2>2. Answering(t, k - HeaderBytes, c, size)
    BY <1>3, <2>1, Zenon
  <2> QED
    BY <2>2, Zenon DEF Answering
<1> QED
  BY <1>4, <1>5, Zenon DEF Refusable

\* A handler that gives up cuts the end of what it writes.
LEMMA RefusableCut ==
  ASSUME NEW s \in Seq(Bytes), NEW t \in Seq(Bytes), NEW c, NEW size, NEW failing,
         Part(s, t, 0), Refusable(s, c, size, failing), NEW closing, closing
  PROVE  Refusable(t, c, size, closing)
<1>1. /\ Len(s) \in Nat /\ Len(t) \in Nat
      /\ \A i \in 1..Len(t) : i \in 1..Len(s) /\ t[i] = s[i]
  BY PartBytes
<1>2. ASSUME NEW i \in 1..Len(t), t[i].of = Sentinel
      PROVE  \E k \in 1..i - 1 : Answering(t, k, c, size)
  <2>1. PICK k \in 1..i - 1 : Answering(s, k, c, size)
    BY <1>1, <1>2, Zenon DEF Refusable
  <2>2. k \in 1..Len(t)
    BY <1>1, <2>1
  <2>3. t[k] = s[k]
    BY Zenon, <1>1, <2>2
  <2> QED
    BY <2>1, <2>2, <2>3, Zenon DEF Answering
<1> QED
  BY <1>2, Zenon DEF Refusable

\* A message behind the answer.
LEMMA RefusableExtended ==
  ASSUME NEW s \in Seq(Bytes), NEW t \in Seq(Bytes), NEW c, NEW size, NEW m,
         Extended(s, t, m), Refusable(s, c, size, FALSE), NEW failing
  PROVE  Refusable(t, c, size, failing)
<1>1. /\ Len(s) \in Nat /\ Len(t) \in Nat
      /\ \A i \in 1..Len(s) : i \in 1..Len(t) /\ t[i] = s[i]
      /\ \A i \in 1..Len(t) : \/ i \in 1..Len(s) /\ t[i] = s[i]
                              \/ i > Len(s) /\ Is(t[i], m, i - Len(s))
  BY Zenon, ExtendedBytes
<1>2. ASSUME NEW k, Answering(s, k, c, size)
      PROVE  Answering(t, k, c, size)
  BY <1>1, <1>2, Zenon DEF Answering
<1>3. PICK l \in 1..Len(s) : Answering(s, l, c, size)
  BY Zenon DEF Refusable
<1>4. ASSUME NEW i \in 1..Len(t), t[i].of = Sentinel
      PROVE  \E k \in 1..i - 1 : Answering(t, k, c, size)
  <2>1. CASE i \in 1..Len(s) /\ t[i] = s[i]
    <3>1. PICK k \in 1..i - 1 : Answering(s, k, c, size)
      BY <1>4, <2>1, Zenon DEF Refusable
    <3> QED
      BY <1>2, <3>1, Zenon
  <2>2. CASE i > Len(s)
    <3>1. l \in 1..i - 1
      BY <1>1, <1>3, <2>2
    <3> QED
      BY <1>2, <1>3, <3>1, Zenon
  <2> QED
    BY Zenon, <1>1, <2>1, <2>2
<1>5. l \in 1..Len(t)
  BY <1>1, <1>3, Zenon
<1> QED
  BY <1>2, <1>3, <1>4, <1>5, Zenon DEF Refusable

\* The answer itself, where no sentinel is.
LEMMA RefusableAnswer ==
  ASSUME NEW s \in Seq(Bytes), NEW t \in Seq(Bytes), NEW c, NEW size, NEW m,
         Extended(s, t, m), m.call = c, c # 0, NEW failing,
         \A i \in 1..Len(s) : s[i].of # Sentinel
  PROVE  Refusable(t, c, size, failing)
<1>1. /\ Len(s) \in Nat /\ Len(t) \in Nat /\ Len(t) = Len(s) + FrameBytes
      /\ \A i \in 1..Len(t) : \/ i \in 1..Len(s) /\ t[i] = s[i]
                              \/ i > Len(s) /\ Is(t[i], m, i - Len(s))
  BY Zenon, ExtendedBytes
<1>2. m # Sentinel
  BY DEF Sentinel, Message
<1>3. \A i \in 1..Len(t) : t[i].of # Sentinel
  BY Zenon, <1>1, <1>2 DEF Is
<1>4. FrameBytes \in Nat /\ FrameBytes > 0
  BY Sizes
<1>5. Answering(t, Len(t), c, size)
  <2>1. Len(t) \in 1..Len(t) /\ Len(t) > Len(s) /\ Len(t) - Len(s) = FrameBytes
        /\ Len(t) >= FrameBytes
    BY <1>1, <1>4
  <2>2. Is(t[Len(t)], m, FrameBytes)
    BY <1>1, <2>1
  <2> QED
    BY <2>1, <2>2, Zenon DEF Answering, Final, Is
<1> QED
  BY <1>3, <1>5, Zenon DEF Refusable, Answering

\* What a dispatch does on the connection of the request in progress.
LEMMA AnswerFirst ==
  ASSUME ExchangeInv, StateOK', Next, NEW d \in Conns, d = descriptor, cpc # "idle",
         Serving(d), HandlerDispatch(d), hrequest[d].call = request.call
  PROVE  Refusable(Downward'[d], request.call, reader.size, d \in Failing')
<1>1. StateOK /\ CallInv /\ HandlerInv /\ MessageInv /\ OnceInv
  BY Zenon DEF ExchangeInv
<1>2. hpc[d] = "dispatch" /\ request.call # 0
  BY <1>1 DEF HandlerDispatch, CallInv, StateOK, HistoryOK
<1>3. /\ Downward[d] \in Seq(Bytes) /\ Downward'[d] \in Seq(Bytes)
  BY <1>1, BothRows, Zenon
<1>4. d \notin Failing
  BY Zenon, <1>2 DEF Failing, Closing
<1>5. \A i \in 1..Len(Downward[d]) : Downward[d][i].of # Sentinel
  <2>1. Sentinel.kind = "failure"
    BY Zenon DEF Sentinel, Message
  <2>2. \A i \in 1..Len(Downward[d]) :
          Told(Downward[d][i].of, calls, IdBound(d), d \in Failing, executed)
    BY <1>1, Zenon DEF MessageInv
  <2> QED
    BY <1>4, <2>1, <2>2, Zenon DEF Told
<1>6. CASE Replies(d)
  <2>1. PICK m \in Messages : Reply(d, m)
    BY <1>6, Zenon DEF Replies
  <2>2. /\ Whole(d) /\ Correlated(hreader[d])
    BY <1>1, <1>2, DispatchedFinal, Zenon DEF Whole
  <2>3. m.call = request.call
    <3>1. ~Garbled(d)
      <4>1. Upward[d][1].of \in Messages
        <5>1. 1 \in 1..Len(Upward[d])
          BY Zenon, <1>1, <1>2, Dispatching
        <5> QED
          BY <1>1, <5>1, BothRows, Zenon
      <4>2. [Upward[d][1].of EXCEPT !.call = 0].call = 0
        BY Zenon, <4>1 DEF Messages
      <4> QED
        BY <1>2, <4>2, Zenon DEF Garbled
    <3>2. Carries(m, Upward[d][1])
      BY Zenon, <1>1, <2>1, <2>2, <3>1, ReplyIs
    <3> QED
      BY <2>2, <3>2, Zenon DEF Carries, Whole
  <2>4. Extended(Downward[d], Downward'[d], m)
    BY <2>1, Zenon DEF Reply, Answered
  <2> QED
    BY <1>2, <1>3, <1>5, <2>3, <2>4, RefusableAnswer, Zenon
<1>7. CASE DownKept(d) /\ hpc'[d] = "close"
  <2>1. d \in Failing'
    BY Zenon, <1>7 DEF Failing, Closing
  <2> QED
    BY <1>5, <1>7, <2>1, Zenon DEF Refusable, DownKept
<1> QED
  BY <1>1, <1>6, <1>7, DispatchRows, Zenon

\* Whoever reads a sentinel in place of the answer knows that nothing was done.
LEMMA RefusalInvStep ==
  ASSUME ExchangeInv, StateOK', Next
  PROVE  RefusalInv'
<1>1. StateOK /\ CallInv /\ HandlerInv /\ CurrentInv /\ OnceInv /\ RefusalInv
  BY Zenon DEF ExchangeInv
<1>2. SUFFICES ASSUME cpc' # "idle", executed'[request'.call] > 0
               PROVE  Refusable(Downward'[descriptor'], request'.call, reader'.size,
                                descriptor' \in Failing')
  BY <1>2, Zenon DEF RefusalInv
<1>3. ~(\E g \in Conns : ConnectInstall(g)) /\ ~Disconnect /\ ~(\E how : Ending(how))
  BY <1>2, Zenon DEF ConnectInstall, Disconnect, Ending, EndCall
<1>4. ~CallBegin
  <2>1. SUFFICES ASSUME CallBegin PROVE FALSE
    BY <2>1, Zenon
  <2>2. /\ request' = Message("request", calls', next_request_id) /\ calls' = calls + 1
        /\ executed' = executed /\ calls \in Nat /\ calls' \in Calls
    <3>1. calls \in Nat
      BY <1>1 DEF StateOK, HistoryOK
    <3>2. /\ request' = Message("request", calls', next_request_id) /\ calls' = calls + 1
          /\ executed' = executed /\ calls < MaxCalls
      BY <1>2, <2>1, Zenon DEF CallBegin
    <3> QED
      BY <3>1, <3>2 DEF Calls
  <2>3. request'.call = calls' /\ calls' > calls
    BY <2>2 DEF Message
  <2>4. executed[calls'] = 0
    BY <1>1, <2>2, <2>3, Zenon DEF CallInv
  <2> QED
    BY <1>2, <2>2, <2>3, <2>4
<1>5. ASSUME UNCHANGED <<cpc, descriptor, request>>
      PROVE  descriptor \in Conns
  BY <1>1, <1>2, <1>5 DEF StateOK, ClientOK, Conns
<1>6. ASSUME UNCHANGED <<cpc, descriptor, request, reader>>,
             executed'[request.call] = executed[request.call], DownKept(descriptor)
      PROVE  Refusable(Downward'[descriptor'], request'.call, reader'.size,
                       descriptor' \in Failing')
  <2>1. Refusable(Downward[descriptor], request.call, reader.size, descriptor \in Failing)
    BY <1>1, <1>2, <1>6, Zenon DEF RefusalInv
  <2>2. descriptor \in Failing => descriptor \in Failing'
    BY FailingStays, Zenon
  <2>3. Refusable(Downward[descriptor], request.call, reader.size, descriptor \in Failing')
    BY <2>1, <2>2, Zenon DEF Refusable
  <2> QED
    BY <1>6, <2>3, Zenon DEF DownKept
<1>7. ASSUME NEW g \in Conns, Opening(g)
      PROVE  Refusable(Downward'[descriptor'], request'.call, reader'.size,
                       descriptor' \in Failing')
  <2>1. /\ UNCHANGED <<cpc, descriptor, request, reader, executed>> /\ hpc[g] = "unused"
        /\ \A h \in Conns : h # g => DownKept(h)
    BY <1>7, Zenon DEF Opening, Opened
  <2>2. g # descriptor
    BY <1>1, <2>1, Zenon DEF HandlerInv
  <2> QED
    BY <1>5, <1>6, <2>1, <2>2, Zenon
<1>8. CASE ClientSend /\ Still
  <2>1. UNCHANGED <<descriptor, request, reader, executed>> /\ cpc = "write"
    BY <1>8, Zenon DEF ClientSend, callVars
  <2>2. cpc # "idle" /\ descriptor \in Conns
    BY <1>1, <2>1 DEF StateOK, ClientOK, Conns
  <2>3. Refusable(Downward[descriptor], request.call, reader.size, descriptor \in Failing)
    BY <1>1, <1>2, <2>1, <2>2, Zenon DEF RefusalInv
  <2>4. descriptor \in Failing => descriptor \in Failing'
    BY FailingStays, Zenon
  <2>5. Refusable(Downward[descriptor], request.call, reader.size, descriptor \in Failing')
    BY <2>3, <2>4, Zenon DEF Refusable
  <2> QED
    BY <1>8, <2>1, <2>2, <2>5, Zenon DEF DownKept, Still
<1>9. CASE Receiving
  <2>1. UNCHANGED <<cpc, descriptor, request, executed, handlerVars>>
    BY <1>9, Zenon DEF Receiving, ClientReceive, callVars
  <2>2. PICK d \in Conns : d = descriptor
    BY <1>5, <2>1, Zenon
  <2>3. Downward[d] \in Seq(Bytes) /\ Downward'[d] \in Seq(Bytes)
    BY <1>1, BothRows, Zenon
  <2>4. Refusable(Downward[d], request.call, reader.size, d \in Failing)
    BY <1>1, <1>2, <2>1, <2>2, Zenon DEF RefusalInv
  <2>5. d \in Failing => d \in Failing'
    BY FailingStays, Zenon
  <2>6. Advanced(reader, reader', Downward[d], Downward'[d])
    BY <1>9, <2>2, Zenon DEF Receiving
  <2>7. Refusable(Downward[d], request.call, reader.size, d \in Failing')
    BY <2>4, <2>5, Zenon DEF Refusable
  <2>8. Refusable(Downward'[d], request.call, reader'.size, d \in Failing')
    <3>1. CASE Downward'[d] = Downward[d] /\ reader'.size = reader.size
      BY <2>7, <3>1, Zenon
    <3>2. CASE /\ reader.size = 0 /\ reader'.size # 0
               /\ Part(Downward[d], Downward'[d], HeaderBytes)
               /\ Len(Downward[d]) = HeaderBytes + Len(Downward'[d])
      BY <2>3, <2>7, <3>2, RefusableTail, Zenon
    <3> QED
      BY <2>6, <3>1, <3>2, Zenon DEF Advanced
  <2> QED
    BY <2>1, <2>2, <2>8, Zenon
<1>10. ASSUME NEW g \in Conns, Serving(g)
       PROVE  Refusable(Downward'[descriptor'], request'.call, reader'.size,
                        descriptor' \in Failing')
  <2>1. UNCHANGED <<cpc, descriptor, request, reader>>
    BY <1>10, Zenon DEF Serving, Apart, clientVars
  <2>2. PICK d \in Conns : d = descriptor
    BY <1>5, <2>1, Zenon
  <2>3. request.call \in Calls /\ request.call # 0 /\ cpc # "idle"
    <3>1. cpc # "idle" /\ request.call = calls /\ calls > 0
      BY <1>1, <1>2, <2>1, Zenon DEF CallInv
    <3>2. calls \in 0..MaxCalls
      BY <1>1, Zenon DEF StateOK, HistoryOK
    <3> QED
      BY <3>1, <3>2 DEF Calls
  <2>4. CASE executed'[request.call] # executed[request.call]
    <3>1. HandlerDispatch(g) /\ hrequest[g].call = request.call
      <4>1. HandlerDispatch(g)
        BY <1>1, <1>10, <2>4, ServingDispatch, Zenon
      <4> QED
        BY <2>3, <2>4, <4>1, Zenon DEF HandlerDispatch
    <3>2. PayloadBytes \in 1..Len(Upward[g]) /\ Final(Upward[g][PayloadBytes], request.call)
      BY <1>1, <2>3, <3>1, DispatchedFinal, Zenon
    <3>3. g = descriptor
      BY <1>1, <2>3, <3>2, Zenon DEF CurrentInv, Final
    <3>4. Refusable(Downward'[g], request.call, reader.size, g \in Failing')
      BY <1>10, <2>3, <3>1, <3>3, AnswerFirst, Zenon
    <3> QED
      BY <2>1, <3>3, <3>4, Zenon
  <2>5. CASE executed'[request.call] = executed[request.call] /\ g # descriptor
    <3>1. DownKept(descriptor)
      BY <1>10, <2>2, <2>5, Zenon DEF Serving, Apart
    <3> QED
      BY <1>6, <2>1, <2>5, <3>1, Zenon
  <2>6. CASE executed'[request.call] = executed[request.call] /\ g = descriptor
    <3>1. Downward[g] \in Seq(Bytes) /\ Downward'[g] \in Seq(Bytes)
      BY <1>1, BothRows, Zenon
    <3>2. Refusable(Downward[g], request.call, reader.size, g \in Failing)
      BY <1>1, <1>2, <2>1, <2>6, Zenon DEF RefusalInv
    <3>3. CASE DownKept(g)
      BY <1>6, <2>1, <2>6, <3>3, Zenon
    <3>4. CASE Part(Downward[g], Downward'[g], 0) /\ hpc'[g] = "close"
      <4>1. g \in Failing'
        BY Zenon, <3>4 DEF Failing, Closing
      <4>2. Refusable(Downward'[g], request.call, reader.size, g \in Failing')
        BY <3>1, <3>2, <3>4, <4>1, RefusableCut, Zenon
      <4> QED
        BY <2>1, <2>6, <4>2, Zenon
    <3>5. CASE Replies(g)
      <4>1. PICK m \in Messages : Reply(g, m)
        BY <3>5, Zenon DEF Replies
      <4>2. g \notin Failing /\ Extended(Downward[g], Downward'[g], m)
        BY <1>1, <1>10, <4>1, ReplyIs, Zenon DEF Reply, Answered
      <4>3. Refusable(Downward[g], request.call, reader.size, FALSE)
        BY <3>2, <4>2, Zenon DEF Refusable
      <4>4. Refusable(Downward'[g], request.call, reader.size, g \in Failing')
        BY <3>1, <4>2, <4>3, RefusableExtended, Zenon
      <4> QED
        BY <2>1, <2>6, <4>4, Zenon
    <3> QED
      BY <1>10, <3>3, <3>4, <3>5, Zenon DEF Serving, Served
  <2> QED
    BY <2>4, <2>5, <2>6, Zenon
<1> QED
  BY <1>1, <1>3, <1>4, <1>7, <1>8, <1>9, <1>10, StepCases, Zenon

-----------------------------------------------------------------------------
(* Answers follow each other                                                 *)

ChainAt(s, closing) ==
  Chained(s) /\ (~closing /\ Len(s) > 0 => s[Len(s)].at = FrameBytes)

\* What is left when bytes are taken from the front.
LEMMA ChainTail ==
  ASSUME NEW s \in Seq(Bytes), NEW t \in Seq(Bytes), NEW k, Part(s, t, k),
         Len(s) = k + Len(t), NEW closing, ChainAt(s, closing)
  PROVE  ChainAt(t, closing)
<1>1. Chained(t)
  BY PartChained, Zenon DEF ChainAt
<1>2. /\ k \in Nat /\ Len(s) \in Nat /\ Len(t) \in Nat
      /\ \A i \in 1..Len(t) : i + k \in 1..Len(s) /\ t[i] = s[i + k]
  BY PartBytes
<1>3. ASSUME ~closing, Len(t) > 0
      PROVE  t[Len(t)].at = FrameBytes
  <2>1. Len(t) \in 1..Len(t) /\ Len(t) + k = Len(s) /\ Len(s) > 0
    BY <1>2, <1>3
  <2>2. t[Len(t)] = s[Len(s)]
    BY Zenon, <1>2, <2>1
  <2> QED
    BY <1>3, <2>1, <2>2, Zenon DEF ChainAt
<1> QED
  BY <1>1, <1>3, Zenon DEF ChainAt

\* Frames are written whole and one after the other, on every connection.
LEMMA ChainInvStep ==
  ASSUME ExchangeInv, StateOK', Next
  PROVE  ChainInv'
<1>1. StateOK /\ CallInv /\ HandlerInv
  BY Zenon DEF ExchangeInv
<1>2. \A g \in Conns : ChainAt(Downward[g], g \in Closing)
  BY Zenon DEF ExchangeInv, ChainInv, ChainAt
<1>3. SUFFICES \A g \in Conns : ChainAt(Downward'[g], g \in Closing')
  BY <1>3, Zenon DEF ChainInv, ChainAt
<1>4. \A g \in Conns : ChainAt(Downward[g], g \in Closing')
  BY <1>2, FailingStays, Zenon DEF ChainAt
<1>5. \A g \in Conns : Downward[g] \in Seq(Bytes) /\ Downward'[g] \in Seq(Bytes)
  BY <1>1, BothRows, Zenon
<1>6. ASSUME NEW g \in Conns, DownKept(g)
      PROVE  ChainAt(Downward'[g], g \in Closing')
  BY <1>4, <1>6, Zenon DEF DownKept
<1>7. ASSUME NEW g \in Conns, g \notin Closing, NEW m, Extended(Downward[g], Downward'[g], m)
      PROVE  ChainAt(Downward'[g], g \in Closing')
  <2>1. Chained(Downward[g])
    BY <1>2, Zenon DEF ChainAt
  <2>2. Len(Downward[g]) > 0 => Downward[g][Len(Downward[g])].at = FrameBytes
    BY <1>2, <1>7, Zenon DEF ChainAt
  <2> QED
    BY <1>5, <1>7, <2>1, <2>2, ExtendedChained, Zenon DEF ChainAt
<1>8. ASSUME NEW g \in Conns, Opening(g)
      PROVE  ChainAt(Downward'[g], g \in Closing')
  <2>1. g \notin Closing
    BY Zenon, <1>8 DEF Opening, Opened, Closing
  <2> QED
    BY <1>6, <1>7, <1>8, <2>1, Zenon DEF Opening, Opened
<1>9. ASSUME NEW d \in Conns, d = descriptor, Receiving
      PROVE  ChainAt(Downward'[d], d \in Closing')
  <2>1. Advanced(reader, reader', Downward[d], Downward'[d])
    BY <1>9, Zenon DEF Receiving
  <2>2. CASE Downward'[d] = Downward[d]
    BY <1>6, <2>2, Zenon DEF DownKept
  <2>3. CASE /\ Part(Downward[d], Downward'[d], HeaderBytes)
             /\ Len(Downward[d]) = HeaderBytes + Len(Downward'[d])
    BY <1>4, <1>5, <2>3, ChainTail, Zenon
  <2> QED
    BY <2>1, <2>2, <2>3, Zenon DEF Advanced
<1>10. ASSUME NEW d \in Conns, d = descriptor, NEW how, Ending(how)
       PROVE  ChainAt(Downward'[d], d \in Closing')
  <2>1. /\ Part(Downward[d], Downward'[d], Len(reader.got))
        /\ Len(Downward[d]) = Len(reader.got) + Len(Downward'[d])
    BY <1>10, Zenon DEF Ending, Ended
  <2> QED
    BY <1>4, <1>5, <2>1, ChainTail, Zenon
<1>11. ASSUME NEW g \in Conns, Serving(g)
       PROVE  ChainAt(Downward'[g], g \in Closing')
  <2>1. CASE Part(Downward[g], Downward'[g], 0) /\ hpc'[g] = "close"
    <3>1. g \in Closing'
      BY Zenon, <2>1 DEF Closing
    <3>2. Chained(Downward'[g])
      BY <1>2, <1>5, <2>1, PartChained, Zenon DEF ChainAt
    <3> QED
      BY <3>1, <3>2, Zenon DEF ChainAt
  <2>2. CASE Replies(g)
    <3>1. PICK m \in Messages : Reply(g, m)
      BY <2>2, Zenon DEF Replies
    <3>2. g \notin Closing /\ Extended(Downward[g], Downward'[g], m)
      BY <1>1, <1>11, <3>1, ReplyIs, Zenon DEF Reply, Answered
    <3> QED
      BY <1>7, <3>2, Zenon
  <2> QED
    BY <1>6, <1>11, <2>1, <2>2, Zenon DEF Serving, Served
<1>12. CASE Receiving \/ (\E how : Ending(how))
  <2>1. \A h \in Conns : h # descriptor => DownKept(h)
    BY <1>12, OthersKept, Zenon
  <2> QED
    BY <1>6, <1>9, <1>10, <1>12, <2>1, Zenon
<1>13. CASE (\E g \in Conns : Opening(g)) \/ (\E g \in Conns : Serving(g))
  BY <1>6, <1>8, <1>11, <1>13, Zenon DEF Opening, Opened, Serving, Apart
<1>14. CASE Still \/ Called
  BY <1>6, <1>14, Zenon DEF Still, Called
<1> QED
  BY <1>1, <1>12, <1>13, <1>14, StepCases, Zenon

-----------------------------------------------------------------------------
(* Exchanges stay apart                                                      *)

\* The sentinel belongs to no call.
LEMMA SentinelIsNobodys ==
  /\ \A c : ~Of(Sentinel, c)
  /\ Sentinel.kind = "failure"
BY Zenon DEF Sentinel, Message, Of

\* A part of what is in order.
LEMMA OrderlyPart ==
  ASSUME NEW s \in Seq(Bytes), NEW t \in Seq(Bytes), NEW k, Part(s, t, k), NEW c,
         Orderly(s, c)
  PROVE  Orderly(t, c)
<1>1. /\ k \in Nat /\ Len(s) \in Nat /\ Len(t) \in Nat
      /\ \A i \in 1..Len(t) : i + k \in 1..Len(s) /\ t[i] = s[i + k]
  BY PartBytes
<1>2. \A i \in 1..Len(t) : t[i].of = Sentinel \/ Of(t[i].of, c)
  BY <1>1, Zenon DEF Orderly
<1>3. ASSUME NEW i \in 1..Len(t), NEW j \in 1..Len(t), i <= j
      PROVE  /\ Of(t[i].of, c) /\ Of(t[j].of, c) => j - i = t[j].at - t[i].at
             /\ t[i].of = Sentinel => t[j].of = Sentinel
  <2>1. i + k <= j + k /\ (j + k) - (i + k) = j - i
    BY <1>1, <1>3
  <2>2. /\ i + k \in 1..Len(s) /\ j + k \in 1..Len(s)
        /\ t[i] = s[i + k] /\ t[j] = s[j + k]
    BY <1>1, Zenon
  <2>3. /\ Of(s[i + k].of, c) /\ Of(s[j + k].of, c) =>
             (j + k) - (i + k) = s[j + k].at - s[i + k].at
        /\ s[i + k].of = Sentinel => s[j + k].of = Sentinel
    BY <2>1, <2>2, Zenon DEF Orderly
  <2> QED
    BY <2>1, <2>2, <2>3, Zenon
<1> QED
  BY <1>2, <1>3, Zenon DEF Orderly

\* A failure without an id comes last.
LEMMA OrderlySentinel ==
  ASSUME NEW s \in Seq(Bytes), NEW t \in Seq(Bytes), Extended(s, t, Sentinel), NEW c,
         Orderly(s, c)
  PROVE  Orderly(t, c)
<1>1. /\ Len(s) \in Nat /\ Len(t) \in Nat
      /\ \A i \in 1..Len(t) : \/ i \in 1..Len(s) /\ t[i] = s[i]
                              \/ i > Len(s) /\ Is(t[i], Sentinel, i - Len(s))
  BY Zenon, ExtendedBytes
<1>2. \A i \in 1..Len(t) : \/ i \in 1..Len(s) /\ t[i] = s[i]
                           \/ i > Len(s) /\ t[i].of = Sentinel /\ ~Of(t[i].of, c)
  BY <1>1, SentinelIsNobodys, Zenon DEF Is
<1>3. \A i \in 1..Len(t) : t[i].of = Sentinel \/ Of(t[i].of, c)
  BY <1>2, Zenon DEF Orderly
<1>4. ASSUME NEW i \in 1..Len(t), NEW j \in 1..Len(t), i <= j
      PROVE  /\ Of(t[i].of, c) /\ Of(t[j].of, c) => j - i = t[j].at - t[i].at
             /\ t[i].of = Sentinel => t[j].of = Sentinel
  <2>1. CASE j \in 1..Len(s) /\ t[j] = s[j]
    <3>1. i \in 1..Len(s)
      BY <1>1, <1>4, <2>1
    <3>2. t[i] = s[i]
      BY <1>1, <1>2, <3>1
    <3> QED
      BY <1>4, <2>1, <3>1, <3>2, Zenon DEF Orderly
  <2>2. CASE t[j].of = Sentinel /\ ~Of(t[j].of, c)
    BY <2>2, Zenon
  <2> QED
    BY Zenon, <1>2, <2>1, <2>2
<1> QED
  BY <1>3, <1>4, Zenon DEF Orderly

\* The answer alone.
LEMMA OrderlyAnswer ==
  ASSUME NEW s \in Seq(Bytes), NEW t \in Seq(Bytes), NEW m, Extended(s, t, m), NEW c,
         Of(m, c), Len(s) = 0
  PROVE  Orderly(t, c)
<1>1. /\ Len(t) \in Nat
      /\ \A i \in 1..Len(t) : \/ i \in 1..Len(s) /\ t[i] = s[i]
                              \/ i > Len(s) /\ Is(t[i], m, i - Len(s))
  BY Zenon, ExtendedBytes
<1>2. m # Sentinel
  BY SentinelIsNobodys, Zenon
<1>3. \A i \in 1..Len(t) : t[i].of = m /\ t[i].at = i
  BY <1>1 DEF Is
<1>4. ASSUME NEW i \in 1..Len(t), NEW j \in 1..Len(t)
      PROVE  j - i = t[j].at - t[i].at
  BY Zenon, <1>3
<1> QED
  BY <1>2, <1>3, <1>4, Zenon DEF Orderly

\* Whatever is written next, the reader stays in step.
LEMMA InStepExtended ==
  ASSUME NEW s \in Seq(Bytes), NEW t \in Seq(Bytes), NEW m, Extended(s, t, m), NEW size,
         InStep(s, size, FALSE), NEW closing
  PROVE  InStep(t, size, closing)
<1>1. /\ Len(s) \in Nat /\ Len(t) \in Nat /\ Len(t) = Len(s) + FrameBytes
      /\ \A i \in 1..Len(s) : i \in 1..Len(t) /\ t[i] = s[i]
      /\ \A i \in 1..Len(t) : \/ i \in 1..Len(s) /\ t[i] = s[i]
                              \/ i > Len(s) /\ Is(t[i], m, i - Len(s))
  BY Zenon, ExtendedBytes
<1>2. FrameBytes \in Nat /\ FrameBytes > 0
  BY Sizes
<1>3. Len(t) # 0 /\ 1 \in 1..Len(t)
  BY <1>1, <1>2
<1>4. CASE Len(s) > 0
  <2>1. t[1] = s[1]
    BY <1>1, <1>4
  <2> QED
    BY <1>3, <1>4, <2>1, Zenon DEF InStep
<1>5. CASE Len(s) = 0
  <2>1. size = 0
    BY <1>5, Zenon DEF InStep
  <2>2. t[1].at = 1
    BY <1>1, <1>3, <1>5 DEF Is
  <2> QED
    BY <1>3, <2>1, <2>2, Zenon DEF InStep
<1> QED
  BY <1>1, <1>4, <1>5

\* A row that only shrinks keeps to its way.
LEMMA OneWayPart ==
  ASSUME NEW u \in Seq(Bytes), NEW v \in Seq(Bytes), NEW k, Part(u, v, k),
         NEW s \in Seq(Bytes), NEW t \in Seq(Bytes), NEW l, Part(s, t, l), NEW c,
         OneWay(u, s, c)
  PROVE  OneWay(v, t, c)
<1>1. /\ Len(v) \in Nat /\ Len(u) \in Nat /\ Len(v) <= Len(u)
      /\ \A i \in 1..Len(v) : i + k \in 1..Len(u) /\ v[i] = u[i + k]
  BY PartBytes
<1>2. \A i \in 1..Len(t) : i + l \in 1..Len(s) /\ t[i] = s[i + l]
  BY PartBytes
<1>3. \A i \in 1..Len(v) : Of(v[i].of, c)
  BY <1>1, Zenon DEF OneWay
<1>4. (\E i \in 1..Len(t) : Of(t[i].of, c)) => Len(u) = 0
  BY <1>2, Zenon DEF OneWay
<1>5. Len(u) = 0 => Len(v) = 0
  BY <1>1
<1> QED
  BY <1>3, <1>4, <1>5, Zenon DEF OneWay

\* connect: the new connection has carried the sentinel or nothing.
LEMMA InstallApart ==
  ASSUME ExchangeInv, StateOK', NEW g \in Conns, ConnectInstall(g), Still
  PROVE  /\ Orderly(Downward'[g], 0)
         /\ InStep(Downward'[g], reader'.size, g \in Closing')
         /\ OneWay(Upward'[g], Downward'[g], 0)
<1>1. /\ CallInv /\ FreshInv /\ g \in fresh /\ cpc = "idle" /\ reader' = reader
      /\ Upward'[g] = Upward[g] /\ Downward'[g] = Downward[g]
  BY Zenon DEF ExchangeInv, ConnectInstall, Still, UpKept, DownKept
<1>2. reader'.size = 0
  BY <1>1 DEF CallInv, NewReader
<1>3. /\ Len(Upward'[g]) = 0
      /\ \A i \in 1..Len(Downward'[g]) : Downward'[g][i].of = Sentinel
      /\ Len(Downward'[g]) > 0 => Downward'[g][1].at = 1
  BY <1>1, Zenon DEF FreshInv
<1>4. \A m : ~Of(m, 0)
  BY Zenon DEF Of
<1>5. 1..0 = {}
  OBVIOUS
<1> QED
  BY <1>2, <1>3, <1>4, <1>5, Zenon DEF Orderly, InStep, OneWay

\* call: the connection carried nothing but a sentinel, and now the request too.
LEMMA CallApart ==
  ASSUME NEW u \in Seq(Bytes), NEW v \in Seq(Bytes), NEW m, Extended(u, v, m),
         NEW s, NEW c, Of(m, c), Orderly(s, 0), NEW failing, ~failing => OneWay(u, s, 0)
  PROVE  Orderly(s, c) /\ (~failing => OneWay(v, s, c))
<1>1. \A x : ~Of(x, 0)
  BY Zenon DEF Of
<1>2. \A i \in 1..Len(s) : s[i].of = Sentinel /\ ~Of(s[i].of, c)
  BY <1>1, SentinelIsNobodys, Zenon DEF Orderly
<1>3. Orderly(s, c)
  BY <1>2, Zenon DEF Orderly
<1>4. ASSUME ~failing
      PROVE  OneWay(v, s, c)
  <2>1. \A i \in 1..Len(v) : \/ i \in 1..Len(u) /\ v[i] = u[i]
                             \/ i > Len(u) /\ v[i].of = m /\ v[i].at = i - Len(u)
    BY ExtendedOf, Zenon
  <2>2. \A i \in 1..Len(u) : FALSE
    BY <1>1, <1>4, Zenon DEF OneWay
  <2>3. \A i \in 1..Len(v) : Of(v[i].of, c)
    BY <2>1, <2>2, Zenon
  <2> QED
    BY <1>2, <2>3, Zenon DEF OneWay
<1> QED
  BY <1>3, <1>4, Zenon

\* recv: a complete header is one of the frame that is read.
LEMMA ReceiveApart ==
  ASSUME NEW s \in Seq(Bytes), NEW t \in Seq(Bytes), NEW r, NEW q, Advanced(r, q, s, t),
         NEW closing, ChainAt(s, closing), InStep(s, r.size, closing)
  PROVE  InStep(t, q.size, closing)
<1>1. CASE t = s /\ q.size = r.size
  BY <1>1, Zenon
<1>2. CASE /\ r.size = 0 /\ q.size # 0
           /\ Part(s, t, HeaderBytes) /\ Len(s) = HeaderBytes + Len(t)
           /\ \A m \in Messages :
                (\A i \in 1..HeaderBytes : Is(s[i], m, i)) => q.size = PayloadBytes
  <2>1. /\ Len(s) \in Nat /\ Len(t) \in Nat
        /\ \A i \in 1..Len(t) : i + HeaderBytes \in 1..Len(s) /\ t[i] = s[i + HeaderBytes]
    BY <1>2, PartBytes
  <2>2. /\ HeaderBytes \in Nat /\ HeaderBytes > 0 /\ FrameBytes \in Nat
        /\ HeaderBytes < FrameBytes /\ PayloadBytes # 0
    BY Sizes
  <2>3. Len(s) > 0 /\ 1 \in 1..Len(s)
    BY <1>2, <2>1, <2>2
  <2>4. s[1].at = 1 /\ s[1].of \in Messages
    BY <1>2, <2>3, BytesOf, Zenon DEF InStep
  <2>5. ASSUME NEW i \in 1..HeaderBytes + 1, i <= Len(s)
        PROVE  Is(s[i], s[1].of, i)
    <3>1. i \in 1..Len(s) /\ 1 <= i /\ s[1].at + (i - 1) = i /\ i <= FrameBytes
      BY <2>1, <2>2, <2>4, <2>5
    <3> QED
      BY Zenon, <2>3, <3>1 DEF ChainAt, Chained
  <2>6. q.size = PayloadBytes
    <3>1. \A i \in 1..HeaderBytes : i \in 1..HeaderBytes + 1 /\ i <= Len(s)
      BY <1>2, <2>1, <2>2
    <3> QED
      BY <1>2, <2>4, <2>5, <3>1, Zenon
  <2>7. ASSUME Len(t) > 0
        PROVE  t[1].at = HeaderBytes + 1
    <3>1. 1 \in 1..Len(t) /\ 1 + HeaderBytes \in 1..HeaderBytes + 1 /\ 1 + HeaderBytes <= Len(s)
          /\ 1 + HeaderBytes = HeaderBytes + 1
      BY <1>2, <2>1, <2>2, <2>7
    <3>2. t[1] = s[1 + HeaderBytes]
      BY <2>1, <3>1, Zenon
    <3> QED
      BY <2>5, <3>1, <3>2, Zenon DEF Is
  <2>8. ASSUME Len(t) = 0
        PROVE  closing
    <3>1. Len(s) = HeaderBytes /\ Len(s) \in 1..HeaderBytes + 1 /\ Len(s) <= Len(s)
      BY <1>2, <2>1, <2>2, <2>8
    <3>2. s[Len(s)].at = Len(s)
      BY <2>5, <3>1, Zenon DEF Is
    <3>3. s[Len(s)].at # FrameBytes
      BY <2>2, <3>1, <3>2
    <3> QED
      BY <2>3, <3>3, Zenon DEF ChainAt
  <2> QED
    BY <2>2, <2>6, <2>7, <2>8, Zenon DEF InStep
<1> QED
  BY <1>1, <1>2, Zenon DEF Advanced

\* A call that has read its answer leaves nothing of its exchange behind.
LEMMA EndApart ==
  ASSUME NEW s \in Seq(Bytes), NEW t \in Seq(Bytes), Part(s, t, PayloadBytes), NEW c,
         Orderly(s, c), NEW closing, InStep(s, PayloadBytes, closing), Chained(s),
         NEW u \in Seq(Bytes), NEW failing, NEW later,
         ~failing => OneWay(u, s, c) /\ \A i \in 1..Len(s) : s[i].of # Sentinel
  PROVE  /\ Orderly(t, 0) /\ InStep(t, 0, later)
         /\ ~failing => OneWay(u, t, 0)
<1>1. /\ Len(s) \in Nat /\ Len(t) \in Nat /\ PayloadBytes + Len(t) <= Len(s)
      /\ \A i \in 1..Len(t) : i + PayloadBytes \in 1..Len(s) /\ t[i] = s[i + PayloadBytes]
      /\ \A i \in 1..Len(s) : s[i].at \in 1..FrameBytes
  BY Zenon, PartBytes, BytesOf DEF Part
<1>2. /\ PayloadBytes \in Nat /\ PayloadBytes > 0 /\ HeaderBytes \in Nat
      /\ FrameBytes \in Nat /\ FrameBytes = HeaderBytes + PayloadBytes
  BY Zenon, Sizes
<1>3. 1 \in 1..Len(s) /\ Len(s) > 0 /\ PayloadBytes # 0
  BY <1>1, <1>2
<1>4. s[1].at = HeaderBytes + 1
  BY <1>3, Zenon DEF InStep
<1>5. ASSUME NEW i \in 1..Len(t)
      PROVE  t[i].of = Sentinel
  <2>1. i + PayloadBytes \in 1..Len(s) /\ 1 <= i + PayloadBytes
    BY <1>1, <1>2
  <2>2. SUFFICES ASSUME s[i + PayloadBytes].of # Sentinel PROVE FALSE
    BY <1>1, <2>2, Zenon
  <2>3. Of(s[i + PayloadBytes].of, c) /\ Of(s[1].of, c)
    BY <1>3, <2>1, <2>2, Zenon DEF Orderly
  <2>4. (i + PayloadBytes) - 1 = s[i + PayloadBytes].at - s[1].at
    BY <1>3, <2>1, <2>3, Zenon DEF Orderly
  <2>5. s[i + PayloadBytes].at \in 1..FrameBytes
    BY <1>1, <2>1, Zenon
  <2> QED
    BY <1>1, <1>2, <1>4, <2>4, <2>5
<1>6. Len(t) > 0 => t[1].at = 1
  <2>1. SUFFICES ASSUME Len(t) > 0 PROVE t[1].at = 1
    BY <2>1, Zenon
  <2>2. /\ 1 \in 1..Len(t) /\ 1 + PayloadBytes \in 1..Len(s) /\ 1 <= 1 + PayloadBytes
        /\ s[1].at + ((1 + PayloadBytes) - 1) = FrameBytes + 1
    BY <1>1, <1>2, <1>4, <2>1
  <2>3. t[1] = s[1 + PayloadBytes]
    BY <1>1, <2>2, Zenon
  <2>4. s[1 + PayloadBytes].at = 1
    BY <1>3, <2>2, Zenon DEF Chained
  <2> QED
    BY <2>3, <2>4, Zenon
<1>7. \A m : ~Of(m, 0)
  BY Zenon DEF Of
<1>8. Orderly(t, 0)
  BY <1>5, <1>7, Zenon DEF Orderly
<1>9. InStep(t, 0, later)
  BY <1>6, Zenon DEF InStep
<1>10. ASSUME ~failing
       PROVE  OneWay(u, t, 0)
  <2>1. Of(s[1].of, c)
    BY <1>3, <1>10, Zenon DEF Orderly
  <2>2. Len(u) = 0
    BY <1>3, <1>10, <2>1, Zenon DEF OneWay
  <2>3. 1..0 = {}
    OBVIOUS
  <2> QED
    BY <1>7, <2>2, <2>3, Zenon DEF OneWay
<1> QED
  BY <1>8, <1>9, <1>10, Zenon

\* The request in progress is all that is on its way when its answer is written.
LEMMA WholeIsLast ==
  ASSUME ExchangeInv, StateOK', NEW d \in Conns, d = descriptor, cpc # "idle",
         Whole(d), Dropped(d), Upward[d][1].of = request
  PROVE  Len(Upward'[d]) = 0
<1>1. StateOK /\ Trailing(Upward[d], request)
  BY Zenon DEF ExchangeInv, CurrentInv
<1>2. /\ Len(Upward[d]) \in Nat /\ Len(Upward'[d]) \in Nat
      /\ \A i \in 1..Len(Upward[d]) : Upward[d][i].at \in 1..FrameBytes
  BY Zenon, <1>1, BothRows
<1>3. /\ PayloadBytes \in Nat /\ PayloadBytes > 0 /\ HeaderBytes \in Nat
      /\ FrameBytes \in Nat /\ FrameBytes = HeaderBytes + PayloadBytes
  BY Zenon, Sizes
<1>4. /\ PayloadBytes <= Len(Upward[d])
      /\ Is(Upward[d][PayloadBytes], request, HeaderBytes + PayloadBytes)
  <2>1. PayloadBytes \in 1..PayloadBytes
    BY <1>3
  <2> QED
    BY <2>1, Zenon DEF Whole
<1>5. Part(Upward[d], Upward'[d], PayloadBytes)
  BY Zenon DEF Dropped, Whole
<1>6. ~(PayloadBytes + 1 <= Len(Upward[d]))
  <2>1. SUFFICES ASSUME PayloadBytes + 1 <= Len(Upward[d]) PROVE FALSE
    BY <2>1, Zenon
  <2>2. /\ PayloadBytes \in 1..Len(Upward[d]) /\ PayloadBytes + 1 \in 1..Len(Upward[d])
        /\ PayloadBytes <= PayloadBytes + 1 /\ (PayloadBytes + 1) - PayloadBytes = 1
    BY <1>2, <1>3, <2>1
  <2>3. /\ Upward[d][PayloadBytes].of = request
        /\ Upward[d][PayloadBytes].at = FrameBytes
    BY <1>3, <1>4, Zenon DEF Is
  <2>4. Is(Upward[d][PayloadBytes + 1], request, FrameBytes + 1)
    <3>1. Is(Upward[d][PayloadBytes + 1], request,
             Upward[d][PayloadBytes].at + ((PayloadBytes + 1) - PayloadBytes))
      BY <1>1, <2>2, <2>3, Zenon DEF Trailing
    <3> QED
      BY <2>2, <2>3, <3>1, Zenon
  <2>5. Upward[d][PayloadBytes + 1].at \in 1..FrameBytes
    BY <1>2, <2>2, Zenon
  <2> QED
    BY <1>3, <2>4, <2>5 DEF Is
<1>7. PayloadBytes + Len(Upward'[d]) <= Len(Upward[d])
  BY <1>5, Zenon DEF Part
<1> QED
  BY <1>2, <1>3, <1>6, <1>7

\* An answer is written when nothing else is on its way to the client.
LEMMA ReplyApart ==
  ASSUME ExchangeInv, StateOK', Next, NEW d \in Conns, d = descriptor, Serving(d),
         NEW m, Reply(d, m), ~threw
  PROVE  /\ Orderly(Downward'[d], InCall)
         /\ InStep(Downward'[d], reader.size, d \in Closing')
         /\ d \notin Failing' => OneWay(Upward'[d], Downward'[d], InCall)
<1>1. /\ StateOK /\ CallInv /\ HandlerInv /\ MessageInv /\ CurrentInv
      /\ descriptor # 0
  <2>1. descriptor # 0
    BY DEF Conns
  <2> QED
    BY <2>1, Zenon DEF ExchangeInv
<1>2. /\ m \in Messages /\ d \notin Failing /\ d \notin Closing
      /\ m.kind = "failure" <=> d \in Failing'
      /\ Extended(Downward[d], Downward'[d], m) /\ Dropped(d)
  BY <1>1, ReplyIs, Zenon DEF Reply, Answered
<1>3. /\ Orderly(Downward[d], InCall) /\ InStep(Downward[d], reader.size, FALSE)
      /\ OneWay(Upward[d], Downward[d], InCall)
  <2>1. /\ Orderly(Downward[d], InCall) /\ InStep(Downward[d], reader.size, d \in Closing)
        /\ OneWay(Upward[d], Downward[d], InCall)
    BY <1>1, <1>2, Zenon DEF ExchangeInv, ApartInv
  <2> QED
    BY <1>2, <2>1, Zenon DEF InStep
<1>4. /\ Upward[d] \in Seq(Bytes) /\ Upward'[d] \in Seq(Bytes)
      /\ Downward[d] \in Seq(Bytes) /\ Downward'[d] \in Seq(Bytes)
  BY <1>1, BothRows, Zenon
<1>5. InStep(Downward'[d], reader.size, d \in Closing')
  BY <1>2, <1>3, <1>4, InStepExtended, Zenon
<1>6. CASE m = Sentinel
  <2>1. Orderly(Downward'[d], InCall)
    BY <1>2, <1>3, <1>4, <1>6, OrderlySentinel, Zenon
  <2> QED
    BY <1>2, <1>5, <1>6, <2>1, SentinelIsNobodys, Zenon
<1>7. CASE m # Sentinel
  <2>1. /\ 1 \in 1..Len(Upward[d]) /\ Correlated(hreader[d])
        /\ \/ Carries(m, Upward[d][1]) /\ (m.kind = "response" => Whole(d))
           \/ Garbled(d)
    BY <1>1, <1>7, ReplyIs
  <2>2. Of(Upward[d][1].of, InCall)
    BY <1>3, <2>1, Zenon DEF OneWay
  <2>3. cpc # "idle" /\ InCall = request.call
    BY <2>2, Zenon DEF Of, InCall
  <2>4. Upward[d][1].of = request
    BY <1>1, <2>1, <2>2, <2>3, Zenon DEF CurrentInv, Of
  <2>5. ~Garbled(d)
    BY <1>1, <2>1, <2>3, <2>4, CurrentIntact, Zenon DEF Garbled
  <2>6. Of(m, InCall)
    BY <2>1, <2>2, <2>5, Zenon DEF Of, Carries
  <2>7. Len(Downward[d]) = 0
    <3>1. Len(Upward[d]) # 0
      BY <2>1
    <3>2. ASSUME NEW i \in 1..Len(Downward[d])
          PROVE  FALSE
      <4>1. ~Of(Downward[d][i].of, InCall)
        BY <1>3, <3>1, Zenon DEF OneWay
      <4>2. Downward[d][i].of = Sentinel
        BY <1>3, <4>1, Zenon DEF Orderly
      <4>3. Told(Sentinel, calls, IdBound(d), d \in Failing, executed)
        BY <1>1, <4>2, Zenon DEF MessageInv
      <4> QED
        BY <1>2, <4>3, SentinelIsNobodys, Zenon DEF Told
    <3>3. Len(Downward[d]) \in Nat
      BY Zenon, <1>1, BothRows
    <3> QED
      BY <3>2, <3>3
  <2>8. Orderly(Downward'[d], InCall)
    BY <1>2, <1>4, <2>6, <2>7, OrderlyAnswer, Zenon
  <2>9. ASSUME d \notin Failing'
        PROVE  OneWay(Upward'[d], Downward'[d], InCall)
    <3>1. Whole(d)
      <4>1. m.kind \in {"response", "failure"}
        BY Zenon, <1>1, ReplyIs
      <4> QED
        BY Zenon, <1>2, <2>1, <2>5, <2>9, <4>1
    <3>2. Len(Upward'[d]) = 0
      BY <1>2, <2>3, <2>4, <3>1, WholeIsLast, Zenon
    <3>3. 1..0 = {}
      OBVIOUS
    <3> QED
      BY <3>2, <3>3, Zenon DEF OneWay
  <2> QED
    BY <1>5, <2>8, <2>9, Zenon
<1> QED
  BY <1>6, <1>7, Zenon

\* As long as no call throws half-way, exchanges stay apart, whatever step is
\* taken.
LEMMA ApartInvStep ==
  ASSUME ExchangeInv, StateOK', Next
  PROVE  ApartInv'
<1> DEFINE Goal(d) ==
             /\ Orderly(Downward'[d], InCall')
             /\ InStep(Downward'[d], reader'.size, d \in Closing')
             /\ d \notin Failing' => OneWay(Upward'[d], Downward'[d], InCall')
<1>1. StateOK /\ CallInv /\ HandlerInv /\ MessageInv /\ ChainInv
  BY Zenon DEF ExchangeInv
<1>2. SUFFICES ASSUME ~threw', NEW d \in Conns, d = descriptor'
               PROVE  Goal(d)
  <2>1. descriptor' # 0 => descriptor' \in Conns
    BY DEF StateOK, ClientOK, Conns
  <2> QED
    BY <1>2, <2>1, Zenon DEF ApartInv
<1>3. ASSUME threw' = threw, d = descriptor
      PROVE  /\ Orderly(Downward[d], InCall)
             /\ InStep(Downward[d], reader.size, d \in Closing)
             /\ InStep(Downward[d], reader.size, d \in Closing')
             /\ d \notin Failing => OneWay(Upward[d], Downward[d], InCall)
             /\ d \notin Failing' => OneWay(Upward[d], Downward[d], InCall)
  <2>1. descriptor # 0
    BY <1>3 DEF Conns
  <2>2. /\ Orderly(Downward[d], InCall)
        /\ InStep(Downward[d], reader.size, d \in Closing)
        /\ d \notin Failing => OneWay(Upward[d], Downward[d], InCall)
    BY <1>2, <1>3, <2>1, Zenon DEF ExchangeInv, ApartInv
  <2>3. (d \in Closing => d \in Closing') /\ (d \in Failing => d \in Failing')
    BY FailingStays, Zenon
  <2> QED
    BY <2>2, <2>3, Zenon DEF InStep
<1>4. /\ Upward[d] \in Seq(Bytes) /\ Upward'[d] \in Seq(Bytes)
      /\ Downward[d] \in Seq(Bytes) /\ Downward'[d] \in Seq(Bytes)
  BY <1>1, BothRows, Zenon
<1>5. ASSUME threw' = threw, d = descriptor, UpKept(d), DownKept(d), InCall' = InCall,
             reader' = reader
      PROVE  Goal(d)
  BY <1>3, <1>5, Zenon DEF UpKept, DownKept
<1>6. ASSUME NEW g \in Conns, Opening(g)
      PROVE  Goal(d)
  <2>1. /\ UNCHANGED <<cpc, descriptor, request, reader, threw>> /\ hpc[g] = "unused"
        /\ \A h \in Conns : UpKept(h) /\ (h # g => DownKept(h))
    BY <1>6, Zenon DEF Opening, Opened
  <2>2. g # descriptor
    BY <1>1, <2>1, Zenon DEF HandlerInv
  <2>3. InCall' = InCall
    BY <2>1, Zenon DEF InCall
  <2> QED
    BY <1>2, <1>5, <2>1, <2>2, <2>3, Zenon
<1>7. ASSUME NEW g \in Conns, ConnectInstall(g), Still
      PROVE  Goal(d)
  <2>1. d = g /\ InCall' = 0
    BY <1>2, <1>7, Zenon DEF ConnectInstall, InCall
  <2> QED
    BY <1>7, <2>1, InstallApart, Zenon
<1>8. ~Disconnect
  <2>1. d # 0
    BY DEF Conns
  <2> QED
    BY <1>2, <2>1, Zenon DEF Disconnect
<1>9. CASE CallBegin /\ Called
  <2>1. d # 0
    BY DEF Conns
  <2>2. /\ d = descriptor /\ DownKept(d) /\ reader' = reader /\ threw' = threw
        /\ cpc = "idle" /\ calls' = calls + 1
    BY <1>2, <1>9, <2>1, Zenon DEF Called, CallBegin
  <2>3. InCall = 0
    BY <2>2, Zenon DEF InCall
  <2>4. CASE cpc' = "idle"
    <3>1. InCall' = InCall
      BY <2>2, <2>4, Zenon DEF InCall
    <3>2. UpKept(d)
      <4>1. cpc' # "write"
        BY Zenon, <2>4
      <4> QED
        BY <1>9, <2>2, <4>1, Zenon DEF Called
    <3> QED
      BY <1>5, <2>2, <3>1, <3>2, Zenon
  <2>5. CASE cpc' # "idle"
    <3>1. /\ request' = Message("request", calls', next_request_id)
          /\ Extended(Upward[d], Upward'[d], request')
      BY <1>9, <2>2, <2>5, Zenon DEF Called
    <3>2. InCall' = request'.call
      BY <2>5, Zenon DEF InCall
    <3>3. Of(request', InCall')
      <4>1. request'.call = calls' /\ calls' # 0
        BY <1>1, <2>2, <3>1 DEF Message, StateOK, HistoryOK
      <4> QED
        BY <3>2, <4>1, Zenon DEF Of
    <3>4. /\ Orderly(Downward[d], 0)
          /\ ~(d \in Failing') => OneWay(Upward[d], Downward[d], 0)
      BY <1>3, <2>2, <2>3, Zenon
    <3>5. /\ Orderly(Downward[d], InCall')
          /\ ~(d \in Failing') => OneWay(Upward'[d], Downward[d], InCall')
      BY <1>4, <3>1, <3>3, <3>4, CallApart, Zenon
    <3> QED
      BY <1>3, <2>2, <3>5, Zenon DEF DownKept
  <2> QED
    BY <2>4, <2>5, Zenon
<1>10. CASE ClientSend /\ Still
  <2>1. /\ UNCHANGED <<descriptor, request, reader, threw>> /\ cpc = "write"
        /\ cpc' = IF sent' = FrameBytes THEN "read" ELSE "write"
    BY <1>10, Zenon DEF ClientSend, callVars
  <2>2. cpc # "idle" /\ cpc' # "idle"
    BY Zenon, <2>1
  <2>3. InCall' = InCall
    BY <2>1, <2>2, Zenon DEF InCall
  <2> QED
    BY <1>2, <1>5, <1>10, <2>1, <2>3, Zenon DEF Still
<1>11. CASE Receiving
  <2>1. /\ UNCHANGED <<cpc, descriptor, request, threw>>
        /\ d = descriptor /\ UpKept(d)
        /\ Advanced(reader, reader', Downward[d], Downward'[d])
    BY <1>2, <1>11, Zenon DEF Receiving, ClientReceive, callVars
  <2>2. InCall' = InCall
    BY <2>1, Zenon DEF InCall
  <2>3. ChainAt(Downward[d], d \in Closing')
    <3>1. d \in Closing => d \in Closing'
      BY FailingStays, Zenon
    <3> QED
      BY <1>1, <3>1, Zenon DEF ChainInv, ChainAt
  <2>4. InStep(Downward'[d], reader'.size, d \in Closing')
    BY <1>3, <1>4, <2>1, <2>3, ReceiveApart, Zenon
  <2>5. PICK k \in Nat : Part(Downward[d], Downward'[d], k)
    BY <1>4, <2>1, AdvancedIsPart, Zenon
  <2>6. Orderly(Downward'[d], InCall)
    BY <1>3, <1>4, <2>1, <2>5, OrderlyPart, Zenon
  <2>7. Part(Upward[d], Upward[d], 0)
    BY <1>4, PartSame, Zenon
  <2>8. d \notin Failing' => OneWay(Upward[d], Downward'[d], InCall)
    BY <1>3, <1>4, <2>1, <2>5, <2>7, OneWayPart, Zenon
  <2> QED
    BY <2>1, <2>2, <2>4, <2>6, <2>8, Zenon DEF UpKept
<1>12. ASSUME NEW how, Ending(how)
       PROVE  Goal(d)
  <2>1. d # 0
    BY DEF Conns
  <2>2. /\ d = descriptor /\ threw' = threw /\ cpc = "read" /\ Complete(reader)
        /\ cpc' = "idle" /\ reader' = NewReader /\ UNCHANGED handlerVars /\ Ended
    BY <1>2, <1>12, <2>1, Zenon DEF Ending, EndCall, Matched, Broken, Thrown
  <2>3. InCall' = 0 /\ reader'.size = 0
    BY Zenon, <2>2 DEF InCall, NewReader
  <2>4. /\ UpKept(d) /\ Part(Downward[d], Downward'[d], Len(reader.got))
    BY <2>2, Zenon DEF Ended
  <2>5. reader.size = PayloadBytes /\ Len(reader.got) = PayloadBytes
    <3>1. reader.size \in {0, PayloadBytes}
      BY <1>3, <2>2, Zenon DEF InStep
    <3>2. Len(reader.got) = reader.size /\ reader.size # 0
      BY <2>2 DEF Complete
    <3> QED
      BY <3>1, <3>2, Zenon
  <2>6. /\ Orderly(Downward[d], InCall) /\ InStep(Downward[d], PayloadBytes, d \in Closing)
        /\ Chained(Downward[d]) /\ Part(Downward[d], Downward'[d], PayloadBytes)
    BY <1>1, <1>3, <2>2, <2>4, <2>5, Zenon DEF ChainInv
  <2>7. ASSUME d \notin Failing'
        PROVE  /\ OneWay(Upward[d], Downward[d], InCall)
               /\ \A i \in 1..Len(Downward[d]) : Downward[d][i].of # Sentinel
    <3>1. d \notin Failing
      BY <2>7, FailingStays, Zenon
    <3>2. \A i \in 1..Len(Downward[d]) :
            Told(Downward[d][i].of, calls, IdBound(d), d \in Failing, executed)
      BY <1>1, Zenon DEF MessageInv
    <3> QED
      BY <1>3, <2>2, <2>7, <3>1, <3>2, SentinelIsNobodys, Zenon DEF Told
  <2>8. /\ Orderly(Downward'[d], 0) /\ InStep(Downward'[d], 0, d \in Closing')
        /\ ~(d \in Failing') => OneWay(Upward[d], Downward'[d], 0)
    BY <1>4, <2>6, <2>7, EndApart, Zenon
  <2> QED
    BY <2>3, <2>4, <2>8, Zenon DEF UpKept
<1>13. ASSUME NEW g \in Conns, Serving(g)
       PROVE  Goal(d)
  <2>1. /\ UNCHANGED <<cpc, descriptor, request, reader>> /\ d = descriptor
    BY <1>2, <1>13, Zenon DEF Serving, Apart, clientVars
  <2>2. threw' = threw
    BY <1>13, Zenon
       DEF Serving, HandlerStep, HandlerReceive, HandlerReadFails, HandlerDecode,
       HandlerSend, HandlerInterrupted, HandlerClose, HandlerDispatch, HandlerQuiet, callVars
  <2>3. InCall' = InCall
    BY <2>1, Zenon DEF InCall
  <2>4. CASE g # d
    <3>1. UpKept(d) /\ DownKept(d)
      BY <1>13, <2>4, Zenon DEF Serving, Apart
    <3> QED
      BY <1>5, <2>1, <2>2, <2>3, <3>1, Zenon
  <2>5. CASE g = d
    <3>1. PICK k \in Nat : Part(Upward[d], Upward'[d], k)
      BY <1>13, <2>5, Zenon DEF Serving, Served
    <3>2. CASE DownKept(d)
      <4>1. Part(Downward[d], Downward[d], 0)
        BY <1>4, PartSame, Zenon
      <4>2. d \notin Failing' => OneWay(Upward'[d], Downward[d], InCall)
        BY <1>3, <1>4, <2>1, <2>2, <3>1, <4>1, OneWayPart, Zenon
      <4> QED
        BY <1>3, <2>1, <2>2, <2>3, <3>2, <4>2, Zenon DEF DownKept
    <3>3. CASE Part(Downward[d], Downward'[d], 0) /\ hpc'[d] = "close"
      <4>1. d \in Closing' /\ d \in Failing'
        BY Zenon, <3>3 DEF Closing, Failing
      <4>2. Orderly(Downward'[d], InCall)
        BY <1>3, <1>4, <2>1, <2>2, <3>3, OrderlyPart, Zenon
      <4>3. InStep(Downward'[d], reader.size, d \in Closing')
        <5>1. ASSUME Len(Downward'[d]) > 0
              PROVE  Len(Downward[d]) > 0 /\ Downward'[d][1] = Downward[d][1]
          <6> DEFINE s == Downward[d]
                     t == Downward'[d]
          <6>1. s \in Seq(Bytes) /\ t \in Seq(Bytes) /\ Part(s, t, 0)
            BY <1>4, <3>3, Zenon
          <6> HIDE DEF s, t
          <6>2. /\ Len(s) \in Nat /\ Len(t) \in Nat
                /\ \A i \in 1..Len(t) : i + 0 \in 1..Len(s) /\ t[i] = s[i + 0]
            BY <6>1, PartBytes
          <6>3. Len(t) > 0 => Len(s) > 0 /\ t[1] = s[1]
            BY <6>2
          <6> QED
            BY <5>1, <6>3, Zenon DEF s, t
        <5> QED
          BY <1>3, <2>1, <2>2, <4>1, <5>1, Zenon DEF InStep
      <4> QED
        BY <2>1, <2>3, <4>1, <4>2, <4>3, Zenon
    <3>4. CASE Replies(d)
      <4>1. PICK m \in Messages : Reply(d, m)
        BY <3>4, Zenon DEF Replies
      <4>2. /\ Orderly(Downward'[d], InCall)
            /\ InStep(Downward'[d], reader.size, d \in Closing')
            /\ d \notin Failing' => OneWay(Upward'[d], Downward'[d], InCall)
        BY <1>2, <1>13, <2>1, <2>2, <2>5, <4>1, ReplyApart, Zenon
      <4> QED
        BY <2>1, <2>3, <4>2, Zenon
    <3> QED
      BY <1>13, <2>5, <3>2, <3>3, <3>4, Zenon DEF Serving, Served
  <2> QED
    BY <2>4, <2>5, Zenon
<1> QED
  BY <1>1, <1>6, <1>7, <1>8, <1>9, <1>10, <1>11, <1>12, <1>13, StepCases, Zenon

-----------------------------------------------------------------------------
(* The invariant                                                             *)

\* A response that a call takes for its own answers its request.
LEMMA AnswersMatchStep ==
  ASSUME ExchangeInv, StateOK', Next
  PROVE  AnswersMatch'
<1>1. StateOK /\ CallInv /\ HandlerInv /\ CurrentInv /\ AnswersMatch
  BY Zenon DEF ExchangeInv
<1>2. /\ result \in [Calls -> Results] /\ answeredFor \in [Calls -> 0..MaxCalls]
      /\ calls \in 0..MaxCalls
  BY <1>1, Zenon DEF StateOK, HistoryOK
<1>3. SUFFICES ASSUME NEW c \in Calls, result'[c] \in {"Answered", "Failed"}
               PROVE  answeredFor'[c] = c
  BY <1>3, Zenon DEF AnswersMatch
<1>4. ASSUME result'[c] = result[c], answeredFor'[c] = answeredFor[c]
      PROVE  answeredFor'[c] = c
  BY <1>1, <1>3, <1>4, Zenon DEF AnswersMatch
<1>5. CASE UNCHANGED <<result, answeredFor>>
  BY <1>4, <1>5, Zenon
<1>6. CASE CallBegin
  <2>1. /\ answeredFor' = answeredFor /\ calls' \in Calls
        /\ \/ result' = result
           \/ \E how \in {"NotConnected", "Exhausted", "NotEncoded"} :
                result' = [result EXCEPT ![calls'] = how]
    <3>1. calls' \in Calls
      BY <1>2, <1>6 DEF CallBegin, Calls
    <3> QED
      BY <1>6, <3>1, Zenon DEF CallBegin
  <2>2. CASE c = calls' /\ result' # result
    BY Zenon, <1>2, <1>3, <2>1, <2>2
  <2>3. CASE c # calls' \/ result' = result
    <3>1. result'[c] = result[c]
      BY <1>2, <2>1, <2>3, Zenon
    <3> QED
      BY <1>4, <2>1, <3>1, Zenon
  <2> QED
    BY <2>2, <2>3, Zenon
<1>7. ASSUME NEW how, Ending(how)
      PROVE  answeredFor'[c] = c
  <2>1. /\ result' = [result EXCEPT ![request.call] = how]
        /\ cpc # "idle" /\ Ended
    BY <1>7, Zenon DEF Ending, EndCall
  <2>2. request.call = calls /\ calls \in Calls
    BY <1>1, <1>2, <2>1 DEF CallInv, Calls
  <2>3. CASE c # calls
    <3>1. result'[c] = result[c]
      BY <1>2, <2>1, <2>2, <2>3, Zenon
    <3>2. answeredFor'[c] = answeredFor[c]
      BY <1>2, <1>7, <2>2, <2>3, Zenon DEF Ending, Matched, Broken, Thrown
    <3> QED
      BY <1>4, <3>1, <3>2, Zenon
  <2>4. CASE c = calls
    <3>1. how \in {"Answered", "Failed"}
      BY <1>2, <1>3, <2>1, <2>2, <2>4, Zenon
    <3>2. Matched(how)
      BY Zenon, <1>7, <3>1 DEF Ending, Broken, Thrown
    <3>3. PICK d \in Conns : d = descriptor
      BY <2>1, Zenon DEF Ended
    <3>4. /\ Complete(reader) /\ reader.got[1].of.id = request.id
          /\ answeredFor' = [answeredFor EXCEPT ![request.call] = reader.got[1].of.call]
      BY <3>2, Zenon DEF Matched
    <3>5. 1 \in 1..Len(Downward[d]) /\ Downward[d][1] = reader.got[1]
      BY <1>1, <3>3, <3>4, ClientFirst, Zenon
    <3>6. reader.got[1].of.call = request.call
      BY <1>1, <2>1, <3>3, <3>4, <3>5, Zenon DEF CurrentInv
    <3> QED
      BY <1>2, <2>2, <2>4, <3>4, <3>6, Zenon
  <2> QED
    BY <2>3, <2>4, Zenon
<1>8. CASE \E g \in Conns : Opening(g) \/ ConnectInstall(g) \/ Serving(g)
  BY <1>5, <1>8, Zenon DEF Opening, ConnectInstall, Serving, HandlerStep, HandlerReceive,
     HandlerReadFails, HandlerDecode, HandlerSend, HandlerInterrupted, HandlerClose,
     HandlerDispatch, HandlerQuiet, callVars
<1>9. CASE Disconnect \/ ClientSend \/ Receiving
  BY <1>5, <1>9, Zenon DEF Disconnect, ClientSend, Receiving, ClientReceive, callVars
<1> QED
  BY <1>1, <1>6, <1>7, <1>8, <1>9, StepCases, Zenon

\* A new client and a new server: no byte is anywhere.
LEMMA ExchangeInvInit ==
  ASSUME Init
  PROVE  ExchangeInv
<1>1. StateOK
  BY StateOKInit, Zenon
<1>2. /\ descriptor = 0 /\ cpc = "idle" /\ fresh = {} /\ request = NoMessage /\ sent = 0
      /\ reader = NewReader /\ calls = 0 /\ threw = FALSE
      /\ \A g \in Conns : /\ up[g] = <<>> /\ down[g] = <<>> /\ hpc[g] = "unused"
                          /\ hreader[g] = NewReader /\ answer[g] = NoMessage /\ hsent[g] = 0
      /\ \A c \in Calls : result[c] = "none" /\ executed[c] = 0
  BY Zenon DEF Init
<1>3. \A g \in Conns : g # 0
  BY DEF Conns
<1>4. HandlerInv
  BY Zenon, <1>2, <1>3 DEF HandlerInv
<1>5. \A g \in Conns : Len(Upward[g]) = 0 /\ Len(Downward[g]) = 0
  BY <1>1, <1>2, <1>4, UnusedRows, Zenon
<1>6. \A c \in Calls : ~(c <= calls)
  BY <1>2 DEF Calls
<1>7. CallInv
  BY Zenon, <1>2, <1>6 DEF CallInv
<1>8. \A g \in Conns : \A i \in 1..Len(Upward[g]) : FALSE
  BY <1>5
<1>9. \A g \in Conns : \A i \in 1..Len(Downward[g]) : FALSE
  BY <1>5
<1>10. FreshInv /\ MessageInv /\ CurrentInv /\ RefusalInv /\ ApartInv
  BY <1>2, <1>8, <1>9, Zenon DEF FreshInv, MessageInv, CurrentInv, RefusalInv, ApartInv
<1>11. OnceInv /\ SettledInv /\ AnswersMatch
  BY Zenon, <1>2, <1>8 DEF OnceInv, SettledInv, AnswersMatch, DefiniteFailures
<1>12. ChainInv
  <2>1. \A g \in Conns : ~(Len(Downward[g]) > 0)
    BY <1>5
  <2> QED
    BY <1>9, <2>1, Zenon DEF ChainInv, Chained
<1> QED
  BY <1>1, <1>4, <1>7, <1>10, <1>11, <1>12, Zenon DEF ExchangeInv

\* The invariant holds at the start and is kept by every step.
LEMMA ExchangeInvStep ==
  ASSUME ExchangeInv, [Next]_vars
  PROVE  ExchangeInv'
<1>1. CASE Next
  <2>1. StateOK'
    BY <1>1, StateOKStep, Zenon DEF ExchangeInv
  <2>2. CallInv' /\ HandlerInv' /\ FreshInv' /\ MessageInv'
    BY <1>1, <2>1, CallInvStep, HandlerInvStep, FreshInvStep, MessageInvStep, Zenon
  <2>3. CurrentInv' /\ OnceInv' /\ SettledInv' /\ RefusalInv'
    BY <1>1, <2>1, CurrentInvStep, OnceInvStep, SettledInvStep, RefusalInvStep, Zenon
  <2>4. ChainInv' /\ ApartInv' /\ AnswersMatch'
    BY <1>1, <2>1, ChainInvStep, ApartInvStep, AnswersMatchStep, Zenon
  <2> QED
    BY <2>1, <2>2, <2>3, <2>4, Zenon DEF ExchangeInv
<1>2. CASE UNCHANGED vars
  <2> USE <1>2 DEF vars, clientVars, streamVars, handlerVars, callVars
  <2>1. StateOK' /\ CallInv' /\ HandlerInv' /\ AnswersMatch'
    <3>1. StateOK' /\ CallInv' /\ AnswersMatch'
      BY Zenon
         DEF ExchangeInv, StateOK, ClientOK, StreamOK, HandlerOK, HistoryOK, CallInv,
         AnswersMatch
    <3> QED
      BY <3>1, Zenon DEF ExchangeInv, HandlerInv, Decoded
  <2>2. Upward' = Upward
    BY Zenon DEF Upward, Unsent
  <2>3. Downward' = Downward
    BY Zenon DEF Downward, Unwritten, Held
  <2>4. Closing' = Closing /\ Failing' = Failing /\ InCall' = InCall
    BY Zenon DEF Closing, Failing, InCall
  <2>5. FreshInv' /\ MessageInv' /\ CurrentInv'
    BY <2>2, <2>3, <2>4, Zenon DEF ExchangeInv, FreshInv, MessageInv, CurrentInv, IdBound
  <2>6. OnceInv' /\ SettledInv' /\ RefusalInv'
    <3>1. OnceInv'
      <4>1. OnceInv /\ executed' = executed
        BY Zenon DEF ExchangeInv
      <4> QED
        BY <2>2, <4>1 DEF OnceInv, Final
    <3>2. SettledInv'
      BY <2>2, <2>4, Zenon DEF ExchangeInv, SettledInv, Final
    <3>3. RefusalInv'
      BY <2>3, <2>4, Zenon DEF ExchangeInv, RefusalInv
    <3> QED
      BY <3>1, <3>2, <3>3, Zenon
  <2>7. ChainInv' /\ ApartInv'
    BY <2>2, <2>3, <2>4, Zenon DEF ExchangeInv, ChainInv, ApartInv
  <2> QED
    BY <2>1, <2>5, <2>6, <2>7, Zenon DEF ExchangeInv
<1> QED
  BY <1>1, <1>2, Zenon

\* The inductive invariant of the client and the handlers of its connections.
THEOREM ExchangeInvariance == Spec => []ExchangeInv
<1>1. Init => ExchangeInv
  BY Zenon, ExchangeInvInit
<1>2. ExchangeInv /\ [Next]_vars => ExchangeInv'
  BY Zenon, ExchangeInvStep
<1> QED
  BY <1>1, <1>2, PTL DEF Spec

\* Every variable of the exchange has its type (client.cpp, server.cpp): a call
\* in progress has a connection and an id that is not the sentinel's.
THEOREM ExchangeTypeCorrect == Spec => []TypeOK
<1>1. ExchangeInv => TypeOK
  BY StateOKIsTyped, Zenon DEF ExchangeInv
<1> QED
  BY <1>1, ExchangeInvariance, PTL

\* A response that Client::call returns answers the request it sent, whatever an
\* earlier call left behind on the stream.
THEOREM AnswersAreMatched == Spec => []AnswersMatch
<1>1. ExchangeInv => AnswersMatch
  BY Zenon DEF ExchangeInv
<1> QED
  BY <1>1, ExchangeInvariance, PTL

\* A failure of Client::call that says that nothing was done is true, then and
\* later.
THEOREM DefiniteFailuresAreTrue == Spec => []DefiniteFailuresDidNothing
<1>1. ExchangeInv => DefiniteFailuresDidNothing
  BY Zenon DEF ExchangeInv, SettledInv, DefiniteFailuresDidNothing
<1> QED
  BY <1>1, ExchangeInvariance, PTL

\* A sequence of bytes that all have a property.
LEMMA SeqOfSuch ==
  ASSUME NEW S, NEW a \in Seq(Bytes), \A i \in 1..Len(a) : a[i] \in S
  PROVE  a \in Seq(S)
<1>1. Len(a) \in Nat /\ DOMAIN a = 1..Len(a)
  BY Zenon, LenProperties
<1>2. a \in [1..Len(a) -> S]
  BY <1>1
<1> QED
  BY ZenonT(60), <1>1, <1>2, SeqDef

\* What the two ends have yet to make sense of belongs to the call in progress.
LEMMA ExchangesApart ==
  ASSUME ExchangeInv
  PROVE  FailuresDropTheConnection
<1>1. SUFFICES ASSUME ~threw, cpc # "idle"
               PROVE  \A i \in DOMAIN Pending(descriptor) :
                        Pending(descriptor)[i].of.call \in {0, request.call}
  BY <1>1, Zenon DEF FailuresDropTheConnection, OneExchange
<1>2. StateOK /\ ApartInv
  BY Zenon DEF ExchangeInv
<1>3. descriptor \in Conns /\ descriptor # 0
  BY <1>1, <1>2 DEF StateOK, ClientOK, Conns
<1> PICK g \in Conns : g = descriptor
  BY Zenon, <1>3
<1> DEFINE S == {b \in Bytes : b.of.call \in {0, request.call}}
           Rest == IF hpc[g] \in {"close", "gone"} \/ answer[g].kind = "failure"
                   THEN <<>> ELSE hreader[g].got \o up[g]
<1>4. InCall = request.call /\ Sentinel.call = 0
  BY Zenon, <1>1 DEF InCall, Sentinel, Message
<1>5. /\ Upward[g] \in Seq(Bytes) /\ Downward[g] \in Seq(Bytes)
      /\ Laid(Upward[g], hreader[g].got, up[g], Unsent(g))
      /\ Laid(Downward[g], Held(g), down[g], Unwritten(g))
  BY <1>2, ReaderRows, Zenon
<1>6. \A i \in 1..Len(Downward[g]) : Downward[g][i] \in S
  <2>1. \A i \in 1..Len(Downward[g]) :
          Downward[g][i] \in Bytes /\ (Downward[g][i].of = Sentinel \/ Of(Downward[g][i].of, InCall))
    BY <1>1, <1>2, <1>3, <1>5, BytesOf, Zenon DEF ApartInv, Orderly
  <2> QED
    BY <1>4, <2>1, Zenon DEF Of
<1>7. g \notin Failing => \A i \in 1..Len(Upward[g]) : Upward[g][i] \in S
  <2>1. g \notin Failing => \A i \in 1..Len(Upward[g]) :
          Upward[g][i] \in Bytes /\ Of(Upward[g][i].of, InCall)
    BY <1>1, <1>2, <1>3, <1>5, BytesOf, Zenon DEF ApartInv, OneWay
  <2> QED
    BY <1>4, <2>1, Zenon DEF Of
<1> HIDE DEF S
<1>8. \A w, a, b, c : Laid(w, a, b, c) /\ (\A i \in 1..Len(w) : w[i] \in S) =>
        (\A i \in 1..Len(a) : a[i] \in S) /\ (\A i \in 1..Len(b) : b[i] \in S)
  <2> TAKE w, a, b, c
  <2> SUFFICES ASSUME Laid(w, a, b, c), \A i \in 1..Len(w) : w[i] \in S
               PROVE  (\A i \in 1..Len(a) : a[i] \in S) /\ (\A i \in 1..Len(b) : b[i] \in S)
    BY Zenon
  <2>1. \A i \in 1..Len(a) : i \in 1..Len(w) /\ a[i] = w[i]
    BY DEF Laid
  <2>2. \A i \in 1..Len(b) : Len(a) + i \in 1..Len(w) /\ b[i] = w[Len(a) + i]
    BY DEF Laid
  <2> QED
    BY <2>1, <2>2, Zenon
<1>9. /\ hreader[g].got \in Seq(Bytes) /\ up[g] \in Seq(Bytes)
      /\ reader.got \in Seq(Bytes) /\ down[g] \in Seq(Bytes) /\ Held(g) = reader.got
  BY <1>2, RowsTyped, Zenon DEF RowsOK, Held
<1>10. reader.got \in Seq(S) /\ down[g] \in Seq(S)
  <2>1. (\A i \in 1..Len(Held(g)) : Held(g)[i] \in S) /\ (\A i \in 1..Len(down[g]) : down[g][i] \in S)
    BY <1>5, <1>6, <1>8, Zenon
  <2> QED
    BY <1>9, <2>1, SeqOfSuch, Zenon
<1>11. Rest \in Seq(S)
  <2>1. CASE hpc[g] \in {"close", "gone"} \/ answer[g].kind = "failure"
    <3>1. <<>> \in Seq(S)
      BY Zenon, EmptySeq
    <3> QED
      BY <2>1, <3>1, Zenon
  <2>2. CASE ~(hpc[g] \in {"close", "gone"} \/ answer[g].kind = "failure")
    <3>1. g \notin Failing
      BY <2>2, Zenon DEF Failing, Closing
    <3>2. /\ \A i \in 1..Len(hreader[g].got) : hreader[g].got[i] \in S
          /\ \A i \in 1..Len(up[g]) : up[g][i] \in S
      BY <1>5, <1>7, <1>8, <3>1, Zenon
    <3>3. hreader[g].got \in Seq(S) /\ up[g] \in Seq(S)
      BY <1>9, <3>2, SeqOfSuch, Zenon
    <3>4. hreader[g].got \o up[g] \in Seq(S)
      BY <3>3, ConcatProperties, Zenon
    <3> QED
      BY <2>2, <3>4, Zenon
  <2> QED
    BY <2>1, <2>2, Zenon
<1> HIDE DEF Rest
<1>12. (down[g] \o reader.got) \o Rest \in Seq(S)
  <2>1. down[g] \o reader.got \in Seq(S)
    BY <1>10, ConcatProperties, Zenon
  <2> QED
    BY <1>11, <2>1, ConcatProperties, Zenon
<1>13. Pending(g) \in Seq(S)
  BY <1>12, Zenon DEF Pending, Rest
<1>14. \A i \in DOMAIN Pending(g) : Pending(g)[i] \in S
  BY Zenon, <1>13, LenProperties, ElementOfSeq
<1> QED
  BY <1>14, Zenon DEF S

\* The mutex of Client covers the whole exchange: unless an exception left a call
\* half-way, the streams of a call carry no bytes of another.
THEOREM ExchangesStayApart == Spec => []FailuresDropTheConnection
<1>1. ExchangeInv => FailuresDropTheConnection
  BY Zenon, ExchangesApart
<1> QED
  BY <1>1, ExchangeInvariance, PTL

-----------------------------------------------------------------------------
(* What a caller may rely on                                                 *)

\* What a call has come to does not change while what is known of it does not.
LEMMA VerdictKept ==
  ASSUME NEW c \in Calls, result'[c] = result[c], answeredFor'[c] = answeredFor[c],
         c > calls' <=> c > calls
  PROVE  Verdict'[c] = Verdict[c]
BY Zenon DEF Verdict

\* The verdict of one call changes.
LEMMA VerdictChanged ==
  ASSUME NEW d \in Calls, NEW v, Verdict'[d] = v,
         \A c \in Calls : c # d => Verdict'[c] = Verdict[c]
  PROVE  Verdict' = [Verdict EXCEPT ![d] = v]
<1>1. Verdict = [c \in Calls |-> Verdict[c]] /\ Verdict' = [c \in Calls |-> Verdict'[c]]
  BY ZenonT(60) DEF Verdict
<1>2. DOMAIN Verdict = Calls
  BY Zenon DEF Verdict
<1> QED
  BY Zenon, <1>1, <1>2

\* The beginning of a call.
LEMMA CallBeginMakes ==
  ASSUME ExchangeInv, CallBegin
  PROVE  Contract!Make(calls') /\ calls' \in Calls
<1>1. StateOK /\ CallInv
  BY Zenon DEF ExchangeInv
<1>2. /\ calls' = calls + 1 /\ calls \in Nat /\ calls' \in Calls /\ calls' > calls
      /\ result \in [Calls -> Results]
  BY <1>1 DEF CallBegin, StateOK, HistoryOK, Calls
<1>3. /\ cpc = "idle" /\ UNCHANGED <<answeredFor, executed>>
      /\ \/ result' = result /\ cpc' = "write"
         \/ \E how \in {"NotConnected", "Exhausted", "NotEncoded"} :
              result' = [result EXCEPT ![calls'] = how]
  BY Zenon DEF CallBegin
<1>4. Verdict[calls'] = "unmade"
  BY <1>2, Zenon DEF Verdict
<1>5. ASSUME NEW d \in Calls
      PROVE  Verdict[d] # "open"
  <2>1. CASE d > calls
    <3>1. Verdict[d] = "unmade"
      BY <2>1, Zenon DEF Verdict
    <3> QED
      BY Zenon, <3>1
  <2>2. CASE ~(d > calls)
    <3>1. d <= calls
      BY <1>2, <2>2 DEF Calls
    <3>2. result[d] # "none"
      BY <1>1, <1>3, <3>1, Zenon DEF CallInv
    <3> QED
      BY Zenon, <2>2, <3>2 DEF Verdict
  <2> QED
    BY Zenon, <2>1, <2>2
<1>6. ASSUME NEW c \in Calls, c # calls'
      PROVE  Verdict'[c] = Verdict[c]
  <2>1. result'[c] = result[c] /\ answeredFor'[c] = answeredFor[c]
    BY <1>2, <1>3, <1>6, Zenon
  <2>2. c > calls' <=> c > calls
    BY <1>2, <1>6 DEF Calls
  <2> QED
    BY <2>1, <2>2, VerdictKept, Zenon
<1>7. Verdict'[calls'] \in {"open", "not done"}
  <2>1. ~(calls' > calls')
    BY <1>2
  <2>2. result[calls'] = "none"
    BY <1>1, <1>2, Zenon DEF CallInv
  <2>3. \/ result'[calls'] = "none"
        \/ result'[calls'] \in {"NotConnected", "Exhausted", "NotEncoded"}
    BY <1>2, <1>3, <2>2, Zenon
  <2>4. CASE result'[calls'] = "none"
    <3>1. Verdict'[calls'] = "open"
      BY <1>2, <2>1, <2>4, Zenon DEF Verdict
    <3> QED
      BY Zenon, <3>1
  <2>5. CASE result'[calls'] \in {"NotConnected", "Exhausted", "NotEncoded"}
    <3>1. result'[calls'] # "none" /\ result'[calls'] \in DefiniteFailures
      BY Zenon, <2>5 DEF DefiniteFailures
    <3>2. Verdict'[calls'] = "not done"
      BY <1>2, <2>1, <3>1, Zenon DEF Verdict
    <3> QED
      BY Zenon, <3>2
  <2> QED
    BY Zenon, <2>3, <2>4, <2>5
<1>8. \E v \in {"open", "not done"} : Verdict' = [Verdict EXCEPT ![calls'] = v]
  BY <1>2, <1>6, <1>7, VerdictChanged, Zenon
<1> QED
  BY <1>2, <1>3, <1>4, <1>5, <1>8, Zenon DEF Contract!Make

\* The end of a call.
LEMMA EndingReturns ==
  ASSUME ExchangeInv, StateOK', Next, NEW how, Ending(how)
  PROVE  Contract!Return(calls) /\ calls \in Calls
<1>1. StateOK /\ CallInv
  BY Zenon DEF ExchangeInv
<1>2. /\ calls \in Nat /\ calls \in Calls /\ calls' = calls /\ executed' = executed
      /\ request.call = calls /\ result[calls] = "none"
      /\ result \in [Calls -> Results] /\ answeredFor \in [Calls -> 0..MaxCalls]
      /\ result' = [result EXCEPT ![calls] = how]
  <2>1. /\ result \in [Calls -> Results] /\ answeredFor \in [Calls -> 0..MaxCalls]
        /\ calls \in 0..MaxCalls
    BY <1>1, Zenon DEF StateOK, HistoryOK
  <2>2. /\ cpc # "idle" /\ calls' = calls /\ executed' = executed
        /\ result' = [result EXCEPT ![request.call] = how]
    BY Zenon DEF Ending, EndCall
  <2>3. request.call = calls /\ calls > 0 /\ result[calls] = "none"
    BY <1>1, <2>2, Zenon DEF CallInv
  <2>4. calls \in Nat /\ calls \in Calls
    BY <2>1, <2>3 DEF Calls
  <2> QED
    BY <2>1, <2>2, <2>3, <2>4, Zenon
<1>3. Verdict[calls] = "open"
  <2>1. ~(calls > calls)
    BY <1>2
  <2> QED
    BY <1>2, <2>1, Zenon DEF Verdict
<1>4. ASSUME NEW c \in Calls, c # calls
      PROVE  Verdict'[c] = Verdict[c]
  <2>1. result'[c] = result[c]
    BY <1>2, <1>4, Zenon
  <2>2. answeredFor'[c] = answeredFor[c]
    BY <1>2, <1>4, Zenon DEF Ending, Matched, Broken, Thrown
  <2> QED
    BY <1>2, <2>1, <2>2, VerdictKept, Zenon
<1>5. /\ how \in DefiniteFailures => executed[calls] = 0
      /\ how = "Answered" => executed[calls] = 1
  BY EndingSettles, Zenon
<1>6. AnswersMatch'
  BY AnswersMatchStep, Zenon
<1>7. how # "none"
  BY Zenon DEF Ending, Matched, Broken, Thrown
<1>8. result'[calls] = how /\ ~(calls > calls')
  BY <1>2
<1> DEFINE Verdicts == {"unknown", "failed",
                        IF executed[calls] = 1 THEN "answered" ELSE "not done"}
<1>9. Verdict'[calls] \in Verdicts
  <2>1. CASE how \in DefiniteFailures
    <3>1. Verdict'[calls] = "not done"
      BY <1>2, <1>7, <1>8, <2>1, Zenon DEF Verdict
    <3>2. executed[calls] # 1
      BY <1>5, <2>1
    <3> QED
      BY <3>1, <3>2, Zenon
  <2>2. CASE how \notin DefiniteFailures /\ how \notin {"Answered", "Failed"}
    <3>1. Verdict'[calls] = "unknown"
      BY <1>2, <1>7, <1>8, <2>2, Zenon DEF Verdict
    <3> QED
      BY <3>1, Zenon
  <2>3. CASE how \in {"Answered", "Failed"}
    <3>1. answeredFor'[calls] = calls /\ how \notin DefiniteFailures
      <4>1. how \notin DefiniteFailures
        BY Zenon, <2>3 DEF DefiniteFailures
      <4> QED
        BY <1>2, <1>6, <1>8, <2>3, <4>1, Zenon DEF AnswersMatch
    <3>2. Verdict'[calls] = IF how = "Answered" THEN "answered" ELSE "failed"
      BY <1>2, <1>7, <1>8, <2>3, <3>1, Zenon DEF Verdict
    <3> QED
      BY <1>5, <3>2, Zenon
  <2> QED
    BY <2>1, <2>2, <2>3, Zenon
<1> HIDE DEF Verdicts
<1>10. \E v \in Verdicts : Verdict' = [Verdict EXCEPT ![calls] = v]
  BY <1>2, <1>4, <1>9, VerdictChanged, Zenon
<1> QED
  BY <1>2, <1>3, <1>10, Zenon DEF Contract!Return, Verdicts

\* A dispatch executes a request that was made and whose caller still waits for
\* it, or was left in doubt.
LEMMA DispatchExecutes ==
  ASSUME ExchangeInv, StateOK', Next, NEW g \in Conns, HandlerDispatch(g)
  PROVE  \/ UNCHANGED <<Verdict, executed>>
         \/ \E c \in Calls : Contract!Execute(c)
<1>1. StateOK /\ CallInv /\ HandlerInv /\ MessageInv /\ OnceInv /\ SettledInv
  BY Zenon DEF ExchangeInv
<1>2. /\ UNCHANGED <<calls, result, answeredFor>> /\ hpc[g] = "dispatch"
      /\ executed' = [c \in Calls |-> IF c = hrequest[g].call
                                      THEN executed[c] + 1 ELSE executed[c]]
      /\ executed \in [Calls -> Nat]
  BY <1>1, Zenon DEF HandlerDispatch, StateOK, HistoryOK
<1>3. Verdict' = Verdict
  BY <1>2, Zenon DEF Verdict
<1>4. hrequest[g].call \in 0..calls /\ calls \in 0..MaxCalls
  BY <1>1, <1>2, DispatchedIsAsked, Zenon DEF StateOK, HistoryOK
<1>5. CASE hrequest[g].call = 0
  <2>1. \A c \in Calls : c # hrequest[g].call
    BY <1>5 DEF Calls
  <2>2. executed' = executed
    BY Zenon, <1>2, <2>1
  <2> QED
    BY <1>3, <2>2, Zenon
<1>6. CASE hrequest[g].call # 0
  <2>1. PICK c \in Calls : c = hrequest[g].call /\ ~(c > calls)
    BY <1>4, <1>6 DEF Calls
  <2>2. PayloadBytes \in 1..Len(Upward[g]) /\ Final(Upward[g][PayloadBytes], c)
    BY <1>1, <1>6, <2>1, DispatchedFinal, Zenon
  <2>3. executed[c] = 0
    BY <1>1, <2>2, Zenon DEF OnceInv
  <2>4. g \notin Failing
    BY Zenon, <1>2 DEF Failing, Closing
  <2>5. result[c] \notin DefiniteFailures \cup {"Answered", "Failed"}
    BY <1>1, <2>2, <2>4, Zenon DEF SettledInv
  <2>6. Verdict[c] \in {"open", "unknown"}
    BY <2>1, <2>5, Zenon DEF Verdict
  <2>7. executed' = [executed EXCEPT ![c] = 1]
    <3>1. executed'[c] = 1 /\ \A d \in Calls \ {c} : executed'[d] = executed[d]
      BY <1>2, <2>1, <2>3
    <3>2. DOMAIN executed' = Calls /\ executed' = [d \in Calls |-> executed'[d]]
      BY <1>2, Zenon
    <3> QED
      BY Zenon, <1>2, <3>1, <3>2
  <2> QED
    BY <1>3, <2>3, <2>6, <2>7, Zenon DEF Contract!Execute
<1> QED
  BY <1>5, <1>6, Zenon

\* Every step of the exchange is one of the contract, or leaves it alone.
LEMMA StepKeepsContract ==
  ASSUME ExchangeInv, [Next]_vars
  PROVE  [Contract!Next]_<<Verdict, executed>>
<1>1. ASSUME UNCHANGED <<calls, result, answeredFor, executed>>
      PROVE  UNCHANGED <<Verdict, executed>>
  BY <1>1, Zenon DEF Verdict
<1>2. CASE UNCHANGED vars
  BY <1>1, <1>2, Zenon DEF vars, callVars
<1>3. CASE Next
  <2>1. StateOK /\ StateOK' /\ CallInv /\ HandlerInv
    BY <1>3, StateOKStep, Zenon DEF ExchangeInv
  <2>2. CASE CallBegin
    BY <2>2, CallBeginMakes, Zenon DEF Contract!Next
  <2>3. CASE \E how : Ending(how)
    BY <1>3, <2>1, <2>3, EndingReturns, Zenon DEF Contract!Next
  <2>4. CASE \E g \in Conns : HandlerDispatch(g)
    BY <1>3, <2>1, <2>4, DispatchExecutes, Zenon DEF Contract!Next
  <2>5. CASE \E g \in Conns : Opening(g) \/ ConnectInstall(g) \/ HandlerStep(g)
    BY <1>1, <2>5, Zenon DEF Opening, ConnectInstall, HandlerStep, HandlerReceive,
       HandlerReadFails, HandlerDecode, HandlerSend, HandlerInterrupted, HandlerClose,
       HandlerQuiet, callVars
  <2>6. CASE Disconnect \/ ClientSend \/ Receiving
    BY <1>1, <2>6, Zenon DEF Disconnect, ClientSend, Receiving, ClientReceive, callVars
  <2> QED
    BY <1>3, <2>1, <2>2, <2>3, <2>4, <2>5, <2>6, StepCases, Zenon DEF Serving
<1> QED
  BY <1>2, <1>3, Zenon

\* Client and serve_connection together implement CallContract, for any number of
\* connections, calls and ids and any sizes of frames and buffers: a request is
\* executed at most once, and what a call reports of it stays true.
THEOREM CallsAreKept == Spec => CallsKeepTheirContract
<1>1. Init => Contract!Init
  <2> SUFFICES ASSUME Init PROVE Contract!Init
    BY Zenon
  <2>1. \A c \in Calls : c > calls
    BY DEF Init, Calls
  <2>2. Verdict = [c \in Calls |-> "unmade"]
    BY <2>1, Zenon DEF Verdict
  <2> QED
    BY <2>2, Zenon DEF Init, Contract!Init
<1>2. ExchangeInv /\ [Next]_vars => [Contract!Next]_<<Verdict, executed>>
  BY Zenon, StepKeepsContract
<1> QED
  BY <1>1, <1>2, ExchangeInvariance, PTL DEF Spec, CallsKeepTheirContract, Contract!Spec

=============================================================================
