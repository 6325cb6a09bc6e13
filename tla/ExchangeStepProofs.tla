-------------------------- MODULE ExchangeStepProofs -------------------------
(***************************************************************************)
(* The parts of the invariant of Exchange that say which messages are on   *)
(* their way and that a request is executed at most once: every step of    *)
(* the client and of the handlers, by what it does to the rows of bytes,   *)
(* keeps each of them.                                                     *)
(***************************************************************************)
EXTENDS ExchangeRowProofs

USE FrameAssumption, ExchangeAssumption, SMTT(20), ZenonT(20)

-----------------------------------------------------------------------------
(* The steps, by what they do to the rows                                    *)

Still == \A h \in Conns : UpKept(h) /\ DownKept(h)

Opening(g) ==
  /\ Opened(g)
  /\ UNCHANGED <<descriptor, next_request_id, cpc, request, sent, reader, up, down,
                 hreader, hrequest, hsent, calls, result, answeredFor, executed, threw>>

Receiving ==
  /\ ClientReceive
  /\ \A h \in Conns : UpKept(h) /\ (h # descriptor => DownKept(h))
  /\ descriptor \in Conns
  /\ Advanced(reader, reader', Downward[descriptor], Downward'[descriptor])

\* The ways in which a call ends after its first byte may have been sent.
Matched(how) ==
  /\ cpc = "read" /\ Complete(reader) /\ Intact(reader.got)
  /\ reader.got[1].of.id = request.id
  /\ how = IF reader.got[1].of.kind = "response" THEN "Answered" ELSE "Failed"
  /\ answeredFor' = [answeredFor EXCEPT ![request.call] = reader.got[1].of.call]
  /\ UNCHANGED <<descriptor, threw>>

Broken(how) ==
  /\ \/ how = "WriteFailed" /\ cpc = "write"
     \/ how \in {"Unknown", "ReadFailed", "Mismatch"} /\ cpc = "read"
     \/ /\ how = "Refused" /\ cpc = "read" /\ Complete(reader)
        /\ Intact(reader.got) /\ reader.got[1].of = Sentinel
  /\ descriptor' = 0 /\ UNCHANGED <<answeredFor, threw>>

Thrown(how) ==
  /\ how = "Threw" /\ UNCHANGED <<descriptor, answeredFor>>
  /\ \/ threw' = TRUE
     \/ cpc = "read" /\ Complete(reader) /\ UNCHANGED threw

Ending(how) ==
  /\ EndCall(how) /\ Ended /\ cpc # "idle" /\ UNCHANGED <<up, down, serverOpen, handlerVars>>
  /\ how \in Results
  /\ Matched(how) \/ Broken(how) \/ Thrown(how)

Serving(g) == (HandlerStep(g) \/ HandlerDispatch(g)) /\ Apart(g) /\ Served(g)

\* The ends of a call, whichever step brings it about.
LEMMA EndingCases ==
  ASSUME StateOK, StateOK', CallInv,
         ClientSendFails \/ ClientReadEnds \/ ClientReadFails \/ ClientDecode
  PROVE  \E how : Ending(how)
<1>1. ASSUME NEW how, EndCall(how), cpc # "idle", how \in Results,
             UNCHANGED <<up, down, serverOpen, handlerVars>>,
             Matched(how) \/ Broken(how) \/ Thrown(how)
      PROVE  Ending(how)
  <2>1. Ended
    BY <1>1, EndCallRows, Zenon
  <2> QED
    BY <1>1, <2>1, Zenon DEF Ending
<1>2. CASE ClientSendFails
  <2>1. cpc = "write" /\ cpc # "idle" /\ UNCHANGED <<up, down, serverOpen, handlerVars>>
    BY Zenon, <1>2 DEF ClientSendFails
  <2>2. CASE EndCall("WriteFailed") /\ Reset /\ UNCHANGED <<answeredFor, threw>>
    <3>1. Broken("WriteFailed")
      BY <2>1, <2>2, Zenon DEF Broken, Reset
    <3> QED
      BY <1>1, <2>1, <2>2, <3>1, Zenon DEF Results
  <2>3. CASE Throw
    <3>1. Thrown("Threw") /\ EndCall("Threw")
      BY <2>3, Zenon DEF Throw, Thrown
    <3> QED
      BY <1>1, <2>1, <3>1, Zenon DEF Results
  <2> QED
    BY <1>2, <2>2, <2>3, Zenon DEF ClientSendFails
<1>3. CASE ClientReadEnds \/ ClientReadFails
  <2>1. cpc = "read" /\ cpc # "idle" /\ UNCHANGED <<up, down, serverOpen, handlerVars>>
    BY Zenon, <1>3 DEF ClientReadEnds, ClientReadFails
  <2>2. \/ Throw
        \/ \E how \in {"Unknown", "ReadFailed"} :
             EndCall(how) /\ Reset /\ UNCHANGED <<answeredFor, threw>>
    BY <1>3, Zenon DEF ClientReadEnds, ClientReadFails
  <2>3. ASSUME NEW how \in {"Unknown", "ReadFailed"}, EndCall(how) /\ Reset,
               UNCHANGED <<answeredFor, threw>>
        PROVE  \E how1 : Ending(how1)
    <3>1. Broken(how) /\ how \in Results
      BY <2>1, <2>3, Zenon DEF Broken, Reset, Results
    <3> QED
      BY <1>1, <2>1, <2>3, <3>1, Zenon
  <2>4. CASE Throw
    <3>1. Thrown("Threw") /\ EndCall("Threw")
      BY <2>4, Zenon DEF Throw, Thrown
    <3> QED
      BY <1>1, <2>1, <3>1, Zenon DEF Results
  <2> QED
    BY <2>2, <2>3, <2>4, Zenon
<1>4. CASE ClientDecode
  <2> DEFINE message == reader.got[1].of
             matches == Intact(reader.got) /\ message.id = request.id
             kindOf == IF message.kind = "response" THEN "Answered" ELSE "Failed"
             otherwise == IF Intact(reader.got) /\ message = Sentinel
                          THEN "Refused" ELSE "Mismatch"
  <2>1. /\ cpc = "read" /\ cpc # "idle" /\ Complete(reader)
        /\ UNCHANGED <<up, down, serverOpen, handlerVars>> /\ UNCHANGED threw
    BY Zenon, <1>4 DEF ClientDecode
  <2>2. CASE /\ matches /\ EndCall(kindOf)
             /\ answeredFor' = [answeredFor EXCEPT ![request.call] = message.call]
             /\ UNCHANGED <<descriptor, clientOpen>>
    <3>1. Matched(kindOf) /\ kindOf \in Results
      BY <2>1, <2>2, Zenon DEF Matched, Results
    <3> QED
      BY <1>1, <2>1, <2>2, <3>1, Zenon
  <2>3. CASE ~matches /\ EndCall(otherwise) /\ Reset /\ UNCHANGED answeredFor
    <3>1. Broken(otherwise) /\ otherwise \in Results
      BY <2>1, <2>3, Zenon DEF Broken, Results, Reset
    <3> QED
      BY <1>1, <2>1, <2>3, <3>1, Zenon
  <2>4. CASE EndCall("Threw") /\ UNCHANGED <<descriptor, clientOpen, answeredFor>>
    <3>1. Thrown("Threw")
      BY <2>1, <2>4, Zenon DEF Thrown
    <3> QED
      BY <1>1, <2>1, <2>4, <3>1, Zenon DEF Results
  <2> QED
    BY <1>4, <2>2, <2>3, <2>4, Zenon DEF ClientDecode
<1> QED
  BY <1>2, <1>3, <1>4, Zenon

\* Every step is one of these.
LEMMA StepCases ==
  ASSUME StateOK, StateOK', CallInv, HandlerInv, Next
  PROVE  \/ \E g \in Conns : Opening(g)
         \/ \E g \in Conns : ConnectInstall(g) /\ Still
         \/ Disconnect /\ Still
         \/ CallBegin /\ Called
         \/ ClientSend /\ Still
         \/ Receiving
         \/ \E how : Ending(how)
         \/ \E g \in Conns : Serving(g)
<1>1. CASE ConnectOpen
  <2>1. PICK g \in Conns : Opened(g)
    BY <1>1, ConnectOpenRows, Zenon
  <2>2. Opening(g)
    BY <1>1, <2>1, Zenon DEF ConnectOpen, Opening, callVars
  <2> QED
    BY <2>2, Zenon
<1>2. ASSUME NEW g \in Conns, ConnectInstall(g)
      PROVE  Still
  BY <1>2, InstalledRows, Zenon DEF ConnectInstall, Still
<1>3. CASE Disconnect
  <2>1. Still
    BY <1>3, InstalledRows, Zenon DEF Disconnect, Still
  <2> QED
    BY <1>3, <2>1, Zenon
<1>4. CASE CallBegin
  BY <1>4, CallBeginRows, Zenon
<1>5. CASE ClientSend
  BY <1>5, ClientSendRows, Zenon DEF Still
<1>6. CASE ClientReceive
  BY <1>6, ClientReceiveRows, Zenon DEF Receiving
<1>7. CASE ClientSendFails \/ ClientReadEnds \/ ClientReadFails \/ ClientDecode
  BY <1>7, EndingCases, Zenon
<1>8. ASSUME NEW g \in Conns, HandlerStep(g) \/ HandlerDispatch(g)
      PROVE  Serving(g)
  BY <1>8, ServedRows, Zenon DEF Serving
<1> QED
  BY <1>1, <1>2, <1>3, <1>4, <1>5, <1>6, <1>7, <1>8, Zenon DEF Next, CallStep

-----------------------------------------------------------------------------
(* The calls and the handlers                                                *)

\* next_request_id++ counts on, or runs out.
LEMMA NextIdIs ==
  ASSUME StateOK
  PROVE  /\ next_request_id \in 0..IdSpan - 1 /\ IdSpan \in Nat /\ IdSpan > 1
         /\ NextRequestId = IF next_request_id + 1 = IdSpan THEN 0 ELSE next_request_id + 1
BY DEF StateOK, ClientOK, Ids, NextRequestId

\* The requests a handler dispatches were made, or have no call.
LEMMA DispatchedIsAsked ==
  ASSUME StateOK, HandlerInv, MessageInv, NEW g \in Conns, hpc[g] = "dispatch"
  PROVE  hrequest[g].call \in 0..calls
<1>1. 1 \in 1..Len(Upward[g])
  BY Zenon, Dispatching
<1>2. Upward[g][1].of.call \in 1..calls /\ Upward[g][1].of \in Messages
  BY <1>1, ReaderRows, BytesOf, Zenon DEF MessageInv, Asked
<1>3. CASE Whole(g)
  <2>1. hrequest[g] = Upward[g][1].of
    BY <1>3, Zenon DEF Whole
  <2> QED
    BY <1>2, <2>1 DEF StateOK, HistoryOK
<1>4. CASE Garbled(g)
  <2>1. hrequest[g] = [Upward[g][1].of EXCEPT !.call = 0]
    BY <1>4, Zenon DEF Garbled
  <2>2. hrequest[g].call = 0
    BY Zenon, <1>2, <2>1 DEF Messages
  <2> QED
    BY <2>2 DEF StateOK, HistoryOK
<1> QED
  BY <1>3, <1>4, Dispatching, Zenon

\* One call at a time, each with a result when it is over, whatever step is
\* taken.
LEMMA CallInvStep ==
  ASSUME ExchangeInv, StateOK', Next
  PROVE  CallInv'
<1>1. StateOK /\ CallInv /\ HandlerInv /\ MessageInv
  BY Zenon DEF ExchangeInv
<1>2. /\ calls \in 0..MaxCalls /\ result \in [Calls -> Results] /\ executed \in [Calls -> Nat]
      /\ request \in Messages /\ sent \in 0..FrameBytes
      /\ calls' \in 0..MaxCalls /\ sent' \in 0..FrameBytes /\ FrameBytes \in Nat
      /\ cpc \in {"idle", "write", "read"}
  BY Zenon, <1>1, Sizes DEF StateOK, ClientOK, HistoryOK
<1>3. ASSUME UNCHANGED <<cpc, request, sent, reader, calls, result, executed>>,
             next_request_id' = next_request_id \/ cpc = "idle"
      PROVE  CallInv'
  BY <1>1, <1>3, Zenon DEF CallInv
<1>4. CASE \E g \in Conns : Opening(g)
  BY <1>3, <1>4, Zenon DEF Opening
<1>5. CASE \E g \in Conns : ConnectInstall(g)
  BY <1>3, <1>5, Zenon DEF ConnectInstall, callVars
<1>6. CASE Disconnect
  BY <1>3, <1>6, Zenon DEF Disconnect, callVars
<1>7. CASE CallBegin
  <2>1. /\ cpc = "idle" /\ calls' = calls + 1 /\ calls' \in Calls
        /\ request = NoMessage /\ sent = 0 /\ reader = NewReader
        /\ sent' = 0 /\ reader' = NewReader /\ executed' = executed
    BY <1>1, <1>2, <1>7 DEF CallBegin, CallInv, Calls
  <2>2. \A c \in Calls : c > calls' => c > calls /\ c # calls'
    BY <1>2, <2>1 DEF Calls
  <2>3. \A c \in Calls : c <= calls' => c <= calls \/ c = calls'
    BY <1>2, <2>1 DEF Calls
  <2>4. calls' > calls /\ calls' > 0 /\ FrameBytes > 0
    BY <1>2, <2>1, Sizes
  <2>5. CASE /\ cpc' = "idle" /\ request' = request
             /\ \E how \in Results \ {"none"} : result' = [result EXCEPT ![calls'] = how]
    <3>1. PICK how \in Results \ {"none"} : result' = [result EXCEPT ![calls'] = how]
      BY Zenon, <2>5
    <3>2. \A c \in Calls : result'[c] = IF c = calls' THEN how ELSE result[c]
      BY Zenon, <1>2, <2>1, <3>1
    <3>3. \A c \in Calls : c > calls' => result'[c] = "none" /\ executed'[c] = 0
      BY <1>1, <2>1, <2>2, <3>2, Zenon DEF CallInv
    <3>4. \A c \in Calls : c <= calls' => result'[c] # "none"
      BY <1>1, <2>1, <2>3, <3>2, Zenon DEF CallInv
    <3> QED
      BY <2>1, <2>5, <3>3, <3>4, Zenon DEF CallInv
  <2>6. CASE /\ cpc' = "write" /\ next_request_id # 0 /\ next_request_id' = NextRequestId
             /\ request' = Message("request", calls', next_request_id) /\ result' = result
    <3>1. /\ request'.kind = "request" /\ request'.call = calls'
          /\ request'.id = next_request_id
      BY Zenon, <2>6 DEF Message
    <3>2. next_request_id' # 0 => next_request_id < next_request_id'
      BY <1>1, <2>6, NextIdIs
    <3>3. \A c \in Calls : c > calls' => result'[c] = "none" /\ executed'[c] = 0
      BY <1>1, <2>1, <2>2, <2>6, Zenon DEF CallInv
    <3>4. \A c \in Calls : c <= calls' /\ result'[c] = "none" => c = calls'
      BY <1>1, <2>1, <2>3, <2>6, Zenon DEF CallInv
    <3>5. result'[calls'] = "none"
      BY <1>1, <2>1, <2>4, <2>6, Zenon DEF CallInv
    <3>6. sent' < FrameBytes
      BY Zenon, <2>1, <2>4
    <3> QED
      BY <2>1, <2>4, <2>6, <3>1, <3>2, <3>3, <3>4, <3>5, <3>6, Zenon DEF CallInv
  <2> QED
    BY <1>7, <2>1, <2>5, <2>6, Zenon DEF CallBegin, Results
<1>8. CASE ClientSend
  <2>1. /\ UNCHANGED <<request, reader, calls, result, executed, next_request_id>>
        /\ cpc = "write" /\ cpc' = IF sent' = FrameBytes THEN "read" ELSE "write"
    BY <1>8, Zenon DEF ClientSend, callVars
  <2>2. cpc' # "idle" /\ cpc # "idle" /\ (cpc' = "write" => sent' < FrameBytes)
        /\ cpc # "read"
    BY <1>2, <2>1
  <2> QED
    BY <1>1, <2>1, <2>2, Zenon DEF CallInv
<1>9. CASE Receiving
  <2>1. /\ UNCHANGED <<request, sent, cpc, calls, result, executed, next_request_id>>
        /\ cpc = "read" /\ cpc # "idle" /\ cpc # "write"
    BY Zenon, <1>9 DEF Receiving, ClientReceive, callVars
  <2> QED
    BY <1>1, <2>1, Zenon DEF CallInv
<1>10. ASSUME NEW how, Ending(how)
       PROVE  CallInv'
  <2>1. how # "none" /\ how \in Results
    BY Zenon, <1>10 DEF Ending, Matched, Broken, Thrown
  <2>2. /\ cpc' = "idle" /\ request' = NoMessage /\ sent' = 0 /\ reader' = NewReader
        /\ result' = [result EXCEPT ![request.call] = how]
        /\ UNCHANGED <<calls, executed>> /\ cpc # "idle"
    BY <1>10, Zenon DEF Ending, EndCall
  <2>3. request.call = calls /\ calls \in Calls
    BY <1>1, <1>2, <2>2 DEF CallInv, Calls
  <2>4. \A c \in Calls : result'[c] = IF c = calls THEN how ELSE result[c]
    BY Zenon, <1>2, <2>2, <2>3
  <2>5. \A c \in Calls : c > calls => c # calls
    BY <1>2 DEF Calls
  <2>6. cpc' # "write" /\ ~(cpc' # "idle")
    BY Zenon, <2>2
  <2>7. \A c \in Calls : c > calls' => result'[c] = "none" /\ executed'[c] = 0
    BY <1>1, <2>2, <2>4, <2>5, Zenon DEF CallInv
  <2>8. \A c \in Calls : c <= calls' => result'[c] # "none"
    <3> TAKE c \in Calls
    <3>1. c <= calls /\ result[c] = "none" => c = calls
      BY <1>1, Zenon DEF CallInv
    <3> QED
      BY Zenon, <2>1, <2>2, <2>4, <3>1
  <2> QED
    BY <2>2, <2>6, <2>7, <2>8, Zenon DEF CallInv
<1>11. ASSUME NEW g \in Conns, HandlerStep(g)
       PROVE  CallInv'
  BY <1>3, <1>11, Zenon DEF HandlerStep, HandlerReceive, HandlerReadFails, HandlerDecode,
     HandlerSend, HandlerInterrupted, HandlerClose, HandlerQuiet, clientVars, callVars
<1>12. ASSUME NEW g \in Conns, HandlerDispatch(g)
       PROVE  CallInv'
  <2>1. /\ UNCHANGED <<cpc, request, sent, reader, calls, result, next_request_id>>
        /\ hpc[g] = "dispatch"
        /\ executed' = [c \in Calls |-> IF c = hrequest[g].call
                                        THEN executed[c] + 1 ELSE executed[c]]
    BY <1>12, Zenon DEF HandlerDispatch, clientVars
  <2>2. hrequest[g].call \in 0..calls
    BY <1>1, <2>1, DispatchedIsAsked, Zenon
  <2>3. \A c \in Calls : c > calls => executed'[c] = executed[c]
    BY <1>2, <2>1, <2>2 DEF Calls
  <2> QED
    BY <1>1, <2>1, <2>3, Zenon DEF CallInv
<1> QED
  BY <1>1, <1>4, <1>5, <1>6, <1>7, <1>8, <1>9, <1>10, <1>11, <1>12, StepCases,
     Zenon DEF Serving

\* Where a handler is tells what it holds.
HandlerAt(g) ==
  /\ hpc[g] = "unused" => /\ up[g] = <<>> /\ down[g] = <<>>
                          /\ g \notin fresh /\ g # descriptor
  /\ hpc[g] \in {"unused", "write", "gone"} => hreader[g] = NewReader
  /\ hpc[g] \in {"unused", "read", "dispatch"} => answer[g] = NoMessage /\ hsent[g] = 0
  /\ hpc[g] = "write" =>
       answer[g].kind \in {"response", "failure"} /\ hsent[g] < FrameBytes
  /\ hpc[g] = "dispatch" => Decoded(g)

\* A handler and its connection as they were.
Unmoved(h) ==
  /\ hpc'[h] = hpc[h] /\ hreader'[h] = hreader[h] /\ hrequest'[h] = hrequest[h]
  /\ answer'[h] = answer[h] /\ hsent'[h] = hsent[h]
  /\ up'[h] = up[h] /\ down'[h] = down[h]

\* A step elsewhere leaves what is known of a handler as it was.
LEMMA HandlerUnmoved ==
  ASSUME HandlerInv, NEW h \in Conns, Unmoved(h), h \in fresh' => h \in fresh,
         h = descriptor' => h = descriptor \/ hpc[h] # "unused"
  PROVE  HandlerAt(h)'
<1>1. HandlerAt(h)
  BY Zenon DEF HandlerInv, HandlerAt
<1>2. Decoded(h) => Decoded(h)'
  BY Zenon DEF Decoded, Unmoved
<1> QED
  BY <1>1, <1>2, Zenon DEF HandlerAt, Unmoved

\* A handler in use whose step leads where it may hold what it holds.
LEMMA HandlerInvStep ==
  ASSUME ExchangeInv, StateOK', Next
  PROVE  HandlerInv'
<1>1. StateOK /\ CallInv /\ HandlerInv
  BY Zenon DEF ExchangeInv
<1>2. /\ hpc \in [Conns -> {"unused", "read", "dispatch", "write", "close", "gone"}]
      /\ hreader \in [Conns -> Readers]
      /\ hrequest \in [Conns -> Messages] /\ answer \in [Conns -> Messages]
      /\ hsent \in [Conns -> 0..FrameBytes]
      /\ up \in [Conns -> Seq(Bytes)] /\ down \in [Conns -> Seq(Bytes)]
  BY <1>1, Zenon DEF StateOK, HandlerOK, StreamOK
<1>3. \A h \in Conns : HandlerAt(h)
  BY <1>1, Zenon DEF HandlerInv, HandlerAt
<1>4. SUFFICES \A h \in Conns : HandlerAt(h)'
  BY <1>4, Zenon DEF HandlerInv, HandlerAt
<1>5. ASSUME NEW g \in Conns, Opening(g)
      PROVE  \A h \in Conns : HandlerAt(h)'
  <2> TAKE h \in Conns
  <2>1. CASE h # g
    <3>1. Unmoved(h)
      <4>1. hpc'[h] = hpc[h] /\ answer'[h] = answer[h]
        BY <1>2, <1>5, <2>1, Zenon DEF Opening, Opened
      <4> QED
        BY <1>5, <4>1, Zenon DEF Opening, Unmoved
    <3>2. (h \in fresh' => h \in fresh) /\ descriptor' = descriptor
      BY <1>5, <2>1, Zenon DEF Opening, Opened
    <3> QED
      BY <1>1, <3>1, <3>2, HandlerUnmoved, Zenon
  <2>2. CASE h = g
    <3>1. /\ hpc[g] = "unused" /\ HandlerAt(g)
          /\ hreader'[g] = hreader[g] /\ hsent'[g] = hsent[g]
      BY <1>3, <1>5, Zenon DEF Opening, Opened
    <3>2. hreader'[g] = NewReader /\ hsent'[g] = 0 /\ answer[g] = NoMessage
      BY <3>1, Zenon DEF HandlerAt
    <3>3. \/ hpc'[g] = "read" /\ answer'[g] = NoMessage
          \/ hpc'[g] = "write" /\ answer'[g] = Sentinel
      BY <1>2, <1>5, <3>2, Zenon DEF Opening, Opened
    <3>4. Sentinel.kind = "failure" /\ 0 < FrameBytes
      BY Sizes DEF Sentinel, Message
    <3> QED
      BY Zenon, <2>2, <3>2, <3>3, <3>4 DEF HandlerAt
  <2> QED
    BY <2>1, <2>2, Zenon
<1>6. ASSUME UNCHANGED <<up, down, handlerVars>>, fresh' \subseteq fresh,
             descriptor' \in fresh \cup {0, descriptor}
      PROVE  \A h \in Conns : HandlerAt(h)'
  <2> TAKE h \in Conns
  <2>1. Unmoved(h)
    BY <1>6, Zenon DEF Unmoved, handlerVars
  <2>2. h # 0
    BY DEF Conns
  <2>3. h \in fresh => hpc[h] # "unused"
    BY <1>3, Zenon DEF HandlerAt
  <2> QED
    BY <1>1, <1>6, <2>1, <2>2, <2>3, HandlerUnmoved, Zenon
<1>7. CASE \E g \in Conns : ConnectInstall(g)
  BY <1>6, <1>7, Zenon DEF ConnectInstall
<1>8. CASE Disconnect
  BY <1>6, <1>8, Zenon DEF Disconnect
<1>9. CASE CallBegin
  <2>1. UNCHANGED <<up, down, handlerVars, fresh>> /\ descriptor' \in {0, descriptor}
    BY <1>9, Zenon DEF CallBegin
  <2> QED
    BY <1>6, <2>1, Zenon
<1>10. ASSUME NEW how, Ending(how)
       PROVE  \A h \in Conns : HandlerAt(h)'
  <2>1. UNCHANGED <<up, down, handlerVars, fresh>> /\ descriptor' \in {0, descriptor}
    BY <1>10, Zenon DEF Ending, EndCall, Matched, Broken, Thrown
  <2> QED
    BY <1>6, <2>1, Zenon
\* The client's own connection is in use.
<1>11. ASSUME cpc # "idle", UNCHANGED <<handlerVars, fresh, descriptor>>,
              \A h \in Conns : h # descriptor => up'[h] = up[h] /\ down'[h] = down[h]
       PROVE  \A h \in Conns : HandlerAt(h)'
  <2> TAKE h \in Conns
  <2>1. CASE h # descriptor
    <3>1. Unmoved(h)
      BY <1>11, <2>1, Zenon DEF Unmoved, handlerVars
    <3> QED
      BY <1>1, <1>11, <3>1, HandlerUnmoved, Zenon
  <2>2. CASE h = descriptor
    <3>1. hpc[h] # "unused" /\ HandlerAt(h)
      BY <1>3, <2>2, Zenon DEF HandlerAt
    <3>2. Decoded(h) => Decoded(h)'
      BY <1>11, Zenon DEF Decoded, handlerVars
    <3> QED
      BY <1>11, <3>1, <3>2, Zenon DEF HandlerAt, handlerVars
  <2> QED
    BY <2>1, <2>2, Zenon
<1>12. CASE ClientSend
  <2>1. cpc # "idle" /\ UNCHANGED <<handlerVars, fresh, descriptor>> /\ down' = down
    BY Zenon, <1>12 DEF ClientSend
  <2>2. \A h \in Conns : h # descriptor => up'[h] = up[h]
    BY <1>2, <1>12, Zenon DEF ClientSend
  <2> QED
    BY <1>11, <2>1, <2>2, Zenon
<1>13. CASE Receiving
  <2>1. cpc # "idle" /\ UNCHANGED <<handlerVars, fresh, descriptor>> /\ up' = up
    BY Zenon, <1>13 DEF Receiving, ClientReceive
  <2>2. \A h \in Conns : h # descriptor => down'[h] = down[h]
    BY <1>2, <1>13, Zenon DEF Receiving, ClientReceive
  <2> QED
    BY <1>11, <2>1, <2>2, Zenon
<1>14. ASSUME NEW g \in Conns, Serving(g)
       PROVE  \A h \in Conns : HandlerAt(h)'
  <2>1. UNCHANGED <<fresh, descriptor>> /\ \A h \in Conns : h # g => Unmoved(h)
    BY <1>14, Zenon DEF Serving, Apart, Unmoved, clientVars
  <2>2. \A h \in Conns : h # g => HandlerAt(h)'
    BY <1>1, <2>1, HandlerUnmoved, Zenon
  <2>3. SUFFICES HandlerAt(g)'
    BY <2>2, <2>3, Zenon
  <2>4. HandlerAt(g)
    BY Zenon, <1>3
  <2>5. NewReader = NewReader /\ FrameBytes > 0 /\ FrameBytes \in Nat
    BY Sizes
  <2>6. ASSUME NEW m, Fail(g, m), m.kind = "failure", hpc[g] \in {"read", "dispatch"}
        PROVE  HandlerAt(g)'
    <3>1. /\ hreader'[g] = NewReader /\ hsent'[g] = hsent[g]
          /\ \/ hpc'[g] = "write" /\ answer'[g] = m
             \/ hpc'[g] = "close"
      BY <1>2, <2>6, Zenon DEF Fail
    <3>2. hsent[g] = 0
      BY <2>4, <2>6, Zenon DEF HandlerAt
    <3> QED
      BY Zenon, <2>5, <2>6, <3>1, <3>2 DEF HandlerAt
  <2>7. Failure(hreader[g]).kind = "failure"
    BY Zenon, <1>1, FailureIs
  <2>8. CASE HandlerReceive(g)
    <3>1. hpc[g] = "read" /\ UNCHANGED <<hpc, answer, hsent>>
      BY <2>8, Zenon DEF HandlerReceive
    <3>2. answer[g] = NoMessage /\ hsent[g] = 0
      BY <2>4, <3>1, Zenon DEF HandlerAt
    <3> QED
      BY Zenon, <3>1, <3>2 DEF HandlerAt
  <2>9. CASE HandlerReadFails(g)
    <3>1. CASE Fail(g, Failure(hreader[g]))
      <4>1. hpc[g] \in {"read", "dispatch"}
        BY <2>9, Zenon DEF HandlerReadFails
      <4> QED
        BY <2>6, <2>7, <3>1, <4>1, Zenon
    <3>2. CASE ~Fail(g, Failure(hreader[g]))
      <4>1. hpc' = [hpc EXCEPT ![g] = "close"]
        BY <2>9, <3>2, Zenon DEF HandlerReadFails
      <4>2. hpc'[g] = "close"
        BY <1>2, <4>1, Zenon
      <4> QED
        BY Zenon, <4>2 DEF HandlerAt
    <3> QED
      BY <3>1, <3>2, Zenon
  <2>10. CASE HandlerDecode(g)
    <3>1. hpc[g] = "read" /\ Complete(hreader[g])
      BY <2>10, Zenon DEF HandlerDecode
    <3>2. CASE Fail(g, Failure(hreader[g]))
      BY Zenon, <2>6, <2>7, <3>1, <3>2
    <3>3. CASE ~Fail(g, Failure(hreader[g]))
      <4>1. /\ Intact(hreader[g].got) \/ Correlated(hreader[g])
            /\ hpc' = [hpc EXCEPT ![g] = "dispatch"]
            /\ hrequest' = [hrequest EXCEPT ![g] =
                 IF Intact(hreader[g].got) THEN hreader[g].got[1].of
                 ELSE [hreader[g].got[1].of EXCEPT !.call = 0]]
            /\ UNCHANGED <<hreader, answer, hsent>>
        BY <2>10, <3>3, Zenon DEF HandlerDecode
      <4>2. /\ hpc'[g] = "dispatch"
            /\ hrequest'[g] = IF Intact(hreader[g].got) THEN hreader[g].got[1].of
                              ELSE [hreader[g].got[1].of EXCEPT !.call = 0]
        BY <1>2, <4>1, Zenon
      <4>3. Decoded(g)'
        BY <3>1, <4>1, <4>2, Zenon DEF Decoded
      <4>4. answer[g] = NoMessage /\ hsent[g] = 0
        BY <2>4, <3>1, Zenon DEF HandlerAt
      <4> QED
        BY Zenon, <4>1, <4>2, <4>3, <4>4 DEF HandlerAt
    <3> QED
      BY <3>2, <3>3, Zenon
  <2>11. CASE HandlerSend(g)
    <3>1. hpc[g] = "write" /\ hreader'[g] = hreader[g] /\ hreader[g] = NewReader
      BY <2>4, <2>11, Zenon DEF HandlerSend, HandlerAt
    <3>2. \/ /\ UNCHANGED <<hpc, answer>>
             /\ \E n \in 1..FrameBytes - hsent[g] :
                  hsent[g] + n < FrameBytes /\ hsent' = [hsent EXCEPT ![g] = @ + n]
          \/ \E next \in {"read", "close"} :
               /\ hpc' = [hpc EXCEPT ![g] = next]
               /\ hsent' = [hsent EXCEPT ![g] = 0]
               /\ answer' = [answer EXCEPT ![g] = NoMessage]
      BY <2>11, Zenon DEF HandlerSend
    <3>3. CASE /\ UNCHANGED <<hpc, answer>>
               /\ \E n \in 1..FrameBytes - hsent[g] :
                    hsent[g] + n < FrameBytes /\ hsent' = [hsent EXCEPT ![g] = @ + n]
      <4>1. hsent'[g] < FrameBytes
        BY Zenon, <1>2, <3>3
      <4>2. answer[g].kind \in {"response", "failure"}
        BY <2>4, <3>1, Zenon DEF HandlerAt
      <4> QED
        BY Zenon, <3>1, <3>3, <4>1, <4>2 DEF HandlerAt
    <3>4. CASE \E next \in {"read", "close"} :
                 /\ hpc' = [hpc EXCEPT ![g] = next]
                 /\ hsent' = [hsent EXCEPT ![g] = 0]
                 /\ answer' = [answer EXCEPT ![g] = NoMessage]
      <4>1. hpc'[g] \in {"read", "close"} /\ hsent'[g] = 0 /\ answer'[g] = NoMessage
        BY <1>2, <3>4, Zenon
      <4> QED
        BY Zenon, <4>1 DEF HandlerAt
    <3> QED
      BY <3>2, <3>3, <3>4, Zenon
  <2>12. CASE HandlerInterrupted(g)
    <3>1. hpc'[g] = "close"
      BY <1>2, <2>12, Zenon DEF HandlerInterrupted
    <3> QED
      BY Zenon, <3>1 DEF HandlerAt
  <2>13. CASE HandlerClose(g)
    <3>1. hpc'[g] = "gone" /\ hreader'[g] = NewReader
      BY <1>2, <2>13, Zenon DEF HandlerClose
    <3> QED
      BY Zenon, <3>1 DEF HandlerAt
  <2>14. CASE HandlerDispatch(g)
    <3>1. hpc[g] = "dispatch"
      BY <2>14, Zenon DEF HandlerDispatch
    <3>2. CASE Fail(g, Failure(hreader[g]))
      BY Zenon, <2>6, <2>7, <3>1, <3>2
    <3>3. CASE ~Fail(g, Failure(hreader[g]))
      <4>1. /\ hpc' = [hpc EXCEPT ![g] = "write"] /\ hsent' = hsent
            /\ answer' = [answer EXCEPT ![g] = [hrequest[g] EXCEPT !.kind = "response"]]
            /\ hreader' = [hreader EXCEPT ![g] = NewReader]
        BY <2>14, <3>3, Zenon DEF HandlerDispatch
      <4>2. /\ hpc'[g] = "write" /\ hreader'[g] = NewReader /\ hsent'[g] = hsent[g]
            /\ answer'[g] = [hrequest[g] EXCEPT !.kind = "response"]
        BY <1>2, <4>1, Zenon
      <4>3. hsent[g] = 0 /\ hrequest[g] \in Messages
        BY <1>2, <2>4, <3>1, Zenon DEF HandlerAt
      <4>4. answer'[g].kind = "response"
        BY Zenon, <4>2, <4>3 DEF Messages
      <4> QED
        BY Zenon, <2>5, <4>2, <4>3, <4>4 DEF HandlerAt
    <3> QED
      BY <3>2, <3>3, Zenon
  <2> QED
    BY <1>14, <2>8, <2>9, <2>10, <2>11, <2>12, <2>13, <2>14, Zenon
       DEF Serving, HandlerStep
<1> QED
  BY <1>1, <1>5, <1>7, <1>8, <1>9, <1>10, <1>12, <1>13, <1>14, StepCases, Zenon

-----------------------------------------------------------------------------
(* Connections that fail, and connections not yet in use                     *)

\* The rows before and after a step.
LEMMA BothRows ==
  ASSUME StateOK, StateOK', NEW g \in Conns
  PROVE  /\ Upward[g] \in Seq(Bytes) /\ Upward'[g] \in Seq(Bytes)
         /\ Downward[g] \in Seq(Bytes) /\ Downward'[g] \in Seq(Bytes)
         /\ Len(Upward[g]) \in Nat /\ Len(Upward'[g]) \in Nat
         /\ Len(Downward[g]) \in Nat /\ Len(Downward'[g]) \in Nat
         /\ \A i \in 1..Len(Upward[g]) :
              Upward[g][i].of \in Messages /\ Upward[g][i].at \in 1..FrameBytes
         /\ \A i \in 1..Len(Downward[g]) :
              Downward[g][i].of \in Messages /\ Downward[g][i].at \in 1..FrameBytes
<1>1. /\ Upward[g] \in Seq(Bytes) /\ Upward'[g] \in Seq(Bytes)
      /\ Downward[g] \in Seq(Bytes) /\ Downward'[g] \in Seq(Bytes)
  BY Zenon, RowsTypedStep DEF RowsOK
<1> QED
  BY <1>1, BytesOf, Zenon

\* A handler that has failed or closes does not take it back.
LEMMA FailingStays ==
  ASSUME ExchangeInv, StateOK', Next
  PROVE  Failing \subseteq Failing' /\ Closing \subseteq Closing'
<1>1. StateOK /\ CallInv /\ HandlerInv
  BY Zenon DEF ExchangeInv
<1>2. /\ hpc \in [Conns -> {"unused", "read", "dispatch", "write", "close", "gone"}]
      /\ answer \in [Conns -> Messages]
  BY <1>1, Zenon DEF StateOK, HandlerOK
<1>3. ASSUME NEW g \in Conns, hpc'[g] = hpc[g], answer'[g] = answer[g]
      PROVE  (g \in Failing => g \in Failing') /\ (g \in Closing => g \in Closing')
  BY <1>3, Zenon DEF Failing, Closing
<1>4. ASSUME NEW g \in Conns, hpc'[g] \in {"close", "gone"} \/ hpc[g] \in {"unused", "read", "dispatch"}
      PROVE  (g \in Failing => g \in Failing') /\ (g \in Closing => g \in Closing')
  <2>1. CASE hpc'[g] \in {"close", "gone"}
    BY <2>1, Zenon DEF Failing, Closing
  <2>2. CASE hpc[g] \in {"unused", "read", "dispatch"}
    BY Zenon, <2>2 DEF Failing, Closing
  <2> QED
    BY <1>4, <2>1, <2>2, Zenon
<1>5. SUFFICES \A g \in Conns : (g \in Failing => g \in Failing') /\ (g \in Closing => g \in Closing')
  BY <1>5, Zenon DEF Failing, Closing
<1>6. CASE UNCHANGED handlerVars
  BY <1>3, <1>6, Zenon DEF handlerVars
<1>7. ASSUME NEW g \in Conns, Opening(g)
      PROVE  \A h \in Conns : (h \in Failing => h \in Failing') /\ (h \in Closing => h \in Closing')
  <2> TAKE h \in Conns
  <2>1. CASE h = g
    BY <1>4, <1>7, <2>1, Zenon DEF Opening, Opened
  <2>2. CASE h # g
    BY <1>2, <1>3, <1>7, <2>2, Zenon DEF Opening, Opened
  <2> QED
    BY <2>1, <2>2, Zenon
<1>8. ASSUME NEW g \in Conns, Serving(g)
      PROVE  \A h \in Conns : (h \in Failing => h \in Failing') /\ (h \in Closing => h \in Closing')
  <2> TAKE h \in Conns
  <2>1. CASE h # g
    BY <1>3, <1>8, <2>1, Zenon DEF Serving, Apart
  <2>2. CASE hpc[g] \in {"unused", "read", "dispatch"}
    BY <1>4, <2>1, <2>2, Zenon
  <2>3. CASE HandlerInterrupted(g) \/ HandlerClose(g)
    <3>1. hpc'[g] \in {"close", "gone"}
      BY <1>2, <2>3, Zenon DEF HandlerInterrupted, HandlerClose
    <3> QED
      BY <1>4, <2>1, <3>1, Zenon
  <2>4. CASE HandlerSend(g)
    <3>1. \/ UNCHANGED <<hpc, answer>>
          \/ answer[g].kind = "response" /\ hpc[g] = "write"
          \/ hpc' = [hpc EXCEPT ![g] = "close"]
      BY <2>4, Zenon DEF HandlerSend
    <3>2. CASE UNCHANGED <<hpc, answer>>
      BY <1>3, <3>2, Zenon
    <3>3. CASE answer[g].kind = "response" /\ hpc[g] = "write"
      <4>1. g \notin Failing
        BY Zenon, <3>3 DEF Failing, Closing
      <4>2. g \notin Closing
        BY <4>1, Zenon DEF Failing
      <4> QED
        BY <2>1, <4>1, <4>2, Zenon
    <3>4. CASE hpc' = [hpc EXCEPT ![g] = "close"]
      <4>1. hpc'[g] = "close"
        BY <1>2, <3>4, Zenon
      <4> QED
        BY <1>4, <2>1, <4>1, Zenon
    <3> QED
      BY <3>1, <3>2, <3>3, <3>4, Zenon
  <2> QED
    BY <1>8, <2>2, <2>3, <2>4, Zenon DEF Serving, HandlerStep, HandlerReceive,
       HandlerReadFails, HandlerDecode, HandlerDispatch
<1>9. CASE ClientSend \/ Receiving \/ Disconnect \/ CallBegin \/ (\E g \in Conns : ConnectInstall(g))
  BY <1>6, <1>9, Zenon
     DEF ClientSend, Receiving, ClientReceive, Disconnect, CallBegin, ConnectInstall
<1>10. CASE \E how : Ending(how)
  BY <1>6, <1>10, Zenon DEF Ending
<1> QED
  BY <1>1, <1>7, <1>8, <1>9, <1>10, StepCases, Zenon

\* The connections of the client that are not its own are not touched.
LEMMA OthersKept ==
  ASSUME (CallBegin /\ Called) \/ (ClientSend /\ Still) \/ Receiving \/ (\E how : Ending(how))
  PROVE  /\ \A h \in Conns : h # descriptor => UpKept(h) /\ DownKept(h)
         /\ descriptor' \in {0, descriptor} /\ UNCHANGED <<fresh, handlerVars, executed>>
<1>1. CASE CallBegin /\ Called
  BY <1>1, Zenon DEF CallBegin, Called
<1>2. CASE ClientSend /\ Still
  BY <1>2, Zenon DEF ClientSend, Still, callVars
<1>3. CASE Receiving
  BY <1>3, Zenon DEF Receiving, ClientReceive, callVars
<1>4. CASE \E how : Ending(how)
  BY <1>4, Zenon DEF Ending, Ended, EndCall, Matched, Broken, Thrown
<1> QED
  BY <1>1, <1>2, <1>3, <1>4, Zenon

\* A reply carries the sentinel's id when nothing has arrived.
LEMMA SilentReply ==
  ASSUME StateOK, HandlerInv, NEW g \in Conns, NEW m, Reply(g, m), Len(Upward[g]) = 0
  PROVE  m = Sentinel
<1>1. ~(1 \in 1..Len(Upward[g]))
  OBVIOUS
<1>2. hpc[g] # "dispatch"
  BY <1>1, Dispatching, Zenon
<1>3. m = Failure(hreader[g])
  BY <1>2, Zenon DEF Reply
<1> QED
  BY <1>1, <1>3, FailureIs, Zenon

\* A connection that is not installed has carried the sentinel or nothing.
LEMMA FreshInvStep ==
  ASSUME ExchangeInv, StateOK', Next
  PROVE  FreshInv'
<1>1. StateOK /\ CallInv /\ HandlerInv /\ FreshInv /\ fresh \subseteq Conns
  BY Zenon DEF ExchangeInv, StateOK, StreamOK
<1> DEFINE At(g) == /\ Len(Upward[g]) = 0
                    /\ \A i \in 1..Len(Downward[g]) : Downward[g][i].of = Sentinel
                    /\ Len(Downward[g]) > 0 => Downward[g][1].at = 1
<1>2. \A g \in fresh : g # descriptor /\ At(g)
  BY <1>1, Zenon DEF FreshInv
<1>3. SUFFICES \A g \in fresh' : g # descriptor' /\ At(g)'
  BY <1>3, Zenon DEF FreshInv
<1>4. ASSUME NEW g \in fresh, UpKept(g), DownKept(g)
      PROVE  At(g)'
  BY <1>2, <1>4, Zenon DEF UpKept, DownKept
<1>5. \A s, t \in Seq(Bytes) :
        /\ \A i \in 1..Len(s) : s[i].of = Sentinel
        /\ Len(s) > 0 => s[1].at = 1
        /\ Extended(s, t, Sentinel) \/ Part(s, t, 0)
        => (\A i \in 1..Len(t) : t[i].of = Sentinel) /\ (Len(t) > 0 => t[1].at = 1)
  <2> TAKE s, t \in Seq(Bytes)
  <2>1. Len(s) \in Nat /\ Len(t) \in Nat
    BY Zenon, BytesOf
  <2>2. ASSUME \A i \in 1..Len(s) : s[i].of = Sentinel, Len(s) > 0 => s[1].at = 1,
               Extended(s, t, Sentinel)
        PROVE  (\A i \in 1..Len(t) : t[i].of = Sentinel) /\ (Len(t) > 0 => t[1].at = 1)
    <3>1. ASSUME NEW i \in 1..Len(t)
          PROVE  t[i].of = Sentinel
      <4>1. CASE i <= Len(s)
        BY <2>1, <2>2, <4>1 DEF Extended
      <4>2. CASE i > Len(s)
        <5>1. i - Len(s) \in 1..FrameBytes /\ i = Len(s) + (i - Len(s))
          BY <2>1, <2>2, <4>2, Sizes DEF Extended
        <5> QED
          BY Zenon, <2>2, <5>1 DEF Extended, Is
      <4> QED
        BY <2>1, <4>1, <4>2
    <3>2. t[1].at = 1
      <4>1. CASE Len(s) > 0
        BY <2>1, <2>2, <4>1 DEF Extended
      <4>2. CASE Len(s) = 0
        BY <2>2, <4>2, Sizes DEF Extended, Is
      <4> QED
        BY <2>1, <4>1, <4>2
    <3> QED
      BY Zenon, <3>1, <3>2
  <2>3. ASSUME \A i \in 1..Len(s) : s[i].of = Sentinel, Len(s) > 0 => s[1].at = 1,
               Part(s, t, 0)
        PROVE  (\A i \in 1..Len(t) : t[i].of = Sentinel) /\ (Len(t) > 0 => t[1].at = 1)
    BY <2>1, <2>3 DEF Part
  <2> QED
    BY <2>2, <2>3, Zenon
<1>6. ASSUME NEW g \in Conns, Opening(g)
      PROVE  \A h \in fresh' : h # descriptor' /\ At(h)'
  <2>1. fresh' = fresh \cup {g} /\ descriptor' = descriptor /\ hpc[g] = "unused"
    BY <1>6, Zenon DEF Opening, Opened
  <2>2. g # descriptor /\ g \notin fresh
    BY <1>1, <2>1, Zenon DEF HandlerInv
  <2>3. \A h \in fresh : UpKept(h) /\ DownKept(h)
    BY <1>1, <1>6, <2>2, Zenon DEF Opening, Opened
  <2>4. At(g)'
    <3>1. UpKept(g) /\ Len(Upward[g]) = 0 /\ Len(Downward[g]) = 0
      BY <1>6, Zenon DEF Opening, Opened
    <3>2. DownKept(g) \/ Extended(Downward[g], Downward'[g], Sentinel)
      BY <1>6, Zenon DEF Opening, Opened
    <3>3. Downward[g] \in Seq(Bytes) /\ Downward'[g] \in Seq(Bytes)
      BY Zenon, <1>1, BothRows
    <3>4. (\A i \in 1..Len(Downward[g]) : FALSE) /\ ~(Len(Downward[g]) > 0)
      BY <3>1
    <3>5. CASE DownKept(g)
      BY <3>1, <3>4, <3>5, Zenon DEF DownKept, UpKept
    <3>6. CASE Extended(Downward[g], Downward'[g], Sentinel)
      <4>1. /\ \A i \in 1..Len(Downward'[g]) : Downward'[g][i].of = Sentinel
            /\ Len(Downward'[g]) > 0 => Downward'[g][1].at = 1
        BY <1>5, <3>3, <3>4, <3>6, Zenon
      <4> QED
        BY <3>1, <4>1, Zenon DEF UpKept
    <3> QED
      BY <3>2, <3>5, <3>6, Zenon
  <2> QED
    BY <1>2, <1>4, <2>1, <2>2, <2>3, <2>4, Zenon
<1>7. ASSUME NEW g \in Conns, ConnectInstall(g), Still
      PROVE  \A h \in fresh' : h # descriptor' /\ At(h)'
  <2>1. fresh' = fresh \ {g} /\ descriptor' = g
    BY <1>7, Zenon DEF ConnectInstall
  <2> QED
    BY <1>1, <1>4, <1>7, <2>1, Zenon DEF Still
<1>8. ASSUME fresh' = fresh, descriptor' \in {0, descriptor},
             \A h \in Conns : h # descriptor => UpKept(h) /\ DownKept(h)
      PROVE  \A h \in fresh' : h # descriptor' /\ At(h)'
  <2>1. \A h \in Conns : h # 0
    BY DEF Conns
  <2> QED
    BY <1>1, <1>2, <1>4, <1>8, <2>1, Zenon
<1>9. CASE Disconnect /\ Still
  BY <1>8, <1>9, Zenon DEF Disconnect, Still
<1>10. CASE (CallBegin /\ Called) \/ (ClientSend /\ Still) \/ Receiving \/ (\E how : Ending(how))
  BY <1>8, <1>10, OthersKept, Zenon
<1>11. ASSUME NEW g \in Conns, Serving(g)
       PROVE  \A h \in fresh' : h # descriptor' /\ At(h)'
  <2>1. fresh' = fresh /\ descriptor' = descriptor
    BY <1>11, Zenon DEF Serving, Apart, clientVars
  <2>2. \A h \in fresh : h # g => At(h)'
    BY <1>1, <1>4, <1>11, Zenon DEF Serving, Apart
  <2>3. ASSUME g \in fresh
        PROVE  At(g)'
    <3>1. At(g)
      BY <1>2, <2>3, Zenon
    <3>2. PICK k \in Nat : Part(Upward[g], Upward'[g], k)
      BY <1>11, Zenon DEF Serving, Served
    <3>3. Len(Upward'[g]) = 0
      BY <1>1, <3>1, <3>2, BothRows DEF Part
    <3>4. Downward[g] \in Seq(Bytes) /\ Downward'[g] \in Seq(Bytes)
      BY Zenon, <1>1, BothRows
    <3>5. \/ DownKept(g)
          \/ Part(Downward[g], Downward'[g], 0)
          \/ Extended(Downward[g], Downward'[g], Sentinel)
      <4>1. ASSUME NEW m \in Messages, Reply(g, m)
            PROVE  Extended(Downward[g], Downward'[g], Sentinel)
        <5>1. m = Sentinel
          BY <1>1, <3>1, <4>1, SilentReply, Zenon
        <5> QED
          BY <4>1, <5>1, Zenon DEF Reply, Answered
      <4> QED
        BY <1>11, <4>1, Zenon DEF Serving, Served, Replies
    <3>6. /\ \A i \in 1..Len(Downward'[g]) : Downward'[g][i].of = Sentinel
          /\ Len(Downward'[g]) > 0 => Downward'[g][1].at = 1
      <4>1. CASE DownKept(g)
        BY <3>1, <4>1, Zenon DEF DownKept
      <4>2. CASE Part(Downward[g], Downward'[g], 0) \/ Extended(Downward[g], Downward'[g], Sentinel)
        BY <1>5, <3>1, <3>4, <4>2, Zenon
      <4> QED
        BY <3>5, <4>1, <4>2, Zenon
    <3> QED
      BY <3>3, <3>6, Zenon
  <2> QED
    BY <1>2, <2>1, <2>2, <2>3, Zenon
<1> QED
  BY <1>1, <1>6, <1>7, <1>9, <1>10, <1>11, StepCases, Zenon

-----------------------------------------------------------------------------
(* What the messages on their way say                                        *)

\* Every byte of a part is a byte of the row.
LEMMA PartBytes ==
  ASSUME NEW s \in Seq(Bytes), NEW t \in Seq(Bytes), NEW k, Part(s, t, k)
  PROVE  /\ k \in Nat /\ Len(t) <= Len(s) /\ Len(s) \in Nat /\ Len(t) \in Nat
         /\ \A i \in 1..Len(t) : i + k \in 1..Len(s) /\ t[i] = s[i + k]
<1>1. Len(s) \in Nat /\ Len(t) \in Nat /\ k \in Nat
  BY Zenon, BytesOf DEF Part
<1> QED
  BY <1>1 DEF Part

\* And every byte of a row that a frame was added to is in one of the two.
LEMMA ExtendedBytes ==
  ASSUME NEW s \in Seq(Bytes), NEW t \in Seq(Bytes), NEW m, Extended(s, t, m)
  PROVE  /\ Len(s) \in Nat /\ Len(t) \in Nat /\ Len(t) = Len(s) + FrameBytes
         /\ \A i \in 1..Len(s) : i \in 1..Len(t) /\ t[i] = s[i]
         /\ \A i \in 1..Len(t) : \/ i \in 1..Len(s) /\ t[i] = s[i]
                                 \/ i > Len(s) /\ Is(t[i], m, i - Len(s))
<1>1. Len(s) \in Nat /\ Len(t) \in Nat /\ FrameBytes \in Nat
  BY Zenon, BytesOf, Sizes
<1>2. Len(t) = Len(s) + FrameBytes /\ \A i \in 1..Len(s) : t[i] = s[i]
  BY Zenon DEF Extended
<1>3. \A i \in 1..Len(s) : i \in 1..Len(t)
  BY <1>1, <1>2
<1>4. ASSUME NEW i \in 1..Len(t), ~(i \in 1..Len(s))
      PROVE  i > Len(s) /\ Is(t[i], m, i - Len(s))
  <2>1. i > Len(s) /\ i - Len(s) \in 1..FrameBytes /\ Len(s) + (i - Len(s)) = i
    BY <1>1, <1>2, <1>4
  <2>2. Is(t[Len(s) + (i - Len(s))], m, i - Len(s))
    BY Zenon, <2>1 DEF Extended
  <2> QED
    BY Zenon, <2>1, <2>2
<1> QED
  BY Zenon, <1>1, <1>2, <1>3, <1>4

\* recv leaves a part of a row.
LEMMA AdvancedIsPart ==
  ASSUME NEW r, NEW q, NEW s \in Seq(Bytes), NEW t \in Seq(Bytes), Advanced(r, q, s, t)
  PROVE  \E k \in Nat : Part(s, t, k)
<1>1. HeaderBytes \in Nat /\ 0 \in Nat
  BY Zenon, Sizes
<1> QED
  BY <1>1, PartSame, Zenon DEF Advanced

\* serve_connection dispatches in no other step.
LEMMA ServingDispatch ==
  ASSUME StateOK, NEW g \in Conns, Serving(g)
  PROVE  /\ hpc[g] = "dispatch" => HandlerDispatch(g)
         /\ executed' = executed \/ HandlerDispatch(g)
<1>1. CASE HandlerStep(g)
  <2>1. hpc[g] \in {"read", "write", "close"}
    BY <1>1, Zenon DEF HandlerStep, HandlerReceive, HandlerReadFails, HandlerDecode,
       HandlerSend, HandlerInterrupted, HandlerClose
  <2>2. executed' = executed
    BY <1>1, Zenon DEF HandlerStep, HandlerReceive, HandlerReadFails, HandlerDecode,
       HandlerSend, HandlerInterrupted, HandlerClose, HandlerQuiet, callVars
  <2> QED
    BY Zenon, <2>1, <2>2
<1> QED
  BY <1>1, Zenon DEF Serving

\* What a handler writes: the sentinel when no id has arrived, and else a message
\* under the id of the first byte, for its call or, if the request was garbled,
\* for none.
Carries(m, b) == m.id = b.of.id /\ m.call = b.of.call

\* What serve_connection writes: the sentinel when read_frame could not correlate
\* the request, a failure, or the response of dispatch.
LEMMA ReplyIs ==
  ASSUME StateOK, HandlerInv, NEW g \in Conns, Serving(g), NEW m, Reply(g, m)
  PROVE  /\ m \in Messages /\ g \notin Failing
         /\ m.kind = "failure" <=> g \in Failing'
         /\ g \notin Closing /\ g \notin Closing'
         /\ \/ m = Sentinel /\ ~Correlated(hreader[g]) /\ m.kind = "failure"
            \/ /\ 1 \in 1..Len(Upward[g]) /\ Correlated(hreader[g])
               /\ m.kind = "failure" /\ Carries(m, Upward[g][1])
            \/ /\ 1 \in 1..Len(Upward[g]) /\ Correlated(hreader[g]) /\ HandlerDispatch(g)
               /\ m.kind = "response" /\ Carries(m, Upward[g][1]) /\ Whole(g)
            \/ /\ 1 \in 1..Len(Upward[g]) /\ Correlated(hreader[g]) /\ HandlerDispatch(g)
               /\ m.kind = "response" /\ m.id = Upward[g][1].of.id /\ m.call = 0 /\ Garbled(g)
<1>1. /\ m \in Messages /\ hpc[g] \in {"read", "dispatch"} /\ hpc'[g] = "write" /\ answer'[g] = m
      /\ \/ m = Failure(hreader[g])
         \/ hpc[g] = "dispatch" /\ m = [hrequest[g] EXCEPT !.kind = "response"]
  BY Zenon DEF Reply, Answered
<1>2. g \notin Failing /\ g \notin Closing
  BY Zenon, <1>1 DEF Failing, Closing
<1>3. (m.kind = "failure" <=> g \in Failing') /\ g \notin Closing'
  <2>1. g \notin Closing'
    BY Zenon, <1>1 DEF Closing
  <2> QED
    BY <1>1, <2>1, Zenon DEF Failing
<1>4. CASE m = Failure(hreader[g])
  BY <1>1, <1>2, <1>3, <1>4, FailureIs, Zenon DEF Carries
<1>5. CASE hpc[g] = "dispatch" /\ m = [hrequest[g] EXCEPT !.kind = "response"]
  <2>1. hrequest[g] \in Messages /\ HandlerDispatch(g)
    BY Zenon, <1>5, ServingDispatch DEF StateOK, HandlerOK
  <2>2. m.kind = "response" /\ m.call = hrequest[g].call /\ m.id = hrequest[g].id
    BY Zenon, <1>5, <2>1 DEF Messages
  <2>3. 1 \in 1..Len(Upward[g]) /\ Correlated(hreader[g]) /\ (Whole(g) \/ Garbled(g))
    BY <1>5, Dispatching, Zenon
  <2>4. CASE Whole(g)
    BY <1>1, <1>2, <1>3, <2>1, <2>2, <2>3, <2>4, Zenon DEF Carries, Whole
  <2>5. CASE Garbled(g)
    <3>1. Upward[g][1].of \in Messages /\ hrequest[g] = [Upward[g][1].of EXCEPT !.call = 0]
      BY <2>3, <2>5, ReaderRows, BytesOf, Zenon DEF Garbled
    <3>2. m.id = Upward[g][1].of.id /\ m.call = 0
      BY Zenon, <2>2, <3>1 DEF Messages
    <3> QED
      BY <1>1, <1>2, <1>3, <2>1, <2>2, <2>3, <2>5, <3>2, Zenon
  <2> QED
    BY <2>3, <2>4, <2>5, Zenon
<1> QED
  BY <1>1, <1>4, <1>5, Zenon

\* What a message says stays true: later there are more calls, ids and
\* executions.
LEMMA AskedStays ==
  ASSUME NEW m \in Messages, NEW n \in Nat, NEW p \in Nat, NEW b \in Nat, NEW c \in Nat,
         Asked(m, n, b), n <= p, b <= c
  PROVE  Asked(m, p, c)
BY DEF Asked, Messages, Ids

\* What an answer says stays true as calls, ids and executions grow.
LEMMA ToldStays ==
  ASSUME NEW m \in Messages, NEW n \in 0..MaxCalls, NEW p \in Nat, NEW b \in Nat, NEW c \in Nat,
         NEW f, NEW f1, NEW d \in [Calls -> Nat], NEW d1 \in [Calls -> Nat],
         Told(m, n, b, f, d), n <= p, b <= c, f => f1, \A x \in Calls : d[x] <= d1[x]
  PROVE  Told(m, p, c, f1, d1)
<1>1. m.call \in 0..n /\ m.id < b /\ m.id \in Nat
  BY DEF Told, Messages, Ids
<1>2. m.call \in 0..p /\ m.id < c
  BY <1>1
<1>3. m.kind = "response" /\ m.call # 0 => d1[m.call] > 0
  <2>1. m.call # 0 => m.call \in Calls
    BY <1>1 DEF Calls
  <2>2. m.kind = "response" /\ m.call # 0 => d[m.call] > 0
    BY Zenon DEF Told
  <2> QED
    BY <2>1, <2>2
<1> QED
  BY <1>2, <1>3, Zenon DEF Told

\* Calls and executions are only ever added.
LEMMA HistoryGrows ==
  ASSUME ExchangeInv, StateOK', Next
  PROVE  /\ calls \in 0..MaxCalls /\ calls' \in 0..MaxCalls /\ calls <= calls'
         /\ executed \in [Calls -> Nat] /\ executed' \in [Calls -> Nat]
         /\ \A c \in Calls : executed[c] <= executed'[c]
<1>1. StateOK /\ CallInv /\ HandlerInv
  BY Zenon DEF ExchangeInv
<1>2. /\ calls \in 0..MaxCalls /\ executed \in [Calls -> Nat]
      /\ calls' \in 0..MaxCalls /\ executed' \in [Calls -> Nat]
  BY <1>1, Zenon DEF StateOK, HistoryOK
<1>3. CASE UNCHANGED <<calls, executed>>
  BY <1>2, <1>3
<1>4. CASE CallBegin
  BY <1>2, <1>4 DEF CallBegin
<1>5. ASSUME NEW g \in Conns, HandlerDispatch(g)
      PROVE  calls' = calls /\ \A c \in Calls : executed[c] <= executed'[c]
  BY <1>2, <1>5 DEF HandlerDispatch
<1>6. CASE (\E g \in Conns : Opening(g) \/ ConnectInstall(g)) \/ Disconnect
  BY <1>3, <1>6, Zenon DEF Opening, ConnectInstall, Disconnect, callVars
<1>7. CASE ClientSend \/ Receiving \/ \E how : Ending(how)
  BY <1>3, <1>7, Zenon DEF ClientSend, Receiving, ClientReceive, Ending, EndCall, callVars
<1>8. ASSUME NEW g \in Conns, HandlerStep(g)
      PROVE  UNCHANGED <<calls, executed>>
  BY <1>8, Zenon DEF HandlerStep, HandlerReceive, HandlerReadFails, HandlerDecode,
     HandlerSend, HandlerInterrupted, HandlerClose, HandlerQuiet, callVars
<1>9. CASE \E g \in Conns : Serving(g)
  <2>1. PICK g \in Conns : Serving(g)
    BY Zenon, <1>9
  <2>2. CASE HandlerStep(g)
    BY <1>3, <1>8, <2>2, Zenon
  <2>3. CASE HandlerDispatch(g)
    BY <1>2, <1>5, <2>3
  <2> QED
    BY <2>1, <2>2, <2>3, Zenon DEF Serving
<1> QED
  BY <1>1, <1>4, <1>6, <1>7, <1>9, StepCases, Zenon

\* The bound on the ids of a connection, which rises until it is replaced.
LEMMA BoundRises ==
  ASSUME StateOK, StateOK', NEW h \in Conns
  PROVE  /\ IdBound(h) \in Nat /\ IdBound(h) > 0 /\ IdBound(h)' \in Nat /\ IdBound(h)' > 0
         /\ \/ UNCHANGED <<descriptor, next_request_id>>
            \/ descriptor' # h
            \/ /\ descriptor' = descriptor
               /\ next_request_id # 0 /\ next_request_id' = NextRequestId
            => IdBound(h) <= IdBound(h)'
<1>1. /\ next_request_id \in 0..IdSpan - 1 /\ next_request_id' \in 0..IdSpan - 1
      /\ IdSpan \in Nat /\ IdSpan > 1
  BY DEF StateOK, ClientOK, Ids
<1>2. IdBound(h) \in 1..IdSpan /\ IdBound(h)' \in 1..IdSpan
  BY <1>1 DEF IdBound
<1>3. descriptor' # h => IdBound(h)' = IdSpan
  BY Zenon DEF IdBound
<1>4. ASSUME descriptor' = descriptor, next_request_id # 0, next_request_id' = NextRequestId
      PROVE  IdBound(h) <= IdBound(h)'
  <2>1. CASE next_request_id' = 0
    BY <1>1, <1>2, <2>1 DEF IdBound
  <2>2. CASE next_request_id' # 0
    <3>1. next_request_id' = next_request_id + 1
      BY Zenon, <1>4, <2>2, NextIdIs
    <3> QED
      BY <1>1, <1>2, <1>4, <2>2, <3>1 DEF IdBound
  <2> QED
    BY Zenon, <2>1, <2>2
<1>5. ASSUME UNCHANGED <<descriptor, next_request_id>>
      PROVE  IdBound(h)' = IdBound(h)
  BY <1>5, Zenon DEF IdBound
<1> QED
  BY <1>2, <1>3, <1>4, <1>5

UpSaid(g) == \A i \in 1..Len(Upward[g]) : Asked(Upward[g][i].of, calls, IdBound(g))
DownSaid(g) ==
  \A i \in 1..Len(Downward[g]) :
    Told(Downward[g][i].of, calls, IdBound(g), g \in Failing, executed)

\* What is left of a row says no more than the row, and an added frame only adds
\* its message.
LEMMA PartSaid ==
  ASSUME ExchangeInv, StateOK', Next, NEW h \in Conns, IdBound(h) <= IdBound(h)', NEW k
  PROVE  /\ Part(Upward[h], Upward'[h], k) => UpSaid(h)'
         /\ Part(Downward[h], Downward'[h], k) => DownSaid(h)'
<1>1. StateOK /\ UpSaid(h) /\ DownSaid(h)
  BY Zenon DEF ExchangeInv, MessageInv, UpSaid, DownSaid
<1>2. /\ calls \in 0..MaxCalls /\ calls' \in 0..MaxCalls /\ calls <= calls'
      /\ executed \in [Calls -> Nat] /\ executed' \in [Calls -> Nat]
      /\ \A c \in Calls : executed[c] <= executed'[c]
  BY Zenon, HistoryGrows
<1>3. calls \in Nat /\ calls' \in Nat /\ IdBound(h) \in Nat /\ IdBound(h)' \in Nat
  BY <1>1, <1>2, BoundRises
<1>4. ASSUME Part(Upward[h], Upward'[h], k)
      PROVE  UpSaid(h)'
  <2>1. ASSUME NEW i \in 1..Len(Upward'[h])
        PROVE  Asked(Upward'[h][i].of, calls', IdBound(h)')
    <3>1. i + k \in 1..Len(Upward[h]) /\ Upward'[h][i] = Upward[h][i + k]
      BY <1>1, <1>4, BothRows, PartBytes
    <3>2. Asked(Upward[h][i + k].of, calls, IdBound(h)) /\ Upward[h][i + k].of \in Messages
      BY <1>1, <3>1, BothRows, Zenon DEF UpSaid
    <3> QED
      BY Zenon, <1>2, <1>3, <3>1, <3>2, AskedStays
  <2> QED
    BY <2>1, Zenon DEF UpSaid
<1>5. ASSUME Part(Downward[h], Downward'[h], k)
      PROVE  DownSaid(h)'
  <2>1. ASSUME NEW i \in 1..Len(Downward'[h])
        PROVE  Told(Downward'[h][i].of, calls', IdBound(h)', h \in Failing', executed')
    <3>1. i + k \in 1..Len(Downward[h]) /\ Downward'[h][i] = Downward[h][i + k]
      BY <1>1, <1>5, BothRows, PartBytes
    <3>2. /\ Told(Downward[h][i + k].of, calls, IdBound(h), h \in Failing, executed)
          /\ Downward[h][i + k].of \in Messages
      BY <1>1, <3>1, BothRows, Zenon DEF DownSaid
    <3>3. h \in Failing => h \in Failing'
      BY Zenon, FailingStays
    <3>4. Told(Downward[h][i + k].of, calls', IdBound(h)', h \in Failing', executed')
      BY Zenon, <1>2, <1>3, <3>2, <3>3, ToldStays
    <3> QED
      BY <3>1, <3>4, Zenon
  <2> QED
    BY <2>1, Zenon DEF DownSaid
<1> QED
  BY <1>4, <1>5, Zenon

\* A new message that may be on its way makes its row one of such messages.
LEMMA ExtendedSaid ==
  ASSUME ExchangeInv, StateOK', Next, NEW h \in Conns, IdBound(h) <= IdBound(h)', NEW m
  PROVE  /\ Extended(Upward[h], Upward'[h], m) /\ Asked(m, calls', IdBound(h)') => UpSaid(h)'
         /\ /\ Extended(Downward[h], Downward'[h], m)
            /\ Told(m, calls', IdBound(h)', h \in Failing', executed')
            => DownSaid(h)'
<1>1. StateOK /\ UpSaid(h) /\ DownSaid(h)
  BY Zenon DEF ExchangeInv, MessageInv, UpSaid, DownSaid
<1>2. /\ calls \in 0..MaxCalls /\ calls' \in 0..MaxCalls /\ calls <= calls'
      /\ executed \in [Calls -> Nat] /\ executed' \in [Calls -> Nat]
      /\ \A c \in Calls : executed[c] <= executed'[c]
  BY Zenon, HistoryGrows
<1>3. calls \in Nat /\ calls' \in Nat /\ IdBound(h) \in Nat /\ IdBound(h)' \in Nat
  BY <1>1, <1>2, BoundRises
<1>4. ASSUME Extended(Upward[h], Upward'[h], m), Asked(m, calls', IdBound(h)')
      PROVE  UpSaid(h)'
  <2>1. ASSUME NEW i \in 1..Len(Upward'[h])
        PROVE  Asked(Upward'[h][i].of, calls', IdBound(h)')
    <3>1. \/ i \in 1..Len(Upward[h]) /\ Upward'[h][i] = Upward[h][i]
          \/ Upward'[h][i].of = m
      BY <1>1, <1>4, BothRows, ExtendedBytes DEF Is
    <3>2. CASE i \in 1..Len(Upward[h]) /\ Upward'[h][i] = Upward[h][i]
      <4>1. Asked(Upward[h][i].of, calls, IdBound(h)) /\ Upward[h][i].of \in Messages
        BY <1>1, <3>2, BothRows, Zenon DEF UpSaid
      <4> QED
        BY Zenon, <1>2, <1>3, <3>2, <4>1, AskedStays
    <3> QED
      BY <1>4, <3>1, <3>2, Zenon
  <2> QED
    BY <2>1, Zenon DEF UpSaid
<1>5. ASSUME Extended(Downward[h], Downward'[h], m),
             Told(m, calls', IdBound(h)', h \in Failing', executed')
      PROVE  DownSaid(h)'
  <2>1. ASSUME NEW i \in 1..Len(Downward'[h])
        PROVE  Told(Downward'[h][i].of, calls', IdBound(h)', h \in Failing', executed')
    <3>1. \/ i \in 1..Len(Downward[h]) /\ Downward'[h][i] = Downward[h][i]
          \/ Downward'[h][i].of = m
      BY <1>1, <1>5, BothRows, ExtendedBytes DEF Is
    <3>2. CASE i \in 1..Len(Downward[h]) /\ Downward'[h][i] = Downward[h][i]
      <4>1. /\ Told(Downward[h][i].of, calls, IdBound(h), h \in Failing, executed)
            /\ Downward[h][i].of \in Messages
        BY <1>1, <3>2, BothRows, Zenon DEF DownSaid
      <4>2. h \in Failing => h \in Failing'
        BY Zenon, FailingStays
      <4>3. Told(Downward[h][i].of, calls', IdBound(h)', h \in Failing', executed')
        BY Zenon, <1>2, <1>3, <4>1, <4>2, ToldStays
      <4> QED
        BY <3>2, <4>3, Zenon
    <3> QED
      BY <1>5, <3>1, <3>2, Zenon
  <2> QED
    BY <2>1, Zenon DEF DownSaid
<1> QED
  BY <1>4, <1>5, Zenon

\* What a handler replies is the answer to a request that was made.
LEMMA ReplySaid ==
  ASSUME ExchangeInv, StateOK', Next, NEW g \in Conns, Serving(g), NEW m, Reply(g, m)
  PROVE  Told(m, calls', IdBound(g)', g \in Failing', executed')
<1>1. StateOK /\ HandlerInv /\ UpSaid(g)
  BY Zenon DEF ExchangeInv, MessageInv, UpSaid
<1>2. /\ calls \in 0..MaxCalls /\ calls' \in 0..MaxCalls /\ calls <= calls'
      /\ executed \in [Calls -> Nat] /\ executed' \in [Calls -> Nat]
  BY Zenon, HistoryGrows
<1>3. IdBound(g)' = IdBound(g) /\ IdBound(g) \in Nat /\ IdBound(g) > 0
  <2>1. UNCHANGED <<descriptor, next_request_id>>
    BY Zenon DEF Serving, Apart, clientVars
  <2>2. IdBound(g)' = IdBound(g)
    BY <2>1, Zenon DEF IdBound
  <2> QED
    BY Zenon, <1>1, <2>2, BoundRises
<1>4. m \in Messages /\ (m.kind = "failure" => g \in Failing')
  BY <1>1, ReplyIs, Zenon
<1>5. CASE m = Sentinel
  <2>1. m.kind = "failure" /\ m.call = 0 /\ m.id = 0
    BY Zenon, <1>5 DEF Sentinel, Message
  <2>2. 0 \in 0..calls' /\ 0 < IdBound(g)'
    BY <1>2, <1>3
  <2>3. m.kind # "response"
    BY Zenon, <2>1
  <2> QED
    BY <1>4, <1>5, <2>1, <2>2, <2>3, Zenon DEF Told
<1>6. CASE m # Sentinel
  <2>1. /\ 1 \in 1..Len(Upward[g]) /\ m.id = Upward[g][1].of.id
        /\ m.call = 0 \/ m.call = Upward[g][1].of.call
        /\ m.kind \in {"failure", "response"}
        /\ m.kind = "response" /\ m.call # 0 => Whole(g) /\ HandlerDispatch(g)
    <3>1. /\ 1 \in 1..Len(Upward[g])
          /\ \/ m.kind = "failure" /\ Carries(m, Upward[g][1])
             \/ /\ m.kind = "response" /\ HandlerDispatch(g)
                /\ \/ Carries(m, Upward[g][1]) /\ Whole(g)
                   \/ m.id = Upward[g][1].of.id /\ m.call = 0
      BY <1>1, <1>6, ReplyIs
    <3>2. CASE m.kind = "failure" /\ Carries(m, Upward[g][1])
      BY Zenon, <3>1, <3>2 DEF Carries
    <3>3. CASE m.kind = "response" /\ HandlerDispatch(g)
      BY Zenon, <3>1, <3>3 DEF Carries
    <3> QED
      BY <3>1, <3>2, <3>3, Zenon
  <2>2. Asked(Upward[g][1].of, calls, IdBound(g))
    BY <1>1, <2>1, Zenon DEF UpSaid
  <2>3. m.call \in 0..calls' /\ m.id # 0 /\ m.id < IdBound(g)'
    BY <1>2, <1>3, <2>1, <2>2 DEF Asked
  <2>4. ASSUME m.kind = "response", m.call # 0
        PROVE  executed'[m.call] > 0
    <3>1. m.call = hrequest[g].call /\ m.call \in Calls /\ HandlerDispatch(g)
      <4>1. hrequest[g] = Upward[g][1].of /\ HandlerDispatch(g)
        BY <2>1, <2>4, Zenon DEF Whole
      <4>2. m.call \in Calls
        BY <1>2, <2>3, <2>4 DEF Calls
      <4> QED
        BY <2>1, <2>4, <4>1, <4>2, Zenon
    <3>2. executed' = [c \in Calls |-> IF c = hrequest[g].call
                                       THEN executed[c] + 1 ELSE executed[c]]
      BY <3>1, Zenon DEF HandlerDispatch
    <3> QED
      BY <1>2, <3>1, <3>2
  <2> QED
    BY <1>4, <2>1, <2>3, <2>4, Zenon DEF Told
<1> QED
  BY Zenon, <1>5, <1>6

\* Every message asks for a call that was made or answers one.
LEMMA MessageInvStep ==
  ASSUME ExchangeInv, StateOK', Next
  PROVE  MessageInv'
<1>1. StateOK /\ CallInv /\ HandlerInv /\ FreshInv /\ \A h \in Conns : UpSaid(h) /\ DownSaid(h)
  BY Zenon DEF ExchangeInv, MessageInv, UpSaid, DownSaid
<1>2. SUFFICES \A h \in Conns : UpSaid(h)' /\ DownSaid(h)'
  BY <1>2, Zenon DEF MessageInv, UpSaid, DownSaid
<1>3. ASSUME NEW h \in Conns, IdBound(h) <= IdBound(h)'
      PROVE  (UpKept(h) => UpSaid(h)') /\ (DownKept(h) => DownSaid(h)')
  <2>1. Part(Upward[h], Upward[h], 0) /\ Part(Downward[h], Downward[h], 0)
    BY Zenon, <1>1, BothRows, PartSame
  <2> QED
    BY <1>3, <2>1, PartSaid, Zenon DEF UpKept, DownKept
<1>4. ASSUME NEW g \in Conns, Opening(g)
      PROVE  \A h \in Conns : UpSaid(h)' /\ DownSaid(h)'
  <2> TAKE h \in Conns
  <2>1. IdBound(h) <= IdBound(h)' /\ IdBound(h)' \in Nat /\ IdBound(h)' > 0
    BY <1>1, <1>4, BoundRises, Zenon DEF Opening
  <2>2. UpKept(h) /\ (h # g => DownKept(h))
    BY <1>4, Zenon DEF Opening, Opened
  <2>3. ASSUME h = g, Extended(Downward[g], Downward'[g], Sentinel),
               hpc' = [hpc EXCEPT ![g] = "write"], answer' = [answer EXCEPT ![g] = Sentinel]
        PROVE  DownSaid(h)'
    <3>1. Sentinel.kind = "failure" /\ Sentinel.call = 0 /\ Sentinel.id = 0
          /\ Sentinel.kind # "response"
      BY Zenon DEF Sentinel, Message
    <3>2. 0 \in 0..calls' /\ 0 < IdBound(h)'
      BY <2>1, HistoryGrows
    <3>3. h \in Failing'
      <4>1. hpc'[g] = "write" /\ answer'[g] = Sentinel
        BY <1>1, <2>3, Zenon DEF StateOK, HandlerOK
      <4> QED
        BY <2>3, <3>1, <4>1, Zenon DEF Failing
    <3>4. Told(Sentinel, calls', IdBound(h)', h \in Failing', executed')
      BY <3>1, <3>2, <3>3, Zenon DEF Told
    <3> QED
      BY <2>1, <2>3, <3>4, ExtendedSaid, Zenon
  <2>4. h = g => DownSaid(h)'
    BY <1>3, <1>4, <2>1, <2>3, Zenon DEF Opening, Opened
  <2> QED
    BY <1>3, <2>1, <2>2, <2>4, Zenon
<1>5. ASSUME NEW g \in Conns, ConnectInstall(g), Still
      PROVE  \A h \in Conns : UpSaid(h)' /\ DownSaid(h)'
  <2> TAKE h \in Conns
  <2>1. CASE h # g
    <3>1. IdBound(h) <= IdBound(h)'
      BY <1>1, <1>5, <2>1, BoundRises, Zenon DEF ConnectInstall
    <3> QED
      BY <1>3, <1>5, <3>1, Zenon DEF Still
  <2>2. CASE h = g
    <3>1. /\ Len(Upward'[h]) = 0 /\ DownKept(h) /\ executed' = executed /\ calls' = calls
          /\ \A i \in 1..Len(Downward[h]) : Downward[h][i].of = Sentinel
      BY <1>1, <1>5, <2>2, Zenon DEF ConnectInstall, FreshInv, Still, UpKept, callVars
    <3>2. UpSaid(h)'
      BY <3>1 DEF UpSaid
    <3>3. ASSUME NEW i \in 1..Len(Downward'[h])
          PROVE  Told(Downward'[h][i].of, calls', IdBound(h)', h \in Failing', executed')
      <4>1. Downward'[h] = Downward[h] /\ i \in 1..Len(Downward[h])
        BY <3>1, <3>3, Zenon DEF DownKept
      <4>2. Downward[h][i].of = Sentinel
        BY <3>1, <4>1, Zenon
      <4>3. /\ Told(Sentinel, calls, IdBound(h), h \in Failing, executed)
            /\ Sentinel.id = 0 /\ 0 < IdBound(h)'
        <5>1. Sentinel.id = 0
          BY Zenon DEF Sentinel, Message
        <5>2. 0 < IdBound(h)'
          BY Zenon, <1>1, BoundRises
        <5> QED
          BY <1>1, <4>1, <4>2, <5>1, <5>2, Zenon DEF DownSaid
      <4>4. h \in Failing => h \in Failing'
        BY Zenon, FailingStays
      <4> QED
        BY <3>1, <4>1, <4>2, <4>3, <4>4, Zenon DEF Told
    <3>4. DownSaid(h)'
      BY <3>3, Zenon DEF DownSaid
    <3> QED
      BY <3>2, <3>4, Zenon
  <2> QED
    BY Zenon, <2>1, <2>2
<1>6. CASE Disconnect /\ Still
  <2> TAKE h \in Conns
  <2>1. descriptor' # h
    BY <1>6 DEF Disconnect, Conns
  <2>2. IdBound(h) <= IdBound(h)'
    BY <1>1, <2>1, BoundRises, Zenon
  <2> QED
    BY <1>3, <1>6, <2>2, Zenon DEF Still
<1>7. CASE CallBegin /\ Called
  <2> TAKE h \in Conns
  <2>1. IdBound(h) <= IdBound(h)'
    <3>1. h # 0
      BY DEF Conns
    <3>2. \/ UNCHANGED <<descriptor, next_request_id>>
          \/ descriptor' # h
          \/ /\ descriptor' = descriptor
             /\ next_request_id # 0 /\ next_request_id' = NextRequestId
      BY <1>7, <3>1, Zenon DEF CallBegin
    <3> QED
      BY <1>1, <3>2, BoundRises, Zenon
  <2>2. DownKept(h) /\ (UpKept(h) \/ (h = descriptor /\ Extended(Upward[h], Upward'[h], request')
             /\ descriptor' = descriptor /\ next_request_id # 0
             /\ next_request_id' = NextRequestId
             /\ request' = Message("request", calls', next_request_id)))
    BY <1>7, Zenon DEF Called
  <2>3. CASE UpKept(h)
    BY <1>3, <2>1, <2>2, <2>3, Zenon
  <2>4. CASE ~UpKept(h)
    <3>1. /\ request'.kind = "request" /\ request'.call = calls'
          /\ request'.id = next_request_id
      BY <2>2, <2>4 DEF Message
    <3>2. calls' \in 1..calls'
      BY <1>7, HistoryGrows DEF CallBegin
    <3>3. next_request_id < IdBound(h)'
      <4>1. CASE next_request_id' = 0
        <5>1. IdBound(h)' = IdSpan
          BY <4>1, Zenon DEF IdBound
        <5> QED
          BY <1>1, <5>1, NextIdIs
      <4>2. CASE next_request_id' # 0
        <5>1. IdBound(h)' = next_request_id'
          BY <2>2, <2>4, <4>2, Zenon DEF IdBound
        <5> QED
          BY <1>1, <2>2, <2>4, <4>2, <5>1, NextIdIs
      <4> QED
        BY Zenon, <4>1, <4>2
    <3>4. Asked(request', calls', IdBound(h)')
      BY <2>2, <2>4, <3>1, <3>2, <3>3, Zenon DEF Asked
    <3> QED
      BY <1>3, <2>1, <2>2, <2>4, <3>4, ExtendedSaid, Zenon
  <2> QED
    BY <2>3, <2>4, Zenon
<1>8. CASE ClientSend /\ Still
  <2> TAKE h \in Conns
  <2>1. IdBound(h) <= IdBound(h)'
    BY <1>1, <1>8, BoundRises, Zenon DEF ClientSend
  <2> QED
    BY <1>3, <1>8, <2>1, Zenon DEF Still
<1>9. CASE Receiving
  <2> TAKE h \in Conns
  <2>1. IdBound(h) <= IdBound(h)'
    BY <1>1, <1>9, BoundRises, Zenon DEF Receiving, ClientReceive
  <2>2. UpKept(h) /\ (h # descriptor => DownKept(h))
    BY <1>9, Zenon DEF Receiving
  <2>3. h = descriptor => \E k \in Nat : Part(Downward[h], Downward'[h], k)
    BY <1>1, <1>9, BothRows, AdvancedIsPart, Zenon DEF Receiving
  <2> QED
    BY <1>3, <2>1, <2>2, <2>3, PartSaid, Zenon
<1>10. ASSUME NEW how, Ending(how)
       PROVE  \A h \in Conns : UpSaid(h)' /\ DownSaid(h)'
  <2> TAKE h \in Conns
  <2>1. h # 0
    BY DEF Conns
  <2>2. next_request_id' = next_request_id /\ descriptor' \in {0, descriptor}
    BY <1>10, Zenon DEF Ending, EndCall, Matched, Broken, Thrown
  <2>3. IdBound(h) <= IdBound(h)'
    BY <1>1, <2>1, <2>2, BoundRises, Zenon
  <2>4. CASE h # descriptor
    BY <1>3, <1>10, <2>3, <2>4, Zenon DEF Ending, Ended
  <2>5. CASE h = descriptor
    BY <1>10, <2>3, <2>5, PartSaid, Zenon DEF Ending, Ended
  <2> QED
    BY <2>4, <2>5, Zenon
<1>11. ASSUME NEW g \in Conns, Serving(g)
       PROVE  \A h \in Conns : UpSaid(h)' /\ DownSaid(h)'
  <2> TAKE h \in Conns
  <2>1. IdBound(h) <= IdBound(h)'
    BY <1>1, <1>11, BoundRises, Zenon DEF Serving, Apart, clientVars
  <2>2. CASE h # g
    BY <1>3, <1>11, <2>1, <2>2, Zenon DEF Serving, Apart
  <2>3. CASE h = g
    <3>1. UpSaid(h)'
      BY <1>11, <2>1, <2>3, PartSaid, Zenon DEF Serving, Served
    <3>2. DownSaid(h)'
      <4>1. ASSUME NEW m \in Messages, Reply(g, m)
            PROVE  DownSaid(h)'
        <5>1. Told(m, calls', IdBound(g)', g \in Failing', executed')
          BY <1>11, <4>1, ReplySaid, Zenon
        <5> QED
          BY <2>1, <2>3, <4>1, <5>1, ExtendedSaid, Zenon DEF Reply, Answered
      <4> QED
        BY <1>3, <1>11, <2>1, <2>3, <4>1, PartSaid, Zenon DEF Serving, Served, Replies
    <3> QED
      BY <3>1, <3>2, Zenon
  <2> QED
    BY <2>2, <2>3, Zenon
<1> QED
  BY <1>1, <1>4, <1>5, <1>6, <1>7, <1>8, <1>9, <1>10, <1>11, StepCases, Zenon

-----------------------------------------------------------------------------
(* The request in progress                                                   *)

\* What a step does to the read_frame of a handler.
Reads(g) ==
  \/ hreader'[g] = NewReader
  \/ hreader'[g] = hreader[g] /\ UpKept(g)
  \/ Advanced(hreader[g], hreader'[g], Upward[g], Upward'[g])

\* What a step of a handler does to what it has read.
LEMMA ServingReads ==
  ASSUME StateOK, StateOK', NEW g \in Conns, Serving(g)
  PROVE  Reads(g)
<1>1. hreader \in [Conns -> Readers] /\ UNCHANGED clientVars
  BY Zenon DEF StateOK, HandlerOK, Serving, Apart
<1>2. ASSUME UNCHANGED <<up, hreader>>
      PROVE  Reads(g)
  BY <1>1, <1>2, ListeningRows, Zenon DEF Reads
<1>3. ASSUME hreader' = [hreader EXCEPT ![g] = NewReader]
      PROVE  Reads(g)
  BY <1>1, <1>3, Zenon DEF Reads
<1>4. CASE HandlerReceive(g)
  BY <1>4, HandlerReceiveRows, Zenon DEF Reads
<1>5. CASE HandlerReadFails(g)
  BY <1>2, <1>3, <1>5, Zenon DEF HandlerReadFails, Fail, streamVars
<1>6. CASE HandlerDecode(g)
  BY <1>2, <1>3, <1>6, Zenon DEF HandlerDecode, Fail, streamVars
<1>7. CASE HandlerSend(g) \/ HandlerInterrupted(g)
  BY <1>2, <1>7, Zenon DEF HandlerSend, HandlerInterrupted, streamVars
<1>8. CASE HandlerClose(g) \/ HandlerDispatch(g)
  BY <1>3, <1>8, Zenon DEF HandlerClose, HandlerDispatch, Fail
<1> QED
  BY <1>4, <1>5, <1>6, <1>7, <1>8, Zenon DEF Serving, HandlerStep

\* The request in progress is never garbled: once its header has been read, what
\* follows is its payload.
LEMMA CurrentIntact ==
  ASSUME StateOK, CurrentInv, cpc # "idle", NEW g \in Conns, g = descriptor,
         1 \in 1..Len(Upward[g]), Upward[g][1].of = request,
         Correlated(hreader[g]), Complete(hreader[g])
  PROVE  Intact(hreader[g].got) /\ hreader[g].size = PayloadBytes
<1>1. Upward[g][1].at = HeaderBytes + 1 /\ hreader[g].size # 0
  BY Zenon, CorrelatedFirst
<1>2. Len(Upward[g]) > 0 /\ Len(Upward[g]) \in Nat
  BY ReaderRows
<1>3. hreader[g].size = PayloadBytes
  BY <1>1, <1>2, Zenon DEF CurrentInv, Is
<1>4. Len(hreader[g].got) = PayloadBytes
  BY <1>3, Zenon DEF Complete
<1>5. Front(Upward[g], hreader[g].got)
  BY Zenon, Fronts
<1>6. \A i \in 1..PayloadBytes : Is(hreader[g].got[i], request, HeaderBytes + i)
  <2> TAKE i \in 1..PayloadBytes
  <2>1. i \in 1..Len(Upward[g]) /\ 1 <= i /\ hreader[g].got[i] = Upward[g][i]
    BY <1>2, <1>4, <1>5, Sizes DEF Front
  <2>2. Trailing(Upward[g], request)
    BY Zenon DEF CurrentInv
  <2>3. Is(Upward[g][i], request, Upward[g][1].at + (i - 1))
    BY <2>1, <2>2, Zenon DEF Trailing
  <2>4. Upward[g][1].at + (i - 1) = HeaderBytes + i
    BY <1>1, Sizes
  <2> QED
    BY <2>1, <2>3, <2>4, Zenon
<1>7. hreader[g].got \in Seq(Bytes) /\ request \in Messages
  BY Zenon, ReaderTypes DEF StateOK, HandlerOK, ClientOK
<1>8. Len(hreader[g].got) > 0
  BY Zenon, <1>4, Sizes
<1> QED
  BY <1>3, <1>4, <1>6, <1>7, <1>8, IntactBytes, Zenon

\* The frame of a request that is new to the row is its end.
LEMMA ExtendedTrailing ==
  ASSUME NEW s \in Seq(Bytes), NEW t \in Seq(Bytes), NEW m, Extended(s, t, m),
         \A i \in 1..Len(s) : s[i].of # m
  PROVE  /\ Trailing(t, m)
         /\ Len(t) > 0 => ~Is(t[1], m, HeaderBytes + 1)
<1>1. /\ Len(s) \in Nat /\ Len(t) \in Nat
      /\ \A i \in 1..Len(t) : \/ i \in 1..Len(s) /\ t[i] = s[i]
                              \/ i > Len(s) /\ Is(t[i], m, i - Len(s))
  BY Zenon, ExtendedBytes
<1>2. \A i \in 1..Len(t) : t[i].of = m => i > Len(s) /\ t[i].at = i - Len(s)
  BY <1>1, Zenon DEF Is
<1>3. \A i \in 1..Len(t) : i > Len(s) => t[i].of = m /\ t[i].at = i - Len(s)
  BY <1>1 DEF Is
<1>4. Trailing(t, m)
  <2> SUFFICES ASSUME NEW i \in 1..Len(t), NEW j \in 1..Len(t), i <= j
               PROVE  /\ t[i].of = m => Is(t[j], m, t[i].at + (j - i))
                      /\ t[j].of = m /\ t[j].at > j - i => Is(t[i], m, t[j].at - (j - i))
    BY Zenon DEF Trailing
  <2>1. t[i].of = m => Is(t[j], m, t[i].at + (j - i))
    BY <1>1, <1>2, <1>3 DEF Is
  <2>2. t[j].of = m /\ t[j].at > j - i => Is(t[i], m, t[j].at - (j - i))
    BY <1>1, <1>2, <1>3 DEF Is
  <2> QED
    BY Zenon, <2>1, <2>2
<1>5. Len(t) > 0 => ~Is(t[1], m, HeaderBytes + 1)
  <2>1. Len(t) > 0 => 1 \in 1..Len(t)
    BY <1>1
  <2> QED
    BY <1>1, <1>2, <2>1, Sizes DEF Is
<1> QED
  BY Zenon, <1>4, <1>5

\* The bytes of a new request are unlike all that went before.
LEMMA NewRequest ==
  ASSUME ExchangeInv, StateOK', CallBegin, NEW g \in Conns, g = descriptor,
         next_request_id # 0, request' = Message("request", calls', next_request_id)
  PROVE  /\ request'.call = calls' /\ request'.id = next_request_id /\ request'.kind = "request"
         /\ \A h \in Conns : \A i \in 1..Len(Upward[h]) : Upward[h][i].of.call # request'.call
         /\ \A i \in 1..Len(Upward[g]) : Upward[g][i].of.id # request'.id
         /\ \A i \in 1..Len(Downward[g]) : /\ Downward[g][i].of.id # request'.id
                                           /\ Downward[g][i].of.call # request'.call
<1>1. StateOK /\ MessageInv
  BY Zenon DEF ExchangeInv
<1>2. request'.call = calls' /\ request'.id = next_request_id /\ request'.kind = "request"
  BY Zenon DEF Message
<1>3. IdBound(g) = next_request_id /\ next_request_id \in Nat
  BY <1>1, NextIdIs DEF IdBound
<1>4. calls' = calls + 1 /\ calls \in Nat
  BY <1>1 DEF CallBegin, StateOK, HistoryOK
<1>5. ASSUME NEW h \in Conns, NEW i \in 1..Len(Upward[h])
      PROVE  Upward[h][i].of.call # request'.call /\ (h = g => Upward[h][i].of.id # request'.id)
  <2>1. Asked(Upward[h][i].of, calls, IdBound(h)) /\ Upward[h][i].of \in Messages
    BY <1>1, <1>5, BothRows, Zenon DEF MessageInv
  <2>2. Upward[h][i].of.id \in Nat
    BY <2>1 DEF Messages, Ids
  <2> QED
    BY <1>2, <1>3, <1>4, <2>1, <2>2 DEF Asked
<1>6. ASSUME NEW i \in 1..Len(Downward[g])
      PROVE  Downward[g][i].of.id # request'.id /\ Downward[g][i].of.call # request'.call
  <2>1. /\ Told(Downward[g][i].of, calls, IdBound(g), g \in Failing, executed)
        /\ Downward[g][i].of \in Messages
    BY <1>1, <1>6, BothRows, Zenon DEF MessageInv
  <2>2. Downward[g][i].of.id \in Nat
    BY <2>1 DEF Messages, Ids
  <2>3. Downward[g][i].of.call \in 0..calls /\ Downward[g][i].of.id < IdBound(g)
    BY <2>1, Zenon DEF Told
  <2> QED
    BY <1>2, <1>3, <1>4, <2>2, <2>3
<1> QED
  BY Zenon, <1>2, <1>5, <1>6

\* Before the bytes of the request in progress are those it begins with.
LEMMA TrailingBack ==
  ASSUME NEW s, NEW m, Trailing(s, m), NEW i \in 1..Len(s), NEW j \in 1..Len(s), i <= j,
         NEW n, s[j].of = m, s[j].at = n, n > j - i
  PROVE  Is(s[i], m, n - (j - i))
BY Zenon DEF Trailing

\* The bytes of a row that a frame was added to, by their messages.
LEMMA ExtendedOf ==
  ASSUME NEW s \in Seq(Bytes), NEW t \in Seq(Bytes), NEW m, Extended(s, t, m)
  PROVE  \A i \in 1..Len(t) :
           \/ i \in 1..Len(s) /\ t[i] = s[i]
           \/ i > Len(s) /\ t[i].of = m /\ t[i].at = i - Len(s)
BY ExtendedBytes DEF Is

OwnBytes(h) ==
  \A i \in 1..Len(Upward[h]) :
    \/ Upward[h][i].of.call = request.call
    \/ h = descriptor /\ Upward[h][i].of.id = request.id
    => h = descriptor /\ Upward[h][i].of = request
OwnAnswers(g) ==
  \A i \in 1..Len(Downward[g]) :
    Downward[g][i].of.id = request.id => Downward[g][i].of.call = request.call
Sized(g) ==
  /\ hreader[g].size # 0 /\ Len(Upward[g]) > 0
  /\ Is(Upward[g][1], request, HeaderBytes + 1)
  => hreader[g].size = PayloadBytes

\* The header of a frame comes before its first payload byte.
LEMMA BackWithin ==
  ASSUME NEW n \in Nat, NEW h \in Nat, NEW i \in 1..h, 1 + h \in 1..n
  PROVE  /\ i \in 1..n /\ i <= 1 + h
         /\ h + 1 > 1 + h - i /\ (h + 1) - (1 + h - i) = i
OBVIOUS

\* What the handler does with the request in progress.
LEMMA ServedCurrent ==
  ASSUME StateOK, StateOK', HandlerInv, CurrentInv, cpc # "idle", NEW g \in Conns,
         g = descriptor, Serving(g)
  PROVE  OwnAnswers(g)' /\ Trailing(Upward'[g], request) /\ Sized(g)'
<1>1. /\ UNCHANGED <<request, descriptor, cpc>> /\ request \in Messages /\ request.id # 0
      /\ hreader \in [Conns -> Readers]
  BY Zenon DEF Serving, Apart, clientVars, StateOK, ClientOK, HandlerOK
<1>2. OwnAnswers(g) /\ Trailing(Upward[g], request) /\ Sized(g) /\ OwnBytes(g)
  BY Zenon DEF CurrentInv, OwnAnswers, Sized, OwnBytes
<1>3. /\ Upward[g] \in Seq(Bytes) /\ Upward'[g] \in Seq(Bytes)
      /\ Downward[g] \in Seq(Bytes) /\ Downward'[g] \in Seq(Bytes)
      /\ Len(Upward[g]) \in Nat /\ Len(Upward'[g]) \in Nat
  BY Zenon, BothRows
<1>4. Trailing(Upward'[g], request)
  <2>1. PICK k \in Nat : Part(Upward[g], Upward'[g], k)
    BY Zenon DEF Serving, Served
  <2> QED
    BY <1>2, <1>3, <2>1, PartTrailing, Zenon
<1>5. Sized(g)'
  <2>1. CASE hreader'[g] = NewReader
    BY <2>1 DEF Sized, NewReader
  <2>2. CASE hreader'[g] = hreader[g] /\ UpKept(g)
    BY <1>1, <1>2, <2>2, Zenon DEF Sized, UpKept
  <2>3. CASE Advanced(hreader[g], hreader'[g], Upward[g], Upward'[g])
    <3>1. CASE Upward'[g] = Upward[g] /\ hreader'[g].size = hreader[g].size
      BY <1>1, <1>2, <3>1, Zenon DEF Sized
    <3>2. CASE /\ Part(Upward[g], Upward'[g], HeaderBytes)
               /\ \A m \in Messages : (\A i \in 1..HeaderBytes : Is(Upward[g][i], m, i)) =>
                    hreader'[g].size = PayloadBytes
      <4>1. SUFFICES ASSUME Len(Upward'[g]) > 0, Is(Upward'[g][1], request, HeaderBytes + 1)
                     PROVE  hreader'[g].size = PayloadBytes
        BY <1>1, <4>1, Zenon DEF Sized
      <4>2. 1 \in 1..Len(Upward'[g])
        BY <1>3, <4>1
      <4>3. 1 + HeaderBytes \in 1..Len(Upward[g]) /\ Upward'[g][1] = Upward[g][1 + HeaderBytes]
        BY <1>3, <3>2, <4>2, PartBytes
      <4>4. /\ Upward[g][1 + HeaderBytes].of = request
            /\ Upward[g][1 + HeaderBytes].at = HeaderBytes + 1
        BY <4>1, <4>3, Zenon DEF Is
      <4>5. ASSUME NEW i \in 1..HeaderBytes
            PROVE  Is(Upward[g][i], request, i)
        <5>1. /\ i \in 1..Len(Upward[g]) /\ i <= 1 + HeaderBytes
              /\ HeaderBytes + 1 > 1 + HeaderBytes - i
              /\ (HeaderBytes + 1) - (1 + HeaderBytes - i) = i
          <6>1. /\ HeaderBytes \in Nat /\ Len(Upward[g]) \in Nat
                /\ 1 + HeaderBytes \in 1..Len(Upward[g])
            BY <1>3, <4>3, Sizes, Zenon
          <6> QED
            BY <6>1, BackWithin
        <5>2. Is(Upward[g][i], request, (HeaderBytes + 1) - (1 + HeaderBytes - i))
          BY <1>2, <4>3, <4>4, <5>1, TrailingBack
        <5> QED
          BY <5>1, <5>2, Zenon
      <4> QED
        BY <1>1, <3>2, <4>5, Zenon
    <3> QED
      BY <2>3, <3>1, <3>2, Zenon DEF Advanced
  <2> QED
    BY <2>1, <2>2, <2>3, ServingReads, Zenon DEF Reads
<1>6. OwnAnswers(g)'
  <2>1. ASSUME NEW k, Part(Downward[g], Downward'[g], k)
        PROVE  OwnAnswers(g)'
    <3>1. \A i \in 1..Len(Downward'[g]) :
            i + k \in 1..Len(Downward[g]) /\ Downward'[g][i] = Downward[g][i + k]
      BY <1>3, <2>1, PartBytes
    <3>2. ASSUME NEW i \in 1..Len(Downward'[g]), Downward'[g][i].of.id = request'.id
          PROVE  Downward'[g][i].of.call = request'.call
      BY <1>1, <1>2, <3>1, <3>2, Zenon DEF OwnAnswers
    <3> QED
      BY <3>2, Zenon DEF OwnAnswers
  <2>2. ASSUME NEW m \in Messages, Reply(g, m)
        PROVE  OwnAnswers(g)'
    <3>1. ASSUME m.id = request.id
          PROVE  m.call = request.call
      <4>1. m # Sentinel
        BY <1>1, <3>1 DEF Sentinel, Message
      <4>2. /\ 1 \in 1..Len(Upward[g]) /\ Correlated(hreader[g]) /\ m.id = Upward[g][1].of.id
            /\ Carries(m, Upward[g][1]) \/ Garbled(g)
        BY <2>2, <4>1, ReplyIs DEF Carries
      <4>3. Upward[g][1].of = request
        BY <1>2, <3>1, <4>2, Zenon DEF OwnBytes
      <4>4. ~Garbled(g)
        BY <4>2, <4>3, CurrentIntact, Zenon DEF Garbled
      <4> QED
        BY <4>2, <4>3, <4>4, Zenon DEF Carries
    <3>2. \A i \in 1..Len(Downward'[g]) : \/ i \in 1..Len(Downward[g]) /\ Downward'[g][i] = Downward[g][i]
                                          \/ Downward'[g][i].of = m
      <4>1. Extended(Downward[g], Downward'[g], m)
        BY <2>2, Zenon DEF Reply, Answered
      <4> QED
        BY <1>3, <4>1, ExtendedOf
    <3> QED
      BY <1>1, <1>2, <3>1, <3>2, Zenon DEF OwnAnswers
  <2>3. Part(Downward[g], Downward[g], 0)
    BY Zenon, <1>3, PartSame
  <2> QED
    BY <2>1, <2>2, <2>3, Zenon DEF Serving, Served, Replies, DownKept
<1> QED
  BY <1>4, <1>5, <1>6, Zenon

\* The request in progress stays apart from the others on every row.
LEMMA CurrentInvStep ==
  ASSUME ExchangeInv, StateOK', Next
  PROVE  CurrentInv'
<1>1. StateOK /\ CallInv /\ HandlerInv /\ CurrentInv
  BY Zenon DEF ExchangeInv
<1>2. cpc # "idle" => descriptor \in Conns
  BY <1>1 DEF StateOK, ClientOK, Conns
<1>3. cpc # "idle" => /\ \A h \in Conns : OwnBytes(h)
                      /\ OwnAnswers(descriptor) /\ Trailing(Upward[descriptor], request)
                      /\ Sized(descriptor)
  BY <1>1, Zenon DEF CurrentInv, OwnBytes, OwnAnswers, Sized
<1>4. SUFFICES ASSUME NEW g \in Conns, cpc' # "idle", g = descriptor'
               PROVE  /\ \A h \in Conns : OwnBytes(h)'
                      /\ OwnAnswers(g)' /\ Trailing(Upward'[g], request') /\ Sized(g)'
  <2>1. ASSUME cpc' # "idle"
        PROVE  descriptor' \in Conns
    BY <2>1 DEF StateOK, ClientOK, Conns
  <2>2. ASSUME cpc' # "idle"
        PROVE  /\ \A h \in Conns : OwnBytes(h)'
               /\ OwnAnswers(descriptor)' /\ Trailing(Upward'[descriptor'], request')
               /\ Sized(descriptor)'
    <3>1. PICK g \in Conns : g = descriptor'
      BY <2>1, <2>2, Zenon
    <3>2. /\ \A h \in Conns : OwnBytes(h)'
          /\ OwnAnswers(g)' /\ Trailing(Upward'[g], request') /\ Sized(g)'
      BY <1>4, <2>2, <3>1, Zenon
    <3> QED
      BY <3>1, <3>2, Zenon DEF OwnAnswers, Sized
  <2> QED
    BY <2>2, Zenon DEF CurrentInv, OwnBytes, OwnAnswers, Sized
<1>5. ASSUME cpc # "idle", UNCHANGED <<request, descriptor, hreader>>,
             \A h \in Conns : UpKept(h), NEW k, Part(Downward[g], Downward'[g], k)
      PROVE  /\ \A h \in Conns : OwnBytes(h)'
             /\ OwnAnswers(g)' /\ Trailing(Upward'[g], request') /\ Sized(g)'
  <2>1. g = descriptor /\ OwnAnswers(g) /\ Sized(g) /\ Trailing(Upward[g], request)
    BY <1>3, <1>4, <1>5, Zenon DEF OwnAnswers, Sized
  <2>2. \A h \in Conns : OwnBytes(h)'
    BY <1>3, <1>5, Zenon DEF OwnBytes, UpKept
  <2>3. \A i \in 1..Len(Downward'[g]) :
          i + k \in 1..Len(Downward[g]) /\ Downward'[g][i] = Downward[g][i + k]
    BY <1>1, <1>5, BothRows, PartBytes
  <2>4. OwnAnswers(g)'
    BY <1>5, <2>1, <2>3, ZenonT(60) DEF OwnAnswers
  <2>5. Trailing(Upward'[g], request') /\ Sized(g)'
    BY <1>5, <2>1, Zenon DEF UpKept, Sized
  <2> QED
    BY <2>2, <2>4, <2>5, Zenon
<1>6. Part(Downward[g], Downward[g], 0)
  BY Zenon, <1>1, BothRows, PartSame
<1>7. ASSUME NEW h \in Conns, Opening(h)
      PROVE  /\ \A x \in Conns : OwnBytes(x)'
             /\ OwnAnswers(g)' /\ Trailing(Upward'[g], request') /\ Sized(g)'
  <2>1. /\ UNCHANGED <<cpc, request, descriptor, hreader>> /\ hpc[h] = "unused"
        /\ \A x \in Conns : UpKept(x) /\ (x # h => DownKept(x))
    BY <1>7, Zenon DEF Opening, Opened
  <2>2. h # descriptor
    BY <1>1, <2>1, Zenon DEF HandlerInv
  <2>3. Part(Downward[g], Downward'[g], 0)
    BY <1>4, <1>6, <2>1, <2>2, Zenon DEF DownKept
  <2> QED
    BY <1>4, <1>5, <2>1, <2>3, Zenon
<1>8. CASE (\E h \in Conns : ConnectInstall(h)) \/ Disconnect \/ (\E how : Ending(how))
  BY <1>4, <1>8, Zenon DEF ConnectInstall, Disconnect, Ending, EndCall
<1>9. CASE CallBegin /\ Called
  <2>1. /\ descriptor' = descriptor /\ descriptor \in Conns
        /\ next_request_id # 0 /\ request' = Message("request", calls', next_request_id)
        /\ Extended(Upward[descriptor], Upward'[descriptor], request')
        /\ \A h \in Conns : DownKept(h) /\ (h # descriptor => UpKept(h))
    BY <1>4, <1>9, Zenon DEF Called
  <2>2. g = descriptor
    BY <1>4, <2>1, Zenon
  <2>3. /\ \A h \in Conns : \A i \in 1..Len(Upward[h]) : Upward[h][i].of.call # request'.call
        /\ \A i \in 1..Len(Upward[g]) : Upward[g][i].of.id # request'.id
        /\ \A i \in 1..Len(Downward[g]) : Downward[g][i].of.id # request'.id
    BY <1>9, <2>1, <2>2, NewRequest, Zenon
  <2>4. Extended(Upward[g], Upward'[g], request') /\ Upward[g] \in Seq(Bytes) /\ Upward'[g] \in Seq(Bytes)
    BY Zenon, <1>1, <2>1, <2>2, BothRows
  <2>5. ASSUME NEW h \in Conns
        PROVE  OwnBytes(h)'
    <3>1. CASE h # g
      BY <2>1, <2>2, <2>3, <3>1, Zenon DEF OwnBytes, UpKept
    <3>2. CASE h = g
      <4>1. \A i \in 1..Len(Upward'[g]) : \/ i \in 1..Len(Upward[g]) /\ Upward'[g][i] = Upward[g][i]
                                          \/ Upward'[g][i].of = request'
        BY <2>4, ExtendedOf
      <4>2. ASSUME NEW i \in 1..Len(Upward'[h]), Upward'[h][i].of # request'
            PROVE  /\ Upward'[h][i].of.call # request'.call
                   /\ Upward'[h][i].of.id # request'.id
        BY <2>3, <3>2, <4>1, <4>2, Zenon
      <4> QED
        BY <1>4, <3>2, <4>2, Zenon DEF OwnBytes
    <3> QED
      BY Zenon, <3>1, <3>2
  <2>6. OwnAnswers(g)'
    BY <2>1, <2>3, Zenon DEF OwnAnswers, DownKept
  <2>7. \A i \in 1..Len(Upward[g]) : Upward[g][i].of # request'
    BY <2>3, Zenon
  <2>8. /\ Trailing(Upward'[g], request')
        /\ Len(Upward'[g]) > 0 => ~Is(Upward'[g][1], request', HeaderBytes + 1)
    BY <2>4, <2>7, ExtendedTrailing, Zenon
  <2>9. Sized(g)'
    BY <2>8, Zenon DEF Sized
  <2> QED
    BY <2>5, <2>6, <2>8, <2>9, Zenon
<1>10. CASE ClientSend /\ Still
  <2>1. cpc # "idle" /\ UNCHANGED <<request, descriptor, hreader>>
    BY Zenon, <1>10 DEF ClientSend, handlerVars
  <2>2. Part(Downward[g], Downward'[g], 0)
    BY <1>6, <1>10, Zenon DEF Still, DownKept
  <2> QED
    BY <1>5, <1>10, <2>1, <2>2, Zenon DEF Still
<1>11. CASE Receiving
  <2>1. cpc # "idle" /\ UNCHANGED <<request, descriptor, hreader>>
    BY Zenon, <1>11 DEF Receiving, ClientReceive, handlerVars
  <2>2. \E k \in Nat : Part(Downward[g], Downward'[g], k)
    BY <1>1, <1>4, <1>11, <2>1, BothRows, AdvancedIsPart, Zenon DEF Receiving
  <2> QED
    BY <1>5, <1>11, <2>1, <2>2, Zenon DEF Receiving
<1>12. ASSUME NEW h \in Conns, Serving(h)
       PROVE  /\ \A x \in Conns : OwnBytes(x)'
              /\ OwnAnswers(g)' /\ Trailing(Upward'[g], request') /\ Sized(g)'
  <2>1. /\ UNCHANGED <<cpc, request, descriptor>>
        /\ \A x \in Conns : x # h => UpKept(x) /\ DownKept(x) /\ hreader'[x] = hreader[x]
    BY <1>12, Zenon DEF Serving, Apart, clientVars
  <2>2. cpc # "idle" /\ g = descriptor /\ \A x \in Conns : OwnBytes(x)
    BY <1>3, <1>4, <2>1, Zenon
  <2>3. OwnBytes(h)'
    <3>1. PICK k \in Nat : Part(Upward[h], Upward'[h], k)
      BY <1>12, Zenon DEF Serving, Served
    <3>2. \A i \in 1..Len(Upward'[h]) :
            i + k \in 1..Len(Upward[h]) /\ Upward'[h][i] = Upward[h][i + k]
      BY <1>1, <3>1, BothRows, PartBytes
    <3>3. ASSUME NEW i \in 1..Len(Upward'[h]),
                 \/ Upward'[h][i].of.call = request.call
                 \/ h = descriptor /\ Upward'[h][i].of.id = request.id
          PROVE  h = descriptor /\ Upward'[h][i].of = request
      <4>1. i + k \in 1..Len(Upward[h]) /\ Upward'[h][i] = Upward[h][i + k]
        BY <3>2, Zenon
      <4> QED
        BY <2>2, <3>3, <4>1, Zenon DEF OwnBytes
    <3> QED
      BY <2>1, <3>3, Zenon DEF OwnBytes
  <2>4. \A x \in Conns : OwnBytes(x)'
    BY <2>1, <2>2, <2>3, ZenonT(60) DEF OwnBytes, UpKept
  <2>5. CASE h = g
    BY <1>1, <1>12, <2>1, <2>2, <2>4, <2>5, ServedCurrent, Zenon
  <2>6. CASE h # g
    <3>1. OwnAnswers(g) /\ Sized(g) /\ Trailing(Upward[g], request)
      BY <1>3, <2>2, Zenon DEF OwnAnswers, Sized
    <3>2. OwnAnswers(g)' /\ Trailing(Upward'[g], request') /\ Sized(g)'
      BY <2>1, <2>6, <3>1, Zenon DEF OwnAnswers, Sized, UpKept, DownKept
    <3> QED
      BY <2>4, <3>2, Zenon
  <2> QED
    BY Zenon, <2>5, <2>6
<1> QED
  BY <1>1, <1>7, <1>8, <1>9, <1>10, <1>11, <1>12, StepCases, Zenon

-----------------------------------------------------------------------------
(* Executed at most once                                                     *)

UpwardParts == \A h \in Conns : \E k \in Nat : Part(Upward[h], Upward'[h], k)

\* Only the beginning of a call adds bytes for a handler.
Requested ==
  /\ CallBegin /\ Called /\ cpc' = "write" /\ descriptor \in Conns
  /\ descriptor' = descriptor /\ next_request_id # 0
  /\ request' = Message("request", calls', next_request_id)
  /\ Extended(Upward[descriptor], Upward'[descriptor], request')
  /\ \A h \in Conns : DownKept(h) /\ (h # descriptor => UpKept(h))

\* Bytes of requests only ever leave the rows, but for those of a new request.
LEMMA RowsShrink ==
  ASSUME ExchangeInv, StateOK', Next
  PROVE  UpwardParts \/ Requested
<1>1. StateOK /\ CallInv /\ HandlerInv
  BY Zenon DEF ExchangeInv
<1>2. \A h \in Conns : Part(Upward[h], Upward[h], 0)
  BY Zenon, <1>1, BothRows, PartSame
<1>3. 0 \in Nat
  BY Zenon
<1>4. CASE \A h \in Conns : UpKept(h)
  BY <1>2, <1>3, <1>4, Zenon DEF UpwardParts, UpKept
<1>5. CASE (\E g \in Conns : Opening(g) \/ (ConnectInstall(g) /\ Still)) \/ (Disconnect /\ Still)
  BY <1>4, <1>5, Zenon DEF Opening, Opened, Still
<1>6. CASE (ClientSend /\ Still) \/ Receiving
  BY <1>4, <1>6, Zenon DEF Receiving, Still
<1>7. CASE CallBegin /\ Called
  BY <1>4, <1>7, Zenon DEF Called, Requested
<1>8. CASE \E how : Ending(how)
  BY <1>2, <1>3, <1>8, Zenon DEF Ending, Ended, UpwardParts, UpKept
<1>9. CASE \E g \in Conns : Serving(g)
  BY <1>2, <1>3, <1>9, Zenon DEF Serving, Apart, Served, UpwardParts, UpKept
<1> QED
  BY <1>1, <1>5, <1>6, <1>7, <1>8, <1>9, StepCases, Zenon

\* The last byte of a request in a part is the one in the row.
LEMMA PartFinal ==
  ASSUME StateOK, StateOK', NEW h \in Conns, NEW k, Part(Upward[h], Upward'[h], k),
         NEW i \in 1..Len(Upward'[h]), NEW c, Final(Upward'[h][i], c)
  PROVE  i + k \in 1..Len(Upward[h]) /\ Final(Upward[h][i + k], c) /\ k \in Nat
<1>1. i + k \in 1..Len(Upward[h]) /\ Upward'[h][i] = Upward[h][i + k] /\ k \in Nat
  BY BothRows, PartBytes
<1> QED
  BY <1>1, Zenon

\* And in a row to which a request was added it is an earlier one, or the end.
LEMMA RequestedFinal ==
  ASSUME ExchangeInv, StateOK', Requested, NEW h \in Conns,
         NEW i \in 1..Len(Upward'[h]), NEW c, Final(Upward'[h][i], c)
  PROVE  \/ i \in 1..Len(Upward[h]) /\ Final(Upward[h][i], c) /\ c # calls'
         \/ h = descriptor /\ i = Len(Upward[h]) + FrameBytes /\ c = calls'
<1>1. StateOK /\ Len(Upward[h]) \in Nat /\ FrameBytes \in Nat
  BY Zenon, BothRows, Sizes DEF ExchangeInv
<1>2. /\ request'.call = calls'
      /\ \A x \in 1..Len(Upward[h]) : Upward[h][x].of.call # request'.call
  <2>1. PICK g \in Conns : g = descriptor
    BY Zenon DEF Requested
  <2> QED
    BY <2>1, NewRequest, Zenon DEF Requested
<1>3. ASSUME i \in 1..Len(Upward[h]), Upward'[h][i] = Upward[h][i]
      PROVE  Final(Upward[h][i], c) /\ c # calls'
  BY <1>2, <1>3, Zenon DEF Final
<1>4. CASE h # descriptor
  <2>1. Upward'[h] = Upward[h]
    BY <1>4, Zenon DEF Requested, UpKept
  <2> QED
    BY <1>3, <2>1, Zenon
<1>5. CASE h = descriptor
  <2>1. \/ i \in 1..Len(Upward[h]) /\ Upward'[h][i] = Upward[h][i]
        \/ i > Len(Upward[h]) /\ Upward'[h][i].of = request' /\ Upward'[h][i].at = i - Len(Upward[h])
    <3>1. /\ Extended(Upward[h], Upward'[h], request')
          /\ Upward[h] \in Seq(Bytes) /\ Upward'[h] \in Seq(Bytes)
      BY <1>1, <1>5, BothRows, Zenon DEF Requested
    <3> QED
      BY Zenon, <3>1, ExtendedOf
  <2>2. CASE i > Len(Upward[h]) /\ Upward'[h][i].of = request' /\ Upward'[h][i].at = i - Len(Upward[h])
    <3>1. c = calls' /\ i - Len(Upward[h]) = FrameBytes
      BY <1>2, <2>2, Zenon DEF Final
    <3>2. i = Len(Upward[h]) + FrameBytes
      BY <1>1, <3>1
    <3> QED
      BY Zenon, <1>5, <3>1, <3>2
  <2> QED
    BY <1>3, <2>1, <2>2, Zenon
<1> QED
  BY Zenon, <1>4, <1>5

\* The request that is dispatched ends where its payload ends.
LEMMA DispatchedFinal ==
  ASSUME StateOK, StateOK', HandlerInv, OnceInv, NEW g \in Conns, HandlerDispatch(g),
         hrequest[g].call # 0
  PROVE  /\ Whole(g) /\ PayloadBytes \in 1..Len(Upward[g])
         /\ Final(Upward[g][PayloadBytes], hrequest[g].call)
         /\ Part(Upward[g], Upward'[g], PayloadBytes)
<1>1. hpc[g] = "dispatch" /\ Dropped(g)
  BY DispatchRows, Zenon DEF HandlerDispatch
<1>2. Whole(g)
  <2>1. ~Garbled(g)
    <3>1. 1 \in 1..Len(Upward[g])
      BY <1>1, Dispatching, Zenon
    <3>2. Upward[g][1].of \in Messages
      BY <3>1, BothRows, Zenon
    <3>3. [Upward[g][1].of EXCEPT !.call = 0].call = 0
      BY Zenon, <3>2 DEF Messages
    <3> QED
      BY <3>3, Zenon DEF Garbled
  <2> QED
    BY <1>1, <2>1, Dispatching, Zenon
<1>3. PayloadBytes \in 1..Len(Upward[g]) /\ PayloadBytes \in 1..PayloadBytes
      /\ HeaderBytes + PayloadBytes = FrameBytes
  BY <1>2, BothRows, Sizes DEF Whole
<1>4. Is(Upward[g][PayloadBytes], hrequest[g], FrameBytes) /\ Len(hreader[g].got) = PayloadBytes
  BY <1>2, <1>3, Zenon DEF Whole
<1> QED
  BY <1>1, <1>2, <1>3, <1>4, Zenon DEF Is, Final, Dropped

\* No request is executed twice: its last byte is in one place, and gone when it
\* is dispatched.
LEMMA OnceInvStep ==
  ASSUME ExchangeInv, StateOK', Next
  PROVE  OnceInv'
<1>1. StateOK /\ CallInv /\ HandlerInv /\ MessageInv /\ OnceInv
  BY Zenon DEF ExchangeInv
<1>2. executed \in [Calls -> Nat]
  BY <1>1, Zenon DEF StateOK, HistoryOK
<1>3. SUFFICES
        /\ \A g, h \in Conns, c \in Calls :
             \A i \in 1..Len(Upward'[g]), j \in 1..Len(Upward'[h]) :
               Final(Upward'[g][i], c) /\ Final(Upward'[h][j], c) => g = h /\ i = j
        /\ \A g \in Conns, c \in Calls : \A i \in 1..Len(Upward'[g]) :
             Final(Upward'[g][i], c) => executed'[c] = 0
        /\ \A c \in Calls : executed'[c] \in {0, 1}
  BY <1>3, Zenon DEF OnceInv, Final
<1>4. CASE Requested
  <2>1. executed' = executed /\ calls' = calls + 1 /\ calls \in Nat /\ calls' \in Calls
    BY <1>1, <1>4 DEF Requested, CallBegin, StateOK, HistoryOK, Calls
  <2>2. executed'[calls'] = 0
    <3>1. calls' > calls
      BY <2>1
    <3> QED
      BY <1>1, <2>1, <3>1, Zenon DEF CallInv
  <2>3. ASSUME NEW g \in Conns, NEW h \in Conns, NEW c \in Calls,
               NEW i \in 1..Len(Upward'[g]), NEW j \in 1..Len(Upward'[h]),
               Final(Upward'[g][i], c), Final(Upward'[h][j], c)
        PROVE  g = h /\ i = j
    <3>1. \/ i \in 1..Len(Upward[g]) /\ Final(Upward[g][i], c) /\ c # calls'
          \/ g = descriptor /\ i = Len(Upward[g]) + FrameBytes /\ c = calls'
      BY <1>4, <2>3, RequestedFinal, Zenon
    <3>2. \/ j \in 1..Len(Upward[h]) /\ Final(Upward[h][j], c) /\ c # calls'
          \/ h = descriptor /\ j = Len(Upward[h]) + FrameBytes /\ c = calls'
      BY <1>4, <2>3, RequestedFinal, Zenon
    <3> QED
      BY <1>1, <3>1, <3>2 DEF OnceInv
  <2>4. ASSUME NEW g \in Conns, NEW c \in Calls, NEW i \in 1..Len(Upward'[g]),
               Final(Upward'[g][i], c)
        PROVE  executed'[c] = 0
    <3>1. \/ i \in 1..Len(Upward[g]) /\ Final(Upward[g][i], c) /\ c # calls'
          \/ g = descriptor /\ i = Len(Upward[g]) + FrameBytes /\ c = calls'
      BY <1>4, <2>4, RequestedFinal, Zenon
    <3> QED
      BY Zenon, <1>1, <2>1, <2>2, <3>1 DEF OnceInv
  <2>5. \A c \in Calls : executed'[c] \in {0, 1}
    BY <1>1, <2>1, Zenon DEF OnceInv
  <2>6. \A g \in Conns, c \in Calls : \A i \in 1..Len(Upward'[g]) :
           Final(Upward'[g][i], c) => executed'[c] = 0
    BY <2>4, Zenon
  <2>7. \A g, h \in Conns, c \in Calls :
           \A i \in 1..Len(Upward'[g]), j \in 1..Len(Upward'[h]) :
             Final(Upward'[g][i], c) /\ Final(Upward'[h][j], c) => g = h /\ i = j
    BY <2>3, Zenon
  <2> QED
    BY <2>5, <2>6, <2>7, Zenon
<1>5. CASE UpwardParts
  <2>1. ASSUME NEW g \in Conns, NEW h \in Conns, NEW c \in Calls,
               NEW i \in 1..Len(Upward'[g]), NEW j \in 1..Len(Upward'[h]),
               Final(Upward'[g][i], c), Final(Upward'[h][j], c)
        PROVE  g = h /\ i = j
    <3>1. PICK k \in Nat : Part(Upward[g], Upward'[g], k)
      BY <1>5, Zenon DEF UpwardParts
    <3>2. PICK l \in Nat : Part(Upward[h], Upward'[h], l) /\ (g = h => l = k)
      BY <1>5, <3>1, Zenon DEF UpwardParts
    <3>3. i + k \in 1..Len(Upward[g]) /\ Final(Upward[g][i + k], c)
      BY <1>1, <2>1, <3>1, PartFinal, Zenon
    <3>4. j + l \in 1..Len(Upward[h]) /\ Final(Upward[h][j + l], c)
      BY <1>1, <2>1, <3>2, PartFinal, ZenonT(60)
    <3>5. g = h /\ i + k = j + l
      BY <1>1, <3>3, <3>4 DEF OnceInv
    <3>6. Len(Upward'[g]) \in Nat /\ Len(Upward'[h]) \in Nat
      BY Zenon, <1>1, BothRows
    <3> QED
      BY <3>2, <3>5, <3>6
  <2>2. ASSUME NEW g \in Conns, NEW c \in Calls, NEW i \in 1..Len(Upward'[g]),
               Final(Upward'[g][i], c)
        PROVE  executed[c] = 0
    <3>1. PICK k \in Nat : Part(Upward[g], Upward'[g], k)
      BY <1>5, Zenon DEF UpwardParts
    <3>2. i + k \in 1..Len(Upward[g]) /\ Final(Upward[g][i + k], c)
      BY <1>1, <2>2, <3>1, PartFinal, ZenonT(60)
    <3> QED
      BY <1>1, <3>2, Zenon DEF OnceInv
  <2>3. CASE executed' = executed
    BY <1>1, <2>1, <2>2, <2>3 DEF OnceInv
  <2>4. ASSUME NEW g \in Conns, HandlerDispatch(g)
        PROVE  /\ \A h \in Conns, c \in Calls : \A i \in 1..Len(Upward'[h]) :
                    Final(Upward'[h][i], c) => executed'[c] = 0
               /\ \A c \in Calls : executed'[c] \in {0, 1}
    <3>1. \A c \in Calls : executed'[c] = IF c = hrequest[g].call
                                          THEN executed[c] + 1 ELSE executed[c]
      BY Zenon, <2>4 DEF HandlerDispatch
    <3>2. ASSUME NEW c \in Calls, c = hrequest[g].call
          PROVE  /\ executed[c] = 0 /\ executed'[c] = 1
                 /\ \A h \in Conns : \A i \in 1..Len(Upward'[h]) : ~Final(Upward'[h][i], c)
      <4>1. c # 0
        BY DEF Calls
      <4>2. /\ PayloadBytes \in 1..Len(Upward[g]) /\ Final(Upward[g][PayloadBytes], c)
            /\ Part(Upward[g], Upward'[g], PayloadBytes)
        BY <1>1, <2>4, <3>2, <4>1, DispatchedFinal, Zenon
      <4>3. executed[c] = 0
        BY <1>1, <4>2, Zenon DEF OnceInv
      <4>4. executed'[c] = 1
        BY <3>1, <3>2, <4>3
      <4>5. ASSUME NEW h \in Conns, NEW i \in 1..Len(Upward'[h]), Final(Upward'[h][i], c)
            PROVE  FALSE
        <5>1. PICK k \in Nat : Part(Upward[h], Upward'[h], k) /\ (h = g => k = PayloadBytes)
          BY <1>5, <4>2, Sizes, Zenon DEF UpwardParts
        <5>2. i + k \in 1..Len(Upward[h]) /\ Final(Upward[h][i + k], c)
          BY <1>1, <4>5, <5>1, PartFinal, Zenon
        <5>3. h = g /\ i + k = PayloadBytes
          BY <1>1, <4>2, <5>2 DEF OnceInv
        <5>4. Len(Upward'[h]) \in Nat /\ PayloadBytes \in Nat
          BY Zenon, <1>1, BothRows, Sizes
        <5> QED
          BY <5>1, <5>3, <5>4
      <4> QED
        BY Zenon, <4>3, <4>4, <4>5
    <3>3. ASSUME NEW c \in Calls, c # hrequest[g].call
          PROVE  executed'[c] = executed[c]
      BY Zenon, <3>1, <3>3
    <3>4. \A c \in Calls : executed'[c] \in {0, 1}
      BY <1>1, <3>2, <3>3, Zenon DEF OnceInv
    <3> QED
      BY <2>2, <3>2, <3>3, <3>4, Zenon
  <2>5. executed' = executed \/ \E g \in Conns : HandlerDispatch(g)
    <3>1. CASE \E g \in Conns : Serving(g)
      BY <1>1, <3>1, ServingDispatch, Zenon
    <3>2. CASE (\E g \in Conns : Opening(g) \/ ConnectInstall(g)) \/ Disconnect
      BY <3>2, Zenon DEF Opening, ConnectInstall, Disconnect, callVars
    <3>3. CASE ClientSend \/ Receiving \/ (\E how : Ending(how)) \/ CallBegin
      BY <3>3, Zenon
         DEF ClientSend, Receiving, ClientReceive, Ending, EndCall, callVars, CallBegin
    <3> QED
      BY <1>1, <3>1, <3>2, <3>3, StepCases, Zenon
  <2> QED
    BY <2>1, <2>3, <2>4, <2>5
<1> QED
  BY <1>4, <1>5, RowsShrink, Zenon

=============================================================================
