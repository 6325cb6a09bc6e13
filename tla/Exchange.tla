------------------------------ MODULE Exchange ------------------------------
(***************************************************************************)
(* A Client of src/lib/ipc/client.cpp, shared by threads, and the handlers *)
(* that serve its connections (serve_connection of server.cpp), over       *)
(* streams that carry partial frames.                                      *)
(*                                                                         *)
(* The client's mutex covers a whole call, so at most one call is in       *)
(* progress and cpc is its place; connect opens its stream before it takes *)
(* the mutex.  EINTR repeats a call and is not a step.  call numbers are   *)
(* not part of the code: they tell apart requests that have equal ids.     *)
(***************************************************************************)
EXTENDS FrameStream, Integers

CONSTANTS
  MaxConnections,    \* connections made in a behaviour
  MaxCalls,          \* calls made in a behaviour
  IdSpan,            \* request ids are below it, for 2^64
  RequestBuffer,     \* bytes of requests a stream holds before send blocks
  ResponseBuffer     \* and of responses, which may be shorter or longer

ASSUME ExchangeAssumption ==
  /\ MaxConnections \in Nat \ {0} /\ MaxCalls \in Nat \ {0}
  /\ IdSpan \in Nat \ {0, 1}
  /\ RequestBuffer \in Nat \ {0} /\ ResponseBuffer \in Nat \ {0}

VARIABLES
  descriptor,        \* connection the client owns, 0 for none
  next_request_id,   \* next correlation id, 0 once exhausted
  cpc,               \* place of the call in progress, or "idle"
  fresh,             \* connections opened by connect and not yet installed
  request,           \* request of the call in progress
  sent,              \* bytes of it written
  reader,            \* the client's read_frame
  up, down,          \* bytes on the way to the server and to the client
  clientOpen,        \* connections whose client end is open
  serverOpen,        \* connections whose server end is open
  hpc,               \* place of the handler of each connection
  hreader,           \* its read_frame
  hrequest,          \* the request it decoded
  answer,            \* the message it writes
  hsent,             \* bytes of it written
  calls,             \* calls begun
  result,            \* how each call ended
  answeredFor,       \* the call whose response a call returned
  executed,          \* how often the request of each call was dispatched
  threw              \* whether std::bad_alloc left a call after its first byte

clientVars == <<descriptor, next_request_id, cpc, fresh, request, sent, reader>>
streamVars == <<up, down, clientOpen, serverOpen>>
handlerVars == <<hpc, hreader, hrequest, answer, hsent>>
callVars == <<calls, result, answeredFor, executed, threw>>
vars == <<clientVars, streamVars, handlerVars, callVars>>

Conns == 1..MaxConnections
Calls == 1..MaxCalls
Ids == 0..IdSpan - 1

\* A message with id 0 is the failed sentinel.
Message(kind, call, id) == [kind |-> kind, call |-> call, id |-> id]
NoMessage == Message("none", 0, 0)
Sentinel == Message("failure", 0, 0)

Results == {"none", "NotConnected", "Exhausted", "NotEncoded", "WriteFailed",
            "ReadFailed", "Unknown", "Refused", "Mismatch", "Answered",
            "Failed", "Threw"}

Messages == [kind : {"none", "request", "response", "failure"},
             call : 0..MaxCalls, id : Ids]

\* Every variable has the type the code gives it: an id that is sent is never
\* the sentinel's.
TypeOK ==
  /\ descriptor \in 0..MaxConnections
  /\ next_request_id \in Ids
  /\ cpc \in {"idle", "write", "read"}
  /\ cpc # "idle" => descriptor # 0 /\ request.id # 0
  /\ fresh \subseteq Conns
  /\ request \in Messages /\ sent \in 0..FrameBytes
  /\ clientOpen \subseteq Conns /\ serverOpen \subseteq Conns
  /\ \A g \in Conns :
       /\ hpc[g] \in {"unused", "read", "dispatch", "write", "close", "gone"}
       /\ hrequest[g] \in Messages /\ answer[g] \in Messages
       /\ hsent[g] \in 0..FrameBytes
       /\ Len(up[g]) <= RequestBuffer
  /\ calls \in 0..MaxCalls
  /\ result \in [Calls -> Results]
  /\ answeredFor \in [Calls -> 0..MaxCalls]
  /\ executed \in [Calls -> Nat]
  /\ threw \in BOOLEAN

Init ==
  /\ descriptor = 0 /\ next_request_id = 1
  /\ cpc = "idle" /\ fresh = {}
  /\ request = NoMessage /\ sent = 0 /\ reader = NewReader
  /\ up = [g \in Conns |-> <<>>] /\ down = [g \in Conns |-> <<>>]
  /\ clientOpen = {} /\ serverOpen = {}
  /\ hpc = [g \in Conns |-> "unused"]
  /\ hreader = [g \in Conns |-> NewReader]
  /\ hrequest = [g \in Conns |-> NoMessage]
  /\ answer = [g \in Conns |-> NoMessage]
  /\ hsent = [g \in Conns |-> 0]
  /\ calls = 0
  /\ result = [c \in Calls |-> "none"]
  /\ answeredFor = [c \in Calls |-> 0]
  /\ executed = [c \in Calls |-> 0]
  /\ threw = FALSE

-----------------------------------------------------------------------------
(* The client.                                                               *)

\* connect_unix_socket succeeds; the server serves the stream, or answers with
\* the sentinel because it is at its bound or cannot register the handler.
ConnectOpen ==
  /\ \E g \in Conns :
       /\ hpc[g] = "unused" /\ \A h \in 1..g - 1 : hpc[h] # "unused"
       /\ fresh' = fresh \cup {g}
       /\ clientOpen' = clientOpen \cup {g}
       /\ serverOpen' = serverOpen \cup {g}
       /\ \/ hpc' = [hpc EXCEPT ![g] = "read"] /\ UNCHANGED answer
          \/ /\ hpc' = [hpc EXCEPT ![g] = "write"]
             /\ answer' = [answer EXCEPT ![g] = Sentinel]
  /\ UNCHANGED <<descriptor, next_request_id, cpc, request, sent, reader,
                 up, down, hreader, hrequest, hsent, callVars>>

\* connect takes the mutex: the old stream is closed, the sequence restarts.
ConnectInstall(g) ==
  /\ cpc = "idle" /\ g \in fresh
  /\ fresh' = fresh \ {g}
  /\ descriptor' = g /\ next_request_id' = 1
  /\ clientOpen' = clientOpen \ {descriptor}
  /\ UNCHANGED <<cpc, request, sent, reader, up, down, serverOpen, handlerVars,
                 callVars>>

\* disconnect, or the destruction of the client.
Disconnect ==
  /\ cpc = "idle" /\ descriptor # 0
  /\ descriptor' = 0
  /\ clientOpen' = clientOpen \ {descriptor}
  /\ UNCHANGED <<next_request_id, cpc, fresh, request, sent, reader, up, down,
                 serverOpen, handlerVars, callVars>>

\* Mutant: the id is not used up by the call that takes it.
NextRequestId_Kept == next_request_id

\* Mutant: the sequence runs into the sentinel's id and on.
NextRequestId_NoWrap == next_request_id + 1

\* next_request_id++
NextRequestId == (next_request_id + 1) % IdSpan

\* The beginning of call, up to the first byte: it fails without a connection,
\* when ids are exhausted, or when the request cannot be encoded.
CallBegin ==
  /\ cpc = "idle" /\ calls < MaxCalls
  /\ calls' = calls + 1
  /\ \/ /\ descriptor = 0
        /\ result' = [result EXCEPT ![calls'] = "NotConnected"]
        /\ UNCHANGED <<descriptor, next_request_id, cpc, request, clientOpen>>
     \/ /\ descriptor # 0 /\ next_request_id = 0
        /\ result' = [result EXCEPT ![calls'] = "Exhausted"]
        /\ descriptor' = 0 /\ clientOpen' = clientOpen \ {descriptor}
        /\ UNCHANGED <<next_request_id, cpc, request>>
     \/ /\ descriptor # 0 /\ next_request_id # 0
        /\ next_request_id' = NextRequestId
        /\ \/ /\ result' = [result EXCEPT ![calls'] = "NotEncoded"]
              /\ UNCHANGED <<cpc, request>>
           \/ /\ cpc' = "write"
              /\ request' = Message("request", calls', next_request_id)
              /\ UNCHANGED result
        /\ UNCHANGED <<descriptor, clientOpen>>
  /\ UNCHANGED <<fresh, sent, reader, up, down, serverOpen, handlerVars,
                 answeredFor, executed, threw>>

\* call returns or throws; its locals are gone.
EndCall(how) ==
  /\ cpc' = "idle"
  /\ request' = NoMessage /\ sent' = 0 /\ reader' = NewReader
  /\ result' = [result EXCEPT ![request.call] = how]
  /\ UNCHANGED <<next_request_id, fresh, calls, executed>>

\* descriptor.reset()
Reset ==
  /\ descriptor' = 0
  /\ clientOpen' = clientOpen \ {descriptor}

\* An allocation fails after the first byte: the exception leaves call and the
\* descriptor stays.
Throw ==
  /\ EndCall("Threw")
  /\ threw' = TRUE
  /\ UNCHANGED <<descriptor, clientOpen, answeredFor>>

\* send takes some of the bytes that are left.
ClientSend ==
  /\ cpc = "write" /\ descriptor \in serverOpen
  /\ \E n \in 1..FrameBytes - sent :
       /\ Len(up[descriptor]) + n <= RequestBuffer
       /\ up' = [up EXCEPT ![descriptor] =
                   @ \o SubSeq(Frame(request), sent + 1, sent + n)]
       /\ sent' = sent + n
  /\ cpc' = IF sent' = FrameBytes THEN "read" ELSE "write"
  /\ UNCHANGED <<descriptor, next_request_id, fresh, request, reader, down,
                 clientOpen, serverOpen, handlerVars, callVars>>

\* send fails, at the latest when the server has closed its end.
ClientSendFails ==
  /\ cpc = "write"
  /\ \/ EndCall("WriteFailed") /\ Reset /\ UNCHANGED <<answeredFor, threw>>
     \/ Throw
  /\ UNCHANGED <<up, down, serverOpen, handlerVars>>

ClientReceive ==
  /\ cpc = "read"
  /\ \E n \in 1..Len(down[descriptor]) :
       /\ n <= Wanted(reader)
       /\ reader' \in AfterBytes(reader, SubSeq(down[descriptor], 1, n))
       /\ down' = [down EXCEPT ![descriptor] = SubSeq(@, n + 1, Len(@))]
  /\ UNCHANGED <<descriptor, next_request_id, cpc, fresh, request, sent, up,
                 clientOpen, serverOpen, handlerVars, callVars>>

\* Mutant: a failed read leaves the connection in use.
ClientReadFails_KeepsConnection ==
  /\ cpc = "read" /\ ~Complete(reader)
  /\ EndCall("ReadFailed")
  /\ UNCHANGED <<descriptor, clientOpen, answeredFor, threw, up, down,
                 serverOpen, handlerVars>>

\* Mutant: the end of the stream inside a frame is waited out.
ClientReadEnds_OnlyClean ==
  /\ cpc = "read" /\ reader = NewReader
  /\ down[descriptor] = <<>> /\ descriptor \notin serverOpen
  /\ EndCall("Unknown") /\ Reset /\ UNCHANGED <<answeredFor, threw>>
  /\ UNCHANGED <<up, down, serverOpen, handlerVars>>

\* recv sees the end of the stream: before the first byte the outcome of the
\* request is unknown, inside the frame it is a truncated frame.
ClientReadEnds ==
  /\ cpc = "read" /\ Reading(reader)
  /\ down[descriptor] = <<>> /\ descriptor \notin serverOpen
  /\ \/ /\ EndCall(IF reader = NewReader THEN "Unknown" ELSE "ReadFailed")
        /\ Reset /\ UNCHANGED <<answeredFor, threw>>
     \/ Throw
  /\ UNCHANGED <<up, down, serverOpen, handlerVars>>

\* Mutant: a call whose answer cannot be read sends its request once more.
ClientReadFails_Retries ==
  /\ cpc = "read" /\ ~Complete(reader)
  /\ \/ EndCall("ReadFailed") /\ Reset /\ UNCHANGED <<answeredFor, threw>>
     \/ /\ cpc' = "write" /\ sent' = 0 /\ reader' = NewReader
        /\ UNCHANGED <<descriptor, next_request_id, fresh, request, clientOpen,
                       callVars>>
  /\ UNCHANGED <<up, down, serverOpen, handlerVars>>

\* recv fails, or the length is out of bounds, or an allocation fails.
ClientReadFails ==
  /\ cpc = "read" /\ ~Complete(reader)
  /\ \/ EndCall("ReadFailed") /\ Reset /\ UNCHANGED <<answeredFor, threw>>
     \/ Throw
  /\ UNCHANGED <<up, down, serverOpen, handlerVars>>

\* decode_response, then decode_protocol_error: the response must carry the
\* request's id, and may be a failure the handler made up; the sentinel's status
\* is handed on; anything else is an error.  An allocation may fail here too,
\* when nothing of the frame is left.
ClientDecode ==
  /\ cpc = "read" /\ Complete(reader)
  /\ LET message == reader.got[1].of
         matches == Intact(reader.got) /\ message.id = request.id
     IN \/ /\ matches
           /\ EndCall(IF message.kind = "response" THEN "Answered" ELSE "Failed")
           /\ answeredFor' = [answeredFor EXCEPT ![request.call] = message.call]
           /\ UNCHANGED <<descriptor, clientOpen>>
        \/ /\ ~matches
           /\ EndCall(IF Intact(reader.got) /\ message = Sentinel
                      THEN "Refused" ELSE "Mismatch")
           /\ Reset /\ UNCHANGED answeredFor
        \/ EndCall("Threw") /\ UNCHANGED <<descriptor, clientOpen, answeredFor>>
  /\ UNCHANGED <<threw, up, down, serverOpen, handlerVars>>

-----------------------------------------------------------------------------
(* The handler of a connection.                                              *)

HandlerQuiet == UNCHANGED <<clientVars, callVars>>

\* encode_protocol_error: the failure carries the id that arrived, if one did.
Failure(r) ==
  IF Correlated(r) THEN [r.got[1].of EXCEPT !.kind = "failure"] ELSE Sentinel

\* A failure is written next, or nothing if it cannot be encoded.
Fail(g, message) ==
  /\ \/ /\ hpc' = [hpc EXCEPT ![g] = "write"]
        /\ answer' = [answer EXCEPT ![g] = message]
     \/ hpc' = [hpc EXCEPT ![g] = "close"] /\ UNCHANGED answer
  /\ hreader' = [hreader EXCEPT ![g] = NewReader]
  /\ UNCHANGED <<hrequest, hsent>>

HandlerReceive(g) ==
  /\ hpc[g] = "read"
  /\ \E n \in 1..Len(up[g]) :
       /\ n <= Wanted(hreader[g])
       /\ \E r \in AfterBytes(hreader[g], SubSeq(up[g], 1, n)) :
            hreader' = [hreader EXCEPT ![g] = r]
       /\ up' = [up EXCEPT ![g] = SubSeq(@, n + 1, Len(@))]
  /\ UNCHANGED <<down, clientOpen, serverOpen, hpc, hrequest, answer, hsent>>
  /\ HandlerQuiet

\* A clean end of the stream ends the connection.  An end inside a frame, a bad
\* length, an error or an exception is answered, under the id that arrived.
HandlerReadFails(g) ==
  /\ hpc[g] = "read" /\ ~Complete(hreader[g])
  /\ \/ Fail(g, Failure(hreader[g]))
     \/ /\ g \notin clientOpen /\ up[g] = <<>> /\ hreader[g] = NewReader
        /\ hpc' = [hpc EXCEPT ![g] = "close"]
        /\ UNCHANGED <<hreader, hrequest, answer, hsent>>
  /\ UNCHANGED streamVars /\ HandlerQuiet

\* decode_request: a whole request is dispatched.  Bytes of two requests under
\* one good header are refused, or taken for a request nobody made.
HandlerDecode(g) ==
  /\ hpc[g] = "read" /\ Complete(hreader[g])
  /\ LET first == hreader[g].got[1].of
         intact == Intact(hreader[g].got)
     IN \/ /\ intact \/ Correlated(hreader[g])
           /\ hpc' = [hpc EXCEPT ![g] = "dispatch"]
           /\ hrequest' = [hrequest EXCEPT ![g] =
                             IF intact THEN first
                                       ELSE [first EXCEPT !.call = 0]]
           /\ UNCHANGED <<hreader, answer, hsent>>
        \/ ~intact /\ Fail(g, Failure(hreader[g]))
  /\ UNCHANGED streamVars /\ HandlerQuiet

\* Mutant: the answer to a request that cannot be encoded has lost its id.
HandlerDispatch_Sentinel(g) ==
  /\ hpc[g] = "dispatch"
  /\ executed' = [c \in Calls |-> IF c = hrequest[g].call
                                  THEN executed[c] + 1 ELSE executed[c]]
  /\ \/ /\ hpc' = [hpc EXCEPT ![g] = "write"]
        /\ answer' = [answer EXCEPT ![g] =
                        [hrequest[g] EXCEPT !.kind = "response"]]
        /\ hreader' = [hreader EXCEPT ![g] = NewReader]
        /\ UNCHANGED <<hrequest, hsent>>
     \/ Fail(g, Sentinel)
  /\ UNCHANGED <<streamVars, clientVars, calls, result, answeredFor, threw>>

\* Service::dispatch, then encode_response or, if that fails or throws, the
\* failure that carries the request's id.
HandlerDispatch(g) ==
  /\ hpc[g] = "dispatch"
  /\ executed' = [c \in Calls |-> IF c = hrequest[g].call
                                  THEN executed[c] + 1 ELSE executed[c]]
  /\ \/ /\ hpc' = [hpc EXCEPT ![g] = "write"]
        /\ answer' = [answer EXCEPT ![g] =
                        [hrequest[g] EXCEPT !.kind = "response"]]
        /\ hreader' = [hreader EXCEPT ![g] = NewReader]
        /\ UNCHANGED <<hrequest, hsent>>
     \/ Fail(g, Failure(hreader[g]))
  /\ UNCHANGED <<streamVars, clientVars, calls, result, answeredFor, threw>>

\* send.  A failure is far smaller than a stream's buffer; a response may not
\* be.  After a response the handler reads on, unless the server stops.
HandlerSend(g) ==
  /\ hpc[g] = "write" /\ g \in clientOpen
  /\ \E n \in 1..FrameBytes - hsent[g] :
       /\ answer[g].kind = "response" => Len(down[g]) + n <= ResponseBuffer
       /\ down' = [down EXCEPT ![g] =
                     @ \o SubSeq(Frame(answer[g]), hsent[g] + 1, hsent[g] + n)]
       /\ \/ /\ hsent[g] + n < FrameBytes
             /\ hsent' = [hsent EXCEPT ![g] = @ + n]
             /\ UNCHANGED <<hpc, hrequest, answer>>
          \/ /\ hsent[g] + n = FrameBytes
             /\ \E next \in IF answer[g].kind = "response"
                            THEN {"read", "close"} ELSE {"close"} :
                  hpc' = [hpc EXCEPT ![g] = next]
             /\ hsent' = [hsent EXCEPT ![g] = 0]
             /\ hrequest' = [hrequest EXCEPT ![g] = NoMessage]
             /\ answer' = [answer EXCEPT ![g] = NoMessage]
  /\ UNCHANGED <<up, clientOpen, serverOpen, hreader>> /\ HandlerQuiet

\* A write that fails, and stop of the server while the handler reads or writes.
HandlerInterrupted(g) ==
  /\ hpc[g] \in {"read", "write"}
  /\ hpc' = [hpc EXCEPT ![g] = "close"]
  /\ UNCHANGED <<streamVars, hreader, hrequest, answer, hsent>> /\ HandlerQuiet

\* serve_connection returns and its descriptor is closed.
HandlerClose(g) ==
  /\ hpc[g] = "close"
  /\ hpc' = [hpc EXCEPT ![g] = "gone"]
  /\ serverOpen' = serverOpen \ {g}
  /\ up' = [up EXCEPT ![g] = <<>>]
  /\ hreader' = [hreader EXCEPT ![g] = NewReader]
  /\ hrequest' = [hrequest EXCEPT ![g] = NoMessage]
  /\ answer' = [answer EXCEPT ![g] = NoMessage]
  /\ hsent' = [hsent EXCEPT ![g] = 0]
  /\ UNCHANGED <<down, clientOpen>> /\ HandlerQuiet

-----------------------------------------------------------------------------
CallStep ==
  \/ ClientSend \/ ClientSendFails
  \/ ClientReceive \/ ClientReadEnds \/ ClientReadFails \/ ClientDecode

HandlerStep(g) ==
  \/ HandlerReceive(g) \/ HandlerReadFails(g) \/ HandlerDecode(g)
  \/ HandlerSend(g) \/ HandlerInterrupted(g) \/ HandlerClose(g)

Next ==
  \/ ConnectOpen \/ Disconnect \/ CallBegin \/ CallStep
  \/ \E g \in Conns :
       ConnectInstall(g) \/ HandlerStep(g) \/ HandlerDispatch(g)

Spec == Init /\ [][Next]_vars

\* Each side goes on while the stream lets it.  A call on a stream whose other
\* end is closed returns; a bad length is acted on; spontaneous errors, new
\* calls, connects and dispatch are not forced.
FairSpec ==
  /\ Spec
  /\ WF_vars(ClientSend) /\ WF_vars(ClientReceive) /\ WF_vars(ClientDecode)
  /\ WF_vars(descriptor \notin serverOpen /\ ClientSendFails)
  /\ WF_vars(ClientReadEnds)
  /\ WF_vars(Rejected(reader) /\ ClientReadFails)
  /\ \A g \in Conns :
       /\ WF_vars(HandlerReceive(g)) /\ WF_vars(HandlerDecode(g))
       /\ WF_vars(HandlerSend(g)) /\ WF_vars(HandlerClose(g))
       /\ WF_vars(/\ \/ Rejected(hreader[g])
                     \/ g \notin clientOpen /\ up[g] = <<>>
                  /\ HandlerReadFails(g))
       /\ WF_vars(hpc[g] = "write" /\ g \notin clientOpen
                    /\ HandlerInterrupted(g))

-----------------------------------------------------------------------------
(* Properties                                                                *)

\* What call returns as the response to a request answers that request, even
\* when earlier calls left an answer behind on the same stream.
AnswersMatch ==
  \A c \in Calls : result[c] \in {"Answered", "Failed"} => answeredFor[c] = c

\* A caller may rely on these failures: the request was not and will not be
\* executed.  Every other failure leaves its outcome open.
DefiniteFailures == {"NotConnected", "Exhausted", "NotEncoded", "WriteFailed",
                     "Refused"}

DefiniteFailuresDidNothing ==
  \A c \in Calls : result[c] \in DefiniteFailures => executed[c] = 0

\* What a call has come to, for CallContract.
Verdict ==
  [c \in Calls |->
     IF c > calls THEN "unmade"
     ELSE IF result[c] = "none" THEN "open"
     ELSE IF result[c] \in DefiniteFailures THEN "not done"
     ELSE IF result[c] \notin {"Answered", "Failed"} THEN "unknown"
     ELSE IF answeredFor[c] # c THEN "confused"
     ELSE IF result[c] = "Answered" THEN "answered" ELSE "failed"]

Contract == INSTANCE CallContract WITH verdict <- Verdict,
                                       executions <- executed

\* Whatever the streams cut, lose or deliver late, calls are what CallContract
\* says: the client "never automatically retries", so no request is executed
\* twice, and what a call reports stays true of an execution that comes later.
CallsKeepTheirContract == Contract!Spec

\* The bytes that the two ends of the client's connection have yet to make sense
\* of.  A handler that has failed reads no more.
Pending(g) ==
  down[g] \o reader.got
    \o (IF hpc[g] \in {"close", "gone"} \/ answer[g].kind = "failure"
        THEN <<>> ELSE hreader[g].got \o up[g])

\* "The mutex covers the entire request/response exchange so correlation state
\* and stream framing cannot interleave" (client.cpp): during a call its streams
\* carry bytes of that call, or of the sentinel, and of no other.
OneExchange ==
  cpc # "idle" => \A i \in DOMAIN Pending(descriptor) :
                    Pending(descriptor)[i].of.call \in {0, request.call}

\* As long as no exception left a call half-way, exchanges stay apart: every
\* failure that call reports either moved no byte or dropped the connection.
FailuresDropTheConnection == threw \/ OneExchange

\* A call comes to an end, whatever part of a frame the server sent before it
\* closed and however small the buffers, unless a dispatch never returns or an
\* earlier exception left half a frame behind.
CallsReturn ==
  \/ (cpc # "idle") ~> (cpc = "idle")
  \/ <>threw
  \/ \E g \in Conns : <>[](hpc[g] = "dispatch")

=============================================================================
