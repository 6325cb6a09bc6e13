-------------------------------- MODULE Codec --------------------------------
(***************************************************************************)
(* The Encoder, the Decoder and the message layouts of src/lib/ipc/codec.cpp. *)
(*                                                                         *)
(* An encoding function and a decoding function are each a table of rows:  *)
(* one row per field, in which order the fields come, and what is refused. *)
(* A field's value is a pair: n, which is a length, a count or the         *)
(* alternative a tag selects (0 for a scalar), and good, whether its       *)
(* contents pass the checks made on them.  Widths and bounds are the       *)
(* code's own; lengths and counts are taken at the edges of those bounds.  *)
(*                                                                         *)
(* One behaviour takes one payload through two passes.  Either a message   *)
(* is encoded, and the payload decoded, whole, cut short or with bytes     *)
(* after it; or a payload that some other encoder wrote is decoded, and    *)
(* what was read is encoded again.                                         *)
(***************************************************************************)
EXTENDS Integers, SequencesExt

CONSTANTS
  Kinds,       \* the messages tried: Request, Response, ProtocolError
  Budget,      \* fields of a message that differ from the smallest one
  Entries,     \* entries a collection has beyond the smallest number
  Sizes        \* sizes of payloads that another encoder wrote

ASSUME CodecAssumption ==
  /\ Kinds \subseteq {"Request", "Response", "ProtocolError"}
  /\ Budget \in Nat /\ Entries \in Nat /\ Sizes \subseteq Nat

VARIABLES
  kind,       \* the message
  stage,      \* pass in progress, or how the second one ended
  todo,       \* rows to be written or read, the next one first
  fields,     \* fields of the first pass: row and value
  copy,       \* fields of the second pass
  size,       \* bytes of the payload
  offset,     \* bytes encoded or decoded in this pass
  foreign,    \* whether another encoder wrote the payload
  whole,      \* whether the payload arrived as it was encoded
  reserved    \* bytes for which decoded counts have claimed entries

vars == <<kind, stage, todo, fields, copy, size, offset, foreign, whole,
          reserved>>

kMaximumFramePayloadBytes == 4 * 1024 * 1024

-----------------------------------------------------------------------------
(* Rows.  A row refuses an n above most as soon as it is read, and one       *)
(* outside low..high or bad contents later.  Contents are "free" of checks,  *)
(* "checked", or of a "typed" value that cannot be bad.                      *)

Row(shape, width, range, most, contents, entry, fence) ==
  [shape |-> shape, width |-> width, low |-> range[1], high |-> range[2],
   most |-> most, contents |-> contents, entry |-> entry, fence |-> fence]

NoFence == <<0, 0>>

\* u8 to u64, i64, f64 and boolean
scalar(width, contents) ==
  Row("scalar", width, <<0, 0>>, 0, contents, <<>>, NoFence)

\* A length of four bytes and so many bytes.
sized(range, most, contents) ==
  Row("sized", 4, range, most, contents, <<>>, NoFence)

text(maximum) == sized(<<0, maximum>>, maximum, "checked")
bytes(maximum, contents) == sized(<<0, maximum>>, maximum, contents)

\* A count and so many entries; only a decoder has a fence.
count(width, most, entry, fence) ==
  Row("count", width, <<0, most>>, most, "free", entry, fence)

\* A tag and the fields each tag selects.
choice(width, contents, alternatives) ==
  Row("choice", width, <<1, Len(alternatives)>>, 255, contents, alternatives,
      NoFence)

-----------------------------------------------------------------------------
(* The encoding functions.                                                   *)

\* A success carries no diagnostic, and only a success carries a body.
encode_status ==
  [status |-> Row("status", 1, <<1, 2>>, 255, "free",
                  <<<<"no_message">>, <<"message">>>>, NoFence),
   ok_code |-> scalar(1, "checked"), failure_code |-> scalar(1, "checked"),
   no_message |-> sized(<<0, 0>>, 4096, "checked"), message |-> text(4096)]

encode_parameter ==
  [parameter_value |->
     choice(1, "typed", <<<<"i64">>, <<"f64">>, <<"boolean">>, <<"text">>>>),
   i64 |-> scalar(8, "free"), f64 |-> scalar(8, "free"),
   boolean |-> scalar(1, "typed"), text |-> text(8192)]

\* Input declarations, and edges that are no node output, are refused.
encode_document ==
  [schema_version |-> scalar(4, "checked"),
   nodes |-> count(4, 65536,
                   <<"node_id", "operation", "inputs", "parameters">>, NoFence),
   node_id |-> scalar(8, "free"), operation |-> text(1024),
   inputs |-> count(4, 1024, <<"source_node", "source_port">>, NoFence),
   source_node |-> scalar(8, "checked"), source_port |-> text(64),
   parameters |-> count(4, 1024, <<"parameter_key", "parameter_value">>,
                        NoFence),
   parameter_key |-> text(1024),
   outputs |-> count(4, 4096, <<"output_name", "output_node", "output_port">>,
                     NoFence),
   output_name |-> text(1024), output_node |-> scalar(8, "free"),
   output_port |-> text(64)]

\* A Value the kernel made has one to eight axes and bytes that fit them.
\* Nothing but the frame bounds the payload of a facet.
encode_value ==
  [element_type |-> scalar(4, "checked"),
   rank |-> Row("axes", 1, <<1, 8>>, 8, "free",
                <<"extent", "interval", "byte_offset", "stride">>, NoFence),
   extent |-> scalar(8, "free"), interval |-> scalar(16, "free"),
   byte_offset |-> scalar(8, "free"), stride |-> scalar(8, "free"),
   facets |-> count(1, 64, <<"facet_key", "facet_version", "facet_payload">>,
                    NoFence),
   facet_key |-> text(256), facet_version |-> scalar(4, "free"),
   facet_payload |-> bytes(kMaximumFramePayloadBytes, "free"),
   value_bytes |-> bytes(kMaximumFramePayloadBytes, "typed")]

encode_diagnostics ==
  [execute_us |-> scalar(8, "free"),
   selected_backends |-> count(4, 65536, <<"backend_node", "backend">>,
                               NoFence),
   backend_node |-> scalar(8, "checked"), backend |-> scalar(1, "checked"),
   transfers |-> scalar(24, "free"),
   fallback_reasons |-> count(4, 65536, <<"reason">>, NoFence),
   reason |-> text(4096),
   operation_timings |->
     count(4, 131072, <<"timing_node", "timing_backend", "duration",
                        "timing_outcome">>, NoFence),
   timing_node |-> scalar(8, "checked"), timing_backend |-> scalar(1, "checked"),
   duration |-> scalar(8, "free"), timing_outcome |-> scalar(1, "checked"),
   plan_digest |-> text(128), result_digest |-> text(128)]

encode_execution_result ==
  [values |-> count(4, 4096, <<"value_name", "element_type", "rank", "facets",
                               "value_bytes">>, NoFence),
   value_name |-> text(1024)]

SessionId == <<"session_instance", "session_value">>
JobId == <<"job_instance", "job_value">>

\* The fields after the method of a request, by method code.
encode_request ==
  [version |-> scalar(2, "typed"), request_id |-> scalar(8, "checked"),
   method |->
     choice(1, "checked",
       <<<<"schema_version", "nodes", "outputs">>,
         SessionId,
         SessionId \o <<"allow_gpu", "maximum_parallelism">>,
         JobId, JobId, JobId, JobId, <<>>, <<>>>>),
   session_instance |-> scalar(8, "checked"),
   session_value |-> scalar(8, "checked"),
   job_instance |-> scalar(8, "checked"), job_value |-> scalar(8, "checked"),
   allow_gpu |-> scalar(1, "typed"), maximum_parallelism |-> scalar(4, "free")]

\* A job's state selects the outcomes it may have.
validate_job_status ==
  choice(1, "checked",
    <<<<"ok_code", "no_message">>, <<"ok_code", "no_message">>,
      <<"ok_code", "no_message">>, <<"failure_code", "message">>,
      <<"failure_code", "message">>>>)

\* Both sides hold daemon.info against the one inventory and transport.
validate_daemon_info(fence) ==
  [protocol_version |-> scalar(2, "checked"),
   instance_id |-> scalar(8, "checked"),
   service_version |-> sized(<<1, 128>>, 128, "checked"),
   transport |-> sized(<<11, 11>>, 64, "checked"),
   methods |-> Row("count", 1, <<9, 9>>, 16, "free", <<"method_name">>,
                   fence),
   method_name |-> sized(<<10, 15>>, 64, "checked"),
   active |-> scalar(16, "free"), maxima |-> scalar(8, "checked")]

\* The fields a success carries after its status, by method code.
encode_response ==
  [response_method |->
     choice(1, "checked",
       <<<<"status">> \o SessionId, <<"status">>, <<"status">> \o JobId,
         <<"status">> \o JobId \o SessionId \o <<"state">>, <<"status">>,
         <<"status", "values", "execute_us", "selected_backends", "transfers",
           "fallback_reasons", "operation_timings", "plan_digest",
           "result_digest">>,
         <<"status">>,
         <<"status", "protocol_version", "instance_id", "service_version",
           "transport", "methods", "active", "maxima">>,
         <<"status">>>>),
   state |-> validate_job_status] @@ validate_daemon_info(NoFence)

\* The id and the method that were recovered, or the sentinel's.
encode_protocol_error ==
  [correlation |-> choice(9, "typed", <<<<>>, <<>>>>)]

-----------------------------------------------------------------------------
(* The decoding functions.  A fence is the contract of a count: the smallest *)
(* entry and the smallest rest of the payload, in bytes.                     *)

kWorkflowNodesContract == <<20, 4>>
kWorkflowInputsContract == <<12, 8>>
kWorkflowParametersContract == <<6, 4>>
kWorkflowOutputsContract == <<16, 0>>
kValueAxesContract == <<32, 65>>

\* Mutant: the length of the Value's bytes is counted twice.
kValueFacetsContract_TooLong == <<12, 60>>

kValueFacetsContract == <<12, 56>>
kDiagnosticBackendsContract == <<9, 40>>
kDiagnosticReasonsContract == <<4, 12>>
kDiagnosticTimingsContract == <<18, 8>>
kResultValuesContract == <<54, 52>>
kDaemonMethodsContract == <<4, 24>>

\* Mutant: a success may carry a diagnostic.
decode_status_AnyMessage ==
  [status |-> Row("status", 1, <<1, 2>>, 255, "free",
                  <<<<"no_message">>, <<"message">>>>, NoFence),
   ok_code |-> scalar(1, "checked"), failure_code |-> scalar(1, "checked"),
   no_message |-> text(4096), message |-> text(4096)]

decode_status ==
  [status |-> Row("status", 1, <<1, 2>>, 255, "free",
                  <<<<"no_message">>, <<"message">>>>, NoFence),
   ok_code |-> scalar(1, "checked"), failure_code |-> scalar(1, "checked"),
   no_message |-> sized(<<0, 0>>, 4096, "checked"), message |-> text(4096)]

decode_parameter ==
  [parameter_value |->
     choice(1, "checked", <<<<"i64">>, <<"f64">>, <<"boolean">>, <<"text">>>>),
   i64 |-> scalar(8, "free"), f64 |-> scalar(8, "free"),
   boolean |-> scalar(1, "checked"), text |-> text(8192)]

\* The contents of a key are bad if it is not UTF-8 or not new in its map.
decode_document ==
  [schema_version |-> scalar(4, "typed"),
   nodes |-> count(4, 65536, <<"node_id", "operation", "inputs", "parameters">>,
                   kWorkflowNodesContract),
   node_id |-> scalar(8, "free"), operation |-> text(1024),
   inputs |-> count(4, 1024, <<"source_node", "source_port">>,
                    kWorkflowInputsContract),
   source_node |-> scalar(8, "typed"), source_port |-> text(64),
   parameters |-> count(4, 1024, <<"parameter_key", "parameter_value">>,
                        kWorkflowParametersContract),
   parameter_key |-> text(1024),
   outputs |-> count(4, 4096, <<"output_name", "output_node", "output_port">>,
                     kWorkflowOutputsContract),
   output_name |-> text(1024), output_node |-> scalar(8, "free"),
   output_port |-> text(64)]

\* The bytes come last: they are bad if Value::create refuses the Value.
decode_value ==
  [element_type |-> scalar(4, "checked"),
   rank |-> Row("axes", 1, <<1, 8>>, 8, "free",
                <<"extent", "interval", "byte_offset", "stride">>,
                kValueAxesContract),
   extent |-> scalar(8, "free"), interval |-> scalar(16, "free"),
   byte_offset |-> scalar(8, "free"), stride |-> scalar(8, "free"),
   facets |-> count(1, 64, <<"facet_key", "facet_version", "facet_payload">>,
                    kValueFacetsContract),
   facet_key |-> text(256), facet_version |-> scalar(4, "free"),
   facet_payload |-> bytes(64 * 1024, "free"),
   value_bytes |-> bytes(kMaximumFramePayloadBytes, "checked")]

decode_diagnostics ==
  [execute_us |-> scalar(8, "free"),
   selected_backends |-> count(4, 65536, <<"backend_node", "backend">>,
                               kDiagnosticBackendsContract),
   backend_node |-> scalar(8, "checked"), backend |-> scalar(1, "checked"),
   transfers |-> scalar(24, "free"),
   fallback_reasons |-> count(4, 65536, <<"reason">>,
                              kDiagnosticReasonsContract),
   reason |-> text(4096),
   operation_timings |->
     count(4, 131072, <<"timing_node", "timing_backend", "duration",
                        "timing_outcome">>, kDiagnosticTimingsContract),
   timing_node |-> scalar(8, "checked"), timing_backend |-> scalar(1, "checked"),
   duration |-> scalar(8, "free"), timing_outcome |-> scalar(1, "checked"),
   plan_digest |-> text(128), result_digest |-> text(128)]

decode_execution_result ==
  [values |-> count(4, 4096, <<"value_name", "element_type", "rank", "facets",
                               "value_bytes">>, kResultValuesContract),
   value_name |-> text(1024)]

decode_request ==
  [version |-> scalar(2, "checked"), request_id |-> scalar(8, "checked"),
   method |->
     choice(1, "checked",
       <<<<"schema_version", "nodes", "outputs">>,
         SessionId,
         SessionId \o <<"allow_gpu", "maximum_parallelism">>,
         JobId, JobId, JobId, JobId, <<>>, <<>>>>),
   session_instance |-> scalar(8, "checked"),
   session_value |-> scalar(8, "checked"),
   job_instance |-> scalar(8, "checked"), job_value |-> scalar(8, "checked"),
   allow_gpu |-> scalar(1, "checked"),
   maximum_parallelism |-> scalar(4, "free")]

\* The id is bad unless it is the one expected.
decode_response ==
  [response_method |->
     choice(1, "checked",
       <<<<"status">> \o SessionId, <<"status">>, <<"status">> \o JobId,
         <<"status">> \o JobId \o SessionId \o <<"state">>, <<"status">>,
         <<"status", "values", "execute_us", "selected_backends", "transfers",
           "fallback_reasons", "operation_timings", "plan_digest",
           "result_digest">>,
         <<"status">>,
         <<"status", "protocol_version", "instance_id", "service_version",
           "transport", "methods", "active", "maxima">>,
         <<"status">>>>),
   state |-> validate_job_status]
    @@ validate_daemon_info(kDaemonMethodsContract)

decode_protocol_error ==
  [correlation |-> choice(9, "checked", <<<<>>, <<>>>>)]

-----------------------------------------------------------------------------
(* Encoder and Decoder, one field at a time.                                 *)

EncodeRows ==
  encode_request @@ encode_response @@ encode_protocol_error @@ encode_status
    @@ encode_document @@ encode_parameter @@ encode_execution_result
    @@ encode_value @@ encode_diagnostics

DecodeRows ==
  decode_request @@ decode_response @@ decode_protocol_error @@ decode_status
    @@ decode_document @@ decode_parameter @@ decode_execution_result
    @@ decode_value @@ decode_diagnostics

Start(k) ==
  CASE k = "Request" -> <<"version", "request_id", "method">>
    [] k = "Response" -> <<"version", "request_id", "response_method">>
    [] k = "ProtocolError" ->
         <<"version", "correlation", "failure_code", "message">>

Repeat(n, entry) == FlattenSeq([i \in 1..n |-> entry])

\* The rows that are left once n was written or read for the first of them.
Rest(row, n) ==
  LET e == row.entry
  IN CASE row.shape \in {"scalar", "sized"} -> Tail(todo)
       [] row.shape = "count" -> Repeat(n, e) \o Tail(todo)
       [] row.shape = "choice" -> e[n] \o Tail(todo)
       [] row.shape = "status" -> e[n] \o (IF n = 1 THEN Tail(todo) ELSE <<>>)
       [] row.shape = "axes" ->
            Repeat(n, <<e[1]>>) \o Repeat(n, <<e[2]>>) \o <<e[3]>>
              \o Repeat(n, <<e[4]>>) \o Tail(todo)

Bytes(row, v) == row.width + (IF row.shape = "sized" THEN v.n ELSE 0)

Valid(row, v) ==
  v.n \in row.low..row.high /\ (row.contents = "checked" => v.good)

\* Encoder::append: a payload never outgrows the frame.
Appends(row, v) == Bytes(row, v) <= kMaximumFramePayloadBytes - offset

\* Mutant: an entry is taken to need a byte, not minimum_entry_bytes.
count_fits_ByteEach(n, left, contract) == n <= left - contract[2]

count_fits(n, left, contract) ==
  /\ contract[1] # 0
  /\ contract[2] <= left
  /\ n <= (left - contract[2]) \div contract[1]

require(n) == n <= size - offset

\* What a decoder tests before it makes room for anything.
Fits(row, v) ==
  /\ require(row.width)
  /\ v.n <= row.most
  /\ require(Bytes(row, v))
  /\ row.fence # NoFence =>
       count_fits(v.n, size - offset - row.width, row.fence)

-----------------------------------------------------------------------------
(* The values tried in a first pass.  The second pass's row says which other *)
(* edges matter.                                                             *)

Numbers(row, other) ==
  CASE row.shape = "scalar" -> {0}
    [] row.shape = "sized" ->
         {row.low, row.low + 1, row.high, row.high + 1,
          other.high, other.high + 1}
    [] row.shape \in {"count", "axes"} ->
         (row.low..row.low + Entries) \cup {row.most + 1}
           \cup (IF foreign THEN {row.most} ELSE {})
    [] OTHER -> row.low..(IF row.contents = "typed" THEN row.high
                                                   ELSE row.high + 1)

MayBeBad(row, other) ==
  \/ row.contents = "checked"
  \/ row.contents = "free" /\ other.contents = "checked"

\* Fields that are not the smallest good ones.
Unusual(row, v) ==
  ~v.good \/ (v.n # row.low /\ row.shape \notin {"choice", "status"})

Spent(rows) ==
  Len(SelectSeq(fields, LAMBDA f : Unusual(rows[f.row], f.value)))

Values(rows, others) ==
  LET row == rows[Head(todo)]  other == others[Head(todo)]
  IN {v \in [n : Numbers(row, other),
             good : {TRUE} \cup (IF MayBeBad(row, other) THEN {FALSE} ELSE {})] :
        Unusual(row, v) => Spent(rows) < Budget}

Init ==
  /\ kind \in Kinds
  /\ foreign \in BOOLEAN
  /\ stage = IF foreign THEN "decode" ELSE "encode"
  /\ size \in IF foreign THEN Sizes ELSE {0}
  /\ todo = Start(kind)
  /\ fields = <<>> /\ copy = <<>>
  /\ offset = 0 /\ reserved = 0
  /\ whole = TRUE

Field(v) == [row |-> Head(todo), value |-> v]

\* The value found where the first pass left it.  In a payload that is read by
\* rows it was not written by, anything may be found.
Found(rows, others) ==
  LET at == Len(copy) + 1
  IN IF at <= Len(fields) /\ fields[at].row = Head(todo)
     THEN {fields[at].value}
     ELSE Values(rows, others)

\* A pass goes on to the next row, or starts over for the second pass.
Advance(row, v) ==
  /\ todo' = Rest(row, v.n)
  /\ offset' = offset + Bytes(row, v)
  /\ UNCHANGED <<kind, stage, foreign, whole>>

StartOver(next) ==
  /\ stage' = next
  /\ todo' = Start(kind)
  /\ offset' = 0
  /\ UNCHANGED <<kind, fields, copy, foreign>>

End(next) ==
  /\ stage' = next
  /\ UNCHANGED <<kind, todo, fields, copy, offset, size, foreign, whole>>

\* CodecFailure: no message and no payload comes out.
Failure == End(IF copy = <<>> /\ (foreign \/ stage = "encode")
               THEN "refused" ELSE "rejected")

\* The encoder writes a field of a message, or refuses the message.
Encode ==
  /\ stage = "encode" /\ todo # <<>>
  /\ \E v \in Values(EncodeRows, DecodeRows) :
       LET row == EncodeRows[Head(todo)]
       IN IF Valid(row, v) /\ Appends(row, v)
          THEN /\ Advance(row, v)
               /\ fields' = Append(fields, Field(v))
               /\ size' = offset'
               /\ UNCHANGED copy
          ELSE Failure
  /\ UNCHANGED reserved

\* Where a payload may be cut: before each field and inside it.
CutPoints ==
  LET upto[i \in 0..Len(fields)] ==
        IF i = 0 THEN 0
        ELSE upto[i - 1] + Bytes(EncodeRows[fields[i].row], fields[i].value)
  IN UNION {{upto[i], upto[i] + 1} : i \in 0..Len(fields) - 1}

\* The payload is complete; it arrives whole, short or with a byte after it.
Deliver ==
  /\ stage = "encode" /\ todo = <<>>
  /\ size' \in CutPoints \cup {size, size + 1}
  /\ whole' = (size' = size)
  /\ StartOver("decode")
  /\ UNCHANGED reserved

\* The decoder reads a field, or fails.
Decode ==
  /\ stage = "decode" /\ todo # <<>>
  /\ \E v \in IF foreign THEN Values(DecodeRows, EncodeRows)
                         ELSE Found(DecodeRows, EncodeRows) :
       LET row == DecodeRows[Head(todo)]
       IN /\ IF Fits(row, v) /\ Valid(row, v)
             THEN /\ Advance(row, v)
                  /\ fields' = IF foreign THEN Append(fields, Field(v))
                                          ELSE fields
                  /\ copy' = IF foreign THEN copy ELSE Append(copy, Field(v))
                  /\ UNCHANGED size
             ELSE Failure
          /\ reserved' = reserved + (IF Fits(row, v) THEN v.n * row.fence[1]
                                                     ELSE 0)

\* Mutant: bytes after the message are overlooked.
require_end_Lenient == offset <= size

require_end == offset = size

DecodeEnd ==
  /\ stage = "decode" /\ todo = <<>>
  /\ IF ~require_end THEN Failure
     ELSE IF foreign THEN StartOver("encode again") /\ UNCHANGED <<size, whole>>
     ELSE End("accepted")
  /\ UNCHANGED reserved

\* What another encoder wrote and the decoder accepted is encoded again.
EncodeAgain ==
  /\ stage = "encode again" /\ todo # <<>>
  /\ \E v \in Found(EncodeRows, DecodeRows) :
       LET row == EncodeRows[Head(todo)]
       IN IF Valid(row, v) /\ Appends(row, v)
          THEN /\ Advance(row, v)
               /\ copy' = Append(copy, Field(v))
               /\ UNCHANGED <<fields, size>>
          ELSE End("rejected")
  /\ UNCHANGED reserved

EncodeAgainEnd ==
  /\ stage = "encode again" /\ todo = <<>>
  /\ End("accepted")
  /\ UNCHANGED reserved

Done == stage \in {"accepted", "refused", "rejected"} /\ UNCHANGED vars

Next ==
  \/ Encode \/ Deliver \/ Decode \/ DecodeEnd
  \/ EncodeAgain \/ EncodeAgainEnd \/ Done

Spec == Init /\ [][Next]_vars

-----------------------------------------------------------------------------
(* Properties                                                                *)

\* A facet above the decoder's own bound, which encode_value does not know.
FacetTooLong(f) ==
  f.row = "facet_payload" /\ f.value.n > DecodeRows.facet_payload.most

\* What encode_request, encode_response and encode_protocol_error accept, the
\* decoder of the other side reads back field by field: no bound is tighter
\* there, and no count fence asks for a byte more than the rest of a valid
\* payload has.  Only a facet of more than 64 KiB is encoded and not decoded.
RoundTrip ==
  ~foreign /\ whole =>
    /\ stage = "rejected" => \E i \in DOMAIN fields : FacetTooLong(fields[i])
    /\ stage = "accepted" => copy = fields

\* A payload that was cut anywhere, or that has a byte after the message, is
\* never taken for a message: every reader knows where its fields end.
OnlyWholePayloads == ~whole => stage # "accepted"

\* A payload that decodes, whoever wrote it, is one the encoder could have
\* written: unknown tags, repeated keys, contradictory statuses and states and
\* out-of-range numbers do not get past the decoder, and the message read
\* encodes to as many bytes.
DecodesOnlyEncodings ==
  foreign => /\ stage # "rejected"
             /\ stage = "accepted" => copy = fields /\ offset = size

\* "A count that cannot fit the unread bytes is InvalidArgument ... and is
\* rejected before any count-sized allocation" (IPC-Protocol-v3.md).  Counts
\* nest at most two deep, so all the room that the counts of one payload ever
\* claim is within twice the payload, at the smallest bytes per entry.
ClaimsWithinThePayload == reserved <= 2 * size

=============================================================================
