----------------------------- MODULE FrameStream -----------------------------
(***************************************************************************)
(* read_frame of src/lib/ipc/frame.cpp over a stream that delivers any     *)
(* part of what was sent, and the correlation that codec.cpp recovers from *)
(* what has arrived.                                                       *)
(*                                                                         *)
(* A byte is a position in the frame of a message, so that a stream can    *)
(* hold the tail of one frame before the head of another.                  *)
(***************************************************************************)
EXTENDS Naturals, Sequences

CONSTANTS
  HeaderBytes,       \* bytes of the length prefix
  PayloadBytes,      \* bytes of a message
  PrefixBytes,       \* payload bytes that carry version, id and method
  MaximumPayload     \* kMaximumFramePayloadBytes

ASSUME FrameAssumption ==
  /\ HeaderBytes \in Nat \ {0} /\ PayloadBytes \in Nat /\ MaximumPayload \in Nat
  /\ PrefixBytes \in 1..PayloadBytes
  /\ PayloadBytes <= MaximumPayload

FrameBytes == HeaderBytes + PayloadBytes

\* What write_frame sends.
Frame(message) == [i \in 1..FrameBytes |-> [of |-> message, at |-> i]]

\* Every length that is zero or above the maximum.
OutOfBounds == MaximumPayload + 1

\* The length four header bytes declare.  Bytes that are not one header declare
\* any length.
DeclaredSizes(header) ==
  IF header = SubSeq(Frame(header[1].of), 1, HeaderBytes)
  THEN {PayloadBytes}
  ELSE 1..OutOfBounds

-----------------------------------------------------------------------------
(* A reader is the state of read_frame: the bytes of the header while size is *)
(* zero, then those of the payload.                                          *)

NewReader == [size |-> 0, got |-> <<>>]

\* read_exact and read_payload never ask for a byte beyond their frame.
Wanted(r) ==
  (IF r.size = 0 THEN HeaderBytes ELSE IF r.size = OutOfBounds THEN 0 ELSE r.size)
    - Len(r.got)

\* The readers that r may become when bytes arrive.
AfterBytes(r, bytes) ==
  LET got == r.got \o bytes
  IN IF r.size = 0 /\ Len(got) = HeaderBytes
     THEN [size : DeclaredSizes(got), got : {<<>>}]
     ELSE {[size |-> r.size, got |-> got]}

Rejected(r) == r.size = OutOfBounds
Complete(r) == r.size \in 1..MaximumPayload /\ Len(r.got) = r.size
Reading(r) == Wanted(r) > 0

\* The payload is that of one message, as sent.
Intact(payload) ==
  /\ payload # <<>>
  /\ payload = SubSeq(Frame(payload[1].of), HeaderBytes + 1, FrameBytes)

\* recover_correlation on the payload bytes received so far: whether they
\* begin with the version, id and method of a request.
Correlated(r) ==
  /\ r.size \in 1..MaximumPayload
  /\ Len(r.got) >= PrefixBytes
  /\ \A i \in 1..PrefixBytes :
       r.got[i] = [of |-> r.got[1].of, at |-> HeaderBytes + i]

=============================================================================
