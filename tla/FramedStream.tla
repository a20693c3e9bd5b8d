---------------------------- MODULE FramedStream ----------------------------
(***************************************************************************)
(* One direction of a substream: a sender whose codec checks each payload  *)
(* before it writes it, a byte stream that delivers what was written in    *)
(* pieces, and a reader whose Framed decodes after every read.  A request  *)
(* is one message, after which the sender closes its half                  *)
(* (upgrade_outbound, upgrade_inbound); a response stream has any number.  *)
(* A sender that is another program writes anything, and is followed up to *)
(* its first message.  Loss of the connection is part of ReqRespStreams.   *)
(***************************************************************************)
EXTENDS FrameCodec

CONSTANTS
  Payloads,     \* what may be handed to a codec: a layout, and a length
  MaxMessages   \* bound on the messages of a stream

ASSUME MessagesAssumption == MaxMessages \in Nat

VARIABLES
  kind,       \* "request" or "response"
  checked,    \* whether the sender is this program
  written,    \* the payloads on the stream
  closed,     \* whether the sender has closed it
  arrived,    \* the bytes that have reached the reader
  consumed,   \* the bytes the reader has split off
  read,       \* the number of messages it has yielded
  outcome     \* "reading", or how reading ended

vars == <<kind, checked, written, closed, arrived, consumed, read, outcome>>

\* The offset of the end of message i.
EndOf(i) == FoldLeft(LAMBDA pos, p : pos + p.len, 0, SubSeq(written, 1, i))

Total == EndOf(Len(written))

Init ==
  /\ kind \in {"request", "response"}
  /\ checked \in BOOLEAN
  /\ written = << >>
  /\ closed = FALSE
  /\ arrived = 0
  /\ consumed = 0
  /\ read = 0
  /\ outcome = "reading"

\* The payloads of each kind, and those this program's codec writes.
Requests == {p \in Payloads : p.layout.code = 0}
Responses == {p \in Payloads : p.layout.code = 1}
EncodedRequests == {p \in Requests : OutboundEncode(p.layout, p.len)}
EncodedResponses == {p \in Responses : InboundEncode(p.layout, p.len)}

\* upgrade_outbound: the request is sent and the half closed.
SendRequest(p) ==
  /\ kind = "request" /\ ~ closed
  /\ checked => p \in EncodedRequests
  /\ written' = <<p>>
  /\ closed' = TRUE
  /\ UNCHANGED <<kind, checked, arrived, consumed, read, outcome>>

\* An inbound substream sends a queued response.
SendResponse(p) ==
  /\ kind = "response" /\ ~ closed
  /\ IF checked THEN p \in EncodedResponses /\ Len(written) < MaxMessages ELSE written = << >>
  /\ written' = Append(written, p)
  /\ UNCHANGED <<kind, checked, closed, arrived, consumed, read, outcome>>

CloseSubstream ==
  /\ ~ closed
  /\ closed' = TRUE
  /\ UNCHANGED <<kind, checked, written, arrived, consumed, read, outcome>>

\* What the decoder says of the bytes at hand. After the last message there are none.
Verdict ==
  LET s == written[read + 1].layout
      n == arrived - consumed
  IN  IF read = Len(written) THEN None
      ELSE IF kind = "request" THEN InboundDecode(s, n) ELSE OutboundDecode(s, n)

\* Where a read may stop: in, at and after every boundary of a layout.
ChunksEnd(s, k) ==
  FoldLeft(LAMBDA pos, c : pos + HeaderLen + c.len, FrameStart(s) + IdentifierLen,
           SubSeq(s.chunks, 1, k))

Pieces(s) ==
  (1 .. FrameStart(s) + 1) \union
    UNION {{ChunksEnd(s, k) - 1, ChunksEnd(s, k), ChunksEnd(s, k) + HeaderLen} :
             k \in 0 .. Len(s.chunks)}

Stops == {Total} \union UNION {{EndOf(i - 1) + n : n \in Pieces(written[i].layout)} :
                               i \in read + 1 .. Len(written)}

\* A read brings some more bytes; poll_next only reads when decode had too few.
Read(n) ==
  /\ outcome = "reading" /\ Verdict = None
  /\ n > arrived /\ n <= Total
  /\ arrived' = n
  /\ UNCHANGED <<kind, checked, written, closed, consumed, read, outcome>>

\* decode yields a message, with which upgrade_inbound is content.
Yield ==
  /\ outcome = "reading" /\ Verdict.is = "Some"
  /\ consumed' = consumed + Verdict.value
  /\ read' = read + 1
  /\ outcome' = IF kind = "request" \/ ~ checked THEN "done" ELSE "reading"
  /\ UNCHANGED <<kind, checked, written, closed, arrived>>

\* The stream ends: Framed reports an error if bytes are left over, and
\* upgrade_inbound one if there was no request.
EndOfStream ==
  /\ outcome = "reading" /\ Verdict = None
  /\ closed /\ arrived = Total
  /\ outcome' = IF consumed # arrived THEN "bytes remaining"
                ELSE IF kind = "request" THEN "IncompleteStream" ELSE "done"
  /\ UNCHANGED <<kind, checked, written, closed, arrived, consumed, read>>

\* decode fails.
DecodeError ==
  /\ outcome = "reading" /\ Verdict = Err
  /\ outcome' = "InvalidData"
  /\ UNCHANGED <<kind, checked, written, closed, arrived, consumed, read>>

\* upgrade_inbound gives up after REQUEST_TIMEOUT.
TimeOut ==
  /\ kind = "request" /\ outcome = "reading"
  /\ outcome' = "StreamTimedOut"
  /\ UNCHANGED <<kind, checked, written, closed, arrived, consumed, read>>

Next ==
  \/ \E p \in Requests : SendRequest(p)
  \/ \E p \in Responses : SendResponse(p)
  \/ CloseSubstream
  \/ \E n \in Stops : Read(n)
  \/ Yield
  \/ EndOfStream
  \/ DecodeError
  \/ TimeOut

Spec == Init /\ [][Next]_vars

----------------------------------------------------------------------------
(* Properties.                                                             *)

Encodes(p, n) ==
  IF kind = "request" THEN OutboundEncode(p.layout, n) ELSE InboundEncode(p.layout, n)

\* The two ends of a substream agree on where messages end, however the bytes
\* were cut up: what this program sent is read message by message, without an
\* error, and of any other sender exactly the bytes are taken that this
\* program would have sent itself (encode and decode of the two codecs).
EndsAgree ==
  IF checked THEN consumed = EndOf(read) /\ outcome \notin {"InvalidData", "bytes remaining"}
  ELSE read > 0 => Encodes(written[1], consumed)

\* A message is yielded as soon as its last byte is there: when the reader asks
\* for more bytes those at hand do not hold a whole message, so a response is
\* not held back until the next one arrives, or a request until the timeout.
NoCompleteMessageWaits ==
  outcome = "reading" /\ read < Len(written) /\ Verdict = None =>
    \A n \in Pieces(written[read + 1].layout) :
      n <= arrived - consumed => ~ Encodes(written[read + 1], n)
=============================================================================
