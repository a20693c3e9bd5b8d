----------------------------- MODULE FrameCodec -----------------------------
(***************************************************************************)
(* The framing of requests and responses on a substream: a response code   *)
(* (responses only), the uncompressed length as a varint, and a snappy     *)
(* frame whose own length has to be found by scanning its chunks           *)
(* (rust/libp2p-glue/src/req_resp: varint.rs and the codecs of             *)
(* inbound_protocol.rs and outbound_protocol.rs).                          *)
(*                                                                         *)
(* Bytes are not spelled out.  A stream is described by its layout, and    *)
(* what has been received of it, or makes up a payload, is a number of     *)
(* bytes: the first n of the stream.  Lengths stay far below 2^64, so the  *)
(* checked additions of the source never fail.                             *)
(***************************************************************************)
EXTENDS Integers, Sequences, FiniteSets, SequencesExt

IdentifierLen == 10                      \* SNAPPY_STREAM_IDENTIFIER
HeaderLen == 4                           \* type and u24 length of a chunk
CrcLen == 4
MAX_UNCOMPRESSED_CHUNK == 65536
max_message_size == 4194304

(* snap::raw::max_compress_len *)
max_compress_len(n) == 32 + n + n \div 6

(* The longest frame of so many bytes: full chunks, then the rest. *)
max_framed_len(uncompressed) ==
  LET chunk(n) == HeaderLen + CrcLen + max_compress_len(n)
      rest == uncompressed % MAX_UNCOMPRESSED_CHUNK
  IN  IdentifierLen
        + (uncompressed \div MAX_UNCOMPRESSED_CHUNK) * chunk(MAX_UNCOMPRESSED_CHUNK)
        + IF rest > 0 THEN chunk(rest) ELSE 0

(* A chunk: "data", "skipped" (padding, skippable or a repeated identifier),
   "reserved" or "malformed" (its body is not what the type requires); its
   length, and the uncompressed length the body of a data chunk declares. *)
Chunk(type, len, plain) == [type |-> type, len |-> len, plain |-> plain]

(* A stream: the bytes of its response code, its varint, whether the snappy
   identifier follows it, and all chunks, those of later messages included. *)
Stream(code, varint, identified, chunks) ==
  [code |-> code, varint |-> varint, identified |-> identified, chunks |-> chunks]

(* encode_varint: seven bits to the byte. *)
encode_varint(value) ==
  [len |-> CHOOSE k \in 1..10 : value < 128^k /\ (k > 1 => value >= 128^(k - 1)),
   value |-> value, valid |-> TRUE]

(* What a parser says of the first bytes of a stream: not enough, malformed,
   a number; inside the loop over the chunks, nothing yet. *)
None == [is |-> "None"]
Err == [is |-> "Err"]
Some(n) == [is |-> "Some", value |-> n]
Scanning == [is |-> "Scanning"]

decode_varint_prefix(varint, n) ==
  IF n < varint.len THEN None
  ELSE IF varint.valid THEN Some(varint.value) ELSE Err

(* One round of the loop, at chunk c: `at` has the position, the uncompressed
   bytes so far and the verdict. *)
ScanChunk(n, expected, at, c) ==
  LET end   == at.pos + HeaderLen + c.len
      total == at.total + c.plain
      say(verdict) == [at EXCEPT !.verdict = verdict]
      next == [at EXCEPT !.pos = end, !.total = total]
  IN  IF at.verdict # Scanning THEN at
      ELSE IF n < at.pos + HeaderLen THEN say(None)
      ELSE IF end > max_framed_len(expected) \/ c.type = "reserved" THEN say(Err)
      ELSE IF n < end THEN say(None)
      ELSE IF c.type = "skipped" THEN next
      ELSE IF \/ c.type = "malformed" \/ c.len < CrcLen
              \/ c.plain > MAX_UNCOMPRESSED_CHUNK \/ total > expected THEN say(Err)
      ELSE IF total = expected THEN say(Some(end)) ELSE next

calculate_snappy_frame_size(s, n, expected) ==
  LET scanned == FoldLeft(LAMBDA at, c : ScanChunk(n, expected, at, c),
                          [pos |-> IdentifierLen, total |-> 0, verdict |-> Scanning],
                          s.chunks)
  IN  IF n < IdentifierLen THEN None
      ELSE IF ~ s.identified THEN Err
      ELSE IF expected = 0 THEN Some(IdentifierLen)
      ELSE IF scanned.verdict = Scanning THEN None ELSE scanned.verdict

(* Where the snappy frame starts. *)
FrameStart(s) == s.code + s.varint.len

(* The length of the frame, once the varint is known and allowed and the frame
   has begun: what the four codec functions have in common. *)
FrameOf(s, n) ==
  LET prefix == decode_varint_prefix(s.varint, n - s.code)
  IN  IF prefix \in {None, Err} THEN prefix
      ELSE IF prefix.value > max_message_size THEN Err
      ELSE IF n <= FrameStart(s) THEN None
      ELSE calculate_snappy_frame_size(s, n - FrameStart(s), prefix.value)

(* Variant: one more byte than the message is asked for. *)
TakenLate(s, n) ==
  LET frame == FrameOf(s, n)
  IN  IF frame \in {None, Err} THEN frame
      ELSE IF n <= FrameStart(s) + frame.value THEN None
      ELSE Some(FrameStart(s) + frame.value)

(* The length of the message at the start of the buffer, which is split off. *)
Taken(s, n) ==
  LET frame == FrameOf(s, n)
  IN  IF frame \in {None, Err} THEN frame
      ELSE IF n < FrameStart(s) + frame.value THEN None
      ELSE Some(FrameStart(s) + frame.value)

(* InboundCodec.decode of a request, OutboundCodec.decode of a response. *)
InboundDecode(s, n) == IF n = 0 THEN None ELSE Taken(s, n)
OutboundDecode(s, n) == IF n < 2 THEN None ELSE Taken(s, n)

(* Variant: bytes after the frame are let through. *)
EncodeWithTrailer(s, n) ==
  n >= 2 /\ FrameOf(s, n).is = "Some" /\ n >= FrameStart(s) + FrameOf(s, n).value

(* OutboundCodec.encode of a request, InboundCodec.encode of a response: whether
   a payload of n bytes is written. *)
OutboundEncode(s, n) == n > 0 /\ FrameOf(s, n) = Some(n - FrameStart(s))
InboundEncode(s, n) == n >= 2 /\ FrameOf(s, n) = Some(n - FrameStart(s))
=============================================================================
