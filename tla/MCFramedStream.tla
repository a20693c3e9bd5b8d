--------------------------- MODULE MCFramedStream ---------------------------
(* The instance of FramedStream for TLC. *)
EXTENDS FramedStream

(* Chunks around every condition of the scan, for messages of a few bytes and
   for messages of more than one full chunk. *)
SmallChunks ==
  { Chunk("data", 4, 0), Chunk("data", 7, 3), Chunk("data", 40, 3), Chunk("data", 3, 0),
    Chunk("skipped", 6, 0), Chunk("reserved", 0, 0), Chunk("malformed", 5, 0) }
LargeChunks ==
  { Chunk("data", 65540, 65536), Chunk("data", 65541, 65537), Chunk("data", 5, 1) }

Small == {encode_varint(v) : v \in {0, 3, 6}}
Large == {encode_varint(v) : v \in {65536, 65537, max_message_size + 1}}
Malformed == [len |-> 2, value |-> 0, valid |-> FALSE]

Layouts ==
  UNION { {Stream(code, varint, TRUE, chunks) : varint \in Small, chunks \in SeqOf(SmallChunks, 2)}
            \union {Stream(code, varint, TRUE, chunks) : varint \in Large, chunks \in SeqOf(LargeChunks, 2)}
            \union {Stream(code, varint, FALSE, << >>) : varint \in Small \union {Malformed}} :
          code \in {0, 1} }

(* Whole layouts, and the same without their last byte. *)
MCPayloads ==
  UNION { {[layout |-> s, len |-> ChunksEnd(s, Len(s.chunks)) - missing] : missing \in {0, 1}} :
          s \in Layouts }
=============================================================================
