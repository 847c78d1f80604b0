---------------------------- MODULE Compression ----------------------------
(***************************************************************************)
(* compression.py: checkpoint blobs that say themselves which codec wrote  *)
(* them.  A byte string is a sequence of numbers.                          *)
(***************************************************************************)
EXTENDS Integers, Sequences

CodecNone == 0
CodecZlib == 1
Codec == {CodecNone, CodecZlib}         \* NoopCompressor, ZlibCompressor

Invalid == <<-1>>       \* decompress raised, ValueError or zlib.error

\* zlib: its streams begin with 0x78.
Deflate(data) == <<120>> \o data
Inflate(stream) == IF stream # << >> /\ Head(stream) = 120 THEN Tail(stream) ELSE Invalid

Compress(codec, data) == <<codec>> \o (IF codec = CodecZlib THEN Deflate(data) ELSE data)

\* Plausible bug: the process' own codec decodes, whatever wrote the blob.
DecodeBy(codec, blob) ==
    IF blob = << >> THEN << >>
    ELSE IF codec = CodecNone THEN Tail(blob) ELSE Inflate(Tail(blob))

\* decompress of either codec is _strip_and_dispatch: the first byte decides.
Decompress(codec, blob) ==
    CASE blob = << >>           -> << >>
      [] Head(blob) = CodecNone -> Tail(blob)
      [] Head(blob) = CodecZlib -> Inflate(Tail(blob))
      [] OTHER                  -> Invalid
=============================================================================
