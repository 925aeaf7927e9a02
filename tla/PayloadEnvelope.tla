-------------------------- MODULE PayloadEnvelope ---------------------------
(* How a serialized payload travels through Redis: the compression envelope  *)
(* (internal/compression.ts) inside the DialCache frame                      *)
(* (internal/redis-payload.ts).  Payloads are strings or buffers; a string   *)
(* stands for its UTF-8 bytes.  The eight timestamp bytes of a frame are one *)
(* cell here, so a header has three cells.  zstd is external: a pair of      *)
(* functions on byte strings of which only the round trip is assumed.        *)
EXTENDS Integers, Sequences

CONSTANTS Bytes,                    \* byte values
          Payloads,                 \* what serializers may return
          Thresholds,               \* compression.thresholdBytes
          MAX_DECOMPRESSED_BYTES,
          Stamps,                   \* createdAtMs of writes
          ForeignFrames,            \* other byte strings found under the key
          zstdCompressSync(_), zstdDecompressSync(_),
          Null, Failure

\* Payloads of any content: a string or a buffer.
AnyPayload == [kind : {"string", "buffer"}, bytes : Seq(Nat)]

ASSUME PayloadAssumption ==
    /\ Bytes \subseteq Nat
    /\ Payloads \subseteq [kind : {"string", "buffer"}, bytes : Seq(Bytes)]
    /\ Stamps \subseteq Nat
    /\ MAX_DECOMPRESSED_BYTES \in Nat

\* zstd restores what it compressed.
ASSUME ZstdAssumption ==
    \A p \in Payloads :
       /\ zstdCompressSync(p.bytes) \in Seq(Bytes)
       /\ zstdDecompressSync(zstdCompressSync(p.bytes)) = p.bytes

ASSUME NullAssumption ==
    /\ Null \notin Seq(Nat)
    /\ Failure \notin Seq(Nat) /\ Failure \notin AnyPayload

MARKER_ESCAPED_RAW == 0
MARKER_ZSTD_UTF8 == 1
MARKER_ZSTD_BINARY == 2

REDIS_FRAME_VERSION == 1
REDIS_ENCODING_UTF8 == 0
REDIS_ENCODING_BINARY == 1
REDIS_FRAME_HEADER == 2             \* version and timestamp
REDIS_FRAME_MIN == 3                \* and the encoding

VARIABLES
    compression,    \* the writer's policy: a threshold, or Null when disabled
    stored,         \* the byte string under the value key, or Null
    written,        \* history: the payload and stamp in it, Null if foreign
    reply           \* what the last read gave the serializer's load

envelopeVars == <<compression, stored, written, reply>>

Buffer(bytes) == [kind |-> "buffer", bytes |-> bytes]
String(bytes) == [kind |-> "string", bytes |-> bytes]

Rest(s) == SubSeq(s, 2, Len(s))

-----------------------------------------------------------------------------
(* The compression envelope *)

\* Faulty variant: a leading zero is not taken for an envelope byte.
escapeRawPayload_ZstdOnly(p) ==
    IF p.kind = "buffer" /\ p.bytes # <<>>
          /\ p.bytes[1] \in {MARKER_ZSTD_UTF8, MARKER_ZSTD_BINARY}
    THEN Buffer(<<MARKER_ESCAPED_RAW>> \o p.bytes) ELSE p

\* A buffer that begins with an envelope byte is prefixed with the escape.
escapeRawPayload(p) ==
    IF p.kind = "buffer" /\ p.bytes # <<>> /\ p.bytes[1] <= MARKER_ZSTD_BINARY
    THEN Buffer(<<MARKER_ESCAPED_RAW>> \o p.bytes) ELSE p

\* Compressed when at or above the threshold, within what a reader will
\* decompress, and smaller than the raw form, marker included.
compressPayload(p, thresholdBytes) ==
    LET raw == escapeRawPayload(p)
        marker == IF p.kind = "buffer" THEN MARKER_ZSTD_BINARY ELSE MARKER_ZSTD_UTF8
        marked == <<marker>> \o zstdCompressSync(p.bytes)
    IN  IF \/ Len(p.bytes) < thresholdBytes
           \/ Len(p.bytes) > MAX_DECOMPRESSED_BYTES
           \/ Len(marked) >= Len(raw.bytes)
        THEN raw
        ELSE Buffer(marked)

Decompressed(p) ==
    LET bytes == zstdDecompressSync(Rest(p.bytes))
    IN  IF bytes = Failure \/ Len(bytes) > MAX_DECOMPRESSED_BYTES THEN p
        ELSE IF p.bytes[1] = MARKER_ZSTD_UTF8 THEN String(bytes)
        ELSE Buffer(bytes)

\* The reverse, whatever the reader's own policy is.  A prefix that the escape
\* cannot have produced, and a stream zstd rejects, pass through unchanged.
decompressPayload(p) ==
    IF p.kind # "buffer" \/ p.bytes = <<>> THEN p
    ELSE IF p.bytes[1] = MARKER_ESCAPED_RAW
    THEN IF Len(p.bytes) > 1 /\ p.bytes[2] <= MARKER_ZSTD_BINARY
         THEN Buffer(Rest(p.bytes)) ELSE p
    ELSE IF p.bytes[1] \in {MARKER_ZSTD_UTF8, MARKER_ZSTD_BINARY}
    THEN Decompressed(p)
    ELSE p

-----------------------------------------------------------------------------
(* The frame *)

encodeRedisFrame(p, createdAtMs) ==
    <<REDIS_FRAME_VERSION, createdAtMs,
      IF p.kind = "buffer" THEN REDIS_ENCODING_BINARY ELSE REDIS_ENCODING_UTF8>>
    \o p.bytes

isSupportedRedisFrame(frame) ==
    Len(frame) >= REDIS_FRAME_MIN /\ frame[1] = REDIS_FRAME_VERSION

decodeRedisPayload(frame) ==
    LET encoding == frame[REDIS_FRAME_HEADER + 1]
        bytes == SubSeq(frame, REDIS_FRAME_MIN + 1, Len(frame))
    IN  IF encoding = REDIS_ENCODING_UTF8 THEN String(bytes)
        ELSE IF encoding = REDIS_ENCODING_BINARY THEN Buffer(bytes)
        ELSE Failure

-----------------------------------------------------------------------------
(* The system *)

EnvelopeTypes ==
    /\ compression \in Thresholds \cup {Null}
    /\ written \in [payload : Payloads, createdAtMs : Stamps] \cup {Null}

EnvelopeInit ==
    /\ compression \in Thresholds \cup {Null}
    /\ stored = Null
    /\ written = Null
    /\ reply = Null

\* A process with another policy takes over.
Reconfigure(c) ==
    /\ compression' = c
    /\ UNCHANGED <<stored, written, reply>>

\* putWithLayer, from the serializer's output to the SET.
Write(p, createdAtMs) ==
    /\ stored' = encodeRedisFrame(IF compression = Null THEN escapeRawPayload(p)
                                  ELSE compressPayload(p, compression),
                                  createdAtMs)
    /\ written' = [payload |-> p, createdAtMs |-> createdAtMs]
    /\ reply' = Null
    /\ UNCHANGED compression

\* Another writer's byte string, or none.
ForeignWrite(frame) ==
    /\ stored' = frame
    /\ written' = Null
    /\ reply' = Null
    /\ UNCHANGED compression

\* decodeRedisReadResult and deserializePayload: an absent or unsupported frame
\* is a miss, an unknown encoding an error.
Read ==
    /\ reply' =
        IF stored = Null THEN [status |-> "miss"]
        ELSE IF ~isSupportedRedisFrame(stored) THEN [status |-> "miss"]
        ELSE IF decodeRedisPayload(stored) = Failure THEN [status |-> "error"]
        ELSE [status |-> "frame", createdAtMs |-> stored[REDIS_FRAME_HEADER],
              payload |-> decompressPayload(decodeRedisPayload(stored))]
    /\ UNCHANGED <<compression, stored, written>>

EnvelopeNext ==
    \/ Read
    \/ \E c \in Thresholds \cup {Null} : Reconfigure(c)
    \/ \E p \in Payloads, createdAtMs \in Stamps : Write(p, createdAtMs)
    \/ \E frame \in ForeignFrames \cup {Null} : ForeignWrite(frame)

EnvelopeSpec == EnvelopeInit /\ [][EnvelopeNext]_envelopeVars

-----------------------------------------------------------------------------
\* A read of what DialCache wrote hands the serializer exactly the payload it
\* produced, with its kind and its stamp, whichever policy wrote it, whatever
\* bytes it begins with, and whether or not compression is on by then.
ReadsAreExact ==
    written # Null /\ reply # Null =>
       reply = [status |-> "frame", createdAtMs |-> written.createdAtMs,
                payload |-> written.payload]
=============================================================================
