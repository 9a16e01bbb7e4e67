---------------------------- MODULE FrameLayout ----------------------------
(***************************************************************************)
(* How a media frame is laid out for the wire and taken apart again: the   *)
(* codecs' choice of clear and encrypted bytes, the frame processors, the  *)
(* supplemental bytes with their LEB128 integers, and the RTP packet       *)
(* around the frame.  One behaviour writes and reads one frame or packet.   *)
(*                                                                         *)
(* A byte is any value: the bytes of a codec unit are named by position    *)
(* and the codecs' bit fields are attributes of the unit.  Sealing a byte  *)
(* is the tuple <<"sealed", b>>; the AEAD tag is left out.                 *)
(***************************************************************************)
EXTENDS Integers, Sequences, SequencesExt

CONSTANTS
  TRANSFORM_PADDING_BYTES,  \* room the output buffer has for the ranges
  SizeWrap,                 \* values of supplemental_bytes_size
  MediaFrames,              \* frames to send: a codec, its units, bytes it lacks
  Nonces,                   \* truncated nonces
  Packets                   \* RTP packets: header fields, payload, padding, bytes lost

ASSUME LayoutConstants ==
  /\ {TRANSFORM_PADDING_BYTES, SizeWrap} \union Nonces \subseteq Nat
  /\ SizeWrap > 0
  /\ \A f \in MediaFrames :
       /\ f.codec \in {"opus", "vp8", "vp9", "h264", "h265", "av1"}
       /\ f.units \in Seq(Range(f.units)) /\ (f.codec = "vp8" => f.units # <<>>)
       /\ f.missing \in Nat /\ (f.codec # "av1" => f.missing = 0)
       /\ \A u \in Range(f.units) : /\ {u.size, u.pps} \subseteq Nat
                                     /\ u.code \in {0, 3, 4} /\ u.has_size \in BOOLEAN
  /\ \A p \in Packets : /\ {p.csrcs, p.padding, p.missing} \subseteq Nat /\ p.words \in Int
                        /\ p.payload \in Seq(Range(p.payload))

VARIABLES media, transmitted, stage

layoutvars == <<media, transmitted, stage>>

Bytes(name, first, last) == [k \in 1..(last - first + 1) |-> <<name, first + k - 1>>]
Clear(bytes) == [clear |-> TRUE, bytes |-> bytes]
Secret(bytes) == [clear |-> FALSE, bytes |-> bytes]
NALU_LONG_START_CODE == Bytes("code", 1, 4)
-----------------------------------------------------------------------------
(* LEB128.                                                                 *)

write_leb128(value) ==
  LET w[v \in 0..value] == IF v < 128 THEN <<v>>
                           ELSE <<128 + (v % 128)>> \o w[v \div 128]
  IN  w[value]

leb128_size(value) == Len(write_leb128(value))

\* The integer whose groups of seven bits the bytes are, the lowest first.
Leb128Value(bytes) ==
  LET n == Len(bytes)
      high[k \in 0..n] == IF k = 0 THEN 0
                          ELSE (bytes[n + 1 - k] % 128) + (128 * high[k - 1])
  IN  high[n]

\* The first integer of a byte sequence, with the bytes after it; a sequence
\* without a terminator is refused.  (The code also stops after ten bytes, which
\* no integer below 2^64 takes up without a terminator.)
read_leb128(bytes) ==
  LET ends == {k \in DOMAIN bytes : bytes[k] < 128} IN
  IF ends = {} THEN [ok |-> FALSE, value |-> 0, rest |-> <<>>]
  ELSE LET last == CHOOSE k \in ends : \A j \in ends : k <= j IN
       [ok |-> TRUE, value |-> Leb128Value(SubSeq(bytes, 1, last)),
        rest |-> SubSeq(bytes, last + 1, Len(bytes))]
-----------------------------------------------------------------------------
(* The frame as it comes from the encoder: its units (NAL units, OBUs, or  *)
(* the one unit of another codec), each behind what marks its beginning.   *)
(* The bytes of an H264 or H265 frame before its first start code are a    *)
(* unit whose code has no bytes.  An AV1 frame may lack missing bytes at   *)
(* its end.                                                                *)

UnitHead(frame, k) ==
  LET u == frame.units[k] IN
  CASE frame.codec \in {"h264", "h265"} -> Bytes("code", 5 - u.code, 4)
    [] frame.codec = "av1" ->
         <<(<<k, "header", u.has_size>>)>>
           \o (IF u.extension THEN <<(<<k, "extension">>)>> ELSE <<>>)
           \o (IF u.has_size THEN Bytes(<<k, "size">>, 1, leb128_size(u.size)) ELSE <<>>)
    [] OTHER -> <<>>

UnitBytes(frame, k) == Bytes(k, 1, frame.units[k].size)

\* The frame's bytes from unit k on, and from the content of unit k on.
RawFrom(frame, k) ==
  FlattenSeq([j \in 1..(Len(frame.units) + 1 - k) |->
                UnitHead(frame, k + j - 1) \o UnitBytes(frame, k + j - 1)])

ContentFrom(frame, k) == UnitBytes(frame, k) \o RawFrom(frame, k + 1)

RawFrame(frame) == SubSeq(RawFrom(frame, 1), 1, Len(RawFrom(frame, 1)) - frame.missing)

\* An encoder's NAL units are not empty, and only bytes before the first have no
\* start code; only the last OBU may go without its size; and a frame that lacks
\* bytes ends within its last OBU, which has one.
ASSUME FramesAreEncoded ==
  \A f \in MediaFrames :
    /\ f.missing > 0 => f.units # <<>>
    /\ \A k \in DOMAIN f.units :
         LET u == f.units[k]  last == k = Len(f.units) IN
         /\ f.codec \in {"h264", "h265"} => u.size > 0 /\ (u.code = 0 => k = 1)
         /\ f.codec = "av1" /\ ~last => u.has_size
         /\ f.missing > 0 /\ last =>
              u.has_size /\ f.missing < Len(UnitHead(f, k)) + u.size
-----------------------------------------------------------------------------
(* Codecs: the pieces a frame is split into, in output order.              *)

\* The codec takes the frame; one it does not take is encrypted whole: an H264
\* or H265 frame too short for a unit, an AV1 frame that ends within an OBU.
Parses(frame) ==
  CASE frame.codec = "h264" -> Len(RawFrame(frame)) >= 4
    [] frame.codec = "h265" -> Len(RawFrame(frame)) >= 5
    [] frame.codec = "av1" ->
         /\ frame.missing = 0
         /\ \A k \in DOMAIN frame.units : frame.units[k].has_size \/ frame.units[k].size > 0
    [] OTHER -> TRUE

\* process_frame_opus, process_frame_vp9
process_frame_opus(frame) == <<Secret(RawFrame(frame))>>

\* process_frame_vp8: the payload header, ten bytes of a key frame.
Vp8Header(frame) == IF frame.units[1].key THEN 10 ELSE 1

process_frame_vp8(frame) ==
  <<Clear(SubSeq(RawFrame(frame), 1, Vp8Header(frame))),
    Secret(SubSeq(RawFrame(frame), Vp8Header(frame) + 1, Len(RawFrame(frame))))>>

\* What is shown of a NAL unit: of a slice its header, which in H264 reaches up
\* to the PPS id (pps bytes after the header byte, perhaps beyond the unit); all
\* of another unit.
ShownBytes(frame, k) ==
  LET u == frame.units[k] IN
  IF ~u.slice THEN u.size ELSE IF frame.codec = "h264" THEN 1 + u.pps ELSE 2

\* Bytes before the first start code are skipped, and a last unit of one byte.
IsNalUnit(frame, k) ==
  frame.units[k].code > 0 /\ (k = Len(frame.units) => frame.units[k].size >= 2)

\* process_frame_h264, process_frame_h265: a start code, what is shown and the
\* rest of the unit.  A header one byte longer than its unit makes the count of
\* the rest the one that stands for all that is left of the frame.
process_frame_h26x(frame) ==
  FlattenSeq([k \in DOMAIN frame.units |->
    LET content == ContentFrom(frame, k)
        shown == ShownBytes(frame, k)
        last == IF frame.units[k].size = shown - 1 THEN Len(content)
                ELSE frame.units[k].size
    IN IF ~IsNalUnit(frame, k) THEN <<>>
       ELSE <<Clear(NALU_LONG_START_CODE), Clear(SubSeq(content, 1, shown)),
              Secret(SubSeq(content, shown + 1, last))>>])

\* process_frame_av1: OBUs the packetizer drops are left out; the last OBU
\* loses its size field, the size of the others is written anew.
process_frame_av1(frame) ==
  FlattenSeq([k \in DOMAIN frame.units |->
    LET u == frame.units[k]
        sized == u.has_size /\ k < Len(frame.units)
    IN IF u.dropped THEN <<>>
       ELSE <<Clear(<<(<<k, "header", sized>>)>>),
              Clear(IF u.extension THEN <<(<<k, "extension">>)>> ELSE <<>>),
              Clear(IF sized THEN Bytes(<<k, "size">>, 1, leb128_size(u.size)) ELSE <<>>),
              Secret(UnitBytes(frame, k))>>])

\* A header that is longer than the frame, or by two bytes and more than its NAL
\* unit, leaves a count below zero, of which vector::insert makes a length_error.
Raises(frame) ==
  \/ frame.codec = "vp8" /\ Len(RawFrame(frame)) < Vp8Header(frame)
  \/ /\ frame.codec \in {"h264", "h265"} /\ Parses(frame)
     /\ \E k \in DOMAIN frame.units :
          LET over == ShownBytes(frame, k) - frame.units[k].size IN
          /\ IsNalUnit(frame, k)
          /\ over > 1 \/ (over = 1 /\ ShownBytes(frame, k) > Len(ContentFrom(frame, k)))

Pieces(frame) ==
  CASE ~Parses(frame) -> <<Secret(RawFrame(frame))>>
    [] Parses(frame) /\ frame.codec \in {"opus", "vp9"}  -> process_frame_opus(frame)
    [] Parses(frame) /\ frame.codec = "vp8" -> process_frame_vp8(frame)
    [] Parses(frame) /\ frame.codec \in {"h264", "h265"} -> process_frame_h26x(frame)
    [] Parses(frame) /\ frame.codec = "av1" -> process_frame_av1(frame)
-----------------------------------------------------------------------------
(* Outbound.                                                               *)

\* add_unencrypted_bytes, add_encrypted_bytes: adjacent clear bytes are one
\* range.
AddPiece(p, piece) ==
  LET n == Len(piece.bytes)
      last == p.ranges[Len(p.ranges)]
      joins == p.ranges # <<>> /\ last.offset + last.size = p.index
      longer == IF joins THEN [p.ranges EXCEPT ![Len(p.ranges)].size = @ + n]
                ELSE Append(p.ranges, [offset |-> p.index, size |-> n])
  IN IF piece.clear
     THEN [p EXCEPT !.index = @ + n, !.clear = @ \o piece.bytes, !.ranges = longer]
     ELSE [p EXCEPT !.index = @ + n, !.secret = @ \o piece.bytes]

reset == [index |-> 0, clear |-> <<>>, secret |-> <<>>, ranges |-> <<>>]

process_frame(frame) ==
  LET pieces == Pieces(frame)
      added[k \in 0..Len(pieces)] ==
        IF k = 0 THEN reset ELSE AddPiece(added[k - 1], pieces[k])
  IN  added[Len(pieces)]

\* One range of do_reconstruct: other bytes up to its offset, then its own.
CopyRange(s, range, range_bytes, other_bytes) ==
  LET gap == IF range.offset > Len(s.out) THEN range.offset - Len(s.out) ELSE 0
  IN [out |-> s.out \o SubSeq(other_bytes, s.others + 1, s.others + gap)
                    \o SubSeq(range_bytes, s.taken + 1, s.taken + range.size),
      taken |-> s.taken + range.size, others |-> s.others + gap]

\* The ranges' bytes at their offsets, the other bytes between and after them.
do_reconstruct(ranges, range_bytes, other_bytes) ==
  LET n == Len(ranges)
      copied[k \in 0..n] ==
        IF k = 0 THEN [out |-> <<>>, taken |-> 0, others |-> 0]
        ELSE CopyRange(copied[k - 1], ranges[k], range_bytes, other_bytes)
  IN  copied[n].out \o SubSeq(other_bytes, copied[n].others + 1, Len(other_bytes))

Leb128Pair(range) == write_leb128(range.offset) \o write_leb128(range.size)

\* The ranges that fit into the rest of the buffer, if any is left; their size is
\* returned as a byte, so that a longer text is cut.
serialize_unencrypted_ranges(ranges, buffer_size) ==
  LET text == FoldLeft(LAMBDA s, range :
                IF \/ s.full
                   \/ buffer_size >= 0 /\ Len(s.bytes \o Leb128Pair(range)) > buffer_size
                THEN [s EXCEPT !.full = TRUE]
                ELSE [s EXCEPT !.bytes = @ \o Leb128Pair(range)],
                [bytes |-> <<>>, full |-> FALSE], ranges).bytes
  IN  SubSeq(text, 1, Len(text) % SizeWrap)

get_max_ciphertext_byte_size(frame) == Len(RawFrame(frame)) + 11 + TRANSFORM_PADDING_BYTES

Seal(bytes) == [k \in DOMAIN bytes |-> <<"sealed", bytes[k]>>]
Unseal(bytes) == [k \in DOMAIN bytes |-> bytes[k][2]]

\* What Encryptor::encrypt writes of a processed frame into a buffer of max_size:
\* body, eight bytes of tag, nonce, ranges, the size of all that and two marker
\* bytes.
Assembled(p, nonce, max_size) ==
  LET body == do_reconstruct(p.ranges, p.clear, Seal(p.secret))
      number == write_leb128(nonce)
      ranges == serialize_unencrypted_ranges(p.ranges,
                  max_size - Len(body) - 8 - Len(number))
  IN [body |-> body, numbers |-> number \o ranges,
      bytes_size |-> (8 + Len(number \o ranges) + 3) % SizeWrap]

\* Encryptor::encrypt with a key.
encrypt(frame, nonce) ==
  Assembled(process_frame(frame), nonce, get_max_ciphertext_byte_size(frame))

\* How Encryptor::encrypt ends.  Nothing to write, or a body larger than the
\* buffer, is EncryptionFailed.  serialize_unencrypted_ranges keeps no room for
\* the size and the marker: they may be written past the buffer's end, and what
\* follows then is undefined.
Outcome(frame, nonce) ==
  LET w == encrypt(frame, nonce)
      room == get_max_ciphertext_byte_size(frame) - Len(w.body)
  IN IF Raises(frame) THEN "thrown"
     ELSE IF w.body = <<>> \/ room < 0 THEN "refused"
     ELSE IF 8 + Len(w.numbers) + 3 > room THEN "overrun"
     ELSE "written"
-----------------------------------------------------------------------------
(* Inbound.                                                                *)

\* deserialize_unencrypted_ranges: pairs of integers up to the end; a pair
\* that is cut short refuses them all.
ReadRange(s) ==
  LET offset == read_leb128(s.rest)
      size == read_leb128(offset.rest)
  IN IF s.rest = <<>> \/ ~s.ok THEN s
     ELSE IF ~offset.ok \/ ~size.ok THEN [s EXCEPT !.ok = FALSE]
     ELSE [ok |-> TRUE, rest |-> size.rest,
           ranges |-> Append(s.ranges, [offset |-> offset.value, size |-> size.value])]

\* Every pair takes a byte and more.
deserialize_unencrypted_ranges(bytes) ==
  LET read[k \in 0..Len(bytes)] ==
        IF k = 0 THEN [ok |-> TRUE, rest |-> bytes, ranges |-> <<>>]
        ELSE ReadRange(read[k - 1])
  IN  read[Len(bytes)]

validate_unencrypted_ranges(ranges, frame_size) ==
  \A k \in DOMAIN ranges :
    ranges[k].offset + ranges[k].size <=
      IF k < Len(ranges) THEN ranges[k + 1].offset ELSE frame_size

\* The authenticated bytes are the ranges', the ciphertext the others.
SplitRange(s, range, body) ==
  [ciphertext |-> s.ciphertext \o SubSeq(body, s.index + 1, range.offset),
   authenticated |-> s.authenticated
                     \o SubSeq(body, range.offset + 1, range.offset + range.size),
   index |-> range.offset + range.size]

Split(body, ranges) ==
  LET n == Len(ranges)
      split[k \in 0..n] ==
        IF k = 0 THEN [ciphertext |-> <<>>, authenticated |-> <<>>, index |-> 0]
        ELSE SplitRange(split[k - 1], ranges[k], body)
  IN [authenticated |-> split[n].authenticated,
      ciphertext |-> split[n].ciphertext \o SubSeq(body, split[n].index + 1, Len(body))]

NotEncrypted == [encrypted |-> FALSE]

\* parse_frame.  A wrong supplemental size points at other bytes, which the
\* tag does not authenticate.
parse_frame(w) ==
  LET nonce == read_leb128(w.numbers)
      rest == deserialize_unencrypted_ranges(nonce.rest)
      supplemental == 8 + Len(w.numbers) + 3
      parts == Split(w.body, rest.ranges)
  IN IF \/ w.bytes_size # supplemental
        \/ ~nonce.ok \/ ~rest.ok
        \/ ~validate_unencrypted_ranges(rest.ranges, Len(w.body) + supplemental)
     THEN NotEncrypted
     ELSE [encrypted |-> TRUE, nonce |-> nonce.value, ranges |-> rest.ranges,
           authenticated |-> parts.authenticated, ciphertext |-> parts.ciphertext]

\* InboundFrameProcessor::reconstruct_frame, after the ciphertext was opened.
reconstruct_frame(q) ==
  do_reconstruct(q.ranges, q.authenticated, Unseal(q.ciphertext))
-----------------------------------------------------------------------------
(* The RTP packet (voice_crypto, ReceiverOp::process).                     *)

\* A packet as a peer builds it: csrcs contributing sources, an extension of
\* words 32-bit words (none if words < 0), and padding that ends with its size.
RtpPacket(packet) ==
  LET csrcs == packet.csrcs  words == packet.words  padding == packet.padding IN
  [version |-> packet.version, payload_type |-> packet.payload_type,
   missing |-> packet.missing,
   aad |-> 12 + (4 * csrcs) + (IF words < 0 THEN 0 ELSE 4),
   extension |-> words >= 0, ext_len_words |-> words, csrcs |-> csrcs,
   padding |-> padding > 0,
   plaintext |-> Bytes("ext", 1, 4 * words) \o packet.payload
                 \o [k \in 1..padding |-> <<"pad", padding>>]]

strip_rtp_padding(payload, padding) ==
  LET pad == IF payload # <<>> /\ payload[Len(payload)][1] = "pad"
             THEN payload[Len(payload)][2] ELSE 0
  IN IF ~padding \/ pad = 0 \/ pad > Len(payload) THEN payload
     ELSE SubSeq(payload, 1, Len(payload) - pad)

\* ReceiverOp::process up to the decryptor: the media payload of a packet, if any.
\* A packet that lost bytes is too short for its header or not authentic.
media_payload(packet) ==
  LET aad == 12 + (packet.csrcs * 4) + (IF packet.extension THEN 4 ELSE 0)
      skip == IF packet.extension THEN packet.ext_len_words * 4 ELSE 0
  IN IF \/ packet.version # 2 \/ packet.payload_type # 120 \/ packet.missing > 0
        \/ aad # packet.aad \/ skip > Len(packet.plaintext)
     THEN <<>>
     ELSE <<strip_rtp_padding(SubSeq(packet.plaintext, skip + 1, Len(packet.plaintext)),
                              packet.padding)>>

-----------------------------------------------------------------------------
LInit ==
  /\ media \in [frame : MediaFrames, nonce : Nonces] \union [packet : Packets]
  /\ transmitted = NotEncrypted
  /\ stage = "new"

IsPacket == "packet" \in DOMAIN media

\* The sender writes a frame; a peer's packet around one arrives.
WriteMedia ==
  /\ stage = "new"
  /\ stage' = IF IsPacket THEN "written" ELSE Outcome(media.frame, media.nonce)
  /\ transmitted' = IF IsPacket THEN RtpPacket(media.packet)
                    ELSE IF stage' = "written" THEN encrypt(media.frame, media.nonce)
                    ELSE NotEncrypted
  /\ UNCHANGED media

ReadMedia ==
  /\ stage = "written"
  /\ transmitted' = IF IsPacket THEN [delivered |-> media_payload(transmitted)]
                    ELSE parse_frame(transmitted)
  /\ stage' = "read"
  /\ UNCHANGED media

LNext == WriteMedia \/ ReadMedia
-----------------------------------------------------------------------------
(* Properties.                                                             *)

\* What the codec makes of the frame: the bytes the decoder must get.
Sanitised(frame) == FlattenSeq([k \in DOMAIN Pieces(frame) |-> Pieces(frame)[k].bytes])

\* All the ranges are written, and their size fits a byte.
Fits(frame, nonce) ==
  LET w == encrypt(frame, nonce)
      ranges == process_frame(frame).ranges
  IN /\ w.numbers = write_leb128(nonce)
                      \o FlattenSeq([k \in DOMAIN ranges |-> Leb128Pair(ranges[k])])
     /\ 8 + Len(w.numbers) + 3 < SizeWrap

\* What parse_frame found in the frame is what encrypt authenticated and sealed,
\* so that the tag is the right one.
Authentic(q, frame, nonce) ==
  /\ q.encrypted
  /\ q.nonce = nonce
  /\ q.authenticated = process_frame(frame).clear
  /\ q.ciphertext = Seal(process_frame(frame).secret)

\* A frame that was written with all its ranges opens and is reconstructed byte
\* for byte, whatever units its codec finds in it, and also if the codec did not
\* take it.  (A frame that was refused, or whose processing threw or left the
\* buffer, is not written.)
FramesReadBack ==
  stage = "read" /\ ~IsPacket /\ Fits(media.frame, media.nonce) =>
    /\ Authentic(transmitted, media.frame, media.nonce)
    /\ reconstruct_frame(transmitted) = Sanitised(media.frame)

\* A frame that lost ranges, because they did not fit the buffer or their size no
\* byte, is not opened as another frame.
CutFramesAreRefused ==
  stage = "read" /\ ~IsPacket /\ ~Fits(media.frame, media.nonce) =>
    ~Authentic(transmitted, media.frame, media.nonce)

\* The receiver finds the payload of any Opus packet a peer may build and that
\* arrives whole, and no payload in another (ReceiverOp::process).
PacketsReadBack ==
  stage = "read" /\ IsPacket =>
    transmitted.delivered =
      IF /\ media.packet.version = 2 /\ media.packet.payload_type = 120
         /\ media.packet.missing = 0
      THEN <<media.packet.payload>> ELSE <<>>
=============================================================================
