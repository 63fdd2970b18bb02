------------------------------ MODULE PyCursor -------------------------------
(***************************************************************************)
(* The serializers of the Python tool-chain (python/.../serializer/        *)
(* cursor.py, packed.py, writer.py, tracking.py, neo_stream.py). A file is *)
(* a sequence of bytes; a number is its bytes, most significant first, so  *)
(* that a little-endian one stands reversed in the file.                   *)
(***************************************************************************)
EXTENDS ClassSpecs

(* fourcc_to_int *)
FOURCC ==
  [NPfl |-> <<78, 80, 102, 108>>, vers |-> <<118, 101, 114, 115>>,
   NULL |-> <<110, 117, 108, 108>>]
Zeros(n) == [i \in 1 .. n |-> 0]

(* BIT_REVERSE_TABLE *)
BitReverse(b) ==
  128 * (b % 2) + 64 * ((b \div 2) % 2) + 32 * ((b \div 4) % 2) + 16 * ((b \div 8) % 2)
  + 8 * ((b \div 16) % 2) + 4 * ((b \div 32) % 2) + 2 * ((b \div 64) % 2) + ((b \div 128) % 2)
BitReversed(bytes) == [i \in DOMAIN bytes |-> BitReverse(bytes[i])]

(* A number of up to four bytes that is compared; all above 2^30 compare   *)
(* alike.                                                                  *)
AsNumber(bytes) ==
  LET byte(k) == IF k <= Len(bytes) THEN bytes[Len(bytes) + 1 - k] ELSE 0 IN
  IF byte(4) > 63 THEN 2 ^ 30
  ELSE 16777216 * byte(4) + 65536 * byte(3) + 256 * byte(2) + byte(1)

-----------------------------------------------------------------------------
(* ByteUsageMap: a code for every byte of the file the record is in.       *)
Marked(map, off, length, code) ==
  IF off < 0 \/ off >= Len(map) THEN map
  ELSE [i \in DOMAIN map |-> IF i - 1 \in off .. off + length - 1 THEN code ELSE map[i]]
ConsumedCount(map) == Len(map) - Cardinality({i \in DOMAIN map : map[i] = "UNKNOWN"})
UnknownRanges(map) ==
  LET unknown(i) == i \in DOMAIN map /\ map[i] = "UNKNOWN"
      starts == {i \in DOMAIN map : unknown(i) /\ ~unknown(i - 1)}
      end(i) == Min({k \in i .. Len(map) + 1 : ~unknown(k)})
  IN  {[abs_off |-> i - 1, length |-> end(i) - i] : i \in starts}

-----------------------------------------------------------------------------
(* A reader: wire is "tlv" for HDBSerializer, "packed" for its subclass.   *)
Reader(wire, data, abs_off, size) ==
  [wire |-> wire, data |-> data, cursor |-> 0, abs_off |-> abs_off, error |-> FALSE,
   version |-> 0, usage |-> [i \in 1 .. size |-> "UNKNOWN"]]
Eof(ser) == ser.cursor >= Len(ser.data)
Ensure(ser, n) == ~ser.error /\ ser.cursor + n <= Len(ser.data)
Failed(ser) == [ser EXCEPT !.error = TRUE]
Ahead(ser, n) == SubSeq(ser.data, ser.cursor + 1, ser.cursor + n)
(* Mutated form: the bytes are marked from where the cursor has got to. *)
MutPassed(ser, n, code) ==
  [ser EXCEPT !.cursor = @ + n,
              !.usage = Marked(@, ser.abs_off + ser.cursor + n, n, code)]
(* The value's bytes are passed and marked where they were.                *)
Passed(ser, n, code) ==
  [ser EXCEPT !.cursor = @ + n,
              !.usage = Marked(@, ser.abs_off + ser.cursor, n, code)]
Got(ser, value) == [ser |-> ser, value |-> value]

(* A byte tag that does not match is passed, a fourcc is rolled back.      *)
ExpectTag(ser, tag, code) ==
  CASE ~Ensure(ser, Len(tag)) -> Failed(ser)
    [] Ensure(ser, Len(tag)) /\ Ahead(ser, Len(tag)) = tag -> Passed(ser, Len(tag), code)
    [] OTHER -> Failed(IF Len(tag) = 1 THEN [ser EXCEPT !.cursor = @ + 1] ELSE ser)

(* The bytes of a value, and what is returned for one that is not there.   *)
ReadBytes(ser, n, blank, code) ==
  IF ser.error \/ ~Ensure(ser, n) THEN Got(Failed(ser), blank)
  ELSE Got(Passed(ser, n, code), Ahead(ser, n))

(* read_byte, read_short, read_dword and the two with a fourcc: the tag is *)
(* only in the file of the first, whose numbers are little-endian.         *)
ReadNumber(ser, tag, n, kind) ==
  LET codes == IF kind = "F" THEN <<"FOURCC_TAG", "FOURCC_VALUE">> ELSE <<"TLV_TAG", "TLV_VALUE">>
      tagged == IF ser.wire = "tlv" THEN ExpectTag(ser, tag, codes[1]) ELSE ser
      got == ReadBytes(tagged, n, Zeros(n), codes[2])
  IN  IF ser.wire = "tlv" /\ ~got.ser.error THEN Got(got.ser, Reverse(got.value)) ELSE got

ReadBuf(ser, fourcc, n) ==
  LET tagged == IF ser.wire = "tlv" THEN ExpectTag(ser, fourcc, "FOURCC_TAG") ELSE ser
      got == ReadBytes(tagged, n, <<>>, "FOURCC_VALUE")
  IN  IF ser.wire = "packed" THEN Got(got.ser, BitReversed(got.value)) ELSE got

(* read_string: the length of a packed one is marked with its text only.   *)
ReadString(ser, tag) ==
  LET tagged == IF ser.wire = "tlv" THEN ExpectTag(ser, tag, "TLV_TAG") ELSE ser
      len == ReadBytes(tagged, 2, <<>>, "TLV_VALUE")
      n == AsNumber(IF ser.wire = "tlv" THEN Reverse(len.value) ELSE len.value)
      text == ReadBytes(len.ser, n, <<>>, "TLV_VALUE")
      unmarked == [text.ser EXCEPT !.usage = tagged.usage]
  IN  CASE len.ser.error -> Got(len.ser, <<>>)
        [] ~len.ser.error /\ text.ser.error /\ ser.wire = "packed" -> Got(unmarked, <<>>)
        [] OTHER -> text

-----------------------------------------------------------------------------
(* HDBWriter *)
WriteNumber(tag, value) == tag \o Reverse(value)
WriteBuf(fourcc, value) == fourcc \o value
LengthBytes(value) == <<Len(value) \div 256, Len(value) % 256>>
WriteString(tag, value) == tag \o Reverse(LengthBytes(value)) \o value

-----------------------------------------------------------------------------
(* CNeoStream: a chunk that is not whole raises and leaves the mark; None  *)
(* stands for the exception.                                               *)
ReadChunk(data, mark, n) ==
  IF mark + n > Len(data) THEN None ELSE SubSeq(data, mark + 1, mark + n)
ReadPersistHeader(data, mark) ==
  LET flags == ReadChunk(data, mark, 2)
      version == ReadChunk(data, mark + 2, 4) IN
  IF None \in {flags, version} THEN None ELSE [packed_flags |-> flags, version |-> version]
ReadRecordMarker(data, mark) ==
  LET head == ReadPersistHeader(data, mark)
      class_id == ReadChunk(data, mark + 6, 2) IN
  IF None \in {head, class_id} THEN None
  ELSE [packed_flags |-> head.packed_flags, version |-> head.version,
        class_id |-> class_id]
=============================================================================
