------------------------------ MODULE PyRecords ------------------------------
(***************************************************************************)
(* A record of a persistent class written, cut short or not, and read back *)
(* (python/.../serializer/writer.py, classes/registry.py,                  *)
(* polymorphe/dispatcher.py), and the two decoders that meet it in a file  *)
(* (extractors/decoded_records.py, typed_records.py). wire "tlv" is what   *)
(* HDBWriter writes; wire "packed" what the game's own files hold.         *)
(***************************************************************************)
EXTENDS PyCursor

CONSTANTS Specs,            \* class id -> specification
          Fills,            \* the ways a record is filled
          ValueOf(_, _, _), \* fill, operation, place -> value or None
          Versions,         \* for each of them the four bytes of __vers__, or None
          Lead,             \* the bytes before the record's marker
          MaxBytes          \* best_decode_at's window

(* What a read of a specification is (spec.py), and what it is written     *)
(* from: as many bytes as the read takes; a list's head; a handle, whose   *)
(* class is never what stands for no object at all (read_obj).             *)
BYTE == 0 .. 255
DWORD == [1 .. 4 -> BYTE]
WIDTH == [Byte |-> 1, Short |-> 2, Dword |-> 4, DwordF |-> 4]
IsOp(op) ==
  /\ op.n \in Nat /\ op.above \in Int
  /\ \/ /\ op.kind \in {"Byte", "Short", "Dword"} /\ op.n = WIDTH[op.kind]
        /\ op.field \in ToSet(LETTERS)
     \/ op.kind = "DwordF" /\ op.n = 4 /\ op.field \in DOMAIN FOURCC
     \/ op.kind = "String" /\ op.field \in ToSet(LETTERS)
     \/ op.kind = "BufF" /\ op.field \in DOMAIN FOURCC
     \/ op.kind \in {"SubObj", "ObjList"}
Fits(op, value) ==
  CASE op.kind = "BaseInit" -> value = None \/ value \in Seq(BYTE)
    [] op.kind \in DOMAIN WIDTH -> value = None \/ value \in [1 .. op.n -> BYTE]
    [] op.kind = "String" -> value = None \/ (value \in Seq(BYTE) /\ Len(value) < 65536)
    [] op.kind = "BufF" -> value = None \/ value \in Seq(BYTE)
    [] op.kind = "SubObj" -> \/ value = None
                             \/ /\ value \in [1 .. 3 -> DWORD]
                                /\ value[1] \notin {Zeros(4), FOURCC.NULL}
    [] op.kind = "ObjList" -> value \in [1 .. 4 -> DWORD]

ASSUME SpecsAssumption ==
  /\ IsFiniteSet(DOMAIN Specs)
  /\ \A c \in DOMAIN Specs :
       LET ops == Specs[c].ops IN
       /\ ops \in Seq(ToSet(ops)) /\ ops # <<>> /\ ops[1] = BaseInit
       /\ \A i \in DOMAIN ops \ {1} : IsOp(ops[i])
       /\ \A f \in Fills, i \in DOMAIN ops : Fits(ops[i], ValueOf(f, ops[i], i))
ASSUME VersionsAssumption == \A f \in Fills : Versions[f] \subseteq {None} \cup DWORD
ASSUME BytesAssumption == Lead \in Seq(BYTE) /\ MaxBytes \in Nat

VARIABLES phase,    \* "write", "cut", "read" or "done"
          class,    \* the record's class
          wire,     \* "tlv" or "packed"
          fill,     \* how it is filled
          vers,     \* __vers__ of the record, or None
          at,       \* the next operation of the specification
          writer,   \* the writer: its bytes and version
          reader,   \* the serializer and the fields read so far
          best,     \* what best_decode_at makes of the file
          typed     \* what decode_typed_record makes of it
decoded == <<best, typed>>
vars == <<phase, class, wire, fill, vers, at, writer, reader, decoded>>

Ops(c) == Specs[c].ops
(* The fields of the record: for an operation its value, or None.          *)
Source(i) == ValueOf(fill, Ops(class)[i], i)
NUMBERS == {"Byte", "Short", "Dword", "DwordF"}
TagBytes(op) == IF op.kind = "DwordF" THEN FOURCC[op.field] ELSE <<TagOf(op.field)>>
Gate(op, version) == version > op.above
IsScalar(c) == \A i \in DOMAIN Ops(c) : Ops(c)[i].kind \notin {"SubObj", "ObjList"}

-----------------------------------------------------------------------------
(* Writing                                                                 *)
Fitted(value, n) == FirstOf(value, n) \o Zeros(Max({0, n - Len(value)}))
WrittenVersion(w) == Default(vers, IF w.version = 0 THEN <<0, 0, 0, 1>> ELSE w.version)

ToTlv(op, value) ==
  CASE op.kind \in NUMBERS -> WriteNumber(TagBytes(op), Default(value, Zeros(op.n)))
    [] op.kind = "String" -> WriteString(TagBytes(op), Default(value, <<>>))
    [] op.kind = "BufF" -> WriteBuf(FOURCC[op.field], Fitted(Default(value, <<>>), op.n))
    [] op.kind \in {"SubObj", "ObjList"} -> <<>>
(* A handle is <<ref, ext, index>>, a list's head <<class, null, null, id>>. *)
ToPacked(op, value, version) ==
  LET whole == Gate([op EXCEPT !.above = 4], AsNumber(version)) IN
  CASE op.kind \in NUMBERS -> Default(value, Zeros(op.n))
    [] op.kind = "String" -> LengthBytes(Default(value, <<>>)) \o Default(value, <<>>)
    [] op.kind = "BufF" -> BitReversed(Fitted(Default(value, <<>>), op.n))
    [] op.kind = "SubObj" /\ value = None -> FOURCC.NULL
    [] op.kind = "SubObj" /\ value # None ->
         value[1] \o (IF whole THEN value[2] ELSE <<>>) \o value[3]
    [] op.kind = "ObjList" ->
         value[1] \o value[2] \o (IF whole THEN value[3] ELSE <<>>) \o value[4]

WriteBase(w, npfl) ==
  LET version == WrittenVersion(w)
      flags == Fitted(Default(npfl, <<>>), 2) IN
  [bytes |-> w.bytes \o IF wire = "tlv"
               THEN WriteBuf(FOURCC.NPfl, flags) \o WriteNumber(FOURCC.vers, version)
               ELSE BitReversed(flags) \o version,
   version |-> version]
Written(w, op, value) ==
  CASE op.kind = "BaseInit" -> WriteBase(w, value)
    [] op.kind # "BaseInit" /\ ~Gate(op, AsNumber(w.version)) -> w
    [] OTHER -> [w EXCEPT !.bytes =
                   @ \o IF wire = "tlv" THEN ToTlv(op, value) ELSE ToPacked(op, value, w.version)]

-----------------------------------------------------------------------------
(* Reading                                                                 *)
(* read_dword_any as often as exts is long; where exts says TRUE only      *)
(* after version 4. An error stops no later read from being tried.         *)
ReadDword(state, ext) ==
  LET got == IF ext /\ state.ser.version <= 4 THEN Got(state.ser, None)
             ELSE ReadNumber(state.ser, <<0>>, 4, "") IN
  [ser |-> got.ser, value |-> Append(state.value, got.value)]
ReadDwords(ser, exts) == FoldLeft(ReadDword, Got(ser, <<>>), exts)

(* read_obj: the mark of a sub-object, in two parts after version 4.       *)
MARK == <<FALSE, TRUE, FALSE>>
(* Mutated form: the extension of a mark is read in every version. *)
MutReadObj(ser) ==
  LET ref == ReadDwords(ser, <<FALSE>>)
      mark == ReadDwords(ser, <<FALSE, FALSE, FALSE>>) IN
  CASE ser.error \/ Eof(ser) -> Got(ser, None)
    [] ~(ser.error \/ Eof(ser)) /\ (ref.ser.error \/ ref.value[1] \in {Zeros(4), FOURCC.NULL}) ->
         Got(ref.ser, None)
    [] OTHER -> Got(mark.ser, IF mark.ser.error THEN None ELSE mark.value)
ReadObj(ser) ==
  LET ref == ReadDwords(ser, <<FALSE>>)
      mark == ReadDwords(ser, MARK) IN
  CASE ser.error \/ Eof(ser) -> Got(ser, None)
    [] ~(ser.error \/ Eof(ser)) /\ (ref.ser.error \/ ref.value[1] \in {Zeros(4), FOURCC.NULL}) ->
         Got(ref.ser, None)
    [] OTHER -> Got(mark.ser, IF mark.ser.error THEN None ELSE mark.value)
(* read_obj_list: the head of a list of objects.                           *)
LIST_HEAD == <<FALSE, FALSE, TRUE, FALSE>>
ReadObjList(ser) ==
  LET head == ReadDwords(ser, LIST_HEAD) IN
  IF ser.error \/ Eof(ser) THEN Got(ser, <<>>)
  ELSE Got(head.ser, IF head.ser.error THEN <<>> ELSE head.value)

ReadBase(ser) ==
  LET npfl == ReadBuf(ser, FOURCC.NPfl, 2)
      version == ReadNumber(npfl.ser, FOURCC.vers, 4, "F") IN
  Got([version.ser EXCEPT !.version = AsNumber(version.value)], <<npfl.value, version.value>>)
ReadField(ser, op) ==
  CASE op.kind = "BaseInit" -> ReadBase(ser)
    [] op.kind \in NUMBERS ->
         ReadNumber(ser, TagBytes(op), op.n, IF op.kind = "DwordF" THEN "F" ELSE "")
    [] op.kind = "String" -> ReadString(ser, TagBytes(op))
    [] op.kind = "BufF" -> ReadBuf(ser, FOURCC[op.field], op.n)
    [] op.kind = "SubObj" -> ReadObj(ser)
    [] op.kind = "ObjList" -> ReadObjList(ser)

(* One turn of _apply_ops.                                                 *)
ReadStep(state, op) ==
  LET got == ReadField(state.ser, op) IN
  IF state.ser.error \/ ~Gate(op, state.ser.version) THEN state
  ELSE [ser |-> got.ser, out |-> Append(state.out, [op |-> op, value |-> got.value])]
ApplyRead(ser, c) == FoldLeft(ReadStep, [ser |-> ser, out |-> <<>>], Ops(c))
Fields(state) == SelectSeq(state.out, LAMBDA f : f.op.kind # "BaseInit")

-----------------------------------------------------------------------------
(* The decoders                                                            *)
MarkerOf(c) == <<192, 7, 0, 0, 0, 1, 0, c>>
TheFile == Lead \o MarkerOf(class) \o reader.ser.data

(* parse_record_marker *)
IsRecordMarker(raw, offset) ==
  /\ offset + 8 <= Len(raw)
  /\ raw[offset + 1] \in 192 .. 207
  /\ SubSeq(raw, offset + 3, offset + 6) = <<0, 0, 0, 1>>
MarkerFlag16(raw, offset) == SubSeq(raw, offset + 7, offset + 8)

IsPrintable(b) == b \in 32 .. 126 \/ b \in {9, 10}
Points(f) ==
  CASE f.op.kind = "BaseInit" -> 0
    [] f.op.kind = "SubObj" -> IF f.value = None THEN 0 ELSE 20
    [] f.op.kind = "ObjList" -> IF f.value = <<>> THEN -10 ELSE 15
    [] f.op.kind = "Short" -> IF f.value[1] > 127 THEN -5 ELSE 5
    [] f.op.kind \in NUMBERS \ {"Short"} -> IF AsNumber(f.value) < 100000 THEN 5 ELSE -5
    [] f.op.kind = "BufF" -> 3
    [] f.op.kind = "String" ->
         IF f.value # <<>> /\ \A i \in DOMAIN FirstOf(f.value, 64) : IsPrintable(f.value[i])
         THEN 10 ELSE -5
Score(state) == state.ser.cursor + SumOf(state.out, Points)

ReadAt(raw, offset, size, c) ==
  ApplyRead(Reader("packed", SubSeq(raw, offset + 1, Min({offset + size, Len(raw)})), offset, 0), c)
(* Mutated form: a read that failed is a candidate too. *)
MutTryDecodeAt(raw, offset, c) ==
  LET state == ReadAt(raw, offset, MaxBytes, c) IN
  [class_id |-> c, offset |-> offset, bytes_consumed |-> state.ser.cursor,
   score |-> Score(state), fields |-> Fields(state)]
(* try_decode_at: None for a read that failed or took nothing.             *)
TryDecodeAt(raw, offset, c) ==
  LET state == ReadAt(raw, offset, MaxBytes, c) IN
  IF state.ser.error \/ state.ser.cursor = 0 THEN None
  ELSE [class_id |-> c, offset |-> offset, bytes_consumed |-> state.ser.cursor,
        score |-> Score(state), fields |-> Fields(state)]
Registry == SelectSeq(RegistryOrder, LAMBDA c : c \in DOMAIN Specs)
Better(top, d) ==
  IF d = None THEN top
  ELSE IF d.score > (IF top = None THEN -1 ELSE top.score) THEN d ELSE top
(* best_decode_at: every class is tried behind the marker, if there is one. *)
BestDecodeAt(raw, offset) ==
  LET from == IF IsRecordMarker(raw, offset) THEN offset + 8 ELSE offset IN
  FoldLeft(LAMBDA top, c : Better(top, TryDecodeAt(raw, from, c)), None, Registry)
(* decode_typed_record: the class is given, a failed read is kept.         *)
DecodeTypedRecord(raw, offset, size, c) ==
  LET state == ReadAt(raw, offset, size, c) IN
  [class_id |-> c, payload_offset |-> offset, payload_size |-> size,
   bytes_consumed |-> state.ser.cursor, fields |-> Fields(state)]

-----------------------------------------------------------------------------
Init ==
  /\ phase = "write" /\ class \in DOMAIN Specs /\ wire \in {"tlv", "packed"}
  /\ fill \in Fills /\ vers \in Versions[fill]
  /\ at = 1 /\ writer = [bytes |-> <<>>, version |-> 0]
  /\ reader = [ser |-> Reader(wire, <<>>, 0, 0), out |-> <<>>]
  /\ best = None /\ typed = None
record == <<class, wire, fill, vers>>

(* apply_write, one operation at a time.                                   *)
WriteOp ==
  /\ phase = "write" /\ at <= Len(Ops(class))
  /\ writer' = Written(writer, Ops(class)[at], Source(at))
  /\ at' = at + 1 /\ UNCHANGED <<phase, record, reader, decoded>>
(* A file holds the record up to some byte, and two bytes more.            *)
Cut ==
  /\ phase = "write" /\ at > Len(Ops(class))
  /\ \E n \in 0 .. Len(writer.bytes) :
       reader' = [reader EXCEPT !.ser =
                    Reader(wire, FirstOf(writer.bytes, n), Len(Lead) + 8, Len(Lead) + 10 + n)]
  /\ phase' = "read" /\ at' = 1 /\ UNCHANGED <<record, writer, decoded>>
(* apply_read, one operation at a time.                                    *)
ReadOp ==
  /\ phase = "read" /\ at <= Len(Ops(class)) /\ ~reader.ser.error
  /\ reader' = ReadStep(reader, Ops(class)[at])
  /\ at' = at + 1 /\ UNCHANGED <<phase, record, writer, decoded>>
(* Then the record is decoded where it stands in the file.                 *)
Finish ==
  /\ phase = "read" /\ (reader.ser.error \/ at > Len(Ops(class)))
  /\ phase' = "done"
  /\ IF wire = "packed"
     THEN /\ best' = BestDecodeAt(TheFile, Len(Lead))
          /\ typed' = DecodeTypedRecord(TheFile, Len(Lead) + 8, Len(reader.ser.data), class)
     ELSE UNCHANGED decoded
  /\ UNCHANGED <<record, at, writer, reader>>
Next == WriteOp \/ Cut \/ ReadOp \/ Finish
Spec == Init /\ [][Next]_vars

-----------------------------------------------------------------------------
Done == phase = "done"
IsWhole == Len(reader.ser.data) = Len(writer.bytes)

(* What reading an operation of the record ought to give.                  *)
Expected(i) ==
  LET op == Ops(class)[i]
      value == Source(i)
      cut == AsNumber(writer.version) <= 4 IN
  CASE op.kind = "BaseInit" -> <<Fitted(Default(value, <<>>), 2), writer.version>>
    [] op.kind \in NUMBERS -> Default(value, Zeros(op.n))
    [] op.kind = "String" -> Default(value, <<>>)
    [] op.kind = "BufF" -> Fitted(Default(value, <<>>), op.n)
    [] op.kind = "SubObj" ->
         IF value = None \/ wire = "tlv" THEN None
         ELSE IF cut THEN [value EXCEPT ![2] = None] ELSE value
    [] op.kind = "ObjList" ->
         IF wire = "tlv" THEN <<>> ELSE IF cut THEN [value EXCEPT ![3] = None] ELSE value
Present == {i \in DOMAIN Ops(class) : Gate(Ops(class)[i], AsNumber(writer.version))}
Rank(i) == Cardinality({j \in Present : j <= i})
(* A sub-object or a list behind the last byte: absent, and no error.      *)
Absent(f) == \/ f.op.kind = "SubObj" /\ f.value = None
             \/ f.op.kind = "ObjList" /\ f.value = <<>>

(* However the file is cut, every field read is the one written at that    *)
(* place of the record, in the versions that have it; only the field an    *)
(* error stopped in, or an object beyond the last byte, is blank. A whole  *)
(* record is read to its last byte without error, except that the writer   *)
(* leaves out the objects the reader then looks for (apply_write,          *)
(* apply_read, read_obj, read_obj_list).                                   *)
ReadsWhatWasWritten ==
  Done =>
    /\ \A i \in Present :
         \/ Rank(i) > Len(reader.out)
         \/ reader.out[Rank(i)] = [op |-> Ops(class)[i], value |-> Expected(i)]
         \/ reader.ser.error /\ Rank(i) = Len(reader.out)
         \/ Absent(reader.out[Rank(i)]) /\ Eof(reader.ser)
    /\ Len(reader.out) <= Cardinality(Present)
    /\ ~reader.ser.error => Len(reader.out) = Cardinality(Present)
    /\ IsWhole /\ (wire = "packed" \/ IsScalar(class)) =>
         ~reader.ser.error /\ Eof(reader.ser)

(* The usage map names the record's bytes and no other: after a clean read *)
(* what is unknown is what was before the record and what is behind the    *)
(* last byte it took; a read that failed has marked no byte it did not     *)
(* pass (HDBSerializer._mark, ByteUsageMap.mark, iter_unknown_ranges).     *)
UsageIsWhatWasRead ==
  LET ser == reader.ser
      end == ser.abs_off + ser.cursor
      range(a, b) == IF a < b THEN {[abs_off |-> a, length |-> b - a]} ELSE {} IN
  Done =>
    /\ ~ser.error =>
         /\ ConsumedCount(ser.usage) = ser.cursor
         /\ UnknownRanges(ser.usage) =
              IF ser.cursor = 0 THEN range(0, Len(ser.usage))
              ELSE range(0, ser.abs_off) \cup range(end, Len(ser.usage))
    /\ ser.error =>
         \A i \in DOMAIN ser.usage :
           ser.usage[i] # "UNKNOWN" => i \in ser.abs_off + 1 .. end

(* What reading the bytes behind the marker as class c comes to, and which *)
(* of the registry's classes read there to the end of their fields.        *)
PayloadOffset == Len(Lead) + 8
ReadAs(c) == ReadAt(TheFile, PayloadOffset, MaxBytes, c)
Clean(state) == ~state.ser.error /\ state.ser.cursor > 0
CleanReads == {state \in {ReadAs(c) : c \in ToSet(Registry)} : Clean(state)}

(* The two decoders agree on a record that stands behind its marker, cut   *)
(* or not. Both find the marker's class. No read that failed is taken for  *)
(* a decode, whatever its class: the best decode is a clean read inside    *)
(* the file, no class that reads cleanly scores above it, and there is one *)
(* wherever a clean read scores 0 or more. (The score is what the code     *)
(* ranks by; its documentation speaks of the bytes consumed.) When it is of*)
(* the record's own class and its window holds the record, it has the      *)
(* fields and the length the typed decoder finds, which a failed read      *)
(* keeps (try_decode_at, best_decode_at, decode_typed_record,              *)
(* readRecordMarker).                                                      *)
DecodersAgree ==
  LET marker == ReadRecordMarker(TheFile, Len(Lead)) IN
  Done /\ wire = "packed" /\ Contains(Registry, class) =>
    /\ marker.class_id = MarkerFlag16(TheFile, Len(Lead))
    /\ marker.version = <<0, 0, 0, 1>> /\ AsNumber(marker.class_id) = class
    /\ best # None =>
         /\ Clean(ReadAs(best.class_id))
         /\ best.offset = PayloadOffset
         /\ PayloadOffset + best.bytes_consumed <= Len(TheFile)
    /\ \A state \in CleanReads :
         Score(state) >= 0 => best # None /\ best.score >= Score(state)
    /\ best # None /\ Len(reader.ser.data) <= MaxBytes /\ best.class_id = class =>
         /\ best.fields = typed.fields /\ best.bytes_consumed = typed.bytes_consumed
         /\ ~reader.ser.error
=============================================================================
