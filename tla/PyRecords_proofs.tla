-------------------------- MODULE PyRecords_proofs ---------------------------
(***************************************************************************)
(* Theorems of PyRecords: what the usage map of a record knows, and that   *)
(* reading a record gives what was written, however its file is cut. First *)
(* what each read of the serializers does to the reader, then that each    *)
(* takes what its write put down, then that the operations of a class      *)
(* stand one behind the other (Laid) and are read in that order (Kept).    *)
(***************************************************************************)
EXTENDS PyRecords, ExtremaLemmas, FiniteSetTheorems, SequenceTheorems, TLAPS

-----------------------------------------------------------------------------
(* The serializers: what every one of them is like, and what every read    *)
(* makes of it.                                                            *)
CODE == {"UNKNOWN", "TLV_TAG", "TLV_VALUE", "FOURCC_TAG", "FOURCC_VALUE"}
Serializer ==
  [wire : {"tlv", "packed"}, data : Seq(BYTE), cursor : Nat, abs_off : Nat,
   error : BOOLEAN, version : Nat, usage : Seq(CODE)]
Sound(ser) == ser \in Serializer /\ ser.cursor <= Len(ser.data)

(* The map is as long as the file, and the bytes it knows are those the    *)
(* cursor passed; after an error it may know less.                         *)
Told(ser) == ser.abs_off + 1 .. ser.abs_off + ser.cursor
Known(ser) == {i \in DOMAIN ser.usage : ser.usage[i] # "UNKNOWN"}
Marks(ser) ==
  /\ ser.abs_off + Len(ser.data) <= Len(ser.usage)
  /\ Known(ser) \subseteq Told(ser)
  /\ ~ser.error => Known(ser) = Told(ser)

Follows(s, t) ==
  /\ Sound(t)
  /\ t.wire = s.wire /\ t.data = s.data /\ t.abs_off = s.abs_off
  /\ Len(t.usage) = Len(s.usage)
  /\ s.cursor <= t.cursor
  /\ s.error => t.error
  /\ Marks(s) => Marks(t)

LEMMA FollowsSame ==
  ASSUME NEW s, Sound(s)
  PROVE  Follows(s, s)
BY DEF Follows, Sound, Serializer

LEMMA FollowsTrans ==
  ASSUME NEW s, NEW t, NEW u, Sound(s), Follows(s, t), Follows(t, u)
  PROVE  Follows(s, u)
BY DEF Follows, Sound, Serializer

LEMMA SoundFields ==
  ASSUME NEW s, Sound(s)
  PROVE  /\ s.wire \in {"tlv", "packed"} /\ s.data \in Seq(BYTE) /\ s.cursor \in Nat
         /\ s.abs_off \in Nat /\ s.error \in BOOLEAN /\ s.version \in Nat
         /\ s.usage \in Seq(CODE) /\ s.cursor <= Len(s.data)
         /\ Len(s.data) \in Nat /\ DOMAIN s.data = 1 .. Len(s.data)
         /\ Len(s.usage) \in Nat /\ DOMAIN s.usage = 1 .. Len(s.usage)
BY LenProperties DEF Sound, Serializer

(* A function on 1 .. n is a sequence of length n.                         *)
LEMMA MadeSeq ==
  ASSUME NEW S, NEW n \in Nat, NEW f \in [1 .. n -> S]
  PROVE  f \in Seq(S) /\ Len(f) = n
<1>1. f = [i \in 1 .. n |-> f[i]] /\ \A i \in 1 .. n : f[i] \in S
  OBVIOUS
<1>2. [i \in 1 .. n |-> f[i]] \in Seq(S)
  BY <1>1, IsASeq
<1>3. f \in Seq(S)
  BY <1>1, <1>2
<1>4. DOMAIN f = 1 .. Len(f) /\ Len(f) \in Nat
  BY <1>3, LenProperties
<1> QED
  BY <1>3, <1>4

LEMMA MarkedIs ==
  ASSUME NEW map \in Seq(CODE), NEW off \in Nat, NEW n \in Nat, NEW code \in CODE
  PROVE  /\ Marked(map, off, n, code) \in Seq(CODE)
         /\ Len(Marked(map, off, n, code)) = Len(map)
         /\ \A i \in 1 .. Len(map) :
              /\ off < i /\ i <= off + n => Marked(map, off, n, code)[i] = code
              /\ ~(off < i /\ i <= off + n) => Marked(map, off, n, code)[i] = map[i]
<1> DEFINE new == [i \in DOMAIN map |-> IF i - 1 \in off .. off + n - 1 THEN code ELSE map[i]]
<1>1. Len(map) \in Nat /\ DOMAIN map = 1 .. Len(map) /\ map \in [1 .. Len(map) -> CODE]
  BY LenProperties
<1>2. \A i \in 1 .. Len(map) : i - 1 \in off .. off + n - 1 <=> off < i /\ i <= off + n
  BY <1>1
<1>3. new \in [1 .. Len(map) -> CODE]
  BY <1>1
<1>4. new \in Seq(CODE) /\ Len(new) = Len(map)
  <2> HIDE DEF new
  <2> QED
    BY <1>1, <1>3, MadeSeq
<1>5. CASE off < 0 \/ off >= Len(map)
  <2>1. Marked(map, off, n, code) = map
    BY <1>5 DEF Marked
  <2>2. \A i \in 1 .. Len(map) : ~(off < i /\ i <= off + n)
    BY <1>1, <1>5
  <2> QED
    BY <2>1, <2>2
<1>6. CASE ~(off < 0 \/ off >= Len(map))
  <2>1. Marked(map, off, n, code) = new
    BY <1>6 DEF Marked
  <2> QED
    BY <1>1, <1>2, <1>4, <2>1
<1> QED
  BY <1>5, <1>6

LEMMA PassedIs ==
  ASSUME NEW s, Sound(s), NEW n \in Nat, Ensure(s, n), NEW code \in CODE \ {"UNKNOWN"}
  PROVE  /\ Follows(s, Passed(s, n, code))
         /\ Passed(s, n, code).cursor = s.cursor + n
         /\ Passed(s, n, code).version = s.version
         /\ ~Passed(s, n, code).error
<1> DEFINE t == Passed(s, n, code)
           map == Marked(s.usage, s.abs_off + s.cursor, n, code)
<1>1. /\ s.abs_off \in Nat /\ s.cursor \in Nat /\ s.abs_off + s.cursor \in Nat
      /\ s.usage \in Seq(CODE) /\ code \in CODE /\ code # "UNKNOWN"
      /\ Len(s.data) \in Nat /\ Len(s.usage) \in Nat /\ DOMAIN s.usage = 1 .. Len(s.usage)
  BY SoundFields
<1>2. map \in Seq(CODE) /\ Len(map) = Len(s.usage)
      /\ \A i \in 1 .. Len(s.usage) :
           LET fresh == s.abs_off + s.cursor < i /\ i <= (s.abs_off + s.cursor) + n IN
           (fresh => map[i] = code) /\ (~fresh => map[i] = s.usage[i])
  <2> DEFINE off == s.abs_off + s.cursor
             use == s.usage
  <2>1. off \in Nat /\ use \in Seq(CODE)
    BY <1>1
  <2> HIDE DEF off, use
  <2>2. /\ Marked(use, off, n, code) \in Seq(CODE)
        /\ Len(Marked(use, off, n, code)) = Len(use)
        /\ \A i \in 1 .. Len(use) :
             /\ off < i /\ i <= off + n => Marked(use, off, n, code)[i] = code
             /\ ~(off < i /\ i <= off + n) => Marked(use, off, n, code)[i] = use[i]
    <3>0. code \in CODE
      OBVIOUS
    <3>1. Marked(use, off, n, code) \in Seq(CODE) /\ Len(Marked(use, off, n, code)) = Len(use)
      BY <3>0, <2>1, MarkedIs, ZenonT(30)
    <3>2. ASSUME NEW i \in 1 .. Len(use), off < i, i <= off + n
          PROVE  Marked(use, off, n, code)[i] = code
      BY <3>0, <2>1, <3>2, MarkedIs
    <3>3. ASSUME NEW i \in 1 .. Len(use), ~(off < i /\ i <= off + n)
          PROVE  Marked(use, off, n, code)[i] = use[i]
      BY <3>0, <2>1, <3>3, MarkedIs
    <3> QED
      BY <3>1, <3>2, <3>3
  <2> QED
    BY <2>2 DEF off, use
<1>3. /\ t \in Serializer /\ t.cursor = s.cursor + n /\ t.usage = map
      /\ t.wire = s.wire /\ t.data = s.data /\ t.abs_off = s.abs_off
      /\ t.error = s.error /\ t.version = s.version
  <2>1. s.cursor + n \in Nat
    BY SoundFields
  <2>2. t = [s EXCEPT !.cursor = s.cursor + n, !.usage = map]
    BY DEF Passed
  <2> HIDE DEF map, t
  <2>3. s \in Serializer
    BY DEF Sound
  <2> QED
    BY <1>2, <2>1, <2>2, <2>3 DEF Serializer
<1>4. ~s.error /\ s.cursor + n <= Len(s.data)
  BY DEF Ensure
<1> HIDE DEF t, map
<1>5. Sound(t)
  BY <1>3, <1>4 DEF Sound
<1>6. ASSUME Marks(s)  PROVE Marks(t)
  <2>1. Known(s) = Told(s) /\ s.abs_off + Len(s.data) <= Len(s.usage)
    BY <1>4, <1>6 DEF Marks
  <2>2. DOMAIN map = 1 .. Len(s.usage)
    BY <1>2, LenProperties
  <2>3. ASSUME NEW i \in 1 .. Len(s.usage)
        PROVE  map[i] # "UNKNOWN" <=> i \in s.abs_off + 1 .. s.abs_off + (s.cursor + n)
    <3>1. s.usage[i] # "UNKNOWN" <=> i \in s.abs_off + 1 .. s.abs_off + s.cursor
      BY <2>1 DEF Known, Told
    <3>2. CASE s.abs_off + s.cursor < i /\ i <= (s.abs_off + s.cursor) + n
      <4>1. map[i] = code
        BY <1>2, <3>2
      <4> QED
        BY <1>1, <3>2, <4>1
    <3>3. CASE ~(s.abs_off + s.cursor < i /\ i <= (s.abs_off + s.cursor) + n)
      <4>1. map[i] = s.usage[i]
        BY <1>2, <3>3
      <4> QED
        BY <1>1, <3>1, <3>3, <4>1
    <3> QED
      BY <3>2, <3>3
  <2>4. \A i \in Told(t) : i \in 1 .. Len(s.usage)
    BY <1>1, <1>3, <1>4, <2>1, SMTT(30) DEF Told
  <2>5. Known(t) = Told(t)
    BY <1>3, <2>2, <2>3, <2>4 DEF Known, Told
  <2> QED
    BY <1>2, <1>3, <2>1, <2>5 DEF Marks
<1>7. Follows(s, t)
  BY <1>1, <1>2, <1>3, <1>4, <1>5, <1>6 DEF Follows
<1> QED
  BY <1>3, <1>4, <1>7 DEF t

LEMMA FailedIs ==
  ASSUME NEW s, Sound(s)
  PROVE  /\ Follows(s, Failed(s)) /\ Failed(s).error
         /\ Failed(s).cursor = s.cursor /\ Failed(s).version = s.version
<1> DEFINE t == Failed(s)
<1>1. /\ t \in Serializer /\ t.cursor = s.cursor /\ t.usage = s.usage
      /\ t.wire = s.wire /\ t.data = s.data /\ t.abs_off = s.abs_off
      /\ t.error = TRUE /\ t.version = s.version
  BY DEF Failed, Sound, Serializer
<1> HIDE DEF t
<1>2. Sound(t)
  BY <1>1 DEF Sound
<1>3. Marks(s) => Marks(t)
  BY <1>1 DEF Marks, Known, Told
<1>4. Follows(s, t)
  BY <1>1, <1>2, <1>3, SoundFields DEF Follows
<1> QED
  BY <1>1, <1>4 DEF t

(* The n bytes that come k bytes behind the cursor.                        *)
At(s, k, n) == SubSeq(s.data, (s.cursor + k) + 1, (s.cursor + k) + n)

LEMMA AtIs ==
  ASSUME NEW s, Sound(s), NEW k \in Nat, NEW n \in Nat, s.cursor + (k + n) <= Len(s.data)
  PROVE  /\ At(s, k, n) \in Seq(BYTE) /\ Len(At(s, k, n)) = n
         /\ \A j \in 1 .. n : At(s, k, n)[j] = s.data[(s.cursor + k) + j]
<1> DEFINE c == s.cursor + k
           a == c + 1
           b == c + n
<1>1. /\ s.data \in Seq(BYTE) /\ c \in Nat /\ a \in Int /\ b \in Int
      /\ a >= 1 /\ b <= Len(s.data)
  BY SoundFields
<1>2. \A i \in a .. b : s.data[i] \in BYTE
  <2> HIDE DEF a, b
  <2> QED
    BY <1>1, ElementOfSeq
<1>3. /\ SubSeq(s.data, a, b) \in Seq(BYTE)
      /\ Len(SubSeq(s.data, a, b)) = IF a <= b THEN b - a + 1 ELSE 0
      /\ \A i \in 1 .. b - a + 1 : SubSeq(s.data, a, b)[i] = s.data[a + i - 1]
  <2> HIDE DEF a, b
  <2> QED
    BY <1>1, <1>2, SubSeqProperties
<1>4. b - a + 1 = n /\ (a <= b <=> n >= 1) /\ \A i \in 1 .. n : a + i - 1 = c + i
  <2> HIDE DEF c
  <2> QED
    BY <1>1
<1>5. At(s, k, n) = SubSeq(s.data, a, b)
  BY DEF At
<1> HIDE DEF a, b
<1>6. /\ Len(At(s, k, n)) = n
      /\ \A i \in 1 .. n : At(s, k, n)[i] = s.data[c + i]
  <2>1. Len(At(s, k, n)) = n
    BY <1>3, <1>4, <1>5
  <2> QED
    BY <2>1, <1>3, <1>4, <1>5
<1> QED
  BY <1>3, <1>5, <1>6

-----------------------------------------------------------------------------
(* The reads. A read of a tag and n bytes succeeds when they are there; it *)
(* then has passed them, and it has the bytes behind the tag.              *)
Fetches(s, t, tag, n) ==
  /\ Follows(s, t) /\ t.version = s.version
  /\ ~t.error <=> Ensure(s, Len(tag) + n) /\ At(s, 0, Len(tag)) = tag
  /\ ~t.error => t.cursor = s.cursor + (Len(tag) + n)

LEMMA NoTag ==
  ASSUME NEW s, Sound(s)
  PROVE  At(s, 0, 0) = <<>> /\ Len(<<>>) = 0
<1>1. s.cursor \in Nat
  BY SoundFields
<1>2. SubSeq(s.data, (s.cursor + 0) + 1, (s.cursor + 0) + 0) = <<>>
  BY <1>1, SubSeqEmpty
<1> QED
  BY <1>2 DEF At

LEMMA ExpectTagIs ==
  ASSUME NEW s, Sound(s), NEW tag \in Seq(BYTE), NEW code \in CODE \ {"UNKNOWN"}
  PROVE  Fetches(s, ExpectTag(s, tag, code), tag, 0)
<1> DEFINE t == ExpectTag(s, tag, code)
           n == Len(tag)
           u == IF Len(tag) = 1 THEN [s EXCEPT !.cursor = @ + 1] ELSE s
<1>1. n \in Nat /\ s.cursor \in Nat /\ Len(s.data) \in Nat /\ n + 0 = n /\ s.error \in BOOLEAN
  BY SoundFields, LenProperties
<1>2. Ahead(s, n) = At(s, 0, n)
  <2>1. s.cursor + 0 = s.cursor
    BY <1>1
  <2> QED
    BY <2>1 DEF Ahead, At
<1>3. CASE ~Ensure(s, n)
  <2>1. t = Failed(s)
    BY <1>3 DEF ExpectTag
  <2>2. Follows(s, t) /\ t.error /\ t.version = s.version
    BY <2>1, FailedIs
  <2> QED
    BY <1>1, <1>3, <2>2 DEF Fetches
<1>4. CASE Ensure(s, n) /\ Ahead(s, n) = tag
  <2>1. t = Passed(s, n, code)
    BY <1>4 DEF ExpectTag
  <2>2. Follows(s, t) /\ ~t.error /\ t.version = s.version /\ t.cursor = s.cursor + n
    BY <1>1, <1>4, <2>1, PassedIs
  <2> QED
    BY <1>1, <1>2, <1>4, <2>2 DEF Fetches
<1>5. CASE Ensure(s, n) /\ Ahead(s, n) # tag
  <2>1. t = Failed(u)
    BY <1>5 DEF ExpectTag
  <2>2. s \in Serializer /\ ~s.error /\ s.cursor + n <= Len(s.data)
    BY <1>5 DEF Sound, Ensure
  <2>3. /\ u \in Serializer /\ u.wire = s.wire /\ u.data = s.data /\ u.abs_off = s.abs_off
        /\ u.usage = s.usage /\ u.version = s.version /\ u.error = s.error
        /\ s.cursor <= u.cursor /\ u.cursor <= s.cursor + n
    <3>1. CASE n = 1
      <4>1. u = [s EXCEPT !.cursor = s.cursor + 1] /\ s.cursor + 1 \in Nat
        BY <1>1, <3>1
      <4> HIDE DEF u
      <4> QED
        BY <1>1, <2>2, <3>1, <4>1, SMTT(30) DEF Serializer
    <3>2. CASE n # 1
      <4>1. u = s
        BY <3>2
      <4> HIDE DEF u
      <4> QED
        BY <1>1, <2>2, <4>1
    <3> QED
      BY <3>1, <3>2
  <2> HIDE DEF u
  <2>4. Sound(u)
    BY <1>1, <2>2, <2>3 DEF Sound, Serializer
  <2>5. t = [u EXCEPT !.error = TRUE]
    BY <2>1 DEF Failed
  <2> HIDE DEF t
  <2>6. /\ t \in Serializer /\ t.wire = s.wire /\ t.data = s.data /\ t.abs_off = s.abs_off
        /\ t.usage = s.usage /\ t.version = s.version /\ t.error /\ t.cursor = u.cursor
    BY <2>3, <2>5 DEF Serializer
  <2>7. Sound(t)
    BY <1>1, <2>2, <2>3, <2>6 DEF Sound, Serializer
  <2>8. ASSUME Marks(s)  PROVE Marks(t)
    <3>1. Known(t) = Known(s) /\ Told(s) \subseteq Told(t)
      BY <1>1, <2>3, <2>6, SoundFields, SMTT(30) DEF Known, Told, Serializer
    <3> QED
      BY <2>6, <2>8, <3>1 DEF Marks
  <2>9. Follows(s, t)
    BY <2>2, <2>3, <2>6, <2>7, <2>8 DEF Follows
  <2> QED
    BY <1>1, <1>2, <1>5, <2>6, <2>9 DEF Fetches, t
<1> QED
  BY <1>3, <1>4, <1>5 DEF Fetches

LEMMA ReadBytesIs ==
  ASSUME NEW s, Sound(s), NEW n \in Nat, NEW blank, NEW code \in CODE \ {"UNKNOWN"}
  PROVE  LET got == ReadBytes(s, n, blank, code) IN
         /\ Fetches(s, got.ser, <<>>, n)
         /\ got.value = IF got.ser.error THEN blank ELSE At(s, 0, n)
<1> DEFINE got == ReadBytes(s, n, blank, code)
<1>1. s.cursor \in Nat /\ Len(s.data) \in Nat /\ s.error \in BOOLEAN /\ 0 + n = n
      /\ s.cursor + 0 = s.cursor
  BY SoundFields
<1>2. Ahead(s, n) = At(s, 0, n)
  BY <1>1 DEF Ahead, At
<1>3. CASE s.error \/ ~Ensure(s, n)
  <2>1. got = Got(Failed(s), blank)
    BY <1>3 DEF ReadBytes
  <2>2. ~Ensure(s, n)
    BY <1>3 DEF Ensure
  <2>3. got.ser = Failed(s) /\ got.value = blank
    BY <2>1 DEF Got
  <2>4. Follows(s, Failed(s)) /\ Failed(s).error /\ Failed(s).version = s.version
    BY FailedIs
  <2> QED
    BY <1>1, <2>2, <2>3, <2>4, NoTag DEF Fetches
<1>4. CASE ~(s.error \/ ~Ensure(s, n))
  <2>1. got = Got(Passed(s, n, code), At(s, 0, n))
    BY <1>2, <1>4 DEF ReadBytes
  <2>2. got.ser = Passed(s, n, code) /\ got.value = At(s, 0, n)
    BY <2>1 DEF Got
  <2>3. Follows(s, Passed(s, n, code)) /\ ~Passed(s, n, code).error
        /\ Passed(s, n, code).version = s.version
        /\ Passed(s, n, code).cursor = s.cursor + n
    BY <1>4, PassedIs
  <2> QED
    BY <1>1, <1>4, <2>2, <2>3, NoTag DEF Fetches
<1> QED
  BY <1>3, <1>4

LEMMA FetchesBoth ==
  ASSUME NEW s, Sound(s), NEW tag \in Seq(BYTE), NEW n \in Nat,
         NEW t, Fetches(s, t, tag, 0), NEW u, Fetches(t, u, <<>>, n)
  PROVE  /\ Fetches(s, u, tag, n)
         /\ ~u.error => At(t, 0, n) = At(s, Len(tag), n)
<1> DEFINE m == Len(tag)
<1>1. m \in Nat /\ s.cursor \in Nat /\ m + 0 = m /\ 0 + n = n
  BY SoundFields, LenProperties
<1>2. Sound(t) /\ Follows(s, t) /\ Follows(t, u) /\ t.data = s.data
  BY DEF Fetches, Follows
<1>3. t.cursor \in Nat /\ Len(t.data) \in Nat /\ t.error \in BOOLEAN
  BY <1>2, SoundFields
<1>4. Follows(s, u) /\ u.version = s.version
  BY <1>2, FollowsTrans DEF Fetches
<1>5. ~t.error <=> Ensure(s, m) /\ At(s, 0, m) = tag
  BY <1>1 DEF Fetches
<1>6. ~t.error => t.cursor = s.cursor + m
  BY <1>1 DEF Fetches
<1>7. ~u.error <=> Ensure(t, n)
  BY <1>1, <1>2, NoTag DEF Fetches
<1>8. ~u.error => u.cursor = t.cursor + n
  BY <1>1, NoTag, <1>2 DEF Fetches
<1>9. ~u.error <=> Ensure(s, m + n) /\ At(s, 0, m) = tag
  BY <1>1, <1>2, <1>3, <1>5, <1>6, <1>7 DEF Ensure
<1>10. ~u.error => u.cursor = s.cursor + (m + n)
  BY <1>1, <1>3, <1>6, <1>7, <1>8 DEF Ensure
<1>11. ASSUME ~u.error  PROVE At(t, 0, n) = At(s, m, n)
  <2>1. t.cursor = s.cursor + m /\ (s.cursor + m) + 0 = s.cursor + m
    BY <1>1, <1>6, <1>7, <1>11 DEF Ensure
  <2> QED
    BY <1>2, <2>1 DEF At
<1> QED
  BY <1>4, <1>9, <1>10, <1>11 DEF Fetches

(* A serializer of the game's own files finds no tag.                      *)
TagIn(s, tag) == IF s.wire = "tlv" THEN tag ELSE <<>>
Tagged(s, tag, code) == IF s.wire = "tlv" THEN ExpectTag(s, tag, code) ELSE s
TaggedRead(s, tag, n, blank, c1, c2) == ReadBytes(Tagged(s, tag, c1), n, blank, c2)

LEMMA NothingFetched ==
  ASSUME NEW s, Sound(s)  PROVE Fetches(s, s, <<>>, 0)
<1>1. s.cursor \in Nat /\ s.error \in BOOLEAN /\ s.cursor + (0 + 0) = s.cursor
      /\ s.cursor <= Len(s.data)
  BY SoundFields
<1>2. ~s.error <=> Ensure(s, 0 + 0)
  BY <1>1 DEF Ensure
<1> QED
  BY <1>1, <1>2, FollowsSame, NoTag DEF Fetches

LEMMA TaggedIs ==
  ASSUME NEW s, Sound(s), NEW tag \in Seq(BYTE), NEW n \in Nat, NEW blank,
         NEW c1 \in CODE \ {"UNKNOWN"}, NEW c2 \in CODE \ {"UNKNOWN"}
  PROVE  LET got == TaggedRead(s, tag, n, blank, c1, c2)
             head == TagIn(s, tag) IN
         /\ head \in Seq(BYTE) /\ Fetches(s, Tagged(s, tag, c1), head, 0)
         /\ Fetches(s, got.ser, head, n) /\ got.ser.wire = s.wire
         /\ got.value = IF got.ser.error THEN blank ELSE At(s, Len(head), n)
<1> DEFINE tagged == Tagged(s, tag, c1)
           got == TaggedRead(s, tag, n, blank, c1, c2)
           head == TagIn(s, tag)
<1>1. head \in Seq(BYTE)
  BY DEF TagIn
<1>2. Fetches(s, tagged, head, 0)
  <2>1. CASE s.wire = "tlv"
    BY <2>1, ExpectTagIs DEF TagIn, Tagged
  <2>2. CASE s.wire # "tlv"
    BY <2>2, NothingFetched DEF TagIn, Tagged
  <2> QED
    BY <2>1, <2>2
<1> HIDE DEF tagged, head
<1>3. Sound(tagged) /\ got = ReadBytes(tagged, n, blank, c2)
  BY <1>2 DEF Fetches, Follows, TaggedRead, tagged
<1> HIDE DEF got
<1>4. Fetches(tagged, got.ser, <<>>, n)
      /\ got.value = IF got.ser.error THEN blank ELSE At(tagged, 0, n)
  BY <1>3, ReadBytesIs
<1>5. Fetches(s, got.ser, head, n)
      /\ (~got.ser.error => At(tagged, 0, n) = At(s, Len(head), n))
  BY <1>1, <1>2, <1>4, FetchesBoth
<1>6. got.ser.wire = s.wire
  BY <1>5 DEF Fetches, Follows
<1> QED
  BY <1>1, <1>2, <1>4, <1>5, <1>6 DEF tagged, got, head

LEMMA ReadNumberIs ==
  ASSUME NEW s, Sound(s), NEW tag \in Seq(BYTE), NEW n \in Nat, NEW kind
  PROVE  LET got == ReadNumber(s, tag, n, kind)
             bytes == At(s, Len(TagIn(s, tag)), n) IN
         /\ TagIn(s, tag) \in Seq(BYTE)
         /\ Fetches(s, got.ser, TagIn(s, tag), n)
         /\ got.value = IF got.ser.error THEN Zeros(n)
                        ELSE IF s.wire = "tlv" THEN Reverse(bytes) ELSE bytes
<1> DEFINE c1 == IF kind = "F" THEN "FOURCC_TAG" ELSE "TLV_TAG"
           c2 == IF kind = "F" THEN "FOURCC_VALUE" ELSE "TLV_VALUE"
           got == TaggedRead(s, tag, n, Zeros(n), c1, c2)
           head == TagIn(s, tag)
<1>1. c1 \in CODE \ {"UNKNOWN"} /\ c2 \in CODE \ {"UNKNOWN"}
  BY DEF CODE
<1>2. ReadNumber(s, tag, n, kind) =
        IF s.wire = "tlv" /\ ~got.ser.error THEN Got(got.ser, Reverse(got.value)) ELSE got
  BY DEF ReadNumber, TaggedRead, Tagged
<1> HIDE DEF c1, c2
<1>3. /\ head \in Seq(BYTE) /\ Fetches(s, got.ser, head, n)
      /\ got.value = IF got.ser.error THEN Zeros(n) ELSE At(s, Len(head), n)
  BY <1>1, TaggedIs
<1> HIDE DEF got, head
<1> QED
  BY <1>2, <1>3 DEF Got, head

LEMMA ReadBufIs ==
  ASSUME NEW s, Sound(s), NEW tag \in Seq(BYTE), NEW n \in Nat
  PROVE  LET got == ReadBuf(s, tag, n)
             bytes == At(s, Len(TagIn(s, tag)), n)
             value == IF got.ser.error THEN <<>> ELSE bytes IN
         /\ TagIn(s, tag) \in Seq(BYTE)
         /\ Fetches(s, got.ser, TagIn(s, tag), n)
         /\ got.value = IF s.wire = "packed" THEN BitReversed(value) ELSE value
<1> DEFINE got == TaggedRead(s, tag, n, <<>>, "FOURCC_TAG", "FOURCC_VALUE")
           head == TagIn(s, tag)
<1>1. "FOURCC_TAG" \in CODE \ {"UNKNOWN"} /\ "FOURCC_VALUE" \in CODE \ {"UNKNOWN"}
  BY DEF CODE
<1>2. ReadBuf(s, tag, n) =
        IF s.wire = "packed" THEN Got(got.ser, BitReversed(got.value)) ELSE got
  BY DEF ReadBuf, TaggedRead, Tagged
<1>3. /\ head \in Seq(BYTE) /\ Fetches(s, got.ser, head, n) /\ got.ser.wire = s.wire
      /\ got.value = IF got.ser.error THEN <<>> ELSE At(s, Len(head), n)
  BY <1>1, TaggedIs
<1> HIDE DEF got, head
<1> QED
  BY <1>2, <1>3 DEF Got, head

LEMMA AsNumberIs ==
  ASSUME NEW bytes \in Seq(BYTE)
  PROVE  AsNumber(bytes) \in Nat
<1> DEFINE byte(k) == IF k <= Len(bytes) THEN bytes[Len(bytes) + 1 - k] ELSE 0
<1>1. Len(bytes) \in Nat
  BY LenProperties
<1>2. ASSUME NEW k \in 1 .. 4  PROVE byte(k) \in Nat
  <2>1. CASE k <= Len(bytes)
    <3>1. Len(bytes) + 1 - k \in 1 .. Len(bytes)
      BY <1>1, <2>1
    <3>2. bytes[Len(bytes) + 1 - k] \in BYTE
      BY <3>1, ElementOfSeq
    <3>3. byte(k) = bytes[Len(bytes) + 1 - k]
      BY <2>1
    <3> HIDE DEF byte
    <3>4. bytes[Len(bytes) + 1 - k] \in Nat
      <4>1. \A b \in BYTE : b \in Nat
        BY DEF BYTE
      <4> QED
        BY <3>2, <4>1
    <3> QED
      BY <3>3, <3>4
  <2> QED
    BY <2>1
<1>3. byte(1) \in Nat /\ byte(2) \in Nat /\ byte(3) \in Nat /\ byte(4) \in Nat
  BY <1>2
<1>4. 2 ^ 30 \in Nat
  OBVIOUS
<1>5. AsNumber(bytes) = IF byte(4) > 63 THEN 2 ^ 30
        ELSE 16777216 * byte(4) + 65536 * byte(3) + 256 * byte(2) + byte(1)
  BY DEF AsNumber
<1> HIDE DEF byte
<1> QED
  BY <1>3, <1>4, <1>5, SMTT(30)

LEMMA ReverseIs ==
  ASSUME NEW S, NEW seq \in Seq(S)
  PROVE  Reverse(seq) \in Seq(S) /\ Len(Reverse(seq)) = Len(seq)
<1>1. Len(seq) \in Nat /\ \A i \in 1 .. Len(seq) : (Len(seq) - i) + 1 \in 1 .. Len(seq)
  BY LenProperties
<1>2. \A i \in 1 .. Len(seq) : seq[(Len(seq) - i) + 1] \in S
  BY <1>1, ElementOfSeq
<1>3. Reverse(seq) \in [1 .. Len(seq) -> S]
  BY <1>2 DEF Reverse
<1> QED
  BY <1>1, <1>3, MadeSeq

(* The length of a string as it stands behind its tag, and the string.     *)
Ordered(s, bytes) == IF s.wire = "tlv" THEN Reverse(bytes) ELSE bytes
TextLength(s, tag) == AsNumber(Ordered(s, At(s, Len(TagIn(s, tag)), 2)))

LEMMA ReadStringIs ==
  ASSUME NEW s, Sound(s), NEW tag \in Seq(BYTE)
  PROVE  LET got == ReadString(s, tag)
             m == Len(TagIn(s, tag))
             n == TextLength(s, tag) IN
         /\ Follows(s, got.ser) /\ got.ser.version = s.version
         /\ ~got.ser.error <=> /\ Ensure(s, m + 2) /\ At(s, 0, m) = TagIn(s, tag)
                               /\ Ensure(s, (m + 2) + n)
         /\ ~got.ser.error => /\ m \in Nat /\ n \in Nat
                              /\ got.ser.cursor = s.cursor + ((m + 2) + n)
         /\ got.value = IF got.ser.error THEN <<>> ELSE At(s, m + 2, n)
<1> DEFINE got == ReadString(s, tag)
           head == TagIn(s, tag)
           m == Len(head)
           tagged == Tagged(s, tag, "TLV_TAG")
           len == TaggedRead(s, tag, 2, <<>>, "TLV_TAG", "TLV_VALUE")
           k == AsNumber(Ordered(s, len.value))
           text == ReadBytes(len.ser, k, <<>>, "TLV_VALUE")
           unmarked == [text.ser EXCEPT !.usage = tagged.usage]
           n == TextLength(s, tag)
<1>1. "TLV_TAG" \in CODE \ {"UNKNOWN"} /\ "TLV_VALUE" \in CODE \ {"UNKNOWN"} /\ 2 \in Nat
  BY DEF CODE
<1>2. got = CASE len.ser.error -> Got(len.ser, <<>>)
              [] ~len.ser.error /\ text.ser.error /\ s.wire = "packed" -> Got(unmarked, <<>>)
              [] OTHER -> text
  BY DEF ReadString, TaggedRead, Tagged, Ordered
<1> HIDE DEF got
<1>3. /\ head \in Seq(BYTE) /\ Fetches(s, tagged, head, 0) /\ Fetches(s, len.ser, head, 2)
      /\ len.ser.wire = s.wire
      /\ len.value = IF len.ser.error THEN <<>> ELSE At(s, m, 2)
  <2> DEFINE two == 2
             none == <<>>
             t1 == "TLV_TAG"
             t2 == "TLV_VALUE"
             one == TaggedRead(s, tag, two, none, t1, t2)
  <2>1. two \in Nat /\ t1 \in CODE \ {"UNKNOWN"} /\ t2 \in CODE \ {"UNKNOWN"}
    BY <1>1
  <2> HIDE DEF two, none, t1, t2
  <2>2. /\ head \in Seq(BYTE) /\ Fetches(s, Tagged(s, tag, t1), head, 0)
        /\ Fetches(s, one.ser, head, two)
        /\ one.ser.wire = s.wire
        /\ one.value = IF one.ser.error THEN none ELSE At(s, m, two)
    BY <2>1, TaggedIs
  <2> QED
    BY <2>2 DEF two, none, t1, t2
<1>4. s.wire = "packed" => tagged = s
  BY DEF Tagged
<1> HIDE DEF len, tagged, head
<1>5. /\ Sound(len.ser) /\ Follows(s, len.ser) /\ len.ser.version = s.version
      /\ len.ser.data = s.data /\ len.ser.error \in BOOLEAN /\ len.ser.cursor \in Nat
      /\ m \in Nat /\ s.cursor \in Nat /\ Len(s.data) \in Nat
  BY <1>3, SoundFields, LenProperties DEF Fetches, Follows
<1>6. ~len.ser.error <=> Ensure(s, m + 2) /\ At(s, 0, m) = head
  BY <1>3 DEF Fetches
<1>7. ~len.ser.error => len.ser.cursor = s.cursor + (m + 2)
  BY <1>3 DEF Fetches
<1>8. CASE len.ser.error
  <2>1. got.ser = len.ser /\ got.value = <<>>
    BY <1>2, <1>8 DEF Got
  <2> QED
    BY <1>5, <1>6, <1>8, <2>1 DEF got, head
<1>9. CASE ~len.ser.error
  <2>1. s.cursor + (m + 2) <= Len(s.data)
    BY <1>5, <1>6, <1>9 DEF Ensure
  <2>2. len.value = At(s, m, 2) /\ At(s, m, 2) \in Seq(BYTE)
    BY <1>1, <1>3, <1>5, <1>9, <2>1, AtIs
  <2>3. k = n
    BY <2>2 DEF TextLength, head
  <2>4. n \in Nat
    BY <2>2, AsNumberIs, ReverseIs DEF TextLength, Ordered, head
  <2>5. text = ReadBytes(len.ser, n, <<>>, "TLV_VALUE")
    BY <2>3
  <2> HIDE DEF k, n, text
  <2>6. /\ Fetches(len.ser, text.ser, <<>>, n)
        /\ text.value = IF text.ser.error THEN <<>> ELSE At(len.ser, 0, n)
    BY <1>1, <1>5, <2>4, <2>5, ReadBytesIs
  <2>7. /\ Follows(len.ser, text.ser) /\ text.ser.version = s.version /\ 0 + n = n
        /\ Sound(text.ser)
    BY <1>5, <2>4, <2>6 DEF Fetches, Follows
  <2>8. ~text.ser.error <=> Ensure(len.ser, n)
    BY <1>5, <2>6, <2>7, NoTag DEF Fetches
  <2>9. ~text.ser.error <=> Ensure(s, (m + 2) + n)
    BY <1>5, <1>7, <1>6, <1>9, <2>4, <2>8, SMTT(30) DEF Ensure
  <2>10. ~text.ser.error => /\ text.ser.cursor = s.cursor + ((m + 2) + n)
                            /\ At(len.ser, 0, n) = At(s, m + 2, n)
    <3>1. s.cursor + (m + 2) + 0 = s.cursor + (m + 2)
      BY <1>5
    <3>2. At(len.ser, 0, n) = At(s, m + 2, n)
      BY <1>5, <1>7, <1>9, <3>1 DEF At
    <3>3. ~text.ser.error => text.ser.cursor = len.ser.cursor + n
      BY <2>6, <2>7, NoTag, <1>5 DEF Fetches
    <3>4. (s.cursor + (m + 2)) + n = s.cursor + ((m + 2) + n)
      BY <1>5, <2>4
    <3> QED
      BY <1>7, <1>9, <3>2, <3>3, <3>4
  <2>11. Follows(s, text.ser)
    BY <1>5, <2>7, FollowsTrans
  <2>12. CASE text.ser.error /\ s.wire = "packed"
    <3>1. got.ser = unmarked /\ got.value = <<>>
      BY <1>2, <1>9, <2>12 DEF Got
    <3>2. tagged = s
      BY <1>4, <2>12
    <3>3. text.ser \in Serializer /\ s \in Serializer
      BY <2>7 DEF Sound
    <3> DEFINE t == text.ser
               u == [t EXCEPT !.usage = s.usage]
    <3>4. u = unmarked
      BY <3>2
    <3> HIDE DEF t, unmarked
    <3>5. /\ u \in Serializer /\ u.wire = t.wire /\ u.data = t.data /\ u.abs_off = t.abs_off
          /\ u.usage = s.usage /\ u.version = t.version /\ u.error = t.error
          /\ u.cursor = t.cursor
      BY <3>3 DEF Serializer, t
    <3> HIDE DEF u
    <3>6. Follows(s, t) /\ t.error /\ Sound(t)
      BY <2>7, <2>11, <2>12 DEF t
    <3>7. Sound(u)
      BY <3>5, <3>6 DEF Sound
    <3>8. ASSUME Marks(s)  PROVE Marks(u)
      <4>1. Known(u) = Known(s)
        BY <3>5 DEF Known
      <4>2. Told(s) \subseteq Told(u)
        BY <1>5, <3>5, <3>6, SoundFields, SMTT(30) DEF Told, Follows
      <4> QED
        BY <3>5, <3>6, <3>8, <4>1, <4>2 DEF Marks, Follows
    <3>9. Follows(s, u)
      BY <3>5, <3>6, <3>7, <3>8 DEF Follows
    <3> QED
      BY <1>9, <2>7, <2>9, <2>12, <3>1, <3>4, <3>5, <3>9 DEF got, head, n, t
  <2>13. CASE ~(text.ser.error /\ s.wire = "packed")
    <3>1. got = text
      BY <1>2, <1>9, <2>13
    <3> QED
      BY <1>5, <1>6, <1>9, <2>4, <2>6, <2>7, <2>9, <2>10, <2>11, <3>1 DEF got, head, n
  <2> QED
    BY <2>12, <2>13
<1> QED
  BY <1>8, <1>9

(* A sequence one longer is the shorter one with its last element appended. *)
LEMMA AppendMade ==
  ASSUME NEW S, NEW u \in Seq(S), NEW v \in Seq(S), Len(v) = Len(u) + 1,
         \A i \in 1 .. Len(u) : v[i] = u[i]
  PROVE  Append(u, v[Len(u) + 1]) = v
<1> DEFINE y == v[Len(u) + 1]
           w == Append(u, y)
<1>1. Len(u) \in Nat /\ Len(u) + 1 \in 1 .. Len(v)
  BY LenProperties
<1>2. y \in S
  BY <1>1, ElementOfSeq
<1> HIDE DEF y
<1>3. w \in Seq(S) /\ Len(w) = Len(u) + 1
  BY <1>2, AppendProperties
<1>4. w[Len(u) + 1] = y
  BY <1>2, AppendProperties
<1>5. \A i \in 1 .. Len(u) : w[i] = u[i]
  BY <1>2, AppendProperties
<1> HIDE DEF w
<1>6. \A i \in 1 .. Len(v) : w[i] = v[i]
  BY <1>1, <1>4, <1>5 DEF y
<1>7. w = v
  BY <1>3, <1>6, SeqEqual
<1> QED
  BY <1>7 DEF w, y

LEMMA Tuple2 ==
  ASSUME NEW x, NEW y
  PROVE  Append(<<x>>, y) = <<x, y>>
<1> DEFINE S == {x, y}
           u == <<x>>
           v == <<x, y>>
<1>1. u \in Seq(S) /\ v \in Seq(S) /\ Len(u) = 1 /\ Len(v) = 2
  OBVIOUS
<1>2. u[1] = x /\ v[1] = x /\ v[2] = y
  OBVIOUS
<1> HIDE DEF S, u, v
<1>3. Len(v) = Len(u) + 1 /\ \A i \in 1 .. Len(u) : v[i] = u[i]
  BY <1>1, <1>2
<1>4. u \in Seq(S) /\ v \in Seq(S)
  BY <1>1
<1>5. Append(u, v[Len(u) + 1]) = v
  BY <1>3, <1>4, AppendMade
<1>6. v[Len(u) + 1] = y
  BY <1>1, <1>2
<1> QED
  BY <1>5, <1>6 DEF u, v

LEMMA Tuple3 ==
  ASSUME NEW x, NEW y, NEW z
  PROVE  Append(<<x, y>>, z) = <<x, y, z>>
<1> DEFINE S == {x, y, z}
           u == <<x, y>>
           v == <<x, y, z>>
<1>1. u \in Seq(S) /\ v \in Seq(S) /\ Len(u) = 2 /\ Len(v) = 3
  OBVIOUS
<1>2. u[1] = x /\ v[1] = x /\ u[2] = y /\ v[2] = y /\ v[3] = z
  OBVIOUS
<1> HIDE DEF S, u, v
<1>3. Len(v) = Len(u) + 1 /\ \A i \in 1 .. Len(u) : v[i] = u[i]
  BY <1>1, <1>2
<1>4. u \in Seq(S) /\ v \in Seq(S)
  BY <1>1
<1>5. Append(u, v[Len(u) + 1]) = v
  BY <1>3, <1>4, AppendMade
<1>6. v[Len(u) + 1] = z
  BY <1>1, <1>2
<1> QED
  BY <1>5, <1>6 DEF u, v

LEMMA Tuple4 ==
  ASSUME NEW x, NEW y, NEW z, NEW w
  PROVE  Append(<<x, y, z>>, w) = <<x, y, z, w>>
<1> DEFINE S == {x, y, z, w}
           u == <<x, y, z>>
           v == <<x, y, z, w>>
<1>1. u \in Seq(S) /\ v \in Seq(S) /\ Len(u) = 3 /\ Len(v) = 4
  OBVIOUS
<1>2. u[1] = x /\ v[1] = x /\ u[2] = y /\ v[2] = y /\ u[3] = z /\ v[3] = z /\ v[4] = w
  OBVIOUS
<1> HIDE DEF S, u, v
<1>3. Len(v) = Len(u) + 1 /\ \A i \in 1 .. Len(u) : v[i] = u[i]
  BY <1>1, <1>2
<1>4. u \in Seq(S) /\ v \in Seq(S)
  BY <1>1
<1>5. Append(u, v[Len(u) + 1]) = v
  BY <1>3, <1>4, AppendMade
<1>6. v[Len(u) + 1] = w
  BY <1>1, <1>2
<1> QED
  BY <1>5, <1>6 DEF u, v

(* The dwords of a mark or a list's head: what reading one more makes of   *)
(* what was read so far; the game's files have no tag before them.         *)
LEMMA TagZero == <<0>> \in Seq(BYTE) /\ Len(<<0>>) = 1
BY DEF BYTE

LEMMA ReadDwordIs ==
  ASSUME NEW state, Sound(state.ser), NEW ext \in BOOLEAN
  PROVE  LET got == ReadDword(state, ext)
             s == state.ser
             bytes == At(s, Len(TagIn(s, <<0>>)), 4)
             value == IF got.ser.error THEN Zeros(4) ELSE Ordered(s, bytes) IN
         /\ Follows(s, got.ser) /\ got.ser.version = s.version
         /\ ext /\ s.version <= 4 => got.ser = s /\ got.value = Append(state.value, None)
         /\ ~(ext /\ s.version <= 4) => /\ Fetches(s, got.ser, TagIn(s, <<0>>), 4)
                                        /\ got.value = Append(state.value, value)
<1> DEFINE s == state.ser
           skip == ext /\ s.version <= 4
           tag == <<0>>
           four == 4
           got == ReadNumber(s, tag, four, "")
           bytes == At(s, Len(TagIn(s, tag)), four)
<1>1. CASE skip
  <2>1. ReadDword(state, ext) = [ser |-> s, value |-> Append(state.value, None)]
    BY <1>1 DEF ReadDword, Got
  <2>2. Follows(s, s)
    BY FollowsSame
  <2> DEFINE read == ReadDword(state, ext)
  <2>3. read.ser = s /\ read.value = Append(state.value, None)
    BY <2>1
  <2> HIDE DEF read, s
  <2>4. Follows(s, read.ser) /\ read.ser.version = s.version
    BY <2>2, <2>3
  <2> QED
    BY <1>1, <2>3, <2>4 DEF read, s
<1>2. CASE ~skip
  <2>1. ReadDword(state, ext) = [ser |-> got.ser, value |-> Append(state.value, got.value)]
    BY <1>2 DEF ReadDword, Got
  <2>2. tag \in Seq(BYTE) /\ four \in Nat /\ Sound(s)
    BY TagZero
  <2> HIDE DEF tag, four, s
  <2>3. /\ Fetches(s, got.ser, TagIn(s, tag), four)
        /\ got.value = IF got.ser.error THEN Zeros(four)
                       ELSE IF s.wire = "tlv" THEN Reverse(bytes) ELSE bytes
    BY <2>2, ReadNumberIs
  <2> HIDE DEF got
  <2>4. got.value = IF got.ser.error THEN Zeros(four) ELSE Ordered(s, bytes)
    BY <2>3 DEF Ordered
  <2>5. Follows(s, got.ser) /\ got.ser.version = s.version
    BY <2>3 DEF Fetches
  <2> QED
    BY <1>2, <2>1, <2>3, <2>4, <2>5 DEF s, tag, four
<1> QED
  BY <1>1, <1>2

LEMMA FetchesMore ==
  ASSUME NEW s, Sound(s), NEW k \in Nat, NEW n \in Nat,
         NEW t, Fetches(s, t, <<>>, k), NEW u, Fetches(t, u, <<>>, n)
  PROVE  /\ Fetches(s, u, <<>>, k + n)
         /\ ~u.error => At(t, 0, n) = At(s, k, n)
<1>1. s.cursor \in Nat /\ 0 + k = k /\ 0 + n = n /\ 0 + (k + n) = k + n
  BY SoundFields
<1>2. Sound(t) /\ Follows(s, t) /\ Follows(t, u) /\ t.data = s.data
  BY DEF Fetches, Follows
<1>3. t.cursor \in Nat /\ Len(t.data) \in Nat /\ t.error \in BOOLEAN
  BY <1>2, SoundFields
<1>4. Follows(s, u) /\ u.version = s.version
  BY <1>2, FollowsTrans DEF Fetches
<1>5. (~t.error <=> Ensure(s, k)) /\ (~t.error => t.cursor = s.cursor + k)
  BY <1>1, NoTag DEF Fetches
<1>6. (~u.error <=> Ensure(t, n)) /\ (~u.error => u.cursor = t.cursor + n)
  BY <1>1, <1>2, NoTag DEF Fetches
<1>7. ~u.error <=> Ensure(s, k + n)
  BY <1>1, <1>2, <1>3, <1>5, <1>6 DEF Ensure
<1>8. ~u.error => u.cursor = s.cursor + (k + n)
  BY <1>1, <1>3, <1>5, <1>6 DEF Ensure
<1>9. ASSUME ~u.error  PROVE At(t, 0, n) = At(s, k, n)
  <2>1. t.cursor = s.cursor + k /\ (s.cursor + k) + 0 = s.cursor + k
    BY <1>1, <1>5, <1>6, <1>9 DEF Ensure
  <2> QED
    BY <1>2, <2>1 DEF At
<1> QED
  BY <1>1, <1>4, <1>7, <1>8, <1>9, NoTag DEF Fetches

LEMMA DwordOn ==
  ASSUME NEW s, Sound(s), s.wire = "packed", NEW k \in Nat, NEW ext \in BOOLEAN,
         NEW state, Fetches(s, state.ser, <<>>, k)
  PROVE  LET got == ReadDword(state, ext)
             skip == ext /\ s.version <= 4 IN
         /\ Fetches(s, got.ser, <<>>, k + (IF skip THEN 0 ELSE 4))
         /\ ~got.ser.error =>
              got.value = Append(state.value, IF skip THEN None ELSE At(s, k, 4))
<1> DEFINE got == ReadDword(state, ext)
           t == state.ser
           skip == ext /\ s.version <= 4
           tag == <<0>>
           four == 4
<1>1. Sound(t) /\ t.version = s.version /\ t.wire = s.wire
  BY DEF Fetches, Follows
<1>2. TagIn(t, tag) = <<>> /\ Len(<<>>) = 0 /\ \A b : Ordered(t, b) = b
  BY <1>1 DEF TagIn, Ordered
<1>3. /\ skip => got.ser = t /\ got.value = Append(state.value, None)
      /\ ~skip => /\ Fetches(t, got.ser, <<>>, 4)
                  /\ got.value = Append(state.value, IF got.ser.error THEN Zeros(4)
                                                     ELSE At(t, 0, 4))
  BY <1>1, <1>2, ReadDwordIs
<1> HIDE DEF got
<1>4. CASE skip
  <2>1. k + 0 = k
    OBVIOUS
  <2> QED
    BY <1>3, <1>4, <2>1 DEF got
<1>5. CASE ~skip
  <2>1. four \in Nat /\ Fetches(t, got.ser, <<>>, four)
    BY <1>3, <1>5
  <2> HIDE DEF four, t
  <2>2. /\ Fetches(s, got.ser, <<>>, k + four)
        /\ ~got.ser.error => At(t, 0, four) = At(s, k, four)
    BY <2>1, FetchesMore DEF t
  <2> QED
    BY <1>3, <1>5, <2>2 DEF four, got
<1> QED
  BY <1>4, <1>5

(* A chain of dwords only goes forward.                                    *)
LEMMA DwordFollows ==
  ASSUME NEW s, Sound(s), NEW state, Follows(s, state.ser), state.ser.version = s.version,
         NEW ext \in BOOLEAN
  PROVE  LET t == ReadDword(state, ext).ser IN
         Follows(s, t) /\ t.version = s.version /\ (state.ser.error => t.error)
<1> DEFINE t == ReadDword(state, ext).ser
<1>1. Sound(state.ser)
  BY DEF Follows
<1>2. Follows(state.ser, t) /\ t.version = s.version
  BY <1>1, ReadDwordIs
<1> HIDE DEF t
<1>3. Follows(s, t)
  BY <1>2, FollowsTrans
<1>4. state.ser.error => t.error
  BY <1>2 DEF Follows
<1> QED
  BY <1>2, <1>3, <1>4 DEF t

(* The dwords of a mark or a list's head, one after the other: the fold    *)
(* over at most four of them, which is a function on their places.         *)
FirstDword(ser) == ReadDword(Got(ser, <<>>), FALSE)
LEMMA DwordsAre ==
  ASSUME NEW s, NEW exts, NEW n \in 1 .. 4, DOMAIN exts = 1 .. n
  PROVE  LET b == Got(s, <<>>)
             one == ReadDword(b, exts[1])
             two == ReadDword(one, exts[2])
             three == ReadDword(two, exts[3])
             four == ReadDword(three, exts[4]) IN
         ReadDwords(s, exts) = IF n = 1 THEN one ELSE IF n = 2 THEN two
                               ELSE IF n = 3 THEN three ELSE four
<1> DEFINE D == 1 .. n
           b == Got(s, <<>>)
           R(x, k) == ReadDword(x, exts[k])
           A1(S) == IF 1 \in S THEN R(b, 1) ELSE b
           A2(S) == IF 2 \in S THEN R(A1(S), 2) ELSE A1(S)
           A3(S) == IF 3 \in S THEN R(A2(S), 3) ELSE A2(S)
           A4(S) == IF 4 \in S THEN R(A3(S), 4) ELSE A3(S)
           Rec(g) == g = [S \in SUBSET D |->
                            IF S = {} THEN b ELSE ReadDword(g[S \ {Max(S)}], exts[Max(S)])]
           iter == CHOOSE g : Rec(g)
           f == [S \in SUBSET D |-> A4(S)]
<1>1. ReadDwords(s, exts) = iter[D]
  BY DEF ReadDwords, FoldLeft, MapThenFoldSet
<1> HIDE DEF b
<1>2. ASSUME NEW S \in SUBSET D, S # {}
      PROVE  /\ Max(S) \in S /\ Max(S) \in 1 .. 4 /\ \A i \in S : i <= Max(S)
  <2>1. S \in SUBSET Int /\ S \subseteq 1 .. 4
    OBVIOUS
  <2>2. \E m \in S : \A i \in S : i <= m
    <3>1. \A i \in S : i = 1 \/ i = 2 \/ i = 3 \/ i = 4
      BY <2>1
    <3>2. CASE 4 \in S
      BY <3>1, <3>2
    <3>3. CASE 4 \notin S /\ 3 \in S
      BY <3>1, <3>3
    <3>4. CASE 4 \notin S /\ 3 \notin S /\ 2 \in S
      BY <3>1, <3>4
    <3>5. CASE 4 \notin S /\ 3 \notin S /\ 2 \notin S
      <4>1. \A i \in S : i = 1
        BY <3>1, <3>5
      <4>2. 1 \in S
        BY <1>2, <4>1
      <4> QED
        BY <4>1, <4>2
    <3> QED
      BY <3>2, <3>3, <3>4, <3>5
  <2>3. PICK m \in S : \A i \in S : i <= m
    BY <2>2
  <2>4. Max(S) = m
    BY <2>1, <2>3, MaxIs
  <2> QED
    BY <2>1, <2>3, <2>4
<1>3. ASSUME NEW S \in SUBSET D, S # {}
      PROVE  A4(S) = ReadDword(A4(S \ {Max(S)}), exts[Max(S)])
  <2> DEFINE m == Max(S)
             T == S \ {m}
  <2>1. m \in S /\ m \in 1 .. 4 /\ \A i \in S : i <= m
    BY <1>2, <1>3
  <2> HIDE DEF m
  <2>2. \A i \in 1 .. 4 : /\ i < m => (i \in T <=> i \in S)
                          /\ i >= m => i \notin T
                          /\ i > m => i \notin S
    BY <2>1
  <2> HIDE DEF T, R
  <2>3. CASE m = 1
    <3>1. 1 \in S /\ 2 \notin S /\ 3 \notin S /\ 4 \notin S
          /\ 1 \notin T /\ 2 \notin T /\ 3 \notin T /\ 4 \notin T
      BY <2>1, <2>2, <2>3
    <3> QED
      BY <2>3, <3>1 DEF R, m, T
  <2>4. CASE m = 2
    <3>1. 2 \in S /\ 3 \notin S /\ 4 \notin S /\ (1 \in T <=> 1 \in S)
          /\ 2 \notin T /\ 3 \notin T /\ 4 \notin T
      BY <2>1, <2>2, <2>4
    <3>2. A1(S) = A1(T)
      BY <3>1
    <3>3. A4(T) = A1(T) /\ A4(S) = R(A1(S), 2)
      BY <3>1
    <3> QED
      BY <2>4, <3>2, <3>3 DEF R, m, T
  <2>5. CASE m = 3
    <3>1. 3 \in S /\ 4 \notin S /\ (1 \in T <=> 1 \in S) /\ (2 \in T <=> 2 \in S)
          /\ 3 \notin T /\ 4 \notin T
      BY <2>1, <2>2, <2>5
    <3>2. A2(S) = A2(T)
      BY <3>1
    <3>3. A4(T) = A2(T) /\ A4(S) = R(A2(S), 3)
      BY <3>1
    <3> QED
      BY <2>5, <3>2, <3>3 DEF R, m, T
  <2>6. CASE m = 4
    <3>1. 4 \in S /\ (1 \in T <=> 1 \in S) /\ (2 \in T <=> 2 \in S) /\ (3 \in T <=> 3 \in S)
          /\ 4 \notin T
      BY <2>1, <2>2, <2>6
    <3>2. A3(S) = A3(T)
      BY <3>1
    <3>3. A4(T) = A3(T) /\ A4(S) = R(A3(S), 4)
      BY <3>1
    <3> QED
      BY <2>6, <3>2, <3>3 DEF R, m, T
  <2> QED
    BY <2>1, <2>3, <2>4, <2>5, <2>6
<1>4. A4({}) = b
  OBVIOUS
<1> HIDE DEF A4
<1>6. Rec(f)
  <2>1. \A S \in SUBSET D : S \ {Max(S)} \in SUBSET D
    OBVIOUS
  <2>2. \A S \in SUBSET D : S # {} => f[S] = ReadDword(f[S \ {Max(S)}], exts[Max(S)])
    BY <1>3, <2>1
  <2>3. f[{}] = b
    BY <1>4
  <2> QED
    BY <2>2, <2>3
<1>7. Rec(iter)
  <2> HIDE DEF Rec, f
  <2> QED
    BY <1>6
<1>8. \A S \in SUBSET D : iter[S] = IF S = {} THEN b
                                    ELSE ReadDword(iter[S \ {Max(S)}], exts[Max(S)])
  <2> DEFINE it == iter
  <2>1. Rec(it)
    BY <1>7
  <2> HIDE DEF it
  <2>2. \A S \in SUBSET D : it[S] = IF S = {} THEN b
                                    ELSE ReadDword(it[S \ {Max(S)}], exts[Max(S)])
    BY <2>1
  <2> QED
    BY <2>2 DEF it
<1> HIDE DEF iter, f, Rec
<1>9. ASSUME NEW k \in 1 .. n
      PROVE  iter[1 .. k] = ReadDword(iter[1 .. (k - 1)], exts[k])
  <2> DEFINE S == 1 .. k
             m == Max(S)
  <2>1. S \in SUBSET D /\ S # {} /\ k \in S /\ \A i \in S : i <= k
    BY <1>9, SMTT(30)
  <2>2. m \in S /\ \A i \in S : i <= m
    BY <1>2, <2>1
  <2>3. iter[S] = ReadDword(iter[S \ {m}], exts[m])
    BY <1>8, <2>1
  <2> HIDE DEF m
  <2>4. m = k
    BY <2>1, <2>2
  <2>5. S \ {k} = 1 .. (k - 1)
    BY <2>1
  <2> QED
    BY <2>3, <2>4, <2>5
<1>10. iter[1 .. 0] = b
  <2>1. 1 .. 0 = {} /\ {} \in SUBSET D
    OBVIOUS
  <2> QED
    BY <1>8, <2>1
<1> DEFINE x(k) == iter[1 .. k]
<1>11. /\ x(0) = b /\ x(1) = ReadDword(x(0), exts[1])
       /\ n >= 2 => x(2) = ReadDword(x(1), exts[2])
       /\ n >= 3 => x(3) = ReadDword(x(2), exts[3])
       /\ n >= 4 => x(4) = ReadDword(x(3), exts[4])
  <2>1. 1 - 1 = 0 /\ 2 - 1 = 1 /\ 3 - 1 = 2 /\ 4 - 1 = 3
    OBVIOUS
  <2>2. 1 \in 1 .. n /\ (n >= 2 => 2 \in 1 .. n) /\ (n >= 3 => 3 \in 1 .. n)
        /\ (n >= 4 => 4 \in 1 .. n)
    OBVIOUS
  <2> QED
    BY <1>9, <1>10, <2>1, <2>2
<1>12. iter[D] = x(n)
  OBVIOUS
<1> HIDE DEF x
<1>13. n = 1 \/ n = 2 \/ n = 3 \/ n = 4
  OBVIOUS
<1> QED
  BY <1>1, <1>11, <1>12, <1>13 DEF b

LEMMA MarkRead ==
  ASSUME NEW s
  PROVE  LET ref == FirstDword(s) IN
         /\ ReadDwords(s, <<FALSE>>) = ref
         /\ ReadDwords(s, MARK) = ReadDword(ReadDword(ref, TRUE), FALSE)
         /\ ReadDwords(s, LIST_HEAD) =
              ReadDword(ReadDword(ReadDword(ref, FALSE), TRUE), FALSE)
<1> DEFINE one == <<FALSE>>
           b == Got(s, <<>>)
           r(x, e) == ReadDword(x, e)
<1> HIDE DEF r, b
<1>1. /\ DOMAIN one = 1 .. 1 /\ one[1] = FALSE
      /\ DOMAIN MARK = 1 .. 3 /\ MARK[1] = FALSE /\ MARK[2] = TRUE /\ MARK[3] = FALSE
      /\ DOMAIN LIST_HEAD = 1 .. 4 /\ LIST_HEAD[1] = FALSE /\ LIST_HEAD[2] = FALSE
      /\ LIST_HEAD[3] = TRUE /\ LIST_HEAD[4] = FALSE
  BY DEF MARK, LIST_HEAD
<1> HIDE DEF one
<1>2. 1 \in 1 .. 4 /\ 3 \in 1 .. 4 /\ 4 \in 1 .. 4
  OBVIOUS
<1>3. ReadDwords(s, one) = ReadDword(b, FALSE)
  BY <1>1, <1>2, DwordsAre, ZenonT(30) DEF b
<1>4. ReadDwords(s, MARK) = ReadDword(ReadDword(ReadDword(b, FALSE), TRUE), FALSE)
  BY <1>1, <1>2, DwordsAre, ZenonT(30) DEF b
<1>5. ReadDwords(s, LIST_HEAD) =
        ReadDword(ReadDword(ReadDword(ReadDword(b, FALSE), FALSE), TRUE), FALSE)
  <2> DEFINE n == 4
             head == LIST_HEAD
             c1 == ReadDword(b, head[1])
             c2 == ReadDword(c1, head[2])
             c3 == ReadDword(c2, head[3])
             c4 == ReadDword(c3, head[4])
  <2>1. n \in 1 .. 4 /\ DOMAIN head = 1 .. n /\ ~(n = 1) /\ ~(n = 2) /\ ~(n = 3)
    BY <1>1
  <2>2. c4 = ReadDword(ReadDword(ReadDword(ReadDword(b, FALSE), FALSE), TRUE), FALSE)
    BY <1>1
  <2> HIDE DEF n, head
  <2>3. ReadDwords(s, head) = IF n = 1 THEN c1 ELSE IF n = 2 THEN c2
                              ELSE IF n = 3 THEN c3 ELSE c4
    BY <2>1, DwordsAre, Zenon DEF b
  <2> HIDE DEF c4
  <2> QED
    BY <2>1, <2>2, <2>3 DEF head
<1> QED
  BY <1>3, <1>4, <1>5 DEF FirstDword, b, one

LEMMA FirstDwordIs ==
  ASSUME NEW s, Sound(s)
  PROVE  LET got == FirstDword(s)
             tag == TagIn(s, <<0>>) IN
         /\ Follows(s, got.ser) /\ got.ser.version = s.version
         /\ Fetches(s, got.ser, tag, 4)
         /\ ~got.ser.error => got.value = <<Ordered(s, At(s, Len(tag), 4))>>
<1> DEFINE start == Got(s, <<>>)
           got == ReadDword(start, FALSE)
           ext == FALSE
<1>1. start.ser = s /\ start.value = <<>> /\ FirstDword(s) = got
  BY DEF Got, FirstDword
<1>2. \A v : Append(<<>>, v) = <<v>>
  OBVIOUS
<1>3. ext \in BOOLEAN /\ ~ext
  OBVIOUS
<1> HIDE DEF start, ext
<1> DEFINE more == ReadDword(start, ext)
<1>4. Follows(s, more.ser) /\ more.ser.version = s.version
  BY <1>1, <1>3, ReadDwordIs
<1>5. Fetches(s, more.ser, TagIn(s, <<0>>), 4)
  BY <1>1, <1>3, ReadDwordIs
<1>6. ~more.ser.error =>
        more.value = Append(start.value, Ordered(s, At(s, Len(TagIn(s, <<0>>)), 4)))
  BY <1>1, <1>3, ReadDwordIs
<1>7. more = got
  BY DEF ext
<1> HIDE DEF more, got
<1> QED
  BY <1>1, <1>2, <1>4, <1>5, <1>6, <1>7

NullMark == {Zeros(4), FOURCC.NULL}
(* The next byte, if there is one, is not the tag of an object.            *)
OtherTag(s) == Ensure(s, 1) => At(s, 0, 1) # <<0>>

LEMMA ReadObjIs ==
  ASSUME NEW s, Sound(s)
  PROVE  LET got == ReadObj(s)
             n == IF s.version <= 4 THEN 8 ELSE 12 IN
         /\ Follows(s, got.ser) /\ got.ser.version = s.version
         /\ s.error \/ Eof(s) => got.ser = s /\ got.value = None
         /\ got.ser.error => got.value = None
         /\ s.wire = "tlv" /\ ~Eof(s) /\ OtherTag(s) =>
              got.ser.error
         /\ s.wire = "packed" /\ ~(s.error \/ Eof(s)) =>
              /\ Ensure(s, 4) /\ At(s, 0, 4) \in NullMark =>
                   ~got.ser.error /\ got.ser.cursor = s.cursor + 4 /\ got.value = None
              /\ ~(Ensure(s, 4) /\ At(s, 0, 4) \in NullMark) =>
                   /\ Fetches(s, got.ser, <<>>, n)
                   /\ ~got.ser.error =>
                        got.value = <<At(s, 0, 4), IF s.version <= 4 THEN None ELSE At(s, 4, 4),
                                      At(s, n - 4, 4)>>
<1> DEFINE got == ReadObj(s)
           ref == FirstDword(s)
           mid == ReadDword(ref, TRUE)
           mark == ReadDword(mid, FALSE)
           n == IF s.version <= 4 THEN 8 ELSE 12
           nothing == s.error \/ Eof(s)
           null == ref.value[1] \in NullMark
           m == IF s.version <= 4 THEN 4 ELSE 8
<1>0. got = CASE nothing -> Got(s, None)
             [] ~nothing /\ (ref.ser.error \/ null) -> Got(ref.ser, None)
             [] OTHER -> Got(mark.ser, IF mark.ser.error THEN None ELSE mark.value)
  <2>1. ReadDwords(s, <<FALSE>>) = ref /\ ReadDwords(s, MARK) = mark
    BY MarkRead
  <2> HIDE DEF ref, mark
  <2> QED
    BY <2>1 DEF ReadObj, NullMark
<1> HIDE DEF got
<1>1. /\ nothing => got.ser = s /\ got.value = None
      /\ ~nothing /\ (ref.ser.error \/ null) => got.ser = ref.ser /\ got.value = None
      /\ ~nothing /\ ~(ref.ser.error \/ null) =>
           got.ser = mark.ser /\ got.value = IF mark.ser.error THEN None ELSE mark.value
  BY <1>0 DEF Got
<1>2. /\ Follows(s, ref.ser) /\ ref.ser.version = s.version
      /\ Fetches(s, ref.ser, TagIn(s, <<0>>), 4)
      /\ ~ref.ser.error => ref.value = <<Ordered(s, At(s, Len(TagIn(s, <<0>>)), 4))>>
  BY FirstDwordIs
<1> HIDE DEF ref, nothing
<1>3. Follows(s, mid.ser) /\ mid.ser.version = s.version /\ (ref.ser.error => mid.ser.error)
  BY <1>2, DwordFollows
<1> HIDE DEF mid
<1>4. Follows(s, mark.ser) /\ mark.ser.version = s.version /\ (mid.ser.error => mark.ser.error)
  BY <1>3, DwordFollows
<1> HIDE DEF mark, null
<1>5. Follows(s, got.ser) /\ got.ser.version = s.version /\ (got.ser.error => got.value = None)
  BY <1>1, <1>2, <1>4, FollowsSame
<1>6. ASSUME s.wire = "tlv", ~Eof(s), OtherTag(s)
      PROVE  got.ser.error
  <2>1. TagIn(s, <<0>>) = <<0>> /\ Len(<<0>>) = 1 /\ s.cursor \in Nat /\ Len(s.data) \in Nat
    BY <1>6, TagZero, SoundFields DEF TagIn
  <2>2. ~ref.ser.error => Ensure(s, 1 + 4) /\ At(s, 0, 1) = <<0>>
    BY <1>2, <2>1 DEF Fetches
  <2>3. ref.ser.error
    BY <1>6, <2>1, <2>2 DEF Ensure, OtherTag
  <2>4. s.error => s.error
    OBVIOUS
  <2> QED
    BY <1>1, <1>6, <2>3 DEF nothing
<1>7. ASSUME s.wire = "packed", ~nothing
      PROVE  /\ Ensure(s, 4) /\ At(s, 0, 4) \in NullMark =>
                  ~got.ser.error /\ got.ser.cursor = s.cursor + 4 /\ got.value = None
             /\ ~(Ensure(s, 4) /\ At(s, 0, 4) \in NullMark) =>
                  /\ Fetches(s, got.ser, <<>>, n)
                  /\ ~got.ser.error =>
                       got.value = <<At(s, 0, 4), IF s.version <= 4 THEN None ELSE At(s, 4, 4),
                                     At(s, n - 4, 4)>>
  <2>1. TagIn(s, <<0>>) = <<>> /\ Len(<<>>) = 0 /\ \A b : Ordered(s, b) = b
    BY <1>7 DEF TagIn, Ordered
  <2>2. /\ Fetches(s, ref.ser, <<>>, 4) /\ (~ref.ser.error => ref.value = <<At(s, 0, 4)>>)
    BY <1>2, <2>1
  <2>3. /\ Fetches(s, mid.ser, <<>>, m)
        /\ ~mid.ser.error => mid.value = Append(ref.value, IF s.version <= 4 THEN None
                                                           ELSE At(s, 4, 4))
    <3> DEFINE four == 4
               on == TRUE
               it == ReadDword(ref, on)
    <3>1. four \in Nat /\ on \in BOOLEAN /\ Fetches(s, ref.ser, <<>>, four)
      BY <2>2
    <3> HIDE DEF four, on
    <3>2. /\ Fetches(s, it.ser, <<>>, four + (IF on /\ s.version <= 4 THEN 0 ELSE 4))
          /\ ~it.ser.error => it.value = Append(ref.value, IF on /\ s.version <= 4 THEN None
                                                           ELSE At(s, four, 4))
      BY <1>7, <3>1, DwordOn
    <3>3. it = mid
      BY DEF on, mid
    <3> HIDE DEF it
    <3>4. m = four + (IF on /\ s.version <= 4 THEN 0 ELSE 4)
      BY DEF four, on
    <3> QED
      BY <3>2, <3>3, <3>4 DEF four, on
  <2>4. /\ Fetches(s, mark.ser, <<>>, n)
        /\ ~mark.ser.error => mark.value = Append(mid.value, At(s, m, 4))
    <3> DEFINE off == FALSE
               it == ReadDword(mid, off)
    <3>1. m \in Nat /\ off \in BOOLEAN /\ ~off
      OBVIOUS
    <3> HIDE DEF off, m
    <3>2. /\ Fetches(s, it.ser, <<>>, m + 4)
          /\ ~it.ser.error => it.value = Append(mid.value, At(s, m, 4))
      BY <1>7, <2>3, <3>1, DwordOn
    <3>3. it = mark
      BY DEF off, mark
    <3> HIDE DEF it
    <3>4. n = m + 4
      BY DEF m
    <3> QED
      BY <3>2, <3>3, <3>4
  <2>5. \A x, y, z : Append(Append(<<x>>, y), z) = <<x, y, z>>
    <3> TAKE x, y, z
    <3>1. Append(<<x>>, y) = <<x, y>>
      BY Tuple2
    <3>2. Append(<<x, y>>, z) = <<x, y, z>>
      BY Tuple3
    <3> QED
      BY <3>1, <3>2, Zenon
  <2>6. n - 4 = m /\ s.cursor \in Nat /\ Len(s.data) \in Nat /\ n \in Nat /\ n >= 8
    BY SoundFields
  <2>7. ~mark.ser.error => /\ ~mid.ser.error /\ ~ref.ser.error
                           /\ mark.value = <<At(s, 0, 4), IF s.version <= 4 THEN None
                                             ELSE At(s, 4, 4), At(s, n - 4, 4)>>
    BY <1>3, <1>4, <2>2, <2>3, <2>4, <2>5, <2>6, ZenonT(30)
  <2>8. ~ref.ser.error <=> Ensure(s, 4)
    BY <2>1, <2>2, NoTag DEF Fetches
  <2>9. CASE Ensure(s, 4) /\ At(s, 0, 4) \in NullMark
    <3>1. ~ref.ser.error /\ null
      BY <2>2, <2>8, <2>9 DEF null
    <3>2. ref.ser.cursor = s.cursor + 4
      BY <2>1, <2>2, <3>1 DEF Fetches
    <3> QED
      BY <1>1, <1>7, <2>9, <3>1, <3>2
  <2>10. CASE ~Ensure(s, 4)
    <3>1. got.ser.error /\ got.ser = ref.ser
      BY <1>1, <1>7, <2>8, <2>10
    <3>2. ~Ensure(s, n)
      BY <2>6, <2>10 DEF Ensure
    <3>3. Fetches(s, got.ser, <<>>, n)
      BY <1>5, <2>1, <2>6, <3>1, <3>2 DEF Fetches
    <3> QED
      BY <2>10, <3>1, <3>3
  <2>11. CASE Ensure(s, 4) /\ At(s, 0, 4) \notin NullMark
    <3>1. ~ref.ser.error /\ ~null
      BY <2>2, <2>8, <2>11 DEF null
    <3>2. got.ser = mark.ser /\ (~mark.ser.error => got.value = mark.value)
      BY <1>1, <1>7, <3>1
    <3> QED
      BY <2>4, <2>7, <2>11, <3>2
  <2> QED
    BY <2>9, <2>10, <2>11
<1> QED
  BY <1>1, <1>5, <1>6, <1>7 DEF nothing, got

LEMMA ReadObjListIs ==
  ASSUME NEW s, Sound(s)
  PROVE  LET got == ReadObjList(s)
             n == IF s.version <= 4 THEN 12 ELSE 16 IN
         /\ Follows(s, got.ser) /\ got.ser.version = s.version
         /\ s.error \/ Eof(s) => got.ser = s /\ got.value = <<>>
         /\ got.ser.error => got.value = <<>>
         /\ s.wire = "tlv" /\ ~Eof(s) /\ OtherTag(s) =>
              got.ser.error
         /\ s.wire = "packed" /\ ~(s.error \/ Eof(s)) =>
              /\ Fetches(s, got.ser, <<>>, n)
              /\ ~got.ser.error =>
                   got.value = <<At(s, 0, 4), At(s, 4, 4),
                                 IF s.version <= 4 THEN None ELSE At(s, 8, 4), At(s, n - 4, 4)>>
<1> DEFINE got == ReadObjList(s)
           one == FirstDword(s)
           pair == ReadDword(one, FALSE)
           mid == ReadDword(pair, TRUE)
           head == ReadDword(mid, FALSE)
           n == IF s.version <= 4 THEN 12 ELSE 16
           nothing == s.error \/ Eof(s)
           m == IF s.version <= 4 THEN 8 ELSE 12
<1>0. got = IF nothing THEN Got(s, <<>>)
            ELSE Got(head.ser, IF head.ser.error THEN <<>> ELSE head.value)
  <2>1. ReadDwords(s, LIST_HEAD) = head
    BY MarkRead
  <2> HIDE DEF head
  <2> QED
    BY <2>1 DEF ReadObjList
<1> HIDE DEF got
<1>1. /\ nothing => got.ser = s /\ got.value = <<>>
      /\ ~nothing => /\ got.ser = head.ser
                     /\ got.value = IF head.ser.error THEN <<>> ELSE head.value
  BY <1>0 DEF Got
<1>2. /\ Follows(s, one.ser) /\ one.ser.version = s.version
      /\ Fetches(s, one.ser, TagIn(s, <<0>>), 4)
      /\ ~one.ser.error => one.value = <<Ordered(s, At(s, Len(TagIn(s, <<0>>)), 4))>>
  BY FirstDwordIs
<1> HIDE DEF one, nothing
<1>3. Follows(s, pair.ser) /\ pair.ser.version = s.version /\ (one.ser.error => pair.ser.error)
  BY <1>2, DwordFollows
<1> HIDE DEF pair
<1>4. Follows(s, mid.ser) /\ mid.ser.version = s.version /\ (pair.ser.error => mid.ser.error)
  BY <1>3, DwordFollows
<1> HIDE DEF mid
<1>5. Follows(s, head.ser) /\ head.ser.version = s.version /\ (mid.ser.error => head.ser.error)
  BY <1>4, DwordFollows
<1> HIDE DEF head
<1>6. Follows(s, got.ser) /\ got.ser.version = s.version /\ (got.ser.error => got.value = <<>>)
  BY <1>1, <1>5, FollowsSame
<1>7. ASSUME s.wire = "tlv", ~Eof(s), OtherTag(s)
      PROVE  got.ser.error
  <2>1. TagIn(s, <<0>>) = <<0>> /\ Len(<<0>>) = 1 /\ s.cursor \in Nat /\ Len(s.data) \in Nat
    BY <1>7, TagZero, SoundFields DEF TagIn
  <2>2. ~one.ser.error => Ensure(s, 1 + 4) /\ At(s, 0, 1) = <<0>>
    BY <1>2, <2>1 DEF Fetches
  <2>3. one.ser.error
    BY <1>7, <2>1, <2>2 DEF Ensure, OtherTag
  <2> QED
    BY <1>1, <1>3, <1>4, <1>5, <1>7, <2>3 DEF nothing
<1>8. ASSUME s.wire = "packed", ~nothing
      PROVE  /\ Fetches(s, got.ser, <<>>, n)
             /\ ~got.ser.error =>
                  got.value = <<At(s, 0, 4), At(s, 4, 4),
                                IF s.version <= 4 THEN None ELSE At(s, 8, 4), At(s, n - 4, 4)>>
  <2>1. TagIn(s, <<0>>) = <<>> /\ Len(<<>>) = 0 /\ \A b : Ordered(s, b) = b
    BY <1>8 DEF TagIn, Ordered
  <2>2. Fetches(s, one.ser, <<>>, 4) /\ (~one.ser.error => one.value = <<At(s, 0, 4)>>)
    BY <1>2, <2>1
  <2> DEFINE on == TRUE
             off == FALSE
             four == 4
             eight == 8
             more == IF on /\ s.version <= 4 THEN 0 ELSE 4
  <2>3. /\ on \in BOOLEAN /\ off \in BOOLEAN /\ on /\ ~off
        /\ four \in Nat /\ eight \in Nat /\ m \in Nat /\ four + 4 = eight
        /\ eight + more = m /\ m + 4 = n /\ n - 4 = m
    OBVIOUS
  <2> DEFINE pair_ == ReadDword(one, off)
             mid_ == ReadDword(pair, on)
             head_ == ReadDword(mid, off)
  <2>4. pair_ = pair /\ mid_ = mid /\ head_ = head
    BY DEF pair, mid, head
  <2>5. Fetches(s, one.ser, <<>>, four)
    BY <2>2
  <2>6. four = 4 /\ eight = 8
    OBVIOUS
  <2> HIDE DEF on, off, four, eight, m
  <2>7. /\ Fetches(s, pair_.ser, <<>>, four + 4)
        /\ ~pair_.ser.error => pair_.value = Append(one.value, At(s, four, 4))
    BY <1>8, <2>3, <2>5, DwordOn
  <2>8. Fetches(s, pair.ser, <<>>, eight)
    BY <2>3, <2>4, <2>7
  <2>9. /\ Fetches(s, mid_.ser, <<>>, eight + more)
        /\ ~mid_.ser.error =>
             mid_.value = Append(pair.value, IF on /\ s.version <= 4 THEN None
                                             ELSE At(s, eight, 4))
    BY <1>8, <2>3, <2>8, DwordOn, ZenonT(30)
  <2>10. Fetches(s, mid.ser, <<>>, m)
    BY <2>3, <2>4, <2>9
  <2>11. /\ Fetches(s, head_.ser, <<>>, m + 4)
         /\ ~head_.ser.error => head_.value = Append(mid.value, At(s, m, 4))
    BY <1>8, <2>3, <2>10, DwordOn
  <2>12. \A x, y, z, w : Append(Append(Append(<<x>>, y), z), w) = <<x, y, z, w>>
    <3> TAKE x, y, z, w
    <3>1. Append(<<x>>, y) = <<x, y>>
      BY Tuple2
    <3>2. Append(<<x, y>>, z) = <<x, y, z>>
      BY Tuple3
    <3>3. Append(<<x, y, z>>, w) = <<x, y, z, w>>
      BY Tuple4
    <3> QED
      BY <3>1, <3>2, <3>3, Zenon
  <2>13. ~head.ser.error => head.value = <<At(s, 0, 4), At(s, 4, 4),
                                 IF s.version <= 4 THEN None ELSE At(s, 8, 4), At(s, m, 4)>>
    <3> SUFFICES ASSUME ~head.ser.error
                 PROVE  head.value = <<At(s, 0, 4), At(s, 4, 4),
                                 IF s.version <= 4 THEN None ELSE At(s, 8, 4), At(s, m, 4)>>
      OBVIOUS
    <3> DEFINE v3 == IF s.version <= 4 THEN None ELSE At(s, 8, 4)
    <3>1. one.value = <<At(s, 0, 4)>>
      BY <1>3, <1>4, <1>5, <2>2
    <3>2. pair.value = Append(one.value, At(s, 4, 4))
      BY <1>4, <1>5, <2>4, <2>6, <2>7
    <3>3. mid.value = Append(pair.value, v3)
      BY <1>5, <2>3, <2>4, <2>6, <2>9
    <3>4. head.value = Append(mid.value, At(s, m, 4))
      BY <2>4, <2>11
    <3> HIDE DEF v3
    <3>5. head.value = <<At(s, 0, 4), At(s, 4, 4), v3, At(s, m, 4)>>
      BY <2>12, <3>1, <3>2, <3>3, <3>4
    <3> QED
      BY <3>5 DEF v3
  <2>14. Fetches(s, head.ser, <<>>, n)
    BY <2>3, <2>4, <2>11
  <2> QED
    BY <1>1, <1>8, <2>3, <2>13, <2>14
<1> QED
  BY <1>1, <1>6, <1>7, <1>8 DEF nothing, got

-----------------------------------------------------------------------------
(* Every operation of a specification.                                     *)
LEMMA FourccBytes ==
  /\ \A f \in DOMAIN FOURCC : FOURCC[f] \in Seq(BYTE) /\ Len(FOURCC[f]) = 4
  /\ {"NPfl", "vers", "NULL"} \subseteq DOMAIN FOURCC
<1> DEFINE a == <<78, 80, 102, 108>>
           b == <<118, 101, 114, 115>>
           c == <<110, 117, 108, 108>>
<1>1. a \in Seq(BYTE) /\ b \in Seq(BYTE) /\ c \in Seq(BYTE)
  BY DEF BYTE
<1>2. Len(a) = 4 /\ Len(b) = 4 /\ Len(c) = 4
  OBVIOUS
<1>3. FOURCC.NPfl = a /\ FOURCC.vers = b /\ FOURCC.NULL = c
      /\ DOMAIN FOURCC = {"NPfl", "vers", "NULL"}
  BY DEF FOURCC
<1> HIDE DEF a, b, c
<1> QED
  BY <1>1, <1>2, <1>3

LEMMA TagOfIs ==
  ASSUME NEW field \in ToSet(LETTERS)
  PROVE  TagOf(field) \in 101 .. 133
<1>1. DOMAIN LETTERS = 1 .. 33
  BY DEF LETTERS
<1>2. \E i \in DOMAIN LETTERS : LETTERS[i] = field
  BY DEF ToSet
<1> DEFINE letter == CHOOSE i \in DOMAIN LETTERS : LETTERS[i] = field
<1>3. letter \in DOMAIN LETTERS
  BY <1>2
<1>4. TagOf(field) = 100 + letter
  BY DEF TagOf
<1> HIDE DEF letter
<1> QED
  BY <1>1, <1>3, <1>4

IsRead(op) == op = BaseInit \/ IsOp(op)

LEMMA KindOf ==
  ASSUME NEW op, IsRead(op)
  PROVE  /\ op.n \in Nat /\ op.above \in Int
         /\ op.kind \in {"BaseInit", "Byte", "Short", "Dword", "DwordF", "String", "BufF",
                         "SubObj", "ObjList"}
         /\ op.kind = "BaseInit" <=> op = BaseInit
         /\ op.kind \in {"Byte", "Short", "Dword", "String"} => op.field \in ToSet(LETTERS)
         /\ op.kind \in {"DwordF", "BufF"} => op.field \in DOMAIN FOURCC
         /\ op.kind \in NUMBERS => op.n = WIDTH[op.kind] /\ op.n \in {1, 2, 4}
<1>1. CASE op = BaseInit
  BY <1>1 DEF BaseInit, Op, Always, NUMBERS
<1>2. CASE IsOp(op)
  <2>1. op.kind # "BaseInit" /\ op # BaseInit
    BY <1>2 DEF IsOp, BaseInit, Op
  <2> QED
    BY <1>2, <2>1 DEF IsOp, NUMBERS, WIDTH
<1> QED
  BY <1>1, <1>2 DEF IsRead

LEMMA TagBytesAre ==
  ASSUME NEW op, IsRead(op), op.kind \in NUMBERS \cup {"String"}
  PROVE  TagBytes(op) \in Seq(BYTE) /\ Len(TagBytes(op)) = IF op.kind = "DwordF" THEN 4 ELSE 1
<1>1. CASE op.kind = "DwordF"
  BY <1>1, KindOf, FourccBytes DEF TagBytes
<1>2. CASE op.kind # "DwordF"
  <2>1. TagOf(op.field) \in 101 .. 133
    BY <1>2, KindOf, TagOfIs DEF NUMBERS
  <2>2. TagOf(op.field) \in BYTE
    BY <2>1 DEF BYTE
  <2>3. TagBytes(op) = <<TagOf(op.field)>>
    BY <1>2 DEF TagBytes
  <2> QED
    BY <1>2, <2>2, <2>3
<1> QED
  BY <1>1, <1>2

LEMMA ZerosAre ==
  ASSUME NEW n \in Nat
  PROVE  Zeros(n) \in Seq(BYTE) /\ Len(Zeros(n)) = n
<1>1. Zeros(n) \in [1 .. n -> BYTE]
  BY DEF Zeros, BYTE
<1> QED
  BY <1>1, MadeSeq

LEMMA OrderedIs ==
  ASSUME NEW s, NEW bytes \in Seq(BYTE)
  PROVE  Ordered(s, bytes) \in Seq(BYTE) /\ Len(Ordered(s, bytes)) = Len(bytes)
BY ReverseIs DEF Ordered

(* A number that is read has as many bytes as were asked for.              *)
LEMMA NumberTyped ==
  ASSUME NEW s, Sound(s), NEW tag \in Seq(BYTE), NEW n \in Nat, NEW kind
  PROVE  LET value == ReadNumber(s, tag, n, kind).value IN
         value \in Seq(BYTE) /\ Len(value) = n
<1> DEFINE got == ReadNumber(s, tag, n, kind)
           m == Len(TagIn(s, tag))
           bytes == At(s, m, n)
<1>1. /\ TagIn(s, tag) \in Seq(BYTE) /\ Fetches(s, got.ser, TagIn(s, tag), n)
      /\ got.value = IF got.ser.error THEN Zeros(n) ELSE Ordered(s, bytes)
  BY ReadNumberIs DEF Ordered
<1> HIDE DEF got
<1>2. CASE got.ser.error
  BY <1>1, <1>2, ZerosAre DEF got
<1>3. CASE ~got.ser.error
  <2>1. m \in Nat /\ s.cursor + (m + n) <= Len(s.data)
    BY <1>1, <1>3, LenProperties DEF Fetches, Ensure
  <2> HIDE DEF m
  <2>2. bytes \in Seq(BYTE) /\ Len(bytes) = n
    BY <2>1, AtIs
  <2> HIDE DEF bytes
  <2> QED
    BY <1>1, <1>3, <2>2, OrderedIs DEF got
<1> QED
  BY <1>2, <1>3

LEMMA ReadBaseFollows ==
  ASSUME NEW s, Sound(s)
  PROVE  Follows(s, ReadBase(s).ser)
<1> DEFINE npfl == ReadBuf(s, FOURCC.NPfl, 2)
           version == ReadNumber(npfl.ser, FOURCC.vers, 4, "F")
           t == version.ser
           v == AsNumber(version.value)
           u == [t EXCEPT !.version = v]
           two == 2
           four == 4
           tag1 == FOURCC.NPfl
           tag2 == FOURCC.vers
<1>1. ReadBase(s).ser = u
  BY DEF ReadBase, Got
<1>2. two \in Nat /\ four \in Nat /\ tag1 \in Seq(BYTE) /\ tag2 \in Seq(BYTE)
  BY FourccBytes
<1> DEFINE flags == ReadBuf(s, tag1, two)
<1>3. Follows(s, npfl.ser)
  <2>1. flags.ser = npfl.ser
    OBVIOUS
  <2> HIDE DEF two, tag1, npfl
  <2>2. Fetches(s, flags.ser, TagIn(s, tag1), two)
    BY <1>2, ReadBufIs
  <2> QED
    BY <2>1, <2>2 DEF Fetches
<1> HIDE DEF npfl, two, tag1
<1> DEFINE number == ReadNumber(npfl.ser, tag2, four, "F")
<1>4. Follows(npfl.ser, t) /\ v \in Nat
  <2>1. number = version
    OBVIOUS
  <2>2. Sound(npfl.ser)
    BY <1>3 DEF Follows
  <2> HIDE DEF four, tag2, version
  <2>3. Fetches(npfl.ser, number.ser, TagIn(npfl.ser, tag2), four)
    BY <1>2, <2>2, ReadNumberIs
  <2>4. number.value \in Seq(BYTE)
    BY <1>2, <2>2, NumberTyped
  <2> QED
    BY <2>1, <2>3, <2>4, AsNumberIs DEF Fetches
<1> HIDE DEF version, v
<1>5. Follows(s, t)
  BY <1>3, <1>4, FollowsTrans
<1> HIDE DEF t
<1>6. t \in Serializer
  BY <1>5 DEF Follows, Sound
<1>7. /\ u \in Serializer /\ u.wire = t.wire /\ u.data = t.data /\ u.abs_off = t.abs_off
      /\ u.usage = t.usage /\ u.error = t.error /\ u.cursor = t.cursor
  BY <1>4, <1>6 DEF Serializer
<1> HIDE DEF u
<1>8. Marks(t) => Marks(u)
  BY <1>7 DEF Marks, Known, Told
<1> QED
  BY <1>1, <1>5, <1>7, <1>8 DEF Follows, Sound

LEMMA ReadFieldFollows ==
  ASSUME NEW s, Sound(s), NEW op, IsRead(op)
  PROVE  LET t == ReadField(s, op).ser IN
         Follows(s, t) /\ (op.kind # "BaseInit" => t.version = s.version)
<1> DEFINE t == ReadField(s, op).ser
           kind == IF op.kind = "DwordF" THEN "F" ELSE ""
           n == op.n
<1>1. n \in Nat /\ op.kind \in {"BaseInit", "Byte", "Short", "Dword", "DwordF", "String", "BufF",
                         "SubObj", "ObjList"}
  BY KindOf
<1> HIDE DEF n, kind
<1>2. CASE op.kind = "BaseInit"
  <2>1. t = ReadBase(s).ser
    BY <1>2 DEF ReadField, NUMBERS
  <2> QED
    BY <1>2, <2>1, ReadBaseFollows
<1>3. CASE op.kind \in NUMBERS
  <2> DEFINE tag == TagBytes(op)
             got == ReadNumber(s, tag, n, kind)
  <2>1. t = got.ser
    BY <1>3 DEF ReadField, NUMBERS, n, kind
  <2>2. tag \in Seq(BYTE)
    BY <1>3, TagBytesAre
  <2> HIDE DEF tag, t
  <2>3. Fetches(s, got.ser, TagIn(s, tag), n)
    BY <1>1, <2>2, ReadNumberIs
  <2> QED
    BY <2>1, <2>3 DEF Fetches, t
<1>4. CASE op.kind = "String"
  <2> DEFINE tag == TagBytes(op)
  <2>1. t = ReadString(s, tag).ser
    BY <1>4 DEF ReadField, NUMBERS
  <2>2. tag \in Seq(BYTE)
    BY <1>4, TagBytesAre
  <2> HIDE DEF tag, t
  <2> QED
    BY <2>1, <2>2, ReadStringIs DEF t
<1>5. CASE op.kind = "BufF"
  <2> DEFINE tag == FOURCC[op.field]
             got == ReadBuf(s, tag, n)
  <2>1. t = got.ser
    BY <1>5 DEF ReadField, NUMBERS, n
  <2>2. tag \in Seq(BYTE)
    BY <1>5, KindOf, FourccBytes
  <2> HIDE DEF tag, t
  <2>3. Fetches(s, got.ser, TagIn(s, tag), n)
    BY <1>1, <2>2, ReadBufIs
  <2> QED
    BY <2>1, <2>3 DEF Fetches, t
<1>6. CASE op.kind = "SubObj"
  <2>1. t = ReadObj(s).ser
    BY <1>6 DEF ReadField, NUMBERS
  <2> HIDE DEF t
  <2> QED
    BY <2>1, ReadObjIs DEF t
<1>7. CASE op.kind = "ObjList"
  <2>1. t = ReadObjList(s).ser
    BY <1>7 DEF ReadField, NUMBERS
  <2> HIDE DEF t
  <2> QED
    BY <2>1, ReadObjListIs DEF t
<1> QED
  BY <1>1, <1>2, <1>3, <1>4, <1>5, <1>6, <1>7 DEF NUMBERS

-----------------------------------------------------------------------------
(* What is written for an operation.                                       *)
LEMMA LeastOfTwo ==
  ASSUME NEW a \in Int, NEW b \in Int
  PROVE  /\ Min({a, b}) = IF a <= b THEN a ELSE b
         /\ Max({a, b}) = IF a <= b THEN b ELSE a
<1> DEFINE S == {a, b}
<1>1. S \in SUBSET Int /\ a \in S /\ b \in S
  OBVIOUS
<1>2. CASE a <= b
  <2>1. (\A i \in S : a <= i) /\ (\A i \in S : b >= i)
    BY <1>2
  <2> HIDE DEF S
  <2>2. Min(S) = a /\ Max(S) = b
    BY <1>1, <2>1, MinIs, MaxIs
  <2> QED
    BY <1>2, <2>2 DEF S
<1>3. CASE ~(a <= b)
  <2>1. (\A i \in S : b <= i) /\ (\A i \in S : a >= i)
    BY <1>3
  <2> HIDE DEF S
  <2>2. Min(S) = b /\ Max(S) = a
    BY <1>1, <2>1, MinIs, MaxIs
  <2> QED
    BY <1>3, <2>2 DEF S
<1> QED
  BY <1>2, <1>3

LEMMA FirstOfIs ==
  ASSUME NEW value \in Seq(BYTE), NEW n \in Nat
  PROVE  LET m == IF n <= Len(value) THEN n ELSE Len(value) IN
         /\ FirstOf(value, n) \in Seq(BYTE) /\ Len(FirstOf(value, n)) = m
         /\ \A k \in 1 .. m : FirstOf(value, n)[k] = value[k]
<1> DEFINE m == IF n <= Len(value) THEN n ELSE Len(value)
           one == 1
<1>1. Len(value) \in Nat /\ m \in Nat /\ m <= Len(value) /\ Min({n, Len(value)}) = m
  BY LenProperties, LeastOfTwo
<1>2. FirstOf(value, n) = SubSeq(value, one, m) /\ one \in Int /\ m \in Int
  <2>1. FirstOf(value, n) = SubSeq(value, 1, Min({n, Len(value)}))
    BY DEF FirstOf
  <2>2. m \in Int
    BY <1>1
  <2>3. Min({n, Len(value)}) = m /\ one \in Int
    BY <1>1
  <2> HIDE DEF m
  <2>4. FirstOf(value, n) = SubSeq(value, one, m)
    BY <2>1, <2>3, Zenon
  <2> QED
    BY <2>2, <2>3, <2>4
<1>3. \A i \in one .. m : value[i] \in BYTE
  BY <1>1, ElementOfSeq
<1>4. one = 1
  OBVIOUS
<1> HIDE DEF m, one
<1>5. /\ SubSeq(value, one, m) \in Seq(BYTE)
      /\ Len(SubSeq(value, one, m)) = IF one <= m THEN m - one + 1 ELSE 0
  BY <1>2, <1>3, SubSeqProperties
<1>6. \A i \in 1 .. m - one + 1 : SubSeq(value, one, m)[i] = value[one + i - 1]
  BY <1>2, <1>3, SubSeqProperties
<1>7. Len(SubSeq(value, one, m)) = m
  BY <1>1, <1>4, <1>5
<1>8. \A i \in 1 .. m : SubSeq(value, one, m)[i] = value[i]
  BY <1>1, <1>4, <1>6
<1> QED
  BY <1>2, <1>5, <1>7, <1>8 DEF m

LEMMA FittedIs ==
  ASSUME NEW value \in Seq(BYTE), NEW n \in Nat
  PROVE  Fitted(value, n) \in Seq(BYTE) /\ Len(Fitted(value, n)) = n
<1> DEFINE first == FirstOf(value, n)
           k == Max({0, n - Len(value)})
<1>1. Len(value) \in Nat
  BY LenProperties
<1>2. k = IF n <= Len(value) THEN 0 ELSE n - Len(value)
  <2> DEFINE zero == 0
             d == n - Len(value)
  <2>1. zero \in Int /\ d \in Int
    BY <1>1
  <2>2. zero <= d <=> Len(value) <= n
    BY <1>1
  <2>3. d = 0 <=> n = Len(value)
    BY <1>1
  <2>4. n <= Len(value) <=> ~(Len(value) <= n) \/ n = Len(value)
    BY <1>1
  <2> HIDE DEF zero, d
  <2>5. Max({zero, d}) = IF zero <= d THEN d ELSE zero
    BY <2>1, LeastOfTwo
  <2> QED
    BY <2>2, <2>3, <2>4, <2>5 DEF zero, d
<1> HIDE DEF k
<1>3. k \in Nat
  BY <1>1, <1>2
<1>4. first \in Seq(BYTE) /\ Len(first) = IF n <= Len(value) THEN n ELSE Len(value)
  BY FirstOfIs
<1> HIDE DEF first
<1>5. Zeros(k) \in Seq(BYTE) /\ Len(Zeros(k)) = k
  BY <1>3, ZerosAre
<1>6. first \o Zeros(k) \in Seq(BYTE) /\ Len(first \o Zeros(k)) = Len(first) + Len(Zeros(k))
  BY <1>4, <1>5, ConcatProperties
<1>7. Len(first) + Len(Zeros(k)) = n
  <2>1. CASE n <= Len(value)
    BY <1>1, <1>2, <1>4, <1>5, <2>1
  <2>2. CASE ~(n <= Len(value))
    BY <1>1, <1>2, <1>4, <1>5, <2>2
  <2> QED
    BY <2>1, <2>2
<1> QED
  BY <1>6, <1>7 DEF Fitted, first, k

LEMMA BitReverseIs ==
  ASSUME NEW b \in BYTE
  PROVE  BitReverse(b) \in BYTE /\ BitReverse(BitReverse(b)) = b
<1>1. BitReverse(b) \in BYTE
  BY SMTT(60) DEF BitReverse, BYTE
<1>2. BitReverse(BitReverse(b)) = b
  BY SMTT(60) DEF BitReverse, BYTE
<1> QED
  BY <1>1, <1>2

LEMMA BitReversedIs ==
  ASSUME NEW bytes \in Seq(BYTE)
  PROVE  /\ BitReversed(bytes) \in Seq(BYTE) /\ Len(BitReversed(bytes)) = Len(bytes)
         /\ BitReversed(BitReversed(bytes)) = bytes
<1>1. DOMAIN bytes = 1 .. Len(bytes) /\ Len(bytes) \in Nat
      /\ \A i \in 1 .. Len(bytes) : bytes[i] \in BYTE
  BY LenProperties, ElementOfSeq
<1> DEFINE back == BitReversed(bytes)
<1>2. back = [i \in 1 .. Len(bytes) |-> BitReverse(bytes[i])]
  BY <1>1 DEF BitReversed
<1>3. back \in [1 .. Len(bytes) -> BYTE]
  BY <1>1, <1>2, BitReverseIs
<1>4. back \in Seq(BYTE) /\ Len(back) = Len(bytes)
  BY <1>1, <1>3, MadeSeq
<1>5. BitReversed(back) = [i \in 1 .. Len(bytes) |-> BitReverse(back[i])]
  BY <1>3 DEF BitReversed
<1>6. \A i \in 1 .. Len(bytes) : BitReverse(back[i]) = bytes[i]
  BY <1>1, <1>2, BitReverseIs
<1>7. bytes = [i \in 1 .. Len(bytes) |-> bytes[i]]
  BY <1>1
<1>8. BitReversed(back) = bytes
  BY <1>5, <1>6, <1>7
<1> QED
  BY <1>4, <1>8

LEMMA ReverseTwice ==
  ASSUME NEW bytes \in Seq(BYTE)
  PROVE  Reverse(Reverse(bytes)) = bytes
<1> DEFINE n == Len(bytes)
           back == Reverse(bytes)
<1>1. n \in Nat /\ DOMAIN bytes = 1 .. n
  BY LenProperties
<1>2. back \in Seq(BYTE) /\ Len(back) = n
  BY ReverseIs
<1>3. back = [i \in 1 .. n |-> bytes[(n - i) + 1]]
  BY DEF Reverse
<1>4. Reverse(back) = [i \in 1 .. n |-> back[(n - i) + 1]]
  BY <1>2 DEF Reverse
<1> HIDE DEF n, back
<1>5. ASSUME NEW i \in 1 .. n  PROVE back[(n - i) + 1] = bytes[i]
  <2>1. (n - i) + 1 \in 1 .. n /\ (n - ((n - i) + 1)) + 1 = i
    BY <1>1
  <2> QED
    BY <1>3, <2>1
<1>6. bytes = [i \in 1 .. n |-> bytes[i]]
  BY <1>1
<1> QED
  BY <1>4, <1>5, <1>6 DEF back

LEMMA DwordSeq ==
  ASSUME NEW d \in DWORD
  PROVE  d \in Seq(BYTE) /\ Len(d) = 4
<1>1. d \in [1 .. 4 -> BYTE]
  BY DEF DWORD
<1> QED
  BY <1>1, MadeSeq, ZenonT(30)

(* A text is brief when the two bytes ahead of it can say its length.      *)
Brief(text) == text \in Seq(BYTE) /\ Len(text) < 65536

LEMMA LengthBytesAre ==
  ASSUME NEW value, Brief(value)
  PROVE  /\ LengthBytes(value) \in Seq(BYTE) /\ Len(LengthBytes(value)) = 2
         /\ AsNumber(LengthBytes(value)) = Len(value)
<1> DEFINE n == Len(value)
           a == n \div 256
           b == n % 256
           bytes == <<a, b>>
<1>1. n \in Nat /\ n < 65536
  BY LenProperties DEF Brief
<1> HIDE DEF n
<1>2. a \in BYTE /\ b \in BYTE /\ 256 * a + b = n
  BY <1>1 DEF BYTE
<1>3. LengthBytes(value) = bytes
  BY DEF LengthBytes, n
<1> HIDE DEF a, b
<1>4. bytes \in Seq(BYTE) /\ Len(bytes) = 2 /\ bytes[1] = a /\ bytes[2] = b
  BY <1>2
<1> HIDE DEF bytes
<1> DEFINE byte(k) == IF k <= Len(bytes) THEN bytes[Len(bytes) + 1 - k] ELSE 0
<1>5. byte(1) = b /\ byte(2) = a /\ byte(3) = 0 /\ byte(4) = 0
  BY <1>4
<1>6. AsNumber(bytes) = IF byte(4) > 63 THEN 2 ^ 30
        ELSE 16777216 * byte(4) + 65536 * byte(3) + 256 * byte(2) + byte(1)
  BY DEF AsNumber
<1> HIDE DEF byte
<1>7. AsNumber(bytes) = 256 * a + b
  <2>1. a \in Int /\ b \in Int
    BY <1>2 DEF BYTE
  <2> QED
    BY <1>5, <1>6, <2>1
<1> QED
  BY <1>2, <1>3, <1>4, <1>7 DEF n

(* The bytes of an operation, in a file of one kind, for its value and the *)
(* version of the record.                                                  *)
BaseChunk(w, value, version) ==
  IF w = "tlv"
  THEN WriteBuf(FOURCC.NPfl, Fitted(Default(value, <<>>), 2)) \o WriteNumber(FOURCC.vers, version)
  ELSE BitReversed(Fitted(Default(value, <<>>), 2)) \o version
ChunkOf(w, op, value, version) ==
  IF op.kind = "BaseInit" THEN BaseChunk(w, value, version)
  ELSE IF ~Gate(op, AsNumber(version)) THEN <<>>
  ELSE IF w = "tlv" THEN ToTlv(op, value) ELSE ToPacked(op, value, version)

(* What is written for a value, or for one that is not there.              *)
LEMMA SourceIs ==
  ASSUME NEW op, IsRead(op), NEW value, Fits(op, value)
  PROVE  /\ op.kind = "BaseInit" => Default(value, <<>>) \in Seq(BYTE)
         /\ op.kind \in NUMBERS => /\ Default(value, Zeros(op.n)) \in Seq(BYTE)
                                   /\ Len(Default(value, Zeros(op.n))) = op.n
         /\ op.kind = "String" => /\ Default(value, <<>>) \in Seq(BYTE)
                                  /\ Brief(Default(value, <<>>))
         /\ op.kind = "BufF" => Default(value, <<>>) \in Seq(BYTE)
         /\ op.kind = "SubObj" /\ value # None =>
              /\ value \in [1 .. 3 -> DWORD] /\ value[1] \notin NullMark
         /\ op.kind = "ObjList" => value \in [1 .. 4 -> DWORD]
<1>1. <<>> \in Seq(BYTE) /\ Len(<<>>) = 0
  OBVIOUS
<1>2. CASE op.kind = "BaseInit"
  <2>1. value = None \/ value \in Seq(BYTE)
    BY <1>2 DEF Fits, WIDTH
  <2> QED
    BY <1>1, <1>2, <2>1 DEF Default, NUMBERS
<1>3. CASE op.kind \in NUMBERS
  <2>1. op.kind \in DOMAIN WIDTH /\ op.n \in Nat
    BY <1>3, KindOf DEF WIDTH, NUMBERS
  <2>2. value = None \/ value \in [1 .. op.n -> BYTE]
    <3>1. op.kind \in {"Byte", "Short", "Dword", "DwordF"}
      BY <1>3 DEF NUMBERS
    <3>2. CASE op.kind = "Byte"
      BY <2>1, <3>2 DEF Fits
    <3>3. CASE op.kind = "Short"
      BY <2>1, <3>3 DEF Fits
    <3>4. CASE op.kind = "Dword"
      BY <2>1, <3>4 DEF Fits
    <3>5. CASE op.kind = "DwordF"
      BY <2>1, <3>5 DEF Fits
    <3> QED
      BY <3>1, <3>2, <3>3, <3>4, <3>5
  <2>3. value # None => value \in Seq(BYTE) /\ Len(value) = op.n
    BY <2>1, <2>2, MadeSeq
  <2>4. Zeros(op.n) \in Seq(BYTE) /\ Len(Zeros(op.n)) = op.n
    BY <2>1, ZerosAre
  <2> QED
    BY <1>3, <2>3, <2>4 DEF Default, NUMBERS
<1>4. CASE op.kind = "String"
  <2>1. value = None \/ Brief(value)
    BY <1>4 DEF Fits, WIDTH, Brief
  <2>2. Brief(<<>>)
    BY <1>1 DEF Brief
  <2>3. Brief(Default(value, <<>>))
    BY <2>1, <2>2 DEF Default
  <2> QED
    BY <1>4, <2>3 DEF NUMBERS, Brief
<1>5. CASE op.kind = "BufF"
  <2>1. value = None \/ value \in Seq(BYTE)
    BY <1>5 DEF Fits, WIDTH
  <2> QED
    BY <1>1, <1>5, <2>1 DEF Default, NUMBERS
<1>6. CASE op.kind = "SubObj"
  BY <1>6 DEF Fits, WIDTH, NUMBERS, NullMark
<1>7. CASE op.kind = "ObjList"
  BY <1>7 DEF Fits, WIDTH, NUMBERS
<1> QED
  BY <1>2, <1>3, <1>4, <1>5, <1>6, <1>7, KindOf DEF NUMBERS

LEMMA ConcatTyped ==
  ASSUME NEW a \in Seq(BYTE), NEW b \in Seq(BYTE)
  PROVE  a \o b \in Seq(BYTE) /\ Len(a \o b) = Len(a) + Len(b)
BY ConcatProperties

LEMMA BaseChunkTyped ==
  ASSUME NEW w, NEW value, Default(value, <<>>) \in Seq(BYTE), NEW version \in DWORD
  PROVE  BaseChunk(w, value, version) \in Seq(BYTE)
<1> DEFINE flags == Fitted(Default(value, <<>>), 2)
           two == 2
<1>1. flags \in Seq(BYTE)
  <2>1. two \in Nat
    OBVIOUS
  <2> HIDE DEF two
  <2>2. Fitted(Default(value, <<>>), two) \in Seq(BYTE)
    BY <2>1, FittedIs
  <2> QED
    BY <2>2 DEF two
<1>2. version \in Seq(BYTE) /\ Reverse(version) \in Seq(BYTE)
  BY DwordSeq, ReverseIs
<1>3. FOURCC.NPfl \in Seq(BYTE) /\ FOURCC.vers \in Seq(BYTE)
  BY FourccBytes
<1>4. BitReversed(flags) \in Seq(BYTE)
  BY <1>1, BitReversedIs
<1> HIDE DEF flags
<1>5. BitReversed(flags) \o version \in Seq(BYTE)
  BY <1>2, <1>4, ConcatTyped
<1>6. FOURCC.NPfl \o flags \in Seq(BYTE) /\ FOURCC.vers \o Reverse(version) \in Seq(BYTE)
  BY <1>1, <1>2, <1>3, ConcatTyped
<1>7. (FOURCC.NPfl \o flags) \o (FOURCC.vers \o Reverse(version)) \in Seq(BYTE)
  BY <1>6, ConcatTyped
<1> QED
  BY <1>5, <1>7 DEF BaseChunk, WriteBuf, WriteNumber, flags

LEMMA TlvTyped ==
  ASSUME NEW op, IsOp(op), NEW value, Fits(op, value)
  PROVE  ToTlv(op, value) \in Seq(BYTE)
<1>0. IsRead(op) /\ op.kind # "BaseInit"
  BY DEF IsRead, IsOp
<1>1. CASE op.kind \in NUMBERS
  <2> DEFINE v == Default(value, Zeros(op.n))
  <2>1. v \in Seq(BYTE) /\ TagBytes(op) \in Seq(BYTE)
    BY <1>0, <1>1, SourceIs, TagBytesAre
  <2>2. ToTlv(op, value) = TagBytes(op) \o Reverse(v)
    BY <1>1 DEF ToTlv, WriteNumber, NUMBERS
  <2> HIDE DEF v
  <2>3. Reverse(v) \in Seq(BYTE)
    BY <2>1, ReverseIs
  <2> QED
    BY <2>1, <2>2, <2>3, ConcatTyped
<1>2. CASE op.kind = "String"
  <2> DEFINE v == Default(value, <<>>)
             len == Reverse(LengthBytes(v))
  <2>1. v \in Seq(BYTE) /\ Brief(v) /\ TagBytes(op) \in Seq(BYTE)
    BY <1>0, <1>2, SourceIs, TagBytesAre
  <2>2. ToTlv(op, value) = (TagBytes(op) \o len) \o v
    BY <1>2 DEF ToTlv, WriteString, NUMBERS
  <2> HIDE DEF v
  <2>3. len \in Seq(BYTE)
    BY <2>1, LengthBytesAre, ReverseIs
  <2> HIDE DEF len
  <2>4. TagBytes(op) \o len \in Seq(BYTE)
    BY <2>1, <2>3, ConcatTyped
  <2> QED
    BY <2>1, <2>2, <2>4, ConcatTyped
<1>3. CASE op.kind = "BufF"
  <2> DEFINE v == Default(value, <<>>)
             n == op.n
  <2>1. v \in Seq(BYTE) /\ n \in Nat /\ FOURCC[op.field] \in Seq(BYTE)
    BY <1>0, <1>3, SourceIs, KindOf, FourccBytes
  <2>2. ToTlv(op, value) = FOURCC[op.field] \o Fitted(v, n)
    BY <1>3 DEF ToTlv, WriteBuf, NUMBERS
  <2> HIDE DEF v, n
  <2>3. Fitted(v, n) \in Seq(BYTE)
    BY <2>1, FittedIs
  <2> QED
    BY <2>1, <2>2, <2>3, ConcatTyped
<1>4. CASE op.kind \in {"SubObj", "ObjList"}
  BY <1>4 DEF ToTlv, NUMBERS
<1> QED
  BY <1>0, <1>1, <1>2, <1>3, <1>4, KindOf DEF NUMBERS

LEMMA PackedTyped ==
  ASSUME NEW op, IsOp(op), NEW value, Fits(op, value), NEW version
  PROVE  ToPacked(op, value, version) \in Seq(BYTE)
<1> DEFINE whole == Gate([op EXCEPT !.above = 4], AsNumber(version))
<1>0. IsRead(op) /\ op.kind # "BaseInit" /\ <<>> \in Seq(BYTE)
  BY DEF IsRead, IsOp
<1>1. CASE op.kind \in NUMBERS
  <2>1. ToPacked(op, value, version) = Default(value, Zeros(op.n))
    BY <1>1 DEF ToPacked, NUMBERS
  <2> QED
    BY <1>0, <1>1, <2>1, SourceIs
<1>2. CASE op.kind = "String"
  <2> DEFINE v == Default(value, <<>>)
  <2>1. v \in Seq(BYTE) /\ Brief(v)
    BY <1>0, <1>2, SourceIs
  <2>2. ToPacked(op, value, version) = LengthBytes(v) \o v
    BY <1>2 DEF ToPacked, NUMBERS
  <2> HIDE DEF v
  <2>3. LengthBytes(v) \in Seq(BYTE)
    BY <2>1, LengthBytesAre
  <2> QED
    BY <2>1, <2>2, <2>3, ConcatTyped
<1>3. CASE op.kind = "BufF"
  <2> DEFINE v == Default(value, <<>>)
             n == op.n
  <2>1. v \in Seq(BYTE) /\ n \in Nat
    BY <1>0, <1>3, SourceIs, KindOf
  <2>2. ToPacked(op, value, version) = BitReversed(Fitted(v, n))
    BY <1>3 DEF ToPacked, NUMBERS
  <2> HIDE DEF v, n
  <2>3. Fitted(v, n) \in Seq(BYTE)
    BY <2>1, FittedIs
  <2> QED
    BY <2>2, <2>3, BitReversedIs
<1>4. CASE op.kind = "SubObj" /\ value = None
  <2>1. ToPacked(op, value, version) = FOURCC.NULL
    BY <1>4 DEF ToPacked, NUMBERS
  <2> QED
    BY <2>1, FourccBytes
<1>5. CASE op.kind = "SubObj" /\ value # None
  <2> DEFINE ext == IF whole THEN value[2] ELSE <<>>
  <2>1. value[1] \in Seq(BYTE) /\ value[2] \in Seq(BYTE) /\ value[3] \in Seq(BYTE)
    BY <1>0, <1>5, SourceIs, DwordSeq
  <2>2. ToPacked(op, value, version) = (value[1] \o ext) \o value[3]
    BY <1>5 DEF ToPacked, NUMBERS
  <2>3. ext \in Seq(BYTE)
    BY <1>0, <2>1
  <2> HIDE DEF ext
  <2>4. value[1] \o ext \in Seq(BYTE)
    BY <2>1, <2>3, ConcatTyped
  <2> QED
    BY <2>1, <2>2, <2>4, ConcatTyped
<1>6. CASE op.kind = "ObjList"
  <2> DEFINE ext == IF whole THEN value[3] ELSE <<>>
  <2>1. value[1] \in Seq(BYTE) /\ value[2] \in Seq(BYTE) /\ value[3] \in Seq(BYTE)
        /\ value[4] \in Seq(BYTE)
    BY <1>0, <1>6, SourceIs, DwordSeq
  <2>2. ToPacked(op, value, version) = ((value[1] \o value[2]) \o ext) \o value[4]
    BY <1>6 DEF ToPacked, NUMBERS
  <2>3. ext \in Seq(BYTE)
    BY <1>0, <2>1
  <2> HIDE DEF ext
  <2>4. value[1] \o value[2] \in Seq(BYTE)
    BY <2>1, ConcatTyped
  <2>5. (value[1] \o value[2]) \o ext \in Seq(BYTE)
    BY <2>3, <2>4, ConcatTyped
  <2> QED
    BY <2>1, <2>2, <2>5, ConcatTyped
<1> QED
  BY <1>0, <1>1, <1>2, <1>3, <1>4, <1>5, <1>6, KindOf DEF NUMBERS

LEMMA ChunkTyped ==
  ASSUME NEW w, NEW op, IsRead(op), NEW value, Fits(op, value), NEW version \in DWORD
  PROVE  ChunkOf(w, op, value, version) \in Seq(BYTE)
<1>1. CASE op.kind = "BaseInit"
  <2>1. ChunkOf(w, op, value, version) = BaseChunk(w, value, version)
    BY <1>1 DEF ChunkOf
  <2>2. Default(value, <<>>) \in Seq(BYTE)
    BY <1>1, SourceIs
  <2> QED
    BY <2>1, <2>2, BaseChunkTyped
<1>2. CASE op.kind # "BaseInit"
  <2>1. IsOp(op)
    BY <1>2, KindOf DEF IsRead
  <2>2. ToTlv(op, value) \in Seq(BYTE) /\ ToPacked(op, value, version) \in Seq(BYTE)
    BY <2>1, TlvTyped, PackedTyped
  <2>3. <<>> \in Seq(BYTE)
    OBVIOUS
  <2> QED
    BY <1>2, <2>2, <2>3 DEF ChunkOf
<1> QED
  BY <1>1, <1>2

-----------------------------------------------------------------------------
(* The record that is written, cut and read: every state's shape.          *)
Writer == [bytes : Seq(BYTE), version : {0} \cup DWORD]
FirstVersion == <<0, 0, 0, 1>>
Version == Default(vers, FirstVersion)
Chunk(i) == ChunkOf(wire, Ops(class)[i], Source(i), Version)

Shape ==
  /\ phase \in {"write", "read", "done"} /\ class \in DOMAIN Specs /\ wire \in {"tlv", "packed"}
  /\ fill \in Fills /\ vers \in {None} \cup DWORD
  /\ at \in Nat /\ 1 <= at /\ at <= Len(Ops(class)) + 1
  /\ writer \in Writer
  /\ writer.version = IF phase = "write" /\ at = 1 THEN 0 ELSE Version
  /\ reader = [ser |-> reader.ser, out |-> reader.out]
  /\ Sound(reader.ser) /\ reader.ser.wire = wire
  /\ phase = "write" => reader.out = <<>>
InTheFile ==
  phase # "write" =>
    /\ Marks(reader.ser) /\ reader.ser.abs_off = Len(Lead) + 8
    /\ Len(reader.ser.usage) = reader.ser.abs_off + (Len(reader.ser.data) + 2)

LEMMA OpsAre ==
  ASSUME NEW c \in DOMAIN Specs
  PROVE  /\ Ops(c) \in Seq(ToSet(Ops(c))) /\ Len(Ops(c)) \in Nat /\ Len(Ops(c)) >= 1
         /\ DOMAIN Ops(c) = 1 .. Len(Ops(c))
         /\ Ops(c)[1] = BaseInit
         /\ \A i \in 1 .. Len(Ops(c)) :
              /\ IsRead(Ops(c)[i]) /\ (i # 1 => IsOp(Ops(c)[i]))
              /\ Ops(c)[i].kind = "BaseInit" <=> i = 1
              /\ \A f \in Fills : Fits(Ops(c)[i], ValueOf(f, Ops(c)[i], i))
<1> DEFINE ops == Ops(c)
<1>1. /\ ops \in Seq(ToSet(ops)) /\ ops # <<>> /\ ops[1] = BaseInit
      /\ \A i \in DOMAIN ops \ {1} : IsOp(ops[i])
      /\ \A f \in Fills, i \in DOMAIN ops : Fits(ops[i], ValueOf(f, ops[i], i))
  BY SpecsAssumption DEF Ops
<1> HIDE DEF ops
<1>2. Len(ops) \in Nat /\ DOMAIN ops = 1 .. Len(ops) /\ Len(ops) >= 1
  BY <1>1, LenProperties, EmptySeq
<1>3. \A i \in 1 .. Len(ops) : IsRead(ops[i]) /\ (i # 1 => IsOp(ops[i]))
  BY <1>1, <1>2 DEF IsRead
<1>4. \A i \in 1 .. Len(ops) : ops[i].kind = "BaseInit" <=> i = 1
  <2> TAKE i \in 1 .. Len(ops)
  <2>1. CASE i = 1
    BY <1>1, <2>1 DEF BaseInit, Op
  <2>2. CASE i # 1
    <3>1. IsOp(ops[i])
      BY <1>3, <2>2
    <3> QED
      BY <2>2, <3>1 DEF IsOp
  <2> QED
    BY <2>1, <2>2
<1> QED
  BY <1>1, <1>2, <1>3, <1>4 DEF ops

LEMMA VersionIs ==
  ASSUME vers \in {None} \cup DWORD
  PROVE  Version \in DWORD /\ AsNumber(Version) \in Nat
<1>1. FirstVersion \in DWORD
  BY DEF FirstVersion, DWORD, BYTE
<1>2. Version \in DWORD
  BY <1>1 DEF Version, Default
<1> QED
  BY <1>2, DwordSeq, AsNumberIs

LEMMA WrittenIs ==
  ASSUME NEW w \in Writer, vers \in {None} \cup DWORD, NEW op, IsRead(op), NEW value,
         Fits(op, value), w.version = IF op.kind = "BaseInit" THEN 0 ELSE Version
  PROVE  LET next == Written(w, op, value)
             chunk == ChunkOf(wire, op, value, Version) IN
         /\ chunk \in Seq(BYTE) /\ next \in Writer /\ next.version = Version
         /\ next.bytes = w.bytes \o chunk
<1> DEFINE next == Written(w, op, value)
           chunk == ChunkOf(wire, op, value, Version)
           base == BaseChunk(wire, value, Version)
           tlv == ToTlv(op, value)
           packed == ToPacked(op, value, Version)
<1>1. Version \in DWORD
  BY VersionIs
<1>2. chunk \in Seq(BYTE)
  BY <1>1, ChunkTyped
<1>3. w.bytes \in Seq(BYTE)
  BY DEF Writer
<1>4. w.bytes \o chunk \in Seq(BYTE)
  BY <1>2, <1>3, ConcatTyped
<1>5. CASE op.kind = "BaseInit"
  <2>1. WrittenVersion(w) = Version
    BY <1>5 DEF WrittenVersion, Version, FirstVersion
  <2>2. next = WriteBase(w, value)
    BY <1>5 DEF Written
  <2>3. WriteBase(w, value) = [bytes |-> w.bytes \o base, version |-> Version]
    BY <2>1 DEF WriteBase, BaseChunk
  <2>4. chunk = base
    BY <1>5 DEF ChunkOf
  <2> HIDE DEF next, chunk, base
  <2>5. next = [bytes |-> w.bytes \o chunk, version |-> Version]
    BY <2>2, <2>3, <2>4
  <2> QED
    BY <1>1, <1>2, <1>4, <2>5 DEF Writer, next, chunk
<1>6. CASE op.kind # "BaseInit" /\ ~Gate(op, AsNumber(Version))
  <2>1. next = w
    BY <1>6 DEF Written
  <2>2. chunk = <<>>
    BY <1>6 DEF ChunkOf
  <2>3. w.bytes \o <<>> = w.bytes
    BY <1>3, ConcatEmptySeq
  <2> QED
    BY <1>2, <1>6, <2>1, <2>2, <2>3
<1>7. CASE op.kind # "BaseInit" /\ Gate(op, AsNumber(Version))
  <2>1. next = [w EXCEPT !.bytes = w.bytes \o chunk]
    <3>1. next = [w EXCEPT !.bytes = w.bytes \o IF wire = "tlv" THEN tlv ELSE packed]
      BY <1>7 DEF Written
    <3>2. chunk = IF wire = "tlv" THEN tlv ELSE packed
      BY <1>7 DEF ChunkOf
    <3> HIDE DEF next, chunk, tlv, packed
    <3> QED
      BY <3>1, <3>2
  <2> HIDE DEF next, chunk
  <2>2. next \in Writer /\ next.version = w.version /\ next.bytes = w.bytes \o chunk
    BY <1>4, <2>1 DEF Writer
  <2> QED
    BY <1>2, <1>7, <2>2 DEF next, chunk
<1> QED
  BY <1>5, <1>6, <1>7

LEMMA ReadStepFollows ==
  ASSUME NEW state, state = [ser |-> state.ser, out |-> state.out], Sound(state.ser),
         NEW op, IsRead(op)
  PROVE  LET next == ReadStep(state, op) IN
         next = [ser |-> next.ser, out |-> next.out] /\ Follows(state.ser, next.ser)
<1> DEFINE got == ReadField(state.ser, op)
           next == ReadStep(state, op)
<1>1. CASE state.ser.error \/ ~Gate(op, state.ser.version)
  <2>1. next = state
    BY <1>1 DEF ReadStep
  <2> QED
    BY <2>1, FollowsSame
<1>2. CASE ~(state.ser.error \/ ~Gate(op, state.ser.version))
  <2>1. next = [ser |-> got.ser, out |-> Append(state.out, [op |-> op, value |-> got.value])]
    BY <1>2 DEF ReadStep
  <2>2. Follows(state.ser, got.ser)
    BY ReadFieldFollows
  <2> HIDE DEF got, next
  <2> QED
    BY <2>1, <2>2 DEF next
<1> QED
  BY <1>1, <1>2

LEMMA ReaderIs ==
  ASSUME NEW w \in {"tlv", "packed"}, NEW data \in Seq(BYTE), NEW abs_off \in Nat, NEW size \in Nat
  PROVE  LET ser == Reader(w, data, abs_off, size) IN
         /\ Sound(ser) /\ ser.wire = w /\ ser.data = data /\ ser.cursor = 0
         /\ ser.abs_off = abs_off /\ ~ser.error /\ ser.version = 0 /\ Len(ser.usage) = size
         /\ abs_off + Len(data) <= size => Marks(ser)
<1> DEFINE usage == [i \in 1 .. size |-> "UNKNOWN"]
           ser == Reader(w, data, abs_off, size)
<1>1. usage \in Seq(CODE) /\ Len(usage) = size /\ DOMAIN usage = 1 .. size
  <2>1. usage \in [1 .. size -> CODE]
    BY DEF CODE
  <2> HIDE DEF usage
  <2> QED
    BY <2>1, MadeSeq
<1>2. \A i \in DOMAIN usage : usage[i] = "UNKNOWN"
  OBVIOUS
<1> HIDE DEF usage
<1>3. ser = [wire |-> w, data |-> data, cursor |-> 0, abs_off |-> abs_off, error |-> FALSE,
             version |-> 0, usage |-> usage]
  BY DEF Reader, usage
<1> HIDE DEF ser
<1>4. Len(data) \in Nat
  BY LenProperties
<1>5. Sound(ser)
  BY <1>1, <1>3, <1>4 DEF Sound, Serializer
<1>6. Known(ser) = {} /\ Told(ser) = {}
  BY <1>1, <1>2, <1>3 DEF Known, Told
<1>7. abs_off + Len(data) <= size => Marks(ser)
  <2>1. ser.abs_off = abs_off /\ ser.data = data /\ ser.usage = usage
    BY <1>3
  <2> QED
    BY <1>1, <1>6, <2>1 DEF Marks
<1>8. /\ ser.wire = w /\ ser.data = data /\ ser.cursor = 0 /\ ser.abs_off = abs_off
      /\ ~ser.error /\ ser.version = 0 /\ Len(ser.usage) = size
  BY <1>1, <1>3
<1> QED
  BY <1>5, <1>7, <1>8 DEF ser

LEMMA ShapeInit == Init => Shape /\ InTheFile
<1> SUFFICES ASSUME Init  PROVE Shape /\ InTheFile
  OBVIOUS
<1> USE DEF Init
<1>1. class \in DOMAIN Specs /\ wire \in {"tlv", "packed"} /\ fill \in Fills
      /\ vers \in {None} \cup DWORD /\ phase = "write"
  BY VersionsAssumption
<1>2. at = 1 /\ 1 <= Len(Ops(class)) + 1 /\ 1 \in Nat
  BY <1>1, OpsAre
<1>3. writer \in Writer /\ writer.version = 0
  BY DEF Writer
<1> DEFINE none == <<>>
           zero == 0
<1>4. none \in Seq(BYTE) /\ zero \in Nat
  OBVIOUS
<1>5. reader = [ser |-> Reader(wire, none, zero, zero), out |-> <<>>]
  OBVIOUS
<1> HIDE DEF none, zero
<1>6. Sound(Reader(wire, none, zero, zero)) /\ Reader(wire, none, zero, zero).wire = wire
  BY <1>1, <1>4, ReaderIs
<1> QED
  BY <1>1, <1>2, <1>3, <1>5, <1>6 DEF Shape, InTheFile

LEMMA WriteStep ==
  ASSUME Shape, WriteOp
  PROVE  Shape' /\ writer'.bytes = writer.bytes \o Chunk(at) /\ Chunk(at) \in Seq(BYTE)
<1> DEFINE op == Ops(class)[at]
           value == Source(at)
           next == Written(writer, op, value)
<1>1. class \in DOMAIN Specs /\ fill \in Fills /\ vers \in {None} \cup DWORD /\ writer \in Writer
      /\ at \in Nat /\ 1 <= at /\ at <= Len(Ops(class)) /\ phase = "write"
      /\ Len(Ops(class)) \in Nat
  BY OpsAre DEF Shape, WriteOp
<1>2. at \in 1 .. Len(Ops(class))
  BY <1>1
<1>3. IsRead(op) /\ (op.kind = "BaseInit" <=> at = 1)
  BY <1>1, <1>2, OpsAre
<1>4. Fits(op, value)
  BY <1>1, <1>2, OpsAre DEF Source
<1>5. writer.version = IF op.kind = "BaseInit" THEN 0 ELSE Version
  BY <1>1, <1>3 DEF Shape
<1> HIDE DEF op, value
<1>6. /\ ChunkOf(wire, op, value, Version) \in Seq(BYTE) /\ next \in Writer
      /\ next.version = Version
      /\ next.bytes = writer.bytes \o ChunkOf(wire, op, value, Version)
  BY <1>1, <1>3, <1>4, <1>5, WrittenIs
<1>7. Chunk(at) = ChunkOf(wire, op, value, Version)
  BY DEF Chunk, op, value
<1>8. writer' = next /\ at' = at + 1 /\ UNCHANGED <<phase, class, wire, fill, vers, reader>>
  BY DEF WriteOp, record, op, value
<1> HIDE DEF next
<1>9. at' \in Nat /\ 1 <= at' /\ at' <= Len(Ops(class)) + 1 /\ at' # 1
  BY <1>1, <1>8
<1>10. Version' = Version /\ Ops(class)' = Ops(class)
  BY <1>8 DEF Version, Default, Ops
<1>11. Shape'
  BY <1>6, <1>8, <1>9, <1>10 DEF Shape
<1> QED
  BY <1>6, <1>7, <1>8, <1>11

LEMMA CutStep ==
  ASSUME Shape, Cut
  PROVE  /\ Shape' /\ InTheFile'
         /\ ~reader'.ser.error /\ reader'.ser.cursor = 0 /\ reader'.ser.version = 0
         /\ reader'.out = <<>>
         /\ LET data == reader'.ser.data IN
            Len(data) <= Len(writer.bytes) /\ \A k \in 1 .. Len(data) : data[k] = writer.bytes[k]
<1> DEFINE bytes == writer.bytes
<1>1. bytes \in Seq(BYTE) /\ Len(bytes) \in Nat
  BY LenProperties DEF Shape, Writer
<1>2. PICK n \in 0 .. Len(bytes) :
        reader' = [reader EXCEPT !.ser =
                     Reader(wire, FirstOf(bytes, n), Len(Lead) + 8, Len(Lead) + 10 + n)]
  BY DEF Cut
<1> DEFINE data == FirstOf(bytes, n)
           off == Len(Lead) + 8
           size == Len(Lead) + 10 + n
<1>3. n \in Nat /\ n <= Len(bytes)
  BY <1>1
<1> HIDE DEF bytes
<1>4. data \in Seq(BYTE) /\ Len(data) = n /\ \A k \in 1 .. n : data[k] = bytes[k]
  BY <1>1, <1>3, FirstOfIs
<1>5. Len(Lead) \in Nat
  BY BytesAssumption, LenProperties
<1>6. off \in Nat /\ size \in Nat /\ off + n <= size /\ size = off + (n + 2)
  BY <1>3, <1>5
<1>7. wire \in {"tlv", "packed"} /\ reader = [ser |-> reader.ser, out |-> reader.out]
      /\ reader.out = <<>>
  BY DEF Shape, Cut
<1> HIDE DEF off, size, data
<1> DEFINE ser == Reader(wire, data, off, size)
<1>8. /\ Sound(ser) /\ ser.wire = wire /\ ser.data = data /\ ser.cursor = 0
      /\ ser.abs_off = off /\ ~ser.error /\ ser.version = 0 /\ Len(ser.usage) = size
      /\ Marks(ser)
  BY <1>4, <1>6, <1>7, ReaderIs
<1>9. reader' = [reader EXCEPT !.ser = ser]
  BY <1>2 DEF data, off, size, bytes
<1> HIDE DEF ser
<1>10. reader' = [ser |-> ser, out |-> <<>>]
  BY <1>7, <1>9
<1>11. reader'.ser = ser /\ reader'.out = <<>> /\ reader' = [ser |-> reader'.ser, out |-> reader'.out]
  BY <1>10
<1>12. phase' = "read" /\ at' = 1 /\ UNCHANGED <<class, wire, fill, vers, writer>>
  BY DEF Cut, record
<1>13. 1 <= Len(Ops(class)) + 1
  BY OpsAre DEF Shape
<1>14. writer.version = Version
  <2>1. at # 1
    BY OpsAre DEF Shape, Cut
  <2> QED
    BY <2>1 DEF Shape
<1>15. Version' = Version /\ Ops(class)' = Ops(class)
  BY <1>12 DEF Version, Default, Ops
<1>16. Shape'
  BY <1>8, <1>11, <1>12, <1>13, <1>14, <1>15 DEF Shape
<1>17. InTheFile'
  <2>1. off = Len(Lead) + 8 /\ size = off + (Len(data) + 2)
    BY <1>4, <1>6 DEF off
  <2> QED
    BY <1>8, <1>11, <2>1 DEF InTheFile
<1> QED
  BY <1>4, <1>3, <1>8, <1>11, <1>12, <1>16, <1>17 DEF bytes

LEMMA ReadShape ==
  ASSUME Shape, InTheFile, ReadOp
  PROVE  Shape' /\ InTheFile' /\ Follows(reader.ser, reader'.ser)
<1> DEFINE op == Ops(class)[at]
           next == ReadStep(reader, op)
<1>1. class \in DOMAIN Specs /\ at \in Nat /\ 1 <= at /\ at <= Len(Ops(class))
      /\ Len(Ops(class)) \in Nat /\ phase = "read"
  BY OpsAre DEF Shape, ReadOp
<1>2. IsRead(op)
  <2>1. at \in 1 .. Len(Ops(class))
    BY <1>1
  <2> QED
    BY <1>1, <2>1, OpsAre
<1>3. reader' = next /\ at' = at + 1 /\ UNCHANGED <<phase, class, wire, fill, vers, writer>>
  BY DEF ReadOp, record
<1>4. reader = [ser |-> reader.ser, out |-> reader.out] /\ Sound(reader.ser)
      /\ reader.ser.wire = wire
  BY DEF Shape
<1> HIDE DEF op
<1>5. next = [ser |-> next.ser, out |-> next.out] /\ Follows(reader.ser, next.ser)
  BY <1>2, <1>4, ReadStepFollows
<1> HIDE DEF next
<1>6. Version' = Version /\ Ops(class)' = Ops(class)
  BY <1>3 DEF Version, Default, Ops
<1>7. at' \in Nat /\ 1 <= at' /\ at' <= Len(Ops(class)) + 1
  BY <1>1, <1>3
<1>8. Sound(next.ser) /\ next.ser.wire = wire
  BY <1>4, <1>5 DEF Follows
<1>9. Shape'
  BY <1>1, <1>3, <1>5, <1>6, <1>7, <1>8 DEF Shape
<1>10. InTheFile'
  BY <1>1, <1>3, <1>5 DEF InTheFile, Follows
<1> QED
  BY <1>3, <1>5, <1>9, <1>10

LEMMA FinishShape ==
  ASSUME Shape, InTheFile, Finish
  PROVE  Shape' /\ InTheFile'
<1>1. phase = "read" /\ phase' = "done" /\ UNCHANGED <<class, wire, fill, vers, at, writer, reader>>
  BY DEF Finish, record
<1>2. Version' = Version /\ Ops(class)' = Ops(class)
  BY <1>1 DEF Version, Default, Ops
<1>3. Shape'
  BY <1>1, <1>2 DEF Shape
<1>4. InTheFile'
  BY <1>1 DEF InTheFile, Marks, Known, Told
<1> QED
  BY <1>3, <1>4

LEMMA ShapeStep == Shape /\ InTheFile /\ [Next]_vars => Shape' /\ InTheFile'
<1> SUFFICES ASSUME Shape, InTheFile, [Next]_vars  PROVE Shape' /\ InTheFile'
  OBVIOUS
<1>1. CASE WriteOp
  <2>1. Shape' /\ phase' = "write"
    BY <1>1, WriteStep DEF WriteOp
  <2> QED
    BY <2>1 DEF InTheFile
<1>2. CASE Cut
  BY <1>2, CutStep
<1>3. CASE ReadOp
  BY <1>3, ReadShape
<1>4. CASE Finish
  BY <1>4, FinishShape
<1>5. CASE UNCHANGED vars
  <2>1. UNCHANGED <<phase, class, wire, fill, vers, at, writer, reader>>
    BY <1>5 DEF vars
  <2>2. Version' = Version /\ Ops(class)' = Ops(class)
    BY <2>1 DEF Version, Default, Ops
  <2>3. Shape'
    BY <2>1, <2>2 DEF Shape
  <2> QED
    BY <2>1, <2>3 DEF InTheFile, Marks, Known, Told
<1> QED
  BY <1>1, <1>2, <1>3, <1>4, <1>5 DEF Next

(* What a map whose known bytes are an interval tells.                     *)
LEMMA MapOfInterval ==
  ASSUME NEW map \in Seq(CODE), NEW a \in Nat, NEW c \in Nat, a > 0, a + c < Len(map),
         {i \in DOMAIN map : map[i] # "UNKNOWN"} = a + 1 .. a + c
  PROVE  /\ ConsumedCount(map) = c
         /\ UnknownRanges(map) =
              IF c = 0 THEN {[abs_off |-> 0, length |-> Len(map)]}
              ELSE {[abs_off |-> 0, length |-> a],
                    [abs_off |-> a + c, length |-> Len(map) - (a + c)]}
<1> DEFINE n == Len(map)
           e == a + c
           known == a + 1 .. e
           unknown(i) == i \in DOMAIN map /\ map[i] = "UNKNOWN"
           blank == {i \in DOMAIN map : map[i] = "UNKNOWN"}
           ends(i) == {k \in i .. n + 1 : ~unknown(k)}
           starts == {i \in DOMAIN map : unknown(i) /\ ~unknown(i - 1)}
<1>1. n \in Nat /\ DOMAIN map = 1 .. n /\ e \in Nat /\ e < n /\ a <= e /\ (e = a <=> c = 0)
  BY LenProperties
<1>2. \A i \in Int : unknown(i) <=> i \in 1 .. n /\ i \notin known
  BY <1>1
<1>3. \A i \in Int : unknown(i) <=> (1 <= i /\ i <= a) \/ (e + 1 <= i /\ i <= n)
  BY <1>1, <1>2
<1>4. ConsumedCount(map) = c
  <2>1. blank = (1 .. n) \ known
    BY <1>1
  <2>2. known \subseteq 1 .. n /\ (1 .. n) \cap known = known
    BY <1>1
  <2> DEFINE one == 1
             next == a + 1
  <2>3. one \in Int /\ n \in Int /\ next \in Int /\ e \in Int
    BY <1>1
  <2> HIDE DEF one, next, n, e
  <2>4. /\ IsFiniteSet(one .. n) /\ Cardinality(one .. n) = IF one > n THEN 0 ELSE n - one + 1
        /\ Cardinality(next .. e) = IF next > e THEN 0 ELSE e - next + 1
    BY <2>3, FS_Interval
  <2>5. Cardinality((1 .. n) \ known) = Cardinality(1 .. n) - Cardinality((1 .. n) \cap known)
    BY <2>4, FS_Difference DEF one
  <2>6. Cardinality(1 .. n) = n /\ Cardinality(known) = c
    BY <1>1, <2>3, <2>4 DEF one, next, e
  <2>7. Cardinality(blank) = n - c
    BY <2>1, <2>2, <2>5, <2>6
  <2>8. ConsumedCount(map) = n - Cardinality(blank)
    BY DEF ConsumedCount, n
  <2> QED
    BY <1>1, <2>7, <2>8
<1>5. UnknownRanges(map) = {[abs_off |-> i - 1, length |-> Min(ends(i)) - i] : i \in starts}
  BY DEF UnknownRanges
<1>6. starts \subseteq Int
  BY <1>1
<1>7. CASE c = 0
  <2>1. \A i \in Int : unknown(i) <=> 1 <= i /\ i <= n
    BY <1>1, <1>3, <1>7
  <2>2. starts = {1}
    BY <1>1, <1>6, <2>1
  <2>3. ends(1) = {n + 1}
    BY <1>1, <2>1
  <2>4. Min(ends(1)) = n + 1
    <3>1. n + 1 \in Int
      BY <1>1
    <3> DEFINE top == n + 1
               S == {top}
    <3>2. S \in SUBSET Int /\ top \in S /\ \A i \in S : top <= i
      BY <3>1
    <3> HIDE DEF top, S
    <3>3. Min(S) = top
      BY <3>2, MinIs
    <3> QED
      BY <2>3, <3>3 DEF S, top
  <2> HIDE DEF starts, ends
  <2>5. UnknownRanges(map) = {[abs_off |-> 1 - 1, length |-> (n + 1) - 1]}
    BY <1>5, <2>2, <2>4
  <2>6. 1 - 1 = 0 /\ (n + 1) - 1 = n
    BY <1>1
  <2> QED
    BY <1>4, <1>7, <2>5, <2>6
<1>8. CASE c # 0
  <2>1. starts = {1, e + 1}
    BY <1>1, <1>3, <1>6, <1>8, SMTT(30)
  <2>2. Min(ends(1)) = a + 1
    <3> DEFINE S == ends(1)
               m == a + 1
    <3>1. S \in SUBSET Int /\ m \in S
      BY <1>1, <1>3, <1>8
    <3>2. \A i \in S : m <= i
      BY <1>1, <1>3
    <3> HIDE DEF S, m
    <3>3. Min(S) = m
      BY <3>1, <3>2, MinIs
    <3> QED
      BY <3>3 DEF S, m
  <2>3. Min(ends(e + 1)) = n + 1
    <3> DEFINE S == ends(e + 1)
               m == n + 1
    <3>1. S \in SUBSET Int /\ m \in S
      BY <1>1, <1>3
    <3>2. \A i \in S : m <= i
      BY <1>1, <1>3
    <3> HIDE DEF S, m
    <3>3. Min(S) = m
      BY <3>1, <3>2, MinIs
    <3> QED
      BY <3>3 DEF S, m
  <2> HIDE DEF starts, ends
  <2>4. UnknownRanges(map) = {[abs_off |-> 1 - 1, length |-> (a + 1) - 1],
                              [abs_off |-> (e + 1) - 1, length |-> (n + 1) - (e + 1)]}
    BY <1>5, <2>1, <2>2, <2>3
  <2>5. 1 - 1 = 0 /\ (a + 1) - 1 = a /\ (e + 1) - 1 = e /\ (n + 1) - (e + 1) = n - e
    BY <1>1
  <2> HIDE DEF n, e
  <2>6. UnknownRanges(map) = {[abs_off |-> 0, length |-> a], [abs_off |-> e, length |-> n - e]}
    BY <2>4, <2>5
  <2> QED
    BY <1>4, <1>8, <2>6 DEF n, e
<1> QED
  BY <1>7, <1>8

LEMMA UsageTold == Shape /\ InTheFile => UsageIsWhatWasRead
<1> DEFINE ser == reader.ser
           a == ser.abs_off
           c == ser.cursor
           map == ser.usage
           range(x, y) == IF x < y THEN {[abs_off |-> x, length |-> y - x]} ELSE {}
<1> SUFFICES ASSUME Shape, InTheFile, Done
             PROVE  /\ ~ser.error =>
                         /\ ConsumedCount(map) = c
                         /\ UnknownRanges(map) =
                              IF c = 0 THEN range(0, Len(map))
                              ELSE range(0, a) \cup range(a + c, Len(map))
                    /\ ser.error =>
                         \A i \in DOMAIN map : map[i] # "UNKNOWN" => i \in a + 1 .. a + c
  BY DEF UsageIsWhatWasRead
<1>1. /\ Sound(ser) /\ Marks(ser) /\ a = Len(Lead) + 8 /\ Len(map) = a + (Len(ser.data) + 2)
  BY DEF Shape, InTheFile, Done
<1>2. /\ a \in Nat /\ c \in Nat /\ Len(ser.data) \in Nat /\ c <= Len(ser.data) /\ Len(map) \in Nat
      /\ map \in Seq(CODE)
  BY <1>1, SoundFields
<1>3. Len(Lead) \in Nat
  BY BytesAssumption, LenProperties
<1>4. a > 0 /\ a + c < Len(map)
  <2> DEFINE n == Len(ser.data)
             m == Len(map)
  <2>1. a = Len(Lead) + 8 /\ m = a + (n + 2) /\ c <= n
    BY <1>1, <1>2
  <2>2. Len(Lead) \in Nat /\ n \in Nat /\ c \in Nat
    BY <1>2, <1>3
  <2> HIDE DEF a, c, n, m
  <2>3. a > 0 /\ a + c < m
    BY <2>1, <2>2
  <2> QED
    BY <2>3 DEF m
<1>5. ASSUME ~ser.error
      PROVE  /\ ConsumedCount(map) = c
             /\ UnknownRanges(map) = IF c = 0 THEN range(0, Len(map))
                                     ELSE range(0, a) \cup range(a + c, Len(map))
  <2>1. {i \in DOMAIN map : map[i] # "UNKNOWN"} = a + 1 .. a + c
    BY <1>1, <1>5 DEF Marks, Known, Told
  <2> HIDE DEF a, c, map
  <2>2. /\ ConsumedCount(map) = c
        /\ UnknownRanges(map) =
             IF c = 0 THEN {[abs_off |-> 0, length |-> Len(map)]}
             ELSE {[abs_off |-> 0, length |-> a],
                   [abs_off |-> a + c, length |-> Len(map) - (a + c)]}
    BY <1>2, <1>4, <2>1, MapOfInterval
  <2>3. /\ 0 < Len(map) /\ 0 < a /\ a + c < Len(map) /\ Len(map) - 0 = Len(map) /\ a - 0 = a
    BY <1>2, <1>4
  <2> QED
    BY <2>2, <2>3
<1>6. \A i \in DOMAIN map : map[i] # "UNKNOWN" => i \in a + 1 .. a + c
  BY <1>1 DEF Marks, Known, Told
<1> QED
  BY <1>5, <1>6

(* However a record is cut, the usage map names the bytes the reader took  *)
(* and no other: the count of consumed bytes is the cursor after a clean   *)
(* read, what is unknown is what stands around the record, and a failed    *)
(* read has marked nothing it did not pass (HDBSerializer._mark,           *)
(* ByteUsageMap.mark, iter_unknown_ranges).                                *)
THEOREM UsageMapsTellWhatWasRead == Spec => []UsageIsWhatWasRead
<1> QED
  BY ShapeInit, ShapeStep, UsageTold, PTL DEF Spec

-----------------------------------------------------------------------------
(* What a read takes from bytes that were written. The file may end within *)
(* them.                                                                   *)
Stands(s, chunk) ==
  \A j \in 1 .. Len(chunk) :
    s.cursor + j <= Len(s.data) => s.data[s.cursor + j] = chunk[j]
Takes(s, got, chunk, value) ==
  /\ Ensure(s, Len(chunk)) => ~got.ser.error
  /\ ~got.ser.error => got.ser.cursor = s.cursor + Len(chunk) /\ got.value = value

LEMMA ConcatIs ==
  ASSUME NEW a \in Seq(BYTE), NEW b \in Seq(BYTE)
  PROVE  /\ a \o b \in Seq(BYTE) /\ Len(a \o b) = Len(a) + Len(b)
         /\ \A j \in 1 .. Len(a) : (a \o b)[j] = a[j]
         /\ \A j \in 1 .. Len(b) : (a \o b)[Len(a) + j] = b[j]
<1>1. Len(a) \in Nat /\ Len(b) \in Nat
  BY LenProperties
<1>2. a \o b \in Seq(BYTE) /\ Len(a \o b) = Len(a) + Len(b)
  BY ConcatTyped
<1>3. \A i \in 1 .. Len(a) + Len(b) :
        (a \o b)[i] = IF i <= Len(a) THEN a[i] ELSE b[i - Len(a)]
  BY ConcatProperties
<1>4. ASSUME NEW j \in 1 .. Len(a)  PROVE (a \o b)[j] = a[j]
  <2>1. j \in 1 .. Len(a) + Len(b) /\ j <= Len(a)
    BY <1>1
  <2> QED
    BY <1>3, <2>1
<1>5. ASSUME NEW j \in 1 .. Len(b)  PROVE (a \o b)[Len(a) + j] = b[j]
  <2> DEFINE i == Len(a) + j
  <2>1. i \in 1 .. Len(a) + Len(b) /\ ~(i <= Len(a)) /\ i - Len(a) = j
    BY <1>1
  <2> HIDE DEF i
  <2>2. (a \o b)[i] = b[i - Len(a)]
    BY <1>3, <2>1
  <2> QED
    BY <2>1, <2>2 DEF i
<1> QED
  BY <1>2, <1>4, <1>5

LEMMA PieceIs ==
  ASSUME NEW s, Sound(s), NEW chunk \in Seq(BYTE), Stands(s, chunk), NEW b \in Seq(BYTE),
         NEW k \in Nat, k + Len(b) <= Len(chunk), \A j \in 1 .. Len(b) : chunk[k + j] = b[j],
         s.cursor + (k + Len(b)) <= Len(s.data)
  PROVE  At(s, k, Len(b)) = b
<1> DEFINE n == Len(b)
           x == At(s, k, n)
<1>1. n \in Nat /\ s.cursor \in Nat /\ Len(chunk) \in Nat /\ Len(s.data) \in Nat
  BY SoundFields, LenProperties
<1>2. s.cursor + (k + n) <= Len(s.data)
  OBVIOUS
<1>3. \A j \in 1 .. n : chunk[k + j] = b[j]
  OBVIOUS
<1>4. k + n <= Len(chunk)
  OBVIOUS
<1> HIDE DEF n
<1>5. x \in Seq(BYTE) /\ Len(x) = n /\ \A j \in 1 .. n : x[j] = s.data[(s.cursor + k) + j]
  BY <1>1, <1>2, AtIs, SMTT(30)
<1>6. ASSUME NEW j \in 1 .. n  PROVE x[j] = b[j]
  <2> DEFINE i == k + j
  <2>1. i \in 1 .. Len(chunk) /\ s.cursor + i <= Len(s.data) /\ (s.cursor + k) + j = s.cursor + i
    BY <1>1, <1>2, <1>4, SMTT(30)
  <2>2. chunk[i] = b[j]
    BY <1>3
  <2> HIDE DEF i
  <2>3. s.data[s.cursor + i] = chunk[i]
    BY <2>1 DEF Stands
  <2> QED
    BY <1>5, <2>1, <2>2, <2>3
<1>7. x = b
  BY <1>5, <1>6, SeqEqual DEF n
<1> QED
  BY <1>7 DEF x, n

LEMMA StandsApart ==
  ASSUME NEW s, Sound(s), NEW a \in Seq(BYTE), NEW b \in Seq(BYTE), Stands(s, a \o b)
  PROVE  /\ Stands(s, a)
         /\ \A t : t.data = s.data /\ t.cursor = s.cursor + Len(a) => Stands(t, b)
<1>1. Len(a) \in Nat /\ Len(b) \in Nat /\ s.cursor \in Nat /\ Len(s.data) \in Nat
  BY SoundFields, LenProperties
<1>2. /\ Len(a \o b) = Len(a) + Len(b)
      /\ \A j \in 1 .. Len(a) : (a \o b)[j] = a[j]
      /\ \A j \in 1 .. Len(b) : (a \o b)[Len(a) + j] = b[j]
  BY ConcatIs
<1>3. Stands(s, a)
  <2> SUFFICES ASSUME NEW j \in 1 .. Len(a), s.cursor + j <= Len(s.data)
               PROVE  s.data[s.cursor + j] = a[j]
    BY DEF Stands
  <2>1. j \in 1 .. Len(a \o b)
    BY <1>1, <1>2
  <2> QED
    BY <1>2, <2>1 DEF Stands
<1>4. ASSUME NEW t, t.data = s.data, t.cursor = s.cursor + Len(a), NEW j \in 1 .. Len(b),
             t.cursor + j <= Len(t.data)
      PROVE  t.data[t.cursor + j] = b[j]
  <2> DEFINE i == Len(a) + j
  <2>1. i \in 1 .. Len(a \o b) /\ t.cursor + j = s.cursor + i /\ s.cursor + i <= Len(s.data)
    BY <1>1, <1>2, <1>4
  <2>2. (a \o b)[i] = b[j]
    BY <1>2
  <2> HIDE DEF i
  <2>3. s.data[s.cursor + i] = (a \o b)[i]
    BY <2>1 DEF Stands
  <2> QED
    BY <1>4, <2>1, <2>2, <2>3
<1> QED
  BY <1>3, <1>4 DEF Stands

(* A tag and what is behind it.                                            *)
LEMMA FetchTakes ==
  ASSUME NEW s, Sound(s), NEW head \in Seq(BYTE), NEW tail \in Seq(BYTE),
         Stands(s, head \o tail), NEW t, Fetches(s, t, head, Len(tail))
  PROVE  /\ Ensure(s, Len(head \o tail)) => ~t.error
         /\ ~t.error => /\ t.cursor = s.cursor + Len(head \o tail)
                        /\ At(s, Len(head), Len(tail)) = tail
<1> DEFINE m == Len(head)
           n == Len(tail)
           chunk == head \o tail
<1>1. m \in Nat /\ n \in Nat /\ s.cursor \in Nat /\ Len(s.data) \in Nat
  BY SoundFields, LenProperties
<1>2. /\ chunk \in Seq(BYTE) /\ Len(chunk) = m + n
      /\ \A j \in 1 .. m : chunk[j] = head[j]
      /\ \A j \in 1 .. n : chunk[m + j] = tail[j]
  BY ConcatIs
<1>3. Stands(s, chunk)
  OBVIOUS
<1>4. /\ ~t.error <=> Ensure(s, m + n) /\ At(s, 0, m) = head
      /\ ~t.error => t.cursor = s.cursor + (m + n)
  BY DEF Fetches
<1> HIDE DEF chunk
<1>5. ASSUME s.cursor + (m + n) <= Len(s.data)
      PROVE  At(s, 0, m) = head /\ At(s, m, n) = tail
  <2>1. At(s, 0, m) = head
    <3>1. s.cursor + (0 + m) <= Len(s.data) /\ 0 + m <= Len(chunk)
      BY <1>1, <1>2, <1>5
    <3>2. \A j \in 1 .. m : chunk[0 + j] = head[j]
      BY <1>1, <1>2
    <3> DEFINE none == 0
    <3>3. none \in Nat
      OBVIOUS
    <3> HIDE DEF none
    <3>4. /\ s.cursor + (none + Len(head)) <= Len(s.data) /\ none + Len(head) <= Len(chunk)
          /\ \A j \in 1 .. Len(head) : chunk[none + j] = head[j]
      BY <3>1, <3>2 DEF none
    <3>5. At(s, none, Len(head)) = head
      BY <1>2, <1>3, <3>3, <3>4, PieceIs
    <3> QED
      BY <3>5 DEF none
  <2>2. At(s, m, n) = tail
    <3>1. m + Len(tail) <= Len(chunk) /\ s.cursor + (m + Len(tail)) <= Len(s.data)
          /\ \A j \in 1 .. Len(tail) : chunk[m + j] = tail[j]
      BY <1>1, <1>2, <1>5
    <3> HIDE DEF m
    <3> QED
      BY <1>1, <1>2, <1>3, <3>1, PieceIs
  <2> QED
    BY <2>1, <2>2
<1> HIDE DEF m, n
<1>6. Ensure(s, Len(chunk)) => ~t.error
  BY <1>2, <1>4, <1>5 DEF Ensure
<1>7. ~t.error => t.cursor = s.cursor + Len(chunk) /\ At(s, m, n) = tail
  BY <1>2, <1>4, <1>5 DEF Ensure
<1> QED
  BY <1>6, <1>7 DEF chunk, m, n

LEMMA EmptyBefore ==
  ASSUME NEW b \in Seq(BYTE)
  PROVE  <<>> \o b = b /\ <<>> \in Seq(BYTE) /\ Len(<<>>) = 0
BY ConcatEmptySeq

LEMMA OrderedTwice ==
  ASSUME NEW s, NEW v \in Seq(BYTE)
  PROVE  Ordered(s, Ordered(s, v)) = v
BY ReverseTwice DEF Ordered

LEMMA NumberTakes ==
  ASSUME NEW s, Sound(s), NEW tag \in Seq(BYTE), NEW v \in Seq(BYTE), NEW kind,
         Stands(s, IF s.wire = "tlv" THEN WriteNumber(tag, v) ELSE v)
  PROVE  /\ Takes(s, ReadNumber(s, tag, Len(v), kind),
                  IF s.wire = "tlv" THEN WriteNumber(tag, v) ELSE v, v)
         /\ ReadNumber(s, tag, Len(v), kind).ser.version = s.version
<1> DEFINE head == TagIn(s, tag)
           tail == Ordered(s, v)
           n == Len(v)
           got == ReadNumber(s, tag, n, kind)
           t == got.ser
           chunk == IF s.wire = "tlv" THEN WriteNumber(tag, v) ELSE v
<1>1. n \in Nat /\ tail \in Seq(BYTE) /\ Len(tail) = n /\ Ordered(s, tail) = v
  BY OrderedIs, OrderedTwice, LenProperties
<1>2. head \o tail = chunk
  <2>1. CASE s.wire = "tlv"
    BY <2>1 DEF TagIn, Ordered, WriteNumber
  <2>2. CASE s.wire # "tlv"
    BY <2>2, EmptyBefore DEF TagIn, Ordered
  <2> QED
    BY <2>1, <2>2
<1>3. /\ head \in Seq(BYTE) /\ Fetches(s, t, head, n)
      /\ got.value = IF t.error THEN Zeros(n) ELSE Ordered(s, At(s, Len(head), n))
  <2> HIDE DEF n
  <2> QED
    BY <1>1, ReadNumberIs DEF Ordered
<1>4. Stands(s, chunk)
  OBVIOUS
<1> HIDE DEF head, tail, chunk, got
<1>5. Stands(s, head \o tail) /\ Fetches(s, t, head, Len(tail))
  BY <1>1, <1>2, <1>3, <1>4
<1>6. /\ Ensure(s, Len(head \o tail)) => ~t.error
      /\ ~t.error => /\ t.cursor = s.cursor + Len(head \o tail)
                     /\ At(s, Len(head), Len(tail)) = tail
  BY <1>1, <1>3, <1>5, FetchTakes
<1>7. ~t.error => got.value = v
  BY <1>1, <1>3, <1>6
<1>8. Takes(s, got, chunk, v)
  BY <1>2, <1>6, <1>7 DEF Takes
<1>9. t.version = s.version
  BY <1>3 DEF Fetches
<1> QED
  BY <1>8, <1>9 DEF chunk, got

LEMMA BufTakes ==
  ASSUME NEW s, Sound(s), NEW tag \in Seq(BYTE), NEW v \in Seq(BYTE),
         Stands(s, IF s.wire = "tlv" THEN WriteBuf(tag, v) ELSE BitReversed(v))
  PROVE  LET got == ReadBuf(s, tag, Len(v)) IN
         /\ Takes(s, got, IF s.wire = "tlv" THEN WriteBuf(tag, v) ELSE BitReversed(v), v)
         /\ got.ser.version = s.version /\ Follows(s, got.ser)
<1> DEFINE head == TagIn(s, tag)
           tail == IF s.wire = "packed" THEN BitReversed(v) ELSE v
           n == Len(v)
           got == ReadBuf(s, tag, n)
           t == got.ser
           bytes == At(s, Len(head), n)
           chunk == IF s.wire = "tlv" THEN WriteBuf(tag, v) ELSE BitReversed(v)
<1>1. n \in Nat /\ tail \in Seq(BYTE) /\ Len(tail) = n
      /\ (s.wire = "packed" => BitReversed(tail) = v) /\ (s.wire # "packed" => tail = v)
  BY BitReversedIs, LenProperties
<1>2. s.wire \in {"tlv", "packed"}
  BY SoundFields
<1>3. head \o tail = chunk
  <2>1. CASE s.wire = "tlv"
    BY <2>1 DEF TagIn, WriteBuf
  <2>2. CASE s.wire = "packed"
    <3>1. head = <<>> /\ chunk = BitReversed(v) /\ tail = BitReversed(v)
      BY <2>2 DEF TagIn
    <3> HIDE DEF head, tail, chunk
    <3> QED
      BY <1>1, <3>1, EmptyBefore
  <2> QED
    BY <1>2, <2>1, <2>2
<1>4. /\ head \in Seq(BYTE) /\ Fetches(s, t, head, n)
      /\ ~t.error => got.value = IF s.wire = "packed" THEN BitReversed(bytes) ELSE bytes
  <2> HIDE DEF n
  <2> QED
    BY <1>1, ReadBufIs
<1>5. Stands(s, chunk)
  OBVIOUS
<1> HIDE DEF head, tail, chunk, got
<1>6. Stands(s, head \o tail) /\ Fetches(s, t, head, Len(tail))
  BY <1>1, <1>3, <1>4, <1>5
<1>7. /\ Ensure(s, Len(head \o tail)) => ~t.error
      /\ ~t.error => /\ t.cursor = s.cursor + Len(head \o tail)
                     /\ At(s, Len(head), Len(tail)) = tail
  BY <1>1, <1>4, <1>6, FetchTakes
<1>8. ~t.error => got.value = v
  BY <1>1, <1>4, <1>7
<1>9. Takes(s, got, chunk, v)
  BY <1>3, <1>7, <1>8 DEF Takes
<1>10. t.version = s.version /\ Follows(s, t)
  BY <1>4 DEF Fetches
<1> QED
  BY <1>9, <1>10 DEF chunk, got

(* What stands ahead in three pieces is read piece by piece.               *)
LEMMA PiecesAre ==
  ASSUME NEW s, Sound(s), NEW a \in Seq(BYTE), NEW b \in Seq(BYTE), NEW c \in Seq(BYTE),
         Stands(s, (a \o b) \o c)
  PROVE  /\ s.cursor + (Len(a) + Len(b)) <= Len(s.data) =>
              At(s, 0, Len(a)) = a /\ At(s, Len(a), Len(b)) = b
         /\ s.cursor + ((Len(a) + Len(b)) + Len(c)) <= Len(s.data) =>
              At(s, Len(a) + Len(b), Len(c)) = c
<1> DEFINE ab == a \o b
           chunk == ab \o c
           m == Len(a)
           p == Len(b)
           q == Len(c)
<1>1. /\ m \in Nat /\ p \in Nat /\ q \in Nat /\ s.cursor \in Nat /\ Len(s.data) \in Nat
      /\ m = Len(a) /\ p = Len(b) /\ q = Len(c) /\ 0 \in Nat
  BY LenProperties, SoundFields
<1>2. /\ ab \in Seq(BYTE) /\ Len(ab) = m + p
      /\ \A j \in 1 .. m : ab[j] = a[j]
      /\ \A j \in 1 .. p : ab[m + j] = b[j]
  BY ConcatIs
<1> HIDE DEF ab
<1>3. /\ chunk \in Seq(BYTE) /\ Len(chunk) = Len(ab) + q
      /\ \A j \in 1 .. Len(ab) : chunk[j] = ab[j]
      /\ \A j \in 1 .. q : chunk[Len(ab) + j] = c[j]
  BY <1>2, ConcatIs
<1>4. Stands(s, chunk)
  BY DEF ab
<1> HIDE DEF chunk, m, p, q
<1>5. \A j \in 1 .. m : chunk[0 + j] = a[j]
  BY <1>1, <1>2, <1>3
<1>6. \A j \in 1 .. p : chunk[m + j] = b[j]
  BY <1>1, <1>2, <1>3
<1>7. \A j \in 1 .. q : chunk[(m + p) + j] = c[j]
  BY <1>2, <1>3
<1>8. ASSUME s.cursor + (m + p) <= Len(s.data)  PROVE At(s, 0, m) = a
  <2>1. 0 + Len(a) <= Len(chunk) /\ s.cursor + (0 + Len(a)) <= Len(s.data)
    BY <1>1, <1>2, <1>3, <1>8
  <2> QED
    BY <1>1, <1>3, <1>4, <1>5, <2>1, PieceIs
<1>9. ASSUME s.cursor + (m + p) <= Len(s.data)  PROVE At(s, m, p) = b
  <2>1. m + Len(b) <= Len(chunk) /\ s.cursor + (m + Len(b)) <= Len(s.data)
    BY <1>1, <1>2, <1>3, <1>9
  <2> QED
    BY <1>1, <1>3, <1>4, <1>6, <2>1, PieceIs
<1>10. ASSUME s.cursor + ((m + p) + q) <= Len(s.data)  PROVE At(s, m + p, q) = c
  <2>1. m + p \in Nat /\ (m + p) + Len(c) <= Len(chunk)
        /\ s.cursor + ((m + p) + Len(c)) <= Len(s.data)
    BY <1>1, <1>2, <1>3, <1>10
  <2> QED
    BY <1>1, <1>3, <1>4, <1>7, <2>1, PieceIs
<1> QED
  BY <1>8, <1>9, <1>10 DEF m, p, q

(* A text whose tag and length stand ahead of it is read as that text.     *)
LEMMA TextTakes ==
  ASSUME NEW s, Sound(s), NEW head \in Seq(BYTE), NEW two \in Seq(BYTE), Len(two) = 2,
         NEW v \in Seq(BYTE), AsNumber(Ordered(s, two)) = Len(v),
         NEW chunk, chunk = (head \o two) \o v, Stands(s, chunk),
         NEW m, m = Len(head), NEW n, n = AsNumber(Ordered(s, At(s, m, 2))),
         NEW got,
         ~got.ser.error <=> /\ Ensure(s, m + 2) /\ At(s, 0, m) = head
                            /\ Ensure(s, (m + 2) + n),
         ~got.ser.error => got.ser.cursor = s.cursor + ((m + 2) + n),
         ~got.ser.error => got.value = At(s, m + 2, n)
  PROVE  Takes(s, got, chunk, v)
<1>1. m \in Nat /\ Len(v) \in Nat /\ s.cursor \in Nat /\ Len(s.data) \in Nat
  BY LenProperties, SoundFields
<1>2. chunk \in Seq(BYTE) /\ Len(chunk) = (m + 2) + Len(v)
  <2> DEFINE front == head \o two
  <2>1. front \in Seq(BYTE) /\ Len(front) = m + 2
    BY ConcatTyped, ZenonT(30)
  <2>2. chunk = front \o v
    OBVIOUS
  <2> HIDE DEF front
  <2>3. chunk \in Seq(BYTE) /\ Len(chunk) = Len(front) + Len(v)
    BY <2>1, <2>2, ConcatTyped, ZenonT(30)
  <2> QED
    BY <2>1, <2>3
<1>3. /\ s.cursor + (m + 2) <= Len(s.data) => At(s, 0, m) = head /\ At(s, m, 2) = two
      /\ s.cursor + ((m + 2) + Len(v)) <= Len(s.data) => At(s, m + 2, Len(v)) = v
  <2>1. Stands(s, (head \o two) \o v)
    OBVIOUS
  <2>2. /\ s.cursor + (Len(head) + Len(two)) <= Len(s.data) =>
             At(s, 0, Len(head)) = head /\ At(s, Len(head), Len(two)) = two
        /\ s.cursor + ((Len(head) + Len(two)) + Len(v)) <= Len(s.data) =>
             At(s, Len(head) + Len(two), Len(v)) = v
    BY <2>1, PiecesAre, ZenonT(30)
  <2> QED
    BY <2>2, ZenonT(30)
<1>4. s.cursor + (m + 2) <= Len(s.data) => At(s, 0, m) = head /\ n = Len(v)
  BY <1>3
<1>5. Ensure(s, Len(chunk)) => ~got.ser.error
  <2> SUFFICES ASSUME Ensure(s, Len(chunk))  PROVE ~got.ser.error
    OBVIOUS
  <2>1. ~s.error /\ s.cursor + ((m + 2) + Len(v)) <= Len(s.data)
    BY <1>2 DEF Ensure
  <2>2. s.cursor + (m + 2) <= Len(s.data)
    BY <1>1, <2>1
  <2> QED
    BY <1>4, <2>1, <2>2 DEF Ensure
<1>6. ~got.ser.error => got.ser.cursor = s.cursor + Len(chunk) /\ got.value = v
  <2> SUFFICES ASSUME ~got.ser.error
               PROVE  got.ser.cursor = s.cursor + Len(chunk) /\ got.value = v
    OBVIOUS
  <2>1. s.cursor + (m + 2) <= Len(s.data) /\ s.cursor + ((m + 2) + n) <= Len(s.data)
    BY DEF Ensure
  <2>2. n = Len(v)
    BY <1>4, <2>1
  <2> QED
    BY <1>2, <1>3, <2>1, <2>2
<1> QED
  BY <1>5, <1>6 DEF Takes

LEMMA StringTakes ==
  ASSUME NEW s, Sound(s), NEW tag \in Seq(BYTE), NEW v, Brief(v),
         Stands(s, IF s.wire = "tlv" THEN WriteString(tag, v) ELSE LengthBytes(v) \o v)
  PROVE  Takes(s, ReadString(s, tag),
               IF s.wire = "tlv" THEN WriteString(tag, v) ELSE LengthBytes(v) \o v, v)
<1> DEFINE head == TagIn(s, tag)
           two == Ordered(s, LengthBytes(v))
           got == ReadString(s, tag)
           chunk == IF s.wire = "tlv" THEN WriteString(tag, v) ELSE LengthBytes(v) \o v
<1>1. /\ two \in Seq(BYTE) /\ Len(two) = 2 /\ Ordered(s, two) = LengthBytes(v)
      /\ AsNumber(LengthBytes(v)) = Len(v) /\ v \in Seq(BYTE) /\ Len(v) \in Nat
  BY OrderedIs, OrderedTwice, LengthBytesAre, LenProperties DEF Brief
<1>2. head \in Seq(BYTE)
  BY DEF TagIn
<1>3. chunk = (head \o two) \o v
  <2>1. CASE s.wire = "tlv"
    BY <2>1 DEF TagIn, Ordered, WriteString
  <2>2. CASE s.wire # "tlv"
    <3>1. head \o two = two /\ two = LengthBytes(v)
      <4>1. head = <<>> /\ two = LengthBytes(v)
        BY <2>2 DEF TagIn, Ordered
      <4> HIDE DEF head, two
      <4> QED
        BY <1>1, <4>1, EmptyBefore
    <3> HIDE DEF head, two
    <3> QED
      BY <2>2, <3>1
  <2> QED
    BY <2>1, <2>2
<1>4. LET m == Len(head)
          n == TextLength(s, tag) IN
      /\ ~got.ser.error <=> /\ Ensure(s, m + 2) /\ At(s, 0, m) = head
                            /\ Ensure(s, (m + 2) + n)
      /\ ~got.ser.error => got.ser.cursor = s.cursor + ((m + 2) + n)
      /\ ~got.ser.error => got.value = At(s, m + 2, n)
      /\ n = AsNumber(Ordered(s, At(s, m, 2)))
  BY ReadStringIs DEF TextLength
<1>5. Stands(s, chunk)
  OBVIOUS
<1>6. AsNumber(Ordered(s, two)) = Len(v)
  BY <1>1
<1> HIDE DEF head, two, chunk, got
<1> QED
  <2>1. Takes(s, got, chunk, v)
    BY <1>1, <1>2, <1>3, <1>4, <1>5, <1>6, TextTakes
  <2> QED
    BY <2>1 DEF chunk, got

(* The base of every record also tells its version.                        *)
LEMMA BaseTakes ==
  ASSUME NEW s, Sound(s), NEW value, Default(value, <<>>) \in Seq(BYTE), NEW version \in DWORD,
         Stands(s, BaseChunk(s.wire, value, version))
  PROVE  /\ Takes(s, ReadBase(s), BaseChunk(s.wire, value, version),
                  <<Fitted(Default(value, <<>>), 2), version>>)
         /\ ~ReadBase(s).ser.error => ReadBase(s).ser.version = AsNumber(version)
<1> DEFINE flags == Fitted(Default(value, <<>>), 2)
           a == IF s.wire = "tlv" THEN WriteBuf(FOURCC.NPfl, flags) ELSE BitReversed(flags)
           b == IF s.wire = "tlv" THEN WriteNumber(FOURCC.vers, version) ELSE version
           one == ReadBuf(s, FOURCC.NPfl, 2)
           t == one.ser
           two == ReadNumber(t, FOURCC.vers, 4, "F")
           u == two.ser
           got == ReadBase(s)
           chunk == BaseChunk(s.wire, value, version)
<1>1. /\ flags \in Seq(BYTE) /\ Len(flags) = 2 /\ version \in Seq(BYTE) /\ Len(version) = 4
      /\ FOURCC.NPfl \in Seq(BYTE) /\ FOURCC.vers \in Seq(BYTE)
      /\ Len(FOURCC.NPfl) = 4 /\ Len(FOURCC.vers) = 4
  BY FittedIs, DwordSeq, FourccBytes
<1>2. chunk = a \o b
  BY DEF BaseChunk
<1> DEFINE nf == FOURCC.NPfl
           nv == FOURCC.vers
<1> HIDE DEF flags, nf, nv
<1>3. a \in Seq(BYTE) /\ b \in Seq(BYTE)
  <2>1. /\ WriteBuf(nf, flags) \in Seq(BYTE) /\ BitReversed(flags) \in Seq(BYTE)
    BY <1>1, ConcatTyped, BitReversedIs DEF WriteBuf, nf
  <2>2. WriteNumber(nv, version) \in Seq(BYTE)
    BY <1>1, ConcatTyped, ReverseIs DEF WriteNumber, nv
  <2> QED
    BY <1>1, <2>1, <2>2 DEF nf, nv
<1>4. got.ser = [u EXCEPT !.version = AsNumber(two.value)] /\ got.value = <<one.value, two.value>>
  BY DEF ReadBase, Got
<1>5. Stands(s, a \o b)
  BY <1>2
<1>6. Stands(s, a) /\ \A x : x.data = s.data /\ x.cursor = s.cursor + Len(a) => Stands(x, b)
  <2> HIDE DEF a, b
  <2> QED
    BY <1>3, <1>5, StandsApart
<1>7. Takes(s, one, a, flags) /\ Follows(s, t)
  <2>1. nf \in Seq(BYTE) /\ one = ReadBuf(s, nf, Len(flags))
        /\ a = IF s.wire = "tlv" THEN WriteBuf(nf, flags) ELSE BitReversed(flags)
    BY <1>1 DEF nf
  <2>2. Stands(s, IF s.wire = "tlv" THEN WriteBuf(nf, flags) ELSE BitReversed(flags))
    BY <1>6, <2>1
  <2> HIDE DEF one, a
  <2> QED
    BY <1>1, <2>1, <2>2, BufTakes
<1>8. Sound(t) /\ t.data = s.data /\ t.wire = s.wire
  BY <1>7 DEF Follows
<1>9. ASSUME Stands(t, b)  PROVE Takes(t, two, b, version)
  <2>1. nv \in Seq(BYTE)
        /\ b = IF t.wire = "tlv" THEN WriteNumber(nv, version) ELSE version
    BY <1>1, <1>8 DEF nv
  <2>2. Stands(t, IF t.wire = "tlv" THEN WriteNumber(nv, version) ELSE version)
    BY <1>9, <2>1
  <2> DEFINE four == Len(version)
             kind == "F"
  <2>3. two = ReadNumber(t, nv, four, kind)
    BY <1>1 DEF nv
  <2> HIDE DEF t, two, b, kind
  <2>4. Takes(t, ReadNumber(t, nv, Len(version), kind),
              IF t.wire = "tlv" THEN WriteNumber(nv, version) ELSE version, version)
    BY <1>1, <1>8, <2>1, <2>2, NumberTakes
  <2> QED
    BY <2>1, <2>3, <2>4
<1>10. /\ Follows(t, u) /\ u.version = t.version
       /\ two.value \in Seq(BYTE) /\ Len(two.value) = 4
  <2> DEFINE four == 4
             kind == "F"
  <2>1. four \in Nat /\ nv \in Seq(BYTE) /\ two = ReadNumber(t, nv, four, kind)
    BY <1>1 DEF nv
  <2> HIDE DEF t, two, four, kind
  <2>2. Fetches(t, ReadNumber(t, nv, four, kind).ser, TagIn(t, nv), four)
    BY <1>8, <2>1, ReadNumberIs
  <2>3. LET x == ReadNumber(t, nv, four, kind).value IN x \in Seq(BYTE) /\ Len(x) = four
    BY <1>8, <2>1, NumberTyped
  <2> QED
    BY <2>1, <2>2, <2>3 DEF Fetches, four
<1> HIDE DEF one, two, got, a, b, chunk, t, u
<1>11. /\ u \in Serializer /\ got.ser.error = u.error /\ got.ser.cursor = u.cursor
       /\ got.ser.version = AsNumber(two.value)
  <2>1. u \in Serializer
    BY <1>10 DEF Follows, Sound
  <2> QED
    BY <1>4, <2>1 DEF Serializer
<1>12. /\ s.cursor \in Nat /\ Len(s.data) \in Nat /\ t.cursor \in Nat
       /\ Len(a) \in Nat /\ Len(b) \in Nat /\ Len(chunk) = Len(a) + Len(b)
  BY <1>2, <1>3, <1>8, SoundFields, LenProperties, ConcatTyped
<1>13. t.error => u.error
  BY <1>10 DEF Follows
<1>14. ASSUME ~t.error  PROVE t.cursor = s.cursor + Len(a) /\ one.value = flags /\ Stands(t, b)
  BY <1>6, <1>7, <1>8, <1>14 DEF Takes, t
<1>15. ASSUME Ensure(s, Len(chunk))  PROVE ~got.ser.error
  <2>1. Ensure(s, Len(a))
    BY <1>12, <1>15 DEF Ensure
  <2>2. ~t.error
    BY <1>7, <2>1 DEF Takes, t
  <2>3. Ensure(t, Len(b))
    BY <1>8, <1>12, <1>14, <1>15, <2>2 DEF Ensure
  <2> QED
    BY <1>9, <1>11, <1>14, <2>2, <2>3 DEF Takes, u
<1>16. ASSUME ~got.ser.error
       PROVE  /\ got.ser.cursor = s.cursor + Len(chunk) /\ got.value = <<flags, version>>
              /\ got.ser.version = AsNumber(version)
  <2>1. ~u.error /\ ~t.error
    BY <1>11, <1>13, <1>16
  <2>2. u.cursor = t.cursor + Len(b) /\ two.value = version
    BY <1>9, <1>14, <2>1 DEF Takes, u
  <2> QED
    BY <1>4, <1>11, <1>12, <1>14, <2>1, <2>2
<1>17. Takes(s, got, chunk, <<flags, version>>)
  BY <1>15, <1>16 DEF Takes
<1> QED
  BY <1>16, <1>17 DEF got, chunk, flags

(* A dword at the end of bytes that were written.                          *)
LEMMA LastDword ==
  ASSUME NEW s, Sound(s), NEW a \in Seq(BYTE), NEW d \in DWORD, Stands(s, a \o d),
         NEW k, k = Len(a)
  PROVE  /\ Stands(s, a) /\ a \o d \in Seq(BYTE) /\ Len(a \o d) = k + 4
         /\ s.cursor + (k + 4) <= Len(s.data) => At(s, k, 4) = d
<1>1. d \in Seq(BYTE) /\ Len(d) = 4
  BY DwordSeq
<1>2. Stands(s, a)
  BY <1>1, StandsApart
<1>3. /\ a \o d \in Seq(BYTE) /\ Len(a \o d) = k + 4
      /\ \A j \in 1 .. Len(d) : (a \o d)[k + j] = d[j]
  <2>1. d \in Seq(BYTE)
    BY <1>1
  <2>2. /\ a \o d \in Seq(BYTE) /\ Len(a \o d) = Len(a) + Len(d)
        /\ \A j \in 1 .. Len(d) : (a \o d)[Len(a) + j] = d[j]
    BY <2>1, ConcatIs
  <2> QED
    BY <1>1, <2>2
<1>4. k \in Nat
  BY LenProperties
<1>5. ASSUME s.cursor + (k + 4) <= Len(s.data)  PROVE At(s, k, 4) = d
  <2> DEFINE chunk == a \o d
  <2>1. /\ chunk \in Seq(BYTE) /\ Stands(s, chunk) /\ k + Len(d) <= Len(chunk)
        /\ \A j \in 1 .. Len(d) : chunk[k + j] = d[j]
        /\ s.cursor + (k + Len(d)) <= Len(s.data)
    <3>1. chunk \in Seq(BYTE) /\ Stands(s, chunk) /\ k + Len(d) <= Len(chunk)
      <4>1. Len(chunk) = k + 4 /\ k + 4 \in Nat /\ k + 4 <= k + 4
        BY <1>3, <1>4
      <4> HIDE DEF chunk
      <4>2. k + Len(d) <= Len(chunk)
        BY <1>1, <4>1
      <4> QED
        BY <1>3, <4>2 DEF chunk
    <3>2. \A j \in 1 .. Len(d) : chunk[k + j] = d[j]
      BY <1>3
    <3>3. s.cursor + (k + Len(d)) <= Len(s.data)
      BY <1>1, <1>5
    <3> QED
      BY <3>1, <3>2, <3>3
  <2> HIDE DEF chunk
  <2>2. At(s, k, Len(d)) = d
    BY <1>1, <1>4, <2>1, PieceIs
  <2> QED
    BY <1>1, <2>2
<1> QED
  BY <1>2, <1>3, <1>5

LEMMA FirstDwordAt ==
  ASSUME NEW s, Sound(s), NEW d \in DWORD, Stands(s, d), s.cursor + 4 <= Len(s.data)
  PROVE  At(s, 0, 4) = d
<1> DEFINE none == <<>>
           k == 0
<1>1. d \in Seq(BYTE) /\ none \o d = d /\ none \in Seq(BYTE) /\ k = Len(none)
  BY DwordSeq, EmptyBefore
<1>2. s.cursor + (k + 4) = s.cursor + 4
  BY SoundFields
<1> HIDE DEF none, k
<1>3. Stands(s, none \o d)
  BY <1>1
<1>4. At(s, k, 4) = d
  <2>1. s.cursor + (k + 4) <= Len(s.data)
    BY <1>2
  <2>2. none \in Seq(BYTE) /\ k = Len(none)
    BY <1>1
  <2> QED
    BY <1>3, <2>1, <2>2, LastDword
<1> QED
  BY <1>4 DEF k

LEMMA FetchesPlain ==
  ASSUME NEW s, Sound(s), NEW n \in Nat, NEW t, Fetches(s, t, <<>>, n)
  PROVE  /\ ~t.error <=> Ensure(s, n)
         /\ ~t.error => t.cursor = s.cursor + n
<1>1. At(s, 0, 0) = <<>> /\ Len(<<>>) = 0 /\ 0 + n = n
  BY NoTag
<1> QED
  BY <1>1 DEF Fetches

(* The mark of a sub-object.                                               *)
LEMMA ObjTakes ==
  ASSUME NEW s, Sound(s), s.wire = "packed", ~s.error, ~Eof(s),
         NEW op, IsOp(op), op.kind = "SubObj", NEW value, Fits(op, value),
         NEW version \in DWORD, s.version = AsNumber(version),
         Stands(s, ToPacked(op, value, version))
  PROVE  Takes(s, ReadObj(s), ToPacked(op, value, version),
               IF value = None THEN None
               ELSE IF AsNumber(version) <= 4 THEN [value EXCEPT ![2] = None] ELSE value)
<1> DEFINE got == ReadObj(s)
           t == got.ser
           chunk == ToPacked(op, value, version)
           n == IF s.version <= 4 THEN 8 ELSE 12
           null == At(s, 0, 4) \in NullMark
           old == s.version <= 4
<1>1. /\ Ensure(s, 4) /\ null => ~t.error /\ t.cursor = s.cursor + 4 /\ got.value = None
      /\ ~(Ensure(s, 4) /\ null) =>
           /\ Fetches(s, t, <<>>, n)
           /\ ~t.error => got.value = <<At(s, 0, 4), IF old THEN None ELSE At(s, 4, 4),
                                        At(s, n - 4, 4)>>
  BY ReadObjIs
<1>2. /\ s.cursor \in Nat /\ Len(s.data) \in Nat /\ s.version \in Nat
      /\ n \in {8, 12} /\ n \in Nat /\ (old => n = 8) /\ (~old => n = 12)
  BY SoundFields
<1> HIDE DEF got, n
<1>3. ~(Ensure(s, 4) /\ null) =>
        /\ ~t.error <=> Ensure(s, n)
        /\ ~t.error => t.cursor = s.cursor + n
  BY <1>1, <1>2, FetchesPlain
<1>4. Ensure(s, n) => Ensure(s, 4)
  BY <1>2 DEF Ensure
<1>5. Stands(s, chunk)
  OBVIOUS
<1>6. CASE value = None
  <2>1. chunk = FOURCC.NULL /\ FOURCC.NULL \in DWORD /\ FOURCC.NULL \in NullMark
        /\ Len(FOURCC.NULL) = 4
    <3>1. chunk = FOURCC.NULL
      BY <1>6 DEF ToPacked, NUMBERS
    <3>2. <<110, 117, 108, 108>> \in [1 .. 4 -> BYTE]
      BY DEF BYTE
    <3> QED
      BY <3>1, <3>2, FourccBytes DEF FOURCC, DWORD, NullMark
  <2> HIDE DEF chunk
  <2>2. Ensure(s, 4) => null
    BY <1>5, <2>1, FirstDwordAt DEF Ensure
  <2>3. Takes(s, got, chunk, None)
    BY <1>1, <1>3, <1>4, <2>1, <2>2 DEF Takes
  <2> QED
    BY <1>6, <2>3 DEF got, chunk
<1>7. CASE value # None
  <2> DEFINE x == value[1]
             y == value[2]
             z == value[3]
             mid == IF old THEN x \o <<>> ELSE x \o y
  <2>1. value \in [1 .. 3 -> DWORD] /\ x \notin NullMark
    BY <1>7, SourceIs DEF IsRead
  <2>2. x \in DWORD /\ y \in DWORD /\ z \in DWORD
    BY <2>1
  <2>3. chunk = mid \o z
    <3>1. Gate([op EXCEPT !.above = 4], AsNumber(version)) <=> ~old
      <4>1. [op EXCEPT !.above = 4].above = 4 \/ "above" \notin DOMAIN op
        OBVIOUS
      <4> QED
        BY <1>2, <4>1 DEF Gate, IsOp
    <3> QED
      BY <1>7, <3>1 DEF ToPacked, NUMBERS
  <2> DEFINE five == IF old THEN 4 ELSE 8
  <2>4. mid \in Seq(BYTE) /\ Len(mid) = five
    <3>1. x \in Seq(BYTE) /\ Len(x) = 4 /\ y \in Seq(BYTE) /\ Len(y) = 4
      BY <2>2, DwordSeq
    <3> HIDE DEF x, y
    <3>2. x \o <<>> = x
      BY <3>1, ConcatEmptySeq
    <3>3. x \o y \in Seq(BYTE) /\ Len(x \o y) = Len(x) + Len(y)
      BY <3>1, ConcatTyped
    <3>4. CASE old
      BY <3>1, <3>2, <3>4
    <3>5. CASE ~old
      BY <3>1, <3>3, <3>5
    <3> QED
      BY <3>4, <3>5
  <2> HIDE DEF mid, x, y, z, chunk
  <2>5. /\ Stands(s, mid) /\ Len(chunk) = five + 4
        /\ s.cursor + (five + 4) <= Len(s.data) => At(s, five, 4) = z
    <3>1. five = Len(mid) /\ Stands(s, mid \o z)
      BY <1>5, <2>3, <2>4
    <3> HIDE DEF five
    <3>2. /\ Stands(s, mid) /\ Len(mid \o z) = five + 4
          /\ s.cursor + (five + 4) <= Len(s.data) => At(s, five, 4) = z
      BY <2>2, <2>4, <3>1, LastDword
    <3> QED
      BY <2>3, <3>2
  <2>6. n = five + 4 /\ n - 4 = five
    BY <1>2
  <2>7. Stands(s, x)
    <3>1. CASE old
      <4>1. mid = x
        BY <2>2, <3>1, DwordSeq, ConcatEmptySeq DEF mid
      <4> QED
        BY <2>5, <4>1
    <3>2. CASE ~old
      <4>1. Stands(s, x \o y) /\ x \in Seq(BYTE) /\ y \in Seq(BYTE)
        BY <2>2, <2>5, <3>2, DwordSeq DEF mid
      <4> QED
        BY <4>1, StandsApart
    <3> QED
      BY <3>1, <3>2
  <2>8. s.cursor + 4 <= Len(s.data) => At(s, 0, 4) = x
    BY <2>2, <2>7, FirstDwordAt
  <2>9. ~old /\ s.cursor + 8 <= Len(s.data) => At(s, 4, 4) = y
    <3> SUFFICES ASSUME ~old, s.cursor + 8 <= Len(s.data)  PROVE At(s, 4, 4) = y
      OBVIOUS
    <3> DEFINE k == 4
    <3>1. Stands(s, x \o y) /\ x \in Seq(BYTE) /\ k = Len(x) /\ s.cursor + (k + 4) <= Len(s.data)
      BY <2>2, <2>5, DwordSeq DEF mid
    <3> HIDE DEF k
    <3>2. At(s, k, 4) = y
      BY <2>2, <3>1, LastDword
    <3> QED
      BY <3>2 DEF k
  <2>10. ~(Ensure(s, 4) /\ null)
    BY <2>1, <2>8 DEF Ensure, x
  <2>11. ~t.error => /\ At(s, 0, 4) = x /\ At(s, n - 4, 4) = z
                     /\ ~old => At(s, 4, 4) = y
    BY <1>2, <1>3, <2>5, <2>6, <2>8, <2>9, <2>10 DEF Ensure
  <2> DEFINE want == IF old THEN [value EXCEPT ![2] = None] ELSE value
  <2>12. <<x, IF old THEN None ELSE y, z>> = want
    <3>1. CASE old
      BY <2>1, <3>1 DEF x, y, z
    <3>2. CASE ~old
      BY <2>1, <3>2 DEF x, y, z
    <3> QED
      BY <3>1, <3>2
  <2>13. ~t.error => got.value = want
    BY <1>1, <2>10, <2>11, <2>12
  <2>14. Takes(s, got, chunk, want)
    BY <1>3, <2>5, <2>6, <2>10, <2>13 DEF Takes
  <2> QED
    BY <1>7, <2>14 DEF got, chunk
<1> QED
  BY <1>6, <1>7

(* The head of a list of objects.                                          *)
LEMMA ListTakes ==
  ASSUME NEW s, Sound(s), s.wire = "packed", ~s.error, ~Eof(s),
         NEW op, IsOp(op), op.kind = "ObjList", NEW value, Fits(op, value),
         NEW version \in DWORD, s.version = AsNumber(version),
         Stands(s, ToPacked(op, value, version))
  PROVE  Takes(s, ReadObjList(s), ToPacked(op, value, version),
               IF AsNumber(version) <= 4 THEN [value EXCEPT ![3] = None] ELSE value)
<1> DEFINE got == ReadObjList(s)
           t == got.ser
           chunk == ToPacked(op, value, version)
           n == IF s.version <= 4 THEN 12 ELSE 16
           old == s.version <= 4
           a == value[1]
           b == value[2]
           c == value[3]
           d == value[4]
           pair == a \o b
           mid == IF old THEN pair \o <<>> ELSE pair \o c
           far == IF old THEN 8 ELSE 12
           eight == 8
           four == 4
<1>1. /\ Fetches(s, t, <<>>, n)
      /\ ~t.error => got.value = <<At(s, 0, 4), At(s, 4, 4), IF old THEN None ELSE At(s, 8, 4),
                                   At(s, n - 4, 4)>>
  BY ReadObjListIs
<1>2. /\ s.cursor \in Nat /\ Len(s.data) \in Nat /\ s.version \in Nat
      /\ n \in Nat /\ n = far + 4 /\ n - 4 = far /\ n >= 12 /\ (~old => n = 16)
  BY SoundFields
<1> HIDE DEF got, n
<1>3. ~t.error => Ensure(s, n) /\ t.cursor = s.cursor + n
  BY <1>1, <1>2, FetchesPlain
<1>4. Ensure(s, n) => ~t.error
  BY <1>1, <1>2, FetchesPlain
<1>5. Stands(s, chunk)
  OBVIOUS
<1>6. value \in [1 .. 4 -> DWORD]
  BY SourceIs DEF IsRead
<1>7. a \in DWORD /\ b \in DWORD /\ c \in DWORD /\ d \in DWORD
  BY <1>6
<1>8. chunk = mid \o d
  <2>1. Gate([op EXCEPT !.above = 4], AsNumber(version)) <=> ~old
    <3>1. [op EXCEPT !.above = 4].above = 4 \/ "above" \notin DOMAIN op
      OBVIOUS
    <3> QED
      BY <1>2, <3>1 DEF Gate, IsOp
  <2> QED
    BY <2>1 DEF ToPacked, NUMBERS
<1> HIDE DEF a, b, c, d, chunk
<1>9. /\ a \in Seq(BYTE) /\ Len(a) = 4 /\ b \in Seq(BYTE) /\ Len(b) = 4
      /\ c \in Seq(BYTE) /\ Len(c) = 4
  BY <1>7, DwordSeq
<1>10. pair \in Seq(BYTE) /\ Len(pair) = 8
  <2>1. a \o b \in Seq(BYTE) /\ Len(a \o b) = Len(a) + Len(b)
    BY <1>9, ConcatTyped
  <2> QED
    BY <1>9, <2>1
<1> HIDE DEF pair
<1>11. /\ mid \in Seq(BYTE) /\ Len(mid) = far
       /\ old => mid = pair
  <2>1. pair \o <<>> = pair
    BY <1>10, ConcatEmptySeq
  <2>2. pair \o c \in Seq(BYTE) /\ Len(pair \o c) = Len(pair) + Len(c)
    BY <1>9, <1>10, ConcatTyped
  <2>3. CASE old
    BY <1>10, <2>1, <2>3
  <2>4. CASE ~old
    BY <1>9, <1>10, <2>2, <2>4
  <2> QED
    BY <2>3, <2>4
<1>12. ~old => mid = pair \o c
  OBVIOUS
<1> HIDE DEF mid
<1>13. /\ Stands(s, mid) /\ Len(chunk) = far + 4
       /\ s.cursor + (far + 4) <= Len(s.data) => At(s, far, 4) = d
  <2>1. far = Len(mid) /\ Stands(s, mid \o d)
    BY <1>5, <1>8, <1>11
  <2> HIDE DEF far
  <2>2. /\ Stands(s, mid) /\ Len(mid \o d) = far + 4
        /\ s.cursor + (far + 4) <= Len(s.data) => At(s, far, 4) = d
    BY <1>7, <1>11, <2>1, LastDword
  <2> QED
    BY <1>8, <2>2
<1>14. /\ Stands(s, pair)
       /\ ~old /\ s.cursor + 12 <= Len(s.data) => At(s, 8, 4) = c
  <2>1. CASE old
    BY <1>11, <1>13, <2>1
  <2>2. CASE ~old
    <3>1. eight = Len(pair) /\ Stands(s, pair \o c)
      BY <1>10, <1>12, <1>13, <2>2
    <3>2. eight + 4 = 12 /\ eight = 8
      OBVIOUS
    <3> HIDE DEF eight
    <3>3. /\ Stands(s, pair)
          /\ s.cursor + (eight + 4) <= Len(s.data) => At(s, eight, 4) = c
      <4>1. pair \in Seq(BYTE) /\ c \in DWORD
        BY <1>7, <1>10
      <4> QED
        BY <3>1, <4>1, LastDword
    <3> QED
      BY <3>2, <3>3
  <2> QED
    BY <2>1, <2>2
<1>15. /\ Stands(s, a)
       /\ s.cursor + 8 <= Len(s.data) => At(s, 4, 4) = b
  <2>1. four = Len(a) /\ Stands(s, a \o b)
    BY <1>9, <1>14 DEF pair
  <2>2. four + 4 = 8 /\ four = 4
    OBVIOUS
  <2> HIDE DEF four
  <2>3. /\ Stands(s, a)
        /\ s.cursor + (four + 4) <= Len(s.data) => At(s, four, 4) = b
    BY <1>7, <1>9, <2>1, LastDword
  <2> QED
    BY <2>2, <2>3
<1>16. s.cursor + 4 <= Len(s.data) => At(s, 0, 4) = a
  BY <1>7, <1>15, FirstDwordAt
<1>17. ~t.error => /\ At(s, 0, 4) = a /\ At(s, 4, 4) = b /\ At(s, n - 4, 4) = d
                   /\ ~old => At(s, 8, 4) = c
  BY <1>2, <1>3, <1>13, <1>14, <1>15, <1>16, SMTT(30) DEF Ensure
<1> DEFINE want == IF old THEN [value EXCEPT ![3] = None] ELSE value
<1>18. <<a, b, IF old THEN None ELSE c, d>> = want
  <2>1. CASE old
    BY <1>6, <2>1 DEF a, b, c, d
  <2>2. CASE ~old
    BY <1>6, <2>2 DEF a, b, c, d
  <2> QED
    BY <2>1, <2>2
<1>19. ~t.error => got.value = want
  BY <1>1, <1>17, <1>18
<1>20. Takes(s, got, chunk, want)
  BY <1>2, <1>3, <1>4, <1>13, <1>19 DEF Takes
<1> QED
  BY <1>20 DEF got, chunk

-----------------------------------------------------------------------------
(* What an operation that the version has gives, from the bytes its value  *)
(* is written to.                                                          *)
Body(w, op, value, version) == IF w = "tlv" THEN ToTlv(op, value) ELSE ToPacked(op, value, version)
Want(w, op, value, version) ==
  CASE op.kind = "BaseInit" -> <<Fitted(Default(value, <<>>), 2), version>>
    [] op.kind \in NUMBERS -> Default(value, Zeros(op.n))
    [] op.kind = "String" -> Default(value, <<>>)
    [] op.kind = "BufF" -> Fitted(Default(value, <<>>), op.n)
    [] op.kind = "SubObj" ->
         IF value = None \/ w = "tlv" THEN None
         ELSE IF AsNumber(version) <= 4 THEN [value EXCEPT ![2] = None] ELSE value
    [] op.kind = "ObjList" ->
         IF w = "tlv" THEN <<>>
         ELSE IF AsNumber(version) <= 4 THEN [value EXCEPT ![3] = None] ELSE value
OBJECTS == {"SubObj", "ObjList"}

LEMMA FieldTakes ==
  ASSUME NEW s, Sound(s), ~s.error, NEW op, IsOp(op), NEW value, Fits(op, value),
         NEW version \in DWORD, s.version = AsNumber(version),
         Stands(s, Body(s.wire, op, value, version)),
         op.kind \in OBJECTS => s.wire = "packed" /\ ~Eof(s)
  PROVE  Takes(s, ReadField(s, op), Body(s.wire, op, value, version),
               Want(s.wire, op, value, version))
<1> DEFINE got == ReadField(s, op)
           body == Body(s.wire, op, value, version)
           want == Want(s.wire, op, value, version)
<1>1. IsRead(op) /\ op.kind # "BaseInit" /\ s.wire \in {"tlv", "packed"}
  BY SoundFields DEF IsRead, IsOp
<1>2. CASE op.kind \in NUMBERS
  <2> DEFINE v == Default(value, Zeros(op.n))
             tag == TagBytes(op)
             kind == IF op.kind = "DwordF" THEN "F" ELSE ""
  <2>1. v \in Seq(BYTE) /\ Len(v) = op.n /\ tag \in Seq(BYTE)
    BY <1>1, <1>2, SourceIs, TagBytesAre
  <2>2. got = ReadNumber(s, tag, op.n, kind)
    BY <1>2 DEF ReadField, NUMBERS
  <2>3. body = IF s.wire = "tlv" THEN WriteNumber(tag, v) ELSE v
    BY <1>2 DEF Body, ToTlv, ToPacked, NUMBERS
  <2>4. want = v
    BY <1>2 DEF Want, NUMBERS
  <2>5. Stands(s, body)
    OBVIOUS
  <2> HIDE DEF got, body, want, v, tag, kind
  <2>6. got = ReadNumber(s, tag, Len(v), kind)
    BY <2>1, <2>2
  <2>7. Stands(s, IF s.wire = "tlv" THEN WriteNumber(tag, v) ELSE v)
    BY <2>3, <2>5
  <2>8. v \in Seq(BYTE) /\ tag \in Seq(BYTE)
    BY <2>1
  <2>9. Takes(s, ReadNumber(s, tag, Len(v), kind),
                  IF s.wire = "tlv" THEN WriteNumber(tag, v) ELSE v, v)
    BY <2>7, <2>8, NumberTakes
  <2> QED
    BY <2>3, <2>4, <2>6, <2>9 DEF got, body, want
<1>3. CASE op.kind = "String"
  <2> DEFINE v == Default(value, <<>>)
             tag == TagBytes(op)
  <2>1. v \in Seq(BYTE) /\ Brief(v) /\ tag \in Seq(BYTE)
    BY <1>1, <1>3, SourceIs, TagBytesAre
  <2>2. got = ReadString(s, tag)
    BY <1>3 DEF ReadField, NUMBERS
  <2>3. body = IF s.wire = "tlv" THEN WriteString(tag, v) ELSE LengthBytes(v) \o v
    BY <1>3 DEF Body, ToTlv, ToPacked, NUMBERS
  <2>4. want = v
    BY <1>3 DEF Want, NUMBERS
  <2>5. Stands(s, body)
    OBVIOUS
  <2> HIDE DEF got, body, want, v, tag
  <2>6. Stands(s, IF s.wire = "tlv" THEN WriteString(tag, v) ELSE LengthBytes(v) \o v)
    BY <2>3, <2>5
  <2>7. Takes(s, ReadString(s, tag),
              IF s.wire = "tlv" THEN WriteString(tag, v) ELSE LengthBytes(v) \o v, v)
    BY <2>1, <2>6, StringTakes
  <2> QED
    BY <2>2, <2>3, <2>4, <2>7 DEF got, body, want
<1>4. CASE op.kind = "BufF"
  <2> DEFINE d == Default(value, <<>>)
             n == op.n
             v == Fitted(d, n)
             tag == FOURCC[op.field]
  <2>1. d \in Seq(BYTE) /\ n \in Nat /\ tag \in Seq(BYTE)
    BY <1>1, <1>4, SourceIs, KindOf, FourccBytes
  <2>2. got = ReadBuf(s, tag, n)
    BY <1>4 DEF ReadField, NUMBERS
  <2>3. body = IF s.wire = "tlv" THEN WriteBuf(tag, v) ELSE BitReversed(v)
    BY <1>4 DEF Body, ToTlv, ToPacked, NUMBERS
  <2>4. want = v
    BY <1>4 DEF Want, NUMBERS
  <2>5. Stands(s, body)
    OBVIOUS
  <2> HIDE DEF got, body, want, d, tag, n
  <2>6. v \in Seq(BYTE) /\ Len(v) = n
    BY <2>1, FittedIs
  <2> HIDE DEF v
  <2>7. got = ReadBuf(s, tag, Len(v))
    BY <2>2, <2>6
  <2>8. Stands(s, IF s.wire = "tlv" THEN WriteBuf(tag, v) ELSE BitReversed(v))
    BY <2>3, <2>5
  <2>9. v \in Seq(BYTE) /\ tag \in Seq(BYTE)
    BY <2>1, <2>6
  <2>10. Takes(s, ReadBuf(s, tag, Len(v)),
               IF s.wire = "tlv" THEN WriteBuf(tag, v) ELSE BitReversed(v), v)
    BY <2>8, <2>9, BufTakes
  <2> QED
    BY <2>3, <2>4, <2>7, <2>10 DEF got, body, want
<1>5. CASE op.kind = "SubObj"
  <2> DEFINE w == IF value = None THEN None
                  ELSE IF AsNumber(version) <= 4 THEN [value EXCEPT ![2] = None] ELSE value
  <2>1. s.wire = "packed" /\ ~Eof(s)
    BY <1>5 DEF OBJECTS
  <2>2. got = ReadObj(s) /\ body = ToPacked(op, value, version) /\ want = w
    BY <1>5, <2>1 DEF ReadField, NUMBERS, Body, Want
  <2>3. Stands(s, ToPacked(op, value, version))
    BY <2>1 DEF Body
  <2> HIDE DEF got, body, want
  <2>4. Takes(s, ReadObj(s), ToPacked(op, value, version), w)
    BY <1>5, <2>1, <2>3, ObjTakes
  <2> QED
    BY <2>2, <2>4 DEF got, body, want
<1>6. CASE op.kind = "ObjList"
  <2> DEFINE w == IF AsNumber(version) <= 4 THEN [value EXCEPT ![3] = None] ELSE value
  <2>1. s.wire = "packed" /\ ~Eof(s)
    BY <1>6 DEF OBJECTS
  <2>2. got = ReadObjList(s) /\ body = ToPacked(op, value, version) /\ want = w
    BY <1>6, <2>1 DEF ReadField, NUMBERS, Body, Want
  <2>3. Stands(s, ToPacked(op, value, version))
    BY <2>1 DEF Body
  <2> HIDE DEF got, body, want
  <2>4. Takes(s, ReadObjList(s), ToPacked(op, value, version), w)
    BY <1>6, <2>1, <2>3, ListTakes
  <2> QED
    BY <2>2, <2>4 DEF got, body, want
<1> QED
  BY <1>1, <1>2, <1>3, <1>4, <1>5, <1>6, KindOf DEF NUMBERS

(* An object that is not there: behind the last byte it is absent, and     *)
(* before another tag than its own it is an error.                         *)
LEMMA ObjectMissing ==
  ASSUME NEW s, Sound(s), NEW op, op.kind \in OBJECTS
  PROVE  LET got == ReadField(s, op) IN
         /\ Eof(s) => got.ser = s /\ got.value = IF op.kind = "SubObj" THEN None ELSE <<>>
         /\ s.wire = "tlv" /\ ~Eof(s) /\ OtherTag(s) => got.ser.error
<1>1. CASE op.kind = "SubObj"
  <2>1. ReadField(s, op) = ReadObj(s)
    BY <1>1 DEF ReadField, NUMBERS
  <2> QED
    BY <1>1, <2>1, ReadObjIs
<1>2. CASE op.kind = "ObjList"
  <2>1. ReadField(s, op) = ReadObjList(s)
    BY <1>2 DEF ReadField, NUMBERS
  <2> QED
    BY <1>2, <2>1, ReadObjListIs
<1> QED
  BY <1>1, <1>2 DEF OBJECTS

(* The objects of a packed record take bytes, those of a tagged one none,  *)
(* and whatever is written there begins with no tag of an object.          *)
LEMMA ObjectBody ==
  ASSUME NEW op, IsOp(op), op.kind \in OBJECTS, NEW value, Fits(op, value),
         NEW version \in DWORD
  PROVE  /\ Body("tlv", op, value, version) = <<>>
         /\ Len(Body("packed", op, value, version)) > 0
<1>1. Body("tlv", op, value, version) = <<>>
  BY DEF Body, ToTlv, OBJECTS, NUMBERS
<1> DEFINE body == Body("packed", op, value, version)
           whole == Gate([op EXCEPT !.above = 4], AsNumber(version))
<1>2. body = ToPacked(op, value, version) /\ IsRead(op)
  BY DEF Body, IsRead
<1>3. CASE op.kind = "SubObj" /\ value = None
  <2>1. body = FOURCC.NULL
    BY <1>2, <1>3 DEF ToPacked, NUMBERS
  <2> QED
    BY <1>1, <2>1, FourccBytes DEF FOURCC
<1>4. CASE op.kind = "SubObj" /\ value # None
  <2> DEFINE a == value[1]
             ext == IF whole THEN value[2] ELSE <<>>
             d == value[3]
  <2>1. body = (a \o ext) \o d
    BY <1>2, <1>4 DEF ToPacked, NUMBERS
  <2>2. a \in Seq(BYTE) /\ ext \in Seq(BYTE) /\ d \in Seq(BYTE) /\ Len(d) = 4
    <3>1. value[1] \in DWORD /\ value[2] \in DWORD /\ value[3] \in DWORD
      BY <1>2, <1>4, SourceIs
    <3>2. <<>> \in Seq(BYTE)
      OBVIOUS
    <3> QED
      BY <3>1, <3>2, DwordSeq
  <2> HIDE DEF a, ext, d, body
  <2>3. a \o ext \in Seq(BYTE)
    BY <2>2, ConcatTyped
  <2>4. Len(body) = Len(a \o ext) + Len(d) /\ Len(a \o ext) \in Nat
    BY <2>1, <2>2, <2>3, ConcatTyped, LenProperties
  <2> QED
    BY <1>1, <2>2, <2>4 DEF body
<1>5. CASE op.kind = "ObjList"
  <2> DEFINE a == value[1]
             b == value[2]
             ext == IF whole THEN value[3] ELSE <<>>
             d == value[4]
  <2>1. body = ((a \o b) \o ext) \o d
    BY <1>2, <1>5 DEF ToPacked, NUMBERS
  <2>2. a \in Seq(BYTE) /\ b \in Seq(BYTE) /\ ext \in Seq(BYTE) /\ d \in Seq(BYTE) /\ Len(d) = 4
    <3>1. value[1] \in DWORD /\ value[2] \in DWORD /\ value[3] \in DWORD /\ value[4] \in DWORD
      BY <1>2, <1>5, SourceIs
    <3>2. <<>> \in Seq(BYTE)
      OBVIOUS
    <3> QED
      BY <3>1, <3>2, DwordSeq
  <2> HIDE DEF a, b, ext, d, body
  <2>3. a \o b \in Seq(BYTE)
    BY <2>2, ConcatTyped
  <2>4. (a \o b) \o ext \in Seq(BYTE)
    BY <2>2, <2>3, ConcatTyped
  <2>5. Len(body) = Len((a \o b) \o ext) + Len(d) /\ Len((a \o b) \o ext) \in Nat
    BY <2>1, <2>2, <2>4, ConcatTyped, LenProperties
  <2> QED
    BY <1>1, <2>2, <2>5 DEF body
<1> QED
  BY <1>3, <1>4, <1>5 DEF OBJECTS

LEMMA HeadByte ==
  ASSUME NEW a \in Seq(BYTE), NEW b \in Seq(BYTE), Len(a) > 0, a[1] # 0
  PROVE  a \o b \in Seq(BYTE) /\ Len(a \o b) > 0 /\ (a \o b)[1] # 0
<1>1. Len(a) \in Nat /\ Len(b) \in Nat /\ 1 \in 1 .. Len(a)
  BY LenProperties
<1>2. a \o b \in Seq(BYTE) /\ Len(a \o b) = Len(a) + Len(b) /\ (a \o b)[1] = a[1]
  BY <1>1, ConcatIs
<1> QED
  BY <1>1, <1>2

LEMMA TagByte ==
  /\ \A f \in DOMAIN FOURCC : FOURCC[f][1] # 0
  /\ \A op : IsRead(op) /\ op.kind \in NUMBERS \cup {"String"} => TagBytes(op)[1] # 0
<1>1. \A f \in DOMAIN FOURCC : FOURCC[f][1] # 0
  BY DEF FOURCC
<1>2. ASSUME NEW op, IsRead(op), op.kind \in NUMBERS \cup {"String"}
      PROVE  TagBytes(op)[1] # 0
  <2>1. CASE op.kind = "DwordF"
    <3>1. op.field \in DOMAIN FOURCC
      BY <1>2, <2>1, KindOf
    <3> QED
      BY <1>1, <2>1, <3>1 DEF TagBytes
  <2>2. CASE op.kind # "DwordF"
    <3>1. TagOf(op.field) \in 101 .. 133
      BY <1>2, <2>2, KindOf, TagOfIs DEF NUMBERS
    <3>2. TagBytes(op) = <<TagOf(op.field)>>
      BY <2>2 DEF TagBytes
    <3> DEFINE k == TagOf(op.field)
    <3>3. k \in 101 .. 133 /\ TagBytes(op) = <<k>>
      BY <3>1, <3>2
    <3> HIDE DEF k
    <3> QED
      BY <3>3
  <2> QED
    BY <2>1, <2>2
<1> QED
  BY <1>1, <1>2

LEMMA FirstByte ==
  ASSUME NEW op, IsRead(op), NEW value, Fits(op, value), NEW version \in DWORD,
         Len(ChunkOf("tlv", op, value, version)) > 0
  PROVE  ChunkOf("tlv", op, value, version)[1] # 0
<1> DEFINE chunk == ChunkOf("tlv", op, value, version)
<1>0. /\ \A f \in DOMAIN FOURCC : FOURCC[f] \in Seq(BYTE) /\ Len(FOURCC[f]) > 0 /\ FOURCC[f][1] # 0
      /\ Len(<<>>) = 0 /\ Len(chunk) > 0
  BY FourccBytes, TagByte
<1>1. CASE op.kind = "BaseInit"
  <2> DEFINE a == FOURCC.NPfl
             two == 2
             d == Default(value, <<>>)
             b == Fitted(d, two)
             nv == FOURCC.vers
             c == nv \o Reverse(version)
  <2>1. chunk = (a \o b) \o c
    BY <1>1 DEF ChunkOf, BaseChunk, WriteBuf, WriteNumber
  <2>2. d \in Seq(BYTE) /\ two \in Nat /\ a \in Seq(BYTE) /\ Len(a) > 0 /\ a[1] # 0
        /\ nv \in Seq(BYTE) /\ version \in Seq(BYTE)
    <3>1. "NPfl" \in DOMAIN FOURCC /\ "vers" \in DOMAIN FOURCC
      BY DEF FOURCC
    <3>2. d \in Seq(BYTE) /\ version \in Seq(BYTE)
      BY <1>1, SourceIs, DwordSeq
    <3> QED
      BY <1>0, <3>1, <3>2
  <2> HIDE DEF d, two, a, nv, chunk
  <2>3. b \in Seq(BYTE) /\ Reverse(version) \in Seq(BYTE)
    BY <2>2, FittedIs, ReverseIs
  <2>4. c \in Seq(BYTE)
    BY <2>2, <2>3, ConcatTyped
  <2> HIDE DEF b, c
  <2>5. a \o b \in Seq(BYTE) /\ Len(a \o b) > 0 /\ (a \o b)[1] # 0
    BY <2>2, <2>3, HeadByte
  <2>6. ((a \o b) \o c)[1] # 0
    BY <2>4, <2>5, HeadByte
  <2> QED
    BY <2>1, <2>6 DEF chunk
<1>2. CASE op.kind # "BaseInit" /\ ~Gate(op, AsNumber(version))
  <2>1. chunk = <<>>
    BY <1>2 DEF ChunkOf
  <2> QED
    BY <1>0, <2>1
<1>3. CASE op.kind # "BaseInit" /\ Gate(op, AsNumber(version))
  <2>1. chunk = ToTlv(op, value)
    BY <1>3 DEF ChunkOf
  <2> HIDE DEF chunk
  <2>2. CASE op.kind \in NUMBERS
    <3> DEFINE v == Default(value, Zeros(op.n))
               tag == TagBytes(op)
    <3>1. /\ v \in Seq(BYTE) /\ tag \in Seq(BYTE) /\ Len(tag) > 0 /\ tag[1] # 0
      BY <2>2, SourceIs, TagBytesAre, TagByte
    <3>2. chunk = tag \o Reverse(v)
      BY <2>1, <2>2 DEF ToTlv, WriteNumber, NUMBERS
    <3> HIDE DEF v, tag
    <3>3. Reverse(v) \in Seq(BYTE)
      BY <3>1, ReverseIs
    <3>4. (tag \o Reverse(v))[1] # 0
      BY <3>1, <3>3, HeadByte
    <3> QED
      BY <3>2, <3>4 DEF chunk
  <2>3. CASE op.kind = "String"
    <3> DEFINE v == Default(value, <<>>)
               tag == TagBytes(op)
               len == Reverse(LengthBytes(v))
    <3>1. /\ v \in Seq(BYTE) /\ Brief(v) /\ tag \in Seq(BYTE) /\ Len(tag) > 0 /\ tag[1] # 0
      BY <2>3, SourceIs, TagBytesAre, TagByte
    <3>2. chunk = (tag \o len) \o v
      BY <2>1, <2>3 DEF ToTlv, WriteString, NUMBERS
    <3> HIDE DEF v, tag
    <3>3. len \in Seq(BYTE)
      BY <3>1, LengthBytesAre, ReverseIs
    <3> HIDE DEF len
    <3>4. tag \o len \in Seq(BYTE) /\ Len(tag \o len) > 0 /\ (tag \o len)[1] # 0
      BY <3>1, <3>3, HeadByte
    <3>5. ((tag \o len) \o v)[1] # 0
      BY <3>1, <3>4, HeadByte
    <3> QED
      BY <3>2, <3>5 DEF chunk
  <2>4. CASE op.kind = "BufF"
    <3> DEFINE v == Default(value, <<>>)
               n == op.n
               tag == FOURCC[op.field]
    <3>1. v \in Seq(BYTE) /\ n \in Nat /\ tag \in Seq(BYTE) /\ Len(tag) > 0 /\ tag[1] # 0
      BY <1>0, <2>4, SourceIs, KindOf
    <3>2. chunk = tag \o Fitted(v, n)
      BY <2>1, <2>4 DEF ToTlv, WriteBuf, NUMBERS
    <3> HIDE DEF v, n, tag
    <3>3. Fitted(v, n) \in Seq(BYTE)
      BY <3>1, FittedIs
    <3>4. (tag \o Fitted(v, n))[1] # 0
      BY <3>1, <3>3, HeadByte
    <3> QED
      BY <3>2, <3>4 DEF chunk
  <2>5. CASE op.kind \in {"SubObj", "ObjList"}
    <3>1. chunk = <<>>
      BY <2>1, <2>5 DEF ToTlv, NUMBERS
    <3> QED
      BY <1>0, <3>1
  <2> QED
    BY <1>3, <2>2, <2>3, <2>4, <2>5, KindOf DEF NUMBERS
<1> QED
  BY <1>1, <1>2, <1>3

-----------------------------------------------------------------------------
(* Where the operations of the record begin in what is written: p[i] is    *)
(* where operation i ends. In a tagged record none begins as an object.    *)
Laid(p, n, bytes) ==
  /\ p \in [0 .. n -> Nat] /\ p[0] = 0 /\ p[n] = Len(bytes)
  /\ \A i \in 1 .. n :
       /\ p[i] = p[i - 1] + Len(Chunk(i)) /\ p[i] <= Len(bytes)
       /\ \A j \in 1 .. Len(Chunk(i)) : bytes[p[i - 1] + j] = Chunk(i)[j]
  /\ wire = "tlv" => \A i \in 0 .. n : p[i] < Len(bytes) => bytes[p[i] + 1] # 0

LEMMA LaidMore ==
  ASSUME NEW n \in Nat, NEW bytes \in Seq(BYTE), NEW p, Laid(p, n, bytes),
         Chunk(n + 1) \in Seq(BYTE),
         wire = "tlv" /\ Len(Chunk(n + 1)) > 0 => Chunk(n + 1)[1] # 0
  PROVE  LET q == [i \in 0 .. n + 1 |-> IF i <= n THEN p[i] ELSE p[n] + Len(Chunk(n + 1))] IN
         Laid(q, n + 1, bytes \o Chunk(n + 1))
<1> DEFINE chunk == Chunk(n + 1)
           more == bytes \o chunk
           a == Len(bytes)
           b == Len(chunk)
           m == n + 1
           q == [i \in 0 .. m |-> IF i <= n THEN p[i] ELSE p[n] + b]
<1>1. a \in Nat /\ b \in Nat /\ m \in Nat
  BY LenProperties
<1>2. /\ Len(more) = a + b
      /\ \A j \in 1 .. a : more[j] = bytes[j]
      /\ \A j \in 1 .. b : more[a + j] = chunk[j]
  BY ConcatIs
<1>3. /\ p \in [0 .. n -> Nat] /\ p[0] = 0 /\ p[n] = a
      /\ \A i \in 1 .. n :
           /\ p[i] = p[i - 1] + Len(Chunk(i)) /\ p[i] <= a
           /\ \A j \in 1 .. Len(Chunk(i)) : bytes[p[i - 1] + j] = Chunk(i)[j]
      /\ wire = "tlv" => \A i \in 0 .. n : p[i] < a => bytes[p[i] + 1] # 0
  BY DEF Laid
<1> HIDE DEF more, chunk, a, b
<1>4. /\ q \in [0 .. m -> Nat] /\ q[0] = 0 /\ q[m] = a + b
      /\ \A i \in 0 .. n : q[i] = p[i]
  BY <1>1, <1>3
<1> HIDE DEF q
<1>5. ASSUME NEW i \in 1 .. m
      PROVE  /\ q[i] = q[i - 1] + Len(Chunk(i)) /\ q[i] <= a + b
             /\ \A j \in 1 .. Len(Chunk(i)) : more[q[i - 1] + j] = Chunk(i)[j]
  <2>1. CASE i <= n
    <3>1. i \in 1 .. n /\ i - 1 \in 0 .. n /\ i \in 0 .. n
      BY <2>1
    <3>2. /\ q[i] = p[i] /\ q[i - 1] = p[i - 1]
          /\ p[i] = p[i - 1] + Len(Chunk(i)) /\ p[i] <= a
          /\ p[i] \in Nat /\ p[i - 1] \in Nat
      BY <1>3, <1>4, <3>1
    <3>3. ASSUME NEW j \in 1 .. Len(Chunk(i))
          PROVE  more[q[i - 1] + j] = Chunk(i)[j]
      <4>1. bytes[p[i - 1] + j] = Chunk(i)[j]
        BY <1>3, <3>1
      <4> DEFINE len == Len(Chunk(i))
      <4>2. len = p[i] - p[i - 1] \/ len \notin Int
        BY <3>2, SMTT(30)
      <4>3. j \in Int /\ 1 <= j /\ (len \in Int => j <= len)
        OBVIOUS
      <4>4. p[i - 1] + j \in 1 .. a
        <5>1. CASE len \in Int
          <6> DEFINE u == p[i - 1]
                     v == p[i]
          <6>1. u \in Nat /\ v \in Nat /\ v <= a /\ a \in Nat
            BY <1>1, <3>2
          <6>2. j \in Int /\ 1 <= j /\ j <= v - u
            BY <4>2, <4>3, <5>1
          <6> HIDE DEF u, v, len
          <6>3. u + j \in 1 .. a
            BY <6>1, <6>2
          <6> QED
            BY <6>3 DEF u
        <5>2. CASE len \notin Int
          BY <5>2, LenProperties
        <5> QED
          BY <5>1, <5>2
      <4>5. more[p[i - 1] + j] = bytes[p[i - 1] + j]
        BY <1>2, <4>4
      <4> QED
        BY <3>2, <4>1, <4>5
    <3> QED
      BY <1>1, <3>2, <3>3
  <2>2. CASE i = m
    <3>1. i - 1 = n /\ n \in 0 .. n /\ Chunk(i) = chunk
      BY <2>2 DEF chunk
    <3>2. q[i - 1] = a /\ q[i] = a + b
      BY <1>3, <1>4, <2>2, <3>1
    <3> QED
      BY <1>1, <1>2, <3>1, <3>2 DEF b
  <2> QED
    BY <2>1, <2>2
<1>6. ASSUME wire = "tlv", NEW i \in 0 .. m, q[i] < a + b
      PROVE  more[q[i] + 1] # 0
  <2>1. CASE i = m
    BY <1>1, <1>4, <1>6, <2>1
  <2>2. CASE i \in 0 .. n /\ p[i] < a
    <3>1. q[i] = p[i] /\ p[i] + 1 \in 1 .. a
      BY <1>1, <1>3, <1>4, <2>2, SMTT(30)
    <3> QED
      BY <1>2, <1>3, <1>6, <2>2, <3>1
  <2>3. CASE i \in 0 .. n /\ ~(p[i] < a)
    <3>1. q[i] = p[i] /\ p[i] <= a
      <4>1. i \in 1 .. n \/ i = 0
        BY <2>3
      <4> QED
        BY <1>1, <1>3, <1>4, <2>3, <4>1
    <3>2. q[i] = a /\ b > 0 /\ 1 \in 1 .. b
      BY <1>1, <1>3, <1>6, <2>3, <3>1
    <3> QED
      BY <1>2, <1>6, <3>2 DEF b, chunk
  <2> QED
    BY <2>1, <2>2, <2>3
<1>7. Laid(q, m, more)
  BY <1>2, <1>4, <1>5, <1>6 DEF Laid
<1> QED
  BY <1>7 DEF q, b, chunk, more

-----------------------------------------------------------------------------
(* What reading keeps: before operation k the reader stands where that     *)
(* operation begins, or behind the last byte of a file that is cut; and of *)
(* the operations before it that the version has, each has its field.      *)
Before(k) == {j \in 1 .. Len(Ops(class)) : j < k /\ Gate(Ops(class)[j], AsNumber(Version))}
Place(i) == Cardinality(Before(i + 1))
Wanted(i) == Want(wire, Ops(class)[i], Source(i), Version)
Right(i, ser, out) ==
  \/ out[Place(i)] = [op |-> Ops(class)[i], value |-> Wanted(i)]
  \/ ser.error /\ Place(i) = Len(out)
  \/ Absent(out[Place(i)]) /\ Eof(ser)
BeginsWith(data, bytes) ==
  Len(data) <= Len(bytes) /\ \A j \in 1 .. Len(data) : data[j] = bytes[j]
Plain == wire = "packed" \/ IsScalar(class)
Kept(p, k, bytes, ser, out) ==
  /\ BeginsWith(ser.data, bytes)
  /\ k = 1 => ser.cursor = 0
  /\ k > 1 /\ ~ser.error => ser.version = AsNumber(Version)
  /\ ~ser.error => ser.cursor = p[k - 1] \/ Eof(ser)
  /\ Plain /\ Len(ser.data) = Len(bytes) => ~ser.error /\ ser.cursor = p[k - 1]
  /\ (\E S : out \in Seq(S)) /\ Len(out) = Cardinality(Before(k))
  /\ \A i \in Before(k) : Right(i, ser, out)

LEMMA LaidAt ==
  ASSUME NEW n \in Nat, NEW bytes \in Seq(BYTE), NEW p, Laid(p, n, bytes), NEW i \in 1 .. n
  PROVE  /\ i - 1 \in 0 .. n /\ p[i - 1] \in Nat /\ p[i] \in Nat /\ Len(Chunk(i)) \in Int
         /\ p[i] = p[i - 1] + Len(Chunk(i)) /\ p[i] <= Len(bytes) /\ Len(bytes) \in Nat
         /\ \A j \in 1 .. Len(Chunk(i)) : bytes[p[i - 1] + j] = Chunk(i)[j]
         /\ wire = "tlv" /\ p[i - 1] < Len(bytes) => bytes[p[i - 1] + 1] # 0
<1>1. i - 1 \in 0 .. n /\ i \in 0 .. n /\ Len(bytes) \in Nat
  BY LenProperties
<1> QED
  BY <1>1, SMTT(30) DEF Laid

LEMMA StandsAt ==
  ASSUME NEW n \in Nat, NEW bytes \in Seq(BYTE), NEW p, Laid(p, n, bytes), NEW i \in 1 .. n,
         Chunk(i) \in Seq(BYTE), NEW s, Sound(s), BeginsWith(s.data, bytes),
         s.cursor = p[i - 1] \/ Eof(s)
  PROVE  Stands(s, Chunk(i))
<1>1. s.cursor \in Nat /\ Len(s.data) \in Nat /\ Len(Chunk(i)) \in Nat
  BY SoundFields, LenProperties
<1> SUFFICES ASSUME NEW j \in 1 .. Len(Chunk(i)), s.cursor + j <= Len(s.data)
             PROVE  s.data[s.cursor + j] = Chunk(i)[j]
  BY DEF Stands
<1>2. s.cursor = p[i - 1]
  BY <1>1 DEF Eof
<1>3. bytes[p[i - 1] + j] = Chunk(i)[j]
  BY LaidAt
<1>4. s.cursor + j \in 1 .. Len(s.data)
  BY <1>1
<1> QED
  BY <1>2, <1>3, <1>4 DEF BeginsWith

LEMMA NoObjectThere ==
  ASSUME NEW n \in Nat, NEW bytes \in Seq(BYTE), NEW p, Laid(p, n, bytes), NEW i \in 1 .. n,
         wire = "tlv", NEW s, Sound(s), BeginsWith(s.data, bytes), s.cursor = p[i - 1], ~Eof(s)
  PROVE  OtherTag(s)
<1>1. s.cursor \in Nat /\ Len(s.data) \in Nat /\ Len(bytes) \in Nat
  BY SoundFields, LenProperties
<1>2. s.cursor < Len(s.data) /\ s.cursor < Len(bytes)
  BY <1>1 DEF Eof, BeginsWith
<1>3. bytes[s.cursor + 1] # 0
  <2>1. wire = "tlv" => (p[i - 1] < Len(bytes) => bytes[p[i - 1] + 1] # 0)
    BY DEF Laid
  <2> QED
    BY <1>2, <2>1
<1>4. s.cursor + 1 \in 1 .. Len(s.data)
  BY <1>1, <1>2
<1>5. s.data[s.cursor + 1] # 0
  BY <1>3, <1>4 DEF BeginsWith
<1> DEFINE none == 0
           one == 1
           x == At(s, none, one)
<1>6. /\ none \in Nat /\ one \in Nat /\ s.cursor + (none + one) <= Len(s.data)
      /\ (s.cursor + none) + 1 = s.cursor + 1 /\ 1 \in 1 .. one
  BY <1>1, <1>2
<1> HIDE DEF none, one
<1>7. x[1] = s.data[(s.cursor + none) + 1]
  BY <1>6, AtIs
<1>8. x # <<0>>
  BY <1>5, <1>6, <1>7
<1> QED
  BY <1>8 DEF OtherTag, none, one

LEMMA TakenOn ==
  ASSUME NEW n \in Nat, NEW bytes \in Seq(BYTE), NEW p, Laid(p, n, bytes), NEW i \in 1 .. n,
         NEW s, Sound(s), ~s.error, BeginsWith(s.data, bytes),
         s.cursor = p[i - 1] \/ Eof(s), NEW want,
         NEW got, Takes(s, got, Chunk(i), want), Follows(s, got.ser)
  PROVE  /\ ~got.ser.error => got.ser.cursor = p[i] \/ Eof(got.ser)
         /\ s.cursor = p[i - 1] /\ Len(s.data) = Len(bytes) =>
              ~got.ser.error /\ got.ser.cursor = p[i]
<1> DEFINE t == got.ser
<1>1. /\ s.cursor \in Nat /\ Len(s.data) \in Nat
      /\ p[i - 1] \in Nat /\ p[i] \in Nat /\ Len(Chunk(i)) \in Int
      /\ p[i] = p[i - 1] + Len(Chunk(i)) /\ p[i] <= Len(bytes)
  BY SoundFields, LaidAt
<1>2. t.data = s.data /\ s.cursor <= t.cursor /\ t.cursor \in Nat
  BY SoundFields DEF Follows
<1>3. /\ Ensure(s, Len(Chunk(i))) => ~t.error
      /\ ~t.error => t.cursor = s.cursor + Len(Chunk(i))
  BY DEF Takes
<1> HIDE DEF t
<1>4. ~t.error => t.cursor = p[i] \/ Eof(t)
  BY <1>1, <1>2, <1>3, SMTT(30) DEF Eof
<1>5. s.cursor = p[i - 1] /\ Len(s.data) = Len(bytes) => ~t.error /\ t.cursor = p[i]
  BY <1>1, <1>3 DEF Ensure
<1> QED
  BY <1>4, <1>5 DEF t

LEMMA ChunkIs ==
  ASSUME Shape, NEW i \in 1 .. Len(Ops(class))
  PROVE  LET op == Ops(class)[i]
             value == Source(i) IN
         /\ IsRead(op) /\ Fits(op, value) /\ Version \in DWORD
         /\ (op.kind = "BaseInit" <=> i = 1) /\ (i # 1 => IsOp(op)) /\ (i = 1 => op = BaseInit)
         /\ Chunk(i) \in Seq(BYTE)
         /\ i = 1 => Chunk(i) = BaseChunk(wire, value, Version)
         /\ i # 1 /\ ~Gate(op, AsNumber(Version)) => Chunk(i) = <<>>
         /\ i # 1 /\ Gate(op, AsNumber(Version)) => Chunk(i) = Body(wire, op, value, Version)
         /\ wire = "tlv" /\ Len(Chunk(i)) > 0 => Chunk(i)[1] # 0
<1> DEFINE op == Ops(class)[i]
           value == Source(i)
<1>1. class \in DOMAIN Specs /\ fill \in Fills /\ vers \in {None} \cup DWORD
  BY DEF Shape
<1>2. /\ IsRead(op) /\ (op.kind = "BaseInit" <=> i = 1) /\ (i # 1 => IsOp(op))
      /\ (i = 1 => op = BaseInit) /\ Fits(op, value)
  BY <1>1, OpsAre DEF Source
<1>3. Version \in DWORD
  BY <1>1, VersionIs
<1>4. Chunk(i) = ChunkOf(wire, op, value, Version)
  BY DEF Chunk
<1> HIDE DEF op, value
<1>5. Chunk(i) \in Seq(BYTE)
  BY <1>2, <1>3, <1>4, ChunkTyped
<1>6. /\ i = 1 => Chunk(i) = BaseChunk(wire, value, Version)
      /\ i # 1 /\ ~Gate(op, AsNumber(Version)) => Chunk(i) = <<>>
      /\ i # 1 /\ Gate(op, AsNumber(Version)) => Chunk(i) = Body(wire, op, value, Version)
  BY <1>2, <1>4 DEF ChunkOf, Body
<1>7. wire = "tlv" /\ Len(Chunk(i)) > 0 => Chunk(i)[1] # 0
  BY <1>2, <1>3, <1>4, FirstByte
<1> QED
  BY <1>2, <1>3, <1>5, <1>6, <1>7 DEF op, value

(* What the next operation, if the version has it, gives.                  *)
Gives(p, k, bytes, s, got) ==
  LET op == Ops(class)[k] IN
  /\ Follows(s, got.ser)
  /\ ~got.ser.error => got.ser.version = AsNumber(Version)
  /\ ~got.ser.error => got.ser.cursor = p[k] \/ Eof(got.ser)
  /\ Plain /\ Len(s.data) = Len(bytes) => ~got.ser.error /\ got.ser.cursor = p[k]
  /\ \/ got.ser.error
     \/ got.value = Wanted(k)
     \/ Absent([op |-> op, value |-> got.value]) /\ Eof(got.ser)

LEMMA FieldGives ==
  ASSUME Shape, NEW bytes \in Seq(BYTE), NEW p, Laid(p, Len(Ops(class)), bytes),
         NEW k \in 1 .. Len(Ops(class)), k = 1 \/ Gate(Ops(class)[k], AsNumber(Version)),
         NEW s, Sound(s), s.wire = wire, ~s.error, NEW out, Kept(p, k, bytes, s, out)
  PROVE  Gives(p, k, bytes, s, ReadField(s, Ops(class)[k]))
<1> DEFINE op == Ops(class)[k]
           value == Source(k)
           n == Len(Ops(class))
           got == ReadField(s, op)
           t == got.ser
           want == Wanted(k)
<1>1. /\ n \in Nat /\ k \in 1 .. n /\ Laid(p, n, bytes) /\ Chunk(k) \in Seq(BYTE)
      /\ IsRead(op) /\ Fits(op, value) /\ Version \in DWORD
      /\ (op.kind = "BaseInit" <=> k = 1) /\ (k # 1 => IsOp(op))
      /\ (k = 1 => Chunk(k) = BaseChunk(wire, value, Version))
      /\ (k # 1 => Chunk(k) = Body(wire, op, value, Version))
      /\ wire \in {"tlv", "packed"}
  <2>1. class \in DOMAIN Specs /\ wire \in {"tlv", "packed"}
    BY DEF Shape
  <2>2. n \in Nat
    BY <2>1, OpsAre
  <2> QED
    BY <2>1, <2>2, ChunkIs
<1>2. /\ BeginsWith(s.data, bytes) /\ (s.cursor = p[k - 1] \/ Eof(s))
      /\ (k > 1 => s.version = AsNumber(Version))
      /\ (Plain /\ Len(s.data) = Len(bytes) => s.cursor = p[k - 1])
  BY DEF Kept
<1>3. Stands(s, Chunk(k))
  <2> HIDE DEF n
  <2> QED
    BY <1>1, <1>2, StandsAt
<1>4. Follows(s, t) /\ (op.kind # "BaseInit" => t.version = s.version)
  BY <1>1, ReadFieldFollows
<1>5. want = Want(wire, op, value, Version)
  BY DEF Wanted
<1> HIDE DEF op, value, n, got, want
<1>6. ASSUME Takes(s, got, Chunk(k), want)
      PROVE  /\ ~t.error => t.cursor = p[k] \/ Eof(t)
             /\ Plain /\ Len(s.data) = Len(bytes) => ~t.error /\ t.cursor = p[k]
             /\ t.error \/ got.value = want
  <2>1. /\ ~t.error => t.cursor = p[k] \/ Eof(t)
        /\ s.cursor = p[k - 1] /\ Len(s.data) = Len(bytes) => ~t.error /\ t.cursor = p[k]
    <3>1. /\ n \in Nat /\ k \in 1 .. n /\ Laid(p, n, bytes) /\ BeginsWith(s.data, bytes)
          /\ (s.cursor = p[k - 1] \/ Eof(s))
      BY <1>1, <1>2
    <3> QED
      BY <1>4, <1>6, <3>1, TakenOn
  <2> QED
    BY <1>2, <1>6, <2>1 DEF Takes
<1>7. CASE k = 1
  <2>1. op.kind = "BaseInit" /\ Chunk(k) = BaseChunk(s.wire, value, Version)
        /\ Default(value, <<>>) \in Seq(BYTE)
    BY <1>1, <1>7, SourceIs
  <2>2. got = ReadBase(s)
    BY <2>1 DEF ReadField, NUMBERS, got
  <2>3. want = <<Fitted(Default(value, <<>>), 2), Version>>
    BY <1>5, <2>1 DEF Want, NUMBERS
  <2>4. Stands(s, BaseChunk(s.wire, value, Version))
    BY <1>3, <2>1
  <2>5. /\ Takes(s, ReadBase(s), BaseChunk(s.wire, value, Version),
                 <<Fitted(Default(value, <<>>), 2), Version>>)
        /\ ~ReadBase(s).ser.error => ReadBase(s).ser.version = AsNumber(Version)
    BY <1>1, <2>1, <2>4, BaseTakes
  <2>6. Takes(s, got, Chunk(k), want) /\ (~t.error => t.version = AsNumber(Version))
    BY <2>1, <2>2, <2>3, <2>5
  <2> QED
    BY <1>4, <1>6, <2>6 DEF Gives, got, op, want
<1>8. CASE k # 1
  <2>1. /\ IsOp(op) /\ op.kind # "BaseInit" /\ s.version = AsNumber(Version)
        /\ Chunk(k) = Body(s.wire, op, value, Version) /\ k > 1
    BY <1>1, <1>2, <1>8
  <2>2. t.version = AsNumber(Version)
    BY <1>4, <2>1
  <2>3. CASE op.kind \in OBJECTS => s.wire = "packed" /\ ~Eof(s)
    <3>1. Stands(s, Body(s.wire, op, value, Version))
      BY <1>3, <2>1
    <3>2. Takes(s, ReadField(s, op), Body(s.wire, op, value, Version),
                Want(s.wire, op, value, Version))
      BY <1>1, <2>1, <2>3, <3>1, FieldTakes
    <3>3. Takes(s, got, Chunk(k), want)
      BY <1>5, <2>1, <3>2 DEF got
    <3> QED
      BY <1>4, <1>6, <2>2, <3>3 DEF Gives, got, op, want
  <2>4. CASE op.kind \in OBJECTS /\ Eof(s)
    <3>1. t = s /\ got.value = IF op.kind = "SubObj" THEN None ELSE <<>>
      BY <2>4, ObjectMissing DEF got
    <3>2. Eof(t) /\ ~t.error
      BY <2>4, <3>1
    <3>3. Absent([op |-> op, value |-> got.value])
      BY <2>4, <3>1 DEF Absent, OBJECTS
    <3>4. ~(Plain /\ Len(s.data) = Len(bytes))
      <4> SUFFICES ASSUME Plain, Len(s.data) = Len(bytes)  PROVE FALSE
        OBVIOUS
      <4>1. s.cursor = p[k - 1]
        BY <1>2
      <4>2. wire = "packed"
        <5>1. ~IsScalar(class)
          <6>1. k \in DOMAIN Ops(class)
            BY <1>1, OpsAre DEF Shape, n
          <6> QED
            BY <2>4, <6>1 DEF IsScalar, OBJECTS, op
        <5> QED
          BY <5>1 DEF Plain
      <4>3. Len(Chunk(k)) > 0
        BY <1>1, <2>1, <2>4, <4>2, ObjectBody
      <4>4. /\ p[k - 1] \in Nat /\ p[k] \in Nat /\ Len(Chunk(k)) \in Int
            /\ p[k] = p[k - 1] + Len(Chunk(k)) /\ p[k] <= Len(bytes) /\ Len(bytes) \in Nat
        BY <1>1, LaidAt
      <4> QED
        BY <2>4, <4>1, <4>3, <4>4 DEF Eof
    <3> QED
      BY <1>4, <2>2, <3>2, <3>3, <3>4 DEF Gives, got, op
  <2>5. CASE op.kind \in OBJECTS /\ s.wire # "packed" /\ ~Eof(s)
    <3>1. wire = "tlv" /\ s.cursor = p[k - 1]
      BY <1>1, <1>2, <2>5
    <3>2. n \in Nat /\ k \in 1 .. n /\ Laid(p, n, bytes) /\ BeginsWith(s.data, bytes) /\ ~Eof(s)
      BY <1>1, <1>2, <2>5
    <3>3. OtherTag(s)
      BY <3>1, <3>2, NoObjectThere
    <3>4. t.error
      BY <2>5, <3>1, <3>3, ObjectMissing DEF got
    <3>5. ~Plain
      <4>1. k \in DOMAIN Ops(class)
        BY <1>1, OpsAre DEF Shape, n
      <4>2. ~IsScalar(class)
        BY <2>5, <4>1 DEF IsScalar, OBJECTS, op
      <4> QED
        BY <3>1, <4>2 DEF Plain
    <3> QED
      BY <1>4, <3>4, <3>5 DEF Gives, got, op
  <2> QED
    BY <2>3, <2>4, <2>5
<1> QED
  BY <1>7, <1>8

LEMMA BeforeIs ==
  ASSUME Shape, NEW k \in 1 .. Len(Ops(class))
  PROVE  /\ IsFiniteSet(Before(k)) /\ Cardinality(Before(k)) \in Nat
         /\ \A i \in Before(k) : Place(i) \in 1 .. Cardinality(Before(k))
         /\ k # 1 /\ ~Gate(Ops(class)[k], AsNumber(Version)) => Before(k + 1) = Before(k)
         /\ k = 1 \/ Gate(Ops(class)[k], AsNumber(Version)) =>
              /\ Before(k + 1) = Before(k) \cup {k}
              /\ Place(k) = Cardinality(Before(k)) + 1
<1> DEFINE n == Len(Ops(class))
<1>1. n \in Nat /\ k \in Nat
  BY OpsAre DEF Shape
<1>2. \A x : IsFiniteSet(Before(x))
  <2>1. IsFiniteSet(1 .. n)
    BY <1>1, FS_Interval
  <2>2. \A x : Before(x) \subseteq 1 .. n
    BY DEF Before
  <2> QED
    BY <2>1, <2>2, FS_Subset
<1>3. Cardinality(Before(k)) \in Nat
  BY <1>2, FS_CardinalityType
<1>4. ASSUME NEW i \in Before(k)
      PROVE  Place(i) \in 1 .. Cardinality(Before(k))
  <2>1. i \in Nat /\ i < k /\ i \in Before(i + 1) /\ Before(i + 1) \subseteq Before(k)
    BY <1>1 DEF Before
  <2>2. Cardinality(Before(i + 1)) <= Cardinality(Before(k))
    BY <1>2, <2>1, FS_Subset
  <2>3. Cardinality(Before(i + 1)) \in Nat /\ Cardinality(Before(i + 1)) # 0
    BY <1>2, <2>1, FS_CardinalityType, FS_EmptySet
  <2> QED
    BY <1>3, <2>2, <2>3 DEF Place
<1>5. ASSUME k # 1, ~Gate(Ops(class)[k], AsNumber(Version))
      PROVE  Before(k + 1) = Before(k)
  BY <1>1, <1>5 DEF Before
<1>6. ASSUME k = 1 \/ Gate(Ops(class)[k], AsNumber(Version))
      PROVE  /\ Before(k + 1) = Before(k) \cup {k}
             /\ Place(k) = Cardinality(Before(k)) + 1
  <2>1. Gate(Ops(class)[k], AsNumber(Version))
    <3>1. CASE k = 1
      <4>1. Ops(class)[k] = BaseInit /\ AsNumber(Version) \in Nat
        BY <3>1, OpsAre, VersionIs DEF Shape
      <4> QED
        BY <4>1 DEF Gate, BaseInit, Op, Always
    <3> QED
      BY <1>6, <3>1
  <2>2. Before(k + 1) = Before(k) \cup {k} /\ k \notin Before(k)
    BY <1>1, <2>1 DEF Before
  <2>3. Cardinality(Before(k) \cup {k}) = Cardinality(Before(k)) + 1
    BY <1>2, <2>2, FS_AddElement
  <2> QED
    BY <2>2, <2>3 DEF Place
<1> QED
  BY <1>2, <1>3, <1>4, <1>5, <1>6

LEMMA AppendIs ==
  ASSUME NEW S, NEW out \in Seq(S), NEW x
  PROVE  /\ \E T : Append(out, x) \in Seq(T)
         /\ Len(Append(out, x)) = Len(out) + 1
         /\ Append(out, x)[Len(out) + 1] = x
         /\ \A k \in 1 .. Len(out) : Append(out, x)[k] = out[k]
<1> DEFINE T == S \cup {x}
           n == Len(out)
<1>1. n \in Nat /\ out \in [1 .. n -> T]
  <2>1. out \in [1 .. n -> S] /\ n \in Nat
    BY LenProperties
  <2> HIDE DEF n
  <2> QED
    BY <2>1
<1>2. out \in Seq(T) /\ x \in T
  BY <1>1, MadeSeq
<1> HIDE DEF T
<1> QED
  BY <1>2, AppendProperties

LEMMA KeptOn ==
  ASSUME Shape, NEW bytes \in Seq(BYTE), NEW p, Laid(p, Len(Ops(class)), bytes),
         NEW k \in 1 .. Len(Ops(class)), NEW state, state = [ser |-> state.ser, out |-> state.out],
         Sound(state.ser), state.ser.wire = wire, ~state.ser.error,
         Kept(p, k, bytes, state.ser, state.out), k = 1 => state.ser.version = 0
  PROVE  LET next == ReadStep(state, Ops(class)[k]) IN
         Kept(p, k + 1, bytes, next.ser, next.out)
<1> DEFINE s == state.ser
           out == state.out
           op == Ops(class)[k]
           next == ReadStep(state, op)
           c == Cardinality(Before(k))
           here == k = 1 \/ Gate(op, AsNumber(Version))
<1>1. /\ k \in Nat /\ k >= 1 /\ (k + 1) - 1 = k /\ k + 1 > 1 /\ k + 1 # 1
  OBVIOUS
<1>2. /\ BeginsWith(s.data, bytes) /\ (k = 1 => s.cursor = 0)
      /\ (k > 1 => s.version = AsNumber(Version))
      /\ (s.cursor = p[k - 1] \/ Eof(s))
      /\ (Plain /\ Len(s.data) = Len(bytes) => s.cursor = p[k - 1])
      /\ (\E S : out \in Seq(S)) /\ Len(out) = c
      /\ \A i \in Before(k) : Right(i, s, out)
  BY DEF Kept
<1>3. /\ c \in Nat /\ \A i \in Before(k) : Place(i) \in 1 .. c
      /\ (~here => Before(k + 1) = Before(k))
      /\ (here => Before(k + 1) = Before(k) \cup {k} /\ Place(k) = c + 1)
      /\ (here => Cardinality(Before(k + 1)) = c + 1)
  BY BeforeIs DEF Place
<1>4. Gate(op, s.version) <=> here
  <2>1. CASE k = 1
    <3>1. op = BaseInit /\ s.version = 0
      BY <2>1, ChunkIs
    <3> QED
      BY <2>1, <3>1 DEF Gate, BaseInit, Op, Always
  <2>2. CASE k # 1
    BY <1>1, <1>2, <2>2
  <2> QED
    BY <2>1, <2>2
<1>5. Kept(p, k, bytes, s, out)
  OBVIOUS
<1> HIDE DEF c
<1>6. CASE ~here
  <2>1. next.ser = s /\ next.out = out
    BY <1>4, <1>6 DEF ReadStep
  <2>2. Chunk(k) = <<>> /\ k # 1
    BY <1>6, ChunkIs
  <2>3. p[k] = p[k - 1]
    <3> DEFINE n == Len(Ops(class))
    <3>1. n \in Nat /\ k \in 1 .. n /\ Laid(p, n, bytes)
      BY OpsAre DEF Shape
    <3> HIDE DEF n
    <3>2. p[k] = p[k - 1] + Len(Chunk(k)) /\ p[k - 1] \in Nat
      BY <3>1, LaidAt
    <3> QED
      BY <2>2, <3>2
  <2> HIDE DEF next, s, out
  <2>4. Kept(p, k + 1, bytes, s, out)
    BY <1>1, <1>2, <1>3, <1>5, <1>6, <2>2, <2>3 DEF Kept
  <2> QED
    BY <2>1, <2>4 DEF next, op
<1>7. CASE here
  <2> DEFINE got == ReadField(s, op)
             x == [op |-> op, value |-> got.value]
             t == got.ser
             more == Append(out, x)
  <2>1. next.ser = t /\ next.out = more
    BY <1>4, <1>7 DEF ReadStep
  <2>2. Gives(p, k, bytes, s, got)
    <3> HIDE DEF out
    <3> QED
      BY <1>5, <1>7, FieldGives
  <2>3. /\ Follows(s, t)
        /\ ~t.error => t.version = AsNumber(Version)
        /\ ~t.error => t.cursor = p[k] \/ Eof(t)
        /\ Plain /\ Len(s.data) = Len(bytes) => ~t.error /\ t.cursor = p[k]
        /\ t.error \/ got.value = Wanted(k) \/ (Absent(x) /\ Eof(t))
    BY <2>2 DEF Gives
  <2>4. t.data = s.data /\ s.cursor <= t.cursor /\ s.cursor \in Nat /\ t.cursor \in Nat
        /\ Len(s.data) \in Nat
    BY <2>3, SoundFields DEF Follows
  <2> HIDE DEF x, t, got
  <2>5. /\ (\E T : more \in Seq(T)) /\ Len(more) = c + 1 /\ more[c + 1] = x
        /\ \A i \in 1 .. c : more[i] = out[i]
    <3>1. PICK S : out \in Seq(S)
      BY <1>2
    <3> HIDE DEF out
    <3>2. out \in Seq(S)
      BY <3>1
    <3>3. \E T : Append(out, x) \in Seq(T)
      BY <3>2, AppendIs
    <3>4. Len(Append(out, x)) = Len(out) + 1 /\ Append(out, x)[Len(out) + 1] = x
      BY <3>2, AppendIs
    <3>5. \A i \in 1 .. Len(out) : Append(out, x)[i] = out[i]
      BY <3>2, AppendIs
    <3> QED
      BY <1>2, <3>3, <3>4, <3>5
  <2> HIDE DEF more, next, s, out
  <2>6. Eof(s) => Eof(t)
    BY <2>4 DEF Eof
  <2>7. ASSUME NEW i \in Before(k)  PROVE Right(i, t, more)
    <3>1. Right(i, s, out) /\ Place(i) \in 1 .. c /\ more[Place(i)] = out[Place(i)]
      BY <1>2, <1>3, <2>5
    <3>2. ~s.error
      BY DEF s
    <3> QED
      BY <2>6, <3>1, <3>2 DEF Right
  <2>8. Right(k, t, more)
    <3>1. Place(k) = c + 1 /\ Place(k) = Len(more) /\ more[Place(k)] = x
      BY <1>3, <1>7, <2>5
    <3>2. got.value = Wanted(k) => x = [op |-> Ops(class)[k], value |-> Wanted(k)]
      BY DEF x, op
    <3> QED
      BY <2>3, <3>1, <3>2 DEF Right
  <2>9. \A i \in Before(k + 1) : Right(i, t, more)
    BY <1>3, <1>7, <2>7, <2>8
  <2>10. BeginsWith(t.data, bytes)
    BY <1>2, <2>4
  <2>11. Kept(p, k + 1, bytes, t, more)
    <3>1. Len(more) = Cardinality(Before(k + 1))
      BY <1>3, <1>7, <2>5
    <3>2. /\ (~t.error => t.cursor = p[(k + 1) - 1] \/ Eof(t))
          /\ (Plain /\ Len(t.data) = Len(bytes) => ~t.error /\ t.cursor = p[(k + 1) - 1])
      BY <1>1, <2>3, <2>4
    <3> QED
      BY <1>1, <2>3, <2>5, <2>9, <2>10, <3>1, <3>2 DEF Kept
  <2> QED
    BY <2>1, <2>11 DEF next, op
<1> QED
  BY <1>6, <1>7

(* How much of the record is laid down.                                    *)
LaidDown == IF phase = "write" THEN at - 1 ELSE Len(Ops(class))
InPlace ==
  /\ phase = "read" /\ at = 1 => reader.ser.version = 0
  /\ phase = "done" => reader.ser.error \/ at > Len(Ops(class))
  /\ \E p : /\ Laid(p, LaidDown, writer.bytes)
            /\ phase # "write" => Kept(p, at, writer.bytes, reader.ser, reader.out)

(* What a record's layout and what reading keeps depend on.                *)
LEMMA LayoutSame ==
  ASSUME UNCHANGED <<class, wire, fill, vers>>
  PROVE  /\ Version' = Version /\ Ops(class)' = Ops(class)
         /\ \A p, n, bytes : Laid(p, n, bytes)' <=> Laid(p, n, bytes)
         /\ \A p, k, bytes, ser, out :
              Kept(p, k, bytes, ser, out)' <=> Kept(p, k, bytes, ser, out)
<1>1. Version' = Version /\ Ops(class)' = Ops(class)
  BY DEF Version, Default, Ops
<1>2. \A i : Source(i)' = Source(i)
  BY <1>1 DEF Source
<1>3. \A i : Chunk(i)' = Chunk(i) /\ Wanted(i)' = Wanted(i)
  BY <1>1, <1>2 DEF Chunk, Wanted
<1>4. \A k : Before(k)' = Before(k)
  BY <1>1 DEF Before
<1>5. \A i : Place(i)' = Place(i)
  BY <1>4 DEF Place
<1>6. \A i, ser, out : Right(i, ser, out)' <=> Right(i, ser, out)
  BY <1>1, <1>3, <1>5 DEF Right
<1>7. Plain' <=> Plain
  BY DEF Plain, IsScalar, Ops
<1>8. \A p, n, bytes : Laid(p, n, bytes)' <=> Laid(p, n, bytes)
  BY <1>3 DEF Laid
<1>9. \A p, k, bytes, ser, out : Kept(p, k, bytes, ser, out)' <=> Kept(p, k, bytes, ser, out)
  BY <1>1, <1>4, <1>6, <1>7 DEF Kept
<1> QED
  BY <1>1, <1>8, <1>9

LEMMA InPlaceInit == Init => InPlace
<1> SUFFICES ASSUME Init  PROVE InPlace
  OBVIOUS
<1> DEFINE p == [i \in 0 .. 0 |-> 0]
           none == <<>>
<1>1. phase = "write" /\ at = 1 /\ writer.bytes = none /\ LaidDown = 0
  BY DEF Init, LaidDown
<1>2. p \in [0 .. 0 -> Nat] /\ p[0] = 0 /\ Len(none) = 0 /\ 1 .. 0 = {}
      /\ \A i \in 0 .. 0 : p[i] = 0
  OBVIOUS
<1> HIDE DEF p, none
<1>3. Laid(p, 0, none)
  BY <1>2 DEF Laid
<1> QED
  BY <1>1, <1>3 DEF InPlace

LEMMA InPlaceWrite ==
  ASSUME Shape, InPlace, WriteOp
  PROVE  InPlace'
<1> DEFINE n == at - 1
           bytes == writer.bytes
           q(p) == [i \in 0 .. n + 1 |-> IF i <= n THEN p[i] ELSE p[n] + Len(Chunk(n + 1))]
<1>1. /\ phase = "write" /\ phase' = "write" /\ at' = at + 1
      /\ UNCHANGED <<class, wire, fill, vers, reader>> /\ at <= Len(Ops(class))
  BY DEF WriteOp, record
<1>2. at \in Nat /\ 1 <= at /\ Len(Ops(class)) \in Nat /\ writer \in Writer
  BY OpsAre DEF Shape
<1>3. n \in Nat /\ n + 1 = at /\ at' - 1 = at /\ at \in 1 .. Len(Ops(class))
  BY <1>1, <1>2
<1>4. bytes \in Seq(BYTE)
  BY <1>2 DEF Writer
<1>5. LaidDown = n /\ LaidDown' = at
  BY <1>1, <1>3 DEF LaidDown
<1>6. PICK p : Laid(p, LaidDown, writer.bytes)
  BY DEF InPlace
<1>7. writer'.bytes = bytes \o Chunk(at)
  BY WriteStep
<1>8. Chunk(at) \in Seq(BYTE) /\ (wire = "tlv" /\ Len(Chunk(at)) > 0 => Chunk(at)[1] # 0)
  BY <1>3, ChunkIs
<1> HIDE DEF n, bytes
<1>9. Laid(p, n, bytes)
  BY <1>5, <1>6 DEF bytes
<1>10. Chunk(n + 1) = Chunk(at)
  BY <1>3
<1>11. Laid(q(p), n + 1, bytes \o Chunk(n + 1))
  BY <1>3, <1>4, <1>8, <1>9, <1>10, LaidMore
<1> HIDE DEF q
<1>12. Laid(q(p), at, writer'.bytes)
  BY <1>3, <1>7, <1>10, <1>11
<1>13. PICK x, m, b : x = q(p) /\ m = LaidDown' /\ b = writer'.bytes
  OBVIOUS
<1>14. Laid(x, m, b)
  BY <1>5, <1>12, <1>13
<1>15. Laid(x, m, b)'
  BY <1>1, <1>14, LayoutSame
<1>16. Laid(x, LaidDown, writer.bytes)'
  BY <1>13, <1>15
<1> QED
  BY <1>1, <1>16 DEF InPlace

LEMMA InPlaceCut ==
  ASSUME Shape, InPlace, Cut
  PROVE  InPlace'
<1> DEFINE n == Len(Ops(class))
<1>1. /\ phase = "write" /\ phase' = "read" /\ at' = 1
      /\ UNCHANGED <<class, wire, fill, vers, writer>> /\ at > n
  BY DEF Cut, record
<1>2. at \in Nat /\ at <= n + 1 /\ n \in Nat
  BY OpsAre DEF Shape
<1>3. LaidDown = n
  BY <1>1, <1>2 DEF LaidDown
<1>4. n' = n /\ LaidDown' = n
  BY <1>1, LayoutSame DEF LaidDown
<1>5. /\ ~reader'.ser.error /\ reader'.ser.cursor = 0 /\ reader'.ser.version = 0
      /\ reader'.out = <<>> /\ BeginsWith(reader'.ser.data, writer.bytes)
  BY CutStep DEF BeginsWith
<1> HIDE DEF n
<1>6. PICK p : Laid(p, n, writer.bytes)
  BY <1>3 DEF InPlace
<1>7. p[0] = 0
  BY <1>6 DEF Laid
<1>8. Before(1) = {} /\ Cardinality(Before(1)) = 0
  <2>1. Before(1) = {}
    BY <1>2 DEF Before, n
  <2> QED
    BY <2>1, FS_EmptySet
<1>9. PICK ser, out, b : ser = reader'.ser /\ out = reader'.out /\ b = writer.bytes
  OBVIOUS
<1>10. Kept(p, 1, b, ser, out)
  <2>1. out = <<>> /\ Len(out) = 0 /\ out \in Seq({})
    BY <1>5, <1>9
  <2>2. 1 - 1 = 0 /\ ~(1 > 1)
    OBVIOUS
  <2> QED
    BY <1>5, <1>7, <1>8, <1>9, <2>1, <2>2 DEF Kept
<1>11. Kept(p, 1, b, ser, out)'
  BY <1>1, <1>10, LayoutSame
<1>12. Kept(p, at, writer.bytes, reader.ser, reader.out)'
  BY <1>1, <1>9, <1>11
<1>13. PICK m : m = n
  OBVIOUS
<1>14. Laid(p, m, b)'
  BY <1>1, <1>6, <1>9, <1>13, LayoutSame
<1>15. Laid(p, LaidDown, writer.bytes)'
  BY <1>1, <1>4, <1>9, <1>13, <1>14
<1>16. phase' = "read" /\ reader'.ser.version = 0
  BY <1>1, <1>5
<1> QED
  BY <1>12, <1>15, <1>16 DEF InPlace

LEMMA InPlaceRead ==
  ASSUME Shape, InPlace, ReadOp
  PROVE  InPlace'
<1> DEFINE n == Len(Ops(class))
           next == ReadStep(reader, Ops(class)[at])
<1>1. /\ phase = "read" /\ phase' = "read" /\ at' = at + 1 /\ reader' = next
      /\ UNCHANGED <<class, wire, fill, vers, writer>> /\ at <= n /\ ~reader.ser.error
  BY DEF ReadOp, record
<1>2. at \in Nat /\ 1 <= at /\ n \in Nat /\ at' # 1
  BY <1>1, OpsAre DEF Shape
<1>3. at \in 1 .. n
  BY <1>1, <1>2
<1>4. LaidDown = n /\ LaidDown' = n
  BY <1>1, LayoutSame DEF LaidDown
<1>5. PICK p : Laid(p, n, writer.bytes) /\ Kept(p, at, writer.bytes, reader.ser, reader.out)
  BY <1>1, <1>4 DEF InPlace
<1>6. writer.bytes \in Seq(BYTE)
  BY DEF Shape, Writer
<1>7. /\ reader = [ser |-> reader.ser, out |-> reader.out] /\ Sound(reader.ser)
      /\ reader.ser.wire = wire
  BY DEF Shape
<1>8. at = 1 => reader.ser.version = 0
  BY <1>1 DEF InPlace
<1>9. Kept(p, at + 1, writer.bytes, next.ser, next.out)
  BY <1>1, <1>3, <1>5, <1>6, <1>7, <1>8, KeptOn
<1> HIDE DEF n, next
<1>10. PICK k, ser, out, b, m : /\ k = at' /\ ser = reader'.ser /\ out = reader'.out
                                /\ b = writer.bytes /\ m = n
  OBVIOUS
<1>11. Kept(p, k, b, ser, out) /\ Laid(p, m, b)
  BY <1>1, <1>5, <1>9, <1>10
<1>12. Kept(p, k, b, ser, out)' /\ Laid(p, m, b)'
  BY <1>1, <1>11, LayoutSame
<1>13. Kept(p, at, writer.bytes, reader.ser, reader.out)' /\ Laid(p, LaidDown, writer.bytes)'
  BY <1>1, <1>4, <1>10, <1>12
<1> QED
  BY <1>1, <1>2, <1>13 DEF InPlace

LEMMA InPlaceStep == Shape /\ InTheFile /\ InPlace /\ [Next]_vars => InPlace'
<1> SUFFICES ASSUME Shape, InTheFile, InPlace, [Next]_vars  PROVE InPlace'
  OBVIOUS
<1>1. CASE WriteOp
  BY <1>1, InPlaceWrite
<1>2. CASE Cut
  BY <1>2, InPlaceCut
<1>3. CASE ReadOp
  BY <1>3, InPlaceRead
<1>4. ASSUME UNCHANGED <<class, wire, fill, vers, at, writer, reader>>,
             phase' = "write" <=> phase = "write",
             phase' = "read" => phase = "read",
             phase' = "done" => reader.ser.error \/ at > Len(Ops(class))
      PROVE  InPlace'
  <2>1. LaidDown' = LaidDown /\ Ops(class)' = Ops(class)
    BY <1>4, LayoutSame DEF LaidDown
  <2>2. PICK p : /\ Laid(p, LaidDown, writer.bytes)
                 /\ phase # "write" => Kept(p, at, writer.bytes, reader.ser, reader.out)
    BY DEF InPlace
  <2>3. PICK k, ser, out, b, m : /\ k = at /\ ser = reader.ser /\ out = reader.out
                                 /\ b = writer.bytes /\ m = LaidDown
    OBVIOUS
  <2>4. Laid(p, m, b)' /\ (phase # "write" => Kept(p, k, b, ser, out)')
    BY <1>4, <2>2, <2>3, LayoutSame
  <2>5. Laid(p, LaidDown, writer.bytes)'
    BY <1>4, <2>1, <2>3, <2>4
  <2>6. phase' # "write" => Kept(p, at, writer.bytes, reader.ser, reader.out)'
    BY <1>4, <2>3, <2>4
  <2>7. phase' = "read" /\ at' = 1 => reader'.ser.version = 0
    BY <1>4 DEF InPlace
  <2>8. phase' = "done" => reader'.ser.error \/ at' > Len(Ops(class))'
    BY <1>4, <2>1
  <2> QED
    BY <2>5, <2>6, <2>7, <2>8 DEF InPlace
<1>5. CASE Finish
  <2>1. /\ phase = "read" /\ phase' = "done" /\ (reader.ser.error \/ at > Len(Ops(class)))
        /\ UNCHANGED <<class, wire, fill, vers, at, writer, reader>>
    BY <1>5 DEF Finish, record
  <2> QED
    BY <1>4, <2>1
<1>6. CASE UNCHANGED vars
  <2>1. UNCHANGED <<class, wire, fill, vers, at, writer, reader>> /\ phase' = phase
    BY <1>6 DEF vars
  <2>2. phase = "done" => reader.ser.error \/ at > Len(Ops(class))
    BY DEF InPlace
  <2> QED
    BY <1>4, <2>1, <2>2
<1> QED
  BY <1>1, <1>2, <1>3, <1>5, <1>6 DEF Next

LEMMA RecordTold == Shape /\ InPlace => ReadsWhatWasWritten
<1> SUFFICES ASSUME Shape, InPlace, Done
             PROVE  /\ \A i \in Present :
                         \/ Rank(i) > Len(reader.out)
                         \/ reader.out[Rank(i)] = [op |-> Ops(class)[i], value |-> Expected(i)]
                         \/ reader.ser.error /\ Rank(i) = Len(reader.out)
                         \/ Absent(reader.out[Rank(i)]) /\ Eof(reader.ser)
                    /\ Len(reader.out) <= Cardinality(Present)
                    /\ ~reader.ser.error => Len(reader.out) = Cardinality(Present)
                    /\ IsWhole /\ Plain => ~reader.ser.error /\ Eof(reader.ser)
  BY DEF ReadsWhatWasWritten, Plain
<1> DEFINE n == Len(Ops(class))
           ser == reader.ser
           out == reader.out
<1>1. /\ n \in Nat /\ at \in Nat /\ 1 <= at /\ at <= n + 1 /\ DOMAIN Ops(class) = 1 .. n
      /\ phase = "done" /\ writer.version = Version /\ Sound(ser)
  BY OpsAre DEF Shape, Done
<1>2. (ser.error \/ at = n + 1) /\ LaidDown = n
  BY <1>1 DEF InPlace, LaidDown
<1>3. PICK p : Laid(p, n, writer.bytes) /\ Kept(p, at, writer.bytes, ser, out)
  BY <1>1, <1>2 DEF InPlace
<1>4. /\ p[n] = Len(writer.bytes) /\ Len(out) = Cardinality(Before(at))
      /\ (~ser.error => ser.cursor = p[at - 1] \/ Eof(ser))
      /\ (Plain /\ Len(ser.data) = Len(writer.bytes) => ~ser.error /\ ser.cursor = p[at - 1])
      /\ \A i \in Before(at) : Right(i, ser, out)
  BY <1>3 DEF Laid, Kept
<1>5. Present = Before(n + 1)
  BY <1>1 DEF Present, Before
<1>6. \A i \in Present : Rank(i) = Place(i)
  <2> TAKE i \in Present
  <2>1. i \in 1 .. n /\ i + 1 <= n + 1
    BY <1>1, <1>5 DEF Before
  <2>2. {j \in Present : j <= i} = Before(i + 1)
    BY <1>1, <1>5, <2>1 DEF Before
  <2> QED
    BY <2>2 DEF Rank, Place
<1>7. \A i \in Present : Expected(i) = Wanted(i)
  BY <1>1 DEF Expected, Wanted, Want
<1>8. \A x : IsFiniteSet(Before(x)) /\ Cardinality(Before(x)) \in Nat
  <2>1. IsFiniteSet(1 .. n)
    BY <1>1, FS_Interval
  <2>2. \A x : Before(x) \subseteq 1 .. n
    BY DEF Before
  <2>3. \A x : IsFiniteSet(Before(x))
    BY <2>1, <2>2, FS_Subset
  <2> QED
    BY <2>3, FS_CardinalityType
<1> HIDE DEF n, ser, out
<1>9. ASSUME NEW i \in Present
      PROVE  \/ Rank(i) > Len(out)
             \/ out[Rank(i)] = [op |-> Ops(class)[i], value |-> Expected(i)]
             \/ ser.error /\ Rank(i) = Len(out)
             \/ Absent(out[Rank(i)]) /\ Eof(ser)
  <2>1. i \in Nat /\ i \in Before(i + 1)
    BY <1>1, <1>5 DEF Before, n
  <2>2. CASE i < at
    <3>1. i \in Before(at)
      BY <2>1, <2>2 DEF Before
    <3> QED
      BY <1>4, <1>6, <1>7, <3>1 DEF Right
  <2>3. CASE ~(i < at)
    <3>1. Before(at) \subseteq Before(i + 1) /\ i \notin Before(at)
      BY <1>1, <2>1, <2>3 DEF Before
    <3>2. Before(at) # Before(i + 1)
      BY <2>1, <3>1
    <3>3. /\ Cardinality(Before(at)) <= Cardinality(Before(i + 1))
          /\ Cardinality(Before(at)) # Cardinality(Before(i + 1))
      <4>1. IsFiniteSet(Before(i + 1)) /\ Before(at) \in SUBSET Before(i + 1)
        BY <1>8, <3>1
      <4> QED
        BY <3>2, <4>1, FS_Subset
    <3>4. Rank(i) = Cardinality(Before(i + 1))
      BY <1>6 DEF Place
    <3> QED
      BY <1>4, <1>8, <3>3, <3>4
  <2> QED
    BY <2>2, <2>3
<1>10. Len(out) <= Cardinality(Present)
  <2>1. Before(at) \in SUBSET Present
    BY <1>1, <1>5 DEF Before, n
  <2>2. IsFiniteSet(Present)
    BY <1>5, <1>8
  <2>3. Cardinality(Before(at)) <= Cardinality(Present)
    BY <2>1, <2>2, FS_Subset
  <2> QED
    BY <1>4, <2>3
<1>11. ~ser.error => Len(out) = Cardinality(Present)
  BY <1>2, <1>4, <1>5
<1>12. ASSUME IsWhole, Plain
       PROVE  ~ser.error /\ Eof(ser)
  <2>1. Len(ser.data) = Len(writer.bytes)
    BY <1>12 DEF IsWhole, ser
  <2>2. ~ser.error /\ ser.cursor = p[at - 1]
    BY <1>4, <1>12, <2>1
  <2>3. at - 1 = n
    BY <1>1, <1>2, <2>2
  <2>4. ser.cursor = Len(ser.data) /\ Len(ser.data) \in Nat
    BY <1>1, <1>4, <2>1, <2>2, <2>3, SoundFields
  <2> QED
    BY <2>2, <2>4 DEF Eof
<1> QED
  BY <1>9, <1>10, <1>11, <1>12 DEF ser, out

(* However the file that holds a record is cut, every field read of it is  *)
(* the one written at that place, in the versions that have it, except the *)
(* one an error stopped in and an object beyond the last byte; a whole     *)
(* record is read to its last byte without error (apply_write, apply_read, *)
(* read_obj, read_obj_list).                                               *)
THEOREM RecordsReadBack == Spec => []ReadsWhatWasWritten
<1>1. Init => Shape /\ InTheFile /\ InPlace
  BY ShapeInit, InPlaceInit
<1>2. (Shape /\ InTheFile /\ InPlace) /\ [Next]_vars => (Shape /\ InTheFile /\ InPlace)'
  BY ShapeStep, InPlaceStep
<1>3. Shape /\ InTheFile /\ InPlace => ReadsWhatWasWritten
  BY RecordTold
<1> QED
  BY <1>1, <1>2, <1>3, PTL DEF Spec
=============================================================================
