------------------------------- MODULE HdbFile -------------------------------
(***************************************************************************)
(* XFILES.HDB as the Python tool-chain sees it (container/, and            *)
(* btree/record_index.py): a header, pages of a fixed size, a trailer; and *)
(* in them the 8-byte markers                                              *)
(*     [0xC0..0xCF] [sub] 00 00 | 00 01 [class, two bytes]                 *)
(* that begin a record. The file is a sequence of words of four bytes, a   *)
(* word a pair of its halves, and an offset counts bytes from 0. Markers   *)
(* and tables whose offset is no multiple of four are left out.            *)
(***************************************************************************)
EXTENDS PyData

CONSTANTS
  HEADER_SIZE,    \* 32
  PAGE_SIZE       \* 256

ASSUME LayoutAssumption ==
  /\ HEADER_SIZE \in Nat /\ HEADER_SIZE % 8 = 0
  /\ PAGE_SIZE \in Nat \ {0} /\ PAGE_SIZE % 8 = 0

-----------------------------------------------------------------------------
Words == [hi : 0 .. 65535, lo : 0 .. 65535]
Word(hi, lo) == [hi |-> hi, lo |-> lo]
Num(n) == Word(n \div 65536, n % 65536)
Zero == Num(0)
AsInt(word) == word.hi * 65536 + word.lo
(* word <= n, without leaving the integers of 32 bits. *)
AtMost(word, n) ==
  \/ word.hi < n \div 65536
  \/ word.hi = n \div 65536 /\ word.lo <= n % 65536

FirstByte(word) == word.hi \div 256
SecondByte(word) == word.hi % 256

Size(raw) == 4 * Len(raw)
WordAt(raw, off) == raw[off \div 4 + 1]
(* The multiples of four in from .. to - 1, as range(from, to, 4) has them.*)
Every4(from, to) == {o \in from .. to - 1 : o % 4 = 0}
SLOTS == {o \in 0 .. PAGE_SIZE - 8 : o % 8 = 0}

MARKER_TAGS == 192 .. 207
MagicAt(raw, off) == WordAt(raw, off).lo = 0 /\ WordAt(raw, off + 4).hi = 1
MarkerAt(raw, off) == FirstByte(WordAt(raw, off)) \in MARKER_TAGS /\ MagicAt(raw, off)
ClassOf(raw, off) == WordAt(raw, off + 4).lo

-----------------------------------------------------------------------------
(* HdbContainer. *)
PageCount(raw) == (Size(raw) - HEADER_SIZE) \div PAGE_SIZE
Pages(raw) == 0 .. PageCount(raw) - 1
PageOffset(page) == HEADER_SIZE + page * PAGE_SIZE
TagOf(raw, page) == FirstByte(WordAt(raw, PageOffset(page)))
KindOf(raw, page) == SecondByte(WordAt(raw, PageOffset(page)))
PageWords(raw, page) ==
  SubSeq(raw, PageOffset(page) \div 4 + 1, PageOffset(page + 1) \div 4)
Trailer(raw) == SubSeq(raw, PageOffset(PageCount(raw)) \div 4 + 1, Len(raw))

STRUCTURAL_TAGS == {0, 192, 194, 195, 210}
classify_page(raw, page) ==
  IF TagOf(raw, page) \in STRUCTURAL_TAGS THEN TagOf(raw, page) ELSE -1

page_type_distribution(raw) ==
  [tag \in {TagOf(raw, p) : p \in Pages(raw)} |->
     Cardinality({p \in Pages(raw) : TagOf(raw, p) = tag})]

(* to_bytes: what the parts of the container add up to. *)
to_bytes(raw) ==
  SubSeq(raw, 1, HEADER_SIZE \div 4)
  \o FlattenSeq([p \in 1 .. PageCount(raw) |-> PageWords(raw, p - 1)])
  \o Trailer(raw)

-----------------------------------------------------------------------------
(* The markers of a page that begins at an offset, on the slots of eight;  *)
(* a payload runs to the next of them or to the end of the page.           *)
SlotMarkers(raw, page_off) == {slot \in SLOTS : MarkerAt(raw, page_off + slot)}
NextSlot(markers, slot) == Min({m \in markers : m > slot} \cup {PAGE_SIZE})

(* HDBRecordIndex: the records of the pages that begin like a marker.      *)
RecordRef(raw, page, slot) ==
  LET markers == SlotMarkers(raw, PageOffset(page)) IN
  [byte_offset |-> PageOffset(page) + slot,
   payload_size |-> NextSlot(markers, slot) - slot - 8,
   class_id |-> ClassOf(raw, PageOffset(page) + slot),
   page_id |-> page]

RecordIndex(raw) ==
  UNION {{RecordRef(raw, p, slot) : slot \in SlotMarkers(raw, PageOffset(p))} :
           p \in {q \in Pages(raw) : TagOf(raw, q) \in MARKER_TAGS}}

FindByOffset(index, off) ==
  LET at == {r \in index : r.byte_offset = off} IN
  IF at = {} THEN None ELSE CHOOSE r \in at : TRUE
FindByClass(index, class_id) == {r \in index : r.class_id = class_id}
=============================================================================
