-------------------------- MODULE HdbIndex_proofs ---------------------------
(***************************************************************************)
(* What a resolver tells of an id, for every file and every sequence of    *)
(* extensions: the id leads to a record, an extension moves none, and the  *)
(* other indexes of the file agree with it; and what the scans of a file   *)
(* tell of it.                                                             *)
(***************************************************************************)
EXTENDS HdbIndex, ExtremaLemmas, FiniteSetTheorems, TLAPS

-----------------------------------------------------------------------------
(* Where the pages and the slots lie.                                      *)

LEMMA QuotientFits ==
  ASSUME NEW x \in Nat, NEW d \in Nat \ {0}, NEW q \in Int, q < x \div d
  PROVE  q * d + d <= x
<1> DEFINE m == x \div d
<1>1. m \in Int /\ m * d <= x
  OBVIOUS
<1> HIDE DEF m
<1>2. q + 1 <= m /\ q < m
  BY <1>1 DEF m
<1>3. PICK e \in Nat : m = q + 1 + e
  <2>1. m - q - 1 \in Nat /\ m = q + 1 + (m - q - 1)
    BY <1>1, <1>2
  <2> QED
    BY <2>1
<1>4. e * d \in Nat
  OBVIOUS
<1>5. m * d = q * d + d + e * d
  BY <1>3
<1> QED
  BY <1>1, <1>4, <1>5

LEMMA PagesFollow ==
  ASSUME NEW p \in Nat, NEW q \in Nat, p < q
  PROVE  PageOffset(p) + PAGE_SIZE <= PageOffset(q)
<1>1. PAGE_SIZE \in Nat /\ HEADER_SIZE \in Nat
  BY LayoutAssumption
<1>2. q - p - 1 \in Nat /\ q = p + 1 + (q - p - 1)
  OBVIOUS
<1>3. PICK e \in Nat : q = p + 1 + e
  BY <1>2
<1>4. e * PAGE_SIZE \in Nat /\ p * PAGE_SIZE \in Nat
  BY <1>1
<1>5. q * PAGE_SIZE = p * PAGE_SIZE + PAGE_SIZE + e * PAGE_SIZE
  BY <1>1, <1>3
<1> QED
  BY <1>1, <1>4, <1>5 DEF PageOffset

LEMMA FilesAreSequences ==
  ASSUME NEW f \in Files
  PROVE  Size(f) \in Nat
<1>1. Len(f) \in Nat
  BY FilesAssumption
<1> QED
  BY <1>1 DEF Size

LEMMA SlotsAreNat == SLOTS \in SUBSET Nat /\ \A s \in SLOTS : s + 8 <= PAGE_SIZE /\ s % 4 = 0
<1>1. PAGE_SIZE \in Nat
  BY LayoutAssumption
<1> QED
  BY <1>1 DEF SLOTS

(* A page of the container lies in the file, header and trailer apart.     *)
LEMMA PageInFile ==
  ASSUME NEW f \in Files, NEW page \in Pages(f)
  PROVE  /\ page \in Nat
         /\ PageOffset(page) \in Nat
         /\ HEADER_SIZE <= PageOffset(page)
         /\ PageOffset(page) + PAGE_SIZE <= Size(f)
         /\ PageOffset(page) % 4 = 0
<1>1. /\ PAGE_SIZE \in Nat \ {0} /\ HEADER_SIZE \in Nat
      /\ PAGE_SIZE % 8 = 0 /\ HEADER_SIZE % 8 = 0
  BY LayoutAssumption
<1>2. Size(f) \in Nat
  BY FilesAreSequences
<1> DEFINE x == Size(f) - HEADER_SIZE
           m == x \div PAGE_SIZE
<1>3. x \in Int /\ m \in Int /\ m * PAGE_SIZE <= x
  BY <1>1, <1>2
<1>4. page \in Nat /\ page < m
  BY <1>3 DEF Pages, PageCount
<1>5. x \in Nat
  <2>1. m >= 1
    BY <1>3, <1>4
  <2>2. m - 1 \in Nat /\ m * PAGE_SIZE = PAGE_SIZE + (m - 1) * PAGE_SIZE
    BY <1>1, <1>3, <2>1
  <2>3. (m - 1) * PAGE_SIZE \in Nat
    BY <1>1, <2>2
  <2> HIDE DEF x, m
  <2> QED
    BY <1>1, <1>3, <2>2, <2>3
<1>6. page * PAGE_SIZE + PAGE_SIZE <= x
  <2> HIDE DEF x
  <2>1. page < x \div PAGE_SIZE /\ page \in Int
    BY <1>4
  <2> QED
    BY <1>1, <1>5, <2>1, QuotientFits
<1>7. page * PAGE_SIZE \in Nat
  BY <1>1, <1>4
<1>8. (page * PAGE_SIZE) % 4 = 0
  <2>1. PICK k \in Nat : PAGE_SIZE = 4 * k
    <3>1. PAGE_SIZE \div 4 \in Nat /\ PAGE_SIZE = 4 * (PAGE_SIZE \div 4)
      BY <1>1
    <3> QED
      BY <3>1
  <2>2. page * PAGE_SIZE = 4 * (page * k) /\ page * k \in Nat
    BY <1>4, <2>1
  <2> QED
    BY <2>2
<1>9. HEADER_SIZE % 4 = 0
  BY <1>1
<1> HIDE DEF x
<1>10. PageOffset(page) \in Nat /\ HEADER_SIZE <= PageOffset(page)
       /\ PageOffset(page) % 4 = 0
  <2> DEFINE y == page * PAGE_SIZE
  <2>1. y \in Nat /\ y % 4 = 0
    BY <1>7, <1>8
  <2> HIDE DEF y
  <2>2. (HEADER_SIZE + y) % 4 = 0
    BY <1>1, <1>9, <2>1
  <2> QED
    BY <1>1, <2>1, <2>2 DEF PageOffset, y
<1>11. PageOffset(page) + PAGE_SIZE <= Size(f)
  <2> DEFINE y == page * PAGE_SIZE
  <2>1. y \in Nat /\ y + PAGE_SIZE <= x
    BY <1>6, <1>7
  <2> HIDE DEF y
  <2> QED
    BY <1>1, <1>2, <2>1 DEF PageOffset, y, x
<1> QED
  BY <1>4, <1>10, <1>11

(* A marker on a slot is one of the markers of the file.                   *)
LEMMA SlotMarkerIsMarker ==
  ASSUME NEW f \in Files, NEW page \in Pages(f),
         NEW slot \in SlotMarkers(f, PageOffset(page))
  PROVE  PageOffset(page) + slot \in AllMarkers(f)
<1>1. slot \in Nat /\ slot + 8 <= PAGE_SIZE /\ slot % 4 = 0
      /\ MarkerAt(f, PageOffset(page) + slot)
  BY SlotsAreNat DEF SlotMarkers
<1>2. /\ PageOffset(page) \in Nat /\ HEADER_SIZE <= PageOffset(page)
      /\ PageOffset(page) + PAGE_SIZE <= Size(f) /\ PageOffset(page) % 4 = 0
  BY PageInFile
<1>3. PAGE_SIZE \in Nat /\ HEADER_SIZE \in Nat /\ Size(f) \in Nat
  BY LayoutAssumption, FilesAreSequences
<1>4. (PageOffset(page) + slot) % 4 = 0
  BY <1>1, <1>2
<1>5. PageOffset(page) + slot \in HEADER_SIZE .. Size(f) - 7 - 1
  BY <1>1, <1>2, <1>3
<1> QED
  BY <1>1, <1>4, <1>5 DEF AllMarkers, Every4

-----------------------------------------------------------------------------
(* A record's number tells its slot.                                       *)

LEMMA SlotMarkersFinite ==
  ASSUME NEW f, NEW off, NEW S \in SUBSET SlotMarkers(f, off)
  PROVE  IsFiniteSet(S) /\ Cardinality(S) \in Nat
<1>1. PAGE_SIZE - 8 \in Int
  BY LayoutAssumption
<1>2. IsFiniteSet(0 .. PAGE_SIZE - 8)
  BY <1>1, FS_Interval
<1>3. S \in SUBSET (0 .. PAGE_SIZE - 8)
  BY DEF SlotMarkers, SLOTS
<1>4. IsFiniteSet(S)
  BY <1>2, <1>3, FS_Subset
<1> QED
  BY <1>4, FS_CardinalityType

LEMMA RecIdxGrows ==
  ASSUME NEW f \in Files, NEW page,
         NEW s \in SlotMarkers(f, PageOffset(page)),
         NEW t \in SlotMarkers(f, PageOffset(page)), s < t
  PROVE  RecIdx(f, page, s) < RecIdx(f, page, t)
<1> DEFINE M == SlotMarkers(f, PageOffset(page))
           A == {m \in M : m < s}
           B == {m \in M : m < t}
<1>1. M \in SUBSET Nat
  BY SlotsAreNat DEF SlotMarkers
<1>2. IsFiniteSet(B) /\ Cardinality(B) \in Nat /\ Cardinality(A) \in Nat
  BY SlotMarkersFinite
<1>3. A \subseteq B /\ s \in B /\ s \notin A
  BY <1>1
<1>4. Cardinality(A) <= Cardinality(B) /\ Cardinality(A) # Cardinality(B)
  BY <1>2, <1>3, FS_Subset
<1>5. Cardinality(A) < Cardinality(B)
  BY <1>2, <1>4
<1> QED
  BY <1>5 DEF RecIdx

LEMMA SlotOfRecIdx ==
  ASSUME NEW f \in Files, NEW page, NEW slot \in SlotMarkers(f, PageOffset(page))
  PROVE  SlotOfRec(f, [page |-> page, rec |-> RecIdx(f, page, slot)]) = slot
<1> DEFINE M == SlotMarkers(f, PageOffset(page))
           t == CHOOSE u \in M : RecIdx(f, page, u) = RecIdx(f, page, slot)
<1>1. M \in SUBSET Nat
  BY SlotsAreNat DEF SlotMarkers
<1>2. t \in M /\ RecIdx(f, page, t) = RecIdx(f, page, slot)
  BY Zenon
<1>3. SlotOfRec(f, [page |-> page, rec |-> RecIdx(f, page, slot)]) = t
  BY DEF SlotOfRec
<1> HIDE DEF t
<1>4. t \in Nat /\ slot \in Nat
  BY <1>1, <1>2
<1>5. ~(t < slot) /\ ~(slot < t)
  <2>1. \A u, v \in M : u < v => RecIdx(f, page, u) < RecIdx(f, page, v)
    BY RecIdxGrows
  <2>2. \A u \in M : RecIdx(f, page, u) \in Nat
    BY SlotMarkersFinite DEF RecIdx
  <2> QED
    BY <1>2, <2>1, <2>2
<1> QED
  BY <1>3, <1>4, <1>5

-----------------------------------------------------------------------------
(* What a pair names is a marker, and every sweep goes by pairs of the     *)
(* global one.                                                             *)

LEMMA MarkersAreOffsets ==
  ASSUME NEW f \in Files, NEW o \in AllMarkers(f)
  PROVE  o \in Nat /\ HEADER_SIZE <= o /\ o + 8 <= Size(f)
<1>1. HEADER_SIZE \in Nat /\ Size(f) \in Nat
  BY LayoutAssumption, FilesAreSequences
<1>2. o \in HEADER_SIZE .. Size(f) - 7 - 1
  BY DEF AllMarkers, Every4
<1> QED
  BY <1>1, <1>2

LEMMA NumBack ==
  ASSUME NEW o \in Nat
  PROVE  AsInt(Num(o)) = o
<1> DEFINE h == o \div 65536
           l == o % 65536
<1>1. h * 65536 + l = o
  OBVIOUS
<1> HIDE DEF h, l
<1>2. Num(o) = [hi |-> h, lo |-> l]
  BY DEF Num, Word, h, l
<1>3. Num(o).hi = h /\ Num(o).lo = l
  BY <1>2
<1> QED
  BY <1>1, <1>3 DEF AsInt

LEMMA PairNamesMarker ==
  ASSUME NEW f \in Files, NEW pos, IsPair(f, pos)
  PROVE  AsInt(WordAt(f, pos)) \in AllMarkers(f) /\ WordAt(f, pos + 4) # Zero
<1>1. PICK o \in AllMarkers(f) : WordAt(f, pos) = Num(o)
  BY DEF IsPair
<1>2. o \in Nat
  BY MarkersAreOffsets
<1>3. AsInt(Num(o)) = o
  BY <1>2, NumBack
<1> QED
  BY <1>1, <1>3 DEF IsPair

LEMMA RegionPairsAreGlobal ==
  ASSUME NEW f \in Files, NEW a \in Int, NEW b \in Int, HEADER_SIZE <= a, b <= Size(f)
  PROVE  PairsIn(f, Region(a, b)) \subseteq ScopePairs(f, "global")
<1>1. HEADER_SIZE \in Nat /\ Size(f) \in Nat
  BY LayoutAssumption, FilesAreSequences
<1>2. PairsIn(f, Region(a, b)) = {pos \in a .. b - 7 - 1 : pos % 4 = 0 /\ IsPair(f, pos)}
  BY DEF PairsIn, Region, Every4
<1>3. ScopePairs(f, "global")
        = {pos \in HEADER_SIZE .. Size(f) - 7 - 1 : pos % 4 = 0 /\ IsPair(f, pos)}
  BY DEF ScopePairs, PairsIn, Region, Every4
<1>4. a .. b - 7 - 1 \subseteq HEADER_SIZE .. Size(f) - 7 - 1
  BY <1>1
<1> QED
  BY <1>2, <1>3, <1>4

LEMMA RecordEndsInPage ==
  ASSUME NEW f \in Files, NEW rec \in RecordIndex(f)
  PROVE  /\ rec.byte_offset \in Nat /\ rec.payload_size \in Int
         /\ HEADER_SIZE <= rec.byte_offset
         /\ rec.byte_offset + 8 + rec.payload_size <= Size(f)
<1>1. PICK p \in Pages(f) :
        \E slot \in SlotMarkers(f, PageOffset(p)) : rec = RecordRef(f, p, slot)
  BY DEF RecordIndex
<1>2. PICK slot \in SlotMarkers(f, PageOffset(p)) : rec = RecordRef(f, p, slot)
  BY <1>1
<1> DEFINE M == SlotMarkers(f, PageOffset(p))
           T == {m \in M : m > slot} \cup {PAGE_SIZE}
<1>3. M \in SUBSET Nat /\ PAGE_SIZE \in Nat /\ HEADER_SIZE \in Nat
  BY SlotsAreNat, LayoutAssumption DEF SlotMarkers
<1>4. T \in SUBSET Nat /\ PAGE_SIZE \in T
  BY <1>3
<1>5. Min(T) \in Nat /\ Min(T) <= PAGE_SIZE
  BY <1>4, MinExists
<1>6. NextSlot(M, slot) = Min(T)
  BY DEF NextSlot
<1> HIDE DEF T
<1>7. rec.byte_offset = PageOffset(p) + slot /\ rec.payload_size = Min(T) - slot - 8
  BY <1>2, <1>6 DEF RecordRef
<1>8. /\ PageOffset(p) \in Nat /\ HEADER_SIZE <= PageOffset(p)
      /\ PageOffset(p) + PAGE_SIZE <= Size(f)
  BY PageInFile
<1>9. slot \in Nat /\ Size(f) \in Nat
  BY <1>3, FilesAreSequences
<1> HIDE DEF M
<1> QED
  BY <1>3, <1>5, <1>7, <1>8, <1>9

LEMMA ScopePairsAreGlobal ==
  ASSUME NEW f \in Files, NEW scope
  PROVE  ScopePairs(f, scope) \subseteq ScopePairs(f, "global")
<1>1. CASE scope = "global"
  BY <1>1
<1>2. CASE scope # "global"
  <2>1. ScopePairs(f, scope) = UNION {PairsIn(f, region) : region \in IdListRegions(f)}
    BY <1>2 DEF ScopePairs
  <2>2. ASSUME NEW region \in IdListRegions(f)
        PROVE  PairsIn(f, region) \subseteq ScopePairs(f, "global")
    <3>1. PICK rec \in RecordIndex(f) :
            region = Region(rec.byte_offset + 8, rec.byte_offset + 8 + rec.payload_size)
      BY DEF IdListRegions, FindByClass
    <3>2. /\ rec.byte_offset \in Nat /\ rec.payload_size \in Int
          /\ HEADER_SIZE <= rec.byte_offset
          /\ rec.byte_offset + 8 + rec.payload_size <= Size(f)
      BY RecordEndsInPage
    <3>3. rec.byte_offset + 8 \in Int /\ rec.byte_offset + 8 + rec.payload_size \in Int
          /\ HEADER_SIZE <= rec.byte_offset + 8
      BY <3>2, LayoutAssumption
    <3> QED
      BY <3>1, <3>2, <3>3, RegionPairsAreGlobal
  <2> QED
    BY <2>1, <2>2
<1> QED
  BY <1>1, <1>2

LEMMA ClassPairsAreGlobal ==
  ASSUME NEW f \in Files, NEW class_id
  PROVE  ClassPairs(f, class_id) \subseteq ScopePairs(f, "global")
<1>1. ASSUME NEW region \in ClassRegions(f, class_id)
      PROVE  PairsIn(f, region) \subseteq ScopePairs(f, "global")
  <2>1. PICK o \in AllMarkers(f) :
          region = Region(o + 8, Min({m \in AllMarkers(f) : m > o} \cup {Size(f)}))
    BY DEF ClassRegions
  <2> DEFINE T == {m \in AllMarkers(f) : m > o} \cup {Size(f)}
  <2>2. T \in SUBSET Nat /\ Size(f) \in T
    BY MarkersAreOffsets, FilesAreSequences
  <2>3. Min(T) \in Nat /\ Min(T) <= Size(f)
    BY <2>2, MinExists
  <2>4. o + 8 \in Int /\ HEADER_SIZE <= o + 8
    BY MarkersAreOffsets, LayoutAssumption
  <2> QED
    BY <2>1, <2>3, <2>4, RegionPairsAreGlobal
<1> QED
  BY <1>1 DEF ClassPairs

-----------------------------------------------------------------------------
(* The invariant. Over the first n pages of a file, an id of the resolver  *)
(* either has its first record there, or it was added by a pair and no     *)
(* record carries it; and the id of every record is one of the resolver.   *)

FirstRecord(f, n, r, id) ==
  \E page \in 0 .. n - 1 : \E slot \in SlotMarkers(f, PageOffset(page)) :
    /\ Value32(f, page, slot) = id
    /\ r.id_index[id] = [page |-> page, rec |-> RecIdx(f, page, slot)]
    /\ \A q \in 0 .. n - 1 : \A t \in SlotMarkers(f, PageOffset(q)) :
         Value32(f, q, t) = id => PageOffset(page) + slot <= PageOffset(q) + t

Added(f, n, r, id) ==
  /\ r.id_index[id] = ExtensionOnly
  /\ \E pos \in ScopePairs(f, "global") :
       WordAt(f, pos + 4) = id /\ r.extended_offsets[id] = AsInt(WordAt(f, pos))
  /\ \A q \in 0 .. n - 1 : \A t \in SlotMarkers(f, PageOffset(q)) : Value32(f, q, t) # id

Members(r) ==
  r = [id_index |-> r.id_index, extended_offsets |-> r.extended_offsets,
       btree_root |-> r.btree_root]

Known(f, n, r) ==
  /\ Members(r)
  /\ DOMAIN r.extended_offsets \subseteq DOMAIN r.id_index
  /\ \A id \in DOMAIN r.id_index : id # Zero
  /\ \A id \in DOMAIN r.extended_offsets : Added(f, n, r, id)
  /\ \A id \in DOMAIN r.id_index \ DOMAIN r.extended_offsets : FirstRecord(f, n, r, id)
  /\ \A page \in 0 .. n - 1 : \A slot \in SlotMarkers(f, PageOffset(page)) :
       Value32(f, page, slot) # Zero => Value32(f, page, slot) \in DOMAIN r.id_index

IInv ==
  /\ raw \in Files
  /\ phase \in {"building", "attached", "failed"}
  /\ scanned \in Nat /\ 0 .. scanned - 1 \subseteq Pages(raw)
  /\ Known(raw, scanned, resolver)
  /\ phase # "attached" => pending = {} /\ DOMAIN resolver.extended_offsets = {}

LEMMA ExtendedDomain ==
  ASSUME NEW g, NEW h
  PROVE  DOMAIN Extended(g, h) = DOMAIN g \cup DOMAIN h
BY DEF Extended

LEMMA ExtendedKeeps ==
  ASSUME NEW g, NEW h, NEW x \in DOMAIN g
  PROVE  Extended(g, h)[x] = g[x]
BY DEF Extended

LEMMA ExtendedAdds ==
  ASSUME NEW g, NEW h, NEW x \in DOMAIN h, x \notin DOMAIN g
  PROVE  Extended(g, h)[x] = h[x]
BY DEF Extended

LEMMA ExtendByMembers ==
  ASSUME NEW f, NEW r, NEW pairs, Members(r)
  PROVE  LET ids == NewIds(r, f, pairs)
             e == ExtendBy(r, f, pairs)
             first(id) == Min({pos \in pairs : WordAt(f, pos + 4) = id})
         IN  /\ Members(e)
             /\ e.id_index = Extended(r.id_index, [id \in ids |-> ExtensionOnly])
             /\ e.extended_offsets
                  = Extended(r.extended_offsets, [id \in ids |-> AsInt(WordAt(f, first(id)))])
<1> DEFINE ids == NewIds(r, f, pairs)
           first(id) == Min({pos \in pairs : WordAt(f, pos + 4) = id})
           X == Extended(r.id_index, [id \in ids |-> ExtensionOnly])
           Y == Extended(r.extended_offsets, [id \in ids |-> AsInt(WordAt(f, first(id)))])
           e == ExtendBy(r, f, pairs)
<1>1. e = [r EXCEPT !.id_index = X, !.extended_offsets = Y]
  BY DEF ExtendBy
<1> HIDE DEF X, Y, e
<1>2. e = [id_index |-> X, extended_offsets |-> Y, btree_root |-> r.btree_root]
  BY <1>1 DEF Members
<1>3. Members(e) /\ e.id_index = X /\ e.extended_offsets = Y
  BY <1>2 DEF Members
<1> QED
  BY <1>3 DEF X, Y, e

(* An extension leaves the ids it finds as they are.                       *)
LEMMA ExtendByKeeps ==
  ASSUME NEW f, NEW r, NEW pairs, Members(r),
         DOMAIN r.extended_offsets \subseteq DOMAIN r.id_index,
         NEW id \in DOMAIN r.id_index
  PROVE  LET e == ExtendBy(r, f, pairs) IN
         /\ id \in DOMAIN e.id_index
         /\ e.id_index[id] = r.id_index[id]
         /\ id \in DOMAIN e.extended_offsets <=> id \in DOMAIN r.extended_offsets
         /\ id \in DOMAIN r.extended_offsets =>
              e.extended_offsets[id] = r.extended_offsets[id]
<1> DEFINE ids == NewIds(r, f, pairs)
           first(i) == Min({pos \in pairs : WordAt(f, pos + 4) = i})
           A == [i \in ids |-> ExtensionOnly]
           B == [i \in ids |-> AsInt(WordAt(f, first(i)))]
           e == ExtendBy(r, f, pairs)
<1>1. e.id_index = Extended(r.id_index, A) /\ e.extended_offsets = Extended(r.extended_offsets, B)
  BY ExtendByMembers
<1>2. id \notin ids
  BY DEF NewIds
<1>3. DOMAIN B = ids
  OBVIOUS
<1> HIDE DEF A, B, e, ids
<1>4. /\ DOMAIN Extended(r.id_index, A) = DOMAIN r.id_index \cup DOMAIN A
      /\ Extended(r.id_index, A)[id] = r.id_index[id]
  BY ExtendedDomain, ExtendedKeeps
<1>5. id \in DOMAIN e.id_index /\ e.id_index[id] = r.id_index[id]
  BY <1>1, <1>4
<1>6. DOMAIN Extended(r.extended_offsets, B) = DOMAIN r.extended_offsets \cup ids
  BY <1>3, ExtendedDomain
<1>7. id \in DOMAIN r.extended_offsets =>
        Extended(r.extended_offsets, B)[id] = r.extended_offsets[id]
  BY ExtendedKeeps
<1> QED
  BY <1>1, <1>2, <1>5, <1>6, <1>7 DEF e

LEMMA ExtensionKeepsTargets ==
  ASSUME NEW f, NEW r, NEW pairs, Members(r),
         DOMAIN r.extended_offsets \subseteq DOMAIN r.id_index,
         NEW id \in DOMAIN r.id_index
  PROVE  /\ ResolveOffset(ExtendBy(r, f, pairs), f, id) = ResolveOffset(r, f, id)
         /\ ResolvePayload(ExtendBy(r, f, pairs), f, id) = ResolvePayload(r, f, id)
<1> DEFINE e == ExtendBy(r, f, pairs)
<1>1. /\ id \in DOMAIN e.id_index
      /\ e.id_index[id] = r.id_index[id]
      /\ id \in DOMAIN e.extended_offsets <=> id \in DOMAIN r.extended_offsets
      /\ id \in DOMAIN r.extended_offsets =>
           e.extended_offsets[id] = r.extended_offsets[id]
  BY ExtendByKeeps
<1> HIDE DEF e
<1>2. ResolveOffset(e, f, id) = ResolveOffset(r, f, id)
  BY <1>1 DEF ResolveOffset
<1>3. ResolvePayload(e, f, id) = ResolvePayload(r, f, id)
  BY <1>1 DEF ResolvePayload
<1> QED
  BY <1>2, <1>3 DEF e

(* What an extension adds, it adds with the first pair that names it.      *)
LEMMA ExtendByAdds ==
  ASSUME NEW f, NEW r, NEW pairs \in SUBSET Nat, Members(r),
         DOMAIN r.extended_offsets \subseteq DOMAIN r.id_index
  PROVE  LET ids == NewIds(r, f, pairs)
             e == ExtendBy(r, f, pairs)
         IN  /\ DOMAIN e.id_index = DOMAIN r.id_index \cup ids
             /\ DOMAIN e.extended_offsets = DOMAIN r.extended_offsets \cup ids
             /\ \A id \in ids :
                  /\ id \notin DOMAIN r.id_index
                  /\ e.id_index[id] = ExtensionOnly
                  /\ \E pos \in pairs :
                       WordAt(f, pos + 4) = id /\ e.extended_offsets[id] = AsInt(WordAt(f, pos))
<1> DEFINE ids == NewIds(r, f, pairs)
           first(i) == Min({pos \in pairs : WordAt(f, pos + 4) = i})
           A == [i \in ids |-> ExtensionOnly]
           B == [i \in ids |-> AsInt(WordAt(f, first(i)))]
           e == ExtendBy(r, f, pairs)
<1>1. e.id_index = Extended(r.id_index, A) /\ e.extended_offsets = Extended(r.extended_offsets, B)
  BY ExtendByMembers
<1>2. DOMAIN A = ids /\ DOMAIN B = ids
  OBVIOUS
<1>3. ASSUME NEW id \in ids
      PROVE  /\ id \notin DOMAIN r.id_index /\ id \notin DOMAIN r.extended_offsets
             /\ A[id] = ExtensionOnly
             /\ \E pos \in pairs : WordAt(f, pos + 4) = id /\ B[id] = AsInt(WordAt(f, pos))
  <2> DEFINE P == {pos \in pairs : WordAt(f, pos + 4) = id}
  <2>1. id \notin DOMAIN r.id_index /\ id \notin DOMAIN r.extended_offsets
    BY DEF NewIds
  <2>2. P \in SUBSET Nat /\ P # {}
    BY DEF NewIds
  <2>3. Min(P) \in P
    BY <2>2, MinExists
  <2>4. B[id] = AsInt(WordAt(f, Min(P))) /\ A[id] = ExtensionOnly
    OBVIOUS
  <2> HIDE DEF A, B
  <2> QED
    BY <2>1, <2>3, <2>4
<1> HIDE DEF A, B, e, ids
<1>4. DOMAIN Extended(r.id_index, A) = DOMAIN r.id_index \cup DOMAIN A
  BY ExtendedDomain
<1>5. DOMAIN Extended(r.extended_offsets, B) = DOMAIN r.extended_offsets \cup DOMAIN B
  BY ExtendedDomain
<1>6. ASSUME NEW id \in ids
      PROVE  Extended(r.id_index, A)[id] = A[id]
  <2>1. id \in DOMAIN A /\ id \notin DOMAIN r.id_index
    BY <1>2, <1>3
  <2> QED
    BY <2>1, ExtendedAdds
<1>7. ASSUME NEW id \in ids
      PROVE  Extended(r.extended_offsets, B)[id] = B[id]
  <2>1. id \in DOMAIN B /\ id \notin DOMAIN r.extended_offsets
    BY <1>2, <1>3
  <2> QED
    BY <2>1, ExtendedAdds
<1>8. ASSUME NEW id \in ids
      PROVE  /\ id \notin DOMAIN r.id_index
             /\ e.id_index[id] = ExtensionOnly
             /\ \E pos \in pairs :
                  WordAt(f, pos + 4) = id /\ e.extended_offsets[id] = AsInt(WordAt(f, pos))
  BY <1>1, <1>3, <1>6, <1>7
<1> QED
  BY <1>1, <1>2, <1>4, <1>5, <1>8 DEF e, ids

LEMMA GlobalPairsAreNat ==
  ASSUME NEW f \in Files
  PROVE  /\ ScopePairs(f, "global") \in SUBSET Nat
         /\ \A pos \in ScopePairs(f, "global") : IsPair(f, pos)
<1>1. HEADER_SIZE \in Nat
  BY LayoutAssumption
<1>2. ScopePairs(f, "global") \subseteq {pos \in HEADER_SIZE .. Size(f) - 7 - 1 : IsPair(f, pos)}
  BY DEF ScopePairs, PairsIn, Region, Every4
<1>3. Size(f) \in Nat
  BY FilesAreSequences
<1> QED
  BY <1>1, <1>2, <1>3

LEMMA ExtendByKnown ==
  ASSUME NEW f \in Files, NEW n, NEW r, Known(f, n, r),
         NEW pairs, pairs \subseteq ScopePairs(f, "global")
  PROVE  Known(f, n, ExtendBy(r, f, pairs))
<1> DEFINE ids == NewIds(r, f, pairs)
           e == ExtendBy(r, f, pairs)
<1>1. Members(r) /\ DOMAIN r.extended_offsets \subseteq DOMAIN r.id_index
  BY DEF Known
<1>2. pairs \in SUBSET Nat /\ \A pos \in pairs : IsPair(f, pos)
  BY GlobalPairsAreNat
<1>3. /\ DOMAIN e.id_index = DOMAIN r.id_index \cup ids
      /\ DOMAIN e.extended_offsets = DOMAIN r.extended_offsets \cup ids
      /\ \A id \in ids :
           /\ id \notin DOMAIN r.id_index
           /\ e.id_index[id] = ExtensionOnly
           /\ \E pos \in pairs :
                WordAt(f, pos + 4) = id /\ e.extended_offsets[id] = AsInt(WordAt(f, pos))
  BY <1>1, <1>2, ExtendByAdds
<1>4. Members(e)
  BY <1>1, ExtendByMembers
<1>5. \A id \in DOMAIN r.id_index :
        /\ e.id_index[id] = r.id_index[id]
        /\ id \in DOMAIN r.extended_offsets => e.extended_offsets[id] = r.extended_offsets[id]
  BY <1>1, ExtendByKeeps
<1>6. \A id \in ids : id # Zero
  BY <1>2, PairNamesMarker DEF NewIds
<1> HIDE DEF e, ids
<1>7. ASSUME NEW id \in ids
      PROVE  Added(f, n, e, id)
  <2>1. \A q \in 0 .. n - 1 : \A t \in SlotMarkers(f, PageOffset(q)) : Value32(f, q, t) # id
    BY <1>3, <1>6 DEF Known
  <2> QED
    BY <1>3, <2>1 DEF Added
<1>8. ASSUME NEW id \in DOMAIN r.extended_offsets
      PROVE  Added(f, n, e, id)
  <2>1. Added(f, n, r, id)
    BY DEF Known
  <2>2. e.id_index[id] = r.id_index[id] /\ e.extended_offsets[id] = r.extended_offsets[id]
    BY <1>1, <1>5
  <2> QED
    BY <2>1, <2>2 DEF Added
<1>9. ASSUME NEW id \in DOMAIN e.id_index \ DOMAIN e.extended_offsets
      PROVE  FirstRecord(f, n, e, id)
  <2>1. id \in DOMAIN r.id_index \ DOMAIN r.extended_offsets
    BY <1>3
  <2>2. FirstRecord(f, n, r, id) /\ e.id_index[id] = r.id_index[id]
    BY <1>5, <2>1 DEF Known
  <2> QED
    BY <2>2 DEF FirstRecord
<1>10. DOMAIN e.extended_offsets \subseteq DOMAIN e.id_index
  BY <1>1, <1>3
<1>11. \A id \in DOMAIN e.id_index : id # Zero
  BY <1>3, <1>6 DEF Known
<1>12. \A id \in DOMAIN e.extended_offsets : Added(f, n, e, id)
  BY <1>3, <1>7, <1>8
<1>13. \A page \in 0 .. n - 1 : \A slot \in SlotMarkers(f, PageOffset(page)) :
         Value32(f, page, slot) # Zero => Value32(f, page, slot) \in DOMAIN e.id_index
  BY <1>3 DEF Known
<1>14. Known(f, n, e)
  BY <1>4, <1>9, <1>10, <1>11, <1>12, <1>13 DEF Known
<1> QED
  BY <1>14 DEF e

-----------------------------------------------------------------------------
(* One more page of the constructor.                                       *)

LEMMA IndexPageAdds ==
  ASSUME NEW f, NEW page, NEW r, Members(r)
  PROVE  LET slots == SlotMarkers(f, PageOffset(page))
             ids == {Value32(f, page, s) : s \in slots} \ ({Zero} \cup DOMAIN r.id_index)
             e == IndexPage(r, f, page)
         IN  /\ Members(e)
             /\ e.extended_offsets = r.extended_offsets
             /\ DOMAIN e.id_index = DOMAIN r.id_index \cup ids
             /\ \A id \in DOMAIN r.id_index : e.id_index[id] = r.id_index[id]
             /\ \A id \in ids : \E slot \in slots :
                  /\ Value32(f, page, slot) = id
                  /\ \A t \in slots : Value32(f, page, t) = id => slot <= t
                  /\ e.id_index[id] = [page |-> page, rec |-> RecIdx(f, page, slot)]
<1> DEFINE slots == SlotMarkers(f, PageOffset(page))
           ids == {Value32(f, page, s) : s \in slots} \ ({Zero} \cup DOMAIN r.id_index)
           first(id) == Min({s \in slots : Value32(f, page, s) = id})
           A == [id \in ids |-> [page |-> page, rec |-> RecIdx(f, page, first(id))]]
           X == Extended(r.id_index, A)
           root == IF r.btree_root = None /\ TagOf(f, page) = 194 THEN page ELSE r.btree_root
           e == IndexPage(r, f, page)
<1>1. e = [r EXCEPT !.btree_root = root, !.id_index = X]
  BY DEF IndexPage
<1>2. Members(e) /\ e.extended_offsets = r.extended_offsets /\ e.id_index = X
  <2> HIDE DEF X, root, e
  <2>1. e = [id_index |-> X, extended_offsets |-> r.extended_offsets, btree_root |-> root]
    BY <1>1 DEF Members
  <2> QED
    BY <2>1 DEF Members
<1>3. slots \in SUBSET Nat
  BY SlotsAreNat DEF SlotMarkers
<1>4. ASSUME NEW id \in ids
      PROVE  \E slot \in slots :
               /\ Value32(f, page, slot) = id
               /\ \A t \in slots : Value32(f, page, t) = id => slot <= t
               /\ X[id] = [page |-> page, rec |-> RecIdx(f, page, slot)]
  <2> DEFINE P == {s \in slots : Value32(f, page, s) = id}
             m == Min(P)
  <2>1. P \in SUBSET Nat /\ P # {}
    BY <1>3
  <2>2. m \in P /\ \A t \in P : m <= t
    BY <2>1, MinExists
  <2>3. A[id] = [page |-> page, rec |-> RecIdx(f, page, m)]
    OBVIOUS
  <2>4. id \in DOMAIN A /\ id \notin DOMAIN r.id_index
    OBVIOUS
  <2> HIDE DEF A, m
  <2>5. X[id] = A[id]
    BY <2>4, ExtendedAdds
  <2> HIDE DEF X
  <2> QED
    BY <2>2, <2>3, <2>5
<1>5. DOMAIN A = ids
  OBVIOUS
<1> HIDE DEF A
<1>6. DOMAIN X = DOMAIN r.id_index \cup DOMAIN A
  BY ExtendedDomain
<1>7. \A id \in DOMAIN r.id_index : X[id] = r.id_index[id]
  BY ExtendedKeeps
<1> HIDE DEF X, e, ids, slots
<1> QED
  BY <1>2, <1>4, <1>5, <1>6, <1>7 DEF e, ids, slots

LEMMA IndexPageKnown ==
  ASSUME NEW f \in Files, NEW n \in Nat, NEW r, Known(f, n, r),
         DOMAIN r.extended_offsets = {}
  PROVE  /\ Known(f, n + 1, IndexPage(r, f, n))
         /\ DOMAIN IndexPage(r, f, n).extended_offsets = {}
<1> DEFINE slots == SlotMarkers(f, PageOffset(n))
           ids == {Value32(f, n, s) : s \in slots} \ ({Zero} \cup DOMAIN r.id_index)
           e == IndexPage(r, f, n)
<1>1. /\ Members(e)
      /\ e.extended_offsets = r.extended_offsets
      /\ DOMAIN e.id_index = DOMAIN r.id_index \cup ids
      /\ \A id \in DOMAIN r.id_index : e.id_index[id] = r.id_index[id]
      /\ \A id \in ids : \E slot \in slots :
           /\ Value32(f, n, slot) = id
           /\ \A t \in slots : Value32(f, n, t) = id => slot <= t
           /\ e.id_index[id] = [page |-> n, rec |-> RecIdx(f, n, slot)]
  BY IndexPageAdds DEF Known
<1> HIDE DEF e
<1>2. ASSUME NEW page \in 0 .. n
      PROVE  page = n \/ page \in 0 .. n - 1
  OBVIOUS
<1>3. 0 .. n + 1 - 1 = 0 .. n
  OBVIOUS
<1>4. \A page \in 0 .. n - 1 : \A slot \in SlotMarkers(f, PageOffset(page)) :
        Value32(f, page, slot) # Zero => Value32(f, page, slot) \in DOMAIN r.id_index
  BY DEF Known
<1>5. \A page \in 0 .. n : \A slot \in SlotMarkers(f, PageOffset(page)) :
        Value32(f, page, slot) # Zero => Value32(f, page, slot) \in DOMAIN e.id_index
  BY <1>1, <1>2, <1>4
<1>6. ASSUME NEW p \in 0 .. n, NEW s \in SlotMarkers(f, PageOffset(p))
      PROVE  p \in Nat /\ PageOffset(p) \in Nat /\ s \in Nat /\ s <= PAGE_SIZE
  <2>1. p \in Nat /\ PAGE_SIZE \in Nat /\ HEADER_SIZE \in Nat
    BY LayoutAssumption
  <2>2. p * PAGE_SIZE \in Nat
    BY <2>1
  <2>3. PageOffset(p) \in Nat
    BY <2>1, <2>2 DEF PageOffset
  <2>4. s \in Nat /\ s + 8 <= PAGE_SIZE
    BY SlotsAreNat DEF SlotMarkers
  <2> QED
    BY <2>1, <2>3, <2>4
<1>7. ASSUME NEW id \in DOMAIN r.id_index
      PROVE  FirstRecord(f, n + 1, e, id)
  <2>1. FirstRecord(f, n, r, id)
    BY DEF Known
  <2>2. PICK page \in 0 .. n - 1 : \E slot \in SlotMarkers(f, PageOffset(page)) :
          /\ Value32(f, page, slot) = id
          /\ r.id_index[id] = [page |-> page, rec |-> RecIdx(f, page, slot)]
          /\ \A q \in 0 .. n - 1 : \A t \in SlotMarkers(f, PageOffset(q)) :
               Value32(f, q, t) = id => PageOffset(page) + slot <= PageOffset(q) + t
    BY <2>1 DEF FirstRecord
  <2>3. PICK slot \in SlotMarkers(f, PageOffset(page)) :
          /\ Value32(f, page, slot) = id
          /\ r.id_index[id] = [page |-> page, rec |-> RecIdx(f, page, slot)]
          /\ \A q \in 0 .. n - 1 : \A t \in SlotMarkers(f, PageOffset(q)) :
               Value32(f, q, t) = id => PageOffset(page) + slot <= PageOffset(q) + t
    BY <2>2
  <2>4. page \in Nat /\ page < n /\ page \in 0 .. n
    OBVIOUS
  <2>5. ASSUME NEW t \in SlotMarkers(f, PageOffset(n))
        PROVE  PageOffset(page) + slot <= PageOffset(n) + t
    <3>1. PageOffset(page) + PAGE_SIZE <= PageOffset(n)
      BY <2>4, PagesFollow
    <3>2. PageOffset(page) \in Nat /\ slot \in Nat /\ slot <= PAGE_SIZE
      BY <1>6, <2>4
    <3>3. n \in 0 .. n
      OBVIOUS
    <3>4. PageOffset(n) \in Nat /\ t \in Nat
      BY <1>6, <3>3
    <3> QED
      BY <3>1, <3>2, <3>4, LayoutAssumption
  <2>6. \A q \in 0 .. n : \A t \in SlotMarkers(f, PageOffset(q)) :
          Value32(f, q, t) = id => PageOffset(page) + slot <= PageOffset(q) + t
    BY <1>2, <2>3, <2>5
  <2>7. e.id_index[id] = [page |-> page, rec |-> RecIdx(f, page, slot)]
    BY <1>1, <2>3
  <2> QED
    BY <1>3, <2>3, <2>4, <2>6, <2>7 DEF FirstRecord
<1>8. ASSUME NEW id \in ids
      PROVE  FirstRecord(f, n + 1, e, id)
  <2>1. PICK slot \in slots :
          /\ Value32(f, n, slot) = id
          /\ \A t \in slots : Value32(f, n, t) = id => slot <= t
          /\ e.id_index[id] = [page |-> n, rec |-> RecIdx(f, n, slot)]
    BY <1>1
  <2>2. id # Zero /\ id \notin DOMAIN r.id_index
    OBVIOUS
  <2>3. n \in 0 .. n
    OBVIOUS
  <2>4. ASSUME NEW t \in SlotMarkers(f, PageOffset(n)), Value32(f, n, t) = id
        PROVE  PageOffset(n) + slot <= PageOffset(n) + t
    BY <1>6, <2>1, <2>3, <2>4
  <2>5. \A q \in 0 .. n - 1 : \A t \in SlotMarkers(f, PageOffset(q)) : Value32(f, q, t) # id
    BY <1>4, <2>2
  <2>6. \A q \in 0 .. n : \A t \in SlotMarkers(f, PageOffset(q)) :
          Value32(f, q, t) = id => PageOffset(n) + slot <= PageOffset(q) + t
    BY <1>2, <2>4, <2>5
  <2> QED
    BY <1>3, <2>1, <2>3, <2>6 DEF FirstRecord
<1>9. \A id \in DOMAIN e.id_index : id # Zero
  BY <1>1 DEF Known
<1> HIDE DEF ids, slots
<1>10. \A id \in DOMAIN e.id_index : FirstRecord(f, n + 1, e, id)
  BY <1>1, <1>7, <1>8
<1>11. Known(f, n + 1, e)
  BY <1>1, <1>3, <1>5, <1>9, <1>10 DEF Known
<1> QED
  BY <1>1, <1>11 DEF e

-----------------------------------------------------------------------------
(* The steps.                                                              *)

LEMMA IInvInit == Init => IInv
<1> SUFFICES ASSUME Init PROVE IInv
  OBVIOUS
<1>1. raw \in Files /\ phase = "building" /\ scanned = 0 /\ pending = {}
      /\ resolver = NewResolver
  BY DEF Init
<1>2. DOMAIN <<>> = {} /\ 0 .. 0 - 1 = {}
  OBVIOUS
<1>3. /\ resolver.id_index = <<>> /\ resolver.extended_offsets = <<>>
      /\ resolver.btree_root = None
      /\ Members(resolver)
  BY <1>1 DEF NewResolver, Members
<1>4. Known(raw, scanned, resolver)
  BY <1>1, <1>2, <1>3 DEF Known
<1> QED
  BY <1>1, <1>2, <1>3, <1>4 DEF IInv

LEMMA IInvStep == IInv /\ [Next]_vars => IInv'
<1> SUFFICES ASSUME IInv, [Next]_vars PROVE IInv'
  OBVIOUS
<1> USE DEF IInv
<1>1. CASE BuildPage
  <2>1. /\ phase = "building" /\ raw' = raw /\ pending' = pending
    BY <1>1 DEF BuildPage
  <2>2. CASE scanned \in Pages(raw)
    <3>1. resolver' = IndexPage(resolver, raw, scanned) /\ scanned' = scanned + 1
          /\ phase' = phase
      BY <1>1, <2>2 DEF BuildPage
    <3>2. /\ Known(raw, scanned + 1, IndexPage(resolver, raw, scanned))
          /\ DOMAIN IndexPage(resolver, raw, scanned).extended_offsets = {}
      BY <2>1, IndexPageKnown
    <3>3. \A page \in 0 .. scanned + 1 - 1 : page = scanned \/ page \in 0 .. scanned - 1
      OBVIOUS
    <3>4. 0 .. scanned' - 1 \subseteq Pages(raw') /\ scanned' \in Nat
      BY <2>1, <2>2, <3>1, <3>3
    <3> QED
      BY <2>1, <3>1, <3>2, <3>4
  <2>3. CASE scanned \notin Pages(raw)
    <3>1. phase' = "failed" /\ resolver' = resolver /\ scanned' = scanned
      BY <1>1, <2>3 DEF BuildPage
    <3> QED
      BY <2>1, <3>1
  <2> QED
    BY <2>2, <2>3
<1>2. CASE Attach
  BY <1>2 DEF Attach
<1>3. ASSUME NEW scope \in {"global", "neoidlist_records"}, ExtendWithNeoIdListEntries(scope)
      PROVE  IInv'
  <2>1. /\ phase = "attached" /\ UNCHANGED <<raw, phase, scanned, pending>>
        /\ resolver' = ExtendBy(resolver, raw, ScopePairs(raw, scope))
    BY <1>3 DEF ExtendWithNeoIdListEntries, Idle
  <2>2. ScopePairs(raw, scope) \subseteq ScopePairs(raw, "global")
    BY ScopePairsAreGlobal
  <2>3. Known(raw, scanned, ExtendBy(resolver, raw, ScopePairs(raw, scope)))
    BY <2>2, ExtendByKnown
  <2> QED
    BY <2>1, <2>3
<1>4. ASSUME NEW class_ids \in ClassSets, ExtendWithClassIndex(class_ids)
      PROVE  IInv'
  BY <1>4 DEF ExtendWithClassIndex, Idle
<1>5. ASSUME NEW class_id \in pending, ExtendClass(class_id)
      PROVE  IInv'
  <2>1. /\ UNCHANGED <<raw, phase, scanned>>
        /\ resolver' = ExtendBy(resolver, raw, ClassPairs(raw, class_id))
    BY <1>5 DEF ExtendClass
  <2>2. phase = "attached"
    BY <1>5
  <2>3. ClassPairs(raw, class_id) \subseteq ScopePairs(raw, "global")
    BY ClassPairsAreGlobal
  <2>4. Known(raw, scanned, ExtendBy(resolver, raw, ClassPairs(raw, class_id)))
    BY <2>3, ExtendByKnown
  <2> QED
    BY <2>1, <2>2, <2>4
<1>6. CASE UNCHANGED vars
  BY <1>6 DEF vars
<1> QED
  BY <1>1, <1>2, <1>3, <1>4, <1>5, <1>6 DEF Next

LEMMA KnownIdsLead ==
  ASSUME IInv, NEW r, Known(raw, scanned, r), NEW id \in DOMAIN r.id_index
  PROVE  LET off == ResolveOffset(r, raw, id) IN
         /\ off \in AllMarkers(raw)
         /\ IF RecordsWith(id) # {} THEN off = Min(RecordsWith(id)) ELSE off \in Targets(id)
<1> DEFINE off == ResolveOffset(r, raw, id)
<1>1. raw \in Files /\ scanned \in Nat /\ 0 .. scanned - 1 \subseteq Pages(raw)
      /\ Known(raw, scanned, r)
  BY DEF IInv
<1>2. ASSUME NEW o \in RecordsWith(id)
      PROVE  \E q \in 0 .. scanned - 1 : \E t \in SlotMarkers(raw, PageOffset(q)) :
               Value32(raw, q, t) = id /\ o = PageOffset(q) + t
  BY DEF RecordsWith, OffsetsOn
<1>3. CASE id \in DOMAIN r.extended_offsets
  <2>1. Added(raw, scanned, r, id)
    BY <1>1, <1>3 DEF Known
  <2>2. PICK pos \in ScopePairs(raw, "global") :
          WordAt(raw, pos + 4) = id /\ r.extended_offsets[id] = AsInt(WordAt(raw, pos))
    BY <2>1 DEF Added
  <2>3. off = AsInt(WordAt(raw, pos))
    BY <1>3, <2>2 DEF ResolveOffset
  <2>4. off \in AllMarkers(raw)
    BY <1>1, <2>3, GlobalPairsAreNat, PairNamesMarker
  <2>5. off \in Targets(id)
    BY <2>2, <2>3 DEF Targets
  <2>6. RecordsWith(id) = {}
    BY <1>2, <2>1 DEF Added
  <2> QED
    BY <2>4, <2>5, <2>6
<1>4. CASE id \notin DOMAIN r.extended_offsets
  <2>1. FirstRecord(raw, scanned, r, id)
    BY <1>1, <1>4 DEF Known
  <2>2. PICK page \in 0 .. scanned - 1 : \E slot \in SlotMarkers(raw, PageOffset(page)) :
          /\ Value32(raw, page, slot) = id
          /\ r.id_index[id] = [page |-> page, rec |-> RecIdx(raw, page, slot)]
          /\ \A q \in 0 .. scanned - 1 : \A t \in SlotMarkers(raw, PageOffset(q)) :
               Value32(raw, q, t) = id => PageOffset(page) + slot <= PageOffset(q) + t
    BY <2>1 DEF FirstRecord
  <2>3. PICK slot \in SlotMarkers(raw, PageOffset(page)) :
          /\ Value32(raw, page, slot) = id
          /\ r.id_index[id] = [page |-> page, rec |-> RecIdx(raw, page, slot)]
          /\ \A q \in 0 .. scanned - 1 : \A t \in SlotMarkers(raw, PageOffset(q)) :
               Value32(raw, q, t) = id => PageOffset(page) + slot <= PageOffset(q) + t
    BY <2>2
  <2>4. page \in Nat
    BY <1>1
  <2>5. r.id_index[id] # ExtensionOnly /\ r.id_index[id].page = page
    BY <2>3, <2>4 DEF ExtensionOnly
  <2>6. SlotOfRec(raw, r.id_index[id]) = slot
    BY <1>1, <2>3, SlotOfRecIdx
  <2>7. off = PageOffset(page) + slot
    BY <1>4, <2>5, <2>6 DEF ResolveOffset
  <2> HIDE DEF off
  <2>8. off \in AllMarkers(raw)
    BY <1>1, <2>7, SlotMarkerIsMarker
  <2>9. off \in RecordsWith(id)
    BY <2>3, <2>7 DEF RecordsWith, OffsetsOn
  <2>10. \A o \in RecordsWith(id) : off <= o
    BY <1>2, <2>3, <2>7
  <2>11. \A o \in RecordsWith(id) : o \in Int
    <3> SUFFICES ASSUME NEW o \in RecordsWith(id) PROVE o \in Int
      OBVIOUS
    <3>1. PICK q \in 0 .. scanned - 1 : \E t \in SlotMarkers(raw, PageOffset(q)) :
            o = PageOffset(q) + t
      BY <1>2
    <3>2. PICK t \in SlotMarkers(raw, PageOffset(q)) : o = PageOffset(q) + t
      BY <3>1
    <3>3. PageOffset(q) + t \in AllMarkers(raw)
      BY <1>1, SlotMarkerIsMarker
    <3> QED
      BY <1>1, <3>2, <3>3, MarkersAreOffsets
  <2>12. off = Min(RecordsWith(id))
    BY <2>9, <2>10, <2>11, MinIs
  <2> QED
    BY <2>8, <2>9, <2>12 DEF off
<1> QED
  BY <1>3, <1>4

LEMMA IInvLeads == IInv => EveryIdHasItsRecord
<1> SUFFICES ASSUME IInv, NEW id \in DOMAIN resolver.id_index
             PROVE  LET off == ResolveOffset(resolver, raw, id) IN
                    /\ off \in AllMarkers(raw)
                    /\ ClassifyHandle(resolver, raw, id) = <<"neoid", off>>
                    /\ IF RecordsWith(id) # {} THEN off = Min(RecordsWith(id))
                       ELSE off \in Targets(id)
  BY DEF EveryIdHasItsRecord
<1> DEFINE off == ResolveOffset(resolver, raw, id)
<1>1. /\ off \in AllMarkers(raw)
      /\ IF RecordsWith(id) # {} THEN off = Min(RecordsWith(id)) ELSE off \in Targets(id)
  BY KnownIdsLead DEF IInv
<1>2. id # Zero /\ raw \in Files
  BY DEF IInv, Known
<1> HIDE DEF off
<1>3. off # None
  BY <1>1, <1>2, MarkersAreOffsets, NoneAssumption
<1>4. ClassifyHandle(resolver, raw, id) = <<"neoid", off>>
  BY <1>2, <1>3 DEF ClassifyHandle, off
<1> QED
  BY <1>1, <1>4 DEF off

(* Whatever the file, and whatever it was extended by, every id a resolver *)
(* knows leads to a marker of the file: to the first record that carries   *)
(* the id, or, when none does, to a marker a pair of the file names for it.*)
THEOREM EveryIdLeads == Spec => []EveryIdHasItsRecord
<1>1. Spec => []IInv
  BY IInvInit, IInvStep, PTL DEF Spec
<1> QED
  BY <1>1, IInvLeads, PTL

(* No extension, of either kind and in whatever order its classes come,    *)
(* moves an id that is already known, its record or its payload.           *)
THEOREM ExtensionsKeep == Spec => ExtensionsOnlyAdd
<1> DEFINE Kept ==
      phase = "attached" =>
        \A id \in DOMAIN resolver.id_index :
          /\ ResolveOffset(resolver', raw', id) = ResolveOffset(resolver, raw, id)
          /\ ResolvePayload(resolver', raw', id) = ResolvePayload(resolver, raw, id)
<1>1. ASSUME IInv, [Next]_vars, phase = "attached"
      PROVE  raw' = raw /\ (resolver' = resolver
                            \/ \E pairs : resolver' = ExtendBy(resolver, raw, pairs))
  <2>1. CASE BuildPage \/ Attach
    BY <1>1, <2>1 DEF BuildPage, Attach
  <2>2. CASE \E scope \in {"global", "neoidlist_records"} : ExtendWithNeoIdListEntries(scope)
    BY <2>2 DEF ExtendWithNeoIdListEntries
  <2>3. CASE \E class_ids \in ClassSets : ExtendWithClassIndex(class_ids)
    BY <2>3 DEF ExtendWithClassIndex
  <2>4. CASE \E class_id \in pending : ExtendClass(class_id)
    BY <2>4 DEF ExtendClass
  <2>5. CASE UNCHANGED vars
    BY <2>5 DEF vars
  <2> QED
    BY <1>1, <2>1, <2>2, <2>3, <2>4, <2>5 DEF Next
<1>2. IInv /\ [Next]_vars => [Kept]_vars
  <2> SUFFICES ASSUME IInv, [Next]_vars, phase = "attached",
                      NEW id \in DOMAIN resolver.id_index
               PROVE  /\ ResolveOffset(resolver', raw', id) = ResolveOffset(resolver, raw, id)
                      /\ ResolvePayload(resolver', raw', id) = ResolvePayload(resolver, raw, id)
    OBVIOUS
  <2>1. Members(resolver) /\ DOMAIN resolver.extended_offsets \subseteq DOMAIN resolver.id_index
    BY DEF IInv, Known
  <2>2. raw' = raw /\ (resolver' = resolver
                       \/ \E pairs : resolver' = ExtendBy(resolver, raw, pairs))
    BY <1>1
  <2> QED
    BY <2>1, <2>2, ExtensionKeepsTargets
<1>3. Spec => []IInv
  BY IInvInit, IInvStep, PTL DEF Spec
<1> QED
  BY <1>2, <1>3, PTL DEF Spec, ExtensionsOnlyAdd

-----------------------------------------------------------------------------
(* The sibling indexes of a file: what they name, a pair of the file names.*)

LEMMA MarkersFinite ==
  ASSUME NEW f \in Files
  PROVE  IsFiniteSet(AllMarkers(f))
<1>1. HEADER_SIZE \in Int /\ Size(f) - 7 - 1 \in Int
  BY LayoutAssumption, FilesAreSequences
<1>2. IsFiniteSet(HEADER_SIZE .. Size(f) - 7 - 1)
  BY <1>1, FS_Interval
<1>3. AllMarkers(f) \in SUBSET (HEADER_SIZE .. Size(f) - 7 - 1)
  BY DEF AllMarkers, Every4
<1> QED
  BY <1>2, <1>3, FS_Subset

LEMMA PairsFinite ==
  ASSUME NEW f \in Files, NEW pairs, pairs \subseteq ScopePairs(f, "global")
  PROVE  /\ IsFiniteSet(pairs)
         /\ IsFiniteSet({WordAt(f, pos + 4) : pos \in pairs})
<1>1. HEADER_SIZE \in Int /\ Size(f) - 7 - 1 \in Int
  BY LayoutAssumption, FilesAreSequences
<1>2. IsFiniteSet(HEADER_SIZE .. Size(f) - 7 - 1)
  BY <1>1, FS_Interval
<1>3. pairs \in SUBSET (HEADER_SIZE .. Size(f) - 7 - 1)
  BY DEF ScopePairs, PairsIn, Region, Every4
<1>4. IsFiniteSet(pairs)
  BY <1>2, <1>3, FS_Subset
<1> DEFINE h == [pos \in pairs |-> WordAt(f, pos + 4)]
<1>5. {WordAt(f, pos + 4) : pos \in pairs} = {h[pos] : pos \in pairs} /\ DOMAIN h = pairs
  OBVIOUS
<1> HIDE DEF h
<1>6. IsFiniteSet({h[pos] : pos \in pairs})
  BY <1>4, <1>5, ValuesFinite
<1> QED
  BY <1>4, <1>5, <1>6

InRange(id) == id # Zero /\ AtMost(id, NEOID_CEILING)

(* An offset the file pairs with an id.                                    *)
Names(f, id, off) ==
  \E pos \in Every4(HEADER_SIZE, Size(f) - 7) :
    WordAt(f, pos) = Num(off) /\ WordAt(f, pos + 4) = id

LEMMA NamedIsTarget ==
  ASSUME NEW f \in Files, NEW id, InRange(id), NEW o \in AllMarkers(f), Names(f, id, o)
  PROVE  \E pos \in ScopePairs(f, "global") :
           WordAt(f, pos + 4) = id /\ AsInt(WordAt(f, pos)) = o
<1>1. PICK pos \in Every4(HEADER_SIZE, Size(f) - 7) :
        WordAt(f, pos) = Num(o) /\ WordAt(f, pos + 4) = id
  BY DEF Names
<1>2. IsPair(f, pos)
  BY <1>1 DEF IsPair, InRange
<1>3. pos \in ScopePairs(f, "global")
  BY <1>1, <1>2 DEF ScopePairs, PairsIn, Region
<1>4. AsInt(WordAt(f, pos)) = o
  BY <1>1, MarkersAreOffsets, NumBack
<1> QED
  BY <1>1, <1>3, <1>4

LEMMA HandlesAreNamed ==
  ASSUME NEW f \in Files, NEW id \in DOMAIN HandleIndex(f)
  PROVE  /\ HandleIndex(f)[id] # {} /\ HandleIndex(f)[id] \subseteq AllMarkers(f)
         /\ \A off \in HandleIndex(f)[id] : Names(f, id, off)
<1> DEFINE at == {o \in Every4(HEADER_SIZE, Size(f) - 8) : Accepted(f, o)}
           H == HandleIndex(f)
<1>1. H = [i \in {WordAt(f, o + 4) : o \in at} |->
             {AsInt(WordAt(f, o)) : o \in {p \in at : WordAt(f, p + 4) = i}}]
  BY DEF HandleIndex
<1>2. /\ id \in {WordAt(f, o + 4) : o \in at}
      /\ H[id] = {AsInt(WordAt(f, o)) : o \in {p \in at : WordAt(f, p + 4) = id}}
  BY <1>1
<1>3. HEADER_SIZE \in Nat /\ Size(f) \in Nat
  BY LayoutAssumption, FilesAreSequences
<1>4. ASSUME NEW o \in at, WordAt(f, o + 4) = id
      PROVE  AsInt(WordAt(f, o)) \in AllMarkers(f) /\ Names(f, id, AsInt(WordAt(f, o)))
  <2>1. PICK t \in Every4(HEADER_SIZE, Size(f) - 7) :
          WordAt(f, o) = Num(t) /\ MarkerAt(f, t)
    BY DEF Accepted
  <2>2. t \in AllMarkers(f)
    BY <2>1 DEF AllMarkers
  <2>3. AsInt(WordAt(f, o)) = t
    BY <2>1, <2>2, MarkersAreOffsets, NumBack
  <2>4. o \in Every4(HEADER_SIZE, Size(f) - 7)
    BY <1>3 DEF Every4
  <2> QED
    BY <1>4, <2>1, <2>2, <2>3, <2>4 DEF Names
<1> HIDE DEF H
<1>5. H[id] # {}
  BY <1>2
<1>6. \A off \in H[id] : off \in AllMarkers(f) /\ Names(f, id, off)
  BY <1>2, <1>4
<1> QED
  BY <1>5, <1>6 DEF H

LEMMA HandlesFinite ==
  ASSUME NEW f \in Files
  PROVE  IsFiniteSet(DOMAIN HandleIndex(f))
<1> DEFINE at == {o \in Every4(HEADER_SIZE, Size(f) - 8) : Accepted(f, o)}
           h == [o \in at |-> WordAt(f, o + 4)]
<1>1. HEADER_SIZE \in Int /\ Size(f) - 8 - 1 \in Int
  BY LayoutAssumption, FilesAreSequences
<1>2. IsFiniteSet(HEADER_SIZE .. Size(f) - 8 - 1)
  BY <1>1, FS_Interval
<1>3. at \in SUBSET (HEADER_SIZE .. Size(f) - 8 - 1)
  BY DEF Every4
<1>4. IsFiniteSet(at)
  BY <1>2, <1>3, FS_Subset
<1>5. DOMAIN HandleIndex(f) = {h[o] : o \in at} /\ DOMAIN h = at
  BY DEF HandleIndex
<1> HIDE DEF h, at
<1> QED
  BY <1>4, <1>5, ValuesFinite

LEMMA CoverageAddsUp ==
  ASSUME NEW f \in Files
  PROVE  LET c == Coverage(HandleIndex(f)) IN
         c.distinct_neoids = c.unambiguous + c.ambiguous
<1> DEFINE H == HandleIndex(f)
           D == DOMAIN H
           one == {id \in D : Cardinality(H[id]) = 1}
<1>1. IsFiniteSet(D)
  BY HandlesFinite
<1>2. one \subseteq D
  OBVIOUS
<1>3. Coverage(H).distinct_neoids = Cardinality(D) /\ Coverage(H).unambiguous = Cardinality(one)
      /\ Coverage(H).ambiguous = Cardinality(D \ one)
  BY DEF Coverage
<1> DEFINE rest == D \ one
<1> HIDE DEF one, D
<1>4. IsFiniteSet(one) /\ IsFiniteSet(rest)
  BY <1>1, <1>2, FS_Subset
<1>5. one \cap rest = {} /\ one \cup rest = D
  BY <1>2
<1> HIDE DEF rest
<1>6. Cardinality(one \cup rest) = Cardinality(one) + Cardinality(rest)
  BY <1>4, <1>5, DisjointCount
<1>7. Cardinality(D) = Cardinality(one) + Cardinality(rest)
  BY <1>5, <1>6
<1> HIDE DEF H
<1>8. Coverage(H).distinct_neoids = Coverage(H).unambiguous + Coverage(H).ambiguous
  BY <1>3, <1>7 DEF rest
<1> QED
  BY <1>8 DEF H

LEMMA RowsLieInFile ==
  ASSUME NEW f \in Files, NEW page \in Pages(f), NEW row \in RowSlots(f, page)
  PROVE  row \in Every4(HEADER_SIZE, Size(f) - 7)
<1>1. PICK s \in ENTRY_START .. PAGE_SIZE - 8 :
        (s - ENTRY_START) % 8 = 0 /\ row = PageOffset(page) + s
  BY DEF RowSlots
<1>2. /\ PageOffset(page) \in Nat /\ HEADER_SIZE <= PageOffset(page)
      /\ PageOffset(page) + PAGE_SIZE <= Size(f) /\ PageOffset(page) % 4 = 0
  BY PageInFile
<1>3. ENTRY_START \in Nat /\ ENTRY_START % 4 = 0 /\ PAGE_SIZE \in Nat /\ HEADER_SIZE \in Nat
      /\ Size(f) \in Nat
  BY ScansAssumption, LayoutAssumption, FilesAreSequences
<1>4. s \in Nat /\ s + 8 <= PAGE_SIZE
  BY <1>1, <1>3
<1>5. s % 4 = 0
  <2>1. PICK k \in Int : s - ENTRY_START = 8 * k
    <3>1. s - ENTRY_START = 8 * ((s - ENTRY_START) \div 8)
      BY <1>1, <1>3, <1>4
    <3> QED
      BY <1>3, <1>4, <3>1
  <2>2. PICK m \in Int : ENTRY_START = 4 * m
    <3>1. ENTRY_START = 4 * (ENTRY_START \div 4)
      BY <1>3
    <3> QED
      BY <1>3, <3>1
  <2>3. s = 4 * (2 * k + m)
    BY <1>4, <2>1, <2>2
  <2> QED
    BY <2>3
<1>6. row \in Nat /\ HEADER_SIZE <= row /\ row + 8 <= Size(f) /\ row % 4 = 0
  BY <1>1, <1>2, <1>3, <1>4, <1>5
<1> QED
  BY <1>3, <1>6 DEF Every4

LEMMA TablesAreNamed ==
  ASSUME NEW f \in Files, NEW id \in DOMAIN MasterIndex(f).id_to_offset,
         MasterIndex(f).id_to_offset[id] >= HEADER_SIZE
  PROVE  LET off == MasterIndex(f).id_to_offset[id] IN
         off \in AllMarkers(f) /\ Names(f, id, off)
<1> DEFINE tables == {p \in Pages(f) : IsTable(f, p)}
           rows == UNION {ValidRows(f, p) : p \in tables}
           first(i) == Min({row \in rows : WordAt(f, row + 4) = i})
           P == {row \in rows : WordAt(f, row + 4) = id}
           off == MasterIndex(f).id_to_offset[id]
<1>1. MasterIndex(f).id_to_offset
        = [i \in {WordAt(f, row + 4) : row \in rows} |-> AsInt(WordAt(f, first(i)))]
  BY DEF MasterIndex
<1>2. id \in {WordAt(f, row + 4) : row \in rows} /\ off = AsInt(WordAt(f, Min(P)))
  BY <1>1
<1>3. ASSUME NEW row \in rows
      PROVE  row \in Every4(HEADER_SIZE, Size(f) - 7) /\ LeadsToMarker(f, WordAt(f, row))
  <2>1. PICK p \in Pages(f) : row \in ValidRows(f, p)
    OBVIOUS
  <2> QED
    BY <2>1, RowsLieInFile DEF ValidRows
<1> HIDE DEF rows, off
<1>4. P \in SUBSET Nat
  <2>1. Every4(HEADER_SIZE, Size(f) - 7) \subseteq Nat
    BY LayoutAssumption, FilesAreSequences DEF Every4
  <2> QED
    BY <1>3, <2>1
<1>5. P # {}
  BY <1>2
<1>6. Min(P) \in P
  BY <1>4, <1>5, MinExists
<1> DEFINE row == Min(P)
<1>7. row \in rows /\ WordAt(f, row + 4) = id /\ off = AsInt(WordAt(f, row))
  BY <1>2, <1>6
<1> HIDE DEF row
<1>8. PICK o \in Every4(0, Size(f) - 7) : WordAt(f, row) = Num(o) /\ MarkerAt(f, o)
  BY <1>3, <1>7 DEF LeadsToMarker
<1>9. o \in Nat /\ o \in 0 .. Size(f) - 7 - 1 /\ o % 4 = 0
  BY FilesAreSequences DEF Every4
<1>10. off = o
  BY <1>7, <1>8, <1>9, NumBack
<1>11. HEADER_SIZE <= o
  BY <1>9, <1>10, LayoutAssumption DEF off
<1>12. o \in AllMarkers(f)
  BY <1>8, <1>9, <1>11, LayoutAssumption, FilesAreSequences DEF AllMarkers, Every4
<1>13. Names(f, id, o)
  BY <1>3, <1>7, <1>8 DEF Names
<1> QED
  BY <1>10, <1>12, <1>13 DEF off

-----------------------------------------------------------------------------
(* A global extension of a resolver, whatever was added before.            *)

LEMMA GlobalKnows ==
  ASSUME IInv, NEW id, NEW o \in AllMarkers(raw), InRange(id), Names(raw, id, o)
  PROVE  LET global == ExtendBy(resolver, raw, ScopePairs(raw, "global"))
             off == ResolveOffset(global, raw, id)
         IN  /\ off \in AllMarkers(raw)
             /\ o \in Targets(id)
             /\ RecordsWith(id) = {} => off \in Targets(id)
<1> DEFINE pairs == ScopePairs(raw, "global")
           global == ExtendBy(resolver, raw, pairs)
<1>1. raw \in Files /\ Known(raw, scanned, resolver)
  BY DEF IInv
<1>2. PICK pos \in pairs : WordAt(raw, pos + 4) = id /\ AsInt(WordAt(raw, pos)) = o
  BY <1>1, NamedIsTarget
<1>3. o \in Targets(id)
  BY <1>2 DEF Targets
<1>4. Members(resolver) /\ DOMAIN resolver.extended_offsets \subseteq DOMAIN resolver.id_index
  BY <1>1 DEF Known
<1>5. pairs \in SUBSET Nat
  BY <1>1, GlobalPairsAreNat
<1>6. DOMAIN global.id_index = DOMAIN resolver.id_index \cup NewIds(resolver, raw, pairs)
  BY <1>4, <1>5, ExtendByAdds
<1>7. id \in DOMAIN resolver.id_index \/ id \in NewIds(resolver, raw, pairs)
  BY <1>2, <1>4 DEF NewIds
<1>8. Known(raw, scanned, global)
  BY <1>1, ExtendByKnown
<1> HIDE DEF global
<1>9. id \in DOMAIN global.id_index
  BY <1>6, <1>7
<1>10. /\ ResolveOffset(global, raw, id) \in AllMarkers(raw)
       /\ RecordsWith(id) = {} => ResolveOffset(global, raw, id) \in Targets(id)
  BY <1>8, <1>9, KnownIdsLead
<1> QED
  BY <1>3, <1>10 DEF global

LEMMA TargetsInRange ==
  ASSUME NEW id, raw \in Files, Targets(id) # {}
  PROVE  InRange(id)
<1>1. PICK pos \in ScopePairs(raw, "global") : WordAt(raw, pos + 4) = id
  BY DEF Targets
<1>2. IsPair(raw, pos)
  BY GlobalPairsAreNat
<1> QED
  BY <1>1, <1>2 DEF IsPair, InRange

(* An id with one target is resolved alike by all three.                   *)
LEMMA OneTarget ==
  ASSUME IInv, NEW id \in DOMAIN HandleIndex(raw),
         Targets(id) = HandleIndex(raw)[id],
         ~ResolveHandleId(HandleIndex(raw), raw, id).ambiguous,
         RecordsWith(id) = {}
  PROVE  LET off == ResolveOffset(ExtendBy(resolver, raw, ScopePairs(raw, "global")), raw, id)
         IN  /\ off = ResolveHandleId(HandleIndex(raw), raw, id).offset
             /\ \A o \in AllMarkers(raw) : Names(raw, id, o) => o = off
<1> DEFINE T == HandleIndex(raw)[id]
           off == ResolveOffset(ExtendBy(resolver, raw, ScopePairs(raw, "global")), raw, id)
<1>1. raw \in Files
  BY DEF IInv
<1>2. T # {} /\ T \subseteq AllMarkers(raw) /\ \A o \in T : Names(raw, id, o)
  BY <1>1, HandlesAreNamed
<1>3. ResolveHandleId(HandleIndex(raw), raw, id).offset = Min(T)
      /\ ResolveHandleId(HandleIndex(raw), raw, id).ambiguous = (Cardinality(T) > 1)
  BY DEF ResolveHandleId
<1>4. InRange(id)
  BY <1>1, <1>2, TargetsInRange
<1> HIDE DEF T
<1>5. IsFiniteSet(T)
  BY <1>1, <1>2, MarkersFinite, FS_Subset
<1>6. ~(Cardinality(T) > 1)
  BY <1>3
<1>7. Cardinality(T) \in Nat /\ Cardinality(T) # 0
  BY <1>2, <1>5, FS_CardinalityType, FS_EmptySet
<1>8. Cardinality(T) = 1
  BY <1>6, <1>7
<1>9. PICK x : T = {x}
  BY <1>5, <1>8, FS_Singleton
<1>10. x \in T /\ x \in AllMarkers(raw) /\ x \in Nat
  BY <1>1, <1>2, <1>9, MarkersAreOffsets
<1>11. Min(T) = x
  BY <1>9, <1>10, MinIs
<1>12. Targets(id) = T
  BY DEF T
<1>13. off \in Targets(id)
  BY <1>2, <1>4, <1>10, GlobalKnows
<1> HIDE DEF off
<1>14. off = x
  BY <1>9, <1>12, <1>13
<1>15. ASSUME NEW o \in AllMarkers(raw), Names(raw, id, o)
       PROVE  o = off
  <2>1. o \in Targets(id)
    BY <1>4, <1>15, GlobalKnows
  <2> QED
    BY <1>9, <1>12, <1>14, <2>1
<1>16. off = ResolveHandleId(HandleIndex(raw), raw, id).offset
  BY <1>3, <1>11, <1>14
<1> QED
  BY <1>15, <1>16 DEF off

-----------------------------------------------------------------------------
(* The reports. Between the classes of an extension the report has the size*)
(* of the index, and its classes the ids that were added so far.           *)

AddedBy(per_class) == SumFunction([c \in DOMAIN per_class |-> per_class[c].ids_added])

Reported ==
  /\ report = [before |-> report.before, after |-> report.after,
               added |-> report.added, per_class |-> report.per_class]
  /\ report.before \in Nat /\ report.added \in Nat
  /\ report.after = report.before + report.added
  /\ IsFiniteSet(DOMAIN resolver.id_index)
  /\ pending # {} => report.after = Cardinality(DOMAIN resolver.id_index)
  /\ IsFiniteSet(DOMAIN report.per_class) /\ DOMAIN report.per_class \cap pending = {}
  /\ \A c \in DOMAIN report.per_class : report.per_class[c].ids_added \in Nat
  /\ pending # {} \/ report.per_class # <<>> => report.added = AddedBy(report.per_class)

LEMMA NoClasses ==
  /\ DOMAIN <<>> = {} /\ IsFiniteSet(DOMAIN <<>>)
  /\ AddedBy(<<>>) = 0
<1>1. DOMAIN <<>> = {} /\ IsFiniteSet({})
  BY FS_EmptySet
<1> DEFINE F == [c \in {} |-> <<>>[c].ids_added]
<1>2. F \in [{} -> Int] /\ \A x \in {} : F[x] = 0
  OBVIOUS
<1>3. AddedBy(<<>>) = SumFunction(F)
  BY <1>1 DEF AddedBy
<1> HIDE DEF F
<1>4. SumFunction(F) = 0
  BY <1>1, <1>2, SumOfZeros
<1> QED
  BY <1>1, <1>3, <1>4

LEMMA OneClassMore ==
  ASSUME NEW pc, IsFiniteSet(DOMAIN pc), \A c \in DOMAIN pc : pc[c].ids_added \in Nat,
         NEW k, k \notin DOMAIN pc, NEW row, row.ids_added \in Nat
  PROVE  LET more == Extended(pc, [c \in {k} |-> row]) IN
         /\ IsFiniteSet(DOMAIN more) /\ DOMAIN more = DOMAIN pc \cup {k}
         /\ \A c \in DOMAIN more : more[c].ids_added \in Nat
         /\ AddedBy(more) = AddedBy(pc) + row.ids_added
<1> DEFINE D == DOMAIN pc
           more == Extended(pc, [c \in {k} |-> row])
           F == [c \in D |-> pc[c].ids_added]
           G == [c \in DOMAIN more |-> more[c].ids_added]
<1>1. more = [c \in D \cup {k} |-> IF c \in D THEN pc[c] ELSE row]
  BY DEF Extended
<1>2. DOMAIN more = D \cup {k} /\ more[k] = row /\ \A c \in D : more[c] = pc[c]
  BY <1>1
<1> HIDE DEF more
<1>3. \A c \in DOMAIN more : more[c].ids_added \in Nat
  BY <1>2
<1>4. IsFiniteSet(DOMAIN more)
  BY <1>2, FS_AddElement
<1>5. /\ F \in [D -> Int] /\ G \in [D \cup {k} -> Int]
      /\ \A c \in D : G[c] = F[c]
      /\ G[k] = row.ids_added
  BY <1>2, <1>3
<1>6. AddedBy(pc) = SumFunction(F) /\ AddedBy(more) = SumFunction(G)
  BY DEF AddedBy
<1> HIDE DEF D, F, G
<1>7. SumFunction(G) = SumFunction(F) + G[k]
  <2>1. IsFiniteSet(D) /\ k \notin D
    BY DEF D
  <2> QED
    BY <1>5, <2>1, SumOneMore
<1> QED
  BY <1>2, <1>3, <1>4, <1>5, <1>6, <1>7 DEF more, D

LEMMA ExtendByGrows ==
  ASSUME NEW f \in Files, NEW n, NEW r, Known(f, n, r), IsFiniteSet(DOMAIN r.id_index),
         NEW pairs, pairs \subseteq ScopePairs(f, "global")
  PROVE  LET e == ExtendBy(r, f, pairs)
             new == NewIds(r, f, pairs)
         IN  /\ IsFiniteSet(DOMAIN e.id_index)
             /\ Cardinality(new) \in Nat /\ Cardinality(DOMAIN r.id_index) \in Nat
             /\ Cardinality(DOMAIN e.id_index) = Cardinality(DOMAIN r.id_index) + Cardinality(new)
<1> DEFINE new == NewIds(r, f, pairs)
           e == ExtendBy(r, f, pairs)
           D == DOMAIN r.id_index
<1>1. Members(r) /\ DOMAIN r.extended_offsets \subseteq DOMAIN r.id_index
  BY DEF Known
<1>2. pairs \in SUBSET Nat
  BY GlobalPairsAreNat
<1>3. DOMAIN e.id_index = D \cup new
  BY <1>1, <1>2, ExtendByAdds
<1>4. new \cap D = {} /\ new \subseteq {WordAt(f, pos + 4) : pos \in pairs}
  BY DEF NewIds
<1>5. IsFiniteSet(new)
  BY <1>4, PairsFinite, FS_Subset
<1> HIDE DEF e, new, D
<1>6. IsFiniteSet(D) /\ D \cap new = {}
  BY <1>4 DEF D
<1>7. /\ IsFiniteSet(D \cup new)
      /\ Cardinality(D \cup new) = Cardinality(D) + Cardinality(new)
  BY <1>5, <1>6, DisjointCount
<1>8. Cardinality(D) \in Nat /\ Cardinality(new) \in Nat
  BY <1>5, <1>6, FS_CardinalityType
<1> QED
  BY <1>3, <1>7, <1>8 DEF e, new, D

LEMMA IndexPageFinite ==
  ASSUME NEW f, NEW page, NEW r, Members(r), IsFiniteSet(DOMAIN r.id_index)
  PROVE  IsFiniteSet(DOMAIN IndexPage(r, f, page).id_index)
<1> DEFINE slots == SlotMarkers(f, PageOffset(page))
           h == [s \in slots |-> Value32(f, page, s)]
           V == {h[s] : s \in slots}
           ids == {Value32(f, page, s) : s \in slots} \ ({Zero} \cup DOMAIN r.id_index)
<1>1. DOMAIN IndexPage(r, f, page).id_index = DOMAIN r.id_index \cup ids
  BY IndexPageAdds
<1>2. IsFiniteSet(slots)
  BY SlotMarkersFinite
<1>3. ids \subseteq V /\ DOMAIN h = slots
  OBVIOUS
<1> HIDE DEF ids, h, slots
<1>4. IsFiniteSet(V)
  BY <1>2, <1>3, ValuesFinite
<1>5. IsFiniteSet(ids)
  BY <1>3, <1>4, FS_Subset
<1> QED
  BY <1>1, <1>5, FS_Union

LEMMA ReportedInit == Init => Reported
<1> SUFFICES ASSUME Init PROVE Reported
  OBVIOUS
<1>1. report = [before |-> 0, after |-> 0, added |-> 0, per_class |-> <<>>]
      /\ pending = {} /\ resolver.id_index = <<>>
  BY DEF Init, NoReport, NewResolver
<1> QED
  BY <1>1, NoClasses DEF Reported

LEMMA ReportedStep == IInv /\ Reported /\ [Next]_vars => Reported'
<1> SUFFICES ASSUME IInv, Reported, [Next]_vars PROVE Reported'
  OBVIOUS
<1>1. raw \in Files /\ Known(raw, scanned, resolver) /\ IsFiniteSet(DOMAIN resolver.id_index)
  BY DEF IInv, Reported
<1>2. CASE BuildPage
  <2>1. report' = report /\ pending' = pending /\ pending = {}
    BY <1>2 DEF BuildPage, IInv
  <2>2. IsFiniteSet(DOMAIN resolver'.id_index)
    <3>1. resolver' = resolver \/ resolver' = IndexPage(resolver, raw, scanned)
      BY <1>2 DEF BuildPage
    <3>2. Members(resolver)
      BY <1>1 DEF Known
    <3> QED
      BY <1>1, <3>1, <3>2, IndexPageFinite
  <2> QED
    BY <2>1, <2>2 DEF Reported
<1>3. CASE Attach
  BY <1>3 DEF Attach, Reported
<1>4. ASSUME NEW scope \in {"global", "neoidlist_records"}, ExtendWithNeoIdListEntries(scope)
      PROVE  Reported'
  <2> DEFINE pairs == ScopePairs(raw, scope)
             e == ExtendBy(resolver, raw, pairs)
             new == NewIds(resolver, raw, pairs)
  <2>1. /\ resolver' = e /\ pending' = {}
        /\ report' = [before |-> Cardinality(DOMAIN resolver.id_index),
                      after |-> Cardinality(DOMAIN resolver'.id_index),
                      added |-> Cardinality(new), per_class |-> <<>>]
    BY <1>4 DEF ExtendWithNeoIdListEntries, Idle
  <2>2. /\ IsFiniteSet(DOMAIN e.id_index)
        /\ Cardinality(new) \in Nat /\ Cardinality(DOMAIN resolver.id_index) \in Nat
        /\ Cardinality(DOMAIN e.id_index) = Cardinality(DOMAIN resolver.id_index) + Cardinality(new)
    BY <1>1, ScopePairsAreGlobal, ExtendByGrows
  <2> HIDE DEF e, new
  <2>3. /\ report'.before = Cardinality(DOMAIN resolver.id_index)
        /\ report'.after = Cardinality(DOMAIN e.id_index)
        /\ report'.added = Cardinality(new) /\ report'.per_class = <<>>
        /\ report' = [before |-> report'.before, after |-> report'.after,
                      added |-> report'.added, per_class |-> report'.per_class]
    BY <2>1
  <2> QED
    BY <2>1, <2>2, <2>3, NoClasses DEF Reported
<1>5. ASSUME NEW class_ids \in ClassSets, ExtendWithClassIndex(class_ids)
      PROVE  Reported'
  <2> DEFINE n == Cardinality(DOMAIN resolver.id_index)
  <2>1. /\ resolver' = resolver
        /\ report' = [before |-> n, after |-> n, added |-> 0, per_class |-> <<>>]
    BY <1>5 DEF ExtendWithClassIndex
  <2>2. n \in Nat
    BY <1>1, FS_CardinalityType
  <2>3. Cardinality(DOMAIN resolver'.id_index) = n /\ IsFiniteSet(DOMAIN resolver'.id_index)
    BY <1>1, <2>1
  <2> HIDE DEF n
  <2>4. /\ report'.before = n /\ report'.after = n
        /\ report'.added = 0 /\ report'.per_class = <<>>
        /\ report' = [before |-> report'.before, after |-> report'.after,
                      added |-> report'.added, per_class |-> report'.per_class]
    BY <2>1
  <2> QED
    BY <2>2, <2>3, <2>4, NoClasses DEF Reported
<1>6. ASSUME NEW class_id \in pending, ExtendClass(class_id)
      PROVE  Reported'
  <2> DEFINE pairs == ClassPairs(raw, class_id)
             e == ExtendBy(resolver, raw, pairs)
             new == Cardinality(NewIds(resolver, raw, pairs))
             row == [records_scanned |-> Cardinality(ClassRegions(raw, class_id)),
                     pair_candidates |-> Cardinality(pairs), ids_added |-> new]
             pc == report.per_class
             more == Extended(pc, [c \in {class_id} |-> row])
  <2>1. /\ resolver' = e /\ pending' = pending \ {class_id}
        /\ report' = [report EXCEPT !.after = Cardinality(DOMAIN resolver'.id_index),
                                    !.added = report.added + new, !.per_class = more]
    BY <1>6 DEF ExtendClass
  <2>2. /\ IsFiniteSet(DOMAIN e.id_index)
        /\ new \in Nat /\ Cardinality(DOMAIN resolver.id_index) \in Nat
        /\ Cardinality(DOMAIN e.id_index) = Cardinality(DOMAIN resolver.id_index) + new
    BY <1>1, ClassPairsAreGlobal, ExtendByGrows
  <2>3. row.ids_added = new
    OBVIOUS
  <2> HIDE DEF e, new, row
  <2>4. /\ IsFiniteSet(DOMAIN pc) /\ class_id \notin DOMAIN pc
        /\ \A c \in DOMAIN pc : pc[c].ids_added \in Nat
        /\ report.before \in Nat /\ report.added \in Nat
        /\ report.after = report.before + report.added
        /\ report.after = Cardinality(DOMAIN resolver.id_index)
        /\ report.added = AddedBy(pc)
    BY DEF Reported
  <2> HIDE DEF pc
  <2>5. /\ IsFiniteSet(DOMAIN more) /\ DOMAIN more = DOMAIN pc \cup {class_id}
        /\ \A c \in DOMAIN more : more[c].ids_added \in Nat
        /\ AddedBy(more) = AddedBy(pc) + new
    <3>1. row.ids_added \in Nat
      BY <2>2, <2>3
    <3>2. /\ IsFiniteSet(DOMAIN pc) /\ class_id \notin DOMAIN pc
          /\ \A c \in DOMAIN pc : pc[c].ids_added \in Nat
      BY <2>4
    <3>3. /\ IsFiniteSet(DOMAIN more) /\ DOMAIN more = DOMAIN pc \cup {class_id}
          /\ \A c \in DOMAIN more : more[c].ids_added \in Nat
          /\ AddedBy(more) = AddedBy(pc) + row.ids_added
      BY <3>1, <3>2, OneClassMore, Zenon
    <3> QED
      BY <2>3, <3>3
  <2> HIDE DEF more
  <2>6. report = [before |-> report.before, after |-> report.after,
                  added |-> report.added, per_class |-> report.per_class]
    BY DEF Reported
  <2>7. report' = [before |-> report.before, after |-> Cardinality(DOMAIN e.id_index),
                   added |-> report.added + new, per_class |-> more]
    BY <2>1, <2>6
  <2>8. /\ report'.before = report.before /\ report'.after = Cardinality(DOMAIN e.id_index)
        /\ report'.added = report.added + new /\ report'.per_class = more
        /\ report' = [before |-> report'.before, after |-> report'.after,
                      added |-> report'.added, per_class |-> report'.per_class]
    BY <2>7
  <2>9. /\ report'.before \in Nat /\ report'.added \in Nat
        /\ report'.after = report'.before + report'.added
        /\ report'.added = AddedBy(report'.per_class)
    BY <2>2, <2>4, <2>5, <2>8
  <2>10. DOMAIN more \cap pending' = {}
    <3>1. DOMAIN pc \cap pending = {}
      BY DEF Reported, pc
    <3> QED
      BY <2>1, <2>5, <3>1
  <2> QED
    BY <2>1, <2>2, <2>5, <2>8, <2>9, <2>10 DEF Reported
<1>7. CASE UNCHANGED vars
  BY <1>7 DEF vars, Reported
<1> QED
  BY <1>2, <1>3, <1>4, <1>5, <1>6, <1>7 DEF Next

LEMMA ReportedAgree == IInv /\ Reported => IndexesAgree
<1> SUFFICES ASSUME IInv, Reported, Idle PROVE IndexesAgree
  BY DEF IndexesAgree
<1> DEFINE table == MasterIndex(raw).id_to_offset
           master == RestrictValues(table, LAMBDA off : off >= HEADER_SIZE)
           handles == HandleIndex(raw)
           global == ExtendBy(resolver, raw, ScopePairs(raw, "global"))
<1>1. raw \in Files
  BY DEF IInv
<1>2. ASSUME NEW id \in DOMAIN master
      PROVE  master[id] \in AllMarkers(raw) /\ Names(raw, id, master[id])
  <2>1. /\ id \in DOMAIN table /\ table[id] >= HEADER_SIZE /\ master[id] = table[id]
    BY DEF RestrictValues, Restrict
  <2> QED
    BY <1>1, <2>1, TablesAreNamed
<1>3. ASSUME NEW id \in DOMAIN handles
      PROVE  \E o \in AllMarkers(raw) : Names(raw, id, o)
  BY <1>1, HandlesAreNamed
<1> HIDE DEF table, master, handles, global
<1>4. ASSUME NEW id \in DOMAIN master \cup DOMAIN handles, InRange(id)
      PROVE  ResolveOffset(global, raw, id) # None
  <2>1. PICK o \in AllMarkers(raw) : Names(raw, id, o)
    BY <1>2, <1>3
  <2>2. ResolveOffset(global, raw, id) \in AllMarkers(raw)
    BY <1>4, <2>1, GlobalKnows DEF global
  <2> QED
    BY <1>1, <2>2, MarkersAreOffsets, NoneAssumption
<1>5. ASSUME NEW id \in DOMAIN handles, Targets(id) = handles[id],
             ~ResolveHandleId(handles, raw, id).ambiguous, RecordsWith(id) = {}
      PROVE  /\ ResolveOffset(global, raw, id) = ResolveHandleId(handles, raw, id).offset
             /\ id \in DOMAIN master => master[id] = ResolveOffset(global, raw, id)
  <2>1. /\ ResolveOffset(global, raw, id) = ResolveHandleId(handles, raw, id).offset
        /\ \A o \in AllMarkers(raw) : Names(raw, id, o) => o = ResolveOffset(global, raw, id)
    BY <1>5, OneTarget DEF handles, global
  <2> QED
    BY <1>2, <2>1
<1>6. Coverage(handles).distinct_neoids
        = Coverage(handles).unambiguous + Coverage(handles).ambiguous
  BY <1>1, CoverageAddsUp DEF handles
<1>7. /\ report.after = report.before + report.added
      /\ report.per_class # <<>> =>
           report.added = SumFunction([c \in DOMAIN report.per_class |->
                                         report.per_class[c].ids_added])
  BY DEF Reported, AddedBy
<1> QED
  BY <1>4, <1>5, <1>6, <1>7 DEF IndexesAgree, InRange, table, master, handles, global

(* Whatever the file: what the table pages (behind the header) or the pairs*)
(* of HandleResolver know, a global extension knows too, also after others;*)
(* an id with one target leads to it in each; and the reports of the       *)
(* extensions, class by class, add up to the growth of the index.          *)
THEOREM SiblingsAgree == Spec => []IndexesAgree
<1>1. Spec => []IInv
  BY IInvInit, IInvStep, PTL DEF Spec
<1>2. Spec => []Reported
  BY <1>1, ReportedInit, ReportedStep, PTL DEF Spec
<1> QED
  BY <1>1, <1>2, ReportedAgree, PTL

-----------------------------------------------------------------------------
(* The elements of a set, counted by a key, are as many as the set has.    *)
LEMMA CountByKey ==
  ASSUME NEW S, IsFiniteSet(S), NEW h, DOMAIN h = S
  PROVE  SumFunction([c \in {h[x] : x \in S} |-> Cardinality({x \in S : h[x] = c})])
           = Cardinality(S)
<1> DEFINE K == {h[x] : x \in S}
           F(s) == [c \in K |-> Cardinality({x \in s : h[x] = c})]
           Good == {s \in SUBSET S : SumFunction(F(s)) = Cardinality(s)}
<1>1. IsFiniteSet(K)
  BY ValuesFinite
<1>2. ASSUME NEW s \in SUBSET S
      PROVE  /\ IsFiniteSet(s) /\ Cardinality(s) \in Nat
             /\ \A c : IsFiniteSet({x \in s : h[x] = c})
                       /\ Cardinality({x \in s : h[x] = c}) \in Nat
  <2>1. \A c : {x \in s : h[x] = c} \in SUBSET S
    OBVIOUS
  <2> QED
    BY <2>1, FS_Subset, FS_CardinalityType
<1>3. \A s \in SUBSET S : F(s) \in [K -> Int]
  BY <1>2
<1>4. ASSUME NEW s \in SUBSET S, \A x \in s : s \ {x} \in Good
      PROVE  s \in Good
  <2>1. CASE s = {}
    <3>1. \A c \in K : {x \in s : h[x] = c} = {}
      BY <2>1
    <3>2. \A c \in K : F(s)[c] = 0
      BY <3>1, FS_EmptySet
    <3>3. F(s) \in [K -> Int]
      BY <1>3
    <3> HIDE DEF F, K
    <3>4. SumFunction(F(s)) = 0
      BY <1>1, <3>2, <3>3, SumOfZeros
    <3> QED
      BY <2>1, <3>4, FS_EmptySet
  <2>2. CASE s # {}
    <3>1. PICK y \in s : TRUE
      BY <2>2
    <3> DEFINE t == s \ {y}
               k == h[y]
               A == {x \in s : h[x] = k}
               B == {x \in t : h[x] = k}
    <3>2. t \in SUBSET S /\ t \in Good /\ k \in K
      BY <1>4, <3>1
    <3>3. y \notin B /\ A = B \cup {y}
      BY <3>1
    <3>4. IsFiniteSet(B) /\ Cardinality(B) \in Nat
      BY <1>2, <3>2
    <3>5. Cardinality(A) = Cardinality(B) + 1
      BY <3>3, <3>4, FS_AddElement
    <3>6. F(s)[k] = Cardinality(A) /\ F(t)[k] = Cardinality(B)
      BY <3>2
    <3>7. \A c \in K : c # k => F(s)[c] = F(t)[c]
      <4>1. ASSUME NEW c \in K, c # k
            PROVE  {x \in s : h[x] = c} = {x \in t : h[x] = c}
        BY <4>1
      <4> QED
        BY <4>1
    <3>8. F(s) \in [K -> Int] /\ F(t) \in [K -> Int]
      BY <1>3, <3>2
    <3>9. IsFiniteSet(t) /\ Cardinality(t) \in Nat /\ y \notin t /\ s = t \cup {y}
      BY <1>2, <3>1, <3>2
    <3>10. Cardinality(s) = Cardinality(t) + 1
      BY <3>9, FS_AddElement
    <3>11. SumFunction(F(t)) = Cardinality(t)
      BY <3>2
    <3> HIDE DEF F, K, A, B, k, t, Good
    <3>12. SumFunction(F(s)) = SumFunction(F(t)) + (F(s)[k] - F(t)[k])
      BY <1>1, <3>2, <3>7, <3>8, SumChange
    <3>13. F(s)[k] - F(t)[k] = 1
      BY <3>4, <3>5, <3>6
    <3>14. SumFunction(F(s)) = Cardinality(s)
      BY <3>9, <3>10, <3>11, <3>12, <3>13
    <3> QED
      BY <3>14 DEF Good
  <2> QED
    BY <2>1, <2>2
<1>5. Hereditary(S, Good)
  BY <1>4 DEF Hereditary
<1> HIDE DEF Good
<1>6. S \in Good
  BY <1>5, SubsetInduction
<1>7. SumFunction(F(S)) = Cardinality(S)
  BY <1>6 DEF Good
<1> QED
  BY <1>7

-----------------------------------------------------------------------------
(* The parts of the container.                                             *)

LEMMA CountOfPages ==
  ASSUME NEW f \in Files
  PROVE  /\ PageCount(f) \in Nat /\ PageCount(f) * PAGE_SIZE <= Size(f) - HEADER_SIZE
         /\ Pages(f) = 0 .. PageCount(f) - 1 /\ IsFiniteSet(Pages(f))
<1>1. /\ PAGE_SIZE \in Nat \ {0} /\ HEADER_SIZE \in Nat /\ Size(f) \in Nat
      /\ Size(f) - HEADER_SIZE \in Nat
  BY LayoutAssumption, FilesAssumption, FilesAreSequences
<1> DEFINE x == Size(f) - HEADER_SIZE
           m == x \div PAGE_SIZE
<1>2. m \in Nat /\ m * PAGE_SIZE <= x
  BY <1>1
<1>3. PageCount(f) = m
  BY DEF PageCount
<1> HIDE DEF m
<1>4. IsFiniteSet(0 .. m - 1)
  BY <1>2, FS_Interval
<1> QED
  BY <1>2, <1>3, <1>4 DEF Pages

LEMMA PageBounds ==
  ASSUME NEW f \in Files, NEW i \in 0 .. PageCount(f)
  PROVE  /\ PageOffset(i) \in Nat /\ PageOffset(i) % 4 = 0
         /\ HEADER_SIZE <= PageOffset(i) /\ PageOffset(i) <= Size(f)
<1>1. /\ PAGE_SIZE \in Nat \ {0} /\ HEADER_SIZE \in Nat /\ Size(f) \in Nat
      /\ HEADER_SIZE % 8 = 0 /\ PAGE_SIZE % 8 = 0
  BY LayoutAssumption, FilesAreSequences
<1>2. PageCount(f) \in Nat /\ PageCount(f) * PAGE_SIZE <= Size(f) - HEADER_SIZE
  BY CountOfPages
<1>3. i \in Nat /\ i <= PageCount(f)
  BY <1>2
<1>4. i * PAGE_SIZE \in Nat /\ i * PAGE_SIZE <= PageCount(f) * PAGE_SIZE
      /\ PageCount(f) * PAGE_SIZE \in Nat
  <2> DEFINE c == PageCount(f)
  <2>1. c \in Nat /\ i <= c
    BY <1>2, <1>3
  <2> HIDE DEF c
  <2>2. PICK e \in Nat : c = i + e
    <3>1. c - i \in Nat /\ c = i + (c - i)
      BY <1>3, <2>1
    <3> QED
      BY <3>1
  <2>3. c * PAGE_SIZE = i * PAGE_SIZE + e * PAGE_SIZE
    BY <1>1, <1>3, <2>2
  <2>4. i * PAGE_SIZE \in Nat /\ e * PAGE_SIZE \in Nat
    BY <1>1, <1>3
  <2> QED
    BY <2>3, <2>4 DEF c
<1>5. (i * PAGE_SIZE) % 4 = 0
  <2>1. PICK k \in Nat : PAGE_SIZE = 4 * k
    <3>1. PAGE_SIZE \div 4 \in Nat /\ PAGE_SIZE = 4 * (PAGE_SIZE \div 4)
      BY <1>1
    <3> QED
      BY <3>1
  <2>2. i * PAGE_SIZE = 4 * (i * k) /\ i * k \in Nat
    BY <1>3, <2>1
  <2> QED
    BY <2>2
<1>6. HEADER_SIZE % 4 = 0
  BY <1>1
<1> DEFINE y == i * PAGE_SIZE
           z == PageCount(f) * PAGE_SIZE
<1>7. y \in Nat /\ y % 4 = 0 /\ y <= z /\ z \in Nat /\ z <= Size(f) - HEADER_SIZE
  BY <1>2, <1>4, <1>5
<1> HIDE DEF y, z
<1>8. (HEADER_SIZE + y) % 4 = 0 /\ HEADER_SIZE + y \in Nat /\ HEADER_SIZE + y <= Size(f)
      /\ HEADER_SIZE <= HEADER_SIZE + y
  BY <1>1, <1>6, <1>7
<1>9. PageOffset(i) = HEADER_SIZE + y
  BY DEF PageOffset, y
<1> QED
  BY <1>8, <1>9

(* Where word offset n of the file lies: offsets are multiples of four.    *)
At4(i) == PageOffset(i) \div 4

LEMMA PageCuts ==
  ASSUME NEW f \in Files
  PROVE  /\ Len(f) \in Nat /\ HEADER_SIZE \div 4 \in Nat /\ At4(0) = HEADER_SIZE \div 4
         /\ \A i \in 0 .. PageCount(f) : At4(i) \in At4(0) .. Len(f)
         /\ \A i \in 0 .. PageCount(f) - 1 : At4(i) <= At4(i + 1)
<1>1. /\ HEADER_SIZE \in Nat /\ Len(f) \in Nat /\ Size(f) = 4 * Len(f) /\ PAGE_SIZE \in Nat
      /\ HEADER_SIZE % 8 = 0
  BY LayoutAssumption, FilesAssumption DEF Size
<1>2. PageOffset(0) = HEADER_SIZE
  BY <1>1 DEF PageOffset
<1>3. HEADER_SIZE \div 4 \in Nat /\ At4(0) = HEADER_SIZE \div 4
  BY <1>1, <1>2 DEF At4
<1>4. ASSUME NEW i \in 0 .. PageCount(f)
      PROVE  At4(i) \in At4(0) .. Len(f)
  <2> DEFINE x == PageOffset(i)
  <2>1. x \in Nat /\ x % 4 = 0 /\ HEADER_SIZE <= x /\ x <= Size(f)
    BY PageBounds
  <2> HIDE DEF x
  <2>2. x \div 4 \in Nat /\ HEADER_SIZE \div 4 <= x \div 4 /\ x \div 4 <= Len(f)
    BY <1>1, <2>1
  <2> QED
    BY <1>1, <1>3, <2>2 DEF At4, x
<1>5. ASSUME NEW i \in 0 .. PageCount(f) - 1
      PROVE  At4(i) <= At4(i + 1)
  <2>1. i \in Nat /\ i + 1 \in 0 .. PageCount(f) /\ i \in 0 .. PageCount(f)
    BY CountOfPages
  <2> DEFINE x == PageOffset(i)
             y == PageOffset(i + 1)
  <2>2. x \in Nat /\ y \in Nat
    BY <2>1, PageBounds
  <2>3. x + PAGE_SIZE <= y
    BY <2>1, PagesFollow
  <2> HIDE DEF x, y
  <2>4. x \div 4 <= y \div 4
    BY <1>1, <2>2, <2>3
  <2> QED
    BY <2>4 DEF At4, x, y
<1> QED
  BY <1>1, <1>3, <1>4, <1>5

LEMMA FlatPages ==
  ASSUME NEW f \in Files
  PROVE  FlattenSeq([p \in 1 .. PageCount(f) |-> PageWords(f, p - 1)])
           = SubSeq(f, At4(0) + 1, At4(PageCount(f)))
<1> DEFINE n == PageCount(f)
           parts == [p \in 1 .. n |-> PageWords(f, p - 1)]
           Flat(g) == g = [i \in 1 .. Len(parts) |->
                             IF i = 1 THEN parts[i] ELSE g[i - 1] \o parts[i]]
           flatten == CHOOSE g : Flat(g)
           whole == [i \in 1 .. n |-> SubSeq(f, At4(0) + 1, At4(i))]
<1>1. n \in Nat
  BY CountOfPages
<1>2. f \in Seq(Words) /\ Len(f) \in Nat
  BY FilesAssumption
<1>3. Len(parts) = n
  <2>1. parts \in Seq({PageWords(f, p - 1) : p \in 1 .. n})
    BY <1>1
  <2> QED
    BY <1>1, <2>1, LenProperties
<1>4. FlattenSeq(parts) = IF Len(parts) = 0 THEN parts ELSE flatten[Len(parts)]
  BY DEF FlattenSeq
<1>5. CASE n = 0
  <2>1. parts = <<>> /\ SubSeq(f, At4(0) + 1, At4(n)) = <<>>
    <3>1. At4(0) \in Int /\ At4(n) = At4(0)
      BY <1>5, PageCuts
    <3>2. SubSeq(f, At4(0) + 1, At4(n)) = <<>>
      BY <3>1, SubSeqEmpty
    <3>3. DOMAIN parts = {}
      BY <1>5
    <3> QED
      BY <1>3, <1>5, <3>2
  <2> QED
    BY <1>3, <1>4, <1>5, <2>1
<1>6. CASE n # 0
  <2>1. ASSUME NEW i \in 1 .. n
        PROVE  /\ At4(i) \in At4(0) .. Len(f) /\ At4(i - 1) \in At4(0) .. At4(i)
               /\ parts[i] = SubSeq(f, At4(i - 1) + 1, At4(i))
    <3>1. i \in 0 .. n /\ i - 1 \in 0 .. n /\ i - 1 \in 0 .. n - 1 /\ i - 1 + 1 = i
      BY <1>1
    <3>2. At4(i) \in At4(0) .. Len(f) /\ At4(i - 1) \in At4(0) .. Len(f) /\ At4(i - 1) <= At4(i)
      BY <3>1, PageCuts
    <3>3. parts[i] = SubSeq(f, At4(i - 1) + 1, At4(i))
      BY <3>1 DEF PageWords, At4
    <3>4. At4(0) \in Int
      BY PageCuts
    <3> QED
      BY <1>2, <3>2, <3>3, <3>4
  <2>2. At4(0) \in Nat
    BY PageCuts
  <2> HIDE DEF parts, n
  <2>3. ASSUME NEW i \in 1 .. n, i # 1
        PROVE  SubSeq(f, At4(0) + 1, At4(i - 1)) \o parts[i] = SubSeq(f, At4(0) + 1, At4(i))
    <3> DEFINE a == At4(0)
               b == At4(i - 1)
               c == At4(i)
    <3>1. a \in Nat /\ b \in Nat /\ c \in Nat /\ a <= b /\ b <= c /\ c <= Len(f)
      BY <1>2, <2>1, <2>2
    <3>2. parts[i] = SubSeq(f, b + 1, c)
      BY <2>1
    <3> HIDE DEF a, b, c
    <3>3. a + 1 \in 1 .. Len(f) + 1 /\ b \in (a + 1) - 1 .. Len(f) /\ c \in b .. Len(f)
      BY <1>2, <3>1
    <3>4. SubSeq(f, a + 1, b) \o SubSeq(f, b + 1, c) = SubSeq(f, a + 1, c)
      BY <1>2, <3>3, ConcatAdjacentSubSeq
    <3> QED
      BY <3>2, <3>4 DEF a, b, c
  <2>4. 1 - 1 = 0 /\ (n # 0 => 1 \in 1 .. n /\ n \in 1 .. n)
    BY <1>1
  <2>5. \A i \in 1 .. n : whole[i] = IF i = 1 THEN parts[i] ELSE whole[i - 1] \o parts[i]
    <3> SUFFICES ASSUME NEW i \in 1 .. n
                 PROVE  whole[i] = IF i = 1 THEN parts[i] ELSE whole[i - 1] \o parts[i]
      OBVIOUS
    <3>1. CASE i = 1
      BY <2>1, <2>4, <3>1
    <3>2. CASE i # 1
      <4>1. i - 1 \in 1 .. n
        BY <1>1, <3>2
      <4> QED
        BY <2>3, <3>2, <4>1
    <3> QED
      BY <3>1, <3>2
  <2>6. Flat(whole)
    <3>1. whole = [i \in 1 .. n |-> whole[i]]
      OBVIOUS
    <3> HIDE DEF whole
    <3> QED
      BY <1>3, <2>5, <3>1
  <2> HIDE DEF Flat
  <2>7. Flat(flatten)
    BY <2>6
  <2> HIDE DEF flatten, whole
  <2>8. \A i \in 1 .. n : flatten[i] = IF i = 1 THEN parts[i] ELSE flatten[i - 1] \o parts[i]
    BY <1>3, <2>7 DEF Flat
  <2> DEFINE Same == {i \in Nat : i \in 1 .. n => flatten[i] = whole[i]}
  <2>9. 0 \in Same
    OBVIOUS
  <2>10. ASSUME NEW i \in Nat, i \in Same
         PROVE  i + 1 \in Same
    <3> SUFFICES ASSUME i + 1 \in 1 .. n PROVE flatten[i + 1] = whole[i + 1]
      OBVIOUS
    <3>1. CASE i = 0
      BY <2>5, <2>8, <3>1
    <3>2. CASE i # 0
      <4>1. i \in 1 .. n /\ i + 1 # 1 /\ (i + 1) - 1 = i
        BY <1>1, <3>2
      <4>2. flatten[i] = whole[i]
        BY <2>10, <4>1
      <4> QED
        BY <2>5, <2>8, <4>1, <4>2
    <3> QED
      BY <3>1, <3>2
  <2>11. \A i \in Nat : i \in Same
    BY <2>9, <2>10, SetInduction
  <2>12. flatten[n] = whole[n]
    BY <1>1, <1>6, <2>4, <2>11
  <2> QED
    BY <1>3, <1>4, <1>6, <2>4, <2>12 DEF whole, parts, n
<1> QED
  BY <1>5, <1>6

LEMMA PartsAddUp ==
  ASSUME NEW f \in Files
  PROVE  to_bytes(f) = f
<1> DEFINE a == HEADER_SIZE \div 4
           b == At4(PageCount(f))
<1>1. f \in Seq(Words) /\ Len(f) \in Nat
  BY FilesAssumption
<1>2. a \in Nat /\ At4(0) = a /\ b \in a .. Len(f) /\ PageCount(f) \in Nat
  BY PageCuts, CountOfPages
<1>3. to_bytes(f) = (SubSeq(f, 1, a) \o SubSeq(f, a + 1, b)) \o SubSeq(f, b + 1, Len(f))
  BY <1>2, FlatPages DEF to_bytes, Trailer, At4
<1> HIDE DEF a, b
<1>4. SubSeq(f, 1, a) \o SubSeq(f, a + 1, b) = SubSeq(f, 1, b)
  <2>1. 1 \in 1 .. Len(f) + 1 /\ a \in 1 - 1 .. Len(f) /\ b \in a .. Len(f)
    BY <1>1, <1>2
  <2> QED
    BY <1>1, <2>1, ConcatAdjacentSubSeq
<1>5. SubSeq(f, 1, b) \o SubSeq(f, b + 1, Len(f)) = SubSeq(f, 1, Len(f))
  <2>1. 1 \in 1 .. Len(f) + 1 /\ b \in 1 - 1 .. Len(f) /\ Len(f) \in b .. Len(f)
    BY <1>1, <1>2
  <2> QED
    BY <1>1, <2>1, ConcatAdjacentSubSeq
<1>6. SubSeq(f, 1, Len(f)) = f
  BY <1>1, SubSeqFull
<1> QED
  BY <1>3, <1>4, <1>5, <1>6

-----------------------------------------------------------------------------
(* Records and pages by offset.                                            *)

LEMMA OnePage ==
  ASSUME NEW p \in Nat, NEW q \in Nat, NEW s \in 0 .. PAGE_SIZE - 1, NEW t \in 0 .. PAGE_SIZE - 1,
         PageOffset(p) + s = PageOffset(q) + t
  PROVE  p = q /\ s = t
<1>1. PAGE_SIZE \in Nat /\ HEADER_SIZE \in Nat
  BY LayoutAssumption
<1>2. PageOffset(p) \in Nat /\ PageOffset(q) \in Nat
  <2>1. p * PAGE_SIZE \in Nat /\ q * PAGE_SIZE \in Nat
    BY <1>1
  <2> QED
    BY <1>1, <2>1 DEF PageOffset
<1>3. ~(p < q) /\ ~(q < p)
  BY <1>1, <1>2, PagesFollow
<1>4. p = q
  BY <1>3
<1> QED
  BY <1>1, <1>2, <1>4

LEMMA SlotInPage ==
  ASSUME NEW f, NEW off, NEW s \in SlotMarkers(f, off)
  PROVE  s \in 0 .. PAGE_SIZE - 1 /\ s % 4 = 0 /\ s + 8 <= PAGE_SIZE
<1>1. s \in Nat /\ s + 8 <= PAGE_SIZE /\ s % 4 = 0
  BY SlotsAreNat DEF SlotMarkers
<1> QED
  BY <1>1, LayoutAssumption

LEMMA RecordAt ==
  ASSUME NEW f \in Files, NEW rec \in RecordIndex(f)
  PROVE  \E p \in Pages(f) : \E s \in SlotMarkers(f, PageOffset(p)) :
           /\ rec.byte_offset = PageOffset(p) + s /\ rec.page_id = p
           /\ rec.payload_size = NextSlot(SlotMarkers(f, PageOffset(p)), s) - s - 8
           /\ rec.class_id = ClassOf(f, rec.byte_offset)
           /\ TagOf(f, p) \in MARKER_TAGS
<1>1. PICK p \in Pages(f) : TagOf(f, p) \in MARKER_TAGS
        /\ \E s \in SlotMarkers(f, PageOffset(p)) : rec = RecordRef(f, p, s)
  BY DEF RecordIndex
<1>2. PICK s \in SlotMarkers(f, PageOffset(p)) : rec = RecordRef(f, p, s)
  BY <1>1
<1>3. /\ rec.byte_offset = PageOffset(p) + s /\ rec.page_id = p
      /\ rec.payload_size = NextSlot(SlotMarkers(f, PageOffset(p)), s) - s - 8
      /\ rec.class_id = ClassOf(f, PageOffset(p) + s)
  BY <1>2 DEF RecordRef
<1> QED
  BY <1>1, <1>3

LEMMA FoundByOffset ==
  ASSUME NEW f \in Files, NEW off, FindByOffset(RecordIndex(f), off) # None
  PROVE  /\ FindByOffset(RecordIndex(f), off) \in RecordIndex(f)
         /\ FindByOffset(RecordIndex(f), off).byte_offset = off
         /\ FindByOffset(RecordIndex(f), off).class_id = ClassOf(f, off)
<1> DEFINE index == RecordIndex(f)
           at == {r \in index : r.byte_offset = off}
           x == FindByOffset(index, off)
<1>1. x = IF at = {} THEN None ELSE CHOOSE r \in at : TRUE
  BY DEF FindByOffset
<1>2. at # {} /\ x = CHOOSE r \in at : TRUE
  BY <1>1
<1>3. x \in at
  BY <1>2
<1> HIDE DEF x, index
<1>4. x \in index /\ x.byte_offset = off
  BY <1>3
<1>5. x.class_id = ClassOf(f, off)
  BY <1>4, RecordAt DEF index
<1> QED
  BY <1>4, <1>5 DEF x, index

(* A marker on the slots of a page that begins like one is in the index.   *)
LEMMA IndexHasSlot ==
  ASSUME NEW f \in Files, NEW p \in Pages(f), TagOf(f, p) \in MARKER_TAGS,
         NEW s \in SlotMarkers(f, PageOffset(p))
  PROVE  LET off == PageOffset(p) + s
             x == FindByOffset(RecordIndex(f), off)
         IN  x \in RecordIndex(f) /\ x.byte_offset = off /\ x.class_id = ClassOf(f, off)
             /\ x.page_id = p
<1> DEFINE index == RecordIndex(f)
           off == PageOffset(p) + s
           at == {r \in index : r.byte_offset = off}
           x == FindByOffset(index, off)
<1>1. RecordRef(f, p, s) \in index
  BY DEF RecordIndex
<1>2. RecordRef(f, p, s).byte_offset = off
  BY DEF RecordRef
<1>3. x = IF at = {} THEN None ELSE CHOOSE r \in at : TRUE
  BY DEF FindByOffset
<1>4. at # {}
  BY <1>1, <1>2
<1>5. x \in at
  BY <1>3, <1>4
<1> HIDE DEF x, index
<1>6. x \in index /\ x.byte_offset = off
  BY <1>5
<1>7. PICK q \in Pages(f) : \E t \in SlotMarkers(f, PageOffset(q)) :
           /\ x.byte_offset = PageOffset(q) + t /\ x.page_id = q
           /\ x.class_id = ClassOf(f, x.byte_offset)
  BY <1>6, RecordAt DEF index
<1>8. PICK t \in SlotMarkers(f, PageOffset(q)) :
           /\ x.byte_offset = PageOffset(q) + t /\ x.page_id = q
           /\ x.class_id = ClassOf(f, x.byte_offset)
  BY <1>7
<1>9. p \in Nat /\ q \in Nat
  BY PageInFile
<1>10. s \in 0 .. PAGE_SIZE - 1 /\ t \in 0 .. PAGE_SIZE - 1
  BY SlotInPage
<1>11. q = p
  BY <1>6, <1>8, <1>9, <1>10, OnePage
<1> QED
  BY <1>6, <1>8, <1>11 DEF x, index

LEMMA LeavesAreIndexed ==
  ASSUME NEW f \in Files, NEW leaf \in ResolvedLeafRecords(f)
  PROVE  FindByOffset(RecordIndex(f), leaf.offset).class_id = leaf.class_id
<1>1. PICK p \in Pages(f) : TagOf(f, p) = 195 /\
        \E s \in SlotMarkers(f, PageOffset(p)) :
          leaf.offset = PageOffset(p) + s /\ leaf.class_id = ClassOf(f, PageOffset(p) + s)
  BY DEF ResolvedLeafRecords
<1>2. PICK s \in SlotMarkers(f, PageOffset(p)) :
          leaf.offset = PageOffset(p) + s /\ leaf.class_id = ClassOf(f, PageOffset(p) + s)
  BY <1>1
<1>3. TagOf(f, p) \in MARKER_TAGS
  BY <1>1 DEF MARKER_TAGS
<1> QED
  BY <1>2, <1>3, IndexHasSlot

-----------------------------------------------------------------------------
(* The text of a payload is text of its page.                              *)

LEMMA RunsFinite ==
  ASSUME NEW n \in Nat, NEW places, places \subseteq 1 .. n
  PROVE  IsFiniteSet(Runs(places)) /\ Cardinality(Runs(places)) \in Nat
<1>1. IsFiniteSet(places)
  <2>1. IsFiniteSet(1 .. n)
    BY FS_Interval
  <2> QED
    BY <2>1, FS_Subset
<1>2. IsFiniteSet(places \X places)
  BY <1>1, FS_Product
<1>3. Runs(places) \in SUBSET (places \X places)
  BY DEF Runs
<1>4. IsFiniteSet(Runs(places))
  BY <1>2, <1>3, FS_Subset
<1> QED
  BY <1>4, FS_CardinalityType

LEMMA PlaceHasRun ==
  ASSUME NEW n \in Nat, NEW places, places \subseteq 1 .. n, NEW i \in places
  PROVE  Runs(places) # {}
<1> DEFINE A == {j \in 1 .. i : \A k \in j .. i : k \in places}
           Z == {j \in i .. n : \A k \in i .. j : k \in places}
           a == Min(A)
           z == Max(Z)
<1>1. i \in Nat /\ n \in Nat /\ i .. i = {i}
  OBVIOUS
<1>2. i \in A /\ i \in Z
  BY <1>1
<1>3. A \in SUBSET Nat /\ A # {}
  BY <1>1, <1>2
<1>4. a \in A /\ \A j \in A : a <= j
  BY <1>3, MinExists
<1>5. Z \in SUBSET Nat /\ Z # {} /\ \A j \in Z : j <= n
  BY <1>1, <1>2
<1>6. Z \in SUBSET Int /\ n \in Int
  BY <1>1, <1>5
<1>7. z \in Z /\ \A j \in Z : j <= z
  BY <1>5, <1>6, MaxExists
<1> HIDE DEF a, z
<1>8. /\ a \in 1 .. i /\ z \in i .. n /\ i \in Nat /\ n \in Nat
      /\ a \in Nat /\ z \in Nat /\ 1 <= a /\ a <= i /\ i <= z /\ z <= n
  BY <1>1, <1>4, <1>7
<1>9. \A k \in a .. z : k \in places
  <2> SUFFICES ASSUME NEW k \in a .. z PROVE k \in places
    OBVIOUS
  <2>1. k \in a .. i \/ k \in i .. z
    BY <1>1, <1>8
  <2> QED
    BY <1>4, <1>7, <2>1
<1>10. a - 1 \notin places
  <2> SUFFICES ASSUME a - 1 \in places PROVE FALSE
    OBVIOUS
  <2>1. a - 1 \in 1 .. i
    BY <1>1, <1>8
  <2>2. \A k \in a - 1 .. i : k = a - 1 \/ k \in a .. i
    BY <1>1, <1>8
  <2>3. \A k \in a .. i : k \in places
    BY <1>4
  <2>4. a - 1 \in A
    BY <2>1, <2>2, <2>3
  <2>5. a <= a - 1
    BY <1>4, <2>4
  <2> QED
    BY <1>1, <1>8, <2>5
<1>11. z + 1 \notin places
  <2> SUFFICES ASSUME z + 1 \in places PROVE FALSE
    OBVIOUS
  <2>1. z + 1 \in 1 .. n
    OBVIOUS
  <2>2. z + 1 \in i .. n
    BY <1>8, <2>1
  <2>3. \A k \in i .. z + 1 : k = z + 1 \/ k \in i .. z
    BY <1>1, <1>8
  <2>4. \A k \in i .. z : k \in places
    BY <1>7
  <2>5. z + 1 \in Z
    BY <2>2, <2>3, <2>4
  <2>6. z + 1 <= z
    BY <1>7, <2>5
  <2> QED
    BY <1>8, <2>6
<1>12. a \in places /\ z \in places /\ a <= z
  BY <1>1, <1>8, <1>9
<1> HIDE DEF A, Z
<1> DEFINE run == <<a, z>>
<1>13. run \in places \X places /\ run[1] = a /\ run[2] = z
  BY <1>12
<1> HIDE DEF run
<1>14. run \in Runs(places)
  BY <1>9, <1>10, <1>11, <1>12, <1>13 DEF Runs
<1> QED
  BY <1>14

LEMMA PageSlice ==
  ASSUME NEW f \in Files, NEW p \in Pages(f)
  PROVE  LET words == PageWords(f, p) IN
         /\ Len(words) = At4(p + 1) - At4(p) /\ Len(words) \in Nat
         /\ DOMAIN words = 1 .. Len(words)
         /\ \A i \in 1 .. Len(words) : words[i] = f[At4(p) + i]
<1> DEFINE a == At4(p)
           b == At4(p + 1)
           words == PageWords(f, p)
<1>1. f \in Seq(Words) /\ Len(f) \in Nat
  BY FilesAssumption
<1>2. p \in 0 .. PageCount(f) - 1 /\ p \in 0 .. PageCount(f) /\ p + 1 \in 0 .. PageCount(f)
  BY CountOfPages
<1>3. a \in At4(0) .. Len(f) /\ b \in At4(0) .. Len(f) /\ a <= b /\ At4(0) \in Nat
  BY <1>2, PageCuts
<1>4. words = SubSeq(f, a + 1, b)
  BY DEF PageWords, At4
<1> HIDE DEF a, b, words
<1>5. a \in Nat /\ b \in Nat /\ a <= b /\ b <= Len(f)
  BY <1>1, <1>3
<1>6. \A i \in a + 1 .. b : f[i] \in Words
  BY <1>1, <1>5
<1>7. a + 1 \in Int /\ b \in Int
  BY <1>5
<1>8. /\ SubSeq(f, a + 1, b) \in Seq(Words)
      /\ Len(SubSeq(f, a + 1, b)) = IF a + 1 <= b THEN b - (a + 1) + 1 ELSE 0
      /\ \A i \in 1 .. b - (a + 1) + 1 : SubSeq(f, a + 1, b)[i] = f[a + 1 + i - 1]
  BY <1>6, <1>7, SubSeqProperties
<1>9. Len(words) = b - a /\ Len(words) \in Nat /\ DOMAIN words = 1 .. Len(words)
  BY <1>4, <1>5, <1>8, LenProperties
<1>10. \A i \in 1 .. Len(words) : words[i] = f[a + i]
  BY <1>4, <1>5, <1>8, <1>9
<1> QED
  BY <1>9, <1>10 DEF a, b, words

LEMMA SlotEnds ==
  ASSUME NEW f \in Files, NEW p \in Pages(f), NEW s \in SlotMarkers(f, PageOffset(p))
  PROVE  LET e == NextSlot(SlotMarkers(f, PageOffset(p)), s) IN
         e \in Nat /\ s < e /\ e <= PAGE_SIZE /\ e % 4 = 0
<1> DEFINE M == SlotMarkers(f, PageOffset(p))
           T == {m \in M : m > s} \cup {PAGE_SIZE}
           e == NextSlot(M, s)
<1>1. PAGE_SIZE \in Nat /\ PAGE_SIZE % 8 = 0
  BY LayoutAssumption
<1>2. \A m \in M : m \in Nat /\ m % 4 = 0 /\ m < PAGE_SIZE
  <2> SUFFICES ASSUME NEW m \in M PROVE m \in Nat /\ m % 4 = 0 /\ m < PAGE_SIZE
    OBVIOUS
  <2>1. m \in 0 .. PAGE_SIZE - 1 /\ m % 4 = 0
    BY SlotInPage
  <2> QED
    BY <1>1, <2>1
<1>3. PAGE_SIZE % 4 = 0
  BY <1>1
<1>4. e = Min(T)
  BY DEF NextSlot
<1> HIDE DEF M, e
<1>5. \A m \in T : m \in Nat /\ m % 4 = 0 /\ s < m /\ m <= PAGE_SIZE
  BY <1>1, <1>2, <1>3 DEF M
<1>6. T \in SUBSET Nat /\ T # {}
  BY <1>5
<1>7. e \in T
  BY <1>4, <1>6, MinExists
<1> QED
  BY <1>5, <1>7 DEF e, M

LEMMA EndOfPayload ==
  ASSUME NEW P \in Nat, NEW s \in Nat, NEW e \in Nat
  PROVE  (P + s) + 8 = P + s + 8 /\ (P + s) + 8 + (e - s - 8) = P + e
OBVIOUS

LEMMA LabelHasText ==
  ASSUME NEW w, NavLabel(w) # <<>>
  PROVE  \E i \in DOMAIN w : NavText(w[i])
<1> DEFINE places == {i \in DOMAIN w : NavText(w[i])}
<1>1. Runs(places) # {}
  BY DEF NavLabel
<1>2. PICK run \in Runs(places) : TRUE
  BY <1>1
<1>3. run[1] \in places
  BY <1>2 DEF Runs
<1> QED
  BY <1>3

LEMMA LabelsAreStrings ==
  ASSUME NEW f \in Files, NEW nav \in NavTargets(f).entries, nav.label # <<>>,
         ~Separates(NavPayload(f, FindByOffset(RecordIndex(f), nav.record_offset)))
  PROVE  PageIndex(f)[FindByOffset(RecordIndex(f), nav.record_offset).page_id].n_strings > 0
<1> DEFINE index == RecordIndex(f)
           rec == FindByOffset(index, nav.record_offset)
<1>1. PICK r \in index :
        nav.record_offset = r.byte_offset /\ NavLabel(NavPayload(f, r)) # <<>>
  <2> DEFINE navs == FindByClass(index, 51)
             label(o) == NavLabel(NavPayload(f, o))
  <2>1. NavTargets(f).entries
          = {[record_offset |-> o.byte_offset, label |-> label(o)] : o \in navs}
    BY DEF NavTargets
  <2> HIDE DEF label, index
  <2>2. PICK r \in navs : nav = [record_offset |-> r.byte_offset, label |-> label(r)]
    BY <2>1
  <2>3. r \in index
    BY DEF FindByClass
  <2>4. label(r) # <<>> /\ nav.record_offset = r.byte_offset
    BY <2>2
  <2> QED
    BY <2>3, <2>4 DEF label
<1>2. PICK p \in Pages(f) : \E s \in SlotMarkers(f, PageOffset(p)) :
        /\ r.byte_offset = PageOffset(p) + s
        /\ r.payload_size = NextSlot(SlotMarkers(f, PageOffset(p)), s) - s - 8
        /\ TagOf(f, p) \in MARKER_TAGS
  BY RecordAt
<1>3. PICK s \in SlotMarkers(f, PageOffset(p)) :
        /\ r.byte_offset = PageOffset(p) + s
        /\ r.payload_size = NextSlot(SlotMarkers(f, PageOffset(p)), s) - s - 8
        /\ TagOf(f, p) \in MARKER_TAGS
  BY <1>2
<1>4. rec \in index /\ rec.byte_offset = r.byte_offset /\ rec.page_id = p
  BY <1>1, <1>3, IndexHasSlot
<1>5. rec.payload_size = r.payload_size
  <2>1. PICK q \in Pages(f) : \E t \in SlotMarkers(f, PageOffset(q)) :
          /\ rec.byte_offset = PageOffset(q) + t
          /\ rec.payload_size = NextSlot(SlotMarkers(f, PageOffset(q)), t) - t - 8
    BY <1>4, RecordAt
  <2>2. PICK t \in SlotMarkers(f, PageOffset(q)) :
          /\ rec.byte_offset = PageOffset(q) + t
          /\ rec.payload_size = NextSlot(SlotMarkers(f, PageOffset(q)), t) - t - 8
    BY <2>1
  <2>3. p \in Nat /\ q \in Nat /\ s \in 0 .. PAGE_SIZE - 1 /\ t \in 0 .. PAGE_SIZE - 1
    BY CountOfPages, SlotInPage
  <2>4. p = q /\ s = t
    BY <1>3, <1>4, <2>2, <2>3, OnePage
  <2> QED
    BY <1>3, <2>2, <2>4
<1>6. NavPayload(f, rec) = NavPayload(f, r)
  BY <1>4, <1>5 DEF NavPayload
<1> HIDE DEF rec
<1> DEFINE e == NextSlot(SlotMarkers(f, PageOffset(p)), s)
           P == PageOffset(p)
           Q == PageOffset(p + 1)
           x == P + s + 8
           y == P + e
           A == x \div 4
           B == y \div 4
<1>7. /\ P \in Nat /\ P % 4 = 0 /\ Q \in Nat /\ Q % 4 = 0 /\ P + PAGE_SIZE <= Q /\ Q <= Size(f)
  <2>1. p \in 0 .. PageCount(f) /\ p + 1 \in 0 .. PageCount(f) /\ p \in Nat
    BY CountOfPages
  <2> QED
    BY <2>1, PageBounds, PagesFollow
<1>8. s \in Nat /\ s % 4 = 0 /\ PAGE_SIZE \in Nat
  BY SlotInPage, LayoutAssumption
<1>9. e \in Nat /\ e <= PAGE_SIZE /\ e % 4 = 0
  BY SlotEnds
<1>10. r.byte_offset + 8 = x /\ r.byte_offset + 8 + r.payload_size = y
  <2>1. r.byte_offset = P + s /\ r.payload_size = e - s - 8
    BY <1>3
  <2>2. s \in Nat /\ e \in Nat /\ P \in Nat
    BY <1>7, <1>8, <1>9
  <2> QED
    BY <2>1, <2>2, EndOfPayload
<1> DEFINE w == NavPayload(f, r)
<1>11. w = SubSeq(f, A + 1, B)
  BY <1>10 DEF NavPayload
<1> HIDE DEF w, e, P, Q
<1>12. /\ P \div 4 \in Nat /\ A \in Nat /\ B \in Nat /\ Q \div 4 \in Nat
       /\ P \div 4 <= A /\ B <= Q \div 4 /\ 4 * (Q \div 4) <= Size(f)
  BY <1>7, <1>8, <1>9
<1> DEFINE words == PageWords(f, p)
<1>13. /\ Len(words) = Q \div 4 - P \div 4 /\ Len(words) \in Nat
       /\ DOMAIN words = 1 .. Len(words)
       /\ \A i \in 1 .. Len(words) : words[i] = f[P \div 4 + i]
  BY PageSlice DEF At4, P, Q
<1>14. f \in Seq(Words) /\ Len(f) \in Nat /\ Size(f) = 4 * Len(f)
  BY FilesAssumption DEF Size
<1> HIDE DEF A, B, words
<1>15. B <= Len(f)
  BY <1>12, <1>14
<1>16. \A i \in A + 1 .. B : f[i] \in Words
  BY <1>12, <1>14, <1>15
<1>17. A + 1 \in Int /\ B \in Int
  BY <1>12
<1>18. /\ SubSeq(f, A + 1, B) \in Seq(Words)
       /\ Len(SubSeq(f, A + 1, B)) = IF A + 1 <= B THEN B - (A + 1) + 1 ELSE 0
       /\ \A i \in 1 .. B - (A + 1) + 1 : SubSeq(f, A + 1, B)[i] = f[A + 1 + i - 1]
  BY <1>16, <1>17, SubSeqProperties
<1>19. PICK i \in DOMAIN w : Text(w[i])
  <2>1. PICK i \in DOMAIN w : NavText(w[i])
    BY <1>1, LabelHasText DEF w
  <2>2. ~Separates(w)
    BY <1>6 DEF w, rec
  <2> QED
    BY <2>1, <2>2 DEF Separates
<1>20. i \in 1 .. Len(w) /\ Len(w) = IF A + 1 <= B THEN B - (A + 1) + 1 ELSE 0
  BY <1>11, <1>18, <1>19, LenProperties
<1>21. i \in Nat /\ 1 <= i /\ i <= B - A
  BY <1>12, <1>20
<1>22. w[i] = f[A + i]
  <2>1. i \in 1 .. B - (A + 1) + 1 /\ A + 1 + i - 1 = A + i
    BY <1>12, <1>21
  <2> QED
    BY <1>11, <1>18, <2>1
<1> DEFINE j == A + i - P \div 4
<1>23. j \in 1 .. Len(words) /\ P \div 4 + j = A + i
  BY <1>12, <1>13, <1>21
<1> HIDE DEF j
<1>24. Text(words[j])
  BY <1>13, <1>19, <1>22, <1>23
<1> DEFINE places == {k \in DOMAIN words : Text(words[k])}
<1>25. places \subseteq 1 .. Len(words) /\ j \in places
  BY <1>13, <1>23, <1>24
<1>26. TextRuns(words) = Runs(places)
  BY DEF TextRuns
<1> HIDE DEF places
<1>27. Runs(places) # {}
  BY <1>13, <1>25, PlaceHasRun
<1>28. IsFiniteSet(Runs(places)) /\ Cardinality(Runs(places)) \in Nat
  BY <1>13, <1>25, RunsFinite
<1>29. Cardinality(TextRuns(words)) > 0
  BY <1>26, <1>27, <1>28, FS_EmptySet
<1>30. PageIndex(f)[p].n_strings = Cardinality(TextRuns(words))
  BY DEF PageIndex, words
<1> QED
  BY <1>4, <1>29, <1>30 DEF rec

-----------------------------------------------------------------------------
(* The totals.                                                             *)

LEMMA TagsCounted ==
  ASSUME NEW f \in Files
  PROVE  \A tag \in DOMAIN page_type_distribution(f) :
           page_type_distribution(f)[tag]
             = Cardinality({p \in DOMAIN PageIndex(f) : PageIndex(f)[p].tag = tag})
<1>1. DOMAIN PageIndex(f) = Pages(f) /\ \A p \in Pages(f) : PageIndex(f)[p].tag = TagOf(f, p)
  BY DEF PageIndex
<1> SUFFICES ASSUME NEW tag \in DOMAIN page_type_distribution(f)
             PROVE  page_type_distribution(f)[tag]
                      = Cardinality({p \in DOMAIN PageIndex(f) : PageIndex(f)[p].tag = tag})
  OBVIOUS
<1>2. page_type_distribution(f)[tag] = Cardinality({p \in Pages(f) : TagOf(f, p) = tag})
  BY DEF page_type_distribution
<1>3. {p \in Pages(f) : TagOf(f, p) = tag} = {p \in DOMAIN PageIndex(f) : PageIndex(f)[p].tag = tag}
  BY <1>1
<1> QED
  BY <1>2, <1>3

LEMMA CountByClass ==
  ASSUME NEW S, IsFiniteSet(S)
  PROVE  SumFunction([c \in {r.class_id : r \in S} |-> Cardinality({r \in S : r.class_id = c})])
           = Cardinality(S)
<1> DEFINE h == [r \in S |-> r.class_id]
<1>1. DOMAIN h = S /\ {h[x] : x \in S} = {r.class_id : r \in S}
      /\ \A c : {x \in S : h[x] = c} = {r \in S : r.class_id = c}
  OBVIOUS
<1> HIDE DEF h
<1>2. SumFunction([c \in {h[x] : x \in S} |-> Cardinality({x \in S : h[x] = c})]) = Cardinality(S)
  BY <1>1, CountByKey
<1>3. [c \in {h[x] : x \in S} |-> Cardinality({x \in S : h[x] = c})]
        = [c \in {r.class_id : r \in S} |-> Cardinality({r \in S : r.class_id = c})]
  BY <1>1
<1> QED
  BY <1>2, <1>3

LEMMA CountByTag ==
  ASSUME NEW S, IsFiniteSet(S)
  PROVE  SumFunction(categorize_followed(S)) = Cardinality(S)
<1> DEFINE h == [r \in S |-> r.target_page_tag]
<1>1. DOMAIN h = S /\ {h[x] : x \in S} = {r.target_page_tag : r \in S}
      /\ \A c : {x \in S : h[x] = c} = {r \in S : r.target_page_tag = c}
  OBVIOUS
<1> HIDE DEF h
<1>2. SumFunction([c \in {h[x] : x \in S} |-> Cardinality({x \in S : h[x] = c})]) = Cardinality(S)
  BY <1>1, CountByKey
<1>3. [c \in {h[x] : x \in S} |-> Cardinality({x \in S : h[x] = c})]
        = categorize_followed(S)
  BY <1>1 DEF categorize_followed
<1> QED
  BY <1>2, <1>3

LEMMA InventoryCountsPages ==
  ASSUME NEW f \in Files
  PROVE  SumFunction([k \in DOMAIN BtreeInventory(f) |-> BtreeInventory(f)[k].page_count])
           = Cardinality(ResolverPages(f))
<1> DEFINE S == Grid0(f)
           h == [p \in S |-> <<Grid0Tag(f, p), Grid0Kind(f, p)>>]
           K == {h[p] : p \in S}
<1>1. Size(f) \in Nat /\ PAGE_SIZE \in Nat \ {0}
  BY FilesAreSequences, LayoutAssumption
<1>2. Size(f) \div PAGE_SIZE - 1 \in Int
  BY <1>1
<1>3. IsFiniteSet(S) /\ S = ResolverPages(f)
  BY <1>2, FS_Interval DEF Grid0, ResolverPages
<1>4. /\ DOMAIN BtreeInventory(f) = {<<Grid0Tag(f, p), Grid0Kind(f, p)>> : p \in Grid0(f)}
      /\ \A k \in DOMAIN BtreeInventory(f) :
           BtreeInventory(f)[k].page_count
             = Cardinality({p \in Grid0(f) : <<Grid0Tag(f, p), Grid0Kind(f, p)>> = k})
  BY DEF BtreeInventory
<1>5. DOMAIN h = S /\ DOMAIN BtreeInventory(f) = K
      /\ \A k : {p \in S : h[p] = k}
                  = {p \in Grid0(f) : <<Grid0Tag(f, p), Grid0Kind(f, p)>> = k}
  BY <1>4
<1> HIDE DEF h, S
<1>6. SumFunction([c \in {h[x] : x \in S} |-> Cardinality({x \in S : h[x] = c})]) = Cardinality(S)
  BY <1>3, <1>5, CountByKey
<1>7. [k \in DOMAIN BtreeInventory(f) |-> BtreeInventory(f)[k].page_count]
        = [c \in {h[x] : x \in S} |-> Cardinality({x \in S : h[x] = c})]
  BY <1>4, <1>5
<1> QED
  BY <1>3, <1>6, <1>7

(* What a scan makes of the places of each page is finite.                 *)
MadeFrom(S, P, D, made) ==
  DOMAIN made = P \X D /\ \A y \in S : \E p \in P : \E s \in D : y = made[<<p, s>>]

LEMMA PlacesFinite ==
  ASSUME NEW P, IsFiniteSet(P), NEW D, IsFiniteSet(D), NEW made, NEW S,
         MadeFrom(S, P, D, made)
  PROVE  IsFiniteSet(S)
<1>1. IsFiniteSet(P \X D)
  BY FS_Product
<1>2. IsFiniteSet({made[x] : x \in P \X D})
  BY <1>1, ValuesFinite DEF MadeFrom
<1>3. ASSUME NEW y \in S
      PROVE  y \in {made[x] : x \in P \X D}
  <2>1. PICK p \in P : \E s \in D : y = made[<<p, s>>]
    BY DEF MadeFrom
  <2>2. PICK s \in D : y = made[<<p, s>>]
    BY <2>1
  <2>3. <<p, s>> \in P \X D
    OBVIOUS
  <2> QED
    BY <2>2, <2>3
<1>4. S \in SUBSET {made[x] : x \in P \X D}
  BY <1>3
<1> QED
  BY <1>2, <1>4, FS_Subset

LEMMA OffsetsFinite == IsFiniteSet(0 .. PAGE_SIZE - 1)
<1>1. PAGE_SIZE - 1 \in Int
  BY LayoutAssumption
<1> QED
  BY <1>1, FS_Interval

LEMMA LeafRecordsFinite ==
  ASSUME NEW f \in Files
  PROVE  IsFiniteSet(ResolvedLeafRecords(f))
<1> DEFINE slots(p) == {s \in SlotMarkers(f, PageOffset(p)) :
                          /\ ClassOf(f, PageOffset(p) + s) \in CLASS_IDS
                          /\ s + 24 <= PAGE_SIZE}
           value32(p, s) == WordAt(f, PageOffset(p) + s + 8)
           reached(q) == q \in 1 .. Size(f) \div PAGE_SIZE - 1
           resolved(p, s) ==
             LET q == value32(p, s).hi IN
             [page_id |-> p, offset |-> PageOffset(p) + s,
              class_id |-> ClassOf(f, PageOffset(p) + s), target_page_id |-> q,
              target_page_tag |-> IF reached(q) THEN TagOf(f, q) ELSE 0,
              target_strings |-> IF reached(q)
                THEN {RunText(PageWords(f, q), run) : run \in TextRuns(PageWords(f, q))}
                ELSE {}]
           P == {q \in Pages(f) : TagOf(f, q) = 195}
           D == 0 .. PAGE_SIZE - 1
           made == [x \in P \X D |-> resolved(x[1], x[2])]
           S == ResolvedLeafRecords(f)
<1>1. S = UNION {{resolved(p, s) : s \in slots(p)} : p \in P}
  BY DEF ResolvedLeafRecords
<1>2. IsFiniteSet(P)
  BY CountOfPages, FS_Subset
<1>3. \A p \in P : slots(p) \subseteq D
  BY SlotInPage
<1> HIDE DEF resolved, slots, P, D, S
<1>4. \A p \in P : \A s \in D : made[<<p, s>>] = resolved(p, s)
  OBVIOUS
<1>5. DOMAIN made = P \X D /\ IsFiniteSet(D)
  BY OffsetsFinite DEF D
<1> HIDE DEF made
<1>6. ASSUME NEW y \in S
      PROVE  \E p \in P : \E s \in D : y = made[<<p, s>>]
  <2>1. PICK p \in P : y \in {resolved(p, s) : s \in slots(p)}
    BY <1>1
  <2>2. PICK s \in slots(p) : y = resolved(p, s)
    BY <2>1
  <2>3. s \in D
    BY <1>3
  <2> QED
    BY <1>4, <2>2, <2>3
<1>7. MadeFrom(S, P, D, made)
  BY <1>5, <1>6 DEF MadeFrom
<1>8. IsFiniteSet(S)
  BY <1>2, <1>5, <1>7, PlacesFinite
<1> QED
  BY <1>8 DEF S

LEMMA CatalogAddsUp ==
  ASSUME NEW f \in Files
  PROVE  SumFunction(ResolvedCatalog(f).by_class) = ResolvedCatalog(f).total_resolved
<1> DEFINE S == ResolvedLeafRecords(f)
<1>1. /\ ResolvedCatalog(f).by_class
           = [c \in {r.class_id : r \in S} |-> Cardinality({r \in S : r.class_id = c})]
      /\ ResolvedCatalog(f).total_resolved = Cardinality(S)
  BY DEF ResolvedCatalog
<1>2. IsFiniteSet(S)
  BY LeafRecordsFinite
<1> HIDE DEF S
<1> QED
  BY <1>1, <1>2, CountByClass

LEMMA IdListInPage ==
  ASSUME NEW f, NEW p, NEW o \in IdLists(f, p)
  PROVE  /\ o \in 0 .. PAGE_SIZE - 1
         /\ Positions(f, p, ID_FOURCC) # {}
         /\ WordAt(f, PageOffset(p) + o) = Num(1)
<1>1. PICK z \in Positions(f, p, ID_FOURCC) :
        z >= 16 /\ z + 14 <= PAGE_SIZE /\ IdListAt(f, p, z - 16) /\ o = z - 16
  BY DEF IdLists
<1>2. z \in 0 .. PAGE_SIZE - 1 /\ PAGE_SIZE \in Nat
  BY LayoutAssumption DEF Positions, Every4
<1>3. o \in 0 .. PAGE_SIZE - 1
  BY <1>1, <1>2
<1> QED
  BY <1>1, <1>3 DEF IdListAt

LEMMA FollowedFinite ==
  ASSUME NEW f \in Files
  PROVE  IsFiniteSet(FollowedRecords(f))
<1> DEFINE target(page, off) == WordAt(f, PageOffset(page) + off + 8)
           inside(word) == word.hi < 32768 /\ AsInt(word) \in 1 .. Size(f) - 1
           page_of(off) == IF off >= HEADER_SIZE THEN (off - HEADER_SIZE) \div PAGE_SIZE ELSE -1
           followed(page, off) ==
             LET to == AsInt(target(page, off)) IN
             [source_neoidlist_off |-> PageOffset(page) + off, target_off |-> to,
              target_page_id |-> page_of(to),
              target_page_tag |-> IF page_of(to) \in Pages(f)
                                  THEN TagOf(f, page_of(to)) ELSE 0]
           slots(p) == {i \in IdLists(f, p) : inside(target(p, i))}
           P == Pages(f)
           D == 0 .. PAGE_SIZE - 1
           made == [x \in P \X D |-> followed(x[1], x[2])]
           S == FollowedRecords(f)
<1>1. S = UNION {{followed(p, s) : s \in slots(p)} : p \in P}
  BY DEF FollowedRecords
<1>2. IsFiniteSet(P)
  BY CountOfPages
<1>3. \A p \in P : slots(p) \subseteq D
  BY IdListInPage
<1> HIDE DEF followed, slots, P, D, S
<1>4. \A p \in P : \A s \in D : made[<<p, s>>] = followed(p, s)
  OBVIOUS
<1>5. DOMAIN made = P \X D /\ IsFiniteSet(D)
  BY OffsetsFinite DEF D
<1> HIDE DEF made
<1>6. ASSUME NEW y \in S
      PROVE  \E p \in P : \E s \in D : y = made[<<p, s>>]
  <2>1. PICK p \in P : y \in {followed(p, s) : s \in slots(p)}
    BY <1>1
  <2>2. PICK s \in slots(p) : y = followed(p, s)
    BY <2>1
  <2>3. s \in D
    BY <1>3
  <2> QED
    BY <1>4, <2>2, <2>3
<1>7. MadeFrom(S, P, D, made)
  BY <1>5, <1>6 DEF MadeFrom
<1>8. IsFiniteSet(S)
  BY <1>2, <1>5, <1>7, PlacesFinite
<1> QED
  BY <1>8 DEF S

LEMMA PageOfOffset ==
  ASSUME NEW p \in Nat, NEW o \in 0 .. PAGE_SIZE - 1, NEW off, off = PageOffset(p) + o
  PROVE  (off - HEADER_SIZE) \div PAGE_SIZE = p
<1>1. PAGE_SIZE \in Nat \ {0} /\ HEADER_SIZE \in Nat
  BY LayoutAssumption
<1> DEFINE y == p * PAGE_SIZE
           x == y + o
           m == x \div PAGE_SIZE
           w == m * PAGE_SIZE
<1>2. y \in Nat /\ o \in Nat /\ o < PAGE_SIZE
  BY <1>1
<1>3. off - HEADER_SIZE = x
  <2>1. PageOffset(p) = HEADER_SIZE + y
    BY DEF PageOffset
  <2> HIDE DEF y
  <2> QED
    BY <1>1, <1>2, <2>1
<1>4. x \in Nat
  BY <1>2
<1>5. m \in Nat /\ w <= x /\ x < w + PAGE_SIZE
  <2> HIDE DEF x
  <2> QED
    BY <1>1, <1>4
<1> HIDE DEF m
<1>6. ~(m < p)
  <2> SUFFICES ASSUME m < p PROVE FALSE
    OBVIOUS
  <2>1. PICK e \in Nat : p = m + 1 + e
    <3>1. p - m - 1 \in Nat /\ p = m + 1 + (p - m - 1)
      BY <1>5
    <3> QED
      BY <3>1
  <2>2. e * PAGE_SIZE \in Nat /\ w \in Nat /\ y = w + PAGE_SIZE + e * PAGE_SIZE
    BY <1>1, <1>5, <2>1
  <2> DEFINE u == e * PAGE_SIZE
  <2> HIDE DEF u, y, w
  <2> QED
    BY <1>1, <1>2, <1>5, <2>2 DEF u
<1>7. ~(p < m)
  <2> SUFFICES ASSUME p < m PROVE FALSE
    OBVIOUS
  <2>1. PICK e \in Nat : m = p + 1 + e
    <3>1. m - p - 1 \in Nat /\ m = p + 1 + (m - p - 1)
      BY <1>5
    <3> QED
      BY <3>1
  <2>2. e * PAGE_SIZE \in Nat /\ w \in Nat /\ w = y + PAGE_SIZE + e * PAGE_SIZE
    BY <1>1, <1>5, <2>1
  <2> DEFINE u == e * PAGE_SIZE
  <2> HIDE DEF u, y, w
  <2> QED
    BY <1>1, <1>2, <1>5, <2>2 DEF u
<1>8. m = p
  BY <1>5, <1>6, <1>7
<1> QED
  BY <1>3, <1>8 DEF m

LEMMA FollowedComeFromLists ==
  ASSUME NEW f \in Files, NEW x \in FollowedRecords(f)
  PROVE  PageIndex(f)[(x.source_neoidlist_off - HEADER_SIZE) \div PAGE_SIZE].has_id_marker
<1>1. PICK p \in Pages(f) : \E o \in IdLists(f, p) : x.source_neoidlist_off = PageOffset(p) + o
  BY DEF FollowedRecords
<1>2. PICK o \in IdLists(f, p) : x.source_neoidlist_off = PageOffset(p) + o
  BY <1>1
<1>3. o \in 0 .. PAGE_SIZE - 1 /\ Positions(f, p, ID_FOURCC) # {}
  BY IdListInPage
<1>4. p \in Nat
  BY PageInFile
<1> DEFINE d == (x.source_neoidlist_off - HEADER_SIZE) \div PAGE_SIZE
<1>5. d = p
  BY <1>2, <1>3, <1>4, PageOfOffset
<1> HIDE DEF d
<1>6. PageIndex(f)[d].has_id_marker
  BY <1>3, <1>5 DEF PageIndex
<1> QED
  BY <1>6 DEF d

-----------------------------------------------------------------------------
(* The walk over the leaves: what begins at an offset of a page.           *)

LeafNPfls(f, p) ==
  {o \in Positions(f, p, NPFL_FOURCC) :
     ~\E r \in {LeafRecord(p, i, i + 30, 11) : i \in IdLists(f, p)} :
        o \in r.record_off .. r.end - 1}
BeginsAt(f, p, o) ==
  LET positions == IF TagOf(f, p) = 195 THEN LeafNPfls(f, p) ELSE Positions(f, p, NPFL_FOURCC)
  IN  IF WordAt(f, PageOffset(p) + o) = Num(1) THEN LeafRecord(p, o, o + 30, 11)
      ELSE LeafRecord(p, o, Min({q \in positions : q > o} \cup {PAGE_SIZE}), None)

LEMMA NPflIsNoList == NPFL_FOURCC # Num(1)
<1>1. 1 \div 65536 = 0
  OBVIOUS
<1>2. Num(1).hi = 0
  BY <1>1 DEF Num, Word
<1>3. NPFL_FOURCC.hi = 20048
  BY DEF NPFL_FOURCC, Word
<1> QED
  BY <1>2, <1>3

LEMMA NPflBegins ==
  ASSUME NEW f, NEW p, NEW positions \in SUBSET Positions(f, p, NPFL_FOURCC),
         NEW x \in NPflRecords(p, positions)
  PROVE  \E o \in 0 .. PAGE_SIZE - 1 :
           /\ WordAt(f, PageOffset(p) + o) = NPFL_FOURCC
           /\ x = LeafRecord(p, o, Min({q \in positions : q > o} \cup {PAGE_SIZE}), None)
<1>1. PICK o \in positions : x = LeafRecord(p, o, Min({q \in positions : q > o} \cup {PAGE_SIZE}), None)
  BY DEF NPflRecords
<1>2. o \in 0 .. PAGE_SIZE - 1 /\ WordAt(f, PageOffset(p) + o) = NPFL_FOURCC
  BY DEF Positions, Every4
<1> QED
  BY <1>1, <1>2

LEMMA WalkedBegin ==
  ASSUME NEW f \in Files, NEW x \in WalkRecords(f)
  PROVE  \E p \in Pages(f) : \E o \in 0 .. PAGE_SIZE - 1 :
           x.abs_off = PageOffset(p) + o /\ x = BeginsAt(f, p, o)
<1>1. \/ \E p \in Pages(f) : TagOf(f, p) = 195 /\ x \in RecordsInLeaf(f, p)
      \/ \E p \in Pages(f) : classify_page(f, p) = -1
                             /\ x \in NPflRecords(p, Positions(f, p, NPFL_FOURCC))
  BY DEF WalkRecords
<1>2. CASE \E p \in Pages(f) : TagOf(f, p) = 195 /\ x \in RecordsInLeaf(f, p)
  <2>1. PICK p \in Pages(f) : TagOf(f, p) = 195 /\ x \in RecordsInLeaf(f, p)
    BY <1>2
  <2>2. RecordsInLeaf(f, p)
          = {LeafRecord(p, o, o + 30, 11) : o \in IdLists(f, p)}
            \cup NPflRecords(p, LeafNPfls(f, p))
    BY DEF RecordsInLeaf, LeafNPfls
  <2>3. CASE x \in {LeafRecord(p, o, o + 30, 11) : o \in IdLists(f, p)}
    <3>1. PICK o \in IdLists(f, p) : x = LeafRecord(p, o, o + 30, 11)
      BY <2>3
    <3>2. o \in 0 .. PAGE_SIZE - 1 /\ WordAt(f, PageOffset(p) + o) = Num(1)
      BY IdListInPage
    <3>3. x = BeginsAt(f, p, o)
      BY <3>1, <3>2 DEF BeginsAt
    <3>4. x.abs_off = PageOffset(p) + o
      BY <3>1 DEF LeafRecord
    <3> QED
      BY <3>2, <3>3, <3>4
  <2>4. CASE x \in NPflRecords(p, LeafNPfls(f, p))
    <3>1. LeafNPfls(f, p) \in SUBSET Positions(f, p, NPFL_FOURCC)
      BY DEF LeafNPfls
    <3>2. PICK o \in 0 .. PAGE_SIZE - 1 :
           /\ WordAt(f, PageOffset(p) + o) = NPFL_FOURCC
           /\ x = LeafRecord(p, o, Min({q \in LeafNPfls(f, p) : q > o} \cup {PAGE_SIZE}), None)
      BY <2>4, <3>1, NPflBegins
    <3>3. x = BeginsAt(f, p, o)
      BY <2>1, <3>2, NPflIsNoList DEF BeginsAt
    <3>4. x.abs_off = PageOffset(p) + o
      BY <3>2 DEF LeafRecord
    <3> QED
      BY <3>3, <3>4
  <2> QED
    BY <2>1, <2>2, <2>3, <2>4
<1>3. CASE \E p \in Pages(f) : classify_page(f, p) = -1
                               /\ x \in NPflRecords(p, Positions(f, p, NPFL_FOURCC))
  <2>1. PICK p \in Pages(f) : classify_page(f, p) = -1
                              /\ x \in NPflRecords(p, Positions(f, p, NPFL_FOURCC))
    BY <1>3
  <2>2. TagOf(f, p) # 195
    BY <2>1 DEF classify_page, STRUCTURAL_TAGS
  <2>3. PICK o \in 0 .. PAGE_SIZE - 1 :
          /\ WordAt(f, PageOffset(p) + o) = NPFL_FOURCC
          /\ x = LeafRecord(p, o, Min({q \in Positions(f, p, NPFL_FOURCC) : q > o}
                                      \cup {PAGE_SIZE}), None)
    BY <2>1, NPflBegins
  <2>4. x = BeginsAt(f, p, o)
    BY <2>2, <2>3, NPflIsNoList DEF BeginsAt
  <2>5. x.abs_off = PageOffset(p) + o
    BY <2>3 DEF LeafRecord
  <2> QED
    BY <2>4, <2>5
<1> QED
  BY <1>1, <1>2, <1>3

LEMMA OneRecordBegins ==
  ASSUME NEW f \in Files, NEW x \in WalkRecords(f), NEW y \in WalkRecords(f),
         x.abs_off = y.abs_off
  PROVE  x = y
<1>1. PICK p \in Pages(f) : \E o \in 0 .. PAGE_SIZE - 1 :
        x.abs_off = PageOffset(p) + o /\ x = BeginsAt(f, p, o)
  BY WalkedBegin
<1>2. PICK o \in 0 .. PAGE_SIZE - 1 : x.abs_off = PageOffset(p) + o /\ x = BeginsAt(f, p, o)
  BY <1>1
<1>3. PICK q \in Pages(f) : \E i \in 0 .. PAGE_SIZE - 1 :
        y.abs_off = PageOffset(q) + i /\ y = BeginsAt(f, q, i)
  BY WalkedBegin
<1>4. PICK i \in 0 .. PAGE_SIZE - 1 : y.abs_off = PageOffset(q) + i /\ y = BeginsAt(f, q, i)
  BY <1>3
<1>5. PageOffset(p) + o = PageOffset(q) + i
  BY <1>2, <1>4
<1>6. p \in Nat /\ q \in Nat
  BY PageInFile
<1>7. p = q /\ o = i
  BY <1>5, <1>6, OnePage
<1> QED
  BY <1>2, <1>4, <1>7

-----------------------------------------------------------------------------
(* The pairs of the triggers.                                              *)

LEMMA DeltasAre == DOMAIN DELTAS = 1 .. 7 /\ DELTAS[1] = 0
BY DEF DELTAS

(* At the offset of a record the first of the places tried has a marker.   *)
LEMMA ExactOffsetStays ==
  ASSUME NEW f \in Files, NEW boff, FindByOffset(RecordIndex(f), boff) # None
  PROVE  ResolveRawMarker(f, boff) = boff /\ boff # None
<1> DEFINE inside(off) == off >= HEADER_SIZE /\ off + 8 <= Size(f)
           hits == {k \in DOMAIN DELTAS :
                      inside(boff + DELTAS[k]) /\ MagicAt(f, boff + DELTAS[k])}
<1>1. /\ FindByOffset(RecordIndex(f), boff) \in RecordIndex(f)
      /\ FindByOffset(RecordIndex(f), boff).byte_offset = boff
  BY FoundByOffset
<1>2. PICK p \in Pages(f) : \E s \in SlotMarkers(f, PageOffset(p)) : boff = PageOffset(p) + s
  BY <1>1, RecordAt
<1>3. PICK s \in SlotMarkers(f, PageOffset(p)) : boff = PageOffset(p) + s
  BY <1>2
<1>4. boff \in AllMarkers(f)
  BY <1>3, SlotMarkerIsMarker
<1>5. boff \in Nat /\ HEADER_SIZE <= boff /\ boff + 8 <= Size(f)
  BY <1>4, MarkersAreOffsets
<1>6. MagicAt(f, boff)
  BY <1>3 DEF SlotMarkers, MarkerAt
<1>7. HEADER_SIZE \in Nat /\ Size(f) \in Nat
  BY LayoutAssumption, FilesAreSequences
<1>8. inside(boff) /\ boff + DELTAS[1] = boff
  BY <1>5, <1>7, DeltasAre
<1>9. 1 \in hits
  BY <1>6, <1>8, DeltasAre
<1>10. hits \in SUBSET Int /\ \A k \in hits : 1 <= k
  BY DeltasAre
<1>11. ResolveRawMarker(f, boff)
         = IF ~inside(boff) \/ hits = {} THEN None ELSE boff + DELTAS[Min(hits)]
  BY DEF ResolveRawMarker
<1> HIDE DEF hits, inside
<1>12. Min(hits) = 1
  BY <1>9, <1>10, MinIs
<1>13. ResolveRawMarker(f, boff) = boff
  BY <1>8, <1>9, <1>11, <1>12
<1> QED
  BY <1>5, <1>13, NoneAssumption

LEMMA ResolvedIsMagic ==
  ASSUME NEW f, NEW boff, ResolveRawMarker(f, boff) # None
  PROVE  MagicAt(f, ResolveRawMarker(f, boff))
<1> DEFINE inside(off) == off >= HEADER_SIZE /\ off + 8 <= Size(f)
           hits == {k \in DOMAIN DELTAS :
                      inside(boff + DELTAS[k]) /\ MagicAt(f, boff + DELTAS[k])}
<1>1. ResolveRawMarker(f, boff)
        = IF ~inside(boff) \/ hits = {} THEN None ELSE boff + DELTAS[Min(hits)]
  BY DEF ResolveRawMarker
<1>2. hits \in SUBSET Nat
  BY DeltasAre
<1>3. \A k \in hits : MagicAt(f, boff + DELTAS[k])
  OBVIOUS
<1> HIDE DEF hits, inside
<1>4. hits # {} /\ ResolveRawMarker(f, boff) = boff + DELTAS[Min(hits)]
  BY <1>1
<1>5. Min(hits) \in hits
  BY <1>2, <1>4, MinExists
<1> QED
  BY <1>3, <1>4, <1>5

LEMMA TriggersName ==
  ASSUME NEW f \in Files, NEW t \in DOMAIN DecodedTriggers(f), NEW pair \in DecodedTriggers(f)[t]
  PROVE  LET named == FindByOffset(RecordIndex(f), AsInt(WordAt(f, pair.at))) IN
         IF named # None
         THEN pair.read.byte_offset = named.byte_offset
              /\ pair.read.target_class_id = named.class_id
         ELSE pair.read.certainty = "byte-direct" => MagicAt(f, pair.read.byte_offset)
<1> DEFINE index == RecordIndex(f)
<1>1. PICK o \in PairSlots(f, t) :
        pair = [at |-> o, read |-> TriggerPair(f, index, AsInt(WordAt(f, o)), WordAt(f, o + 4))]
  BY DEF DecodedTriggers
<1> DEFINE boff == AsInt(WordAt(f, o))
           named == FindByOffset(index, boff)
           off == ResolveRawMarker(f, boff)
           read == TriggerPair(f, index, boff, WordAt(f, o + 4))
<1>2. AsInt(WordAt(f, pair.at)) = boff /\ pair.read = read
  BY <1>1
<1>3. /\ off = None => read.certainty = "unresolved"
      /\ off # None => read.byte_offset = off /\ read.target_class_id = ClassOf(f, off)
  BY DEF TriggerPair
<1> HIDE DEF boff, read
<1>4. CASE named # None
  <2>1. off = boff /\ boff # None
    BY <1>4, ExactOffsetStays
  <2>2. named.byte_offset = boff /\ named.class_id = ClassOf(f, boff)
    BY <1>4, FoundByOffset
  <2> QED
    BY <1>2, <1>3, <1>4, <2>1, <2>2
<1>5. CASE named = None
  <2>1. read.certainty = "byte-direct" => MagicAt(f, read.byte_offset)
    BY <1>3, ResolvedIsMagic
  <2> QED
    BY <1>2, <1>5, <2>1
<1> QED
  BY <1>4, <1>5

-----------------------------------------------------------------------------
LEMMA IInvScans == IInv => ScansAgree
<1> SUFFICES ASSUME IInv PROVE ScansAgree
  OBVIOUS
<1>1. raw \in Files
  BY DEF IInv
<1>2. to_bytes(raw) = raw
  BY <1>1, PartsAddUp
<1>3. \A tag \in DOMAIN page_type_distribution(raw) :
        page_type_distribution(raw)[tag]
          = Cardinality({p \in DOMAIN PageIndex(raw) : PageIndex(raw)[p].tag = tag})
  BY <1>1, TagsCounted
<1>4. \A leaf \in ResolvedLeafRecords(raw) :
        FindByOffset(RecordIndex(raw), leaf.offset).class_id = leaf.class_id
  BY <1>1, LeavesAreIndexed
<1>5. SumFunction(ResolvedCatalog(raw).by_class) = ResolvedCatalog(raw).total_resolved
  BY <1>1, CatalogAddsUp
<1>6. \A nav \in NavTargets(raw).entries :
        LET rec == FindByOffset(RecordIndex(raw), nav.record_offset) IN
        nav.label # <<>> /\ ~Separates(NavPayload(raw, rec))
          => PageIndex(raw)[rec.page_id].n_strings > 0
  BY <1>1, LabelsAreStrings
<1>7. \A x, y \in WalkRecords(raw) : x.abs_off = y.abs_off => x = y
  BY <1>1, OneRecordBegins
<1>8. \A x \in FollowedRecords(raw) :
        PageIndex(raw)[(x.source_neoidlist_off - HEADER_SIZE) \div PAGE_SIZE].has_id_marker
  BY <1>1, FollowedComeFromLists
<1>9. SumFunction(categorize_followed(FollowedRecords(raw))) = Cardinality(FollowedRecords(raw))
  BY <1>1, FollowedFinite, CountByTag
<1>10. SumFunction([k \in DOMAIN BtreeInventory(raw) |-> BtreeInventory(raw)[k].page_count])
         = Cardinality(ResolverPages(raw))
  BY <1>1, InventoryCountsPages
<1>11. \A t \in DOMAIN DecodedTriggers(raw) : \A pair \in DecodedTriggers(raw)[t] :
         LET named == FindByOffset(RecordIndex(raw), AsInt(WordAt(raw, pair.at))) IN
         IF named # None
         THEN pair.read.byte_offset = named.byte_offset
              /\ pair.read.target_class_id = named.class_id
         ELSE pair.read.certainty = "byte-direct" => MagicAt(raw, pair.read.byte_offset)
  BY <1>1, TriggersName
<1> QED
  BY <1>2, <1>3, <1>4, <1>5, <1>6, <1>7, <1>8, <1>9, <1>10, <1>11 DEF ScansAgree

(* The scans of every file tell one story: the parts of the container add  *)
(* up to the file; the tags, the classes, the pages of the inventory and   *)
(* the followed pointers add up to what they were counted from; and what a *)
(* leaf, a VCNav, an id list or a trigger's pair names is what the record  *)
(* index and the page index have at that place.                            *)
THEOREM ScansTellOneStory == Spec => []ScansAgree
<1>1. Spec => []IInv
  BY IInvInit, IInvStep, PTL DEF Spec
<1> QED
  BY <1>1, IInvScans, PTL
=============================================================================
