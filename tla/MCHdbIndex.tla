----------------------------- MODULE MCHdbIndex ------------------------------
(***************************************************************************)
(* Files of three pages of sixteen words, with a header of two: at 8, 72   *)
(* and 136. Each page is one of a few kinds, whose pairs name the starts of*)
(* the pages, so that a pair leads to a marker in some files and not in    *)
(* others; ids are shared by the kinds. Some headers look like a marker. A *)
(* trailer of fourteen words makes a page together with the header.        *)
(***************************************************************************)
EXTENDS HdbIndex

Nums(seq) == [i \in DOMAIN seq |-> Num(seq[i])]
Marker(tag, sub, class) == <<Word(tag * 256 + sub, 0), Word(1, class)>>
Txt == Word(16706, 17220)

\* A leaf with a trigger (id 5), one pair, and a part sub-record (id 7).
TriggerPage(off) ==
  Marker(195, 49, 81) \o Nums(<<5, 0, 0, 0, 0, 0, off, 6>>)
  \o Marker(192, 1, 20) \o <<Num(7), Num(256 * 3), Word(4, 0), Word(5, 4356)>>
\* An id index record with three pairs, and a VCNav (id 5 again) with text.
IdIndexPage ==
  Marker(192, 0, 7) \o Nums(<<72, 6, 136, 8, 8, 9>>)
  \o Marker(193, 0, 51) \o <<Num(5), Txt, Txt, Zero, Txt, Zero>>
\* A data page with an id list's marker off the slots, and pairs behind it.
DataPage ==
  <<Txt, NPFL_FOURCC, Zero>> \o Marker(192, 0, 11)
  \o Nums(<<8, 6, 72, 10, 0, 136, 8>>) \o <<Zero, NPFL_FOURCC, Txt, Zero>>
\* An index table: four rows, one that leads to the header, and the end.
TablePage ==
  Nums(<<0, 0, 0, 0>>) \o Nums(<<8, 10, 136, 5, 72, 11, 0, 13, 0, 0>>) \o Nums(<<9, 9>>)
\* A leaf with a class record that names page 1, an id list, an NPfl.
IdListPage ==
  Marker(195, 48, 53) \o <<Word(1, 0)>> \o Nums(<<1, 2, 72, 11>>)
  \o <<ID_FOURCC, Num(9), Word(65280, 0), Zero, NPFL_FOURCC, Txt>> \o Nums(<<136, 12, 0>>)
\* An interior page with a marker right behind its own.
InteriorPage ==
  Marker(194, 48, 3) \o Marker(192, 0, 7) \o Nums(<<6, 72, 7, 8, 12, 1, 100, 0, 0, 0, 136, 11>>)

\* Two VCNavs and no string: a label with a DEL in it, and one of blanks only.
NavPage ==
  Marker(193, 0, 51) \o <<Num(5), Word(2336, 16706), Word(16767, 16905), Zero>>
  \o Marker(192, 0, 51) \o <<Num(9), Word(2313, 8224), Zero>>
  \o Nums(<<72, 5, 136, 9, 0>>)

MCPages == {TriggerPage(72), IdIndexPage, DataPage, TablePage, IdListPage, InteriorPage}
LastPages == {IdIndexPage, DataPage, TablePage, IdListPage}
Header == Nums(<<5, 0>>)
MCFiles ==
  {Header \o p0 \o p1 \o p2 : p0, p1 \in MCPages, p2 \in LastPages}
  \cup {Header \o TriggerPage(off) \o p1 \o p2 :
           off \in {140, 144}, p1 \in {IdIndexPage, TablePage}, p2 \in MCPages}
  \cup {Marker(192, 0, 7) \o p0 \o TablePage \o p2 : p0 \in MCPages, p2 \in LastPages}
  \cup {Header \o NavPage \o p1 \o p2 : p1 \in {NavPage, TriggerPage(72)}, p2 \in LastPages}
  \cup {Header \o p \o IdIndexPage \o [i \in 1 .. 14 |-> Zero] : p \in MCPages}

MCClassSets == {{}, {7, 11}, {7, 20, 81}}
=============================================================================
