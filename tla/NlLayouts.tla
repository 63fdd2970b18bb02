------------------------------ MODULE NlLayouts ------------------------------
(***************************************************************************)
(* The Read and the Write bodies of the persistent classes, each as the    *)
(* sequence of typed reads (writes) it makes after VCObject::Read (Write). *)
(* One definition per source file; classes that share a reader share a     *)
(* layout. The two halves are translated apart from each other: that they  *)
(* agree is what the run checks.                                           *)
(***************************************************************************)
EXTENDS Naturals, Sequences, TLC

-----------------------------------------------------------------------------
(* The vocabulary: what one typed read or write says.                      *)
Item(name, kind, tag) ==
  [name |-> name, kind |-> kind, tag |-> tag, since |-> 0]

\* Single-byte tags are the letters the members are called by.
Plain(kind, names) ==
  [i \in DOMAIN names |-> Item(names[i], kind, names[i])]

Dwords(names) == Plain("dword", names)
Shorts(names) == Plain("short", names)
Bytes(names)  == Plain("byte", names)

\* read_obj and read_obj_list: every caller passes 'NPTc' and 'NPlt'.
Subs(names) == [i \in DOMAIN names |-> Item(names[i], "sub", "NPTc")]
List(name)  == << Item(name, "list", "NPlt") >>

\* Fields behind "current_version() > v" are there since v + 1.
Since(v, items) == [i \in DOMAIN items |-> [items[i] EXCEPT !.since = v]]
Present(item, v) == item.since <= v

-----------------------------------------------------------------------------
(* Read bodies.                                                            *)

ReadAction == [VCAction |-> Subs(<<"e">>) \o Bytes(<<"f">>)]

ReadActionList == [VCActionList |-> List("items")]

ReadAtomicFamily ==
  [VCAssetCategory |-> Dwords(<<"e">>) \o Bytes(<<"f">>),
   VCEnabled       |-> Dwords(<<"e">>) \o Bytes(<<"f", "g">>),
   VCStdAction     |-> Dwords(<<"e", "f", "h">>),
   VCString        |-> Subs(<<"e">>)]

ReadBlob == [VCBlob |-> Subs(<<"e">>)]

ReadCharacterFamily ==
  [VCCharacter |-> Dwords(<<"e">>),
   VCPlayer    |-> Dwords(<<"e">>),
   VCIdeaMap   |-> Dwords(<<"e", "f">>)]

\* A reader that takes the fields in the order of their tags.
MutReadConversation ==
  [VCConversation |->
     Dwords(<<"e", "f">>) \o Since(3, Dwords(<<"g">>)) \o Dwords(<<"h">>)
       \o Since(3, Dwords(<<"i">>)) \o Dwords(<<"j">>)
       \o Since(4, Bytes(<<"k">>))]

\* The calls made, in their order: g and i after the four always there.
ReadConversation ==
  [VCConversation |->
     Dwords(<<"e", "f", "h", "j">>)
       \o Since(3, Dwords(<<"g", "i">>)) \o Since(4, Bytes(<<"k">>))]

EmailFamily == {"VCEmail", "VCEmailRead", "VCEmailPending",
                "VCConversationHistory", "VCPDANotes"}
ReadEmailFamily == [c \in EmailFamily |-> Subs(<<"f">>)]

ReadGameState ==
  [VCGameState |->
     Dwords(<<"e", "f", "g", "h", "i", "j", "k", "l", "m",
              "n", "o", "p", "q", "r", "s">>)
       \o Subs(<<"t", "u", "v", "w", "x">>)
       \o Bytes(<<"y", "x7a", "x7b", "x7c", "x7d", "x7e", "x7f">>)
       \o Dwords(<<"x80">>) \o Bytes(<<"x81">>)
       \o Dwords(<<"x82", "x83", "x84">>) \o Shorts(<<"x85">>)]

ReadHotspotFamily ==
  [VCAssetRef   |-> Subs(<<"e">>) \o Dwords(<<"f", "g">>) \o Bytes(<<"h", "i">>),
   VCExplorable |-> Subs(<<"e">>) \o Dwords(<<"f">>),
   VCHotSpot    |-> Subs(<<"e">>) \o Dwords(<<"f">>)]

IconFamily == {"VCInventory", "VCActionIcon", "VCEvidenceIcon",
               "VCEmotionIcon", "VCIdeaIcon"}
ReadIconFamily ==
  [c \in IconFamily |->
     Dwords(<<"e", "f", "g", "h", "i", "j">>) \o Since(4, Dwords(<<"k">>))]

ListFamily == {"VCCharViewList", "VCConversationList", "VCNav_List",
               "VCAssetRefList", "VCExplorableList", "VCHotSpotList",
               "VCStdHotSpotList", "VCIdeaMapList", "VCTriggerList",
               "VCStdActionList"}
ReadListFamily == [c \in ListFamily |-> List("items")]

\* Two assignments with their right-hand sides exchanged.
MutReadNav ==
  [VCNav |-> Dwords(<<"e">>) \o << Item("g", "dword", "f"), Item("f", "dword", "g") >>]

ReadNav == [VCNav |-> Dwords(<<"e", "f", "g">>)]

ReadRemaining ==
  [VCTitle |-> Since(2, List("children")) \o Subs(<<"f", "h", "g", "i">>)
                 \o Dwords(<<"j", "k">>) \o Shorts(<<"l", "m">>),
   VCDefaultCursors  |-> List("items"),
   VCDefaultHotSpots |-> List("items"),
   VCTrigger  |-> <<>>,
   VCName     |-> Subs(<<"e", "f">>),
   VCCursor   |-> Subs(<<"e">>) \o Dwords(<<"f", "g">>),
   VCVariable |-> Subs(<<"e">>) \o Dwords(<<"g", "i">>) \o Bytes(<<"h", "f">>),
   VCPhoto    |-> Subs(<<"e">>) \o Dwords(<<"f", "g">>) \o Subs(<<"h">>)
                    \o Bytes(<<"i", "j">>)]

ReadSceneGraph ==
  [VCView    |-> Dwords(<<"e", "f", "g", "h", "i", "j">>),
   VCNode    |-> List("children") \o Dwords(<<"f", "g">>),
   VCLocaton |-> List("children") \o Dwords(<<"f", "g", "h">>) \o Bytes(<<"i">>)]

ReadUiFamily ==
  [VCIFaceLayout   |-> List("items") \o Dwords(<<"f">>) \o Bytes(<<"g">>),
   VCInterfaceItem |-> Subs(<<"e">>) \o Dwords(<<"f", "g">>)
                         \o Shorts(<<"h">>) \o Since(5, Shorts(<<"i">>)),
   VCViewPoint     |-> List("items") \o Subs(<<"f">>) \o Dwords(<<"g", "h">>),
   VCCharView      |-> Dwords(<<"e">>) \o Subs(<<"f">>)
                         \o Dwords(<<"g", "h", "i", "j">>)]

ReadBodies ==
  ReadAction @@ ReadActionList @@ ReadAtomicFamily @@ ReadBlob
    @@ ReadCharacterFamily @@ ReadConversation @@ ReadEmailFamily
    @@ ReadGameState @@ ReadHotspotFamily @@ ReadIconFamily @@ ReadListFamily
    @@ ReadNav @@ ReadRemaining @@ ReadSceneGraph @@ ReadUiFamily

-----------------------------------------------------------------------------
(* Write bodies.                                                           *)

WriteAction == [VCAction |-> Subs(<<"e">>) \o Bytes(<<"f">>)]

WriteActionList == [VCActionList |-> List("items")]

WriteAtomicFamily ==
  [VCAssetCategory |-> Dwords(<<"e">>) \o Bytes(<<"f">>),
   VCEnabled       |-> Dwords(<<"e">>) \o Bytes(<<"f", "g">>),
   VCStdAction     |-> Dwords(<<"e", "f", "h">>),
   VCString        |-> Subs(<<"e">>)]

WriteBlob == [VCBlob |-> Subs(<<"e">>)]

WriteCharacterFamily ==
  [VCCharacter |-> Dwords(<<"e">>),
   VCPlayer    |-> Dwords(<<"e">>),
   VCIdeaMap   |-> Dwords(<<"e", "f">>)]

WriteConversation ==
  [VCConversation |->
     Dwords(<<"e", "f", "h", "j">>)
       \o Since(3, Dwords(<<"g", "i">>)) \o Since(4, Bytes(<<"k">>))]

WriteEmailFamily == [c \in EmailFamily |-> Subs(<<"f">>)]

WriteGameState ==
  [VCGameState |->
     Dwords(<<"e", "f", "g", "h", "i", "j", "k", "l", "m",
              "n", "o", "p", "q", "r", "s">>)
       \o Subs(<<"t", "u", "v", "w", "x">>)
       \o Bytes(<<"y", "x7a", "x7b", "x7c", "x7d", "x7e", "x7f">>)
       \o Dwords(<<"x80">>) \o Bytes(<<"x81">>)
       \o Dwords(<<"x82", "x83", "x84">>) \o Shorts(<<"x85">>)]

WriteHotspotFamily ==
  [VCAssetRef   |-> Subs(<<"e">>) \o Dwords(<<"f", "g">>) \o Bytes(<<"h", "i">>),
   VCExplorable |-> Subs(<<"e">>) \o Dwords(<<"f">>),
   VCHotSpot    |-> Subs(<<"e">>) \o Dwords(<<"f">>)]

WriteIconFamily ==
  [c \in IconFamily |->
     Dwords(<<"e", "f", "g", "h", "i", "j">>) \o Since(4, Dwords(<<"k">>))]

WriteListFamily == [c \in ListFamily |-> List("items")]

WriteNav == [VCNav |-> Dwords(<<"e", "f", "g">>)]

WriteRemaining ==
  [VCTitle |-> Since(2, List("children")) \o Subs(<<"f", "h", "g", "i">>)
                 \o Dwords(<<"j", "k">>) \o Shorts(<<"l", "m">>),
   VCDefaultCursors  |-> List("items"),
   VCDefaultHotSpots |-> List("items"),
   VCTrigger  |-> <<>>,
   VCName     |-> Subs(<<"e", "f">>),
   VCCursor   |-> Subs(<<"e">>) \o Dwords(<<"f", "g">>),
   VCVariable |-> Subs(<<"e">>) \o Dwords(<<"g", "i">>) \o Bytes(<<"h", "f">>),
   VCPhoto    |-> Subs(<<"e">>) \o Dwords(<<"f", "g">>) \o Subs(<<"h">>)
                    \o Bytes(<<"i", "j">>)]

WriteSceneGraph ==
  [VCView    |-> Dwords(<<"e", "f", "g", "h", "i", "j">>),
   VCNode    |-> List("children") \o Dwords(<<"f", "g">>),
   VCLocaton |-> List("children") \o Dwords(<<"f", "g", "h">>) \o Bytes(<<"i">>)]

WriteUiFamily ==
  [VCIFaceLayout   |-> List("items") \o Dwords(<<"f">>) \o Bytes(<<"g">>),
   VCInterfaceItem |-> Subs(<<"e">>) \o Dwords(<<"f", "g">>)
                         \o Shorts(<<"h">>) \o Since(5, Shorts(<<"i">>)),
   VCViewPoint     |-> List("items") \o Subs(<<"f">>) \o Dwords(<<"g", "h">>),
   VCCharView      |-> Dwords(<<"e">>) \o Subs(<<"f">>)
                         \o Dwords(<<"g", "h", "i", "j">>)]

WriteBodies ==
  WriteAction @@ WriteActionList @@ WriteAtomicFamily @@ WriteBlob
    @@ WriteCharacterFamily @@ WriteConversation @@ WriteEmailFamily
    @@ WriteGameState @@ WriteHotspotFamily @@ WriteIconFamily @@ WriteListFamily
    @@ WriteNav @@ WriteRemaining @@ WriteSceneGraph @@ WriteUiFamily
=============================================================================
