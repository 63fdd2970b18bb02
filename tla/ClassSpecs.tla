----------------------------- MODULE ClassSpecs ------------------------------
(***************************************************************************)
(* The Read bodies of the persistent classes as data                       *)
(* (python/.../classes/spec.py, classes/generated/all_classes.py): for a   *)
(* class id the sequence of typed reads. A Versioned block is its reads,   *)
(* each with the version it must be above. A field goes by its tag letter. *)
(***************************************************************************)
EXTENDS PyData

Always == -1
Op(kind, field, n) == [kind |-> kind, field |-> field, n |-> n, above |-> Always]
BaseInit == Op("BaseInit", None, 0)
Byte(field) == Op("Byte", field, 1)
ByteAlt(field) == Op("Byte", field, 1)
Short(field) == Op("Short", field, 2)
Dword(field) == Op("Dword", field, 4)
String(field) == Op("String", field, 0)
DwordF(fourcc) == Op("DwordF", fourcc, 4)
BufF(fourcc, n) == Op("BufF", fourcc, n)
SubObj(field) == Op("SubObj", field, 0)
ObjList(field) == Op("ObjList", field, 0)
Versioned(min_version, ops) == [i \in DOMAIN ops |-> [ops[i] EXCEPT !.above = min_version]]
Dwords(fields) == [i \in DOMAIN fields |-> Dword(fields[i])]
Bytes(fields) == [i \in DOMAIN fields |-> Byte(fields[i])]
SubObjs(fields) == [i \in DOMAIN fields |-> SubObj(fields[i])]

Spec_(name, ops) == [name |-> name, ops |-> <<BaseInit>> \o ops]
ListFamily(name) == Spec_(name, <<ObjList("items")>>)
IconFamily(name) ==
  Spec_(name, Dwords(<<"e", "f", "g", "h", "i", "j">>) \o Versioned(3, <<Dword("k")>>))
EmailFamily(name) == Spec_(name, <<SubObj("f")>>)

-----------------------------------------------------------------------------
SceneGraph ==
  39 :> Spec_("VCTitle", Versioned(1, <<ObjList("children")>>) \o SubObjs(<<"f", "h", "g", "i">>)
                         \o Dwords(<<"j", "k">>) \o <<Short("l"), Short("m")>>)
  @@ 40 :> Spec_("VCNode", <<ObjList("children")>> \o Dwords(<<"f", "g">>))
  @@ 41 :> Spec_("VCLocaton", <<ObjList("children")>> \o Dwords(<<"f", "g", "h">>) \o <<Byte("i")>>)
  @@ 42 :> Spec_("VCViewPoint", <<ObjList("items"), SubObj("f")>> \o Dwords(<<"g", "h">>))
  @@ 43 :> Spec_("VCView", Dwords(<<"e", "f", "g", "h", "i", "j">>))
  @@ 44 :> Spec_("VCCharacter", <<Dword("e")>>)
  @@ 45 :> Spec_("VCCharView", <<Dword("e"), SubObj("f")>> \o Dwords(<<"g", "h", "i", "j">>))
Talk ==
  48 :> Spec_("VCName", SubObjs(<<"e", "f">>))
  @@ 49 :> Spec_("VCConversation", Dwords(<<"e", "f", "h", "j">>)
                   \o Versioned(2, Dwords(<<"g", "i">>)) \o Versioned(3, <<ByteAlt("k")>>))
  @@ 50 :> ListFamily("VCConversationList")
  @@ 51 :> Spec_("VCNav", Dwords(<<"e", "f", "g">>))
  @@ 52 :> ListFamily("VCNav_List")
Assets ==
  53 :> Spec_("VCAssetRef", <<SubObj("e")>> \o Dwords(<<"f", "g">>) \o Bytes(<<"h", "i">>))
  @@ 54 :> ListFamily("VCAssetRefList")
  @@ 55 :> Spec_("VCExplorable", <<SubObj("e"), Dword("f")>>)
  @@ 56 :> ListFamily("VCExplorableList")
  @@ 57 :> Spec_("VCHotSpot", <<SubObj("e"), Dword("f")>>)
  @@ 58 :> ListFamily("VCHotSpotList")
Defaults ==
  59 :> ListFamily("VCStdHotSpotList")
  @@ 60 :> Spec_("VCAssetCategory", <<Dword("e"), Byte("f")>>)
  @@ 61 :> Spec_("VCCursor", <<SubObj("e")>> \o Dwords(<<"f", "g">>))
  @@ 62 :> ListFamily("VCDefaultCursors") @@ 63 :> ListFamily("VCDefaultHotSpots")
Actions ==
  65 :> Spec_("VCAction", <<SubObj("expr"), Byte("f")>>)
  @@ 66 :> ListFamily("VCActionList")
  @@ 67 :> Spec_("VCBlob", <<SubObj("e")>>)
  @@ 68 :> Spec_("VCPlayer", <<Dword("e")>>)
  @@ 69 :> Spec_("VCEnabled", <<Dword("e")>> \o Bytes(<<"f", "g">>))
Icons ==
  70 :> IconFamily("VCEmotionIcon") @@ 71 :> IconFamily("VCActionIcon")
  @@ 72 :> IconFamily("VCIdeaIcon") @@ 73 :> IconFamily("VCEvidenceIcon")
  @@ 75 :> IconFamily("VCInventory")
Interface ==
  76 :> Spec_("VCIdeaMap", Dwords(<<"e", "f">>))
  @@ 77 :> ListFamily("VCIdeaMapList")
  @@ 78 :> Spec_("VCIFaceLayout", <<ObjList("items"), Dword("f"), Byte("g")>>)
  @@ 79 :> Spec_("VCInterfaceItem", <<SubObj("e")>> \o Dwords(<<"f", "g">>) \o <<Short("h")>>
                                    \o Versioned(4, <<Short("i")>>))
  @@ 80 :> Spec_("VCString", <<SubObj("e")>>)
  @@ 81 :> Spec_("VCTrigger", <<Dword("e"), Byte("f")>>)
  @@ 82 :> ListFamily("VCTriggerList")
Variables ==
  83 :> Spec_("VCVariable", <<SubObj("e")>> \o Dwords(<<"g", "i">>) \o Bytes(<<"h", "f">>))
  @@ 84 :> Spec_("VCStdAction", Dwords(<<"e", "f", "h">>))
  @@ 85 :> ListFamily("VCStdActionList")
States ==
  86 :> EmailFamily("VCConversationHistory")
  @@ 87 :> Spec_("VCGameState",
             Dwords(<<"e", "f", "g", "h", "i", "j", "k", "l", "m", "n", "o", "p", "q", "r", "s">>)
             \o SubObjs(<<"t", "u", "v", "w", "x">>)
             \o Bytes(<<"y", "z", "0x7b", "0x7c", "0x7d", "0x7e", "0x7f">>)
             \o <<Dword("0x80"), Byte("0x81")>> \o Dwords(<<"0x82", "0x83", "0x84">>)
             \o <<Short("0x85")>>)
  @@ 88 :> EmailFamily("VCPDANotes")
  @@ 89 :> Spec_("VCPhoto", <<SubObj("e")>> \o Dwords(<<"f", "g">>) \o <<SubObj("h")>>
                            \o Bytes(<<"i", "j">>))
Emails ==
  90 :> EmailFamily("VCEmail") @@ 91 :> EmailFamily("VCEmailRead")
  @@ 92 :> EmailFamily("VCEmailPending") @@ 46 :> ListFamily("VCCharViewList")

ALL_CLASSES ==
  SceneGraph @@ Talk @@ Assets @@ Defaults @@ Actions @@ Icons @@ Interface @@ Variables
  @@ States @@ Emails

(* The order of the registry: as listed, the list without a class last.    *)
RegistryOrder == Ascending(DOMAIN ALL_CLASSES \ {46}) \o <<46>>

LETTERS ==
  <<"e", "f", "g", "h", "i", "j", "k", "l", "m", "n", "o", "p", "q", "r", "s", "t", "u", "v",
    "w", "x", "y", "z", "0x7b", "0x7c", "0x7d", "0x7e", "0x7f", "0x80", "0x81", "0x82", "0x83",
    "0x84", "0x85">>
TagOf(field) == 100 + CHOOSE i \in DOMAIN LETTERS : LETTERS[i] = field
=============================================================================
