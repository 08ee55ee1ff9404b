---------------------------- MODULE MCProtoTree -----------------------------
(* Three small sets of descriptors for ProtoTree.                          *)
EXTENDS ProtoTree

F(name, kind) == [name |-> name, kind |-> kind, of |-> None]
Of(name, kind, what) == [name |-> name, kind |-> kind, of |-> what]
C(name, number) == [name |-> name, number |-> number]
Message(fields) == [fields |-> fields, enums |-> << >>]

NameEnum == [name |-> "Name", isName |-> TRUE,
             constants |-> <<C("UNKNOW_NAME", 0), C("APP_LIST", 2)>>]
(* An extension that uses the number 2 again.                              *)
ExtendEnum == [name |-> "NameExtendOne", isName |-> TRUE,
               constants |-> <<C("mixedCase", 2), C("CITY", 5)>>]
OtherEnum == [name |-> "Kind", isName |-> FALSE, constants |-> <<C("OTHER", 7)>>]

CommonInfo(enums) ==
  [fields |-> <<F("name_value", "basic"), F("int_value", "basic")>>, enums |-> enums]

(* The shape of ad_joint_labeled_log.proto: user, actions, labels.         *)
Log == [m \in {"AdJointLabeledLog", "UserInfo", "CommonInfoAttr", "SimpleAdDspInfos",
               "SimpleAdDspInfo", "LabelInfo", "LabelAttr"} |->
  CASE m = "AdJointLabeledLog" ->
         Message(<<F("is_train", "basic"), Of("user_info", "message", "UserInfo"),
                   Of("label_info", "message", "LabelInfo")>>)
    [] m = "UserInfo" ->
         Message(<<F("id", "basic"), Of("attr", "repeatedMessage", "CommonInfoAttr"),
                   Of("action_detail", "mapMessage", "SimpleAdDspInfos")>>)
    [] m = "CommonInfoAttr" -> CommonInfo(<<NameEnum, ExtendEnum, OtherEnum>>)
    [] m = "SimpleAdDspInfos" ->
         Message(<<Of("list", "repeatedMessage", "SimpleAdDspInfo")>>)
    [] m = "SimpleAdDspInfo" ->
         Message(<<F("photo_id", "basic"), Of("attr", "repeatedMessage", "CommonInfoAttr")>>)
    [] m = "LabelInfo" -> Message(<<Of("label_infos", "mapMessage", "LabelAttr")>>)
    [] m = "LabelAttr" -> CommonInfo(<<NameEnum>>)]

(* Constants among the fields, and an action map below a repeated message. *)
Clash == [m \in {"AdJointLabeledLog", "Item", "SimpleAdDspInfos", "SimpleAdDspInfo"} |->
  CASE m = "AdJointLabeledLog" ->
         Message(<<F("serialized_reco_user_info", "reco"), F("tab", "basic"),
                   Of("type", "enum", <<C("UNKNOWN", 0), C("item", 1)>>),
                   Of("state", "enum", <<C("UNKNOWN", 3), C("state", 1), C("tab", 2)>>),
                   Of("item", "repeatedMessage", "Item"),
                   Of("items", "repeatedMessage", "Item"), F("g", "group")>>)
    [] m = "Item" ->
         Message(<<F("tags", "repeatedBasic"), F("weights", "mapBasic"),
                   Of("dsp", "mapMessage", "SimpleAdDspInfos")>>)
    [] m = "SimpleAdDspInfos" ->
         Message(<<Of("list", "repeatedMessage", "SimpleAdDspInfo")>>)
    [] m = "SimpleAdDspInfo" -> Message(<<F("photo_id", "basic")>>)]

(* An action map inside an action map.                                     *)
Nested == [m \in {"AdJointLabeledLog", "AdActionInfoList", "SimpleLiveInfos"} |->
  CASE m = "AdJointLabeledLog" ->
         Message(<<Of("actions", "mapMessage", "AdActionInfoList")>>)
    [] m = "AdActionInfoList" ->
         Message(<<F("size", "basic"), Of("live", "mapMessage", "SimpleLiveInfos")>>)
    [] m = "SimpleLiveInfos" -> Message(<<F("list", "repeatedBasic")>>)]

MCSchemas == {Log, Clash, Nested}
MCActionTypes == {"SimpleAdDspInfos", "SimpleLiveInfos", "AdActionInfoList"}
MCUpper == {"UNKNOW_NAME", "APP_LIST", "CITY"}
=============================================================================
