----------------------------- MODULE MCEnvScope -----------------------------
(* Small instances of EnvScope.                                        *)
EXTENDS EnvScope

MCToken == {"user", "item", "x", "id", "key", "7", "len", "time"}
MCDigit == {"7"}

UserId == <<"user", "x", "id">>      \* candidates x_id, user_x_id
ItemId == <<"item", "x", "id">>      \* candidates x_id, item_x_id
KeyLen == <<"key", "7", "len">>      \* candidate key_7_len
Time   == <<"time">>                 \* candidate time
XId    == <<"x", "id">>              \* the one candidate x_id

MCEnum == {UserId, ItemId, KeyLen, Time, XId}

Fields == {UserId, ItemId, Time}
BranchFields == {UserId, KeyLen, Time}
ShortFields == {UserId, Time}
OneField == {ItemId}
OneRoot == {Time}
OneCommon == {XId}
OneExists == {KeyLen}
Empty == {}
OwnVar == {<<"id">>}                 \* no candidate name of any enum
=============================================================================
