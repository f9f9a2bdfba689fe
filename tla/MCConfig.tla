-------------------------------- MODULE MCConfig --------------------------------
(***************************************************************************)
(* Config for TLC: files of up to two lines, variables of each kind, two   *)
(* enables.  "big" is a number that no 16 bits hold.                       *)
(***************************************************************************)
EXTENDS Config, TLC

MCText == {"YES", "0", "70", "big"}
MCStol == "YES" :> NaN @@ "0" :> 0 @@ "70" :> 70 @@ "big" :> 65536 + 80

MCLines == [form : Form, key : {"PORT", "INGAME_TIME", "SECRET"}, val : {"YES", "70"}] \cup
           [form : {"plain"}, key : {"TURNTIME", "MAX_CLIENTS", "OTHER"}, val : {"big", "0"}]
MCFiles == {Missing, <<>>} \cup {<<l>> : l \in MCLines} \cup {<<l, m>> : l, m \in MCLines}

MCEnvs == {[k \in Key |-> IF k \in s THEN v ELSE Unset] :
              s \in {{}, {"PORT"}, {"INGAME_TIME", "SECRET"}, {"TURNTIME", "AUTOSAVE_WHILE_IDLE"}},
              v \in {"YES", "0", "big"}}
================================================================================
