-------------------------- MODULE MCTwoProvisioners --------------------------
(***************************************************************************)
(* Small instances of TwoProvisioners.                                     *)
(***************************************************************************)
EXTENDS TwoProvisioners

CONSTANTS v1, c1, p1

OneClass == [v \in Volumes |-> c1]
OnePath == [v \in Volumes |-> p1]
AllBlock == [v \in Volumes |-> "Block"]
AllDelete == [c \in Classes |-> "Delete"]

JobConfig ==
    [useJob |-> TRUE, nodeNameOnly |-> FALSE, hostLabel |-> TRUE,
     uidName |-> "node-uid1", classes |-> {c1}]
JobConfigs == {JobConfig}
=============================================================================
