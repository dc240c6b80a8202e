--------------------------- MODULE MCConfigReload ---------------------------
(***************************************************************************)
(* Small instances of ConfigReload.                                        *)
(***************************************************************************)
EXTENDS ConfigReload

CONSTANTS c1, c2

\* Every ConfigMap over the classes; one that cannot be loaded says no more.
AllFiles == {f \in File : f.classes # {} /\ (f.valid \/ f.useJob = "unset")}

OneFile == {[classes |-> {c1}, useJob |-> "unset", valid |-> TRUE]}
=============================================================================
