----------------------------- MODULE MCFlashKv ------------------------------
(* Values of one size or of two.                                            *)
EXTENDS FlashKv

Alike == [v \in Values |-> 2]
Unlike == [v \in Values |-> IF v = "v1" THEN 2 ELSE 3]
AnyWrite == Keys \X Values
\* One key changes, the other is only set and deleted.
FewWrites == {"k1"} \X Values \cup {<<"k2", "v1">>}
NoDefaults == << >>
OneDefault == <<[key |-> "k1", val |-> "v1"]>>
=============================================================================
