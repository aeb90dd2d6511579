----------------------------- MODULE MCUsers -----------------------------
(* Two people, who may be on two channels: a nick change renames one       *)
(* channel after the other.                                                 *)
EXTENDS Users

Order == [root |-> 1, ann |-> 2]
Closeness == [m |-> [x |-> 3, y |-> 2], n |-> [x |-> 4, y |-> 0]]
Covers == [m |-> {"m", "n"}, n |-> {"n"}]
NickOf == [x |-> "ann", y |-> "you"]
=============================================================================
