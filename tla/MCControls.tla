----------------------------- MODULE MCControls -----------------------------
(***************************************************************************)
(* Controls with two pages: two switches of a controlling group, one of    *)
(* them and a simplified switch of another with a oneshot; a repetition of *)
(* either kind and a memo.                                                 *)
(***************************************************************************)
EXTENDS Controls

CONSTANTS a, b, s1, s2, s3, hit, rep, rem, mem

MCPages == {a, b}
MCControls == {s1, s2, s3, hit, rep, rem, mem}
MCClass == s1 :> "switch" @@ s2 :> "switch" @@ s3 :> "switch" @@ hit :> "oneshot" @@
           rep :> "repeat" @@ rem :> "remote" @@ mem :> "memo"
MCGroupIds == [c \in MCControls |->
  CASE c = s1 -> {"doors"} [] c = s2 -> {"doors", "leave"}
    [] c \in {s3, hit} -> {"leave"} [] OTHER -> {}]
MCSimple == {s3}
MCCount == [c \in MCControls |-> IF c \in {rep, rem} THEN 2 ELSE 0]
MCUsed == {{s1, s2}, {s2, hit}, {s3, hit}, {rep}, {rem}, {mem}}

(* The pages are alike.                                                    *)
PageSymmetry == Permutations(MCPages)
=============================================================================
