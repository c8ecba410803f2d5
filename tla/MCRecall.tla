------------------------------ MODULE MCRecall ------------------------------
(* RecallPolicy for TLC: one bank may answer the same memory twice, in       *)
(* versions of one text or of two.                                          *)
EXTENDS RecallPolicy, TLC

CONSTANTS m1, m2

Order == <<"b1", "b2">>
Cs == {"risky", "tampered", "plain"}
DigestOf == [c \in Cs |-> IF c = "plain" THEN "d2" ELSE "d1"]
Single(m) == {<<>>} \cup {<< <<m, c>> >> : c \in Cs}
Answers == [b1 |-> Single(m1) \cup {<< <<m1, c>>, <<m1, d>> >> : c, d \in Cs},
            b2 |-> {<<>>, << <<m2, "plain">> >>, << <<m2, "risky">> >>}]
=============================================================================
