--------------------------- MODULE MCKakaoPipeline ---------------------------
(***************************************************************************)
(* Small instances of KakaoPipeline for TLC.                               *)
(***************************************************************************)
EXTENDS KakaoPipeline, TLC

CONSTANTS e1, e2, chat1, chat2, phone, c1, c2, c3, t1, t2, t3, t4, t5, w1, w2

(* Two senders who share a phone number.                                   *)
MCIdentitiesOf == e1 :> {chat1, phone} @@ e2 :> {chat2, phone}

Symmetry == Permutations(Customers) \cup Permutations(Workers)
=============================================================================
