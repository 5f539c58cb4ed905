---------------------- MODULE MCReservationEvaluation ----------------------
(***************************************************************************)
(* A small instance of ReservationEvaluation for TLC: two cases and two of *)
(* the fields, of which one is a date.                                     *)
(***************************************************************************)
EXTENDS ReservationEvaluation

MCFields == {"startDate", "destination"}

Values(f, vs) == vs \cup {v \in {"impossible"} : f = "startDate"}

Valued(vs) ==
  {value \in [MCFields -> vs \cup {"impossible"}] :
     \A f \in MCFields : value[f] \in Values(f, vs)}

MCDatasets == [1..2 -> Valued({"none", "real"})]

(* Lists of issues with a field, with one twice, and with another issue.   *)
MCDrafts ==
  [value : Valued({"none", "real", "other", "empty"}),
   issues : {<<>>, <<"startDate">>, <<"destination">>, <<"destination", "startDate">>,
             <<"startDate", "startDate">>, <<"startDate", "endDate">>}]
=============================================================================
