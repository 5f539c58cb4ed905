------------------------ MODULE MCReservationSandbox ------------------------
(***************************************************************************)
(* A small instance of ReservationSandbox for TLC.                         *)
(***************************************************************************)
EXTENDS ReservationSandbox

CONSTANTS complete, undated, blank
=============================================================================
