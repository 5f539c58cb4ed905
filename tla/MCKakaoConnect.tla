--------------------------- MODULE MCKakaoConnect ---------------------------
(***************************************************************************)
(* Small instances of KakaoConnect for TLC.                                *)
(***************************************************************************)
EXTENDS KakaoConnect

CONSTANTS s1, s2
=============================================================================
