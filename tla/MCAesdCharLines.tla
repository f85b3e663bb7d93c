-------------------------- MODULE MCAesdCharLines --------------------------
(***************************************************************************)
(* Instances of AesdCharLines for TLC.                                     *)
(***************************************************************************)
EXTENDS AesdCharLines, MCAesdChar
=============================================================================
