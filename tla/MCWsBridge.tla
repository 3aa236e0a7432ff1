----------------------------- MODULE MCWsBridge -----------------------------
(***************************************************************************)
(* WsBridge with three counters and up to three messages in each           *)
(* direction.                                                              *)
(***************************************************************************)
EXTENDS WsBridge
=============================================================================
