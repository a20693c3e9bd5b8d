-------------------------- MODULE MCSignaturePools --------------------------
(* Instances of SignaturePools for TLC: two votes of successive slots. *)
EXTENDS SignaturePools, TLC

MCSlotOf == <<1, 2>> @@ (0 :> 0)
MCTargetSlot == <<1, 2>>
MCSource == <<0, 0>>
=============================================================================
