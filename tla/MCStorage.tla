------------------------------- MODULE MCStorage -------------------------------
(* Instances of Storage: two outputs, of which only the small one fits under the   *)
(* cap.                                                                            *)
EXTENDS Storage, TLC

CONSTANTS big, mid

Sizes == (big :> 2) @@ (mid :> 1)

================================================================================
