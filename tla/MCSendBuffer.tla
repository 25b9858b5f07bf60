----------------------------- MODULE MCSendBuffer -----------------------------
(* SendBuffer with messages of one, two and one units. *)
EXTENDS SendBuffer, TLC

MCBytes == 0 :> 0 @@ 1 :> 1 @@ 2 :> 3 @@ 3 :> 4
=============================================================================
