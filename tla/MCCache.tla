------------------------------ MODULE MCCache -------------------------------
(* One set of two ways; each of the two lines may be refilled into either. *)
EXTENDS Cache
CONSTANTS r1, r2, r3, t1, t2

MCIndex == (t1 :> 0) @@ (t2 :> 0)
=============================================================================
