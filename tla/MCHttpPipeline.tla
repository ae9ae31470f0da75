--------------------------- MODULE MCHttpPipeline ---------------------------
(* Two hosts; u1 and u3 are on the same one.                               *)
EXTENDS HttpPipeline, TLC

CONSTANTS u1, u2, u3, h1, h2

OneEach == (u1 :> h1) @@ (u2 :> h2)
SameHost == (u1 :> h1) @@ (u3 :> h1)
TwoThenOne == <<u1, u1, u2>>
TwoLocal == <<u1, u3>>
=============================================================================
