------------------------- MODULE MCRequestPipeline -------------------------
(* Every kind of request, with every verifier the router can be built with. *)
EXTENDS RequestPipeline

EveryVerifier == {"nil", "offline", "firebase"}
Statuses == {200, 204, 404, 503}
=============================================================================
