-------------------------- MODULE MCProfileService --------------------------
(* One request of which everything is seen, and one that gets in its way.  *)
EXTENDS ProfileService

OneVerifier == {"firebase"}
=============================================================================
