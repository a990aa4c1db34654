------------------------ MODULE MCProviderCredential ------------------------
(***************************************************************************)
(* Two requests of the admin application and one worker on the credential  *)
(* of one user.                                                            *)
(***************************************************************************)
EXTENDS ProviderCredential
=============================================================================
