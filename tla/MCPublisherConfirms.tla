------------------------ MODULE MCPublisherConfirms ------------------------
(***************************************************************************)
(* Instances of PublisherConfirms for TLC.                                 *)
(***************************************************************************)
EXTENDS PublisherConfirms
=============================================================================
