----------------------------- MODULE MCInformer -----------------------------
(***************************************************************************)
(* Instances of Informer for TLC; see the MCInformer_*.cfg files.          *)
(***************************************************************************)
EXTENDS Informer

=============================================================================
