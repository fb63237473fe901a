--------------------------- MODULE MCCasperDialog ---------------------------
(* Instances of CasperDialog for TLC.                                      *)
EXTENDS CasperDialog
=============================================================================
