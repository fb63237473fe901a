--------------------------- MODULE MCCasperBridge ---------------------------
(* Small instances of CasperBridge for TLC.                                *)
EXTENDS CasperBridge
=============================================================================
