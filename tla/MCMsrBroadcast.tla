--------------------------- MODULE MCMsrBroadcast ---------------------------
(* Small instance of MsrBroadcast: three cores, two MSRs, three values.    *)
EXTENDS MsrBroadcast
=============================================================================
