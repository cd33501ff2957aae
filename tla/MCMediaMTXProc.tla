--------------------------- MODULE MCMediaMTXProc ---------------------------
(* Three identifiers: the process terminate saw, the one cmd records and a *)
(* new one.                                                                *)
EXTENDS MediaMTXProc
=============================================================================
