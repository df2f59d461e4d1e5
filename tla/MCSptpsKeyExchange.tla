------------------------- MODULE MCSptpsKeyExchange -------------------------
(* Instances of SptpsKeyExchange for TLC.                                  *)
EXTENDS SptpsKeyExchange
=============================================================================
