--------------------------- MODULE MCStreamBroker ---------------------------
(* Instances of StreamBroker for TLC: publishers and consumers are model values. *)
EXTENDS StreamBroker
=============================================================================
