------------------------------ MODULE MCAgpsNif ------------------------------
(* Instances of AgpsNif: two connection handles and two daemons' addresses *)
(* for an ATL machine, the two WIFI requesters of the daemon protocol      *)
(* (MSAPM and QUIPC).                                                      *)
EXTENDS AgpsNif

Handles == {1, 2}
Addresses == {3, 4}
Clients == Handles \cup Addresses
Senders == {"MSAPM", "QUIPC"}
=============================================================================
