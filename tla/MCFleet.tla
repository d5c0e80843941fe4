------------------------------ MODULE MCFleet ------------------------------
(* A small instance of Fleet for TLC.                                      *)
EXTENDS Fleet

CONSTANT host

(* All processes run on one host, and so share one row.                    *)
MCIdOf == [c \in Clients |-> host]
=============================================================================
