------------------------------ MODULE MCCapTable -------------------------------
(***************************************************************************)
(* The capability table with two processes, two operations and room for    *)
(* three capabilities of the four tokens drawn: a capability, a derived    *)
(* one and one derived from that, and an insertion into the full table.    *)
(***************************************************************************)
EXTENDS CapTable

================================================================================
