----------------------------- MODULE MCTcpClient -----------------------------
(***************************************************************************)
(* Two sockets over two slots and two connections: on the first the remote *)
(* host only closes, on the second, which may get the slot of the first,   *)
(* it sends three units, one more than the window and rx_buf hold.         *)
(***************************************************************************)
EXTENDS TcpClient

MCUnits(p) == IF p = 1 THEN 0 ELSE 3
=============================================================================
