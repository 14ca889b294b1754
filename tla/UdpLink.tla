------------------------------ MODULE UdpLink -------------------------------
(***************************************************************************)
(* The commands of UDP tunnels on the WebSocket.  The datagrams of a token *)
(* are numbered in each direction, and 0 is the empty datagram.            *)
(***************************************************************************)
EXTENDS WsLink

Connect(t, k) == [type |-> "CONNECT", token |-> t, kind |-> k]

Datagram(t, n) == [type |-> "SDSRV", token |-> t, chunk |-> n]
=============================================================================
