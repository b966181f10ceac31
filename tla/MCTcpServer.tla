----------------------------- MODULE MCTcpServer -----------------------------
(***************************************************************************)
(* TcpServer with a client that speaks HTTP and one that does not.         *)
(***************************************************************************)
EXTENDS TcpServer

CONSTANTS browser, stranger

MCPeers == {browser, stranger}
MCHttpPeers == {browser}
=============================================================================
