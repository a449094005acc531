--------------------------- MODULE MCServerHandler ---------------------------
EXTENDS ServerHandler

(* Parsed port sections: an RPC port with credentials and a limit of two, *)
(* a TLS port for peers and secure websockets, a peer-only port, and one  *)
(* with port 0.                                                           *)
RpcPort == [ip |-> TRUE, pnum |-> "ok", protocol |-> {"http", "ws"}, limit |-> 2, creds |-> TRUE]
PeerWsPort == [ip |-> TRUE, pnum |-> "ok", protocol |-> {"peer", "wss"}, limit |-> 0, creds |-> FALSE]
PeerPort == [ip |-> TRUE, pnum |-> "ok", protocol |-> {"peer"}, limit |-> 0, creds |-> FALSE]
ZeroPort == [RpcPort EXCEPT !.pnum = "zero"]

MCConfigs == {
    [server |-> TRUE, sections |-> <<RpcPort, PeerWsPort>>],
    [server |-> TRUE, sections |-> <<PeerPort, PeerPort, RpcPort>>],
    [server |-> TRUE, sections |-> <<RpcPort, Missing>>],
    [server |-> TRUE, sections |-> <<ZeroPort>>],
    [server |-> FALSE, sections |-> <<>>]}

MCHeaders == {"absent", "notBasic", "noColon", "wrong", "valid"}
=============================================================================
