----------------------------- MODULE MCP2PSnep -----------------------------
(* P2PSnep with frames of two bytes: no message, one that fits and one of    *)
(* three fragments, while the peer's fit or take three; its message of       *)
(* eighteen fragments meets a host that has none.                            *)
EXTENDS P2PSnep

SomeTraffic == {0, 2, 5} \X {1, 3} \cup {<<0, 18>>, <<5, 16>>}
=============================================================================
