---------------------------- MODULE MCPeerLink ----------------------------
(* Small instances of PeerLink: a peer that hosts two adapters and keeps a  *)
(* connection for each of them; every connection routes to both.            *)
EXTENDS PeerLink, TLC

CONSTANTS adA, adB, ca, cb, wb

TwoAdapters == <<adA, adB>>
TwoConns    == ca :> adA @@ cb :> adB
OneWaiter   == wb :> adB
=============================================================================
