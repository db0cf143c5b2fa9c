----------------------------- MODULE MCConnector -----------------------------
(* Small instances of Connector for TLC. *)
EXTENDS Connector

\* Every auth type, with sessions, proxied requests or both in use.
AllDeployments ==
    [auth : AuthTypes, routes : (SUBSET {"session", "proxy"}) \ {{}}]

\* Tokens fetched per call behind the MCP proxy: the breaker is taken twice.
TwiceDeployments == {[auth |-> "token_exchange", routes |-> {"proxy"}]}
=============================================================================
