---------------------------- MODULE MCRateLimiter ----------------------------
(* RateLimiter for TLC: three connections of one client. *)
EXTENDS RateLimiter

CONSTANT TheIp
MCIp     == {TheIp}
MCPeerIp == [c \in Conn |-> TheIp]
=============================================================================
