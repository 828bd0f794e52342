---------------------------- MODULE MCPerfRing ----------------------------
(* Instances of PerfRing for TLC.                                          *)
EXTENDS PerfRing

Ip(a) == [t |-> "ip", n |-> a]
Ctx == [t |-> "ctx", n |-> 0]

\* No chain at all, only a marker, and one marker before two addresses.
MCChains == {<<>>, <<Ctx>>, <<Ctx, Ip(3), Ip(0)>>}
=============================================================================
