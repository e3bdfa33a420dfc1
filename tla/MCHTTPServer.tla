---------------------------- MODULE MCHTTPServer ----------------------------
(* Instances of HTTPServer for TLC: three connections, every failure.      *)
EXTENDS HTTPServer

CONSTANTS c1, c2, c3

MCConns == {c1, c2, c3}

MCAllFailures == Failures
=============================================================================
