---------------------------- MODULE MCHttpServer ----------------------------
(* HttpServer for TLC.  Three Connection objects give two live connections  *)
(* next to the one being accepted; the liveness runs use two.               *)
EXTENDS HttpServer, TLC

Symmetry == Permutations(Conns)
=============================================================================
