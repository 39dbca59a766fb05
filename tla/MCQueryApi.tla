------------------------------- MODULE MCQueryApi ------------------------------
(* Instances of StreamView (and of QueryApi within it) for TLC.            *)
EXTENDS StreamView
===============================================================================
