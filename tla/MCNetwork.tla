------------------------------ MODULE MCNetwork ------------------------------
(* Instances of Network for TLC; see the MCNetwork_*.cfg files.            *)
EXTENDS Network

CONSTANTS c1, c2
OneWay == {<<c1, c2>>}
=============================================================================
