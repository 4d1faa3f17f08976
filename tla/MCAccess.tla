------------------------------ MODULE MCAccess ------------------------------
(* Instances of Access for TLC; see the MCAccess_*.cfg files.              *)
EXTENDS Access

CONSTANTS w1, w2
OneOrTwo == {{w1}, {w1, w2}}
TwoLists == {<<"inviter-role">>, <<"reader-role", "inviter-role">>}
=============================================================================
