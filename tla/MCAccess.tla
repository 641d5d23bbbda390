------------------------------ MODULE MCAccess ------------------------------
(* An instance of Access for TLC: people, organizations and requests are      *)
(* interchangeable.                                                           *)
EXTENDS Access, TLC

Symmetry == Permutations(Emails) \cup Permutations(Orgs) \cup Permutations(Clients)
=============================================================================
