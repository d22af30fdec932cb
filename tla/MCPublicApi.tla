---------------------------- MODULE MCPublicApi ----------------------------
(* A small instance of PublicApi.  Ids, names and requests are alike. *)
EXTENDS PublicApi, TLC

Alike == Permutations(Id) \cup Permutations(Name) \cup Permutations(Request)
=============================================================================
