----------------------------- MODULE MCRequests -----------------------------
EXTENDS Requests, TLC

\* Requests are told apart by nothing but what they carry.
Symmetric == Permutations(Request)
============================================================================
