--------------------------- MODULE MCRateLimiter ---------------------------
(***************************************************************************)
(* RateLimiter with interchangeable peers and requests.                    *)
(***************************************************************************)
EXTENDS RateLimiter, TLC

Symmetry == Permutations(Client) \cup Permutations(Request)
=============================================================================
