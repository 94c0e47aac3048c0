--------------------------- MODULE MCRateLimiter ---------------------------
\* A small instance of RateLimiter: two workers on one route and one on another.
EXTENDS RateLimiter, TLC

CONSTANTS w1, w2, w3, r1, r2

MCRouteOf == (w1 :> r1) @@ (w2 :> r1) @@ (w3 :> r2)
Symmetry == Permutations({w1, w2})

=============================================================================
