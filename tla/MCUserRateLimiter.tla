-------------------------- MODULE MCUserRateLimiter --------------------------
\* Two requests of one user race each other and cleanup, beside another's.
EXTENDS UserRateLimiter, TLC

CONSTANTS r1, r2, r3, u1, u2

MCUserID == (r1 :> u1) @@ (r2 :> u1) @@ (r3 :> u2)

=============================================================================
