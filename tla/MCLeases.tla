------------------------------ MODULE MCLeases ------------------------------
\* The instance of Leases that TLC checks: three tokens compete for two
\* accounts, one of them with room for two leases.
EXTENDS Leases, TLC

CONSTANTS a1, a2

MCMaxLimit == (a1 :> 1) @@ (a2 :> 2)

Symmetry == Permutations(Token)
=============================================================================
