------------------------------ MODULE MCGateway ------------------------------
\* The instances of Gateway that TLC checks.
EXTENDS Gateway, TLC

MCToken == Request \X (1 .. MaxAttempts)

\* One lease per account: two requests compete for an account.
SingleLimit == [a \in Account |-> 1]

\* All the requests belong to one session, or none does.
OneSession == [r \in Request |-> CHOOSE s \in Session : TRUE]
Sessionless == [r \in Request |-> NoSession]

Symmetry == Permutations(Request)
=============================================================================
