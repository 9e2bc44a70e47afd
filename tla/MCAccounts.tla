------------------------------ MODULE MCAccounts ------------------------------
EXTENDS Accounts, TLC

CONSTANTS u1, u2, u3, t2, k1, k2

(* What is asked for together, on a deployment with or without WebAuthn,   *)
(* the role of the other member, and the passkeys both have at the start.  *)
MCLoads ==
    {[ops |-> {"login", "reset"}, users |-> {u1, u2}, webauthn |-> TRUE, roles |-> {"none"}, owns |-> {}, keys |-> <<{k1}, {}>>, tokens |-> 6],
     [ops |-> {"login", "reset"}, users |-> {u1, u2}, webauthn |-> FALSE, roles |-> {"none"}, owns |-> {}, keys |-> <<{}, {}>>, tokens |-> 6],
     [ops |-> {"login", "passkeys"}, users |-> {u1, u2}, webauthn |-> TRUE, roles |-> {"none"}, owns |-> {}, keys |-> <<{k1}, {}>>, tokens |-> 4],
     [ops |-> {"passkeys"}, users |-> {u1, u2}, webauthn |-> TRUE, roles |-> {"admin"}, owns |-> {t2}, keys |-> <<{k1}, {k2}>>, tokens |-> 3],
     [ops |-> {"signup", "invites"}, users |-> {u1, u2, u3}, webauthn |-> TRUE, roles |-> {"admin"}, owns |-> {t2}, keys |-> <<{k1}, {}>>, tokens |-> 5],
     [ops |-> {"members"}, users |-> {u1, u2}, webauthn |-> TRUE, roles |-> Roles, owns |-> {t2}, keys |-> <<{}, {}>>, tokens |-> 2],
     [ops |-> {"members", "invites"}, users |-> {u1, u2}, webauthn |-> FALSE, roles |-> {"admin"}, owns |-> {t2}, keys |-> <<{}, {}>>, tokens |-> 3],
     [ops |-> {"login", "members"}, users |-> {u1, u2}, webauthn |-> TRUE, roles |-> {"approver"}, owns |-> {}, keys |-> <<{}, {k2}>>, tokens |-> 4]}

Symmetry == Permutations(Callers)
===============================================================================
