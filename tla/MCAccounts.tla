----------------------------- MODULE MCAccounts -----------------------------
EXTENDS Accounts, TLC

\* Which handler, identity or privilege is which makes no difference.
Symmetry == Permutations(Handlers) \cup Permutations(Sids) \cup Permutations(Privs)

=============================================================================
