---------------------------- MODULE MCStoreKeys ----------------------------
(* Symmetry for TLC's runs of StoreKeys. *)
EXTENDS StoreKeys, TLC

\* Client processes are interchangeable, and so are passwords.
Symmetry == Permutations(Clients) \cup Permutations(Passwords)

=============================================================================
