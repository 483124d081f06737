-------------------------- MODULE MCProviderStartup --------------------------
(* Small instances of ProviderStartup. *)
EXTENDS ProviderStartup, TLC

Symmetry == Permutations(Callers \cap Savers) \cup Permutations(Callers \ Savers) \cup Permutations(Logins)

=============================================================================
