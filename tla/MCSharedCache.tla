---------------------------- MODULE MCSharedCache ----------------------------
(* Small instances of SharedCache. *)
EXTENDS SharedCache, TLC

ReaderSymmetry == Permutations(Readers)

=============================================================================
