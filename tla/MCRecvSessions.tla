--------------------------- MODULE MCRecvSessions ---------------------------
(***************************************************************************)
(* Small instances of RecvSessions for TLC.                                *)
(***************************************************************************)
EXTENDS RecvDelivery, TLC

Symmetry == Permutations(Session) \cup Permutations(Client) \cup Permutations(File)
              \cup Permutations(Upload) \cup Permutations(Path)

=============================================================================
