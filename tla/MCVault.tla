-------------------------------- MODULE MCVault --------------------------------
(* Secrets, endpoints and passwords are interchangeable. *)
EXTENDS Vault, TLC

Symmetry == Permutations(Ids) \cup Permutations(Endpoints) \cup Permutations(Passwords)

================================================================================
