---------------------------- MODULE MCConfigFile ----------------------------
(* Processes that use one config file and one keyring. *)
EXTENDS ConfigFile, TLC

Symmetry == Permutations(Processes) \cup Permutations(Secrets)
=============================================================================
