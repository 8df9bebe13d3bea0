----------------------------- MODULE MCContacts -----------------------------
(* A few commands on one database, for TLC. *)
EXTENDS Contacts, TLC

\* Processes are interchangeable; fingerprints and aliases are not, as an alias
\* may spell a fingerprint.
ProcessSymmetry == Permutations(Process)
=============================================================================
