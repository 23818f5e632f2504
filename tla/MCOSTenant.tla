------------------------------ MODULE MCOSTenant ------------------------------
(* Instances of OSTenant for TLC.                                            *)
EXTENDS OSTenant

\* Every revision has an image version of its own.
OwnVersion == [r \in Revisions |-> r]
=============================================================================
