-------------------------- MODULE MCSecretService --------------------------
(* One collection found at the start with an item in it, and one that may be *)
(* created; two prompts, one of which may open both.                        *)
EXTENDS SecretService, TLC

CONSTANTS c1, c2, i1, i2, s1

MCStored == [c \in {c1} |-> {i1}]
=============================================================================
