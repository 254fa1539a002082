----------------------------- MODULE Catalogue -----------------------------
(***************************************************************************)
(* What the secrets file promises its clients, without any file: a list of *)
(* collections that grows by one whole collection at a time, and readers   *)
(* that see the list as it was at one moment.                              *)
(***************************************************************************)
CONSTANTS
  Collections,   \* names that may be created
  Seeded,        \* names listed at the start
  Readers        \* processes that only read

VARIABLES
  listed,        \* the collections created so far
  view           \* what each reader has read, {} before it reads

catalogueVars == <<listed, view>>

CatalogueInit ==
  /\ listed = Seeded
  /\ view = [r \in Readers |-> {}]

Commit(c) ==
  /\ c \notin listed
  /\ listed' = listed \cup {c}
  /\ UNCHANGED view

Snapshot(r) ==
  /\ view' = [view EXCEPT ![r] = listed]
  /\ UNCHANGED listed

Close(r) ==
  /\ view' = [view EXCEPT ![r] = {}]
  /\ UNCHANGED listed

CatalogueNext ==
  \/ \E c \in Collections : Commit(c)
  \/ \E r \in Readers : Snapshot(r) \/ Close(r)

CatalogueSpec == CatalogueInit /\ [][CatalogueNext]_catalogueVars

=============================================================================
