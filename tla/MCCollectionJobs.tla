------------------------- MODULE MCCollectionJobs -------------------------
(* Symmetry and a start for TLC's runs of CollectionJobs. *)
EXTENDS CollectionJobs, TLC

\* Item ids, attribute maps, secrets and clients are interchangeable.
Symmetry ==
  Permutations(Ids) \cup Permutations(Attributes) \cup Permutations(Secrets)
    \cup Permutations(Clients)

\* No action reads result.
JobState == <<collVars, job>>

\* The daemon has just started: a collection with one item was created and saved
\* before that, and createFromFile has found it.
RestartedInit ==
  /\ \E i \in Ids, item \in Items, w \in Passwords :
       file = [NoFile EXCEPT !.present = TRUE, !.password = w, !.items[i] = item]
  /\ alive = TRUE
  /\ locked = TRUE
  /\ dirty = FALSE
  /\ timer = FALSE
  /\ key = DefaultPassword
  /\ mem = Nothing
  /\ wired = {}
  /\ hash = {}
  /\ stale = FALSE
  /\ acl = {}
  /\ job = [c \in Clients |-> "none"]
  /\ result = [c \in Clients |-> "none"]

RestartedSpec == RestartedInit /\ [][Next]_vars

=============================================================================
