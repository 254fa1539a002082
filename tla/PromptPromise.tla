--------------------------- MODULE PromptPromise ---------------------------
(***************************************************************************)
(* What a prompt promises the client that asked for it: it is shown or      *)
(* dismissed, not both and not twice; a dismissed one says so, with nothing *)
(* done; a shown one answers when no dialog of it waits any more, and names *)
(* nothing it was not made for. Only a prompt to create may answer while it *)
(* still waits, that it has nothing, and then says so once more.            *)
(* SecretService implements it.                                             *)
(***************************************************************************)
EXTENDS Sequences

CONSTANTS
  Names,     \* of the prompts
  Subjects   \* what a prompt may be about

VARIABLE promises  \* promises[p]: what prompt p is about, where it stands, what it told

Fresh(about, creates) == [about |-> about, creates |-> creates, state |-> "made", told |-> <<>>]

Says(dismissed, done) == [dismissed |-> dismissed, paths |-> done]

Init == promises = <<>>

\* What a prompt to create is about has yet to be.
Make(p, about, creates) ==
  /\ p \notin DOMAIN promises
  /\ creates => about = {}
  /\ promises' = [q \in DOMAIN promises \cup {p} |-> IF q = p THEN Fresh(about, creates) ELSE promises[q]]

Become(p, about, state, told) ==
  promises' = [promises EXCEPT ![p] = [about |-> about, creates |-> @.creates, state |-> state, told |-> told]]

Show(p) ==
  /\ promises[p].state = "made"
  /\ Become(p, promises[p].about, "waits", <<>>)

Dismiss(p) ==
  /\ promises[p].state = "made"
  /\ Become(p, promises[p].about, "over", <<Says(TRUE, {})>>)

Create(p, c) ==
  /\ promises[p].creates /\ promises[p].state = "waits" /\ promises[p].about = {}
  /\ Become(p, {c}, "waits", promises[p].told)

\* At once when it is shown, if there is nothing to ask for.
Answer(p, done) ==
  /\ promises[p].state # "over" /\ promises[p].told = <<>>
  /\ Become(p, promises[p].about, "over", <<Says(FALSE, done)>>)

Admit(p) ==
  /\ promises[p].creates /\ promises[p].state = "waits" /\ promises[p].told = <<>>
  /\ Become(p, promises[p].about, "waits", <<Says(FALSE, {})>>)

Repeat(p) ==
  /\ promises[p].creates /\ promises[p].state = "waits" /\ promises[p].told # <<>>
  /\ Become(p, promises[p].about, "over", Append(promises[p].told, Says(FALSE, {})))

Next ==
  \/ \E p \in Names, about \in SUBSET Subjects, creates \in BOOLEAN : Make(p, about, creates)
  \/ \E p \in DOMAIN promises :
       \/ Show(p) \/ Dismiss(p) \/ Admit(p) \/ Repeat(p)
       \/ \E c \in Subjects : Create(p, c)
       \/ \E done \in SUBSET promises[p].about : Answer(p, done)

Spec == Init /\ [][Next]_promises
=============================================================================
