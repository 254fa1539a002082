--------------------------- MODULE ConnectionQueue ---------------------------
(***************************************************************************)
(* What the synchronization server promises those who connect: they are     *)
(* served one at a time, in the order they came, and each of them once.     *)
(* SyncServer implements it.                                                *)
(***************************************************************************)
EXTENDS Sequences, SequencesExt

CONSTANTS Clients, None

VARIABLES
  waiting,  \* those who have connected, in the order they came
  serving,  \* whose session is under way, or None
  over      \* those whose session has ended

queueVars == <<waiting, serving, over>>

Init == waiting = <<>> /\ serving = None /\ over = {}

Arrive(c) ==
  /\ c \notin ToSet(waiting) \cup {serving} \cup over
  /\ waiting' = Append(waiting, c)
  /\ UNCHANGED <<serving, over>>

Begin ==
  /\ serving = None /\ waiting # <<>>
  /\ serving' = Head(waiting)
  /\ waiting' = Tail(waiting)
  /\ UNCHANGED over

End ==
  /\ serving # None
  /\ over' = over \cup {serving}
  /\ serving' = None
  /\ UNCHANGED waiting

Next == (\E c \in Clients : Arrive(c)) \/ Begin \/ End

Spec == Init /\ [][Next]_queueVars
=============================================================================
