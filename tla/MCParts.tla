------------------------------- MODULE MCParts -------------------------------
(***************************************************************************)
(* TLC's instance of Parts: one part moves in a behaviour, as they have no  *)
(* state in common, and those that do not move start in one way only.       *)
(***************************************************************************)
EXTENDS Parts

MCGroups == {{"importer"}, {"wallet"}, {"sync"}, {"memory"}, {"device"}}

Resting ==
  /\ "sync" \notin running => ~build /\ \A c \in Clients : client[c].version = Version
  /\ "wallet" \notin running => password = <<>> /\ file.kind = "absent"

MCInit == PartsInit /\ Resting

MCSpec == MCInit /\ [][PartsNext]_partsVars /\ PartsFairness

-----------------------------------------------------------------------------
Entry(k, t) == [key |-> k, kind |-> t]
Folder(f, es) == [name |-> f, entries |-> es]

\* The first file has two entries of one kind in a folder, an empty folder, and
\* an import behind it that is out of date; the second has a password; the
\* third is a stub beside a collection that says it is up to date.
MCOrder == <<"w1", "w2", "w3">>
MCContent ==
  [w \in Wallets |->
     CASE w = "w1" -> <<Folder("f", <<Entry("a", "pw"), Entry("b", "pw")>>), Folder("g", <<Entry("a", "map")>>), Folder("h", <<>>)>>
       [] w = "w2" -> <<Folder("f", <<Entry("b", "pw")>>)>>
       [] w = "w3" -> <<Folder("f", <<>>)>>]
MCProtection ==
  [w \in Wallets |-> CASE w = "w1" -> "none" [] w = "w2" -> "password" [] w = "w3" -> "stub"]
MCMarker ==
  [w \in Wallets |-> CASE w = "w1" -> "stale" [] w = "w2" -> "absent" [] w = "w3" -> "fresh"]
MCOneOrder == <<"w1">>
MCNoMarker == [w \in Wallets |-> "absent"]

\* With blocks of one character, two passwords only differ after the fourth.
MCPasswords == {<<>>, <<1, 1, 1, 1, 1>>, <<1, 1, 1, 1, 2>>}

\* A search for "a" finds the items that also have "b".
MCMatching == [x \in Attributes |-> {x, "ab"}]
=============================================================================
