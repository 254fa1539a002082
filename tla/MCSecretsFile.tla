--------------------------- MODULE MCSecretsFile ---------------------------
(* Model values, symmetry and the state view for TLC's runs of SecretsFile. *)
EXTENDS SecretsFile, TLC

\* Processes are interchangeable, and so are the names nobody has seeded.
Symmetry == Permutations(Writers) \cup Permutations(Collections \ Seeded)

\* Every writer sets its store up read-write, so that it waits for the lock, and
\* finds the file when it looks for it.
LockingNext == Next /\ \A s \in Writers : ~readOnly'[s] /\ pc'[s] # "creat"

LockingSpec == Init /\ [][LockingNext]_vars

\* What an inode number stands for: its contents and who else refers to it. The
\* view forgets the numbers themselves and the contents of free inodes.
Look(i) ==
  IF i = NoInode THEN NoInode
  ELSE <<data[i], i = path, i = bkp,
         {s \in Stores : readFile[s] = i}, {s \in Stores : work[s] = i}>>

FileState ==
  <<Look(path), Look(bkp),
    [s \in Stores |-> <<Look(readFile[s]), Look(work[s])>>],
    flock, writeOpen, objVars, memVars, ctlVars>>

\* The same without bkp and acked: as long as there are free inodes no action
\* reads either, and CallsReturn does not.
\* LockExclusive reads nothing it leaves out. CatalogueCoherent also looks at the
\* contents of bkp, but what bkp names was written as a work file or named by the
\* path before, unchanged, in a state that the view tells apart.
LookForCalls(i) ==
  IF i = NoInode THEN NoInode
  ELSE <<data[i], i = path,
         {s \in Stores : readFile[s] = i}, {s \in Stores : work[s] = i}>>

CallState ==
  <<LookForCalls(path),
    [s \in Stores |-> <<LookForCalls(readFile[s]), LookForCalls(work[s])>>],
    flock, writeOpen, objVars, memVars, pc, stage, want, creates>>

=============================================================================
