------------------------ MODULE SecretServiceProofs ------------------------
(***************************************************************************)
(* What TLAPS proves of SecretService: for any collections, items, sessions *)
(* and bounds, each invariant the run checks on two collections, and        *)
(* that the prompts keep what PromptPromise says of them.                   *)
(*                                                                         *)
(* The inductive invariant has four parts: the types; what the jobs of a    *)
(* prompt have to do with its completions (AskInv); what a collection keeps *)
(* has to do with what clients see of it (BackInv); and who still has to    *)
(* report, or to watch, a collection (ListInv).                             *)
(***************************************************************************)
EXTENDS SecretService, TLAPS

Collections == [here : {"none", "live", "gone"}, locked : BOOLEAN, items : SUBSET Items,
                file : SUBSET Items, wired : SUBSET Items, dead : SUBSET Items, rot : BOOLEAN, knows : BOOLEAN]

Answers == [dismissed : BOOLEAN, paths : SUBSET (Colls \cup {None})]

Prompts == [kind : Kinds, locked : BOOLEAN, prompted : BOOLEAN, dismissed : BOOLEAN,
            completed : Seq(Answers), shut : SUBSET Colls]

Jobs == [prompt : Nat, coll : Colls \cup {None}, stage : Stages, refused : BOOLEAN]

BackTypes ==
  /\ coll \in [Colls -> Collections]
  /\ listed \in [Colls -> SUBSET Items]
  /\ bus \in [Colls -> [Items -> {"none", "good", "stale"}]]
  /\ watched \in SUBSET Colls /\ master \in SUBSET Colls /\ paths \in SUBSET Colls
  /\ gone \in SUBSET Colls /\ lost \in SUBSET Colls
  /\ sessions \in SUBSET Sessions

AskTypes ==
  /\ prompts \in Seq(Prompts)
  /\ jobs \in Seq(Jobs)
  /\ boxes \in Seq(Nat)

-----------------------------------------------------------------------------
\* A job belongs to a prompt, waits until that is prompted, and knows its
\* collection unless it has yet to create it.
JobInv(j, js, ps) ==
  LET p == js[j].prompt
  IN /\ p \in DOMAIN ps
     /\ js[j].stage = "idle" <=> ~ps[p].prompted
     /\ js[j].stage = "ask" => ps[p].kind # "create"
     /\ js[j].stage = "box" => ps[p].kind # "unlock"
     /\ js[j].refused => ps[p].kind = "create" /\ js[j].stage \in {"box", "failed"}
     /\ ps[p].kind # "create" \/ js[j].stage \in {"acl", "ok"} => js[j].coll \in Colls

\* A prompt that is not one to unlock has one job.
SingleJobs(js, ps) ==
  \A j, k \in DOMAIN js :
    js[j].prompt = js[k].prompt /\ ps[js[j].prompt].kind # "unlock" => j = k

\* CompletesOnce and NothingLeftBehind of one prompt.
PromptInv(p, js, ps) ==
  /\ ~ps[p].prompted => ps[p].completed = <<>>
  /\ Len(ps[p].completed) <= 1 \/ \E j \in JobsOf(p, js) : js[j].refused
  /\ ps[p].completed # <<>> => \A j \in JobsOf(p, js) : js[j].stage \in Final \/ js[j].refused

BoxInv(js, bs) ==
  /\ \A k \in DOMAIN bs : bs[k] \in DOMAIN js /\ js[bs[k]].stage = "box"
  /\ \A j \in DOMAIN js : js[j].stage = "box" => \E k \in DOMAIN bs : bs[k] = j
  /\ \A k, l \in DOMAIN bs : bs[k] = bs[l] => k = l

AskInv ==
  /\ \A j \in DOMAIN jobs : JobInv(j, jobs, prompts)
  /\ SingleJobs(jobs, prompts)
  /\ \A p \in DOMAIN prompts : PromptInv(p, jobs, prompts)
  /\ BoxInv(jobs, boxes)

\* What one collection holds, lists and shows on the bus.
CollInv(c) ==
  /\ coll[c].here # "live" => /\ coll[c].locked /\ coll[c].items = {} /\ coll[c].wired = {}
                              /\ coll[c].dead = {}
  /\ coll[c].wired \cup coll[c].dead \subseteq coll[c].items
  /\ coll[c].wired \cap coll[c].dead = {}
  /\ \A i \in Items : bus[c][i] = "good" => i \in coll[c].items
  /\ c \notin lost => /\ IF Open(c) THEN listed[c] = coll[c].items ELSE listed[c] = {}
                      /\ \A i \in listed[c] : bus[c][i] = "good"

\* The found collections come all together.
BackInv ==
  /\ \A c \in Colls : CollInv(c)
  /\ \A c, d \in Found : coll[c].here = "none" => coll[d].here = "none"

\* The create job of c waits for the answer to its ACL dialog.
Waits(j, c) == jobs[j].coll = c /\ jobs[j].stage = "acl" /\ Kind(j) = "create"

Pending(c) == \E j \in DOMAIN jobs : Waits(j, c)

\* A job that ended well left its collection open, unless it was shut since;
\* and so with what a prompt reported.
WellEnded(c, p) == c \in Colls /\ (Open(c) \/ c \in prompts[p].shut)

ReportInv ==
  /\ \A j \in DOMAIN jobs : jobs[j].stage = "ok" => WellEnded(jobs[j].coll, jobs[j].prompt)
  /\ \A p \in DOMAIN prompts : \A k \in DOMAIN prompts[p].completed :
       \A c \in prompts[p].completed[k].paths : WellEnded(c, p)

ListInv ==
  /\ master = paths
  /\ \A c \in Colls : Live(c) => c \in paths
  /\ \A c \in paths : Live(c) \/ c \in Found \/ Pending(c)
  /\ \A c \in Colls : Live(c) => c \in Found \/ c \in watched \/ Pending(c)

IInv == BackTypes /\ AskTypes /\ AskInv /\ BackInv /\ ReportInv /\ ListInv

-----------------------------------------------------------------------------
\* The provers' rules for sequences, in the form the proofs need: an element
\* has the type, and so has the sequence with an element replaced.
LEMMA SeqFacts ==
  ASSUME NEW S, NEW s \in Seq(S)
  PROVE  /\ Len(s) \in Nat /\ DOMAIN s = 1 .. Len(s)
         /\ \A i \in DOMAIN s : s[i] \in S
  OBVIOUS

LEMMA ExceptFacts ==
  ASSUME NEW S, NEW s \in Seq(S), NEW i \in DOMAIN s, NEW e \in S
  PROVE  /\ [s EXCEPT ![i] = e] \in Seq(S)
         /\ DOMAIN [s EXCEPT ![i] = e] = DOMAIN s
         /\ [s EXCEPT ![i] = e][i] = e
         /\ \A k \in DOMAIN s : k # i => [s EXCEPT ![i] = e][k] = s[k]
  OBVIOUS

\* Tell adds an answer to one prompt and changes nothing else.
LEMMA TellFacts ==
  ASSUME NEW ps \in Seq(Prompts), NEW p \in DOMAIN ps, NEW d \in BOOLEAN,
         NEW cs \in SUBSET (Colls \cup {None})
  PROVE  /\ Tell(ps, p, d, cs) \in Seq(Prompts)
         /\ DOMAIN Tell(ps, p, d, cs) = DOMAIN ps
         /\ \A q \in DOMAIN ps : q # p => Tell(ps, p, d, cs)[q] = ps[q]
         /\ Tell(ps, p, d, cs)[p].kind = ps[p].kind
         /\ Tell(ps, p, d, cs)[p].prompted = ps[p].prompted
         /\ Tell(ps, p, d, cs)[p].shut = ps[p].shut
         /\ Tell(ps, p, d, cs)[p].completed = Append(ps[p].completed, [dismissed |-> d, paths |-> cs])
<1> DEFINE a == [dismissed |-> d, paths |-> cs]
           e == [ps[p] EXCEPT !.completed = Append(@, a)]
<1>1. a \in Answers
  BY DEF Answers
<1>2. ps[p] \in Prompts /\ ps[p].completed \in Seq(Answers)
  <2>1. ps[p] \in Prompts
    BY SeqFacts
  <2> QED
    BY <2>1 DEF Prompts
<1>3. e \in Prompts /\ e.kind = ps[p].kind /\ e.prompted = ps[p].prompted /\ e.shut = ps[p].shut
      /\ e.completed = Append(ps[p].completed, a)
  <2> HIDE DEF a
  <2>1. Append(ps[p].completed, a) \in Seq(Answers)
    BY <1>1, <1>2
  <2> QED
    BY <1>2, <2>1 DEF Prompts
<1>4. Tell(ps, p, d, cs) = [ps EXCEPT ![p] = e]
  BY DEF Tell
<1> HIDE DEF e
<1>5. /\ [ps EXCEPT ![p] = e] \in Seq(Prompts)
      /\ DOMAIN [ps EXCEPT ![p] = e] = DOMAIN ps
      /\ [ps EXCEPT ![p] = e][p] = e
      /\ \A q \in DOMAIN ps : q # p => [ps EXCEPT ![p] = e][q] = ps[q]
  BY <1>3, ExceptFacts
<1> QED
  BY <1>3, <1>4, <1>5

\* One element more is one more, and not none; the others keep their place.
LEMMA AppendFacts ==
  ASSUME NEW S, NEW s \in Seq(S), NEW a \in S
  PROVE  /\ Append(s, a) \in Seq(S) /\ Append(s, a) # <<>>
         /\ s = <<>> => Len(Append(s, a)) = 1
         /\ DOMAIN Append(s, a) = 1 .. Len(s) + 1 /\ DOMAIN s = 1 .. Len(s) /\ Len(s) \in Nat
         /\ \A k \in DOMAIN s : Append(s, a)[k] = s[k]
         /\ Append(s, a)[Len(s) + 1] = a
  OBVIOUS

LEMMA ConcatFacts ==
  ASSUME NEW S, NEW s \in Seq(S), NEW t \in Seq(S)
  PROVE  /\ s \o t \in Seq(S) /\ DOMAIN (s \o t) = 1 .. Len(s) + Len(t)
         /\ \A i \in 1 .. Len(s) : (s \o t)[i] = s[i]
         /\ \A i \in Len(s) + 1 .. Len(s) + Len(t) : (s \o t)[i] = t[i - Len(s)]
  OBVIOUS

\* What Move does to the jobs, whatever it reports.
LEMMA MoveJobs ==
  ASSUME AskTypes, NEW j \in DOMAIN jobs, NEW s \in Stages
  PROVE  /\ [jobs EXCEPT ![j].stage = s] \in Seq(Jobs)
         /\ DOMAIN [jobs EXCEPT ![j].stage = s] = DOMAIN jobs
         /\ \A k \in DOMAIN jobs : k # j => [jobs EXCEPT ![j].stage = s][k] = jobs[k]
         /\ [jobs EXCEPT ![j].stage = s][j].stage = s
         /\ [jobs EXCEPT ![j].stage = s][j].prompt = jobs[j].prompt
         /\ [jobs EXCEPT ![j].stage = s][j].coll = jobs[j].coll
         /\ [jobs EXCEPT ![j].stage = s][j].refused = jobs[j].refused
<1> DEFINE e == [jobs[j] EXCEPT !.stage = s]
<1>1. jobs[j] \in Jobs
  BY SeqFacts DEF AskTypes
<1>2. e \in Jobs /\ e.stage = s /\ e.prompt = jobs[j].prompt /\ e.coll = jobs[j].coll
      /\ e.refused = jobs[j].refused
  BY <1>1 DEF Jobs
<1>3. [jobs EXCEPT ![j].stage = s] = [jobs EXCEPT ![j] = e]
  OBVIOUS
<1> HIDE DEF e
<1>4. /\ [jobs EXCEPT ![j] = e] \in Seq(Jobs)
      /\ DOMAIN [jobs EXCEPT ![j] = e] = DOMAIN jobs
      /\ [jobs EXCEPT ![j] = e][j] = e
      /\ \A k \in DOMAIN jobs : k # j => [jobs EXCEPT ![j] = e][k] = jobs[k]
  BY <1>2, ExceptFacts DEF AskTypes
<1> QED
  BY <1>2, <1>3, <1>4

\* The colls of jobs that ended well are collections or None.
LEMMA SucceededType ==
  ASSUME NEW js \in Seq(Jobs), NEW p
  PROVE  Succeeded(p, js) \in SUBSET (Colls \cup {None})
<1>1. \A j \in DOMAIN js : js[j] \in Jobs
  BY SeqFacts
<1> QED
  BY <1>1 DEF Succeeded, JobsOf, Jobs

\* A message box for a job that had none.
LEMMA OpenBox ==
  ASSUME NEW js, NEW bs \in Seq(Nat), BoxInv(js, bs),
         NEW ks, DOMAIN ks = DOMAIN js, NEW j \in DOMAIN js \cap Nat,
         \A k \in DOMAIN js : k # j => ks[k] = js[k],
         js[j].stage # "box", ks[j].stage = "box"
  PROVE  Append(bs, j) \in Seq(Nat) /\ BoxInv(ks, Append(bs, j))
<1>1. /\ Append(bs, j) \in Seq(Nat)
      /\ DOMAIN Append(bs, j) = 1 .. Len(bs) + 1 /\ DOMAIN bs = 1 .. Len(bs) /\ Len(bs) \in Nat
      /\ \A k \in DOMAIN bs : Append(bs, j)[k] = bs[k]
      /\ Append(bs, j)[Len(bs) + 1] = j
  BY AppendFacts
<1> DEFINE cs == Append(bs, j)
<1>2. /\ cs \in Seq(Nat) /\ DOMAIN cs = 1 .. Len(bs) + 1
      /\ \A k \in 1 .. Len(bs) : cs[k] = bs[k]
      /\ cs[Len(bs) + 1] = j
  BY <1>1
<1> HIDE DEF cs
<1>3. /\ \A k \in DOMAIN cs : k \in DOMAIN bs \/ k = Len(bs) + 1
      /\ Len(bs) + 1 \in DOMAIN cs
      /\ DOMAIN bs \subseteq DOMAIN cs
  BY <1>1, <1>2
<1>4. \A k \in DOMAIN bs : bs[k] # j
  BY DEF BoxInv
<1>5. \A k \in DOMAIN cs : cs[k] \in DOMAIN ks /\ ks[cs[k]].stage = "box"
  BY <1>1, <1>2, <1>3, <1>4 DEF BoxInv
<1>6. \A i \in DOMAIN ks : ks[i].stage = "box" => \E k \in DOMAIN cs : cs[k] = i
  BY <1>1, <1>2, <1>3, <1>4 DEF BoxInv
<1>7. \A k, l \in DOMAIN cs : cs[k] = cs[l] => k = l
  BY <1>1, <1>2, <1>3, <1>4 DEF BoxInv
<1>8. cs \in Seq(Nat) /\ BoxInv(ks, cs)
  BY <1>2, <1>5, <1>6, <1>7 DEF BoxInv
<1> QED
  BY <1>8 DEF cs

-----------------------------------------------------------------------------
\* What the steps of one job have in common: the others are left alone, and
\* no prompt changes but for an answer more.
Reported(q) ==
  \/ prompts'[q].completed = prompts[q].completed
  \/ \E a \in Answers : /\ prompts'[q].completed = Append(prompts[q].completed, a)
                       /\ a.paths \subseteq Succeeded(q, jobs')

PromptsKept ==
  /\ DOMAIN prompts' = DOMAIN prompts
  /\ \A q \in DOMAIN prompts : /\ prompts'[q].kind = prompts[q].kind
                               /\ prompts'[q].shut = prompts[q].shut
                               /\ Reported(q)

OthersKept(j) ==
  /\ DOMAIN jobs' = DOMAIN jobs
  /\ \A k \in DOMAIN jobs : k # j => jobs'[k] = jobs[k]
  /\ jobs'[j].prompt = jobs[j].prompt

\* A dialog of job j is answered: the job goes on, and when it was the last of
\* its prompt to end the prompt completes.
LEMMA MoveInv ==
  ASSUME AskTypes, AskInv, NEW j \in DOMAIN jobs, jobs[j].stage \in {"new", "ask", "acl"},
         NEW s \in {"new", "acl", "ok", "no", "failed"},
         s \in {"acl", "ok"} => jobs[j].coll \in Colls,
         Move(j, s)
  PROVE  /\ AskTypes' /\ AskInv' /\ PromptsKept /\ OthersKept(j)
         /\ jobs'[j].coll = jobs[j].coll
         /\ jobs'[j].stage = "ok" <=> s = "ok"
         /\ jobs'[j].stage = "acl" <=> s = "acl"
<1> DEFINE p == jobs[j].prompt
           shown == IF s = "failed" /\ prompts[p].kind # "unlock" THEN "box" ELSE s
           a == [dismissed |-> FALSE, paths |-> Succeeded(p, jobs')]
<1>1. /\ p \in DOMAIN prompts /\ prompts[p].prompted /\ ~jobs[j].refused
      /\ shown \in Stages \ {"idle", "ask"}
      /\ shown = "box" => prompts[p].kind # "unlock"
      /\ shown \in {"acl", "ok"} => jobs[j].coll \in Colls
      /\ shown \in Final <=> shown \in {"ok", "no", "failed"}
      /\ shown = "ok" <=> s = "ok"
      /\ shown = "acl" <=> s = "acl"
  BY DEF AskInv, JobInv, Stages, Final
<1>2. /\ jobs' \in Seq(Jobs) /\ DOMAIN jobs' = DOMAIN jobs
      /\ \A k \in DOMAIN jobs : k # j => jobs'[k] = jobs[k]
      /\ jobs'[j].stage = shown /\ jobs'[j].prompt = p
      /\ jobs'[j].coll = jobs[j].coll /\ jobs'[j].refused = jobs[j].refused
  BY <1>1, MoveJobs DEF Move
<1>3. /\ boxes' = IF shown = "box" THEN Append(boxes, j) ELSE boxes
      /\ prompts' = IF shown \in Final THEN Report(p, jobs') ELSE prompts
  BY DEF Move
<1> HIDE DEF shown
<1>4. prompts[p].completed = <<>>
  BY <1>1 DEF AskInv, PromptInv, JobsOf, Final
<1>5. \A k \in DOMAIN jobs : k # j => jobs[k].prompt # p \/ prompts[p].kind = "unlock"
  BY DEF AskInv, SingleJobs
<1>6. boxes' \in Seq(Nat) /\ BoxInv(jobs', boxes')
  <2>1. boxes \in Seq(Nat) /\ BoxInv(jobs, boxes) /\ j \in Nat
    BY SeqFacts DEF AskTypes, AskInv
  <2>2. CASE shown = "box"
    BY <1>2, <1>3, <2>1, <2>2, OpenBox
  <2>3. CASE shown # "box"
    BY <1>2, <1>3, <2>1, <2>3 DEF BoxInv
  <2> QED
    BY <2>2, <2>3
<1>7. /\ prompts' \in Seq(Prompts) /\ DOMAIN prompts' = DOMAIN prompts
      /\ \A q \in DOMAIN prompts : q # p => prompts'[q] = prompts[q]
      /\ prompts'[p].kind = prompts[p].kind /\ prompts'[p].prompted = prompts[p].prompted
      /\ prompts'[p].shut = prompts[p].shut
      /\ \/ prompts'[p].completed = <<>>
         \/ /\ AllResults(p, jobs') /\ Len(prompts'[p].completed) = 1 /\ prompts'[p].completed # <<>>
            /\ prompts'[p].completed = Append(prompts[p].completed, a)
  <2>1. CASE prompts' = prompts
    <3>1. prompts' \in Seq(Prompts)
      BY <2>1 DEF AskTypes
    <3>2. prompts'[p].completed = <<>>
      BY <1>4, <2>1
    <3> QED
      BY ONLY <2>1, <3>1, <3>2
  <2>2. CASE AllResults(p, jobs') /\ prompts' = Tell(prompts, p, FALSE, Succeeded(p, jobs'))
    <3>1. Succeeded(p, jobs') \in SUBSET (Colls \cup {None}) /\ prompts \in Seq(Prompts)
      BY <1>2, SucceededType DEF AskTypes
    <3>2. a \in Answers
      BY <3>1 DEF Answers
    <3>3. /\ prompts' \in Seq(Prompts) /\ DOMAIN prompts' = DOMAIN prompts
          /\ \A q \in DOMAIN prompts : q # p => prompts'[q] = prompts[q]
          /\ prompts'[p].kind = prompts[p].kind /\ prompts'[p].prompted = prompts[p].prompted
          /\ prompts'[p].shut = prompts[p].shut
          /\ prompts'[p].completed = Append(prompts[p].completed, a)
      <4> DEFINE X == Succeeded(p, jobs')
      <4>1. X \in SUBSET (Colls \cup {None}) /\ FALSE \in BOOLEAN /\ p \in DOMAIN prompts
        BY <1>1, <3>1
      <4>2. prompts' = Tell(prompts, p, FALSE, X)
        BY <2>2
      <4> HIDE DEF p, X
      <4>3. /\ Tell(prompts, p, FALSE, X) \in Seq(Prompts)
            /\ DOMAIN Tell(prompts, p, FALSE, X) = DOMAIN prompts
            /\ \A q \in DOMAIN prompts : q # p => Tell(prompts, p, FALSE, X)[q] = prompts[q]
            /\ Tell(prompts, p, FALSE, X)[p].kind = prompts[p].kind
            /\ Tell(prompts, p, FALSE, X)[p].prompted = prompts[p].prompted
            /\ Tell(prompts, p, FALSE, X)[p].shut = prompts[p].shut
            /\ Tell(prompts, p, FALSE, X)[p].completed = Append(prompts[p].completed, [dismissed |-> FALSE, paths |-> X])
        BY <3>1, <4>1, TellFacts
      <4> QED
        BY <4>2, <4>3 DEF X
    <3> HIDE DEF a
    <3>4. Len(prompts'[p].completed) = 1 /\ prompts'[p].completed # <<>>
      BY <1>4, <3>2, <3>3, AppendFacts
    <3> QED
      BY <2>2, <3>3, <3>4
  <2> QED
    BY <1>3, <2>1, <2>2 DEF Report
<1>8. a \in Answers /\ a.paths = Succeeded(p, jobs')
  BY <1>2, SucceededType DEF Answers
<1> HIDE DEF a
<1>9. \A k \in DOMAIN jobs : JobInv(k, jobs', prompts')
  <2> SUFFICES ASSUME NEW k \in DOMAIN jobs PROVE JobInv(k, jobs', prompts')
    OBVIOUS
  <2>1. JobInv(k, jobs, prompts)
    BY DEF AskInv
  <2>2. jobs[k].prompt \in DOMAIN prompts
    BY <2>1 DEF JobInv
  <2>3. /\ prompts'[jobs[k].prompt].kind = prompts[jobs[k].prompt].kind
        /\ prompts'[jobs[k].prompt].prompted = prompts[jobs[k].prompt].prompted
    BY <1>7, <2>2
  <2>4. CASE k = j
    BY <1>1, <1>2, <1>7, <2>1, <2>3, <2>4 DEF JobInv, Stages
  <2>5. CASE k # j
    BY <1>2, <1>7, <2>1, <2>2, <2>3, <2>5 DEF JobInv
  <2> QED
    BY <2>4, <2>5
<1>10. SingleJobs(jobs', prompts')
  <2>1. \A k \in DOMAIN jobs : jobs'[k].prompt = jobs[k].prompt /\ jobs[k].prompt \in DOMAIN prompts
    BY <1>2 DEF AskInv, JobInv
  <2>2. \A q \in DOMAIN prompts : prompts'[q].kind = prompts[q].kind
    BY <1>7
  <2> QED
    BY <1>2, <2>1, <2>2 DEF AskInv, SingleJobs
<1>11. \A q \in DOMAIN prompts : PromptInv(q, jobs', prompts')
  <2> SUFFICES ASSUME NEW q \in DOMAIN prompts PROVE PromptInv(q, jobs', prompts')
    OBVIOUS
  <2>1. PromptInv(q, jobs, prompts)
    BY DEF AskInv
  <2>2. CASE q # p
    <3>1. prompts'[q] = prompts[q]
      BY <1>7, <2>2
    <3>2. /\ \A k : k \in JobsOf(q, jobs') <=> k \in JobsOf(q, jobs)
          /\ \A k \in JobsOf(q, jobs) : jobs'[k] = jobs[k]
      BY <1>2, <2>2 DEF JobsOf
    <3> QED
      BY <2>1, <3>1, <3>2 DEF PromptInv
  <2>3. CASE q = p /\ prompts'[p].completed = <<>>
    BY <2>3 DEF PromptInv
  <2>4. CASE q = p /\ AllResults(p, jobs') /\ Len(prompts'[p].completed) = 1
    <3>1. \A k \in JobsOf(p, jobs') : jobs'[k].stage \in Final
      BY <2>4 DEF AllResults
    <3>2. prompts'[q].prompted /\ Len(prompts'[q].completed) = 1 
      BY <1>1, <1>7, <2>4
    <3>3. \A k \in JobsOf(q, jobs') : jobs'[k].stage \in Final
      BY <2>4, <3>1
    <3> QED
      BY <3>2, <3>3 DEF PromptInv
  <2> QED
    BY <1>7, <2>2, <2>3, <2>4
<1>12. PromptsKept /\ OthersKept(j)
  <2>1. \A q \in DOMAIN prompts : Reported(q)
    BY <1>4, <1>7, <1>8 DEF Reported
  <2> QED
    BY <1>2, <1>7, <2>1 DEF PromptsKept, OthersKept
<1>13. AskTypes' /\ AskInv'
  BY <1>2, <1>6, <1>7, <1>9, <1>10, <1>11 DEF AskTypes, AskInv
<1> QED
  BY <1>1, <1>2, <1>12, <1>13

-----------------------------------------------------------------------------
\* A prompt and its jobs are added behind the others.
Added(kind, cs) ==
  LET new == Len(prompts) + 1
  IN /\ DOMAIN prompts' = DOMAIN prompts \cup {new} /\ new \notin DOMAIN prompts
     /\ prompts'[new].kind = kind /\ ~prompts'[new].prompted /\ prompts'[new].completed = <<>>
     /\ \A j \in DOMAIN jobs' \ DOMAIN jobs :
          jobs'[j].prompt = new /\ \E k \in DOMAIN cs : jobs'[j].coll = cs[k]

LEMMA AskedInv ==
  ASSUME AskTypes, AskInv, NEW kind \in Kinds, NEW coldly \in BOOLEAN,
         NEW cs \in Seq(Colls \cup {None}), kind # "create" => cs \in Seq(Colls),
         kind # "unlock" => Len(cs) = 1,
         Ask(kind, coldly, cs)
  PROVE  /\ AskTypes' /\ AskInv'
         /\ DOMAIN prompts \subseteq DOMAIN prompts' /\ DOMAIN jobs \subseteq DOMAIN jobs'
         /\ \A p \in DOMAIN prompts : prompts'[p] = prompts[p]
         /\ \A p \in DOMAIN prompts' \ DOMAIN prompts : prompts'[p].completed = <<>>
         /\ \A j \in DOMAIN jobs : jobs'[j] = jobs[j]
         /\ \A j \in DOMAIN jobs' \ DOMAIN jobs : jobs'[j].stage = "idle"
         /\ Added(kind, cs)
<1> DEFINE n == Len(prompts)
           m == Len(jobs)
           new == [k \in DOMAIN cs |-> NewJob(n + 1, cs[k])]
<1>1. /\ n \in Nat /\ DOMAIN prompts = 1 .. n /\ m \in Nat /\ DOMAIN jobs = 1 .. m
      /\ Len(cs) \in Nat /\ DOMAIN cs = 1 .. Len(cs)
      /\ \A k \in DOMAIN cs : cs[k] \in Colls \cup {None}
      /\ kind # "create" => \A k \in DOMAIN cs : cs[k] \in Colls
  <2>1. n \in Nat /\ DOMAIN prompts = 1 .. n /\ m \in Nat /\ DOMAIN jobs = 1 .. m
    BY SeqFacts DEF AskTypes
  <2>2. /\ Len(cs) \in Nat /\ DOMAIN cs = 1 .. Len(cs)
        /\ \A k \in DOMAIN cs : cs[k] \in Colls \cup {None}
    BY SeqFacts
  <2>3. kind # "create" => \A k \in DOMAIN cs : cs[k] \in Colls
    BY SeqFacts
  <2> QED
    BY <2>1, <2>2, <2>3
<1>2. NewPrompt(kind, coldly) \in Prompts
  <2>1. <<>> \in Seq(Answers)
    OBVIOUS
  <2> QED
    BY <2>1 DEF NewPrompt, Prompts
<1>3. /\ prompts' \in Seq(Prompts) /\ DOMAIN prompts' = 1 .. n + 1
      /\ \A p \in 1 .. n : prompts'[p] = prompts[p]
      /\ prompts'[n + 1] = NewPrompt(kind, coldly)
  <2>1. prompts' = Append(prompts, NewPrompt(kind, coldly)) /\ prompts \in Seq(Prompts)
    BY DEF Ask, AskTypes
  <2> QED
    BY <1>1, <1>2, <2>1, AppendFacts
<1>4. \A k \in DOMAIN cs : NewJob(n + 1, cs[k]) \in Jobs
  BY <1>1 DEF NewJob, Jobs, Stages
<1>5. new \in Seq(Jobs) /\ Len(new) = Len(cs)
  BY <1>1, <1>4
<1>6. /\ jobs' \in Seq(Jobs) /\ DOMAIN jobs' = 1 .. m + Len(cs)
      /\ \A j \in 1 .. m : jobs'[j] = jobs[j]
      /\ \A j \in m + 1 .. m + Len(cs) : jobs'[j] = NewJob(n + 1, cs[j - m])
  <2>1. jobs' = jobs \o new /\ jobs \in Seq(Jobs)
    BY DEF Ask, AskTypes
  <2>2. \A k \in 1 .. Len(cs) : new[k] = NewJob(n + 1, cs[k])
    BY <1>1
  <2> HIDE DEF new
  <2>3. /\ jobs' \in Seq(Jobs) /\ DOMAIN jobs' = 1 .. m + Len(cs)
        /\ \A j \in 1 .. m : jobs'[j] = jobs[j]
        /\ \A j \in m + 1 .. m + Len(cs) : jobs'[j] = new[j - m]
    <3>1. /\ jobs \o new \in Seq(Jobs) /\ DOMAIN (jobs \o new) = 1 .. Len(jobs) + Len(new)
          /\ \A i \in 1 .. Len(jobs) : (jobs \o new)[i] = jobs[i]
          /\ \A i \in Len(jobs) + 1 .. Len(jobs) + Len(new) : (jobs \o new)[i] = new[i - Len(jobs)]
      BY <1>5, <2>1, ConcatFacts
    <3> QED
      BY <1>5, <2>1, <3>1
  <2>4. \A j \in m + 1 .. m + Len(cs) : j - m \in 1 .. Len(cs)
    BY <1>1
  <2> QED
    BY <2>2, <2>3, <2>4
<1>7. /\ DOMAIN prompts \subseteq DOMAIN prompts' /\ DOMAIN jobs \subseteq DOMAIN jobs'
      /\ \A p \in DOMAIN prompts' : p \in DOMAIN prompts \/ p = n + 1
      /\ n + 1 \in DOMAIN prompts' /\ n + 1 \notin DOMAIN prompts
      /\ \A j \in DOMAIN jobs' : j \in DOMAIN jobs \/ j \in m + 1 .. m + Len(cs)
      /\ \A j \in m + 1 .. m + Len(cs) : j \notin DOMAIN jobs /\ j - m \in DOMAIN cs
  BY <1>1, <1>3, <1>6
<1>8. /\ \A p \in DOMAIN prompts : prompts'[p] = prompts[p]
      /\ \A j \in DOMAIN jobs : jobs'[j] = jobs[j]
  BY <1>1, <1>3, <1>6
<1>9. \A j \in DOMAIN jobs' \ DOMAIN jobs :
        /\ jobs'[j].prompt = n + 1 /\ jobs'[j].stage = "idle" /\ ~jobs'[j].refused
        /\ kind # "create" => jobs'[j].coll \in Colls
        /\ \E k \in DOMAIN cs : jobs'[j].coll = cs[k]
  <2> SUFFICES ASSUME NEW j \in DOMAIN jobs' \ DOMAIN jobs
               PROVE  /\ jobs'[j].prompt = n + 1 /\ jobs'[j].stage = "idle" /\ ~jobs'[j].refused
                      /\ kind # "create" => jobs'[j].coll \in Colls
                      /\ \E k \in DOMAIN cs : jobs'[j].coll = cs[k]
    OBVIOUS
  <2>1. jobs'[j] = NewJob(n + 1, cs[j - m]) /\ j - m \in DOMAIN cs
    BY <1>6, <1>7
  <2>2. kind # "create" => cs[j - m] \in Colls
    BY <1>1, <2>1
  <2> QED
    BY <2>1, <2>2 DEF NewJob
<1>10. /\ prompts'[n + 1].kind = kind /\ ~prompts'[n + 1].prompted
       /\ prompts'[n + 1].completed = <<>>
  BY <1>3 DEF NewPrompt
<1> HIDE DEF n, m, new
<1>11. \A j \in DOMAIN jobs' : JobInv(j, jobs', prompts')
  <2>1. ASSUME NEW j \in DOMAIN jobs PROVE JobInv(j, jobs', prompts')
    <3>1. JobInv(j, jobs, prompts)
      BY DEF AskInv
    <3> QED
      BY <1>7, <1>8, <3>1 DEF JobInv
  <2>2. ASSUME NEW j \in DOMAIN jobs' \ DOMAIN jobs PROVE JobInv(j, jobs', prompts')
    BY <1>7, <1>9, <1>10 DEF JobInv
  <2> QED
    BY <2>1, <2>2
<1>12. SingleJobs(jobs', prompts')
  <2> SUFFICES ASSUME NEW j \in DOMAIN jobs', NEW k \in DOMAIN jobs',
                      jobs'[j].prompt = jobs'[k].prompt,
                      prompts'[jobs'[j].prompt].kind # "unlock"
               PROVE  j = k
    BY DEF SingleJobs
  <2>1. \A i \in DOMAIN jobs : jobs'[i].prompt \in DOMAIN prompts
    BY <1>8 DEF AskInv, JobInv
  <2>2. CASE j \in DOMAIN jobs
    <3>1. k \in DOMAIN jobs
      BY <1>7, <1>9, <2>1, <2>2
    <3> QED
      BY <1>8, <2>1, <2>2, <3>1 DEF AskInv, SingleJobs
  <2>3. CASE j \notin DOMAIN jobs
    <3>1. k \notin DOMAIN jobs /\ Len(cs) = 1
      BY <1>7, <1>9, <1>10, <2>1, <2>3
    <3> QED
      BY <1>1, <1>7, <2>3, <3>1
  <2> QED
    BY <2>2, <2>3
<1>13. \A p \in DOMAIN prompts' : PromptInv(p, jobs', prompts')
  <2>1. ASSUME NEW p \in DOMAIN prompts PROVE PromptInv(p, jobs', prompts')
    <3>1. PromptInv(p, jobs, prompts)
      BY DEF AskInv
    <3>2. /\ \A k : k \in JobsOf(p, jobs') <=> k \in JobsOf(p, jobs)
          /\ \A k \in JobsOf(p, jobs) : jobs'[k] = jobs[k]
      BY <1>7, <1>8, <1>9 DEF JobsOf
    <3> QED
      BY <1>8, <3>1, <3>2 DEF PromptInv
  <2>2. PromptInv(n + 1, jobs', prompts')
    BY <1>10 DEF PromptInv
  <2> QED
    BY <1>7, <2>1, <2>2
<1>14. BoxInv(jobs', boxes')
  <2>1. boxes' = boxes /\ BoxInv(jobs, boxes)
    BY DEF Ask, AskInv
  <2> QED
    BY <1>7, <1>8, <1>9, <2>1 DEF BoxInv
<1>15. AskTypes' /\ AskInv'
  BY <1>3, <1>6, <1>11, <1>12, <1>13, <1>14 DEF AskTypes, AskInv, Ask
<1>16. Added(kind, cs)
  BY <1>7, <1>9, <1>10 DEF Added, n
<1> QED
  BY <1>7, <1>8, <1>9, <1>10, <1>15, <1>16

-----------------------------------------------------------------------------
\* prompt() and dismiss(): the jobs of p leave their idle stage all at once.
LEMMA PromptedInv ==
  ASSUME AskTypes, AskInv, NEW p \in DOMAIN prompts, ~prompts[p].prompted,
         NEW f, UNCHANGED boxes,
         jobs' = [j \in DOMAIN jobs |-> IF jobs[j].prompt = p THEN [jobs[j] EXCEPT !.stage = f[j]]
                                                              ELSE jobs[j]],
         \A j \in JobsOf(p, jobs) : /\ f[j] \in {"new", "ask", "ok", "no"}
                                    /\ f[j] = "ask" => prompts[p].kind # "create"
                                    /\ f[j] = "ok" => jobs[j].coll \in Colls,
         prompts' \in Seq(Prompts), DOMAIN prompts' = DOMAIN prompts,
         \A q \in DOMAIN prompts : q # p => prompts'[q] = prompts[q],
         prompts'[p].kind = prompts[p].kind, prompts'[p].prompted,
         \/ prompts'[p].completed = <<>>
         \/ AllResults(p, jobs') /\ Len(prompts'[p].completed) = 1
  PROVE  /\ AskTypes' /\ AskInv' /\ DOMAIN jobs' = DOMAIN jobs
         /\ \A j \in DOMAIN jobs : j \notin JobsOf(p, jobs) => jobs'[j] = jobs[j]
         /\ \A j \in JobsOf(p, jobs) :
              /\ jobs[j].stage = "idle" /\ jobs'[j].stage = f[j]
              /\ jobs'[j].coll = jobs[j].coll /\ jobs'[j].prompt = p
<1>1. DOMAIN jobs' = DOMAIN jobs
  OBVIOUS
<1>2. \A j \in DOMAIN jobs : j \notin JobsOf(p, jobs) => jobs'[j] = jobs[j] /\ jobs[j].prompt # p
  BY DEF JobsOf
<1>3. ASSUME NEW j \in JobsOf(p, jobs)
      PROVE  /\ jobs[j].stage = "idle" /\ ~jobs[j].refused /\ jobs'[j] \in Jobs
             /\ jobs'[j].stage = f[j] /\ jobs'[j].coll = jobs[j].coll /\ jobs'[j].prompt = p
             /\ jobs'[j].refused = jobs[j].refused
  <2>1. j \in DOMAIN jobs /\ jobs[j].prompt = p /\ jobs[j] \in Jobs /\ JobInv(j, jobs, prompts)
    BY SeqFacts DEF JobsOf, AskTypes, AskInv
  <2>2. jobs'[j] = [jobs[j] EXCEPT !.stage = f[j]] /\ f[j] \in Stages
    BY <2>1 DEF Stages, Final
  <2> QED
    BY <2>1, <2>2 DEF Jobs, JobInv
<1>4. \A j \in JobsOf(p, jobs) : j \in DOMAIN jobs /\ jobs[j].prompt = p
  BY DEF JobsOf
<1>5. \A j \in DOMAIN jobs : jobs'[j].prompt = jobs[j].prompt /\ jobs[j].prompt \in DOMAIN prompts
  <2>1. \A j \in DOMAIN jobs : jobs[j].prompt \in DOMAIN prompts
    BY DEF AskInv, JobInv
  <2> QED
    BY <1>2, <1>3, <1>4, <2>1
<1>6. \A q \in DOMAIN prompts : prompts'[q].kind = prompts[q].kind
  OBVIOUS
<1>7. jobs' \in Seq(Jobs)
  <2>1. \A j \in DOMAIN jobs : jobs'[j] \in Jobs
    BY <1>2, <1>3, SeqFacts DEF AskTypes
  <2>2. Len(jobs) \in Nat /\ DOMAIN jobs = 1 .. Len(jobs)
    BY SeqFacts DEF AskTypes
  <2>3. jobs' = [j \in 1 .. Len(jobs) |-> jobs'[j]]
    BY <2>2
  <2> QED
    BY <2>1, <2>2, <2>3
<1>8. \A j \in DOMAIN jobs' : JobInv(j, jobs', prompts')
  <2> SUFFICES ASSUME NEW j \in DOMAIN jobs PROVE JobInv(j, jobs', prompts')
    BY <1>1
  <2>1. JobInv(j, jobs, prompts)
    BY DEF AskInv
  <2>2. CASE j \in JobsOf(p, jobs)
    <3>1. prompts[p].kind # "create" => jobs[j].coll \in Colls
      BY <1>4, <2>1, <2>2 DEF JobInv
    <3>2. /\ jobs'[j].stage \in {"new", "ask", "ok", "no"} /\ jobs'[j].prompt = p /\ ~jobs'[j].refused
          /\ jobs'[j].coll = jobs[j].coll
          /\ jobs'[j].stage = "ask" => prompts[p].kind # "create"
          /\ jobs'[j].stage = "ok" => jobs[j].coll \in Colls
      BY <1>3, <2>2
    <3>3. prompts'[p].kind = prompts[p].kind /\ prompts'[p].prompted /\ p \in DOMAIN prompts'
      OBVIOUS
    <3> QED
      BY ONLY <3>1, <3>2, <3>3 DEF JobInv
  <2>3. CASE j \notin JobsOf(p, jobs)
    BY <1>2, <1>5, <2>1, <2>3 DEF JobInv
  <2> QED
    BY <2>2, <2>3
<1>9. SingleJobs(jobs', prompts')
  BY <1>1, <1>5, <1>6 DEF AskInv, SingleJobs
<1>10. \A q \in DOMAIN prompts' : PromptInv(q, jobs', prompts')
  <2> SUFFICES ASSUME NEW q \in DOMAIN prompts PROVE PromptInv(q, jobs', prompts')
    OBVIOUS
  <2>1. CASE q = p
    <3>1. AllResults(p, jobs') => \A k \in JobsOf(p, jobs') : jobs'[k].stage \in Final
      BY DEF AllResults
    <3>2. Len(prompts'[p].completed) <= 1
      <4>1. Len(<<>>) = 0
        OBVIOUS
      <4>2. CASE prompts'[p].completed = <<>>
        <5>1. Len(prompts'[p].completed) = Len(<<>>)
          BY ONLY <4>2
        <5> QED
          BY ONLY <4>1, <5>1
      <4>3. CASE Len(prompts'[p].completed) = 1
        BY ONLY <4>3
      <4> QED
        BY <4>2, <4>3
    <3>3. prompts'[p].completed # <<>> => AllResults(p, jobs')
      OBVIOUS
    <3> QED
      BY ONLY <2>1, <3>1, <3>2, <3>3, prompts'[p].prompted DEF PromptInv
  <2>2. CASE q # p
    <3>1. PromptInv(q, jobs, prompts) /\ prompts'[q] = prompts[q]
      BY <2>2 DEF AskInv
    <3>2. /\ \A k : k \in JobsOf(q, jobs') <=> k \in JobsOf(q, jobs)
          /\ \A k \in JobsOf(q, jobs) : jobs'[k] = jobs[k]
      BY <1>1, <1>2, <1>5, <2>2 DEF JobsOf
    <3> QED
      BY <3>1, <3>2 DEF PromptInv
  <2> QED
    BY <2>1, <2>2
<1>11. BoxInv(jobs', boxes')
  <2>1. \A j \in DOMAIN jobs : jobs'[j].stage = "box" <=> jobs[j].stage = "box"
    BY <1>2, <1>3
  <2> QED
    BY <1>1, <2>1 DEF AskInv, BoxInv
<1>12. AskTypes' /\ AskInv'
  BY <1>7, <1>8, <1>9, <1>10, <1>11 DEF AskTypes, AskInv
<1> QED
  BY <1>1, <1>2, <1>3, <1>12

-----------------------------------------------------------------------------
\* Jobs and boxes stay, and of the prompts only what clients did meanwhile
\* (shut) changes.
LEMMA ShutInv ==
  ASSUME AskTypes, AskInv, NEW c \in Colls, Shut(c), UNCHANGED <<jobs, boxes>>
  PROVE  /\ AskTypes' /\ AskInv' /\ DOMAIN prompts' = DOMAIN prompts
         /\ \A p \in DOMAIN prompts : /\ prompts'[p].completed = prompts[p].completed
                                      /\ prompts'[p].kind = prompts[p].kind
                                      /\ prompts'[p].shut = prompts[p].shut \cup {c}
<1>1. DOMAIN prompts' = DOMAIN prompts
  BY DEF Shut
<1>2. ASSUME NEW p \in DOMAIN prompts
      PROVE  /\ prompts'[p] \in Prompts
             /\ prompts'[p].completed = prompts[p].completed
             /\ prompts'[p].kind = prompts[p].kind
             /\ prompts'[p].prompted = prompts[p].prompted
             /\ prompts'[p].shut = prompts[p].shut \cup {c}
  <2>1. prompts[p] \in Prompts
    BY SeqFacts DEF AskTypes
  <2>2. prompts'[p] = [prompts[p] EXCEPT !.shut = @ \cup {c}]
    BY DEF Shut
  <2> QED
    BY <2>1, <2>2 DEF Prompts
<1>3. prompts' \in Seq(Prompts)
  <2>1. Len(prompts) \in Nat /\ DOMAIN prompts = 1 .. Len(prompts)
    BY SeqFacts DEF AskTypes
  <2>2. prompts' = [p \in 1 .. Len(prompts) |-> prompts'[p]]
    BY <2>1 DEF Shut
  <2> QED
    BY <1>2, <2>1, <2>2
<1>4. \A j \in DOMAIN jobs : JobInv(j, jobs, prompts')
  BY <1>1, <1>2 DEF AskInv, JobInv
<1>5. SingleJobs(jobs, prompts')
  <2>1. \A j \in DOMAIN jobs : jobs[j].prompt \in DOMAIN prompts
    BY DEF AskInv, JobInv
  <2> QED
    BY <1>2, <2>1 DEF AskInv, SingleJobs
<1>6. \A p \in DOMAIN prompts : PromptInv(p, jobs, prompts')
  BY <1>2 DEF AskInv, PromptInv
<1> QED
  BY <1>1, <1>2, <1>3, <1>4, <1>5, <1>6 DEF AskTypes, AskInv

\* The collection of a create job is made, and its ACL dialog opened.
LEMMA CreatedInv ==
  ASSUME AskTypes, AskInv, NEW j \in DOMAIN jobs, NEW c \in Colls, jobs[j].stage = "new",
         Kind(j) = "create",
         jobs' = [jobs EXCEPT ![j].coll = c, ![j].stage = "acl"], UNCHANGED <<prompts, boxes>>
  PROVE  /\ AskTypes' /\ AskInv' /\ OthersKept(j)
         /\ jobs'[j].coll = c /\ jobs'[j].stage = "acl"
<1> DEFINE e == [jobs[j] EXCEPT !.coll = c, !.stage = "acl"]
<1>1. jobs[j] \in Jobs /\ JobInv(j, jobs, prompts)
  BY SeqFacts DEF AskTypes, AskInv
<1>2. e \in Jobs /\ e.stage = "acl" /\ e.prompt = jobs[j].prompt /\ e.coll = c /\ e.refused = jobs[j].refused
  BY <1>1 DEF Jobs, Stages
<1>3. jobs' = [jobs EXCEPT ![j] = e]
  OBVIOUS
<1> HIDE DEF e
<1>4. /\ jobs' \in Seq(Jobs) /\ DOMAIN jobs' = DOMAIN jobs /\ jobs'[j] = e
      /\ \A k \in DOMAIN jobs : k # j => jobs'[k] = jobs[k]
  <2>1. jobs \in Seq(Jobs) /\ e \in Jobs
    BY <1>2 DEF AskTypes
  <2>2. /\ [jobs EXCEPT ![j] = e] \in Seq(Jobs) /\ DOMAIN [jobs EXCEPT ![j] = e] = DOMAIN jobs
        /\ [jobs EXCEPT ![j] = e][j] = e
        /\ \A k \in DOMAIN jobs : k # j => [jobs EXCEPT ![j] = e][k] = jobs[k]
    BY ONLY <2>1, j \in DOMAIN jobs, ExceptFacts
  <2> QED
    BY ONLY <1>3, <2>2
<1>5. ~jobs[j].refused /\ prompts[jobs[j].prompt].completed = <<>>
  BY <1>1 DEF AskInv, JobInv, PromptInv, JobsOf, Final
<1>6. \A k \in DOMAIN jobs' : JobInv(k, jobs', prompts)
  BY <1>1, <1>2, <1>4, <1>5 DEF AskInv, JobInv, Kind
<1>7. SingleJobs(jobs', prompts)
  BY <1>2, <1>4 DEF AskInv, SingleJobs
<1>8. \A p \in DOMAIN prompts : PromptInv(p, jobs', prompts)
  <2> SUFFICES ASSUME NEW p \in DOMAIN prompts PROVE PromptInv(p, jobs', prompts)
    OBVIOUS
  <2>1. PromptInv(p, jobs, prompts)
    BY DEF AskInv
  <2>2. \A k : k \in JobsOf(p, jobs') <=> k \in JobsOf(p, jobs)
    BY <1>2, <1>4 DEF JobsOf
  <2>3. CASE p # jobs[j].prompt
    <3>1. \A k \in JobsOf(p, jobs) : jobs'[k] = jobs[k]
      BY <1>4, <2>3 DEF JobsOf
    <3> QED
      BY <2>1, <2>2, <3>1 DEF PromptInv
  <2>4. CASE p = jobs[j].prompt
    BY <1>5, <2>1, <2>4 DEF PromptInv
  <2> QED
    BY <2>3, <2>4
<1>9. BoxInv(jobs', boxes)
  BY <1>2, <1>4 DEF AskInv, BoxInv
<1> QED
  BY <1>2, <1>4, <1>6, <1>7, <1>8, <1>9 DEF AskTypes, AskInv, OthersKept

\* The answer to its ACL dialog is not stored: the first of two boxes.
LEMMA RefusedInv ==
  ASSUME AskTypes, AskInv, NEW j \in DOMAIN jobs, jobs[j].stage = "acl", Kind(j) = "create",
         jobs' = [jobs EXCEPT ![j].stage = "box", ![j].refused = TRUE],
         boxes' = Append(boxes, j), UNCHANGED prompts
  PROVE  /\ AskTypes' /\ AskInv' /\ OthersKept(j) /\ jobs'[j].stage = "box"
<1> DEFINE e == [jobs[j] EXCEPT !.stage = "box", !.refused = TRUE]
<1>1. jobs[j] \in Jobs /\ JobInv(j, jobs, prompts) /\ j \in Nat
  BY SeqFacts DEF AskTypes, AskInv
<1>2. e \in Jobs /\ e.stage = "box" /\ e.prompt = jobs[j].prompt /\ e.coll = jobs[j].coll /\ e.refused
  BY <1>1 DEF Jobs, Stages
<1>3. jobs' = [jobs EXCEPT ![j] = e]
  OBVIOUS
<1> HIDE DEF e
<1>4. /\ jobs' \in Seq(Jobs) /\ DOMAIN jobs' = DOMAIN jobs /\ jobs'[j] = e
      /\ \A k \in DOMAIN jobs : k # j => jobs'[k] = jobs[k]
  <2>1. jobs \in Seq(Jobs) /\ e \in Jobs
    BY <1>2 DEF AskTypes
  <2>2. /\ [jobs EXCEPT ![j] = e] \in Seq(Jobs) /\ DOMAIN [jobs EXCEPT ![j] = e] = DOMAIN jobs
        /\ [jobs EXCEPT ![j] = e][j] = e
        /\ \A k \in DOMAIN jobs : k # j => [jobs EXCEPT ![j] = e][k] = jobs[k]
    BY ONLY <2>1, j \in DOMAIN jobs, ExceptFacts
  <2> QED
    BY ONLY <1>3, <2>2
<1>5. prompts[jobs[j].prompt].completed = <<>>
  BY <1>1 DEF AskInv, JobInv, PromptInv, JobsOf, Final
<1>6. \A k \in DOMAIN jobs' : JobInv(k, jobs', prompts)
  BY <1>1, <1>2, <1>4 DEF AskInv, JobInv, Kind
<1>7. SingleJobs(jobs', prompts)
  BY <1>2, <1>4 DEF AskInv, SingleJobs
<1>8. \A p \in DOMAIN prompts : PromptInv(p, jobs', prompts)
  <2> SUFFICES ASSUME NEW p \in DOMAIN prompts PROVE PromptInv(p, jobs', prompts)
    OBVIOUS
  <2>1. PromptInv(p, jobs, prompts)
    BY DEF AskInv
  <2>2. \A k : k \in JobsOf(p, jobs') <=> k \in JobsOf(p, jobs)
    BY <1>2, <1>4 DEF JobsOf
  <2>3. CASE p # jobs[j].prompt
    <3>1. \A k \in JobsOf(p, jobs) : jobs'[k] = jobs[k]
      BY <1>4, <2>3 DEF JobsOf
    <3> QED
      BY <2>1, <2>2, <3>1 DEF PromptInv
  <2>4. CASE p = jobs[j].prompt
    <3>1. j \in JobsOf(p, jobs') /\ jobs'[j].refused
      BY <1>2, <1>4, <2>4 DEF JobsOf
    <3> QED
      BY <1>5, <2>1, <2>4, <3>1 DEF PromptInv
  <2> QED
    BY <2>3, <2>4
<1>9. boxes' \in Seq(Nat) /\ BoxInv(jobs', boxes')
  <2>1. boxes \in Seq(Nat) /\ BoxInv(jobs, boxes)
    BY DEF AskTypes, AskInv
  <2> QED
    BY <1>1, <1>2, <1>4, <2>1, OpenBox
<1> QED
  BY <1>2, <1>4, <1>6, <1>7, <1>8, <1>9 DEF AskTypes, AskInv, OthersKept

LEMMA FrontFacts ==
  ASSUME NEW S, NEW s \in Seq(S), s # <<>>
  PROVE  /\ Front(s) \in Seq(S) /\ DOMAIN Front(s) = 1 .. Len(s) - 1
         /\ \A k \in 1 .. Len(s) - 1 : Front(s)[k] = s[k]
         /\ Len(s) \in DOMAIN s /\ Len(s) \in Nat /\ DOMAIN s = 1 .. Len(s) /\ Last(s) = s[Len(s)]
  BY DEF Front, Last

\* The innermost box is closed.
LEMMA CloseBoxInv ==
  ASSUME AskTypes, AskInv, boxes # <<>>, NEW j, j = Innermost, NEW p, p = jobs[j].prompt,
         prompts' = Tell(prompts, p, FALSE, {}),
         \/ jobs[j].refused /\ UNCHANGED <<jobs, boxes>>
         \/ /\ jobs' = [jobs EXCEPT ![j].stage = "failed"] /\ boxes' = Front(boxes)
            /\ ~jobs[j].refused \/ prompts[p].completed # <<>>
  PROVE  /\ AskTypes' /\ AskInv' /\ PromptsKept
         /\ j \in DOMAIN jobs /\ jobs[j].stage = "box" /\ jobs'[j].stage \in {"box", "failed"}
         /\ OthersKept(j)
<1> DEFINE n == Len(boxes)
           a == [dismissed |-> FALSE, paths |-> {}]
<1>1. /\ Front(boxes) \in Seq(Nat) /\ DOMAIN Front(boxes) = 1 .. n - 1
      /\ \A k \in 1 .. n - 1 : Front(boxes)[k] = boxes[k]
      /\ n \in DOMAIN boxes /\ n \in Nat /\ DOMAIN boxes = 1 .. n /\ j = boxes[n]
  BY FrontFacts DEF AskTypes, Innermost
<1>2. /\ j \in DOMAIN jobs /\ jobs[j].stage = "box" /\ JobInv(j, jobs, prompts) /\ p \in DOMAIN prompts
      /\ prompts[p].kind # "unlock" /\ prompts[p].prompted
  BY <1>1 DEF AskInv, BoxInv, JobInv
<1>3. \A k \in JobsOf(p, jobs) : k = j
  BY <1>2 DEF AskInv, SingleJobs, JobsOf
<1>4. ~jobs[j].refused => prompts[p].completed = <<>>
  BY <1>2 DEF AskInv, PromptInv, JobsOf, Final
<1>5. /\ prompts' \in Seq(Prompts) /\ DOMAIN prompts' = DOMAIN prompts
      /\ \A q \in DOMAIN prompts : q # p => prompts'[q] = prompts[q]
      /\ prompts'[p].kind = prompts[p].kind /\ prompts'[p].prompted = prompts[p].prompted
      /\ prompts'[p].shut = prompts[p].shut
      /\ prompts'[p].completed = Append(prompts[p].completed, a)
  <2>1. prompts \in Seq(Prompts) /\ FALSE \in BOOLEAN /\ {} \in SUBSET (Colls \cup {None})
    BY DEF AskTypes
  <2>2. /\ Tell(prompts, p, FALSE, {}) \in Seq(Prompts)
        /\ DOMAIN Tell(prompts, p, FALSE, {}) = DOMAIN prompts
        /\ \A q \in DOMAIN prompts : q # p => Tell(prompts, p, FALSE, {})[q] = prompts[q]
        /\ Tell(prompts, p, FALSE, {})[p].kind = prompts[p].kind
        /\ Tell(prompts, p, FALSE, {})[p].prompted = prompts[p].prompted
        /\ Tell(prompts, p, FALSE, {})[p].shut = prompts[p].shut
        /\ Tell(prompts, p, FALSE, {})[p].completed = Append(prompts[p].completed, a)
    BY ONLY <1>2, <2>1, TellFacts
  <2> QED
    BY <2>2
<1>6. a \in Answers /\ a.paths = {}
  BY DEF Answers
<1> HIDE DEF a, n
<1>7. ~jobs[j].refused => Len(prompts'[p].completed) = 1
  <2>1. prompts[p].completed \in Seq(Answers)
    <3>1. prompts \in Seq(Prompts)
      BY DEF AskTypes
    <3>2. prompts[p] \in Prompts
      BY ONLY <1>2, <3>1, SeqFacts
    <3> QED
      BY ONLY <3>2 DEF Prompts
  <2>2. prompts[p].completed = <<>> => Len(Append(prompts[p].completed, a)) = 1
    BY ONLY <1>6, <2>1, AppendFacts
  <2> QED
    BY ONLY <1>4, <1>5, <2>2
<1>8. PromptsKept
  BY <1>5, <1>6 DEF PromptsKept, Reported
<1>9. /\ jobs' \in Seq(Jobs) /\ DOMAIN jobs' = DOMAIN jobs
      /\ \A k \in DOMAIN jobs : k # j => jobs'[k] = jobs[k]
      /\ jobs'[j].prompt = p /\ jobs'[j].coll = jobs[j].coll /\ jobs'[j].refused = jobs[j].refused
      /\ \/ jobs'[j].stage = "box" /\ jobs[j].refused /\ boxes' = boxes
         \/ jobs'[j].stage = "failed" /\ boxes' = Front(boxes)
  <2> DEFINE moved == [jobs EXCEPT ![j].stage = "failed"]
  <2>1. CASE UNCHANGED <<jobs, boxes>> /\ jobs[j].refused
    <3>1. jobs \in Seq(Jobs)
      BY DEF AskTypes
    <3> QED
      BY ONLY <1>2, <2>1, <3>1, p = jobs[j].prompt
  <2>2. CASE jobs' = moved /\ boxes' = Front(boxes)
    <3>1. /\ moved \in Seq(Jobs) /\ DOMAIN moved = DOMAIN jobs
          /\ \A k \in DOMAIN jobs : k # j => moved[k] = jobs[k]
          /\ moved[j].stage = "failed" /\ moved[j].prompt = jobs[j].prompt
          /\ moved[j].coll = jobs[j].coll /\ moved[j].refused = jobs[j].refused
      <4>1. "failed" \in Stages
        BY DEF Stages, Final
      <4> QED
        BY ONLY AskTypes, <1>2, <4>1, MoveJobs
    <3> HIDE DEF moved
    <3> QED
      BY ONLY <2>2, <3>1, p = jobs[j].prompt
  <2> QED
    BY <2>1, <2>2
<1>10. \A k \in DOMAIN jobs' : JobInv(k, jobs', prompts')
  <2> SUFFICES ASSUME NEW k \in DOMAIN jobs PROVE JobInv(k, jobs', prompts')
    BY <1>9
  <2>1. JobInv(k, jobs, prompts)
    BY DEF AskInv
  <2>2. CASE k = j
    BY ONLY <1>2, <1>5, <1>9, <2>1, <2>2, p = jobs[j].prompt DEF JobInv
  <2>3. CASE k # j
    <3>1. jobs'[k] = jobs[k] /\ jobs[k].prompt \in DOMAIN prompts
      BY ONLY <1>9, <2>1, <2>3, k \in DOMAIN jobs DEF JobInv
    <3>2. /\ prompts'[jobs[k].prompt].kind = prompts[jobs[k].prompt].kind
          /\ prompts'[jobs[k].prompt].prompted = prompts[jobs[k].prompt].prompted
      BY ONLY <1>5, <3>1
    <3> QED
      BY ONLY <1>5, <2>1, <3>1, <3>2 DEF JobInv
  <2> QED
    BY <2>2, <2>3
<1>11. SingleJobs(jobs', prompts')
  <2>0. \A k \in DOMAIN jobs : jobs[k].prompt \in DOMAIN prompts
    BY DEF AskInv, JobInv
  <2>1. \A k \in DOMAIN jobs : jobs'[k].prompt = jobs[k].prompt /\ jobs[k].prompt \in DOMAIN prompts
    BY ONLY <1>9, <2>0, p = jobs[j].prompt
  <2>2. \A q \in DOMAIN prompts : prompts'[q].kind = prompts[q].kind
    BY ONLY <1>5
  <2>3. SingleJobs(jobs, prompts)
    BY DEF AskInv
  <2> QED
    BY ONLY <1>9, <2>1, <2>2, <2>3 DEF SingleJobs
<1>12. \A q \in DOMAIN prompts : PromptInv(q, jobs', prompts')
  <2> SUFFICES ASSUME NEW q \in DOMAIN prompts PROVE PromptInv(q, jobs', prompts')
    OBVIOUS
  <2>1. \A k : k \in JobsOf(q, jobs') <=> k \in JobsOf(q, jobs)
    BY <1>9 DEF JobsOf
  <2>2. CASE q # p
    <3>1. PromptInv(q, jobs, prompts) /\ prompts'[q] = prompts[q]
      BY <1>5, <2>2 DEF AskInv
    <3>2. \A k \in JobsOf(q, jobs) : jobs'[k] = jobs[k]
      BY <1>9, <2>2 DEF JobsOf
    <3> QED
      BY <2>1, <3>1, <3>2 DEF PromptInv
  <2>3. CASE q = p
    <3>1. j \in JobsOf(p, jobs')
      BY <1>9, <1>2 DEF JobsOf
    <3>2. \A k \in JobsOf(p, jobs') : k = j
      BY <1>3, <2>1, <2>3
    <3>3. jobs'[j].stage \in Final \/ jobs'[j].refused
      BY <1>9 DEF Final
    <3>4. Len(prompts'[p].completed) <= 1 \/ jobs'[j].refused
      <4>1. ~jobs'[j].refused => ~jobs[j].refused
        BY ONLY <1>9
      <4> QED
        BY ONLY <1>7, <4>1, 1 <= 1
    <3> QED
      BY <1>2, <1>5, <2>3, <3>1, <3>2, <3>3, <3>4 DEF PromptInv
  <2> QED
    BY <2>2, <2>3
<1>13. boxes' \in Seq(Nat) /\ BoxInv(jobs', boxes')
  <2>0. boxes \in Seq(Nat) /\ BoxInv(jobs, boxes)
    BY DEF AskTypes, AskInv
  <2>1. CASE jobs'[j].stage = "box" /\ boxes' = boxes
    BY <1>2, <1>9, <2>0, <2>1 DEF BoxInv
  <2>2. CASE jobs'[j].stage = "failed" /\ boxes' = Front(boxes)
    <3>1. /\ \A k \in DOMAIN boxes' : k \in DOMAIN boxes /\ k # n /\ boxes'[k] = boxes[k]
          /\ \A k \in DOMAIN boxes : k # n => k \in DOMAIN boxes'
      BY <1>1, <2>2
    <3>2. \A k \in DOMAIN boxes' : boxes'[k] # j
      BY <1>1, <2>0, <3>1 DEF BoxInv
    <3>3. \A k \in DOMAIN boxes' : boxes'[k] \in DOMAIN jobs' /\ jobs'[boxes'[k]].stage = "box"
      BY <1>9, <2>0, <3>1, <3>2 DEF BoxInv
    <3>4. \A i \in DOMAIN jobs' : jobs'[i].stage = "box" => \E k \in DOMAIN boxes' : boxes'[k] = i
      <4> SUFFICES ASSUME NEW i \in DOMAIN jobs', jobs'[i].stage = "box"
                   PROVE  \E k \in DOMAIN boxes' : boxes'[k] = i
        OBVIOUS
      <4>1. i # j /\ i \in DOMAIN jobs /\ jobs[i].stage = "box"
        BY <1>9, <2>2
      <4>2. PICK k \in DOMAIN boxes : boxes[k] = i
        BY <2>0, <4>1 DEF BoxInv
      <4> QED
        BY <1>1, <3>1, <4>1, <4>2
    <3>5. \A k, l \in DOMAIN boxes' : boxes'[k] = boxes'[l] => k = l
      BY <2>0, <3>1 DEF BoxInv
    <3>6. boxes' \in Seq(Nat)
      BY <1>1, <2>2
    <3> QED
      BY <3>3, <3>4, <3>5, <3>6 DEF BoxInv
  <2> QED
    BY <1>9, <2>1, <2>2
<1>14. AskTypes' /\ AskInv'
  BY <1>5, <1>9, <1>10, <1>11, <1>12, <1>13 DEF AskTypes, AskInv
<1> QED
  BY <1>2, <1>8, <1>9, <1>14 DEF OthersKept

-----------------------------------------------------------------------------
\* What was reported stays right when no collection is closed unnoticed, and
\* each job that ended well just now left its collection open.
LEMMA ReportKept ==
  ASSUME AskTypes, AskInv, ReportInv, DOMAIN prompts \subseteq DOMAIN prompts',
         \A c \in Colls, p \in DOMAIN prompts : WellEnded(c, p) => WellEnded(c, p)',
         \A p \in DOMAIN prompts : Reported(p),
         \A p \in DOMAIN prompts' \ DOMAIN prompts : prompts'[p].completed = <<>>,
         \A j \in DOMAIN jobs' : \A c, p :
           jobs'[j].stage = "ok" /\ jobs'[j].coll = c /\ jobs'[j].prompt = p =>
             \/ j \in DOMAIN jobs /\ jobs[j].stage = "ok" /\ jobs[j].coll = c /\ jobs[j].prompt = p
             \/ WellEnded(c, p)'
  PROVE  ReportInv'
<1>1. ASSUME NEW j \in DOMAIN jobs', NEW c, NEW p, jobs'[j].stage = "ok", jobs'[j].coll = c,
             jobs'[j].prompt = p
      PROVE  WellEnded(c, p)'
  <2>1. CASE WellEnded(c, p)'
    BY <2>1
  <2>2. CASE j \in DOMAIN jobs /\ jobs[j].stage = "ok" /\ jobs[j].coll = c /\ jobs[j].prompt = p
    <3>1. WellEnded(c, p)
      BY <2>2 DEF ReportInv
    <3>2. p \in DOMAIN prompts /\ c \in Colls
      BY <2>2, <3>1 DEF AskInv, JobInv, WellEnded
    <3> QED
      BY <3>1, <3>2
  <2> QED
    BY <1>1, <2>1, <2>2
<1>2. ASSUME NEW p \in DOMAIN prompts', NEW k \in DOMAIN prompts'[p].completed,
             NEW c \in prompts'[p].completed[k].paths
      PROVE  WellEnded(c, p)'
  <2>1. p \in DOMAIN prompts
    <3>1. DOMAIN <<>> = {}
      OBVIOUS
    <3> QED
      BY <3>1
  <2>2. CASE prompts'[p].completed = prompts[p].completed
    <3>1. WellEnded(c, p)
      BY <2>1, <2>2 DEF ReportInv
    <3> QED
      BY <2>1, <3>1 DEF WellEnded
  <2>3. ASSUME NEW a \in Answers, prompts'[p].completed = Append(prompts[p].completed, a),
               a.paths \subseteq Succeeded(p, jobs')
        PROVE  WellEnded(c, p)'
    <3>1. prompts[p].completed \in Seq(Answers)
      <4>1. prompts[p] \in Prompts
        BY <2>1, SeqFacts DEF AskTypes
      <4> QED
        BY <4>1 DEF Prompts
    <3> DEFINE old == prompts[p].completed
    <3>2. /\ DOMAIN Append(old, a) = 1 .. Len(old) + 1 /\ DOMAIN old = 1 .. Len(old) /\ Len(old) \in Nat
          /\ \A l \in DOMAIN old : Append(old, a)[l] = old[l]
          /\ Append(old, a)[Len(old) + 1] = a
      BY <3>1, AppendFacts
    <3>3. k \in DOMAIN old \/ k = Len(old) + 1
      BY <2>3, <3>2
    <3>4. CASE k \in DOMAIN old
      <4>1. c \in prompts[p].completed[k].paths
        BY <2>3, <3>2, <3>4
      <4>2. WellEnded(c, p)
        BY <2>1, <3>4, <4>1 DEF ReportInv
      <4> QED
        BY <2>1, <4>2 DEF WellEnded
    <3>5. CASE k = Len(old) + 1
      <4>1. c \in Succeeded(p, jobs')
        BY <2>3, <3>2, <3>5
      <4>2. PICK j \in DOMAIN jobs' : jobs'[j].prompt = p /\ jobs'[j].stage = "ok" /\ jobs'[j].coll = c
        BY <4>1 DEF Succeeded, JobsOf
      <4> QED
        BY <1>1, <4>2
    <3> QED
      BY <3>3, <3>4, <3>5
  <2> QED
    BY <2>1, <2>2, <2>3 DEF Reported
<1> QED
  BY <1>1, <1>2 DEF ReportInv

\* The lists and who watches them, when no collection comes, goes or is listed.
LEMMA ListKept ==
  ASSUME ListInv, UNCHANGED <<master, paths>>, watched \subseteq watched',
         \A c \in Colls : coll'[c].here = coll[c].here,
         paths \in SUBSET Colls,
         \A c \in Colls : Pending(c) => Pending(c)' \/ (c \in watched' /\ Live(c))
  PROVE  ListInv'
  BY DEF ListInv, Live

\* The ACL dialogs of create jobs stay open.
LEMMA PendingKept ==
  ASSUME \A j \in DOMAIN jobs : jobs[j].stage = "acl" /\ Kind(j) = "create" =>
           /\ j \in DOMAIN jobs' /\ jobs'[j].stage = "acl" /\ jobs'[j].coll = jobs[j].coll
           /\ prompts'[jobs'[j].prompt].kind = "create"
  PROVE  \A c \in Colls : Pending(c) => Pending(c)'
  BY DEF Pending, Waits, Kind

\* A collection nobody touches.
LEMMA CollKept ==
  ASSUME NEW c \in Colls, CollInv(c), coll'[c] = coll[c], bus'[c] = bus[c],
         listed'[c] = listed[c], lost \subseteq lost'
  PROVE  CollInv(c)'
  BY DEF CollInv, Open, Live

-----------------------------------------------------------------------------
\* The invariant, action by action.
LEMMA InitInv == Init => IInv
<1> SUFFICES ASSUME Init PROVE IInv
  OBVIOUS
<1>1. BackTypes
  BY DEF Init, BackTypes, Collections, NoColl
<1>2. AskTypes
  BY DEF Init, AskTypes
<1>3. DOMAIN <<>> = {}
  OBVIOUS
<1>4. AskInv
  BY <1>3 DEF Init, AskInv, SingleJobs, BoxInv
<1>5. BackInv
  BY ServiceAssumption DEF Init, BackInv, CollInv, NoColl, Open, Live
<1>6. ReportInv
  BY <1>3 DEF Init, ReportInv
<1>7. ListInv
  BY DEF Init, ListInv, Live, NoColl
<1> QED
  BY <1>1, <1>2, <1>4, <1>5, <1>6, <1>7 DEF IInv

\* Steps that no prompt, job or box notices, and that close no collection.
LEMMA AskingKept ==
  ASSUME IInv, UNCHANGED asking, \A c \in Colls : Open(c) => Open(c)'
  PROVE  AskTypes' /\ AskInv' /\ ReportInv' /\ \A c \in Colls : Pending(c) => Pending(c)'
<1>1. UNCHANGED <<prompts, jobs, boxes>>
  BY DEF asking
<1>2. AskTypes' /\ AskInv'
  BY <1>1 DEF IInv, AskTypes, AskInv
<1>3. ReportInv'
  BY <1>1, ReportKept DEF IInv, WellEnded, Reported
<1>4. \A c \in Colls : Pending(c) => Pending(c)'
  BY <1>1 DEF Pending, Waits, Kind
<1> QED
  BY <1>2, <1>3, <1>4

LEMMA DiscoverInv == ASSUME IInv, Discover PROVE IInv'
<1>1. \A c \in Found : coll[c].here = "none"
  BY DEF IInv, BackInv, Discover
<1>2. /\ \A c \in Found : /\ c \in Colls /\ Stored[c] \subseteq Items
                          /\ coll'[c] \in Collections
                          /\ coll'[c].here = "live" /\ coll'[c].locked /\ coll'[c].items = {}
                          /\ coll'[c].wired = {} /\ coll'[c].dead = {}
      /\ \A c \in Colls \ Found : coll'[c] = coll[c]
  <2>1. ASSUME NEW c \in Found
        PROVE  /\ c \in Colls /\ Stored[c] \subseteq Items
               /\ coll'[c] \in Collections
               /\ coll'[c].here = "live" /\ coll'[c].locked /\ coll'[c].items = {}
               /\ coll'[c].wired = {} /\ coll'[c].dead = {}
    <3>1. c \in Colls /\ Stored[c] \subseteq Items
      BY ServiceAssumption
    <3>2. coll'[c] = [here |-> "live", locked |-> TRUE, items |-> {}, file |-> Stored[c],
                      wired |-> {}, dead |-> {}, rot |-> FALSE, knows |-> FALSE]
      BY <3>1 DEF Discover, NoColl
    <3> QED
      BY ONLY <3>1, <3>2 DEF Collections
  <2>2. \A c \in Colls \ Found : coll'[c] = coll[c]
    BY DEF Discover
  <2> QED
    BY <2>1, <2>2
<1>3. UNCHANGED <<watched, gone, listed, bus, sessions, lost>> /\ UNCHANGED asking
      /\ master' = master \cup Found /\ paths' = paths \cup Found
  BY DEF Discover, Announce
<1>4. BackTypes'
  <2>1. \A c \in Colls : coll'[c] \in Collections
    <3>1. \A c \in Colls : coll[c] \in Collections
      BY DEF IInv, BackTypes
    <3> QED
      BY ONLY <1>2, <3>1
  <2>2. coll' = [c \in Colls |-> coll'[c]]
    BY DEF Discover
  <2> QED
    BY <1>3, <2>1, <2>2, ServiceAssumption DEF IInv, BackTypes
<1>5. BackInv'
  <2>1. ASSUME NEW c \in Found PROVE CollInv(c)'
    <3>1. CollInv(c) /\ ~Live(c) /\ ~Open(c)
      BY <1>1, <1>2, <2>1 DEF IInv, BackInv, Live, Open
    <3>2. coll[c].items = {} /\ c \in Colls
      BY <1>1, <1>2, <2>1, <3>1 DEF CollInv, Live
    <3> QED
      BY <1>2, <1>3, <2>1, <3>1, <3>2 DEF CollInv, Open, Live
  <2>2. ASSUME NEW c \in Colls \ Found PROVE CollInv(c)'
    BY <1>2, <1>3, <2>2, CollKept DEF IInv, BackInv
  <2>3. \A c \in Found : coll'[c].here # "none"
    BY <1>2
  <2> QED
    BY <2>1, <2>2, <2>3 DEF BackInv
<1>6. AskTypes' /\ AskInv' /\ ReportInv' /\ \A c \in Colls : Pending(c) => Pending(c)'
  <2>1. \A c \in Colls : Open(c) => Open(c)'
    BY <1>1, <1>2 DEF Open, Live
  <2> QED
    BY <1>3, <2>1, AskingKept
<1>7. ListInv'
  <2>1. /\ \A c \in Colls : Live(c) => Live(c)'
        /\ \A c \in Colls \ Found : Live(c)' => Live(c)
        /\ \A c \in Found : Live(c)'
    BY <1>1, <1>2 DEF Live
  <2>2. ListInv /\ paths \in SUBSET Colls
    BY DEF IInv, BackTypes
  <2> QED
    BY ONLY <1>3, <1>6, <2>1, <2>2, ServiceAssumption DEF ListInv
<1> QED
  BY <1>4, <1>5, <1>6, <1>7 DEF IInv

LEMMA CreateItemInv ==
  ASSUME IInv, NEW c \in Colls, NEW i \in Items, NEW replace \in BOOLEAN,
         CreateItem(c, i, replace), broken' # TRUE
  PROVE  IInv'
<1>1. /\ Sound(c) /\ i \notin coll[c].items /\ bus[c][i] = "none"
      /\ coll' = [coll EXCEPT ![c].items = @ \cup {i}, ![c].file = coll[c].items \cup {i},
                                ![c].wired = @ \cup {i}]
      /\ listed' = [listed EXCEPT ![c] = @ \cup {i}]
      /\ bus' = [bus EXCEPT ![c][i] = "good"]
      /\ UNCHANGED <<watched, master, paths, gone, sessions, asking, lost>>
  BY DEF CreateItem, Break
<1>2. coll[c] \in Collections /\ coll \in [Colls -> Collections]
  BY DEF IInv, BackTypes
<1>3. /\ coll'[c] \in Collections
      /\ coll'[c].here = coll[c].here /\ coll'[c].locked = coll[c].locked
      /\ coll'[c].items = coll[c].items \cup {i} /\ coll'[c].wired = coll[c].wired \cup {i}
      /\ coll'[c].dead = coll[c].dead
      /\ \A d \in Colls : d # c => coll'[d] = coll[d]
      /\ coll' \in [Colls -> Collections]
  BY <1>1, <1>2 DEF Collections
<1>4. /\ bus'[c][i] = "good" /\ \A k \in Items : k # i => bus'[c][k] = bus[c][k]
      /\ \A d \in Colls : d # c => bus'[d] = bus[d] /\ listed'[d] = listed[d]
      /\ listed'[c] = listed[c] \cup {i}
  BY <1>1 DEF IInv, BackTypes
<1>5. BackTypes'
  BY <1>1, <1>3 DEF IInv, BackTypes
<1>6. BackInv'
  <2>1. CollInv(c)'
    BY <1>1, <1>3, <1>4 DEF IInv, BackInv, CollInv, Open, Live, Sound
  <2>2. ASSUME NEW d \in Colls, d # c PROVE CollInv(d)'
    BY <1>1, <1>3, <1>4, <2>2, CollKept DEF IInv, BackInv
  <2>3. \A d \in Colls : coll'[d].here = coll[d].here
    BY <1>3
  <2> QED
    BY <2>1, <2>2, <2>3, ServiceAssumption DEF IInv, BackInv
<1>7. AskTypes' /\ AskInv' /\ ReportInv' /\ \A d \in Colls : Pending(d) => Pending(d)'
  <2>1. \A d \in Colls : Open(d) => Open(d)'
    BY <1>3 DEF Open, Live
  <2> QED
    BY <1>1, <2>1, AskingKept
<1>8. ListInv'
  <2>1. \A d \in Colls : coll'[d].here = coll[d].here
    BY <1>3
  <2>2. ListInv /\ paths \in SUBSET Colls /\ UNCHANGED <<master, paths>> /\ watched \subseteq watched'
    BY <1>1 DEF IInv, BackTypes
  <2>3. \A d \in Colls : Pending(d) => Pending(d)' \/ (d \in watched' /\ Live(d))
    BY ONLY <1>7
  <2> QED
    BY ONLY <2>1, <2>2, <2>3, ListKept
<1> QED
  BY <1>5, <1>6, <1>7, <1>8 DEF IInv

LEMMA DeleteItemInv ==
  ASSUME IInv, NEW c \in Colls, NEW i \in Items, DeleteItem(c, i), broken' # TRUE
  PROVE  IInv'
<1>1. /\ bus[c][i] = "good"
      /\ bus' = [bus EXCEPT ![c][i] = "stale"]
      /\ coll' = IF HeardOf(c, i)
                 THEN [coll EXCEPT ![c].items = @ \ {i}, ![c].file = coll[c].items \ {i},
                                   ![c].wired = @ \ {i}]
                 ELSE [coll EXCEPT ![c].dead = @ \cup {i}, ![c].rot = TRUE]
      /\ listed' = IF HeardOf(c, i) THEN [listed EXCEPT ![c] = @ \ {i}] ELSE listed
      /\ lost' = IF HeardOf(c, i) THEN lost ELSE lost \cup {c}
      /\ UNCHANGED <<watched, master, paths, gone, sessions, asking>>
  <2>1. bus[c][i] \in {"none", "good", "stale"}
    BY DEF IInv, BackTypes
  <2>2. bus[c][i] # "none" /\ bus[c][i] # "stale"
    BY DEF DeleteItem, Break
  <2> QED
    BY <2>1, <2>2 DEF DeleteItem, ListDrops
<1>2. coll[c] \in Collections /\ coll \in [Colls -> Collections] /\ i \in coll[c].items
  BY <1>1 DEF IInv, BackTypes, BackInv, CollInv
<1>3. /\ coll'[c].here = coll[c].here /\ coll'[c].locked = coll[c].locked
      /\ \A d \in Colls : d # c => coll'[d] = coll[d]
      /\ coll' \in [Colls -> Collections]
      /\ IF HeardOf(c, i)
         THEN /\ coll'[c].items = coll[c].items \ {i} /\ coll'[c].wired = coll[c].wired \ {i}
              /\ coll'[c].dead = coll[c].dead
         ELSE /\ coll'[c].items = coll[c].items /\ coll'[c].wired = coll[c].wired
              /\ coll'[c].dead = coll[c].dead \cup {i}
  BY <1>1, <1>2 DEF Collections
<1>4. /\ bus'[c][i] = "stale" /\ \A k \in Items : k # i => bus'[c][k] = bus[c][k]
      /\ \A d \in Colls : d # c => bus'[d] = bus[d] /\ listed'[d] = listed[d]
      /\ HeardOf(c, i) => listed'[c] = listed[c] \ {i}
      /\ lost \subseteq lost'
  BY <1>1 DEF IInv, BackTypes
<1>5. BackTypes'
  BY <1>1, <1>3 DEF IInv, BackTypes
<1>6. BackInv'
  <2>1. CollInv(c)'
    <3>1. CollInv(c)
      BY DEF IInv, BackInv
    <3>2. CASE HeardOf(c, i)
      BY <1>1, <1>3, <1>4, <3>1, <3>2 DEF CollInv, Open, Live, HeardOf
    <3>3. CASE ~HeardOf(c, i)
      <4>1. c \in lost'
        BY <1>1, <3>3
      <4> QED
        BY <1>1, <1>2, <1>3, <1>4, <3>1, <3>3, <4>1 DEF CollInv, HeardOf
    <3> QED
      BY <3>2, <3>3
  <2>2. ASSUME NEW d \in Colls, d # c PROVE CollInv(d)'
    BY <1>1, <1>3, <1>4, <2>2, CollKept DEF IInv, BackInv
  <2>3. \A d \in Colls : coll'[d].here = coll[d].here
    BY <1>3
  <2> QED
    BY <2>1, <2>2, <2>3, ServiceAssumption DEF IInv, BackInv
<1>7. AskTypes' /\ AskInv' /\ ReportInv' /\ \A d \in Colls : Pending(d) => Pending(d)'
  <2>1. \A d \in Colls : Open(d) => Open(d)'
    BY <1>3 DEF Open, Live
  <2> QED
    BY <1>1, <2>1, AskingKept
<1>8. ListInv'
  <2>1. \A d \in Colls : coll'[d].here = coll[d].here
    BY <1>3
  <2>2. ListInv /\ paths \in SUBSET Colls /\ UNCHANGED <<master, paths>> /\ watched \subseteq watched'
    BY <1>1 DEF IInv, BackTypes
  <2>3. \A d \in Colls : Pending(d) => Pending(d)' \/ (d \in watched' /\ Live(d))
    BY ONLY <1>7
  <2> QED
    BY ONLY <2>1, <2>2, <2>3, ListKept
<1> QED
  BY <1>5, <1>6, <1>7, <1>8 DEF IInv

\* The two steps that close a collection are noted in every prompt.
LEMMA ShutKept ==
  ASSUME IInv, NEW c \in Colls, Shut(c), UNCHANGED <<jobs, boxes>>,
         \A d \in Colls : d # c /\ Open(d) => Open(d)'
  PROVE  AskTypes' /\ AskInv' /\ ReportInv' /\ \A d \in Colls : Pending(d) => Pending(d)'
<1>1. /\ AskTypes' /\ AskInv' /\ DOMAIN prompts' = DOMAIN prompts
      /\ \A p \in DOMAIN prompts : /\ prompts'[p].completed = prompts[p].completed
                                   /\ prompts'[p].kind = prompts[p].kind
                                   /\ prompts'[p].shut = prompts[p].shut \cup {c}
  BY ShutInv DEF IInv
<1>2. \A d \in Colls, p \in DOMAIN prompts : WellEnded(d, p) => WellEnded(d, p)'
  <2> SUFFICES ASSUME NEW d \in Colls, NEW p \in DOMAIN prompts, WellEnded(d, p)
               PROVE  WellEnded(d, p)'
    OBVIOUS
  <2>1. CASE d = c
    BY <1>1, <2>1 DEF WellEnded
  <2>2. CASE d # c
    BY <1>1, <2>2 DEF WellEnded
  <2> QED
    BY <2>1, <2>2
<1>3. ReportInv'
  <2>1. \A p \in DOMAIN prompts : Reported(p)
    BY <1>1 DEF Reported
  <2>2. AskTypes /\ AskInv /\ ReportInv
    BY DEF IInv
  <2> QED
    BY <1>1, <1>2, <2>1, <2>2, ReportKept
<1>4. \A d \in Colls : Pending(d) => Pending(d)'
  <2>1. \A j \in DOMAIN jobs : jobs[j].prompt \in DOMAIN prompts
    BY DEF IInv, AskInv, JobInv
  <2> QED
    BY <1>1, <2>1 DEF Pending, Waits, Kind
<1> QED
  BY <1>1, <1>3, <1>4

LEMMA LockInv ==
  ASSUME IInv, NEW c \in Colls, Lock(c), broken' # TRUE
  PROVE  IInv'
<1>1. /\ Open(c)
      /\ coll' = [coll EXCEPT ![c].locked = TRUE, ![c].dead = coll[c].items, ![c].wired = {},
                              ![c].rot = @ \/ coll[c].items # {}]
      /\ bus' = [bus EXCEPT ![c] = [i \in Items |-> IF @[i] = "none" THEN "none" ELSE "stale"]]
      /\ lost' = IF coll[c].items # {} THEN lost \cup {c} ELSE lost
      /\ Shut(c)
      /\ UNCHANGED <<watched, master, paths, gone, listed, sessions, jobs, boxes>>
  BY DEF Lock, Break
<1>2. coll[c] \in Collections /\ coll \in [Colls -> Collections]
  BY DEF IInv, BackTypes
<1>3. /\ coll'[c].here = coll[c].here /\ coll'[c].locked
      /\ coll'[c].items = coll[c].items /\ coll'[c].wired = {} /\ coll'[c].dead = coll[c].items
      /\ \A d \in Colls : d # c => coll'[d] = coll[d]
      /\ coll' \in [Colls -> Collections]
  <2> DEFINE e == [coll[c] EXCEPT !.locked = TRUE, !.dead = coll[c].items, !.wired = {},
                                  !.rot = @ \/ coll[c].items # {}]
  <2>1. coll' = [coll EXCEPT ![c] = e]
    BY ONLY <1>1, <1>2
  <2>2. /\ e \in Collections /\ e.here = coll[c].here /\ e.locked /\ e.items = coll[c].items
        /\ e.wired = {} /\ e.dead = coll[c].items
    BY ONLY <1>2 DEF Collections
  <2> HIDE DEF e
  <2> QED
    BY ONLY <1>2, <2>1, <2>2, c \in Colls
<1>4. /\ bus' \in [Colls -> [Items -> {"none", "good", "stale"}]]
      /\ \A i \in Items : bus'[c][i] # "good"
      /\ \A d \in Colls : d # c => bus'[d] = bus[d]
      /\ lost \subseteq lost' /\ lost' \in SUBSET Colls
  BY <1>1 DEF IInv, BackTypes
<1>5. BackTypes'
  BY <1>1, <1>3, <1>4 DEF IInv, BackTypes
<1>6. BackInv'
  <2>1. CollInv(c)'
    <3>1. CollInv(c) /\ listed'[c] = listed[c]
      BY <1>1 DEF IInv, BackInv
    <3>2. c \notin lost' => listed[c] = {}
      BY <1>1, <3>1 DEF CollInv
    <3>3. ~Open(c)' /\ coll'[c].here = "live"
      BY <1>1, <1>3 DEF Open, Live
    <3> QED
      BY <1>3, <1>4, <3>1, <3>2, <3>3 DEF CollInv
  <2>2. ASSUME NEW d \in Colls, d # c PROVE CollInv(d)'
    BY <1>1, <1>3, <1>4, <2>2, CollKept DEF IInv, BackInv
  <2>3. \A d \in Colls : coll'[d].here = coll[d].here
    BY <1>3
  <2> QED
    BY <2>1, <2>2, <2>3, ServiceAssumption DEF IInv, BackInv
<1>7. AskTypes' /\ AskInv' /\ ReportInv' /\ \A d \in Colls : Pending(d) => Pending(d)'
  <2>1. \A d \in Colls : d # c /\ Open(d) => Open(d)'
    BY <1>3 DEF Open, Live
  <2> QED
    BY <1>1, <2>1, ShutKept
<1>8. ListInv'
  <2>1. \A d \in Colls : coll'[d].here = coll[d].here
    BY <1>3
  <2>2. ListInv /\ paths \in SUBSET Colls /\ UNCHANGED <<master, paths>> /\ watched \subseteq watched'
    BY <1>1 DEF IInv, BackTypes
  <2>3. \A d \in Colls : Pending(d) => Pending(d)' \/ (d \in watched' /\ Live(d))
    BY ONLY <1>7
  <2> QED
    BY ONLY <2>1, <2>2, <2>3, ListKept
<1> QED
  BY <1>5, <1>6, <1>7, <1>8 DEF IInv

LEMMA DeleteCollectionInv ==
  ASSUME IInv, NEW c \in Colls, DeleteCollection(c), broken' # TRUE
  PROVE  IInv'
<1>1. /\ coll[c].here # "none"
      /\ gone' = gone \cup {c}
      /\ coll' = [coll EXCEPT ![c] = [NoColl EXCEPT !.here = "gone"]]
      /\ bus' = [bus EXCEPT ![c] = [i \in Items |-> IF @[i] = "none" THEN "none" ELSE "stale"]]
      /\ master' = Unlisted(c, master) /\ paths' = Unlisted(c, paths)
      /\ lost' = lost \cup {c}
      /\ Shut(c)
      /\ UNCHANGED <<watched, listed, sessions, jobs, boxes>>
  BY DEF DeleteCollection, Break, OnBus
<1>2. coll \in [Colls -> Collections]
  BY DEF IInv, BackTypes
<1>3. /\ coll'[c].here = "gone" /\ coll'[c].locked
      /\ coll'[c].items = {} /\ coll'[c].wired = {} /\ coll'[c].dead = {}
      /\ \A d \in Colls : d # c => coll'[d] = coll[d]
      /\ coll' \in [Colls -> Collections]
  <2> DEFINE e == [NoColl EXCEPT !.here = "gone"]
  <2>1. /\ e \in Collections /\ e.here = "gone" /\ e.locked /\ e.items = {}
        /\ e.wired = {} /\ e.dead = {}
    BY DEF Collections, NoColl
  <2>2. coll' = [coll EXCEPT ![c] = e]
    BY <1>1
  <2> HIDE DEF e
  <2> QED
    BY ONLY <1>2, <2>1, <2>2, c \in Colls
<1>4. /\ bus' \in [Colls -> [Items -> {"none", "good", "stale"}]]
      /\ \A i \in Items : bus'[c][i] # "good"
      /\ \A d \in Colls : d # c => bus'[d] = bus[d]
      /\ lost \subseteq lost' /\ c \in lost' /\ lost' \in SUBSET Colls
  BY <1>1 DEF IInv, BackTypes
<1>5. BackTypes'
  BY <1>1, <1>3, <1>4 DEF IInv, BackTypes, Unlisted
<1>6. BackInv'
  <2>1. CollInv(c)'
    BY <1>3, <1>4 DEF CollInv
  <2>2. ASSUME NEW d \in Colls, d # c PROVE CollInv(d)'
    BY <1>1, <1>3, <1>4, <2>2, CollKept DEF IInv, BackInv
  <2>3. \A d \in Colls : coll'[d].here = "none" <=> coll[d].here = "none"
    BY <1>1, <1>3
  <2> QED
    BY <2>1, <2>2, <2>3, ServiceAssumption DEF IInv, BackInv
<1>7. AskTypes' /\ AskInv' /\ ReportInv' /\ \A d \in Colls : Pending(d) => Pending(d)'
  <2>1. \A d \in Colls : d # c /\ Open(d) => Open(d)'
    BY <1>3 DEF Open, Live
  <2> QED
    BY <1>1, <2>1, ShutKept
<1>8. ListInv'
  <2>1. /\ ~Live(c)' /\ \A d \in Colls : d # c => (Live(d)' <=> Live(d))
    BY <1>3 DEF Live
  <2>2. ListInv /\ paths \in SUBSET Colls /\ watched' = watched
    BY <1>1 DEF IInv, BackTypes
  <2>3. c \in paths' => c \in Found \/ Pending(c)
    BY <1>1, <2>2 DEF ListInv, Unlisted
  <2>4. /\ master' = paths' /\ paths' \subseteq paths
        /\ \A d \in paths : d # c => d \in paths'
    BY <1>1, <2>2 DEF ListInv, Unlisted
  <2> QED
    BY ONLY <1>7, <2>1, <2>2, <2>3, <2>4 DEF ListInv
<1> QED
  BY <1>5, <1>6, <1>7, <1>8 DEF IInv

-----------------------------------------------------------------------------
\* What is reported, and who still waits for an ACL answer, when one job moves.
LEMMA OneJobKept ==
  ASSUME AskTypes, AskInv, ReportInv, NEW j \in DOMAIN jobs, PromptsKept, OthersKept(j),
         \A c \in Colls : Open(c) => Open(c)',
         \A c : jobs'[j].stage = "ok" /\ jobs'[j].coll = c => c \in Colls /\ Open(c)'
  PROVE  /\ ReportInv'
         /\ \A c \in Colls : Pending(c) => Pending(c)' \/ Waits(j, c)
<1>1. /\ DOMAIN prompts' = DOMAIN prompts /\ DOMAIN jobs' = DOMAIN jobs
      /\ \A q \in DOMAIN prompts : /\ prompts'[q].kind = prompts[q].kind
                                   /\ prompts'[q].shut = prompts[q].shut /\ Reported(q)
      /\ \A k \in DOMAIN jobs : k # j => jobs'[k] = jobs[k]
      /\ jobs'[j].prompt = jobs[j].prompt
      /\ \A k \in DOMAIN jobs : jobs[k].prompt \in DOMAIN prompts
  BY DEF PromptsKept, OthersKept, AskInv, JobInv
<1>2. \A c \in Colls, p \in DOMAIN prompts : WellEnded(c, p) => WellEnded(c, p)'
  BY <1>1 DEF WellEnded
<1>3. \A k \in DOMAIN jobs' : \A c, p :
        jobs'[k].stage = "ok" /\ jobs'[k].coll = c /\ jobs'[k].prompt = p =>
          \/ k \in DOMAIN jobs /\ jobs[k].stage = "ok" /\ jobs[k].coll = c /\ jobs[k].prompt = p
          \/ WellEnded(c, p)'
  BY <1>1 DEF WellEnded
<1>4. ReportInv'
  BY <1>1, <1>2, <1>3, ReportKept
<1>5. ASSUME NEW c \in Colls, Pending(c)
      PROVE  Pending(c)' \/ Waits(j, c)
  <2>1. PICK k \in DOMAIN jobs : Waits(k, c)
    BY <1>5 DEF Pending
  <2>2. CASE k = j
    BY <2>1, <2>2
  <2>3. CASE k # j
    <3>1. /\ jobs'[k] = jobs[k] /\ k \in DOMAIN jobs'
          /\ prompts'[jobs[k].prompt].kind = prompts[jobs[k].prompt].kind
      BY <1>1, <2>3
    <3> QED
      BY <2>1, <3>1 DEF Pending, Waits, Kind
  <2> QED
    BY <2>2, <2>3
<1> QED
  BY <1>4, <1>5

\* Steps that leave the collections and the lists alone.
LEMMA BackendKept ==
  ASSUME IInv, UNCHANGED <<backend, sessions, lost>>
  PROVE  /\ BackTypes' /\ BackInv'
         /\ \A c \in Colls : (Open(c) <=> Open(c)') /\ (Live(c) <=> Live(c)')
         /\ (\A c \in Colls : Pending(c) => Pending(c)') => ListInv'
<1>1. UNCHANGED <<coll, watched, master, paths, gone, listed, bus, sessions, lost>>
  BY DEF backend
<1>2. BackTypes'
  BY <1>1 DEF IInv, BackTypes
<1>3. BackInv'
  BY <1>1 DEF IInv, BackInv, CollInv, Open, Live
<1>4. \A c \in Colls : (Open(c) <=> Open(c)') /\ (Live(c) <=> Live(c)')
  BY <1>1 DEF Open, Live
<1>5. ASSUME \A c \in Colls : Pending(c) => Pending(c)'
      PROVE  ListInv'
  <2>1. \A d \in Colls : coll'[d].here = coll[d].here
    BY <1>1
  <2>2. ListInv /\ paths \in SUBSET Colls /\ UNCHANGED <<master, paths>> /\ watched \subseteq watched'
    BY <1>1 DEF IInv, BackTypes
  <2>3. \A d \in Colls : Pending(d) => Pending(d)' \/ (d \in watched' /\ Live(d))
    BY ONLY <1>5
  <2> QED
    BY ONLY <2>1, <2>2, <2>3, ListKept
<1> QED
  BY <1>2, <1>3, <1>4, <1>5

\* A dialog is answered, with no effect on the collections; a job may end well
\* only when its collection is open.
LEMMA MovedInv ==
  ASSUME IInv, NEW j \in DOMAIN jobs, jobs[j].stage \in {"new", "ask", "acl"},
         NEW s \in {"new", "acl", "ok", "no", "failed"},
         s \in {"acl", "ok"} => jobs[j].coll \in Colls,
         s = "ok" => Open(jobs[j].coll),
         Move(j, s), jobs[j].stage = "acl" => Kind(j) # "create",
         UNCHANGED <<backend, sessions, lost>>
  PROVE  IInv'
<1>1. AskTypes /\ AskInv /\ ReportInv
  BY DEF IInv
<1>2. /\ AskTypes' /\ AskInv' /\ PromptsKept /\ OthersKept(j)
      /\ jobs'[j].coll = jobs[j].coll
      /\ jobs'[j].stage = "ok" <=> s = "ok"
  BY <1>1, MoveInv
<1>3. /\ BackTypes' /\ BackInv' /\ \A c \in Colls : (Open(c) <=> Open(c)') /\ (Live(c) <=> Live(c)')
      /\ (\A c \in Colls : Pending(c) => Pending(c)') => ListInv'
  BY BackendKept
<1>4. \A c : jobs'[j].stage = "ok" /\ jobs'[j].coll = c => c \in Colls /\ Open(c)'
  BY <1>2, <1>3
<1>5. \A c \in Colls : Open(c) => Open(c)'
  BY ONLY <1>3
<1>6. /\ ReportInv'
      /\ \A c \in Colls : Pending(c) => Pending(c)' \/ Waits(j, c)
  BY ONLY <1>1, <1>2, <1>4, <1>5, j \in DOMAIN jobs, OneJobKept
<1>7. \A c \in Colls : Pending(c) => Pending(c)'
  BY <1>6 DEF Waits
<1> QED
  BY <1>2, <1>3, <1>6, <1>7 DEF IInv

LEMMA DialogInv ==
  ASSUME IInv, NEW j \in DOMAIN jobs, NoNewPassword(j) \/ NotChanged(j) \/ NoPassword(j) \/ NoAcl(j)
  PROVE  IInv'
<1>1. ASSUME NEW s \in {"no", "failed"}, Move(j, s), UNCHANGED <<backend, sessions, lost>>,
             jobs[j].stage \in {"new", "ask", "acl"}, jobs[j].stage = "acl" => Kind(j) # "create"
      PROVE  IInv'
  BY <1>1, MovedInv
<1> QED
  BY <1>1 DEF NoNewPassword, NotChanged, NoPassword, NoAcl, At

\* Steps that change neither collections nor prompts.
LEMMA QuietInv ==
  ASSUME IInv, UNCHANGED <<backend, asking, lost>>, sessions' \in SUBSET Sessions
  PROVE  IInv'
<1>1. UNCHANGED <<coll, watched, master, paths, gone, listed, bus, prompts, jobs, boxes, lost>>
  BY DEF backend, asking
<1>2. BackTypes'
  BY <1>1 DEF IInv, BackTypes
<1>3. BackInv'
  BY <1>1 DEF IInv, BackInv, CollInv, Open, Live
<1>4. \A c \in Colls : Open(c) => Open(c)'
  BY <1>1 DEF Open, Live
<1>5. AskTypes' /\ AskInv' /\ ReportInv' /\ \A c \in Colls : Pending(c) => Pending(c)'
  BY <1>4, AskingKept
<1>6. ListInv'
  <2>1. \A d \in Colls : coll'[d].here = coll[d].here
    BY <1>1
  <2>2. ListInv /\ paths \in SUBSET Colls /\ UNCHANGED <<master, paths>> /\ watched \subseteq watched'
    BY <1>1 DEF IInv, BackTypes
  <2>3. \A d \in Colls : Pending(d) => Pending(d)' \/ (d \in watched' /\ Live(d))
    BY ONLY <1>5
  <2> QED
    BY ONLY <2>1, <2>2, <2>3, ListKept
<1> QED
  BY <1>2, <1>3, <1>5, <1>6 DEF IInv

LEMMA BreakInv == ASSUME IInv, Break PROVE IInv'
<1>1. UNCHANGED <<backend, asking, lost>> /\ sessions' \in SUBSET Sessions
  BY DEF Break, IInv, BackTypes
<1> QED
  BY <1>1, QuietInv

\* A client asks for a prompt.
LEMMA NewPromptInv ==
  ASSUME IInv, NEW kind \in Kinds, NEW coldly \in BOOLEAN,
         NEW cs \in Seq(Colls \cup {None}), kind # "create" => cs \in Seq(Colls),
         kind # "unlock" => Len(cs) = 1,
         Ask(kind, coldly, cs), UNCHANGED <<backend, sessions, lost>>
  PROVE  IInv'
<1>1. AskTypes /\ AskInv /\ ReportInv
  BY DEF IInv
<1>2. /\ AskTypes' /\ AskInv'
      /\ DOMAIN prompts \subseteq DOMAIN prompts' /\ DOMAIN jobs \subseteq DOMAIN jobs'
      /\ \A p \in DOMAIN prompts : prompts'[p] = prompts[p]
      /\ \A p \in DOMAIN prompts' \ DOMAIN prompts : prompts'[p].completed = <<>>
      /\ \A j \in DOMAIN jobs : jobs'[j] = jobs[j]
      /\ \A j \in DOMAIN jobs' \ DOMAIN jobs : jobs'[j].stage = "idle"
  BY <1>1, AskedInv
<1>3. /\ BackTypes' /\ BackInv' /\ \A c \in Colls : (Open(c) <=> Open(c)') /\ (Live(c) <=> Live(c)')
      /\ (\A c \in Colls : Pending(c) => Pending(c)') => ListInv'
  BY BackendKept
<1>4. ReportInv'
  <2>1. \A c \in Colls, p \in DOMAIN prompts : WellEnded(c, p) => WellEnded(c, p)'
    BY ONLY <1>2, <1>3 DEF WellEnded
  <2>2. \A p \in DOMAIN prompts : Reported(p)
    BY ONLY <1>2 DEF Reported
  <2>3. \A j \in DOMAIN jobs' : \A c, p :
          jobs'[j].stage = "ok" /\ jobs'[j].coll = c /\ jobs'[j].prompt = p =>
            \/ j \in DOMAIN jobs /\ jobs[j].stage = "ok" /\ jobs[j].coll = c /\ jobs[j].prompt = p
            \/ WellEnded(c, p)'
    BY ONLY <1>2
  <2> QED
    BY ONLY <1>1, <1>2, <2>1, <2>2, <2>3, ReportKept
<1>5. \A c \in Colls : Pending(c) => Pending(c)'
  <2>1. \A j \in DOMAIN jobs : jobs[j].prompt \in DOMAIN prompts
    BY DEF IInv, AskInv, JobInv
  <2> QED
    BY ONLY <1>2, <2>1 DEF Pending, Waits, Kind
<1> QED
  BY <1>2, <1>3, <1>4, <1>5 DEF IInv

LEMMA CreateCollectionInv ==
  ASSUME IInv, NEW coldly \in BOOLEAN, CreateCollection(coldly)
  PROVE  IInv'
<1>1. <<None>> \in Seq(Colls \cup {None}) /\ Len(<<None>>) = 1 /\ "create" \in Kinds
  BY DEF Kinds
<1> QED
  BY <1>1, NewPromptInv DEF CreateCollection

LEMMA UnlockInv ==
  ASSUME IInv, NEW closed \in SeqOf(Colls, 2), Unlock(closed)
  PROVE  IInv'
<1>1. closed \in Seq(Colls) /\ closed \in Seq(Colls \cup {None}) /\ "unlock" \in Kinds
  <2>1. PICK m \in 0 .. 2 : closed \in [1 .. m -> Colls]
    BY DEF SeqOf
  <2>2. closed = [k \in 1 .. m |-> closed[k]] /\ \A k \in 1 .. m : closed[k] \in Colls
    BY <2>1
  <2>3. m \in Nat /\ closed \in Seq(Colls)
    BY <2>2
  <2> QED
    BY <2>2, <2>3 DEF Kinds
<1>2. CASE Break
  BY <1>2, BreakInv
<1>3. CASE Ask("unlock", FALSE, closed) /\ UNCHANGED <<backend, sessions, broken, lost, locks>>
  BY <1>1, <1>3, NewPromptInv
<1> QED
  BY <1>2, <1>3 DEF Unlock

LEMMA ChangePasswordInv ==
  ASSUME IInv, NEW c \in Colls, ChangePassword(c)
  PROVE  IInv'
<1>1. /\ <<c>> \in Seq(Colls) /\ <<c>> \in Seq(Colls \cup {None}) /\ Len(<<c>>) = 1
      /\ "change" \in Kinds
  BY DEF Kinds
<1>2. CASE Break
  BY <1>2, BreakInv
<1>3. CASE Ask("change", FALSE, <<c>>) /\ UNCHANGED <<backend, sessions, broken, lost, locks>>
  BY <1>1, <1>3, NewPromptInv
<1> QED
  BY <1>2, <1>3 DEF ChangePassword

-----------------------------------------------------------------------------
\* The jobs of a prompt that was neither shown nor dismissed leave their idle
\* stage, and no other prompt changes.
Roused(p) ==
  /\ DOMAIN prompts' = DOMAIN prompts /\ DOMAIN jobs' = DOMAIN jobs
  /\ \A q \in DOMAIN prompts \ {p} : prompts'[q] = prompts[q]
  /\ prompts'[p].kind = prompts[p].kind /\ ~prompts[p].prompted /\ prompts'[p].prompted
  /\ prompts[p].completed = <<>>
  /\ \A j \in DOMAIN jobs :
       /\ jobs'[j].prompt = jobs[j].prompt /\ jobs'[j].coll = jobs[j].coll
       /\ IF jobs[j].prompt = p THEN jobs[j].stage = "idle" /\ jobs'[j].stage # "idle"
                                ELSE jobs'[j] = jobs[j]

Shown(p) ==
  /\ Roused(p)
  /\ prompts'[p].completed = IF AllResults(p, jobs')
                              THEN <<[dismissed |-> FALSE, paths |-> Succeeded(p, jobs')]>> ELSE <<>>

\* prompt(): the unlocked end at once, and may complete the prompt; the others
\* open their dialogs.
LEMMA PromptStepInv ==
  ASSUME IInv, NEW p \in DOMAIN prompts, Prompt(p)
  PROVE  IInv' /\ (Break \/ Shown(p))
<1> DEFINE f == [j \in DOMAIN jobs |-> Started(j)]
           asked == [prompts EXCEPT ![p].prompted = TRUE]
           X == Succeeded(p, jobs')
<1>1. CASE Break
  BY <1>1, BreakInv
<1>2. CASE ~Break
  <2>1. /\ ~prompts[p].prompted
        /\ \A j \in JobsOf(p, jobs) : jobs[j].coll = None \/ Live(jobs[j].coll)
        /\ jobs' = [j \in DOMAIN jobs |-> IF jobs[j].prompt = p THEN [jobs[j] EXCEPT !.stage = Started(j)]
                                                               ELSE jobs[j]]
        /\ prompts' = IF AllResults(p, jobs') THEN Tell(asked, p, FALSE, X) ELSE asked
        /\ UNCHANGED <<boxes, backend, sessions, lost>>
    BY <1>2 DEF Prompt, MayPrompt
  <2>2. AskTypes /\ AskInv /\ ReportInv /\ PromptInv(p, jobs, prompts) /\ prompts \in Seq(Prompts)
    BY DEF IInv, AskInv, AskTypes
  <2>3. prompts[p] \in Prompts /\ prompts[p].completed = <<>>
    <3>1. prompts[p] \in Prompts
      BY ONLY <2>2, p \in DOMAIN prompts, SeqFacts
    <3> QED
      BY <2>1, <2>2, <3>1 DEF PromptInv
  <2>4. \A j \in JobsOf(p, jobs) :
          /\ j \in DOMAIN jobs /\ jobs[j].prompt = p /\ f[j] = Started(j)
          /\ f[j] \in {"new", "ask", "ok"}
          /\ f[j] = "ask" => prompts[p].kind # "create"
          /\ f[j] = "ok" => jobs[j].coll \in Colls /\ Open(jobs[j].coll)
    <3> SUFFICES ASSUME NEW j \in JobsOf(p, jobs)
                 PROVE  /\ j \in DOMAIN jobs /\ jobs[j].prompt = p /\ f[j] = Started(j)
                        /\ f[j] \in {"new", "ask", "ok"}
                        /\ f[j] = "ask" => prompts[p].kind # "create"
                        /\ f[j] = "ok" => jobs[j].coll \in Colls /\ Open(jobs[j].coll)
      OBVIOUS
    <3>1. j \in DOMAIN jobs /\ jobs[j].prompt = p /\ JobInv(j, jobs, prompts)
      BY <2>2 DEF JobsOf, AskInv
    <3>2. prompts[p].kind # "create" => jobs[j].coll \in Colls /\ Live(jobs[j].coll)
      BY <2>1, <3>1, ServiceAssumption DEF JobInv
    <3> QED
      BY <3>1, <3>2 DEF Started, Open
  <2>5. /\ asked \in Seq(Prompts) /\ DOMAIN asked = DOMAIN prompts
        /\ \A q \in DOMAIN prompts : q # p => asked[q] = prompts[q]
        /\ asked[p].kind = prompts[p].kind /\ asked[p].prompted
        /\ asked[p].shut = prompts[p].shut /\ asked[p].completed = prompts[p].completed
    <3> DEFINE e == [prompts[p] EXCEPT !.prompted = TRUE]
    <3>1. /\ e \in Prompts /\ e.kind = prompts[p].kind /\ e.prompted
          /\ e.shut = prompts[p].shut /\ e.completed = prompts[p].completed
      BY ONLY <2>3 DEF Prompts
    <3>2. asked = [prompts EXCEPT ![p] = e]
      OBVIOUS
    <3> HIDE DEF e, asked
    <3>3. /\ [prompts EXCEPT ![p] = e] \in Seq(Prompts)
          /\ DOMAIN [prompts EXCEPT ![p] = e] = DOMAIN prompts
          /\ [prompts EXCEPT ![p] = e][p] = e
          /\ \A k \in DOMAIN prompts : k # p => [prompts EXCEPT ![p] = e][k] = prompts[k]
      BY ONLY <2>2, <3>1, p \in DOMAIN prompts, ExceptFacts
    <3> QED
      BY ONLY <3>1, <3>2, <3>3
  <2>6. jobs' \in Seq(Jobs)
    <3>1. \A j \in DOMAIN jobs : jobs[j] \in Jobs
      BY ONLY <2>2, SeqFacts DEF AskTypes
    <3>2. \A j \in DOMAIN jobs : jobs'[j] \in Jobs
      <4> SUFFICES ASSUME NEW j \in DOMAIN jobs PROVE jobs'[j] \in Jobs
        OBVIOUS
      <4>1. CASE jobs[j].prompt = p
        <5>1. jobs'[j] = [jobs[j] EXCEPT !.stage = Started(j)] /\ Started(j) \in Stages
          BY <2>1, <2>4, <4>1 DEF Stages, Final, JobsOf
        <5> QED
          BY ONLY <3>1, <5>1, j \in DOMAIN jobs DEF Jobs
      <4>2. CASE jobs[j].prompt # p
        BY <2>1, <3>1, <4>2
      <4> QED
        BY <4>1, <4>2
    <3>3. Len(jobs) \in Nat /\ DOMAIN jobs = 1 .. Len(jobs)
      BY ONLY <2>2, SeqFacts DEF AskTypes
    <3>4. jobs' = [j \in 1 .. Len(jobs) |-> jobs'[j]]
      BY ONLY <2>1, <3>3
    <3> QED
      BY ONLY <3>2, <3>3, <3>4
  <2>7. X \in SUBSET (Colls \cup {None}) /\ [dismissed |-> FALSE, paths |-> X] \in Answers
    BY <2>6, SucceededType DEF Answers
  <2> HIDE DEF X, asked
  <2>8. /\ prompts' \in Seq(Prompts) /\ DOMAIN prompts' = DOMAIN prompts
        /\ \A q \in DOMAIN prompts : q # p => prompts'[q] = prompts[q]
        /\ prompts'[p].kind = prompts[p].kind /\ prompts'[p].prompted
        /\ prompts'[p].shut = prompts[p].shut
        /\ \/ ~AllResults(p, jobs') /\ prompts'[p].completed = <<>>
           \/ /\ AllResults(p, jobs') /\ Len(prompts'[p].completed) = 1
              /\ prompts'[p].completed = Append(prompts[p].completed, [dismissed |-> FALSE, paths |-> X])
    <3>1. CASE ~AllResults(p, jobs') /\ prompts' = asked
      BY <2>3, <2>5, <3>1
    <3>2. CASE AllResults(p, jobs') /\ prompts' = Tell(asked, p, FALSE, X)
      <4>1. p \in DOMAIN asked /\ FALSE \in BOOLEAN
        BY <2>5
      <4>2. /\ Tell(asked, p, FALSE, X) \in Seq(Prompts)
            /\ DOMAIN Tell(asked, p, FALSE, X) = DOMAIN asked
            /\ \A q \in DOMAIN asked : q # p => Tell(asked, p, FALSE, X)[q] = asked[q]
            /\ Tell(asked, p, FALSE, X)[p].kind = asked[p].kind
            /\ Tell(asked, p, FALSE, X)[p].prompted = asked[p].prompted
            /\ Tell(asked, p, FALSE, X)[p].shut = asked[p].shut
            /\ Tell(asked, p, FALSE, X)[p].completed
                 = Append(asked[p].completed, [dismissed |-> FALSE, paths |-> X])
        BY ONLY <2>5, <2>7, <4>1, TellFacts
      <4>3. Len(Append(<<>>, [dismissed |-> FALSE, paths |-> X])) = 1
        OBVIOUS
      <4>4. Append(asked[p].completed, [dismissed |-> FALSE, paths |-> X])
              = Append(<<>>, [dismissed |-> FALSE, paths |-> X])
        BY ONLY <2>3, <2>5
      <4>5. Len(prompts'[p].completed) = 1
        BY ONLY <3>2, <4>2, <4>3, <4>4
      <4> QED
        BY ONLY <2>3, <2>5, <3>2, <4>2, <4>5
    <3> QED
      BY <2>1, <3>1, <3>2
  <2>9. /\ AskTypes' /\ AskInv' /\ DOMAIN jobs' = DOMAIN jobs
        /\ \A j \in DOMAIN jobs : j \notin JobsOf(p, jobs) => jobs'[j] = jobs[j]
        /\ \A j \in JobsOf(p, jobs) :
             /\ jobs[j].stage = "idle" /\ jobs'[j].stage = f[j]
             /\ jobs'[j].coll = jobs[j].coll /\ jobs'[j].prompt = p
    <3>1. jobs' = [j \in DOMAIN jobs |-> IF jobs[j].prompt = p THEN [jobs[j] EXCEPT !.stage = f[j]]
                                                               ELSE jobs[j]]
      BY <2>1
    <3>2. \A j \in JobsOf(p, jobs) : /\ f[j] \in {"new", "ask", "ok", "no"}
                                     /\ f[j] = "ask" => prompts[p].kind # "create"
                                     /\ f[j] = "ok" => jobs[j].coll \in Colls
      BY <2>4
    <3>3. \/ prompts'[p].completed = <<>>
          \/ AllResults(p, jobs') /\ Len(prompts'[p].completed) = 1
      BY ONLY <2>8
    <3> HIDE DEF f
    <3> QED
      BY ONLY <2>1, <2>2, <2>8, <3>1, <3>2, <3>3, p \in DOMAIN prompts, PromptedInv
  <2>10. /\ BackTypes' /\ BackInv' /\ \A c \in Colls : (Open(c) <=> Open(c)') /\ (Live(c) <=> Live(c)')
         /\ (\A c \in Colls : Pending(c) => Pending(c)') => ListInv'
    BY <2>1, BackendKept
  <2>11. ReportInv'
    <3>1. \A c \in Colls, q \in DOMAIN prompts : WellEnded(c, q) => WellEnded(c, q)'
      <4>1. \A q \in DOMAIN prompts : prompts'[q].shut = prompts[q].shut
        BY ONLY <2>8
      <4> QED
        BY ONLY <2>10, <4>1 DEF WellEnded
    <3>2. \A q \in DOMAIN prompts : Reported(q)
      BY <2>3, <2>7, <2>8 DEF Reported, X
    <3>3. \A j \in DOMAIN jobs' : \A c, q :
            jobs'[j].stage = "ok" /\ jobs'[j].coll = c /\ jobs'[j].prompt = q =>
              \/ j \in DOMAIN jobs /\ jobs[j].stage = "ok" /\ jobs[j].coll = c /\ jobs[j].prompt = q
              \/ WellEnded(c, q)'
      BY ONLY <2>4, <2>9, <2>10 DEF WellEnded
    <3>4. DOMAIN prompts \subseteq DOMAIN prompts' /\ DOMAIN prompts' \ DOMAIN prompts = {}
      BY <2>8
    <3> QED
      BY ONLY <2>2, <3>1, <3>2, <3>3, <3>4, ReportKept
  <2>12. \A c \in Colls : Pending(c) => Pending(c)'
    <3>1. \A q \in DOMAIN prompts : prompts'[q].kind = prompts[q].kind
      BY ONLY <2>8
    <3>2. \A j \in DOMAIN jobs : jobs[j].prompt \in DOMAIN prompts
      BY <2>2 DEF AskInv, JobInv
    <3> QED
      BY ONLY <2>9, <3>1, <3>2 DEF Pending, Waits, Kind
  <2>13. Shown(p)
    <3>1. \A j \in DOMAIN jobs : jobs[j].prompt = p <=> j \in JobsOf(p, jobs)
      BY DEF JobsOf
    <3>2. \A j \in DOMAIN jobs :
            /\ jobs'[j].prompt = jobs[j].prompt /\ jobs'[j].coll = jobs[j].coll
            /\ IF jobs[j].prompt = p THEN jobs[j].stage = "idle" /\ jobs'[j].stage # "idle"
                                     ELSE jobs'[j] = jobs[j]
      BY ONLY <2>4, <2>9, <3>1
    <3>3. Append(prompts[p].completed, [dismissed |-> FALSE, paths |-> X])
            = <<[dismissed |-> FALSE, paths |-> X]>>
      BY ONLY <2>3
    <3> QED
      BY <2>1, <2>3, <2>8, <2>9, <3>2, <3>3 DEF Shown, Roused, X
  <2> QED
    BY <2>9, <2>10, <2>11, <2>12, <2>13 DEF IInv
<1> QED
  BY <1>1, <1>2

\* dismiss(): no job ever starts, and the prompt completes with nothing.
Dismissed(p) ==
  /\ Roused(p)
  /\ \A j \in DOMAIN jobs : jobs[j].prompt = p => jobs'[j].stage = "no"
  /\ prompts'[p].completed = <<[dismissed |-> TRUE, paths |-> {}]>>

LEMMA DismissInv ==
  ASSUME IInv, NEW p \in DOMAIN prompts, Dismiss(p)
  PROVE  IInv' /\ Dismissed(p)
<1> DEFINE f == [j \in DOMAIN jobs |-> "no"]
           asked == [prompts EXCEPT ![p].prompted = TRUE, ![p].dismissed = TRUE]
           a == [dismissed |-> TRUE, paths |-> {}]
<1>1. /\ ~prompts[p].prompted
      /\ jobs' = [j \in DOMAIN jobs |-> IF jobs[j].prompt = p THEN [jobs[j] EXCEPT !.stage = "no"]
                                                             ELSE jobs[j]]
      /\ prompts' = Tell(asked, p, TRUE, {})
      /\ UNCHANGED <<boxes, backend, sessions, lost>>
  BY DEF Dismiss, MayPrompt
<1>2. AskTypes /\ AskInv /\ ReportInv /\ PromptInv(p, jobs, prompts) /\ prompts \in Seq(Prompts)
  BY DEF IInv, AskInv, AskTypes
<1>3. prompts[p] \in Prompts /\ prompts[p].completed = <<>>
  <2>1. prompts[p] \in Prompts
    BY ONLY <1>2, p \in DOMAIN prompts, SeqFacts
  <2> QED
    BY <1>1, <1>2, <2>1 DEF PromptInv
<1>4. a \in Answers
  BY DEF Answers
<1>5. /\ asked \in Seq(Prompts) /\ DOMAIN asked = DOMAIN prompts
      /\ \A q \in DOMAIN prompts : q # p => asked[q] = prompts[q]
      /\ asked[p].kind = prompts[p].kind /\ asked[p].prompted
      /\ asked[p].shut = prompts[p].shut /\ asked[p].completed = prompts[p].completed
  <2> DEFINE e == [prompts[p] EXCEPT !.prompted = TRUE, !.dismissed = TRUE]
  <2>1. /\ e \in Prompts /\ e.kind = prompts[p].kind /\ e.prompted
        /\ e.shut = prompts[p].shut /\ e.completed = prompts[p].completed
    BY ONLY <1>3 DEF Prompts
  <2>2. asked = [prompts EXCEPT ![p] = e]
    OBVIOUS
  <2> HIDE DEF e, asked
  <2>3. /\ [prompts EXCEPT ![p] = e] \in Seq(Prompts)
        /\ DOMAIN [prompts EXCEPT ![p] = e] = DOMAIN prompts
        /\ [prompts EXCEPT ![p] = e][p] = e
        /\ \A k \in DOMAIN prompts : k # p => [prompts EXCEPT ![p] = e][k] = prompts[k]
    BY ONLY <1>2, <2>1, p \in DOMAIN prompts, ExceptFacts
  <2> QED
    BY ONLY <2>1, <2>2, <2>3
<1> HIDE DEF asked
<1>6. /\ prompts' \in Seq(Prompts) /\ DOMAIN prompts' = DOMAIN prompts
      /\ \A q \in DOMAIN prompts : q # p => prompts'[q] = prompts[q]
      /\ prompts'[p].kind = prompts[p].kind /\ prompts'[p].prompted
      /\ prompts'[p].shut = prompts[p].shut
      /\ Len(prompts'[p].completed) = 1
      /\ prompts'[p].completed = Append(prompts[p].completed, a)
  <2>1. p \in DOMAIN asked /\ TRUE \in BOOLEAN /\ {} \in SUBSET (Colls \cup {None})
    BY <1>5
  <2>2. /\ Tell(asked, p, TRUE, {}) \in Seq(Prompts)
        /\ DOMAIN Tell(asked, p, TRUE, {}) = DOMAIN asked
        /\ \A q \in DOMAIN asked : q # p => Tell(asked, p, TRUE, {})[q] = asked[q]
        /\ Tell(asked, p, TRUE, {})[p].kind = asked[p].kind
        /\ Tell(asked, p, TRUE, {})[p].prompted = asked[p].prompted
        /\ Tell(asked, p, TRUE, {})[p].shut = asked[p].shut
        /\ Tell(asked, p, TRUE, {})[p].completed = Append(asked[p].completed, a)
    BY ONLY <1>5, <2>1, TellFacts
  <2>3. Len(Append(<<>>, a)) = 1
    OBVIOUS
  <2>4. Append(asked[p].completed, a) = Append(<<>>, a)
    BY ONLY <1>3, <1>5
  <2>5. Len(prompts'[p].completed) = 1
    BY ONLY <1>1, <2>2, <2>3, <2>4
  <2> QED
    BY ONLY <1>1, <1>3, <1>5, <2>2, <2>5
<1> HIDE DEF a
<1>7. /\ AskTypes' /\ AskInv' /\ DOMAIN jobs' = DOMAIN jobs
      /\ \A j \in DOMAIN jobs : j \notin JobsOf(p, jobs) => jobs'[j] = jobs[j]
      /\ \A j \in JobsOf(p, jobs) :
           /\ jobs[j].stage = "idle" /\ jobs'[j].stage = f[j]
           /\ jobs'[j].coll = jobs[j].coll /\ jobs'[j].prompt = p
  <2>1. jobs' = [j \in DOMAIN jobs |-> IF jobs[j].prompt = p THEN [jobs[j] EXCEPT !.stage = f[j]]
                                                             ELSE jobs[j]]
    BY <1>1
  <2>2. \A j \in JobsOf(p, jobs) : j \in DOMAIN jobs /\ f[j] = "no" /\ jobs[j].prompt = p
    BY DEF JobsOf
  <2>3. AllResults(p, jobs')
    <3>1. ASSUME NEW j \in JobsOf(p, jobs') PROVE jobs'[j].stage \in Final
      <4>1. j \in DOMAIN jobs /\ jobs'[j].prompt = p
        BY <1>1 DEF JobsOf
      <4>2. jobs[j] \in Jobs
        BY ONLY <1>2, <4>1, SeqFacts DEF AskTypes
      <4> QED
        BY ONLY <1>1, <4>1, <4>2 DEF Jobs, Final
    <3> QED
      BY <3>1 DEF AllResults
  <2>4. \A j \in JobsOf(p, jobs) : /\ f[j] \in {"new", "ask", "ok", "no"}
                                   /\ f[j] = "ask" => prompts[p].kind # "create"
                                   /\ f[j] = "ok" => jobs[j].coll \in Colls
    BY ONLY <2>2
  <2>5. \/ prompts'[p].completed = <<>>
        \/ AllResults(p, jobs') /\ Len(prompts'[p].completed) = 1
    BY ONLY <1>6, <2>3
  <2> HIDE DEF f
  <2> QED
    BY ONLY <1>1, <1>2, <1>6, <2>1, <2>4, <2>5, p \in DOMAIN prompts, PromptedInv
<1>8. /\ BackTypes' /\ BackInv' /\ \A c \in Colls : (Open(c) <=> Open(c)') /\ (Live(c) <=> Live(c)')
      /\ (\A c \in Colls : Pending(c) => Pending(c)') => ListInv'
  BY <1>1, BackendKept
<1>9. ReportInv'
  <2>1. \A c \in Colls, q \in DOMAIN prompts : WellEnded(c, q) => WellEnded(c, q)'
    <3>1. \A q \in DOMAIN prompts : prompts'[q].shut = prompts[q].shut
      BY ONLY <1>6
    <3> QED
      BY ONLY <1>8, <3>1 DEF WellEnded
  <2>2. \A q \in DOMAIN prompts : Reported(q)
    <3>1. a.paths = {}
      BY DEF a
    <3> QED
      BY <1>3, <1>4, <1>6, <3>1 DEF Reported
  <2>3. \A j \in DOMAIN jobs' : \A c, q :
          jobs'[j].stage = "ok" /\ jobs'[j].coll = c /\ jobs'[j].prompt = q =>
            \/ j \in DOMAIN jobs /\ jobs[j].stage = "ok" /\ jobs[j].coll = c /\ jobs[j].prompt = q
            \/ WellEnded(c, q)'
    <3>1. \A j \in JobsOf(p, jobs) : jobs'[j].stage = "no"
      BY <1>7 DEF JobsOf
    <3> QED
      BY ONLY <1>7, <3>1
  <2>4. DOMAIN prompts \subseteq DOMAIN prompts' /\ DOMAIN prompts' \ DOMAIN prompts = {}
    BY <1>6
  <2> QED
    BY ONLY <1>2, <1>7, <2>1, <2>2, <2>3, <2>4, ReportKept
<1>10. \A c \in Colls : Pending(c) => Pending(c)'
  <2>1. \A q \in DOMAIN prompts : prompts'[q].kind = prompts[q].kind
    BY ONLY <1>6
  <2>2. \A j \in DOMAIN jobs : jobs[j].prompt \in DOMAIN prompts
    BY <1>2 DEF AskInv, JobInv
  <2> QED
    BY ONLY <1>7, <2>1, <2>2 DEF Pending, Waits, Kind
<1>11. Dismissed(p)
  <2>1. \A j \in DOMAIN jobs : jobs[j].prompt = p <=> j \in JobsOf(p, jobs)
    BY DEF JobsOf
  <2>2. \A j \in JobsOf(p, jobs) : jobs'[j].stage = "no"
    BY <1>7 DEF JobsOf
  <2>3. Append(prompts[p].completed, a) = <<a>>
    BY ONLY <1>3
  <2>4. \A j \in DOMAIN jobs :
          /\ jobs'[j].prompt = jobs[j].prompt /\ jobs'[j].coll = jobs[j].coll
          /\ IF jobs[j].prompt = p THEN jobs[j].stage = "idle" /\ jobs'[j].stage = "no"
                                   ELSE jobs'[j] = jobs[j]
    BY ONLY <1>7, <2>1, <2>2
  <2>5. Roused(p)
    BY ONLY <1>1, <1>3, <1>6, <1>7, <2>4 DEF Roused
  <2> QED
    BY <1>6, <2>3, <2>4, <2>5 DEF Dismissed, a
<1> QED
  BY <1>7, <1>8, <1>9, <1>10, <1>11 DEF IInv

-----------------------------------------------------------------------------
\* A new collection: there, listed, and its creator waits for the ACL answer.
LEMMA NewPasswordInv ==
  ASSUME IInv, NEW j \in DOMAIN jobs, NEW c \in Colls, NewPassword(j, c)
  PROVE  IInv'
<1> DEFINE e == [NoColl EXCEPT !.here = "live", !.locked = prompts[jobs[j].prompt].locked]
<1>1. /\ jobs[j].stage = "new" /\ Kind(j) = "create"
      /\ c \notin Found /\ coll[c].here = "none"
      /\ coll' = [coll EXCEPT ![c] = e]
      /\ master' = master \cup {c} /\ paths' = paths \cup {c}
      /\ jobs' = [jobs EXCEPT ![j].coll = c, ![j].stage = "acl"]
      /\ UNCHANGED <<watched, gone, listed, bus, sessions, prompts, boxes, lost>>
  BY DEF NewPassword, At, Announce
<1>2. /\ AskTypes /\ AskInv /\ ReportInv /\ ListInv /\ CollInv(c)
      /\ coll \in [Colls -> Collections] /\ paths \in SUBSET Colls
  BY DEF IInv, BackInv, BackTypes
<1>3. /\ AskTypes' /\ AskInv' /\ OthersKept(j)
      /\ jobs'[j].coll = c /\ jobs'[j].stage = "acl"
  <2>1. UNCHANGED <<prompts, boxes>>
    BY <1>1
  <2> QED
    BY ONLY <1>1, <1>2, <2>1, j \in DOMAIN jobs, c \in Colls, CreatedInv
<1>4. prompts[jobs[j].prompt] \in Prompts
  <2>1. jobs[j].prompt \in DOMAIN prompts
    BY <1>2 DEF AskInv, JobInv
  <2> QED
    BY ONLY <1>2, <2>1, SeqFacts DEF AskTypes
<1>5. /\ coll' \in [Colls -> Collections]
      /\ coll'[c].here = "live" /\ coll'[c].items = {} /\ coll'[c].wired = {} /\ coll'[c].dead = {}
      /\ \A d \in Colls : d # c => coll'[d] = coll[d]
  <2>1. e \in Collections /\ e.here = "live" /\ e.items = {} /\ e.wired = {} /\ e.dead = {}
    BY ONLY <1>4 DEF Collections, NoColl, Prompts
  <2> HIDE DEF e
  <2> QED
    BY ONLY <1>1, <1>2, <2>1, c \in Colls
<1> HIDE DEF e
<1>6. BackTypes'
  BY <1>1, <1>5 DEF IInv, BackTypes
<1>7. BackInv'
  <2>1. CollInv(c)'
    <3>1. /\ coll[c].items = {} /\ bus'[c] = bus[c] /\ listed'[c] = listed[c] /\ ~Open(c)
          /\ c \notin lost' => c \notin lost
      BY <1>1, <1>2 DEF CollInv, Open, Live
    <3>2. c \notin lost => listed[c] = {}
      BY <1>2, <3>1 DEF CollInv
    <3>3. \A i \in Items : bus[c][i] # "good"
      BY <1>2, <3>1 DEF CollInv
    <3> QED
      BY ONLY <1>5, <3>1, <3>2, <3>3 DEF CollInv, Live
  <2>2. ASSUME NEW d \in Colls, d # c PROVE CollInv(d)'
    BY <1>1, <1>5, <2>2, CollKept DEF IInv, BackInv
  <2>3. \A d \in Found : coll'[d] = coll[d]
    BY <1>1, <1>5, ServiceAssumption
  <2> QED
    BY <2>1, <2>2, <2>3 DEF IInv, BackInv
<1>8. /\ ReportInv'
      /\ \A d \in Colls : Pending(d) => Pending(d)' \/ Waits(j, d)
  <2>1. \A d \in Colls : Open(d) => Open(d)'
    BY <1>1, <1>5 DEF Open, Live
  <2>2. \A d : jobs'[j].stage = "ok" /\ jobs'[j].coll = d => d \in Colls /\ Open(d)'
    BY ONLY <1>3
  <2>3. PromptsKept
    BY <1>1 DEF PromptsKept, Reported
  <2> QED
    BY ONLY <1>2, <1>3, <2>1, <2>2, <2>3, j \in DOMAIN jobs, OneJobKept
<1>9. ListInv'
  <2>1. \A d \in Colls : Pending(d) => Pending(d)'
    BY <1>1, <1>8 DEF Waits
  <2>2. Pending(c)'
    <3>1. prompts'[jobs'[j].prompt].kind = "create" /\ j \in DOMAIN jobs'
      BY <1>1, <1>3 DEF OthersKept, Kind
    <3> QED
      BY ONLY <1>3, <3>1 DEF Pending, Waits, Kind
  <2>3. Live(c)' /\ \A d \in Colls : d # c => (Live(d)' <=> Live(d))
    BY <1>5 DEF Live
  <2>4. watched' = watched /\ master' = master \cup {c} /\ paths' = paths \cup {c}
    BY <1>1
  <2> QED
    BY ONLY <1>2, <2>1, <2>2, <2>3, <2>4, c \in Colls DEF ListInv
<1> QED
  BY <1>3, <1>6, <1>7, <1>8, <1>9 DEF IInv

\* A locked collection is opened: what it holds is listed, with new objects.
LEMMA LoadedKept ==
  ASSUME IInv, NEW c \in Colls, Live(c), ~Open(c), NEW got, got \subseteq coll[c].file,
         Loaded(c, got), UNCHANGED <<sessions, lost>>
  PROVE  /\ BackTypes' /\ BackInv' /\ Open(c)' /\ UNCHANGED <<watched, master, paths>>
         /\ \A d \in Colls : (Open(d) => Open(d)') /\ coll'[d].here = coll[d].here
<1> DEFINE now == coll[c].items \cup got
<1>1. /\ coll' = [coll EXCEPT ![c].locked = FALSE, ![c].items = now, ![c].wired = {}, ![c].dead = {}]
      /\ listed' = [listed EXCEPT ![c] = @ \cup now]
      /\ bus' = [bus EXCEPT ![c] = [i \in Items |-> IF i \in now \ listed[c] THEN "good" ELSE @[i]]]
      /\ UNCHANGED <<watched, master, paths, gone, sessions, lost>>
  BY DEF Loaded
<1>2. /\ coll \in [Colls -> Collections] /\ listed \in [Colls -> SUBSET Items]
      /\ bus \in [Colls -> [Items -> {"none", "good", "stale"}]] /\ CollInv(c)
  BY DEF IInv, BackTypes, BackInv
<1>3. /\ coll' \in [Colls -> Collections]
      /\ coll'[c].here = "live" /\ ~coll'[c].locked
      /\ coll'[c].items = now /\ coll'[c].wired = {} /\ coll'[c].dead = {}
      /\ \A d \in Colls : d # c => coll'[d] = coll[d]
  <2> DEFINE e == [coll[c] EXCEPT !.locked = FALSE, !.items = now, !.wired = {}, !.dead = {}]
  <2>1. coll' = [coll EXCEPT ![c] = e]
    BY ONLY <1>1, <1>2
  <2>2. /\ e \in Collections /\ e.here = "live" /\ ~e.locked /\ e.items = now
        /\ e.wired = {} /\ e.dead = {}
    BY ONLY <1>2, Live(c), c \in Colls, got \subseteq coll[c].file DEF Collections, Live
  <2> HIDE DEF e
  <2> QED
    BY ONLY <1>2, <2>1, <2>2, c \in Colls
<1>4. /\ listed' \in [Colls -> SUBSET Items] /\ listed'[c] = listed[c] \cup now
      /\ bus' \in [Colls -> [Items -> {"none", "good", "stale"}]]
      /\ \A i \in Items : bus'[c][i] = IF i \in now \ listed[c] THEN "good" ELSE bus[c][i]
      /\ \A d \in Colls : d # c => bus'[d] = bus[d] /\ listed'[d] = listed[d]
  <2> DEFINE b == [i \in Items |-> IF i \in now \ listed[c] THEN "good" ELSE bus[c][i]]
  <2>1. now \in SUBSET Items
    BY ONLY <1>2, c \in Colls, got \subseteq coll[c].file DEF Collections
  <2>2. b \in [Items -> {"none", "good", "stale"}] /\ bus' = [bus EXCEPT ![c] = b]
    BY ONLY <1>1, <1>2, c \in Colls
  <2>3. \A i \in Items : b[i] = IF i \in now \ listed[c] THEN "good" ELSE bus[c][i]
    OBVIOUS
  <2> HIDE DEF b
  <2> QED
    BY ONLY <1>1, <1>2, <2>1, <2>2, <2>3, c \in Colls
<1>5. BackTypes'
  BY <1>1, <1>3, <1>4 DEF IInv, BackTypes
<1>6. BackInv'
  <2>1. CollInv(c)'
    <3>1. \A i \in Items : bus'[c][i] = "good" => i \in now
      BY ONLY <1>2, <1>4 DEF CollInv
    <3>2. c \notin lost => listed[c] = {}
      BY ONLY <1>2, ~Open(c) DEF CollInv
    <3>3. Open(c)'
      BY <1>3 DEF Open, Live
    <3>4. c \notin lost => listed'[c] = now /\ \A i \in now : bus'[c][i] = "good"
      <4>1. now \in SUBSET Items
        BY ONLY <1>2, c \in Colls, got \subseteq coll[c].file DEF Collections
      <4> QED
        BY ONLY <1>4, <3>2, <4>1
    <3>5. lost' = lost
      BY <1>1
    <3> QED
      BY ONLY <1>3, <3>1, <3>3, <3>4, <3>5 DEF CollInv
  <2>2. ASSUME NEW d \in Colls, d # c PROVE CollInv(d)'
    BY <1>1, <1>3, <1>4, <2>2, CollKept DEF IInv, BackInv
  <2>3. \A d \in Colls : coll'[d].here = coll[d].here
    BY <1>3 DEF Live
  <2> QED
    BY <2>1, <2>2, <2>3, ServiceAssumption DEF IInv, BackInv
<1>7. \A d \in Colls : (Open(d) => Open(d)') /\ coll'[d].here = coll[d].here
  BY <1>3 DEF Open, Live
<1>8. Open(c)' /\ UNCHANGED <<watched, master, paths>>
  BY <1>1, <1>3 DEF Open, Live
<1> QED
  BY ONLY <1>5, <1>6, <1>7, <1>8

LEMMA AskPasswordInv ==
  ASSUME IInv, NEW j \in DOMAIN jobs, NEW got, AskPassword(j, got)
  PROVE  IInv'
<1>0. PICK c : c = jobs[j].coll
  OBVIOUS
<1> DEFINE next == IF Kind(j) = "change" THEN "new" ELSE IF coll[c].knows THEN "ok" ELSE "acl"
<1>1. CASE Break
  BY <1>1, BreakInv
<1>2. ASSUME Live(c), Move(j, next), UNCHANGED <<sessions, lost>>, jobs[j].stage = "ask",
             got \subseteq coll[c].file, IF Open(c) THEN UNCHANGED backend ELSE Loaded(c, got)
      PROVE  IInv'
  <2>1. AskTypes /\ AskInv /\ ReportInv /\ ListInv /\ paths \in SUBSET Colls
    BY DEF IInv, BackTypes
  <2>2. c \in Colls /\ Kind(j) # "create" /\ next \in {"new", "acl", "ok", "no", "failed"}
    BY <1>0, <1>2, <2>1 DEF AskInv, JobInv, Kind
  <2> HIDE DEF next
  <2>3. CASE Open(c)
    BY <1>0, <1>2, <2>2, <2>3, MovedInv
  <2>4. CASE ~Open(c)
    <3>1. /\ AskTypes' /\ AskInv' /\ PromptsKept /\ OthersKept(j) /\ jobs'[j].coll = c
      BY <1>0, <1>2, <2>1, <2>2, MoveInv
    <3>2. /\ BackTypes' /\ BackInv' /\ Open(c)' /\ UNCHANGED <<watched, master, paths>>
          /\ \A d \in Colls : (Open(d) => Open(d)') /\ coll'[d].here = coll[d].here
      <4>1. Live(c) /\ ~Open(c) /\ got \subseteq coll[c].file /\ Loaded(c, got) /\ UNCHANGED <<sessions, lost>>
        BY <1>2, <2>4
      <4> QED
        BY ONLY IInv, <2>2, <4>1, LoadedKept
    <3>3. /\ ReportInv'
          /\ \A d \in Colls : Pending(d) => Pending(d)' \/ Waits(j, d)
      <4>1. \A d : jobs'[j].stage = "ok" /\ jobs'[j].coll = d => d \in Colls /\ Open(d)'
        BY ONLY <2>2, <3>1, <3>2
      <4>2. \A d \in Colls : Open(d) => Open(d)'
        BY ONLY <3>2
      <4> QED
        BY ONLY <2>1, <3>1, <4>1, <4>2, j \in DOMAIN jobs, OneJobKept
    <3>4. \A d \in Colls : Pending(d) => Pending(d)' \/ (d \in watched' /\ Live(d))
      BY <1>2, <3>3 DEF Waits
    <3>5. ListInv'
      <4>1. /\ \A d \in Colls : coll'[d].here = coll[d].here
            /\ UNCHANGED <<master, paths>> /\ watched \subseteq watched'
        BY ONLY <3>2
      <4> QED
        BY ONLY <2>1, <3>4, <4>1, ListKept
    <3> QED
      BY ONLY <3>1, <3>2, <3>3, <3>5 DEF IInv
  <2> QED
    BY <2>3, <2>4
<1> HIDE DEF next
<1>3. \/ Break
      \/ /\ Live(c) /\ got \subseteq coll[c].file /\ Move(j, next) /\ UNCHANGED <<sessions, lost>> /\ jobs[j].stage = "ask"
         /\ IF Open(c) THEN UNCHANGED backend ELSE Loaded(c, got)
  BY <1>0 DEF AskPassword, At, next
<1> QED
  BY <1>1, <1>2, <1>3

-----------------------------------------------------------------------------
\* The ACL answer is kept in the collection, and its creator's makes the
\* manager watch it.
LEMMA KnowsKept ==
  ASSUME IInv, NEW c \in Colls, NEW b \in BOOLEAN, NEW saved \in BOOLEAN,
         coll' = [coll EXCEPT ![c].knows = b, ![c].file = IF saved THEN coll[c].items ELSE @],
         watched' \in SUBSET Colls, UNCHANGED <<master, paths, gone, listed, bus, sessions, lost>>
  PROVE  /\ BackTypes' /\ BackInv'
         /\ \A d \in Colls : (Open(d) <=> Open(d)') /\ coll'[d].here = coll[d].here
<1>1. coll \in [Colls -> Collections]
  BY DEF IInv, BackTypes
<1>2. /\ coll' \in [Colls -> Collections]
      /\ coll'[c].here = coll[c].here /\ coll'[c].locked = coll[c].locked
      /\ coll'[c].items = coll[c].items /\ coll'[c].wired = coll[c].wired
      /\ coll'[c].dead = coll[c].dead
      /\ \A d \in Colls : d # c => coll'[d] = coll[d]
  <2> DEFINE e == [coll[c] EXCEPT !.knows = b, !.file = IF saved THEN coll[c].items ELSE @]
  <2>1. /\ e \in Collections /\ e.here = coll[c].here /\ e.locked = coll[c].locked
        /\ e.items = coll[c].items /\ e.wired = coll[c].wired /\ e.dead = coll[c].dead
    BY ONLY <1>1, c \in Colls, b \in BOOLEAN, saved \in BOOLEAN DEF Collections
  <2>2. coll' = [coll EXCEPT ![c] = e]
    OBVIOUS
  <2> HIDE DEF e
  <2> QED
    BY ONLY <1>1, <2>1, <2>2, c \in Colls
<1>3. BackTypes'
  BY <1>2 DEF IInv, BackTypes
<1>4. \A d \in Colls : (Open(d) <=> Open(d)') /\ coll'[d].here = coll[d].here
  BY <1>2 DEF Open, Live
<1>5. BackInv'
  <2>1. CollInv(c)'
    BY <1>2, <1>4 DEF IInv, BackInv, CollInv
  <2>2. ASSUME NEW d \in Colls, d # c PROVE CollInv(d)'
    BY <1>2, <2>2, CollKept DEF IInv, BackInv
  <2> QED
    BY <1>4, <2>1, <2>2, ServiceAssumption DEF IInv, BackInv
<1> QED
  BY <1>3, <1>4, <1>5

LEMMA AclAnswerInv ==
  ASSUME IInv, NEW j \in DOMAIN jobs, NEW exe \in BOOLEAN, AclAnswer(j, exe)
  PROVE  IInv'
<1> DEFINE c == jobs[j].coll
           stored == Open(c) /\ exe
           create == Kind(j) = "create"
           s == IF ~stored THEN "failed" ELSE IF Kind(j) = "change" THEN "new" ELSE "ok"
<1>1. CASE Break
  BY <1>1, BreakInv
<1>2. CASE ~Break
  <2>1. /\ Live(c) /\ jobs[j].stage = "acl"
        /\ coll' = [coll EXCEPT ![c].knows = @ \/ stored,
                                ![c].file = IF stored THEN coll[c].items ELSE @]
        /\ watched' = IF create THEN watched \cup {c} ELSE watched
        /\ IF create /\ ~stored
           THEN /\ jobs' = [jobs EXCEPT ![j].stage = "box", ![j].refused = TRUE]
                /\ boxes' = Append(boxes, j)
                /\ UNCHANGED prompts
           ELSE Move(j, s)
        /\ UNCHANGED <<master, paths, gone, listed, bus, sessions, lost>>
    BY <1>2 DEF AclAnswer, At
  <2>2. AskTypes /\ AskInv /\ ReportInv /\ ListInv /\ paths \in SUBSET Colls /\ watched \in SUBSET Colls
    BY DEF IInv, BackTypes
  <2>3. c \in Colls
    BY <2>1, <2>2 DEF AskInv, JobInv
  <2>4. s \in {"new", "acl", "ok", "no", "failed"} /\ s # "acl" /\ (s = "ok" => Open(c))
    OBVIOUS
  <2>5. PICK b \in BOOLEAN, saved \in BOOLEAN :
          coll' = [coll EXCEPT ![c].knows = b, ![c].file = IF saved THEN coll[c].items ELSE @]
    <3>1. (coll[c].knows \/ stored) \in BOOLEAN /\ stored \in BOOLEAN
      BY DEF Open, Live
    <3> QED
      BY <2>1, <3>1
  <2> HIDE DEF c, stored, s
  <2>6. /\ BackTypes' /\ BackInv'
        /\ \A d \in Colls : (Open(d) <=> Open(d)') /\ coll'[d].here = coll[d].here
    <3>1. watched' \in SUBSET Colls /\ UNCHANGED <<master, paths, gone, listed, bus, sessions, lost>>
      BY <2>1, <2>2, <2>3
    <3> QED
      BY ONLY IInv, <2>3, <2>5, <3>1, KnowsKept
  <2>7. /\ AskTypes' /\ AskInv' /\ PromptsKept /\ OthersKept(j)
        /\ jobs'[j].stage = "ok" => jobs'[j].coll = c /\ Open(c)
    <3>1. CASE create /\ ~stored
      <4>1. /\ AskTypes' /\ AskInv' /\ OthersKept(j) /\ jobs'[j].stage = "box"
        BY ONLY <2>1, <2>2, <3>1, j \in DOMAIN jobs, RefusedInv
      <4>2. PromptsKept
        BY <2>1, <3>1 DEF PromptsKept, Reported
      <4> QED
        BY ONLY <4>1, <4>2
    <3>2. CASE ~(create /\ ~stored)
      <4>1. Move(j, s)
        BY <2>1, <3>2
      <4>2. /\ AskTypes' /\ AskInv' /\ PromptsKept /\ OthersKept(j)
            /\ jobs'[j].coll = jobs[j].coll
            /\ jobs'[j].stage = "ok" <=> s = "ok"
        BY <2>1, <2>2, <2>3, <2>4, <4>1, MoveInv DEF c
      <4> QED
        BY <2>4, <4>2 DEF c
    <3> QED
      BY <3>1, <3>2
  <2>8. /\ ReportInv'
        /\ \A d \in Colls : Pending(d) => Pending(d)' \/ Waits(j, d)
    <3>1. \A d : jobs'[j].stage = "ok" /\ jobs'[j].coll = d => d \in Colls /\ Open(d)'
      BY ONLY <2>3, <2>6, <2>7
    <3>2. \A d \in Colls : Open(d) => Open(d)'
      BY ONLY <2>6
    <3> QED
      BY ONLY <2>2, <2>7, <3>1, <3>2, j \in DOMAIN jobs, OneJobKept
  <2>9. \A d \in Colls : Pending(d) => Pending(d)' \/ (d \in watched' /\ Live(d))
    BY <2>1, <2>8 DEF Waits, c
  <2>10. ListInv'
    <3>1. /\ \A d \in Colls : coll'[d].here = coll[d].here
          /\ UNCHANGED <<master, paths>> /\ watched \subseteq watched'
      BY <2>1, <2>6
    <3> QED
      BY ONLY <2>2, <2>9, <3>1, ListKept
  <2> QED
    BY ONLY <2>6, <2>7, <2>8, <2>10 DEF IInv
<1> QED
  BY <1>1, <1>2

\* A message box is closed.
LEMMA CloseBoxStepInv == ASSUME IInv, CloseBox PROVE IInv'
<1>0. PICK j, p : j = Innermost /\ p = jobs[j].prompt
  OBVIOUS
<1>1. CASE Break
  BY <1>1, BreakInv
<1>2. CASE ~Break
  <2>1. /\ boxes # <<>> /\ prompts' = Tell(prompts, p, FALSE, {})
        /\ UNCHANGED <<backend, sessions, lost>>
        /\ \/ jobs[j].refused /\ UNCHANGED <<jobs, boxes>>
           \/ /\ jobs' = [jobs EXCEPT ![j].stage = "failed"] /\ boxes' = Front(boxes)
              /\ ~jobs[j].refused \/ prompts[p].completed # <<>>
    BY <1>0, <1>2 DEF CloseBox
  <2>2. AskTypes /\ AskInv /\ ReportInv
    BY DEF IInv
  <2>3. /\ AskTypes' /\ AskInv' /\ PromptsKept
        /\ j \in DOMAIN jobs /\ jobs[j].stage = "box" /\ jobs'[j].stage \in {"box", "failed"}
        /\ OthersKept(j)
    BY ONLY <1>0, <2>1, <2>2, CloseBoxInv
  <2>4. /\ BackTypes' /\ BackInv' /\ \A c \in Colls : (Open(c) <=> Open(c)') /\ (Live(c) <=> Live(c)')
        /\ (\A c \in Colls : Pending(c) => Pending(c)') => ListInv'
    BY <2>1, BackendKept
  <2>5. /\ ReportInv'
        /\ \A c \in Colls : Pending(c) => Pending(c)' \/ Waits(j, c)
    <3>1. \A c : jobs'[j].stage = "ok" /\ jobs'[j].coll = c => c \in Colls /\ Open(c)'
      BY ONLY <2>3
    <3>2. \A c \in Colls : Open(c) => Open(c)'
      BY ONLY <2>4
    <3> QED
      BY ONLY <2>2, <2>3, <3>1, <3>2, OneJobKept
  <2>6. \A c \in Colls : Pending(c) => Pending(c)'
    BY ONLY <2>3, <2>5 DEF Waits
  <2> QED
    BY ONLY <2>3, <2>4, <2>5, <2>6 DEF IInv
<1> QED
  BY <1>1, <1>2

-----------------------------------------------------------------------------
\* Every step keeps the invariant. An action that may meet a deleted object
\* either ends the run there (Break) or is the step of its lemma.
LEMMA NextInv == IInv /\ [Next]_vars => IInv'
<1> SUFFICES ASSUME IInv, [Next]_vars PROVE IInv'
  OBVIOUS
<1>1. CASE Discover
  BY <1>1, DiscoverInv
<1>2. ASSUME NEW s \in Sessions, OpenSession(s) \/ CloseSession(s) PROVE IInv'
  <2>1. sessions \in SUBSET Sessions
    BY DEF IInv, BackTypes
  <2>2. UNCHANGED <<backend, asking, lost>> /\ sessions' \in SUBSET Sessions
    BY <1>2, <2>1 DEF OpenSession, CloseSession
  <2> QED
    BY <2>2, QuietInv
<1>3. ASSUME NEW coldly \in BOOLEAN, CreateCollection(coldly) PROVE IInv'
  BY <1>3, CreateCollectionInv
<1>4. ASSUME NEW closed \in SeqOf(Colls, 2), Unlock(closed) PROVE IInv'
  BY <1>4, UnlockInv
<1>5. ASSUME NEW c \in Colls, ChangePassword(c) \/ Lock(c) \/ DeleteCollection(c) PROVE IInv'
  <2>1. CASE ChangePassword(c)
    BY <2>1, ChangePasswordInv
  <2>2. CASE Lock(c)
    <3>1. Break \/ broken' # TRUE
      BY <2>2 DEF Lock
    <3> QED
      BY <2>2, <3>1, BreakInv, LockInv
  <2>3. CASE DeleteCollection(c)
    <3>1. Break \/ broken' # TRUE
      BY <2>3 DEF DeleteCollection
    <3> QED
      BY <2>3, <3>1, BreakInv, DeleteCollectionInv
  <2> QED
    BY <1>5, <2>1, <2>2, <2>3
<1>6. ASSUME NEW p \in DOMAIN prompts, Prompt(p) \/ Dismiss(p) PROVE IInv'
  BY <1>6, PromptStepInv, DismissInv
<1>7. CASE Search
  BY <1>7, BreakInv DEF Search
<1>8. ASSUME NEW c \in Colls, NEW i \in Items, NEW replace \in BOOLEAN, CreateItem(c, i, replace)
      PROVE  IInv'
  <2>1. Break \/ broken' # TRUE
    BY <1>8 DEF CreateItem
  <2> QED
    BY <1>8, <2>1, BreakInv, CreateItemInv
<1>9. ASSUME NEW c \in Colls, NEW i \in Items, NEW secret \in BOOLEAN, UseItem(c, i, secret)
      PROVE  IInv'
  BY <1>9, BreakInv DEF UseItem
<1>10. ASSUME NEW c \in Colls, NEW i \in Items, DeleteItem(c, i) PROVE IInv'
  <2>1. Break \/ broken' # TRUE
    BY <1>10 DEF DeleteItem
  <2> QED
    BY <1>10, <2>1, BreakInv, DeleteItemInv
<1>11. CASE CloseBox
  BY <1>11, CloseBoxStepInv
<1>12. ASSUME NEW j \in DOMAIN jobs, Answer(j) PROVE IInv'
  <2>1. ASSUME NEW c \in Colls, NewPassword(j, c) PROVE IInv'
    BY <2>1, NewPasswordInv
  <2>2. ASSUME NoNewPassword(j) \/ NotChanged(j) \/ NoPassword(j) \/ NoAcl(j) PROVE IInv'
    BY <2>2, DialogInv
  <2>3. ASSUME NEW got \in SUBSET Items, AskPassword(j, got) PROVE IInv'
    BY <2>3, AskPasswordInv
  <2>4. ASSUME NEW exe \in BOOLEAN, AclAnswer(j, exe) PROVE IInv'
    BY <2>4, AclAnswerInv
  <2> QED
    BY <1>12, <2>1, <2>2, <2>3, <2>4 DEF Answer
<1>13. CASE UNCHANGED vars
  <2>1. UNCHANGED <<backend, asking, lost>> /\ sessions' \in SUBSET Sessions
    BY <1>13 DEF vars, IInv, BackTypes
  <2> QED
    BY <2>1, QuietInv
<1>14. CASE Client
  BY <1>2, <1>3, <1>4, <1>5, <1>6, <1>7, <1>8, <1>9, <1>10, <1>14 DEF Client
<1>15. CASE User
  BY <1>11, <1>12, <1>15 DEF User
<1> QED
  BY <1>1, <1>13, <1>14, <1>15 DEF Next

LEMMA SpecInv == Spec => []IInv
BY InitInv, NextInv, PTL DEF Spec

-----------------------------------------------------------------------------
\* A job keeps a prompt, a prompt keeps its kind, and a message box is open for
\* exactly the jobs that wait in one: QMessageBox's nested loops in the dialogs
\* of the daemon close innermost first, whatever else clients do meanwhile.
THEOREM TypesHold == Spec => []TypeOK
<1>1. IInv => TypeOK
  <2> SUFFICES ASSUME IInv PROVE TypeOK
    OBVIOUS
  <2>1. ASSUME NEW c \in Colls
        PROVE  /\ coll[c].here \in {"none", "live", "gone"}
               /\ coll[c].wired \cup coll[c].dead \subseteq coll[c].items
               /\ coll[c].items \cup coll[c].file \cup listed[c] \subseteq Items
               /\ bus[c] \in [Items -> {"none", "good", "stale"}]
    <3>1. coll[c] \in Collections
      BY DEF IInv, BackTypes
    <3> QED
      BY <3>1 DEF IInv, BackTypes, BackInv, CollInv, Collections
  <2>2. watched \cup master \cup paths \cup gone \cup lost \subseteq Colls /\ sessions \subseteq Sessions
    BY DEF IInv, BackTypes
  <2>3. \A p \in DOMAIN prompts : prompts[p].kind \in Kinds
    <3>1. \A p \in DOMAIN prompts : prompts[p] \in Prompts
      BY SeqFacts DEF IInv, AskTypes
    <3> QED
      BY <3>1 DEF Prompts
  <2>4. \A j \in DOMAIN jobs : jobs[j].prompt \in DOMAIN prompts /\ jobs[j].stage \in Stages
    <3>1. \A j \in DOMAIN jobs : jobs[j] \in Jobs
      BY SeqFacts DEF IInv, AskTypes
    <3> QED
      BY <3>1 DEF Jobs, IInv, AskInv, JobInv
  <2>5. ToSet(boxes) = {j \in DOMAIN jobs : jobs[j].stage = "box"}
    <3>1. BoxInv(jobs, boxes)
      BY DEF IInv, AskInv
    <3> QED
      BY ONLY <3>1 DEF BoxInv, ToSet
  <2>6. IsInjective(boxes)
    BY DEF IInv, AskInv, BoxInv, IsInjective
  <2> QED
    BY <2>1, <2>2, <2>3, <2>4, <2>5, <2>6 DEF TypeOK
<1> QED
  BY <1>1, SpecInv, PTL

\* Prompt::Prompt and dismiss share m_prompted: with any number of jobs, calls
\* of prompt() and dismiss(), and clients in between, a prompt's Completed
\* signal is sent once, but for the create job that emits its result twice.
THEOREM PromptCompletesOnce == Spec => []CompletesOnce
<1>1. IInv => CompletesOnce
  BY DEF IInv, AskInv, PromptInv, CompletesOnce
<1> QED
  BY <1>1, SpecInv, PTL

\* A prompt over several jobs reports when the last has ended
\* (ServiceMultiPrompt::jobResult): nobody is left to answer a dialog whose
\* prompt is over.
THEOREM NoDialogLeftBehind == Spec => []NothingLeftBehind
<1>1. IInv => NothingLeftBehind
  BY DEF IInv, AskInv, PromptInv, NothingLeftBehind
<1> QED
  BY <1>1, SpecInv, PTL

\* What completed() names is open - the job that ended well left it so, and
\* only lock() and deleteCollection() close a collection, whoever calls them
\* while other jobs of the prompt still wait for the user.
THEOREM ReportsAreTrue == Spec => []ReportedIsOpen
<1>1. IInv => ReportedIsOpen
  BY DEF IInv, ReportInv, WellEnded, ReportedIsOpen
<1> QED
  BY <1>1, SpecInv, PTL

\* The list of BackendMaster and the Collections property of the Service are
\* the same list; every live collection is on it, and a deleted one only when
\* the manager could not have heard of it: found on disk, or its creator's ACL
\* dialog still open.
THEOREM ListsAgree == Spec => []ListsAreLive
<1>1. IInv => ListsAreLive
  BY DEF IInv, ListInv, Pending, Waits, ListsAreLive
<1> QED
  BY <1>1, SpecInv, PTL

\* A frontend Collection lists the items its KSecretCollection holds, each with
\* a usable Item object, through unlocks, creations and deletions in any order,
\* until one of the three steps that lose items (lost).
THEOREM FrontendFollowsBackend == Spec => []ItemsAgree
<1>1. IInv => ItemsAgree
  <2> SUFFICES ASSUME IInv, NEW c \in Colls \ lost, Open(c)
               PROVE  listed[c] = coll[c].items /\ \A i \in listed[c] : bus[c][i] = "good"
    BY DEF ItemsAgree
  <2>1. CollInv(c)
    BY DEF IInv, BackInv
  <2> QED
    BY <2>1 DEF CollInv
<1> QED
  BY <1>1, SpecInv, PTL

-----------------------------------------------------------------------------
(***************************************************************************)
(* SecretService implements PromptPromise. A step of the service changes    *)
(* what a client sees of one prompt at most.                                *)
(***************************************************************************)

\* A prompt to create knows no collection until its password dialog is answered.
NewInv ==
  \A j \in DOMAIN jobs : Kind(j) = "create" /\ jobs[j].stage \in {"idle", "new"} => jobs[j].coll = None

LEMMA BoardFacts ==
  /\ DOMAIN Board = DOMAIN prompts /\ \A p \in DOMAIN prompts : Board[p] = Seen(p)
  /\ Board = [p \in DOMAIN prompts |-> Seen(p)]
  /\ Board' = [p \in DOMAIN prompts' |-> Seen(p)']
BY DEF Board

State(p) == IF ~prompts[p].prompted THEN "made" ELSE IF Unanswered(p) THEN "waits" ELSE "over"

\* What is seen of a prompt whose jobs stay and keep their collections.
LEMMA SeenAfter ==
  ASSUME NEW p, prompts'[p].kind = prompts[p].kind,
         \A j : j \in JobsOf(p, jobs') <=> j \in JobsOf(p, jobs),
         \A j \in JobsOf(p, jobs) : jobs'[j].coll = jobs[j].coll
  PROVE  Seen(p)' = [about |-> Seen(p).about, creates |-> Seen(p).creates, state |-> State(p)',
                     told |-> prompts'[p].completed]
<1> DEFINE A == {jobs[j].coll : j \in JobsOf(p, jobs)} \ {None}
           B == {jobs'[j].coll : j \in JobsOf(p, jobs')} \ {None}
<1>1. A = B
  OBVIOUS
<1>2. Seen(p).about = A /\ Seen(p).creates = (prompts[p].kind = "create")
  BY DEF Seen
<1>3. Seen(p)' = [about |-> B, creates |-> prompts[p].kind = "create", state |-> State(p)',
                  told |-> prompts'[p].completed]
  BY DEF Seen, State
<1> HIDE DEF A, B
<1> QED
  BY ONLY <1>1, <1>2, <1>3

LEMMA SeenNow ==
  ASSUME NEW p
  PROVE  /\ Seen(p).creates <=> prompts[p].kind = "create"
         /\ Seen(p).state = State(p) /\ Seen(p).told = prompts[p].completed
         /\ Seen(p) = [about |-> Seen(p).about, creates |-> Seen(p).creates, state |-> State(p),
                       told |-> prompts[p].completed]
BY DEF Seen, State

LEMMA SeenKept ==
  ASSUME NEW p, prompts'[p].kind = prompts[p].kind, prompts'[p].completed = prompts[p].completed,
         \A j : j \in JobsOf(p, jobs') <=> j \in JobsOf(p, jobs),
         \A j \in JobsOf(p, jobs) : jobs'[j].coll = jobs[j].coll,
         State(p)' = State(p)
  PROVE  Seen(p)' = Seen(p)
<1>1. Seen(p)' = [about |-> Seen(p).about, creates |-> Seen(p).creates, state |-> State(p)',
                  told |-> prompts'[p].completed]
  BY SeenAfter
<1>2. Seen(p) = [about |-> Seen(p).about, creates |-> Seen(p).creates, state |-> State(p),
                 told |-> prompts[p].completed]
  BY SeenNow
<1>3. State(p)' = State(p) /\ prompts'[p].completed = prompts[p].completed
  OBVIOUS
<1> QED
  BY ONLY <1>1, <1>2, <1>3

\* Of a prompt whose jobs do not move, the same is seen.
LEMMA SeenUntouched ==
  ASSUME NEW p, prompts'[p].kind = prompts[p].kind, prompts'[p].prompted = prompts[p].prompted,
         prompts'[p].completed = prompts[p].completed,
         \A j : j \in JobsOf(p, jobs') <=> j \in JobsOf(p, jobs),
         \A j \in JobsOf(p, jobs) : jobs'[j] = jobs[j]
  PROVE  Seen(p)' = Seen(p)
<1>1. State(p)' = State(p)
  BY DEF State, Unanswered
<1> QED
  BY <1>1, SeenKept

LEMMA BoardKept ==
  ASSUME DOMAIN prompts' = DOMAIN prompts, \A p \in DOMAIN prompts : Seen(p)' = Seen(p)
  PROVE  Board' = Board
BY BoardFacts

\* A step that shows a client something new of prompt p only.
Only(p) == DOMAIN prompts' = DOMAIN prompts /\ \A q \in DOMAIN prompts \ {p} : Seen(q)' = Seen(q)

LEMMA BoardBecomes ==
  ASSUME NEW p \in DOMAIN prompts, Only(p), NEW about, NEW state, NEW told,
         Seen(p)' = [about |-> about, creates |-> Seen(p).creates, state |-> state, told |-> told]
  PROVE  Promise!Become(p, about, state, told)
<1>1. Board' = [Board EXCEPT ![p] = [about |-> about, creates |-> Seen(p).creates, state |-> state,
                                     told |-> told]]
  BY BoardFacts DEF Only
<1>2. Board[p] = Seen(p)
  BY BoardFacts
<1> QED
  BY <1>1, <1>2 DEF Promise!Become

LEMMA OneKept ==
  ASSUME NEW p \in DOMAIN prompts, Only(p), Seen(p)' = Seen(p)
  PROVE  Board' = Board
BY BoardKept DEF Only

\* One job of a prompt, or all of them, may have moved.
LEMMA OnlyOne ==
  ASSUME NEW p \in DOMAIN prompts, DOMAIN prompts' = DOMAIN prompts, DOMAIN jobs' = DOMAIN jobs,
         \A q \in DOMAIN prompts \ {p} : prompts'[q] = prompts[q],
         \A j \in DOMAIN jobs : /\ jobs'[j].prompt = jobs[j].prompt
                                /\ jobs[j].prompt # p => jobs'[j] = jobs[j]
  PROVE  /\ Only(p)
         /\ \A j : j \in JobsOf(p, jobs') <=> j \in JobsOf(p, jobs)
<1>1. \A q, j : j \in JobsOf(q, jobs') <=> j \in JobsOf(q, jobs)
  BY DEF JobsOf
<1>2. ASSUME NEW q \in DOMAIN prompts \ {p} PROVE Seen(q)' = Seen(q)
  <2>1. \A j \in JobsOf(q, jobs) : jobs'[j] = jobs[j]
    BY DEF JobsOf
  <2> QED
    BY <1>1, <2>1, SeenUntouched
<1> QED
  BY <1>1, <1>2 DEF Only

\* Jobs that ended well name collections their prompt is about.
LEMMA SucceededAbout ==
  ASSUME NEW p, ReportInv', \A j : j \in JobsOf(p, jobs') <=> j \in JobsOf(p, jobs),
         \A j \in JobsOf(p, jobs) : jobs'[j].coll = jobs[j].coll
  PROVE  Succeeded(p, jobs') \in SUBSET Seen(p).about
<1> SUFFICES ASSUME NEW j \in JobsOf(p, jobs'), jobs'[j].stage = "ok"
             PROVE  jobs'[j].coll \in Seen(p).about
  BY DEF Succeeded
<1>1. jobs'[j].coll \in Colls /\ j \in JobsOf(p, jobs) /\ jobs'[j].coll = jobs[j].coll
  BY DEF ReportInv, WellEnded, JobsOf
<1>2. jobs[j].coll # None
  BY <1>1, ServiceAssumption
<1> QED
  BY <1>1, <1>2 DEF Seen

\* The steps of the promise, as what is seen of p tells them.
LEMMA AnswerSeen ==
  ASSUME NEW p \in DOMAIN prompts, Only(p), State(p) # "over", prompts[p].completed = <<>>,
         NEW done \in SUBSET Seen(p).about,
         Seen(p)' = [about |-> Seen(p).about, creates |-> Seen(p).creates, state |-> "over",
                     told |-> <<[dismissed |-> FALSE, paths |-> done]>>]
  PROVE  Promise!Next
<1>1. /\ p \in DOMAIN Board /\ Board[p] = Seen(p)
      /\ Seen(p).state # "over" /\ Seen(p).told = <<>>
  BY BoardFacts, SeenNow
<1>2. Promise!Become(p, Seen(p).about, "over", <<[dismissed |-> FALSE, paths |-> done]>>)
  BY BoardBecomes
<1>3. Promise!Answer(p, done)
  BY ONLY <1>1, <1>2 DEF Promise!Answer, Promise!Says
<1> QED
  BY ONLY <1>1, <1>3, done \in SUBSET Seen(p).about DEF Promise!Next

LEMMA ShowSeen ==
  ASSUME NEW p \in DOMAIN prompts, Only(p), State(p) = "made",
         Seen(p)' = [about |-> Seen(p).about, creates |-> Seen(p).creates, state |-> "waits",
                     told |-> <<>>]
  PROVE  Promise!Next
<1>1. p \in DOMAIN Board /\ Board[p] = Seen(p) /\ Seen(p).state = "made"
  BY BoardFacts, SeenNow
<1>2. Promise!Become(p, Seen(p).about, "waits", <<>>)
  BY BoardBecomes
<1>3. Promise!Show(p)
  BY ONLY <1>1, <1>2 DEF Promise!Show
<1> QED
  BY ONLY <1>1, <1>3 DEF Promise!Next

LEMMA DismissSeen ==
  ASSUME NEW p \in DOMAIN prompts, Only(p), State(p) = "made",
         Seen(p)' = [about |-> Seen(p).about, creates |-> Seen(p).creates, state |-> "over",
                     told |-> <<[dismissed |-> TRUE, paths |-> {}]>>]
  PROVE  Promise!Next
<1>1. p \in DOMAIN Board /\ Board[p] = Seen(p) /\ Seen(p).state = "made"
  BY BoardFacts, SeenNow
<1>2. Promise!Become(p, Seen(p).about, "over", <<[dismissed |-> TRUE, paths |-> {}]>>)
  BY BoardBecomes
<1>3. Promise!Dismiss(p)
  BY ONLY <1>1, <1>2 DEF Promise!Dismiss, Promise!Says
<1> QED
  BY ONLY <1>1, <1>3 DEF Promise!Next

LEMMA CreateSeen ==
  ASSUME NEW p \in DOMAIN prompts, Only(p), prompts[p].kind = "create", State(p) = "waits",
         Seen(p).about = {}, NEW c \in Colls,
         Seen(p)' = [about |-> {c}, creates |-> Seen(p).creates, state |-> "waits",
                     told |-> prompts[p].completed]
  PROVE  Promise!Next
<1>1. /\ p \in DOMAIN Board /\ Board[p] = Seen(p)
      /\ Seen(p).state = "waits" /\ Seen(p).creates /\ Seen(p).told = prompts[p].completed
  BY BoardFacts, SeenNow
<1>2. Promise!Become(p, {c}, "waits", prompts[p].completed)
  BY BoardBecomes
<1>3. Promise!Create(p, c)
  BY ONLY <1>1, <1>2, Seen(p).about = {} DEF Promise!Create
<1> QED
  BY ONLY <1>1, <1>3, c \in Colls DEF Promise!Next

\* The two answers of a create job that could not store the permission.
LEMMA AdmitSeen ==
  ASSUME NEW p \in DOMAIN prompts, Only(p), prompts[p].kind = "create", State(p) = "waits",
         prompts[p].completed = <<>>,
         Seen(p)' = [about |-> Seen(p).about, creates |-> Seen(p).creates, state |-> "waits",
                     told |-> <<[dismissed |-> FALSE, paths |-> {}]>>]
  PROVE  Promise!Next
<1>1. /\ p \in DOMAIN Board /\ Board[p] = Seen(p)
      /\ Seen(p).state = "waits" /\ Seen(p).creates /\ Seen(p).told = <<>>
  BY BoardFacts, SeenNow
<1>2. Promise!Become(p, Seen(p).about, "waits", <<[dismissed |-> FALSE, paths |-> {}]>>)
  BY BoardBecomes
<1>3. Promise!Admit(p)
  BY ONLY <1>1, <1>2 DEF Promise!Admit, Promise!Says
<1> QED
  BY ONLY <1>1, <1>3 DEF Promise!Next

LEMMA RepeatSeen ==
  ASSUME NEW p \in DOMAIN prompts, Only(p), prompts[p].kind = "create", State(p) = "waits",
         prompts[p].completed # <<>>,
         Seen(p)' = [about |-> Seen(p).about, creates |-> Seen(p).creates, state |-> "over",
                     told |-> Append(prompts[p].completed, [dismissed |-> FALSE, paths |-> {}])]
  PROVE  Promise!Next
<1>1. /\ p \in DOMAIN Board /\ Board[p] = Seen(p) /\ Seen(p).told = prompts[p].completed
      /\ Seen(p).state = "waits" /\ Seen(p).creates /\ Seen(p).told # <<>>
  BY BoardFacts, SeenNow
<1>2. Promise!Become(p, Seen(p).about, "over",
                     Append(prompts[p].completed, [dismissed |-> FALSE, paths |-> {}]))
  BY BoardBecomes
<1>3. Promise!Repeat(p)
  BY ONLY <1>1, <1>2 DEF Promise!Repeat, Promise!Says
<1> QED
  BY ONLY <1>1, <1>3 DEF Promise!Next

-----------------------------------------------------------------------------
\* What is the same to clients and to NewInv.
LEMMA QuietSeen ==
  ASSUME NewInv, UNCHANGED jobs, DOMAIN prompts' = DOMAIN prompts,
         \A p \in DOMAIN prompts : /\ prompts'[p].kind = prompts[p].kind
                                   /\ prompts'[p].prompted = prompts[p].prompted
                                   /\ prompts'[p].completed = prompts[p].completed,
         AskInv
  PROVE  Board' = Board /\ NewInv'
<1>1. \A p \in DOMAIN prompts : Seen(p)' = Seen(p)
  BY SeenUntouched
<1>2. NewInv'
  BY DEF NewInv, Kind, AskInv, JobInv
<1> QED
  BY <1>1, <1>2, BoardKept

LEMMA AskedSeen ==
  ASSUME IInv, IInv', NewInv, NEW kind \in Kinds, NEW coldly \in BOOLEAN, NEW n \in Nat, Room(n),
         NEW cs \in Seq(Colls \cup {None}), kind # "create" => cs \in Seq(Colls),
         kind = "create" => cs = <<None>>, kind # "unlock" => Len(cs) = 1,
         Ask(kind, coldly, cs)
  PROVE  Promise!Next /\ NewInv'
<1>0. PICK new : new = Len(prompts) + 1
  OBVIOUS
<1> DEFINE about == {jobs'[j].coll : j \in JobsOf(new, jobs')} \ {None}
<1>1. AskTypes /\ AskInv /\ AskTypes'
  BY DEF IInv
<1>2. /\ DOMAIN prompts \subseteq DOMAIN prompts' /\ DOMAIN jobs \subseteq DOMAIN jobs'
      /\ \A p \in DOMAIN prompts : prompts'[p] = prompts[p]
      /\ \A j \in DOMAIN jobs : jobs'[j] = jobs[j]
      /\ \A j \in DOMAIN jobs' \ DOMAIN jobs : jobs'[j].stage = "idle"
      /\ Added(kind, cs)
  BY <1>1, AskedInv
<1>3. /\ DOMAIN prompts' = DOMAIN prompts \cup {new} /\ new \notin DOMAIN prompts
      /\ prompts'[new].kind = kind /\ ~prompts'[new].prompted /\ prompts'[new].completed = <<>>
      /\ \A j \in DOMAIN jobs' \ DOMAIN jobs :
           jobs'[j].prompt = new /\ \E k \in DOMAIN cs : jobs'[j].coll = cs[k]
  BY <1>0, <1>2 DEF Added
<1>4. new \in 1 .. MaxPrompts
  <2>1. Len(prompts) \in Nat /\ MaxPrompts \in Nat
    BY <1>1, SeqFacts, ServiceAssumption DEF AskTypes
  <2> QED
    BY <1>0, <2>1 DEF Room
<1>5. \A j \in DOMAIN jobs : jobs[j].prompt \in DOMAIN prompts
  BY <1>1 DEF AskInv, JobInv
<1>6. \A p \in DOMAIN prompts : Seen(p)' = Seen(p)
  <2> SUFFICES ASSUME NEW p \in DOMAIN prompts PROVE Seen(p)' = Seen(p)
    OBVIOUS
  <2>1. \A j : j \in JobsOf(p, jobs') <=> j \in JobsOf(p, jobs)
    BY ONLY <1>2, <1>3, p \in DOMAIN prompts DEF JobsOf
  <2>2. prompts'[p] = prompts[p] /\ \A j \in JobsOf(p, jobs) : jobs'[j] = jobs[j]
    BY <1>2 DEF JobsOf
  <2> QED
    BY <2>1, <2>2, SeenUntouched
<1>7. about \in SUBSET Colls /\ (kind = "create" => about = {})
  <2>1. \A j \in JobsOf(new, jobs') : j \in DOMAIN jobs' \ DOMAIN jobs
    BY ONLY <1>2, <1>3, <1>5 DEF JobsOf
  <2>2. \A j \in DOMAIN jobs' : jobs'[j] \in Jobs
    BY <1>1, SeqFacts DEF AskTypes
  <2>3. about \in SUBSET Colls
    BY <2>1, <2>2 DEF Jobs
  <2>4. kind = "create" => \A k \in DOMAIN cs : cs[k] = None
    OBVIOUS
  <2>5. kind = "create" => \A j \in JobsOf(new, jobs') : jobs'[j].coll = None
    BY ONLY <1>3, <2>1, <2>4
  <2> QED
    BY ONLY <2>3, <2>5
<1>8. Seen(new)' = [about |-> about, creates |-> kind = "create", state |-> "made", told |-> <<>>]
  <2>1. Seen(new)' = [about |-> about, creates |-> prompts'[new].kind = "create",
                      state |-> IF ~prompts'[new].prompted THEN "made"
                                ELSE IF Unanswered(new)' THEN "waits" ELSE "over",
                      told |-> prompts'[new].completed]
    BY DEF Seen
  <2> HIDE DEF about
  <2> QED
    BY <1>3, <2>1
<1> HIDE DEF about
<1>9. Promise!Make(new, about, kind = "create")
  <2>1. Board' = [q \in DOMAIN Board \cup {new} |->
                    IF q = new THEN Promise!Fresh(about, kind = "create") ELSE Board[q]]
    BY <1>3, <1>6, <1>8, BoardFacts DEF Promise!Fresh
  <2>2. new \notin DOMAIN Board
    BY <1>3, BoardFacts
  <2> QED
    BY <1>7, <2>1, <2>2 DEF Promise!Make
<1>10. Promise!Next
  BY <1>4, <1>7, <1>9 DEF Promise!Next
<1>11. NewInv'
  <2> SUFFICES ASSUME NEW j \in DOMAIN jobs', prompts'[jobs'[j].prompt].kind = "create",
                      jobs'[j].stage \in {"idle", "new"}
               PROVE  jobs'[j].coll = None
    BY DEF NewInv, Kind
  <2>1. CASE j \in DOMAIN jobs
    BY <1>2, <1>5, <2>1 DEF NewInv, Kind
  <2>2. CASE j \notin DOMAIN jobs
    BY <1>3, <2>2
  <2> QED
    BY <2>1, <2>2
<1> QED
  BY <1>10, <1>11

\* prompt() shows it, or answers at once; dismiss() says so.
LEMMA RousedSeen ==
  ASSUME IInv, IInv', NewInv, NEW p \in DOMAIN prompts, Roused(p), Shown(p) \/ Dismissed(p)
  PROVE  Promise!Next /\ NewInv'
<1>1. /\ DOMAIN prompts' = DOMAIN prompts /\ DOMAIN jobs' = DOMAIN jobs
      /\ \A q \in DOMAIN prompts \ {p} : prompts'[q] = prompts[q]
      /\ prompts'[p].kind = prompts[p].kind /\ ~prompts[p].prompted /\ prompts'[p].prompted
      /\ prompts[p].completed = <<>>
      /\ \A j \in DOMAIN jobs :
           /\ jobs'[j].prompt = jobs[j].prompt /\ jobs'[j].coll = jobs[j].coll
           /\ IF jobs[j].prompt = p THEN jobs[j].stage = "idle" /\ jobs'[j].stage # "idle"
                                    ELSE jobs'[j] = jobs[j]
  BY DEF Roused
<1>2. Only(p) /\ \A j : j \in JobsOf(p, jobs') <=> j \in JobsOf(p, jobs)
  BY ONLY <1>1, p \in DOMAIN prompts, OnlyOne
<1>3. \A j \in JobsOf(p, jobs) : /\ j \in DOMAIN jobs /\ jobs'[j].coll = jobs[j].coll
                                 /\ jobs'[j].stage # "idle"
  BY ONLY <1>1 DEF JobsOf
<1>4. Seen(p)' = [about |-> Seen(p).about, creates |-> Seen(p).creates, state |-> State(p)',
                  told |-> prompts'[p].completed]
  BY ONLY <1>1, <1>2, <1>3, SeenAfter
<1>5. State(p) = "made" /\ State(p)' = IF Unanswered(p)' THEN "waits" ELSE "over"
  BY ONLY <1>1 DEF State
<1>6. Unanswered(p)' <=> \E j \in JobsOf(p, jobs') : jobs'[j].stage \notin Final
  BY ONLY <1>2, <1>3 DEF Unanswered
<1>7. Promise!Next
  <2>1. CASE Shown(p) /\ AllResults(p, jobs')
    <3>1. ~Unanswered(p)' /\ prompts'[p].completed = <<[dismissed |-> FALSE, paths |-> Succeeded(p, jobs')]>>
      BY <1>6, <2>1 DEF Shown, AllResults
    <3>2. Succeeded(p, jobs') \in SUBSET Seen(p).about
      <4>1. ReportInv'
        BY DEF IInv
      <4> QED
        BY ONLY <1>2, <1>3, <4>1, SucceededAbout
    <3> QED
      BY ONLY <1>1, <1>2, <1>4, <1>5, <3>1, <3>2, p \in DOMAIN prompts, AnswerSeen
  <2>2. CASE Shown(p) /\ ~AllResults(p, jobs')
    <3>1. Unanswered(p)' /\ prompts'[p].completed = <<>>
      BY <1>6, <2>2 DEF Shown, AllResults
    <3> QED
      BY ONLY <1>2, <1>4, <1>5, <3>1, p \in DOMAIN prompts, ShowSeen
  <2>3. CASE Dismissed(p)
    <3>1. prompts'[p].completed = <<[dismissed |-> TRUE, paths |-> {}]>>
      BY <2>3 DEF Dismissed
    <3>2. \A j \in JobsOf(p, jobs') : jobs'[j].stage \in Final
      BY <1>2, <2>3 DEF Dismissed, JobsOf, Final
    <3>3. ~Unanswered(p)'
      BY ONLY <1>6, <3>2
    <3> QED
      BY ONLY <1>2, <1>4, <1>5, <3>1, <3>3, p \in DOMAIN prompts, DismissSeen
  <2> QED
    BY <2>1, <2>2, <2>3
<1>8. NewInv'
  <2>1. \A j \in DOMAIN jobs : jobs[j].prompt \in DOMAIN prompts
    BY DEF IInv, AskInv, JobInv
  <2>2. \A q \in DOMAIN prompts : prompts'[q].kind = prompts[q].kind
    BY ONLY <1>1
  <2> QED
    BY <1>1, <2>1, <2>2 DEF NewInv, Kind
<1> QED
  BY <1>7, <1>8

\* A job that is under way moves, and its prompt completes or not.
LEMMA MoveSeen ==
  ASSUME IInv, IInv', NewInv, NEW j \in DOMAIN jobs, jobs[j].stage \in {"new", "ask", "acl"},
         NEW s \in {"new", "acl", "ok", "no", "failed"}, s = "new" => Kind(j) # "create",
         Move(j, s)
  PROVE  (Promise!Next \/ Board' = Board) /\ NewInv'
<1>0. PICK p : p = jobs[j].prompt
  OBVIOUS
<1> DEFINE shown == IF s = "failed" /\ prompts[p].kind # "unlock" THEN "box" ELSE s
<1>1. AskTypes /\ AskInv /\ ReportInv' /\ prompts \in Seq(Prompts)
  BY DEF IInv, AskTypes
<1>2. /\ p \in DOMAIN prompts /\ prompts[p].prompted /\ ~jobs[j].refused
      /\ shown \in Stages \ {"idle", "ask"}
      /\ \A k \in DOMAIN jobs : jobs[k].prompt = p => jobs[k].stage # "idle"
      /\ \A k \in DOMAIN jobs : jobs[k].prompt \in DOMAIN prompts
  BY <1>0, <1>1 DEF AskInv, JobInv, Stages, Final
<1>3. /\ jobs' \in Seq(Jobs) /\ DOMAIN jobs' = DOMAIN jobs
      /\ \A k \in DOMAIN jobs : k # j => jobs'[k] = jobs[k]
      /\ jobs'[j].stage = shown /\ jobs'[j].prompt = p
      /\ jobs'[j].coll = jobs[j].coll
  BY <1>0, <1>1, <1>2, MoveJobs DEF Move
<1>4. prompts' = IF shown \in Final THEN Report(p, jobs') ELSE prompts
  BY <1>0 DEF Move
<1>5. shown = "new" => prompts[p].kind # "create"
  BY <1>0 DEF Kind
<1> HIDE DEF shown
<1>6. prompts[p].completed = <<>>
  BY <1>0, <1>1, <1>2 DEF AskInv, PromptInv, JobsOf, Final
<1>7. Succeeded(p, jobs') \in SUBSET (Colls \cup {None})
  BY <1>3, SucceededType
<1>8. /\ DOMAIN prompts' = DOMAIN prompts
      /\ \A q \in DOMAIN prompts \ {p} : prompts'[q] = prompts[q]
      /\ prompts'[p].kind = prompts[p].kind /\ prompts'[p].prompted = prompts[p].prompted
      /\ prompts'[p].completed = IF shown \in Final /\ AllResults(p, jobs')
                                 THEN <<[dismissed |-> FALSE, paths |-> Succeeded(p, jobs')]>> ELSE <<>>
  <2>1. CASE shown \in Final /\ AllResults(p, jobs')
    <3> DEFINE X == Succeeded(p, jobs')
    <3>1. prompts' = Tell(prompts, p, FALSE, X) /\ FALSE \in BOOLEAN
      BY <1>4, <2>1 DEF Report
    <3>2. X \in SUBSET (Colls \cup {None})
      BY <1>7
    <3> HIDE DEF X
    <3>3. /\ DOMAIN Tell(prompts, p, FALSE, X) = DOMAIN prompts
          /\ \A q \in DOMAIN prompts : q # p => Tell(prompts, p, FALSE, X)[q] = prompts[q]
          /\ Tell(prompts, p, FALSE, X)[p].kind = prompts[p].kind
          /\ Tell(prompts, p, FALSE, X)[p].prompted = prompts[p].prompted
          /\ Tell(prompts, p, FALSE, X)[p].completed
               = Append(prompts[p].completed, [dismissed |-> FALSE, paths |-> X])
      BY ONLY <1>1, <1>2, <3>1, <3>2, TellFacts
    <3>4. Append(prompts[p].completed, [dismissed |-> FALSE, paths |-> X])
            = <<[dismissed |-> FALSE, paths |-> X]>>
      BY ONLY <1>6
    <3>5. prompts'[p].completed = <<[dismissed |-> FALSE, paths |-> X]>>
      BY ONLY <3>1, <3>3, <3>4
    <3> QED
      BY <2>1, <3>1, <3>3, <3>5 DEF X
  <2>2. CASE ~(shown \in Final /\ AllResults(p, jobs'))
    <3>1. prompts' = prompts
      BY <1>4, <2>2 DEF Report
    <3> QED
      BY <1>6, <2>2, <3>1
  <2> QED
    BY <2>1, <2>2
<1>9. \A k \in DOMAIN jobs : /\ jobs'[k].prompt = jobs[k].prompt /\ jobs'[k].coll = jobs[k].coll
                             /\ jobs[k].prompt # p => jobs'[k] = jobs[k]
  BY ONLY <1>0, <1>3
<1>10. Only(p) /\ \A k : k \in JobsOf(p, jobs') <=> k \in JobsOf(p, jobs)
  BY ONLY <1>2, <1>3, <1>8, <1>9, OnlyOne
<1>11. \A k \in JobsOf(p, jobs) : jobs'[k].coll = jobs[k].coll
  BY ONLY <1>9 DEF JobsOf
<1>12. Unanswered(p) /\ State(p) = "waits"
  <2>1. j \in JobsOf(p, jobs) /\ jobs[j].stage \notin Final \cup {"idle"}
    BY <1>0 DEF JobsOf, Final
  <2> QED
    BY ONLY <1>2, <2>1 DEF Unanswered, State
<1>13. NewInv'
  <2>1. \A q \in DOMAIN prompts : prompts'[q].kind = prompts[q].kind
    BY ONLY <1>8
  <2> QED
    BY <1>2, <1>3, <1>5, <2>1 DEF NewInv, Kind
<1>14. CASE shown \in Final /\ AllResults(p, jobs')
  <2>1. ~Unanswered(p)'
    BY <1>14 DEF Unanswered, AllResults
  <2>2. State(p)' = "over"
    BY <1>2, <1>8, <2>1 DEF State
  <2>3. Seen(p)' = [about |-> Seen(p).about, creates |-> Seen(p).creates, state |-> State(p)',
                    told |-> prompts'[p].completed]
    BY ONLY <1>8, <1>10, <1>11, SeenAfter
  <2>4. Succeeded(p, jobs') \in SUBSET Seen(p).about
    BY ONLY <1>1, <1>10, <1>11, SucceededAbout
  <2>5. Promise!Next
    BY ONLY <1>2, <1>6, <1>8, <1>10, <1>12, <1>14, <2>2, <2>3, <2>4, AnswerSeen
  <2> QED
    BY ONLY <1>13, <2>5
<1>15. CASE ~(shown \in Final /\ AllResults(p, jobs'))
  <2>1. \E k \in JobsOf(p, jobs') : jobs'[k].stage \notin Final \cup {"idle"}
    <3>1. CASE shown \notin Final
      BY <1>2, <1>3, <3>1 DEF JobsOf
    <3>2. CASE shown \in Final
      <4>1. PICK k \in JobsOf(p, jobs') : jobs'[k].stage \notin Final
        BY <1>15, <3>2 DEF AllResults
      <4>2. k # j /\ jobs'[k] = jobs[k] /\ k \in DOMAIN jobs /\ jobs[k].prompt = p
        BY ONLY <1>3, <1>9, <3>2, <4>1 DEF JobsOf
      <4> QED
        BY ONLY <1>2, <4>1, <4>2
    <3> QED
      BY <3>1, <3>2
  <2>2. Unanswered(p)'
    BY ONLY <2>1 DEF Unanswered
  <2>3. State(p)' = State(p)
    BY ONLY <1>2, <1>8, <1>12, <2>2 DEF State
  <2>4. prompts'[p].completed = prompts[p].completed
    BY ONLY <1>6, <1>8, <1>15
  <2>5. Seen(p)' = Seen(p)
    BY ONLY <1>8, <1>10, <1>11, <2>3, <2>4, SeenKept
  <2> QED
    BY ONLY <1>2, <1>10, <1>13, <2>5, OneKept
<1> QED
  BY <1>14, <1>15

\* The box of a prompt's job is closed.
LEMMA CloseBoxSeen ==
  ASSUME IInv, IInv', NewInv, CloseBox, ~Break
  PROVE  Promise!Next /\ NewInv'
<1>0. PICK j, p : j = Innermost /\ p = jobs[j].prompt
  OBVIOUS
<1> DEFINE again == jobs[j].refused /\ prompts[p].completed = <<>>
           a == [dismissed |-> FALSE, paths |-> {}]
<1>1. AskTypes /\ AskInv /\ prompts \in Seq(Prompts) /\ boxes # <<>>
  BY DEF IInv, AskTypes, CloseBox
<1>2. /\ prompts' = Tell(prompts, p, FALSE, {})
      /\ jobs' = IF again THEN jobs ELSE [jobs EXCEPT ![j].stage = "failed"]
  BY <1>0 DEF CloseBox
<1>3. j \in DOMAIN jobs /\ jobs[j].stage = "box" /\ JobInv(j, jobs, prompts)
  <2>1. Len(boxes) \in DOMAIN boxes /\ j = boxes[Len(boxes)]
    BY <1>0, <1>1, FrontFacts DEF AskTypes, Innermost
  <2> QED
    BY <1>1, <2>1 DEF AskInv, BoxInv
<1>4. /\ p \in DOMAIN prompts /\ prompts[p].kind # "unlock" /\ prompts[p].prompted
      /\ jobs[j].refused => prompts[p].kind = "create"
      /\ j \in JobsOf(p, jobs)
  BY <1>0, <1>3 DEF JobInv, JobsOf
<1>5. \A k \in JobsOf(p, jobs) : k = j
  BY <1>0, <1>1, <1>3, <1>4 DEF AskInv, SingleJobs, JobsOf
<1>6. ~jobs[j].refused => prompts[p].completed = <<>>
  BY <1>1, <1>3, <1>4 DEF AskInv, PromptInv, Final
<1>7. /\ DOMAIN prompts' = DOMAIN prompts
      /\ \A q \in DOMAIN prompts \ {p} : prompts'[q] = prompts[q]
      /\ prompts'[p].kind = prompts[p].kind /\ prompts'[p].prompted = prompts[p].prompted
      /\ prompts'[p].completed = Append(prompts[p].completed, a)
  <2>1. FALSE \in BOOLEAN /\ {} \in SUBSET (Colls \cup {None})
    OBVIOUS
  <2>2. /\ DOMAIN Tell(prompts, p, FALSE, {}) = DOMAIN prompts
        /\ \A q \in DOMAIN prompts : q # p => Tell(prompts, p, FALSE, {})[q] = prompts[q]
        /\ Tell(prompts, p, FALSE, {})[p].kind = prompts[p].kind
        /\ Tell(prompts, p, FALSE, {})[p].prompted = prompts[p].prompted
        /\ Tell(prompts, p, FALSE, {})[p].completed = Append(prompts[p].completed, a)
    BY ONLY <1>1, <1>4, <2>1, TellFacts
  <2> QED
    BY <1>2, <2>2
<1>8. prompts[p].completed = <<>> => Append(prompts[p].completed, a) = <<a>>
  OBVIOUS
<1> HIDE DEF again
<1>9. /\ DOMAIN jobs' = DOMAIN jobs
      /\ \A k \in DOMAIN jobs : /\ jobs'[k].prompt = jobs[k].prompt /\ jobs'[k].coll = jobs[k].coll
                                /\ k # j => jobs'[k] = jobs[k]
      /\ jobs'[j].stage = IF again THEN "box" ELSE "failed"
  <2>1. CASE again
    BY <1>2, <1>3, <2>1
  <2>2. CASE ~again
    <3>1. "failed" \in Stages
      BY DEF Stages, Final
    <3>2. jobs' = [jobs EXCEPT ![j].stage = "failed"]
      BY <1>2, <2>2
    <3> QED
      BY ONLY <1>1, <1>3, <2>2, <3>1, <3>2, MoveJobs
  <2> QED
    BY <2>1, <2>2
<1>10. Only(p) /\ \A k : k \in JobsOf(p, jobs') <=> k \in JobsOf(p, jobs)
  BY ONLY <1>0, <1>4, <1>7, <1>9, OnlyOne
<1>11. Seen(p)' = [about |-> Seen(p).about, creates |-> Seen(p).creates, state |-> State(p)',
                   told |-> prompts'[p].completed]
  <2>1. \A k \in JobsOf(p, jobs) : jobs'[k].coll = jobs[k].coll
    BY ONLY <1>9 DEF JobsOf
  <2> QED
    BY ONLY <1>7, <1>10, <2>1, SeenAfter
<1>12. State(p) = "waits"
  BY <1>3, <1>4 DEF State, Unanswered, Final
<1>13. State(p)' = IF again THEN "waits" ELSE "over"
  <2>1. prompts'[p].prompted
    BY ONLY <1>4, <1>7
  <2>2. CASE again
    <3>1. Unanswered(p)'
      BY <1>4, <1>9, <1>10, <2>2 DEF Unanswered, Final
    <3> QED
      BY <2>1, <2>2, <3>1 DEF State
  <2>3. CASE ~again
    <3>1. ~Unanswered(p)'
      BY <1>5, <1>9, <1>10, <2>3 DEF Unanswered, Final
    <3> QED
      BY <2>1, <2>3, <3>1 DEF State
  <2> QED
    BY <2>2, <2>3
<1>14. Promise!Next
  <2>1. CASE again
    <3>1. prompts[p].kind = "create" /\ prompts[p].completed = <<>>
      BY <1>4, <2>1 DEF again
    <3> QED
      BY ONLY <1>4, <1>7, <1>8, <1>10, <1>11, <1>12, <1>13, <2>1, <3>1, AdmitSeen
  <2>2. CASE ~again /\ prompts[p].completed = <<>>
    <3>1. {} \in SUBSET Seen(p).about
      OBVIOUS
    <3> QED
      BY ONLY <1>4, <1>7, <1>8, <1>10, <1>11, <1>12, <1>13, <2>2, <3>1, AnswerSeen
  <2>3. CASE ~again /\ prompts[p].completed # <<>>
    <3>1. prompts[p].kind = "create"
      BY <1>4, <1>6, <2>3
    <3> QED
      BY ONLY <1>4, <1>7, <1>10, <1>11, <1>12, <1>13, <2>3, <3>1, RepeatSeen
  <2> QED
    BY <2>1, <2>2, <2>3 DEF again
<1>15. NewInv'
  <2>1. \A q \in DOMAIN prompts : prompts'[q].kind = prompts[q].kind
    BY ONLY <1>7
  <2>2. \A k \in DOMAIN jobs : jobs[k].prompt \in DOMAIN prompts
    BY <1>1 DEF AskInv, JobInv
  <2>3. jobs'[j].stage \notin {"idle", "new"}
    BY ONLY <1>9
  <2> QED
    BY <1>9, <2>1, <2>2, <2>3 DEF NewInv, Kind
<1> QED
  BY <1>14, <1>15

\* The collection is there: the prompt is now about it.
LEMMA NewPasswordSeen ==
  ASSUME IInv, IInv', NewInv, NEW j \in DOMAIN jobs, NEW c \in Colls, NewPassword(j, c)
  PROVE  Promise!Next /\ NewInv'
<1>0. PICK p : p = jobs[j].prompt
  OBVIOUS
<1>1. AskTypes /\ AskInv /\ jobs[j].stage = "new" /\ prompts[p].kind = "create"
      /\ jobs' = [jobs EXCEPT ![j].coll = c, ![j].stage = "acl"] /\ prompts' = prompts
  BY <1>0 DEF IInv, NewPassword, At, Kind
<1>2. p \in DOMAIN prompts /\ prompts[p].prompted /\ j \in JobsOf(p, jobs) /\ jobs[j].coll = None
  BY <1>0, <1>1 DEF AskInv, JobInv, JobsOf, NewInv, Kind
<1>3. \A k \in JobsOf(p, jobs) : k = j
  BY <1>0, <1>1, <1>2 DEF AskInv, SingleJobs, JobsOf
<1>4. /\ DOMAIN jobs' = DOMAIN jobs
      /\ \A k \in DOMAIN jobs : jobs'[k].prompt = jobs[k].prompt /\ (k # j => jobs'[k] = jobs[k])
      /\ jobs'[j].coll = c /\ jobs'[j].stage = "acl"
  <2>1. jobs[j] \in Jobs
    BY <1>1, SeqFacts DEF AskTypes
  <2> QED
    BY <1>1, <2>1 DEF Jobs
<1>5. Only(p) /\ \A k : k \in JobsOf(p, jobs') <=> k \in JobsOf(p, jobs)
  BY ONLY <1>0, <1>1, <1>2, <1>4, OnlyOne
<1>6. State(p) = "waits" /\ State(p)' = "waits"
  <2>1. Unanswered(p)
    BY <1>1, <1>2 DEF Unanswered, Final
  <2>2. Unanswered(p)'
    BY <1>2, <1>4, <1>5 DEF Unanswered, Final
  <2> QED
    BY <1>1, <1>2, <2>1, <2>2 DEF State
<1>7. Seen(p).about = {}
  BY <1>2, <1>3 DEF Seen
<1>8. Seen(p)' = [about |-> {c}, creates |-> Seen(p).creates, state |-> "waits",
                  told |-> prompts[p].completed]
  <2> DEFINE B == {jobs'[k].coll : k \in JobsOf(p, jobs')} \ {None}
  <2>1. B = {c}
    BY <1>2, <1>3, <1>4, <1>5, ServiceAssumption
  <2>2. Seen(p)' = [about |-> B, creates |-> prompts[p].kind = "create", state |-> State(p)',
                    told |-> prompts[p].completed]
    BY <1>1 DEF Seen, State
  <2>3. Seen(p).creates = (prompts[p].kind = "create")
    BY DEF Seen
  <2> HIDE DEF B
  <2> QED
    BY ONLY <1>6, <2>1, <2>2, <2>3
<1>9. Promise!Next
  BY ONLY <1>1, <1>2, <1>5, <1>6, <1>7, <1>8, c \in Colls, CreateSeen
<1>10. NewInv'
  BY <1>1, <1>4 DEF NewInv, Kind
<1> QED
  BY <1>9, <1>10

\* A create job that is refused waits on, in its box.
LEMMA RefusedSeen ==
  ASSUME IInv, NewInv, NEW j \in DOMAIN jobs, jobs[j].stage = "acl", UNCHANGED prompts,
         jobs' = [jobs EXCEPT ![j].stage = "box", ![j].refused = TRUE]
  PROVE  Board' = Board /\ NewInv'
<1>0. PICK p : p = jobs[j].prompt
  OBVIOUS
<1>1. AskTypes /\ AskInv /\ p \in DOMAIN prompts /\ prompts[p].prompted
  BY <1>0 DEF IInv, AskInv, JobInv
<1>2. /\ DOMAIN jobs' = DOMAIN jobs
      /\ \A k \in DOMAIN jobs : /\ jobs'[k].prompt = jobs[k].prompt /\ jobs'[k].coll = jobs[k].coll
                                /\ k # j => jobs'[k] = jobs[k]
      /\ jobs'[j].stage = "box"
  <2>1. jobs[j] \in Jobs
    BY <1>1, SeqFacts DEF AskTypes
  <2> QED
    BY <2>1 DEF Jobs
<1>3. Only(p) /\ \A k : k \in JobsOf(p, jobs') <=> k \in JobsOf(p, jobs)
  BY <1>0, <1>1, <1>2, OnlyOne
<1>4. Unanswered(p) /\ Unanswered(p)'
  <2>1. j \in JobsOf(p, jobs)
    BY <1>0 DEF JobsOf
  <2> QED
    BY <1>2, <1>3, <2>1 DEF Unanswered, Final
<1>5. State(p)' = State(p)
  BY <1>1, <1>4 DEF State
<1>6. Seen(p)' = Seen(p)
  <2>1. \A k \in JobsOf(p, jobs) : jobs'[k].coll = jobs[k].coll
    BY ONLY <1>2 DEF JobsOf
  <2>2. prompts'[p].kind = prompts[p].kind /\ prompts'[p].completed = prompts[p].completed
    OBVIOUS
  <2> QED
    BY ONLY <1>3, <1>5, <2>1, <2>2, SeenKept
<1>7. NewInv'
  BY <1>2 DEF NewInv, Kind
<1> QED
  BY <1>1, <1>3, <1>6, <1>7, OneKept

-----------------------------------------------------------------------------
LEMMA InitSeen == Init => Promise!Init /\ NewInv
<1> SUFFICES ASSUME Init PROVE Promise!Init /\ NewInv
  OBVIOUS
<1>1. prompts = <<>> /\ jobs = <<>>
  BY DEF Init
<1>2. Board = <<>>
  BY <1>1 DEF Board
<1>3. NewInv
  BY <1>1 DEF NewInv
<1> QED
  BY <1>2, <1>3 DEF Promise!Init

\* The user answers a dialog.
LEMMA DialogSeen ==
  ASSUME IInv, IInv', NewInv, NEW j \in DOMAIN jobs, Answer(j)
  PROVE  (Promise!Next \/ Board' = Board) /\ NewInv'
<1>1. AskInv /\ JobInv(j, jobs, prompts)
  BY DEF IInv, AskInv
<1>2. ASSUME UNCHANGED asking PROVE Board' = Board /\ NewInv'
  BY <1>1, <1>2, QuietSeen DEF asking
<1>3. ASSUME NEW s \in {"new", "acl", "ok", "no", "failed"}, s = "new" => Kind(j) # "create",
             jobs[j].stage \in {"new", "ask", "acl"}, Move(j, s)
      PROVE  (Promise!Next \/ Board' = Board) /\ NewInv'
  BY <1>3, MoveSeen
<1>4. ASSUME NEW c \in Colls, NewPassword(j, c) PROVE Promise!Next /\ NewInv'
  BY <1>4, NewPasswordSeen
<1>5. ASSUME NoNewPassword(j) \/ NotChanged(j) \/ NoPassword(j) \/ NoAcl(j)
      PROVE  (Promise!Next \/ Board' = Board) /\ NewInv'
  <2>1. jobs[j].stage \in {"new", "ask", "acl"} /\ \E s \in {"no", "failed"} : Move(j, s)
    BY <1>5 DEF NoNewPassword, NotChanged, NoPassword, NoAcl, At
  <2> QED
    BY ONLY <1>3, <2>1
<1>6. ASSUME NEW got \in SUBSET Items, AskPassword(j, got)
      PROVE  (Promise!Next \/ Board' = Board) /\ NewInv'
  <2> DEFINE next == IF Kind(j) = "change" THEN "new" ELSE IF coll[jobs[j].coll].knows THEN "ok" ELSE "acl"
  <2>1. UNCHANGED asking \/ (jobs[j].stage = "ask" /\ Move(j, next))
    BY <1>6 DEF AskPassword, At, Break
  <2>2. next \in {"new", "acl", "ok"} /\ (next = "new" => Kind(j) # "create")
    OBVIOUS
  <2> HIDE DEF next
  <2> QED
    BY ONLY <1>2, <1>3, <2>1, <2>2
<1>7. ASSUME NEW exe \in BOOLEAN, AclAnswer(j, exe)
      PROVE  (Promise!Next \/ Board' = Board) /\ NewInv'
  <2> DEFINE stored == Open(jobs[j].coll) /\ exe
             s == IF ~stored THEN "failed" ELSE IF Kind(j) = "change" THEN "new" ELSE "ok"
  <2>1. /\ jobs[j].stage = "acl"
        /\ \/ UNCHANGED asking
           \/ jobs' = [jobs EXCEPT ![j].stage = "box", ![j].refused = TRUE] /\ UNCHANGED prompts
           \/ Move(j, s)
    BY <1>7 DEF AclAnswer, At, Break
  <2>2. s \in {"new", "ok", "failed"} /\ (s = "new" => Kind(j) # "create")
    OBVIOUS
  <2> HIDE DEF s
  <2>3. CASE jobs' = [jobs EXCEPT ![j].stage = "box", ![j].refused = TRUE] /\ UNCHANGED prompts
    BY <2>1, <2>3, RefusedSeen
  <2>4. CASE Move(j, s)
    BY ONLY <1>3, <2>1, <2>2, <2>4
  <2> QED
    BY <1>2, <2>1, <2>3, <2>4
<1> QED
  BY <1>4, <1>5, <1>6, <1>7 DEF Answer

\* Every step shows the clients a step of the promise, or nothing new.
WordKept == (Promise!Next \/ Board' = Board) /\ NewInv'

LEMMA StepSeen ==
  ASSUME IInv, IInv', NewInv, [Next]_vars
  PROVE  WordKept
<1>1. AskInv /\ AskTypes
  BY DEF IInv
<1>2. ASSUME UNCHANGED asking PROVE WordKept
  BY <1>1, <1>2, QuietSeen DEF asking, WordKept
<1>3. ASSUME NEW c, Shut(c), UNCHANGED jobs PROVE WordKept
  <2>1. \A p \in DOMAIN prompts : prompts[p] \in Prompts
    BY <1>1, SeqFacts DEF AskTypes
  <2>2. DOMAIN prompts' = DOMAIN prompts
    BY <1>3 DEF Shut
  <2>3. \A p \in DOMAIN prompts : /\ prompts'[p].kind = prompts[p].kind
                                  /\ prompts'[p].prompted = prompts[p].prompted
                                  /\ prompts'[p].completed = prompts[p].completed
    BY <1>3, <2>1 DEF Shut, Prompts
  <2> QED
    BY <1>1, <1>3, <2>2, <2>3, QuietSeen DEF WordKept
<1>4. CASE Break
  BY <1>2, <1>4 DEF Break
<1>5. CASE Discover
  BY <1>2, <1>5 DEF Discover
<1>6. ASSUME NEW s \in Sessions, OpenSession(s) \/ CloseSession(s) PROVE WordKept
  BY <1>2, <1>6 DEF OpenSession, CloseSession
<1>7. ASSUME NEW coldly \in BOOLEAN, CreateCollection(coldly) PROVE WordKept
  <2>1. /\ <<None>> \in Seq(Colls \cup {None}) /\ Len(<<None>>) = 1 /\ "create" \in Kinds
        /\ 1 \in Nat /\ Room(1) /\ Ask("create", coldly, <<None>>)
    BY <1>7 DEF Kinds, CreateCollection
  <2> QED
    BY <2>1, AskedSeen DEF WordKept
<1>8. ASSUME NEW closed \in SeqOf(Colls, 2), Unlock(closed) PROVE WordKept
  <2>1. closed \in Seq(Colls) /\ closed \in Seq(Colls \cup {None}) /\ Len(closed) \in Nat
    <3>1. PICK m \in 0 .. 2 : closed \in [1 .. m -> Colls]
      BY DEF SeqOf
    <3>2. closed = [k \in 1 .. m |-> closed[k]] /\ \A k \in 1 .. m : closed[k] \in Colls
      BY <3>1
    <3>3. m \in Nat /\ closed \in Seq(Colls)
      BY <3>2
    <3> QED
      BY <3>2, <3>3
  <2>2. CASE Ask("unlock", FALSE, closed)
    <3>1. Room(Len(closed)) /\ "unlock" \in Kinds /\ FALSE \in BOOLEAN
      BY <1>8 DEF Unlock, Kinds
    <3> QED
      BY <2>1, <2>2, <3>1, AskedSeen DEF WordKept
  <2> QED
    BY <1>4, <1>8, <2>2 DEF Unlock
<1>9. ASSUME NEW c \in Colls, ChangePassword(c) PROVE WordKept
  <2>1. CASE Ask("change", FALSE, <<c>>)
    <3>1. /\ <<c>> \in Seq(Colls) /\ <<c>> \in Seq(Colls \cup {None}) /\ Len(<<c>>) = 1
          /\ "change" \in Kinds /\ 1 \in Nat /\ Room(1) /\ FALSE \in BOOLEAN
      BY <1>9 DEF ChangePassword, Kinds
    <3> QED
      BY <2>1, <3>1, AskedSeen DEF WordKept
  <2> QED
    BY <1>4, <1>9, <2>1 DEF ChangePassword
<1>10. ASSUME NEW c \in Colls, Lock(c) \/ DeleteCollection(c) PROVE WordKept
  <2>1. Break \/ (Shut(c) /\ UNCHANGED jobs)
    BY <1>10 DEF Lock, DeleteCollection
  <2> QED
    BY <1>3, <1>4, <2>1
<1>11. ASSUME NEW p \in DOMAIN prompts, Prompt(p) \/ Dismiss(p) PROVE WordKept
  <2>1. Break \/ Shown(p) \/ Dismissed(p)
    BY <1>11, PromptStepInv, DismissInv
  <2>2. Shown(p) \/ Dismissed(p) => Roused(p)
    BY DEF Shown, Dismissed
  <2> QED
    BY <1>4, <2>1, <2>2, RousedSeen DEF WordKept
<1>12. CASE Search
  BY <1>4, <1>12 DEF Search
<1>13. ASSUME NEW c \in Colls, NEW i \in Items, NEW b \in BOOLEAN,
              CreateItem(c, i, b) \/ UseItem(c, i, b) \/ DeleteItem(c, i)
       PROVE  WordKept
  <2>1. UNCHANGED asking
    BY <1>13 DEF CreateItem, UseItem, DeleteItem, Break
  <2> QED
    BY <1>2, <2>1
<1>14. CASE CloseBox
  BY <1>4, <1>14, CloseBoxSeen DEF WordKept
<1>15. ASSUME NEW j \in DOMAIN jobs, Answer(j) PROVE WordKept
  BY <1>15, DialogSeen DEF WordKept
<1>16. CASE UNCHANGED vars
  BY <1>2, <1>16 DEF vars
<1>17. CASE Client
  <2>1. TRUE \in BOOLEAN
    OBVIOUS
  <2> QED
    BY <1>6, <1>7, <1>8, <1>9, <1>10, <1>11, <1>12, <1>13, <1>17, <2>1 DEF Client
<1>18. CASE User
  BY <1>14, <1>15, <1>18 DEF User
<1> QED
  BY <1>5, <1>16, <1>17, <1>18 DEF Next

\* The Prompt objects implement PromptPromise: prompt() and dismiss() exclude
\* one another and themselves (m_prompted), a prompt over several jobs
\* completes with the last result (ServiceMultiPrompt::jobResult), names the
\* collections of the jobs that ended well, and never changes its answer - but
\* for the create job that emits its result twice (SingleJobPrompt::jobResult).
THEOREM PromptsKeepTheirWord == Spec => PromptsKeepWord
<1>1. Init => Promise!Init /\ NewInv
  BY InitSeen
<1>2. IInv /\ IInv' /\ NewInv /\ [Next]_vars => [Promise!Next]_Board /\ NewInv'
  BY StepSeen DEF WordKept
<1> QED
  BY <1>1, <1>2, SpecInv, PTL DEF Spec, PromptsKeepWord, Promise!Spec
=============================================================================
