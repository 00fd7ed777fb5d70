----------------------------- MODULE GitOpsProofs -----------------------------
(***************************************************************************)
(* Theorems about the GitHub provider and the way from a commit to ArgoCD, *)
(* for any calls, branches, files, changes and requests of the dashboard   *)
(* and for a repository of any size.                                       *)
(***************************************************************************)
EXTENDS GitOps, SequenceTheorems, TLAPS

-----------------------------------------------------------------------------
(* The commits grow and never change. *)

Commit == [past : SUBSET Shas, tree : Trees]

\* The past of a commit has itself, nothing younger, and with a commit its past.
WellFormed(cs) ==
    \A i \in 1 .. Len(cs) :
        /\ i \in cs[i].past /\ cs[i].past \subseteq 1 .. i
        /\ \A j \in cs[i].past : cs[j].past \subseteq cs[i].past

\* What holds of the repository and the branches.
Repository ==
    /\ commits \in Seq([past : SUBSET Nat, tree : Trees])
    /\ WellFormed(commits)
    /\ head \in [Branches -> {NoCommit} \cup Shas]
    /\ head[Main] # NoCommit

LEMMA ShasType == Repository => Len(commits) \in Nat /\ Shas \subseteq Nat \ {0}
  BY DEF Repository, Shas

LEMMA Element ==
    ASSUME NEW S, NEW s \in Seq(S), NEW i \in 1 .. Len(s) PROVE s[i] \in S
  OBVIOUS

LEMMA PastType ==
    ASSUME Repository, NEW i \in Shas
    PROVE  /\ commits[i] \in [past : SUBSET Nat, tree : Trees]
           /\ i \in commits[i].past /\ commits[i].past \subseteq Shas
           /\ \A j \in commits[i].past : commits[j].past \subseteq commits[i].past
<1>1. commits[i] \in [past : SUBSET Nat, tree : Trees]
  BY Element DEF Repository, Shas
<1>2. commits[i].past \subseteq 1 .. i /\ 1 .. i \subseteq Shas
  BY DEF Repository, WellFormed, Shas
<1>3. QED
  BY <1>1, <1>2 DEF Repository, WellFormed, Shas

LEMMA NewCommitTree ==
    ASSUME Repository, NEW parent \in Shas, NEW change \in Changes
    PROVE  NewCommit(parent, change).tree \in Trees
<1>1. commits[parent].tree \in Trees
  BY PastType
<1>2. QED
  BY <1>1, ChangesAssumption DEF NewCommit, Trees

\* Appending a commit on top of parent.
LEMMA GrowingCommits ==
    ASSUME Repository, NEW parent \in Shas, NEW change \in Changes,
           commits' = Append(commits, NewCommit(parent, change))
    PROVE  /\ commits' \in Seq([past : SUBSET Nat, tree : Trees])
           /\ Len(commits') = Len(commits) + 1 /\ Shas' = Shas \cup {Len(commits) + 1}
           /\ Len(commits) + 1 \notin Shas
           /\ \A i \in Shas : commits'[i] = commits[i]
           /\ commits'[Len(commits) + 1] = NewCommit(parent, change)
           /\ WellFormed(commits')
<1> DEFINE n == Len(commits) + 1
           new == NewCommit(parent, change)
<1>1. /\ commits \in Seq([past : SUBSET Nat, tree : Trees]) /\ Len(commits) \in Nat
      /\ parent \in 1 .. Len(commits)
  BY DEF Repository, Shas
<1>2. /\ commits[parent].past \subseteq Shas /\ parent \in commits[parent].past
      /\ \A j \in commits[parent].past : commits[j].past \subseteq commits[parent].past
  BY PastType
<1>3. new.past = commits[parent].past \cup {n} /\ new \in [past : SUBSET Nat, tree : Trees]
  <2>1. new.tree \in Trees
    BY NewCommitTree
  <2>2. new.past = commits[parent].past \cup {n} /\ new = [past |-> new.past, tree |-> new.tree]
    BY DEF NewCommit
  <2>3. new.past \subseteq Nat
    BY <1>1, <1>2, <2>2 DEF Shas
  <2> HIDE DEF new
  <2>4. QED
    BY <2>1, <2>2, <2>3
<1> HIDE DEF new
<1>4. /\ commits' \in Seq([past : SUBSET Nat, tree : Trees])
      /\ Len(commits') = n /\ commits'[n] = new
      /\ \A i \in 1 .. Len(commits) : commits'[i] = commits[i]
  BY <1>1, <1>3 DEF new
<1>5. Shas' = Shas \cup {n} /\ n \notin Shas
  BY <1>1, <1>4 DEF Shas
<1>6. WellFormed(commits')
  <2> SUFFICES ASSUME NEW i \in 1 .. Len(commits')
               PROVE  /\ i \in commits'[i].past /\ commits'[i].past \subseteq 1 .. i
                      /\ \A j \in commits'[i].past : commits'[j].past \subseteq commits'[i].past
    BY DEF WellFormed
  <2>1. CASE i \in Shas
    <3>1. commits'[i] = commits[i] /\ commits[i].past \subseteq Shas
      BY <1>4, <2>1, PastType DEF Shas
    <3>2. \A j \in commits[i].past : commits'[j] = commits[j]
      BY <1>4, <3>1 DEF Shas
    <3>3. commits[i].past \subseteq 1 .. i /\ i \in commits[i].past
      BY <2>1 DEF Repository, WellFormed, Shas
    <3>4. QED
      BY <2>1, <3>1, <3>2, <3>3, PastType
  <2>2. CASE i = n
    <3>1. \A j \in commits[parent].past : commits'[j] = commits[j]
      BY <1>2, <1>4 DEF Shas
    <3>2. commits[parent].past \subseteq 1 .. n
      BY <1>1, <1>2 DEF Shas
    <3>3. QED
      BY <1>1, <1>2, <1>3, <1>4, <2>2, <3>1, <3>2
  <2>3. QED
    BY <1>1, <1>4, <2>1, <2>2 DEF Shas
<1>7. QED
  BY <1>4, <1>5, <1>6 DEF new, Shas

-----------------------------------------------------------------------------
(* What calls hold between their requests. *)

Updates(shas) == [pc : {"update"}, branch : Branches, ref : shas, sha : shas,
                  change : Changes, moved : BOOLEAN]
Creates(shas) == [pc : {"create"}, branch : Branches, ref : shas]

LEMMA HeldIs == Held = {Idle} \cup Updates(Shas) \cup Creates(Shas)
  BY DEF Held, Updates, Creates

LEMMA PcOfHeld ==
    ASSUME NEW shas, NEW h \in {Idle} \cup Updates(shas) \cup Creates(shas)
    PROVE  /\ h.pc = "update" => h \in Updates(shas)
           /\ h.pc = "create" => h \in Creates(shas)
           /\ h = Idle => h.pc = "idle"
  BY DEF Idle, Updates, Creates

\* The repository has grown, or is as it was: what calls hold is still good.
LEMMA HeldGrows ==
    ASSUME NEW shas, NEW more, shas \subseteq more,
           NEW h \in {Idle} \cup Updates(shas) \cup Creates(shas)
    PROVE  h \in {Idle} \cup Updates(more) \cup Creates(more)
<1>1. CASE h = Idle
  BY <1>1
<1>2. CASE h \in Updates(shas)
  BY <1>2 DEF Updates
<1>3. CASE h \in Creates(shas)
  BY <1>3 DEF Creates
<1>4. QED
  BY <1>1, <1>2, <1>3

Typed ==
    /\ Repository
    /\ call \in [Calls -> {Idle} \cup Updates(Shas) \cup Creates(Shas)]
    /\ acked \subseteq Branches \X Shas

LEMMA SeqOfSmaller ==
    ASSUME NEW S, NEW T, NEW s \in Seq(S), \A i \in 1 .. Len(s) : s[i] \in T
    PROVE  s \in Seq(T)
  OBVIOUS

LEMMA TypedIsTypeOK == Typed => TypeOK
<1> SUFFICES ASSUME Typed PROVE TypeOK
  OBVIOUS
<1>1. \A i \in 1 .. Len(commits) : commits[i] \in Commit
  <2> SUFFICES ASSUME NEW i \in Shas PROVE commits[i] \in Commit
    BY DEF Shas
  <2>1. commits[i] \in [past : SUBSET Nat, tree : Trees] /\ commits[i].past \subseteq Shas
    BY PastType DEF Typed
  <2>2. QED
    BY <2>1 DEF Commit
<1>2. commits \in Seq(Commit)
  BY <1>1, SeqOfSmaller DEF Typed, Repository
<1>3. QED
  BY <1>2, HeldIs DEF Typed, TypeOK, Repository, Commit

\* A step that commits on top of parent keeps what was there.
LEMMA TypedGrows ==
    ASSUME Typed, NEW parent \in Shas, NEW change \in Changes,
           commits' = Append(commits, NewCommit(parent, change))
    PROVE  /\ Shas \subseteq Shas' /\ Len(commits) + 1 \in Shas'
           /\ commits' \in Seq([past : SUBSET Nat, tree : Trees]) /\ WellFormed(commits)'
           /\ \A c \in Calls : call[c] \in {Idle} \cup Updates(Shas') \cup Creates(Shas')
<1>1. Shas' = Shas \cup {Len(commits) + 1} /\ WellFormed(commits')
      /\ commits' \in Seq([past : SUBSET Nat, tree : Trees])
  BY GrowingCommits DEF Typed
<1>2. \A c \in Calls : call[c] \in {Idle} \cup Updates(Shas') \cup Creates(Shas')
  BY <1>1, HeldGrows DEF Typed
<1>3. QED
  BY <1>1, <1>2

LEMMA UnchangedCommits == UNCHANGED commits => Shas' = Shas /\ (WellFormed(commits) => WellFormed(commits)')
  BY DEF Shas, WellFormed

LEMMA TypedInit == Init => Typed
<1> SUFFICES ASSUME Init PROVE Typed
  OBVIOUS
<1>1. [f \in Files |-> NoFile] \in Trees
  BY DEF Trees
<1>2. /\ commits \in Seq([past : SUBSET Nat, tree : Trees]) /\ Len(commits) = 1
      /\ commits[1].past = {1}
  BY <1>1 DEF Init
<1>3. WellFormed(commits) /\ Shas = {1}
  BY <1>2 DEF WellFormed, Shas
<1>4. QED
  BY <1>2, <1>3, MainAssumption DEF Init, Typed, Repository, NoCommit

LEMMA RewriteTyped ==
    ASSUME Typed, NEW b \in Branches, NEW sha \in {NoCommit} \cup Shas, Rewrite(b, sha),
           b = Main => sha # NoCommit
    PROVE  Typed'
<1>1. Shas' = Shas /\ WellFormed(commits)' /\ commits' = commits
  BY UnchangedCommits DEF Rewrite, Typed, Repository
<1>2. \A c \in Calls : call'[c] \in {Idle} \cup Updates(Shas) \cup Creates(Shas)
  <2> SUFFICES ASSUME NEW c \in Calls
               PROVE  call'[c] \in {Idle} \cup Updates(Shas) \cup Creates(Shas)
    OBVIOUS
  <2>1. CASE call'[c] = call[c]
    BY <2>1 DEF Typed
  <2>2. CASE call[c].pc = "update" /\ call'[c] = [call[c] EXCEPT !.moved = TRUE]
    <3>1. call[c] \in Updates(Shas)
      BY <2>2, PcOfHeld DEF Typed
    <3>2. QED
      BY <2>2, <3>1 DEF Updates
  <2>3. QED
    BY <2>1, <2>2 DEF Rewrite
<1>3. call' \in [Calls -> {Idle} \cup Updates(Shas) \cup Creates(Shas)]
  BY <1>2 DEF Rewrite
<1>4. QED
  BY <1>1, <1>3 DEF Typed, Repository, Rewrite

LEMMA TypedInvariant == Typed /\ [Next]_vars => Typed'
<1> SUFFICES ASSUME Typed, [Next]_vars PROVE Typed'
  OBVIOUS
<1>0. Len(commits) \in Nat /\ Shas \subseteq Nat \ {0} /\ NoCommit = 0
  BY ShasType DEF Typed, NoCommit
<1>1. ASSUME NEW c \in Calls, PrepareCommit(c) PROVE Typed'
  <2>1. PICK b \in Branches, change \in Changes :
           /\ head[b] # NoCommit
           /\ commits' = Append(commits, NewCommit(head[b], change))
           /\ call' = [call EXCEPT ![c] = [pc |-> "update", branch |-> b, ref |-> head[b],
                                           sha |-> Len(commits) + 1, change |-> change,
                                           moved |-> FALSE]]
           /\ UNCHANGED <<head, acked>>
    BY <1>1 DEF PrepareCommit
  <2> DEFINE new == [pc |-> "update", branch |-> b, ref |-> head[b],
                     sha |-> Len(commits) + 1, change |-> change, moved |-> FALSE]
  <2>2. head[b] \in Shas
    BY <2>1 DEF Typed, Repository
  <2>3. /\ Shas \subseteq Shas' /\ Len(commits) + 1 \in Shas'
        /\ commits' \in Seq([past : SUBSET Nat, tree : Trees]) /\ WellFormed(commits)'
        /\ \A d \in Calls : call[d] \in {Idle} \cup Updates(Shas') \cup Creates(Shas')
    BY <2>1, <2>2, TypedGrows
  <2>4. new \in Updates(Shas')
    BY <2>2, <2>3 DEF Updates
  <2> HIDE DEF new
  <2>5. call' \in [Calls -> {Idle} \cup Updates(Shas') \cup Creates(Shas')]
    BY <2>1, <2>3, <2>4 DEF Typed, new
  <2>6. QED
    BY <2>1, <2>3, <2>5 DEF Typed, Repository
<1>2. ASSUME NEW c \in Calls, UpdateRef(c) PROVE Typed'
  <2>1. call[c] \in Updates(Shas)
    BY <1>2, PcOfHeld DEF UpdateRef, Typed
  <2>2. call[c].branch \in Branches /\ call[c].sha \in Shas
    BY <2>1 DEF Updates
  <2>3. Shas' = Shas /\ WellFormed(commits)'
    BY <1>2, UnchangedCommits DEF UpdateRef, Typed, Repository
  <2>4. head' \in [Branches -> {NoCommit} \cup Shas] /\ head'[Main] # NoCommit
    BY <1>0, <1>2, <2>2, MainAssumption DEF UpdateRef, Typed, Repository
  <2>5. QED
    BY <1>2, <2>2, <2>3, <2>4 DEF UpdateRef, Typed, Repository
<1>3. ASSUME NEW c \in Calls, PrepareBranch(c) PROVE Typed'
  <2>1. PICK b \in Branches, base \in Branches :
           /\ head[base] # NoCommit
           /\ call' = [call EXCEPT ![c] = [pc |-> "create", branch |-> b, ref |-> head[base]]]
           /\ UNCHANGED <<commits, head, acked>>
    BY <1>3 DEF PrepareBranch
  <2> DEFINE new == [pc |-> "create", branch |-> b, ref |-> head[base]]
  <2>2. new \in Creates(Shas)
    BY <2>1 DEF Typed, Repository, Creates
  <2>3. Shas' = Shas /\ WellFormed(commits)'
    BY <2>1, UnchangedCommits DEF Typed, Repository
  <2> HIDE DEF new
  <2>4. call' \in [Calls -> {Idle} \cup Updates(Shas) \cup Creates(Shas)]
    BY <2>1, <2>2 DEF Typed, new
  <2>5. QED
    BY <2>1, <2>3, <2>4 DEF Typed, Repository
<1>4. ASSUME NEW c \in Calls, CreateRef(c) PROVE Typed'
  <2>1. call[c] \in Creates(Shas)
    BY <1>4, PcOfHeld DEF CreateRef, Typed
  <2>2. call[c].branch \in Branches /\ call[c].ref \in Shas
    BY <2>1 DEF Creates
  <2>3. Shas' = Shas /\ WellFormed(commits)'
    BY <1>4, UnchangedCommits DEF CreateRef, Typed, Repository
  <2>4. head' \in [Branches -> {NoCommit} \cup Shas] /\ head'[Main] # NoCommit
    BY <1>0, <1>4, <2>2, MainAssumption DEF CreateRef, Typed, Repository
  <2>5. QED
    BY <1>4, <2>2, <2>3, <2>4 DEF CreateRef, Typed, Repository
<1>5. ASSUME NEW c \in Calls, Fails(c) PROVE Typed'
  BY <1>5, UnchangedCommits DEF Fails, Typed, Repository
<1>6. CASE Push
  <2>1. PICK b \in Branches, change \in Changes :
           /\ head[b] # NoCommit
           /\ commits' = Append(commits, NewCommit(head[b], change))
           /\ head' = [head EXCEPT ![b] = Len(commits) + 1]
           /\ acked' = acked \cup {<<b, Len(commits) + 1>>}
           /\ UNCHANGED call
    BY <1>6 DEF Push
  <2>2. head[b] \in Shas
    BY <2>1 DEF Typed, Repository
  <2>3. /\ Shas \subseteq Shas' /\ Len(commits) + 1 \in Shas'
        /\ commits' \in Seq([past : SUBSET Nat, tree : Trees]) /\ WellFormed(commits)'
        /\ \A d \in Calls : call[d] \in {Idle} \cup Updates(Shas') \cup Creates(Shas')
    BY <2>1, <2>2, TypedGrows
  <2>4. head' \in [Branches -> {NoCommit} \cup Shas'] /\ head'[Main] # NoCommit
    <3>1. PICK n \in Shas' : n = Len(commits) + 1 /\ n # NoCommit
      BY <1>0, <2>3
    <3>2. head' = [head EXCEPT ![b] = n]
      BY <2>1, <3>1
    <3>3. head \in [Branches -> {NoCommit} \cup Shas'] /\ head[Main] # NoCommit
      BY <2>3 DEF Typed, Repository
    <3>4. QED
      BY <3>1, <3>2, <3>3, MainAssumption
  <2>5. call' \in [Calls -> {Idle} \cup Updates(Shas') \cup Creates(Shas')]
    BY <2>1, <2>3 DEF Typed
  <2>6. acked' \subseteq Branches \X Shas'
    BY <2>1, <2>3 DEF Typed
  <2>7. QED
    BY <2>3, <2>4, <2>5, <2>6 DEF Typed, Repository
<1>7. CASE ForcePush
  BY <1>0, <1>7, RewriteTyped DEF ForcePush
<1>8. CASE DeleteBranch
  BY <1>8, RewriteTyped DEF DeleteBranch
<1>9. CASE UNCHANGED vars
  BY <1>9, UnchangedCommits DEF vars, Typed, Repository
<1>10. QED
  BY <1>1, <1>2, <1>3, <1>4, <1>5, <1>6, <1>7, <1>8, <1>9 DEF Next, Provider, Others

\* Branches are at commits that exist, calls hold what they read, and the past
\* of a commit consists of commits.
THEOREM TypeCorrect == Spec => []TypeOK
  BY TypedInit, TypedInvariant, TypedIsTypeOK, PTL DEF Spec

-----------------------------------------------------------------------------
(* A prepared commit is its change on top of what was read, and what was   *)
(* read is still on the branch unless a person rewrote it.                 *)

Built(h, cs) ==
    /\ cs[h.sha].past = cs[h.ref].past \cup {h.sha} /\ h.ref # h.sha
    /\ \A f \in Files : cs[h.sha].tree[f] =
                          IF f \in DOMAIN h.change THEN h.change[f] ELSE cs[h.ref].tree[f]

Prepared ==
    \A c \in Calls :
        call[c].pc = "update" =>
            /\ Built(call[c], commits)
            /\ ~call[c].moved => call[c].ref \in Past(call[c].branch)

\* The branch has at least what it had; what is there of the repository stays.
Grows ==
    /\ \A i \in Shas : commits'[i] = commits[i] /\ i \in Shas'
    /\ \A b \in Branches : head[b] # NoCommit =>
          head'[b] # NoCommit /\ head[b] \in commits'[head'[b]].past

\* When branches only grow, their pasts do.
LEMMA GrowsPast ==
    ASSUME Typed, Typed', Grows, NEW b \in Branches
    PROVE  Past(b) \subseteq Past(b)'
<1>1. CASE head[b] = NoCommit
  BY <1>1 DEF Past
<1>2. CASE head[b] # NoCommit
  <2>1. head[b] \in Shas /\ head'[b] \in Shas' /\ head'[b] # NoCommit
    BY <1>2 DEF Typed, Repository, Grows
  <2>2. \A j \in commits'[head'[b]].past : commits'[j].past \subseteq commits'[head'[b]].past
    BY <2>1 DEF Typed, Repository, WellFormed, Shas
  <2>3. commits'[head[b]].past = commits[head[b]].past
    BY <2>1 DEF Grows
  <2>4. QED
    BY <1>2, <2>1, <2>2, <2>3 DEF Past, Grows
<1>3. QED
  BY <1>1, <1>2

\* A step of the provider and a push make branches grow: the new head of a
\* branch has the old one in its past.
LEMMA UpdateRefGrows ==
    ASSUME Typed, NEW c \in Calls, UpdateRef(c) PROVE Grows
<1>1. call[c].branch \in Branches
  BY PcOfHeld DEF UpdateRef, Typed, Updates
<1>2. Shas' = Shas /\ commits' = commits
  BY UnchangedCommits DEF UpdateRef
<1>3. call[c].sha # NoCommit
  <2>1. call[c].sha \in Shas
    BY PcOfHeld DEF UpdateRef, Typed, Updates
  <2>2. QED
    BY <2>1, ShasType DEF Typed, NoCommit
<1>4. ASSUME NEW b \in Branches, head[b] # NoCommit
      PROVE  head'[b] # NoCommit /\ head[b] \in commits'[head'[b]].past
  <2>1. CASE b = call[c].branch
    BY <1>1, <1>2, <1>3, <2>1 DEF UpdateRef, FastForward, Typed, Repository
  <2>2. CASE b # call[c].branch
    <3>1. head'[b] = head[b] /\ head[b] \in Shas
      BY <1>4, <2>2 DEF UpdateRef, Typed, Repository
    <3>2. QED
      BY <1>2, <1>4, <3>1, PastType DEF Typed
  <2>3. QED
    BY <2>1, <2>2
<1>5. QED
  BY <1>2, <1>4 DEF Grows

LEMMA PushGrows ==
    ASSUME Typed, NEW b \in Branches, NEW change \in Changes, head[b] # NoCommit,
           commits' = Append(commits, NewCommit(head[b], change)),
           head' = [head EXCEPT ![b] = Len(commits) + 1] \/ head' = head
    PROVE  Grows
<1>1. head[b] \in Shas /\ Repository
  BY DEF Typed, Repository
<1>2. /\ Shas' = Shas \cup {Len(commits) + 1}
      /\ \A i \in Shas : commits'[i] = commits[i]
      /\ commits'[Len(commits) + 1] = NewCommit(head[b], change)
  BY <1>1, GrowingCommits
<1>3. head[b] \in commits'[Len(commits) + 1].past /\ Len(commits) + 1 # NoCommit
  BY <1>1, <1>2, PastType, ShasType DEF NewCommit, NoCommit
<1>4. ASSUME NEW a \in Branches, head[a] # NoCommit
      PROVE  head'[a] # NoCommit /\ head[a] \in commits'[head'[a]].past
  <2>1. CASE a = b /\ head' # head
    <3>1. head'[a] = Len(commits) + 1
      BY <2>1 DEF Typed, Repository
    <3>2. QED
      BY <1>3, <2>1, <3>1
  <2>2. CASE a # b \/ head' = head
    <3>1. head'[a] = head[a] /\ head[a] \in Shas
      BY <1>4, <2>2 DEF Typed, Repository
    <3>2. QED
      BY <1>1, <1>2, <1>4, <3>1, PastType
  <2>3. QED
    BY <2>1, <2>2
<1>5. QED
  BY <1>2, <1>4 DEF Grows

LEMMA CreateRefGrows ==
    ASSUME Typed, NEW c \in Calls, CreateRef(c) PROVE Grows
<1>1. Shas' = Shas /\ commits' = commits
  BY UnchangedCommits DEF CreateRef
<1>2. ASSUME NEW b \in Branches, head[b] # NoCommit
      PROVE  head'[b] = head[b] /\ head[b] \in Shas
  BY <1>2 DEF CreateRef, Typed, Repository
<1>3. QED
  BY <1>1, <1>2, PastType DEF Grows, Typed

LEMMA UnchangedGrows ==
    ASSUME Typed, UNCHANGED <<commits, head>> PROVE Grows
<1>1. Shas' = Shas
  BY UnchangedCommits
<1>2. \A b \in Branches : head[b] # NoCommit => head[b] \in Shas
  BY DEF Typed, Repository
<1>3. QED
  BY <1>1, <1>2, PastType DEF Grows, Typed

LEMMA StepGrows ==
    ASSUME Typed, Provider \/ Push \/ UNCHANGED vars PROVE Grows
<1>1. ASSUME NEW c \in Calls, PrepareCommit(c) PROVE Grows
  BY <1>1, PushGrows DEF PrepareCommit
<1>2. ASSUME NEW c \in Calls, PrepareBranch(c) \/ Fails(c) PROVE Grows
  BY <1>2, UnchangedGrows DEF PrepareBranch, Fails
<1>3. CASE Push
  BY <1>3, PushGrows DEF Push
<1>4. CASE UNCHANGED vars
  BY <1>4, UnchangedGrows DEF vars
<1>5. QED
  BY <1>1, <1>2, <1>3, <1>4, UpdateRefGrows, CreateRefGrows DEF Provider

\* What a rewrite keeps of a branch.
LEMMA RewritePast ==
    ASSUME Typed, NEW b \in Branches, NEW sha \in {NoCommit} \cup Shas, Rewrite(b, sha),
           NEW a \in Branches
    PROVE  Past(a)' = IF a # b THEN Past(a)
                      ELSE IF sha = NoCommit THEN {} ELSE commits[sha].past
  BY DEF Rewrite, Past, Typed, Repository

-----------------------------------------------------------------------------
(* Acknowledged commits stay. *)

LEMMA AcknowledgedInvariant ==
    Typed /\ Typed' /\ AcknowledgedCommitsStay /\ [Next]_vars => AcknowledgedCommitsStay'
<1> SUFFICES ASSUME Typed, Typed', AcknowledgedCommitsStay, [Next]_vars, NEW r \in acked'
             PROVE  r[2] \in Past(r[1])'
  BY DEF AcknowledgedCommitsStay
<1>0. r[1] \in Branches /\ r[2] \in Shas'
  BY DEF Typed
<1>1. CASE r \in acked /\ (Provider \/ Push \/ UNCHANGED vars)
  BY <1>0, <1>1, StepGrows, GrowsPast DEF AcknowledgedCommitsStay
<1>2. ASSUME NEW c \in Calls, UpdateRef(c), r = <<call[c].branch, call[c].sha>>
      PROVE  r[2] \in Past(r[1])'
  <2>1. call[c].branch \in Branches /\ call[c].sha \in Shas
    BY <1>2, PcOfHeld DEF UpdateRef, Typed, Updates
  <2>2. head'[call[c].branch] = call[c].sha /\ commits' = commits
    BY <1>2, <2>1 DEF UpdateRef, Typed, Repository
  <2>3. call[c].sha # NoCommit
    BY <2>1, ShasType DEF Typed, NoCommit
  <2>4. QED
    BY <1>2, <2>1, <2>2, <2>3, PastType DEF Past, Typed
<1>3. ASSUME NEW b \in Branches, NEW change \in Changes, head[b] # NoCommit,
             commits' = Append(commits, NewCommit(head[b], change)),
             head' = [head EXCEPT ![b] = Len(commits) + 1],
             r = <<b, Len(commits) + 1>>
      PROVE  r[2] \in Past(r[1])'
  <2>1. head[b] \in Shas /\ Len(commits) \in Nat
    BY <1>3, ShasType DEF Typed, Repository
  <2>2. commits'[Len(commits) + 1].past = commits[head[b]].past \cup {Len(commits) + 1}
    BY <1>3, <2>1, GrowingCommits DEF NewCommit, Typed
  <2>3. head'[b] = Len(commits) + 1 /\ head'[b] # NoCommit
    BY <1>3, <2>1 DEF Typed, Repository, NoCommit
  <2>4. QED
    BY <1>3, <2>2, <2>3 DEF Past
<1>4. ASSUME NEW b \in Branches, NEW sha \in {NoCommit} \cup Shas, Rewrite(b, sha)
      PROVE  r[2] \in Past(r[1])'
  <2>1. r \in acked /\ (r[1] = b => r[2] \in IF sha = NoCommit THEN {} ELSE commits[sha].past)
    BY <1>4 DEF Rewrite
  <2>2. QED
    BY <1>0, <1>4, <2>1, RewritePast DEF AcknowledgedCommitsStay
<1>5. CASE Provider
  <2>1. CASE r \in acked
    BY <1>1, <1>5, <2>1
  <2>2. CASE r \notin acked
    BY <1>2, <1>5, <2>2
       DEF Provider, PrepareCommit, UpdateRef, PrepareBranch, CreateRef, Fails
  <2>3. QED
    BY <2>1, <2>2
<1>6. CASE Push
  BY <1>1, <1>3, <1>6 DEF Push
<1>7. CASE ForcePush \/ DeleteBranch
  BY <1>4, <1>7 DEF ForcePush, DeleteBranch
<1>8. CASE UNCHANGED vars
  BY <1>1, <1>8 DEF vars
<1>9. QED
  BY <1>5, <1>6, <1>7, <1>8 DEF Next, Others

\* No commit that its pusher or the caller of Commit was told of disappears from
\* its branch by concurrent calls, whatever they read before.
THEOREM NoAcknowledgedCommitLost == Spec => []AcknowledgedCommitsStay
<1>1. Init => AcknowledgedCommitsStay
  BY DEF Init, AcknowledgedCommitsStay
<1>2. QED
  BY <1>1, TypedInit, TypedInvariant, AcknowledgedInvariant, PTL DEF Spec

-----------------------------------------------------------------------------
(* What a call commits is its change on top of what the branch holds.      *)

LEMMA BuiltStays ==
    ASSUME NEW h \in Updates(Shas), Built(h, commits), \A i \in Shas : commits'[i] = commits[i]
    PROVE  Built(h, commits')
<1>1. commits'[h.sha] = commits[h.sha] /\ commits'[h.ref] = commits[h.ref]
  BY DEF Updates
<1>2. QED
  BY <1>1 DEF Built

\* A call that does not take a step while branches only grow.
LEMMA PreparedStays ==
    ASSUME Typed, Typed', Prepared, Grows, NEW c \in Calls, call'[c] = call[c],
           call[c].pc = "update"
    PROVE  /\ Built(call'[c], commits')
           /\ ~call'[c].moved => call'[c].ref \in Past(call[c].branch)'
<1>1. call[c] \in Updates(Shas) /\ call[c].branch \in Branches
  BY PcOfHeld DEF Typed, Updates
<1>2. Built(call[c], commits')
  BY <1>1, BuiltStays DEF Prepared, Grows
<1>3. \A b \in Branches : Past(b) \subseteq Past(b)'
  BY GrowsPast
<1>4. ~call[c].moved => \E b \in Branches : b = call[c].branch /\ call[c].ref \in Past(b)'
  BY <1>1, <1>3 DEF Prepared
<1>5. QED
  BY <1>2, <1>4

LEMMA PreparedInvariant ==
    Typed /\ Typed' /\ Prepared /\ [Next]_vars => Prepared'
<1> SUFFICES ASSUME Typed, Typed', Prepared, [Next]_vars,
                    NEW c \in Calls, call'[c].pc = "update"
             PROVE  /\ Built(call'[c], commits')
                    /\ ~call'[c].moved => call'[c].ref \in Past(call[c].branch)'
  BY DEF Prepared
<1>1. CASE call'[c] = call[c] /\ (Provider \/ Push \/ UNCHANGED vars)
  BY <1>1, StepGrows, PreparedStays
<1>2. CASE PrepareCommit(c)
  <2>1. PICK b \in Branches, change \in Changes :
           /\ head[b] # NoCommit
           /\ commits' = Append(commits, NewCommit(head[b], change))
           /\ call' = [call EXCEPT ![c] = [pc |-> "update", branch |-> b, ref |-> head[b],
                                           sha |-> Len(commits) + 1, change |-> change,
                                           moved |-> FALSE]]
           /\ UNCHANGED <<head, acked>>
    BY <1>2 DEF PrepareCommit
  <2>2. head[b] \in Shas /\ Repository
    BY <2>1 DEF Typed, Repository
  <2>3. /\ Len(commits) + 1 \notin Shas /\ commits'[head[b]] = commits[head[b]]
        /\ commits'[Len(commits) + 1] = NewCommit(head[b], change)
    BY <2>1, <2>2, GrowingCommits
  <2>4. /\ call'[c].branch = b /\ call'[c].ref = head[b] /\ call'[c].change = change
        /\ call'[c].sha = Len(commits) + 1
    BY <2>1 DEF Typed
  <2>5. Built(call'[c], commits')
    BY <2>2, <2>3, <2>4 DEF Built, NewCommit
  <2>6. head[b] \in Past(b)'
    BY <2>1, <2>2, <2>3, PastType DEF Past
  <2>7. QED
    BY <2>4, <2>5, <2>6
<1>3. ASSUME NEW d \in Calls,
             d # c \/ UpdateRef(d) \/ PrepareBranch(d) \/ CreateRef(d) \/ Fails(d),
             PrepareCommit(d) \/ UpdateRef(d) \/ PrepareBranch(d) \/ CreateRef(d) \/ Fails(d)
      PROVE  call'[c] = call[c]
  BY <1>3 DEF PrepareCommit, UpdateRef, PrepareBranch, CreateRef, Fails, Typed, Idle
<1>4. CASE Provider
  BY <1>1, <1>2, <1>3, <1>4 DEF Provider
<1>5. CASE Push
  BY <1>1, <1>5 DEF Push
<1>6. ASSUME NEW b \in Branches, NEW sha \in {NoCommit} \cup Shas, Rewrite(b, sha)
      PROVE  /\ Built(call'[c], commits')
             /\ ~call'[c].moved => call'[c].ref \in Past(call[c].branch)'
  <2> DEFINE kept == IF sha = NoCommit THEN {} ELSE commits[sha].past
  <2>1. CASE /\ call[c].pc = "update" /\ call[c].branch = b /\ call[c].ref \notin kept
             /\ call'[c] = [call[c] EXCEPT !.moved = TRUE]
    <3>1. call[c] \in Updates(Shas)
      BY <2>1, PcOfHeld DEF Typed
    <3>2. /\ call'[c].moved /\ call'[c].sha = call[c].sha /\ call'[c].ref = call[c].ref
          /\ call'[c].change = call[c].change /\ commits' = commits
      BY <1>6, <2>1, <3>1 DEF Updates, Rewrite
    <3>3. QED
      BY <2>1, <3>2 DEF Prepared, Built
  <2>2. CASE /\ ~(call[c].pc = "update" /\ call[c].branch = b /\ call[c].ref \notin kept)
             /\ call'[c] = call[c]
    <3>1. call[c].branch \in Branches
      BY <2>2, PcOfHeld DEF Typed, Updates
    <3>2. commits' = commits
      BY <1>6 DEF Rewrite
    <3>3. ~call[c].moved => \E a \in Branches : a = call[c].branch /\ call[c].ref \in Past(a)'
      BY <1>6, <2>2, <3>1, RewritePast DEF Prepared
    <3>4. QED
      BY <2>2, <3>2, <3>3 DEF Prepared
  <2>3. QED
    BY <1>6, <2>1, <2>2 DEF Rewrite
<1>7. CASE ForcePush \/ DeleteBranch
  BY <1>6, <1>7 DEF ForcePush, DeleteBranch
<1>8. CASE UNCHANGED vars
  BY <1>1, <1>8 DEF vars
<1>9. QED
  BY <1>4, <1>5, <1>7, <1>8 DEF Next, Others

\* When the branch was not rewritten, an accepted UpdateRef means that nobody
\* came between: the head is what the call read.
LEMMA HeadIsWhatWasRead ==
    ASSUME Typed, Prepared, NEW c \in Calls, NEW b \in Branches, call[c].branch = b,
           UpdateRef(c), ~call[c].moved, head' # head
    PROVE  head[b] = call[c].ref
<1>1. call[c] \in Updates(Shas)
  BY PcOfHeld DEF UpdateRef, Typed
<1>2. call[c].sha \in Shas /\ call[c].ref \in Shas
  BY <1>1 DEF Updates
<1>3. commits[call[c].sha].past = commits[call[c].ref].past \cup {call[c].sha}
      /\ call[c].ref \in Past(b)
  BY DEF UpdateRef, Prepared, Built
<1>4. head[b] \in Shas /\ head[b] \in commits[call[c].sha].past
  BY DEF UpdateRef, FastForward, Typed, Repository
<1>5. head[b] # call[c].sha
  <2> SUFFICES ASSUME head[b] = call[c].sha PROVE FALSE
    OBVIOUS
  <2>1. head' = head
    BY DEF UpdateRef, Typed, Repository
  <2>2. QED
    BY <2>1
<1>6. head[b] \in commits[call[c].ref].past /\ call[c].ref \in commits[head[b]].past
  BY <1>3, <1>4, <1>5 DEF Past
<1>7. head[b] \in 1 .. call[c].ref /\ call[c].ref \in 1 .. head[b]
  BY <1>2, <1>4, <1>6 DEF Typed, Repository, WellFormed, Shas
<1>8. QED
  BY <1>2, <1>4, <1>7, ShasType DEF Typed

LEMMA ChangesOnTopStep ==
    ASSUME Typed, Typed', Prepared, [Next]_vars,
           NEW c \in Calls, NEW b \in Branches,
           call[c].pc = "update", call[c].branch = b, ~call[c].moved,
           call'[c] = Idle, head' # head
    PROVE  /\ Past(b) \subseteq Past(b)'
           /\ \A f \in Files :
                 commits'[head'[b]].tree[f] =
                     IF f \in DOMAIN call[c].change THEN call[c].change[f]
                     ELSE commits[head[b]].tree[f]
<1>1. UpdateRef(c)
  <2>1. call[c] # Idle
    BY DEF Idle
  <2>2. ~Push /\ ~UNCHANGED vars
    BY <2>1 DEF Push, vars
  <2>3. ~ForcePush /\ ~DeleteBranch
    <3>1. ASSUME NEW a \in Branches, NEW sha \in {NoCommit} \cup Shas, Rewrite(a, sha) PROVE FALSE
      <4>1. call[c] \in Updates(Shas)
        BY PcOfHeld DEF Typed
      <4>2. call'[c].pc = "update"
        BY <3>1, <4>1 DEF Rewrite, Updates
      <4>3. QED
        BY <4>2 DEF Idle
    <3>2. QED
      BY <3>1 DEF ForcePush, DeleteBranch
  <2>4. PICK d \in Calls : PrepareCommit(d) \/ UpdateRef(d) \/ PrepareBranch(d) \/ CreateRef(d) \/ Fails(d)
    BY <2>2, <2>3 DEF Next, Provider, Others
  <2>5. UpdateRef(d) \/ CreateRef(d)
    BY <2>4 DEF PrepareCommit, PrepareBranch, Fails
  <2>6. d = c
    BY <2>1, <2>5 DEF UpdateRef, CreateRef, Typed
  <2>7. QED
    BY <2>5, <2>6 DEF CreateRef
<1>2. head[b] = call[c].ref
  BY <1>1, HeadIsWhatWasRead
<1>3. head'[b] = call[c].sha /\ commits' = commits
  BY <1>1 DEF UpdateRef, Typed, Repository
<1>4. Past(b) \subseteq Past(b)'
  BY <1>1, UpdateRefGrows, GrowsPast
<1>5. QED
  BY <1>2, <1>3, <1>4 DEF Prepared, Built

\* However many pushes and calls come between the requests of a call, it puts
\* exactly its change on top of what the branch holds when it is accepted,
\* unless a person rewrote the branch in the meantime.
THEOREM CommitsAreChangesOnTop == Spec => ChangesOnTop
<1>1. Init => Prepared
  BY DEF Init, Prepared, Idle
<1>2. Typed /\ Typed' /\ Prepared /\ [Next]_vars =>
        [\A c \in Calls, b \in Branches :
            /\ call[c].pc = "update" /\ call[c].branch = b /\ ~call[c].moved
            /\ call'[c] = Idle /\ head' # head
            => /\ Past(b) \subseteq Past(b)'
               /\ \A f \in Files :
                     commits'[head'[b]].tree[f] =
                         IF f \in DOMAIN call[c].change THEN call[c].change[f]
                         ELSE commits[head[b]].tree[f]]_vars
  BY ChangesOnTopStep
<1>3. QED
  BY <1>1, <1>2, TypedInit, TypedInvariant, PreparedInvariant, PTL DEF Spec, ChangesOnTop

-----------------------------------------------------------------------------
(* The composition: what the provider promises holds in it.                *)

LEMMA GitOpsStep == [GitOpsNext]_allVars => [Next]_vars
  BY DEF GitOpsNext, allVars, Commits, Rewrites, Refreshes, Next, Others

\* In the composition the repository behaves as it does on its own.
THEOREM RepositoryInComposition == GitOpsSpec => Spec
<1>1. GitOpsInit => Init
  BY DEF GitOpsInit
<1>2. QED
  BY <1>1, GitOpsStep, PTL DEF GitOpsSpec, Spec

Applications == [refresh : {"none", "normal", "hard"}, operation : {"none", "sync"},
                 spec : Specs, revision : Shas]

\* The Application is of its type, and what was asked for is on the branch and
\* pending or shown.
Asking ==
    /\ app \in Applications
    /\ request = [r \in Requests |-> request[r]]
    /\ asked # Argo!Superseded =>
          /\ asked \in Past(Main)
          /\ \/ app.refresh = "hard"
             \/ app.refresh = "none" /\ asked \in commits[app.revision].past

LEMMA MainHead ==
    ASSUME Typed
    PROVE  head[Main] \in Shas /\ head[Main] \in Past(Main) /\ Past(Main) = commits[head[Main]].past
<1>1. head[Main] \in Shas
  BY MainAssumption DEF Typed, Repository
<1>2. QED
  BY <1>1, PastType DEF Past, Typed, Repository

LEMMA AskingInit == GitOpsInit => Asking
<1> SUFFICES ASSUME GitOpsInit PROVE Asking
  OBVIOUS
<1>1. head[Main] \in Shas
  BY TypedInit, MainHead DEF GitOpsInit
<1>2. QED
  BY <1>1 DEF GitOpsInit, Asking, Applications, Argo!ClientInit, Argo!Waiting, Argo!Superseded

\* Whoever writes the annotation of a request.
LEMMA RefreshWritten ==
    ASSUME Typed, Asking, NEW want \in {"normal", "hard"},
           app' = [app EXCEPT !.refresh = want], asked' = Argo!Asked(want),
           UNCHANGED <<commits, head>>
    PROVE  /\ app' \in Applications'
           /\ asked' # Argo!Superseded => asked' \in Past(Main)' /\ app'.refresh = "hard"
<1>1. app' \in Applications'
  BY DEF Asking, Applications, Shas
<1>2. head[Main] \in Past(Main) /\ Past(Main)' = Past(Main)
  BY MainHead DEF Past
<1>3. app'.refresh = want
  BY DEF Asking, Applications
<1>4. QED
  BY <1>1, <1>2, <1>3 DEF Argo!Asked

\* A step of the repository: what was asked for stays where it was.
LEMMA AskingKept ==
    ASSUME Typed, Typed', Asking, Grows, UNCHANGED <<app, request, asked>>
    PROVE  Asking'
<1>1. Past(Main) \subseteq Past(Main)'
  BY GrowsPast, MainAssumption
<1>2. app.revision \in Shas /\ commits'[app.revision] = commits[app.revision] /\ Shas \subseteq Shas'
  BY DEF Asking, Applications, Grows
<1>3. QED
  BY <1>1, <1>2 DEF Asking, Applications, Argo!Superseded

LEMMA AskingInvariant ==
    Typed /\ Typed' /\ Asking /\ [GitOpsNext]_allVars => Asking'
<1> SUFFICES ASSUME Typed, Typed', Asking, [GitOpsNext]_allVars PROVE Asking'
  OBVIOUS
<1>0. Shas \subseteq Nat \ {0}
  BY ShasType DEF Typed
<1>1. CASE Commits /\ (Provider \/ Push)
  BY <1>1, StepGrows, AskingKept DEF Commits
<1>2. ASSUME NEW b \in Branches, NEW sha \in {NoCommit} \cup Shas, Rewrite(b, sha),
             UNCHANGED <<app, request>>,
             \/ asked' = asked /\ b # Main
             \/ asked' = IF asked \in Past(Main)' THEN asked ELSE Argo!Superseded
      PROVE  Asking'
  <2>1. commits' = commits /\ Shas' = Shas
    BY <1>2, UnchangedCommits DEF Rewrite
  <2>2. b # Main => Past(Main)' = Past(Main)
    BY <1>2, RewritePast, MainAssumption
  <2>3. QED
    BY <1>2, <2>1, <2>2 DEF Asking, Applications, Argo!Superseded
<1>3. CASE Commits /\ DeleteBranch
  BY <1>2, <1>3 DEF Commits, DeleteBranch
<1>4. CASE Rewrites
  BY <1>2, <1>4 DEF Rewrites, ForcePush
<1>5. ASSUME Refreshes PROVE Asking'
  <2>1. UNCHANGED <<commits, head>> /\ Shas' = Shas /\ Past(Main)' = Past(Main)
    BY <1>5, UnchangedCommits DEF Refreshes, vars, Past
  <2>2. ASSUME NEW r \in Requests, Argo!Get(r) \/ Argo!UpdateFails(r) PROVE Asking'
    <3>1. UNCHANGED <<app, asked>> /\ request' = [q \in Requests |-> request'[q]]
      BY <2>2 DEF Asking, Applications, Argo!Get, Argo!UpdateFails
    <3>2. QED
      BY <2>1, <3>1 DEF Asking, Applications
  <2>3. ASSUME NEW r \in Requests, Argo!Update(r) PROVE Asking'
    <3>1. PICK want \in {"normal", "hard"} :
             /\ app' = [app EXCEPT !.refresh = want]
             /\ request' = [request EXCEPT ![r] = Argo!Waiting]
             /\ asked' = Argo!Asked(want)
      BY <2>3 DEF Argo!Update, Argo!Accepted, Argo!RefreshTypes, Argo!Refreshes
    <3>2. request' = [q \in Requests |-> request'[q]]
      BY <3>1 DEF Asking, Applications
    <3>3. QED
      BY <2>1, <3>1, <3>2, RefreshWritten DEF Asking, Applications
  <2>4. ASSUME NEW want \in {"normal", "hard"}, Argo!refreshViaAPI(want) PROVE Asking'
    BY <2>1, <2>4, RefreshWritten DEF Asking, Applications, Argo!refreshViaAPI
  <2>5. CASE Argo!Refreshed
    <3>1. head[Main] \in Shas /\ Past(Main) = commits[head[Main]].past
      BY MainHead
    <3>2. PICK revision \in {head[Main]} \cup (IF app.refresh = "hard" THEN {} ELSE {app.revision}) :
             app' = [app EXCEPT !.refresh = "none", !.revision = revision] /\ UNCHANGED <<request, asked>>
      BY <2>5 DEF Argo!Refreshed, Argo!Write
    <3>3. app.refresh # "none" /\ revision \in Shas
      BY <2>5, <3>1, <3>2 DEF Argo!Refreshed, Asking, Applications
    <3>4. app' = [refresh |-> "none", operation |-> app.operation, spec |-> app.spec,
                  revision |-> revision]
      BY <3>2 DEF Asking, Applications
    <3>5. asked # Argo!Superseded => revision = head[Main]
      BY <3>2, <3>3 DEF Asking, Applications
    <3>6. QED
      BY <2>1, <3>1, <3>2, <3>3, <3>4, <3>5 DEF Asking, Applications
  <2>6. CASE Argo!Polls
    <3>1. head[Main] \in Shas /\ Past(Main) = commits[head[Main]].past
      BY MainHead
    <3>2. /\ app' = [app EXCEPT !.revision = head[Main]] /\ app.refresh = "none"
          /\ UNCHANGED <<request, asked>>
      BY <2>6 DEF Argo!Polls, Argo!Write
    <3>3. QED
      BY <2>1, <3>1, <3>2 DEF Asking, Applications
  <2>7. CASE Argo!syncViaAPI
    <3>1. app' = [app EXCEPT !.operation = "sync"] /\ UNCHANGED <<request, asked>>
      BY <2>7 DEF Argo!syncViaAPI
    <3>2. app' \in Applications /\ app'.refresh = app.refresh /\ app'.revision = app.revision
      BY <3>1 DEF Asking, Applications
    <3>3. QED
      BY <2>1, <3>1, <3>2 DEF Asking, Applications, Shas
  <2>8. CASE Argo!Operated
    <3>1. head[Main] \in Shas /\ Past(Main) = commits[head[Main]].past
      BY MainHead
    <3>2. PICK revision \in {head[Main], app.revision} :
             app' = [app EXCEPT !.operation = "none", !.revision = revision]
             /\ UNCHANGED <<request, asked>>
      BY <2>8 DEF Argo!Operated, Argo!Write
    <3>3. app' = [refresh |-> app.refresh, operation |-> "none", spec |-> app.spec,
                  revision |-> revision]
      BY <3>2 DEF Asking, Applications
    <3>4. revision \in Shas
      BY <3>1 DEF Asking, Applications
    <3>5. app' \in Applications' /\ app'.refresh = app.refresh /\ app'.revision = revision
      BY <2>1, <3>3, <3>4 DEF Asking, Applications
    <3>6. QED
      BY <2>1, <3>1, <3>2, <3>5 DEF Asking, Applications
  <2>9. CASE Argo!EditSpec
    <3>1. PICK s \in Specs : app' = [app EXCEPT !.spec = s] /\ UNCHANGED <<request, asked>>
      BY <2>9 DEF Argo!EditSpec, Argo!Write
    <3>2. QED
      BY <2>1, <3>1 DEF Asking, Applications
  <2>10. QED
    BY <1>5, <2>2, <2>3, <2>4, <2>5, <2>6, <2>7, <2>8, <2>9
       DEF Refreshes, Argo!ClientNext, Argo!Dashboard, Argo!ArgoCD, Argo!Refreshes
<1>6. CASE UNCHANGED allVars
  <2>1. UNCHANGED <<app, request, asked>> /\ UNCHANGED vars
    BY <1>6 DEF allVars
  <2>2. QED
    BY <2>1, StepGrows, AskingKept
<1>7. QED
  BY <1>1, <1>3, <1>4, <1>5, <1>6 DEF GitOpsNext, Commits

\* Once an accepted hard refresh is served, ArgoCD shows every commit that was on
\* the branch when it was asked, unless a normal refresh was accepted after it.
THEOREM HardRefreshesShow == GitOpsSpec => []HardRefreshShows
<1>1. Asking => HardRefreshShows
  BY DEF Asking, HardRefreshShows
<1>2. GitOpsInit => Typed
  BY TypedInit DEF GitOpsInit
<1>3. Typed /\ [GitOpsNext]_allVars => Typed'
  BY GitOpsStep, TypedInvariant
<1>4. QED
  BY <1>1, <1>2, <1>3, AskingInit, AskingInvariant, PTL DEF GitOpsSpec

\* A request that ends has written nothing but the annotation.
LEMMA OthersKeptStep ==
    ASSUME Asking, [GitOpsNext]_allVars, NEW r \in Requests,
           request[r] # Argo!Waiting, request'[r] = Argo!Waiting
    PROVE  app' = [app EXCEPT !.refresh = app'.refresh]
<1>1. app \in Applications
  BY DEF Asking
<1>2. PICK q \in Requests : Argo!Get(q) \/ Argo!Update(q) \/ Argo!UpdateFails(q)
  <2>1. request' # request
    OBVIOUS
  <2>2. QED
    BY <2>1 DEF GitOpsNext, allVars, Commits, Rewrites, Refreshes, Argo!ClientNext,
                Argo!Dashboard, Argo!refreshViaAPI, Argo!syncViaAPI, Argo!ArgoCD,
                Argo!Refreshed, Argo!Polls, Argo!Operated, Argo!EditSpec, Argo!Write
<1>3. app' = app \/ \E want : app' = [app EXCEPT !.refresh = want]
  BY <1>2 DEF Argo!Get, Argo!Update, Argo!UpdateFails, Argo!Accepted
<1>4. QED
  BY <1>1, <1>3 DEF Applications

\* A request of the dashboard never takes back what the owner of the Application
\* or ArgoCD wrote after it read it.
THEOREM OtherWritersAreKept == GitOpsSpec => OthersKept
<1>1. GitOpsInit => Typed
  BY TypedInit DEF GitOpsInit
<1>2. Typed /\ [GitOpsNext]_allVars => Typed'
  BY GitOpsStep, TypedInvariant
<1>3. Asking /\ [GitOpsNext]_allVars =>
        [\A r \in Requests :
            request[r] # Argo!Waiting /\ request'[r] = Argo!Waiting =>
                app' = [app EXCEPT !.refresh = app'.refresh]]_allVars
  BY OthersKeptStep
<1>4. QED
  BY <1>1, <1>2, <1>3, AskingInit, AskingInvariant, PTL DEF GitOpsSpec, OthersKept
=============================================================================
