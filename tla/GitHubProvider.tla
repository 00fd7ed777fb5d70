---------------------------- MODULE GitHubProvider ----------------------------
(***************************************************************************)
(* src/internal/gitops/provider/github/github.go: branches and commits of  *)
(* one repository, made by calls of the provider that run concurrently     *)
(* with each other and with whoever else pushes.  A call is a chain of     *)
(* requests to GitHub; it keeps nothing between calls and repeats none.    *)
(*                                                                         *)
(* Abstractions: a commit is its tree and its past (itself and all its     *)
(* ancestors), a SHA its index.  GetCommit, CreateTree and CreateCommit    *)
(* use objects that never change and make one that nobody sees, so that    *)
(* they are one step with the GetRef before them.  Calls that only read,   *)
(* and pull requests, are left out.                                        *)
(***************************************************************************)
EXTENDS Integers, Sequences, FiniteSets

CONSTANTS
    Calls,       \* calls of the provider that may run at one time
    Branches,    \* names of branches
    Main,        \* the branch that the repository has from the beginning
    Files,       \* paths
    Contents,    \* contents of a file
    NoFile,      \* the content of a path where there is no file
    Changes,     \* bound: CommitRequest.Changes, functions on the paths they change
    MaxCommits   \* bound: commits in the repository

Trees == [Files -> Contents \cup {NoFile}]

ASSUME MainAssumption    == Main \in Branches
ASSUME ChangesAssumption == \A ch \in Changes :
                               /\ DOMAIN ch \subseteq Files
                               /\ \A f \in DOMAIN ch : ch[f] \in Contents
ASSUME CommitsAssumption == MaxCommits \in Nat \ {0}

VARIABLES
    commits,    \* all commits, in the order of their creation
    head,       \* head[b]: the commit of branch b, or NoCommit
    call,       \* call[c]: what call c holds between two requests
    acked       \* <<b, sha>>: commits of which a pusher or the caller of Commit was
                \* told that they are on b, and that no person removed since

vars == <<commits, head, call, acked>>

NoCommit == 0
Shas     == 1 .. Len(commits)

\* The commits that branch b has, in the state of its present head.
Past(b) == IF head[b] = NoCommit THEN {} ELSE commits[head[b]].past

Idle == [pc |-> "idle"]

-----------------------------------------------------------------------------
(* GitHub, as the provider uses it. *)

\* Mutant of NewCommit: CreateTree is given no base tree.
NewCommitWithoutBase(parent, change) ==
    [past |-> commits[parent].past \cup {Len(commits) + 1},
     tree |-> [f \in Files |-> IF f \in DOMAIN change THEN change[f] ELSE NoFile]]

\* A commit on top of parent: CreateTree with the parent's tree as the base.
NewCommit(parent, change) ==
    [past |-> commits[parent].past \cup {Len(commits) + 1},
     tree |-> [f \in Files |-> IF f \in DOMAIN change THEN change[f]
                                                      ELSE commits[parent].tree[f]]]

\* Mutant of FastForward: UpdateRef with force.
Forced(b, sha) == head[b] # NoCommit

\* UpdateRef without force: the branch exists and sha has its head in its past.
FastForward(b, sha) == head[b] # NoCommit /\ head[b] \in commits[sha].past

-----------------------------------------------------------------------------
(* The provider. *)

\* Commit: read the head of the branch and prepare a commit on top of it.
PrepareCommit(c) ==
    \E b \in Branches, change \in Changes :
        /\ call[c] = Idle /\ head[b] # NoCommit /\ Len(commits) < MaxCommits
        /\ commits' = Append(commits, NewCommit(head[b], change))
        /\ call' = [call EXCEPT ![c] = [pc |-> "update", branch |-> b, ref |-> head[b],
                                        sha |-> Len(commits) + 1, change |-> change,
                                        moved |-> FALSE]]
        /\ UNCHANGED <<head, acked>>

\* Commit: UpdateRef is accepted, and its answer arrives or is lost.
UpdateRef(c) ==
    /\ call[c].pc = "update" /\ FastForward(call[c].branch, call[c].sha)
    /\ head' = [head EXCEPT ![call[c].branch] = call[c].sha]
    /\ call' = [call EXCEPT ![c] = Idle]
    /\ \/ acked' = acked \cup {<<call[c].branch, call[c].sha>>}
       \/ UNCHANGED acked
    /\ UNCHANGED commits

\* CreateBranch: read the head of the base branch.
PrepareBranch(c) ==
    \E b \in Branches, base \in Branches :
        /\ call[c] = Idle /\ head[base] # NoCommit
        /\ call' = [call EXCEPT ![c] = [pc |-> "create", branch |-> b, ref |-> head[base]]]
        /\ UNCHANGED <<commits, head, acked>>

\* CreateBranch: CreateRef, which refuses a name that is in use.
CreateRef(c) ==
    /\ call[c].pc = "create" /\ head[call[c].branch] = NoCommit
    /\ head' = [head EXCEPT ![call[c].branch] = call[c].ref]
    /\ call' = [call EXCEPT ![c] = Idle]
    /\ UNCHANGED <<commits, acked>>

\* Mutant of Fails: the call is not over when it fails.
FailsForEver(c) ==
    /\ call[c] # Idle
    /\ call' = [call EXCEPT ![c] = [pc |-> "failed"]]
    /\ UNCHANGED <<commits, head, acked>>

\* A request is refused or does not reach GitHub, or the process ends: the call
\* returns an error, or not at all.
Fails(c) ==
    /\ call[c] # Idle
    /\ call' = [call EXCEPT ![c] = Idle]
    /\ UNCHANGED <<commits, head, acked>>

Provider ==
    \E c \in Calls : PrepareCommit(c) \/ UpdateRef(c) \/ PrepareBranch(c) \/ CreateRef(c) \/ Fails(c)

-----------------------------------------------------------------------------
(* Others who push. *)

\* A commit on top of a branch: a push, or the merge of a pull request.
Push ==
    \E b \in Branches, change \in Changes :
        /\ head[b] # NoCommit /\ Len(commits) < MaxCommits
        /\ commits' = Append(commits, NewCommit(head[b], change))
        /\ head' = [head EXCEPT ![b] = Len(commits) + 1]
        /\ acked' = acked \cup {<<b, Len(commits) + 1>>}
        /\ UNCHANGED call

\* Branch b gets the given head, whatever it had: commits may disappear from it.
Rewrite(b, sha) ==
    LET kept == IF sha = NoCommit THEN {} ELSE commits[sha].past
    IN  /\ head' = [head EXCEPT ![b] = sha]
        /\ call' = [c \in Calls |->
                      IF call[c].pc = "update" /\ call[c].branch = b /\ call[c].ref \notin kept
                      THEN [call[c] EXCEPT !.moved = TRUE] ELSE call[c]]
        /\ acked' = {r \in acked : r[1] = b => r[2] \in kept}
        /\ UNCHANGED commits

\* A forced push, or one of a new branch.
ForcePush    == \E b \in Branches, sha \in Shas : head[b] # sha /\ Rewrite(b, sha)
DeleteBranch == \E b \in Branches \ {Main} : head[b] # NoCommit /\ Rewrite(b, NoCommit)

Others == Push \/ ForcePush \/ DeleteBranch

-----------------------------------------------------------------------------
Init ==
    /\ commits = <<[past |-> {1}, tree |-> [f \in Files |-> NoFile]]>>
    /\ head = [b \in Branches |-> IF b = Main THEN 1 ELSE NoCommit]
    /\ call = [c \in Calls |-> Idle]
    /\ acked = {}

Next == Provider \/ Others

Spec == Init /\ [][Next]_vars

-----------------------------------------------------------------------------
(* Properties. *)

Held == {Idle}
        \cup [pc : {"update"}, branch : Branches, ref : Shas, sha : Shas, change : Changes,
              moved : BOOLEAN]
        \cup [pc : {"create"}, branch : Branches, ref : Shas]

TypeOK ==
    /\ commits \in Seq([past : SUBSET Shas, tree : Trees])
    /\ head \in [Branches -> {NoCommit} \cup Shas]
    /\ call \in [Calls -> Held]
    /\ acked \subseteq Branches \X Shas

\* A commit that its pusher or the caller of Commit was told of is on its branch
\* until a person takes it away: no call that read the branch before makes it
\* disappear, and no call reports what did not happen.
AcknowledgedCommitsStay == \A r \in acked : r[2] \in Past(r[1])

\* A call that moves a branch puts exactly its change on top of what the branch
\* holds at that moment, however many pushes and calls came between its
\* requests, unless a person rewrote the branch in the meantime.
ChangesOnTop ==
    [][\A c \in Calls, b \in Branches :
          /\ call[c].pc = "update" /\ call[c].branch = b /\ ~call[c].moved
          /\ call'[c] = Idle /\ head' # head
          => /\ Past(b) \subseteq Past(b)'
             /\ \A f \in Files :
                   commits'[head'[b]].tree[f] =
                       IF f \in DOMAIN call[c].change THEN call[c].change[f]
                       ELSE commits[head[b]].tree[f]]_vars
=============================================================================
