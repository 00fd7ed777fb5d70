-------------------------------- MODULE GitOps --------------------------------
(***************************************************************************)
(* The way from a commit to the cluster: the GitHub provider and others    *)
(* write the branch Main (GitHubProvider), ArgoCD reads it when it is      *)
(* asked to refresh or in its own time (ArgoCDClient).                     *)
(***************************************************************************)
EXTENDS GitHubProvider

CONSTANTS Requests, Specs

VARIABLES app, request, asked

Argo == INSTANCE ArgoCDClient WITH tip <- head[Main]

allVars == <<vars, app, request, asked>>

Commits == (Provider \/ Push \/ DeleteBranch) /\ UNCHANGED <<app, request, asked>>

\* What was asked for counts no more when it is taken away from the branch.
Rewrites ==
    /\ ForcePush
    /\ asked' = IF asked \in Past(Main)' THEN asked ELSE Argo!Superseded
    /\ UNCHANGED <<app, request>>

Refreshes == Argo!ClientNext /\ UNCHANGED vars

GitOpsInit == Init /\ Argo!ClientInit
GitOpsNext == Commits \/ Rewrites \/ Refreshes
GitOpsSpec == GitOpsInit /\ [][GitOpsNext]_allVars

-----------------------------------------------------------------------------
(* Properties. *)

\* After a hard refresh that was accepted is served, ArgoCD shows every commit
\* that was on the branch when it was asked, whatever calls, pushes and further
\* requests came between, unless a normal refresh was accepted after it.
HardRefreshShows ==
    app.refresh = "none" /\ asked # Argo!Superseded => asked \in commits[app.revision].past

\* A request of the dashboard writes the whole Application and changes nothing
\* of it but the annotation: no edit of its owner, no result of ArgoCD and no
\* operation that was started after the Get is taken back.
OthersKept ==
    [][\A r \in Requests :
          request[r] # Argo!Waiting /\ request'[r] = Argo!Waiting =>
              app' = [app EXCEPT !.refresh = app'.refresh]]_allVars
=============================================================================
