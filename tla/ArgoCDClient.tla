----------------------------- MODULE ArgoCDClient -----------------------------
(***************************************************************************)
(* src/internal/gitops/argocd/client.go: Sync and Refresh of one           *)
(* Application, as the handlers of the dashboard call them                 *)
(* (src/internal/server/api/handlers.go), each request of a browser in a   *)
(* goroutine of its own and with a client of its own, made from the        *)
(* Atelier as it is then.  A client that has ArgoCD's URL and a token asks *)
(* ArgoCD; any other sets the refresh annotation of the Application with a *)
(* Get and an Update of the whole object, spec and status included.        *)
(*                                                                         *)
(* Abstractions: the spec is a value, the status the revision that ArgoCD  *)
(* compared with last.  Versions of the same content are one version: an   *)
(* Update that is refused between them, which UpdateFails allows, would    *)
(* write the same.  What a sync deploys is left out, as are the calls that *)
(* only read.                                                              *)
(***************************************************************************)
EXTENDS Integers

CONSTANTS
    Requests,  \* requests to the dashboard that run at one time
    Specs      \* bound: specs of the Application that its owner writes

VARIABLES
    tip,     \* the commit at which the branch that ArgoCD deploys is
    app,     \* the Application in the API server
    request, \* request[r]: what request r holds between Get and Update
    asked    \* tip as it was when the last hard refresh was accepted; Superseded
             \* when a normal one was accepted since

Superseded == 0

Waiting == [pc |-> "idle"]

\* The annotation argocd.argoproj.io/refresh.
Refreshes == {"normal", "hard"}

-----------------------------------------------------------------------------
(* The client. *)

\* Mutant of RefreshTypes: a Sync without access to the API asks for nothing hard.
RefreshTypesNormal(want) == "normal"

\* What the annotation is set to for a request.
RefreshTypes(want) == want

Asked(want) == IF want = "hard" THEN tip ELSE Superseded

\* syncViaCluster and refreshViaCluster: Get.
Get(r) ==
    /\ request[r] = Waiting
    /\ request' = [request EXCEPT ![r] = [pc |-> "update", copy |-> app]]
    /\ UNCHANGED <<app, asked>>

\* Mutant of Accepted: the copy is sent without its resourceVersion.
AcceptedAlways(r) == TRUE

\* The API server accepts an Update of the version it holds.
Accepted(r) == request[r].copy = app

\* Update with the annotation changed in the copy; a sync wants a hard refresh.
Update(r) ==
    \E want \in Refreshes :
        /\ request[r].pc = "update" /\ Accepted(r)
        /\ app' = [request[r].copy EXCEPT !.refresh = RefreshTypes(want)]
        /\ request' = [request EXCEPT ![r] = Waiting]
        /\ asked' = Asked(want)

\* Conflict, another error, or the end of the request: an error for the browser.
UpdateFails(r) ==
    /\ request[r].pc = "update"
    /\ request' = [request EXCEPT ![r] = Waiting]
    /\ UNCHANGED <<app, asked>>

\* refreshViaAPI: one request, upon which ArgoCD sets the annotation.
refreshViaAPI(want) ==
    /\ app' = [app EXCEPT !.refresh = want]
    /\ asked' = Asked(want)
    /\ UNCHANGED request

\* syncViaAPI: ArgoCD starts an operation, or refuses while there is one.
syncViaAPI ==
    /\ app.operation = "none"
    /\ app' = [app EXCEPT !.operation = "sync"]
    /\ UNCHANGED <<request, asked>>

Dashboard ==
    \/ \E r \in Requests : Get(r) \/ Update(r) \/ UpdateFails(r)
    \/ \E want \in Refreshes : refreshViaAPI(want)
    \/ syncViaAPI

-----------------------------------------------------------------------------
(* ArgoCD and the owner of the Application. *)

Write(a) == app' = a /\ UNCHANGED <<request, asked>>

\* A hard refresh looks at the branch, a normal one may use what is cached.
Refreshed ==
    /\ app.refresh # "none"
    /\ \E revision \in {tip} \cup (IF app.refresh = "hard" THEN {} ELSE {app.revision}) :
          Write([app EXCEPT !.refresh = "none", !.revision = revision])

\* ArgoCD looks at the branch now and then.
Polls == app.refresh = "none" /\ Write([app EXCEPT !.revision = tip])

\* The operation is over; ArgoCD has looked at the branch for it or used what it had.
Operated ==
    /\ app.operation = "sync"
    /\ \E revision \in {tip, app.revision} :
          Write([app EXCEPT !.operation = "none", !.revision = revision])

EditSpec == \E s \in Specs \ {app.spec} : Write([app EXCEPT !.spec = s])

ArgoCD == Refreshed \/ Polls \/ Operated

-----------------------------------------------------------------------------
ClientInit ==
    /\ \E s \in Specs : app = [refresh |-> "none", operation |-> "none",
                                 spec |-> s, revision |-> tip]
    /\ request = [r \in Requests |-> Waiting]
    /\ asked = Superseded

ClientNext == Dashboard \/ ArgoCD \/ EditSpec
=============================================================================
