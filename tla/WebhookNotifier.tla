---------------------------- MODULE WebhookNotifier ----------------------------
(***************************************************************************)
(* internal/notification/webhook.go: Send posts an event to one webhook    *)
(* after the other and repeats what fails.  Callers run side by side; of a *)
(* request, the webhook's answer or the caller's patience may be lost, and *)
(* a request that its caller gave up may still arrive.                     *)
(* Abstracted: the payload (an event is a model value), headers, the       *)
(* length of sleeps and timeouts, HTTP redirects, and Marshal, which does  *)
(* not fail on the events that the Notify functions build.                 *)
(***************************************************************************)
EXTENDS Integers, FiniteSets, Sequences

CONSTANTS
    Callers,    \* goroutines that notify
    Plan,       \* [Callers -> Seq(events)]: what each has to tell, in this order
    TypeOf,     \* the type of each event
    configs     \* Seq([retryCount : Int, eventTypes : SUBSET types, validURL : BOOLEAN])

Events == DOMAIN TypeOf
Hooks == DOMAIN configs

\* Every call of a Notify function builds an event of its own.
ASSUME PlanAssumption ==
    /\ Plan \in [Callers -> Seq(Events)]
    /\ \A c1, c2 \in Callers : \A i \in DOMAIN Plan[c1], j \in DOMAIN Plan[c2] :
           Plan[c1][i] = Plan[c2][j] => c1 = c2 /\ i = j
ASSUME ConfigsAssumption ==
    configs \in Seq([retryCount : Int, eventTypes : SUBSET {TypeOf[e] : e \in Events},
                     validURL : BOOLEAN])

VARIABLES
    call,       \* what each caller is at
    cancelled,  \* callers whose context is done
    result,     \* what Send returned for the events that are told
    sent,       \* requests that went out
    answer,     \* requests that a webhook has answered, with its answer
    seen        \* what each webhook got, in this order

vars == <<call, cancelled, result, sent, answer, seen>>

\* RetryCount 0, the value of a config that says nothing, stands for 3.
Retries(h) == IF configs[h].retryCount = 0 THEN 3 ELSE configs[h].retryCount

containsEventType(h, e) == configs[h].eventTypes = {} \/ TypeOf[e] \in configs[h].eventTypes

Interested(e) == {h \in Hooks : containsEventType(h, e)}

Idle == [pc |-> "idle", hook |-> 0, attempt |-> 0, failed |-> FALSE]

\* How often c has called Send and got its result; the event it tells now.
Told(c) == {i \in DOMAIN Plan[c] : Plan[c][i] \in DOMAIN result}
Event(c) == Plan[c][Cardinality(Told(c)) + 1]

Requests == [event : Events, hook : Hooks, attempt : Nat]
Request(c) == [event |-> Event(c), hook |-> call[c].hook, attempt |-> call[c].attempt]

\* The first webhook from h on that wants the event, or the end of the list.
NextHook(e, h) ==
    CHOOSE n \in h..(Len(configs) + 1) :
        /\ n \in Interested(e) \cup {Len(configs) + 1}
        /\ \A k \in h..(n - 1) : k \notin Interested(e)

\* Send is over: nil when no webhook failed.
Return(c, failed) ==
    /\ call' = [call EXCEPT ![c] = Idle]
    /\ result' = [e \in DOMAIN result \cup {Event(c)} |->
                     IF e = Event(c) THEN IF failed THEN "error" ELSE "ok" ELSE result[e]]

\* The loop of Send arrives at h: sendToWebhook starts with attempt 0, which a
\* negative RetryCount leaves out.
Visit(c, h, failed) ==
    IF h > Len(configs)
    THEN Return(c, failed)
    ELSE /\ call' = [call EXCEPT ![c] =
                        [pc |-> IF Retries(h) >= 0 THEN "try" ELSE "gave up",
                         hook |-> h, attempt |-> 0, failed |-> failed]]
         /\ UNCHANGED result

\* Any error of a webhook makes the result an error, also when later ones accept.
AfterSuccess(c) == Visit(c, NextHook(Event(c), call[c].hook + 1), call[c].failed)

\* Mutant of AfterFailure: Send returns at the first webhook that fails.
AfterFailureReturns(c) == Visit(c, Len(configs) + 1, TRUE)

AfterFailure(c) == Visit(c, NextHook(Event(c), call[c].hook + 1), TRUE)

\* Mutant of Failed: a continue that jumps over the increment.
FailedUncounted(c) ==
    IF call[c].attempt < Retries(call[c].hook)
    THEN /\ call' = [call EXCEPT ![c].pc = "sleep"]
         /\ UNCHANGED result
    ELSE AfterFailure(c)

\* An attempt failed: sleep before the next one, unless it was the last.
Failed(c) ==
    IF call[c].attempt < Retries(call[c].hook)
    THEN /\ call' = [call EXCEPT ![c].pc = "sleep", ![c].attempt = @ + 1]
         /\ UNCHANGED result
    ELSE AfterFailure(c)

-----------------------------------------------------------------------------
(* Callers. *)

\* NotifyPRCreated and its like build the event and call Send.
Notify(c) ==
    /\ call[c].pc = "idle" /\ Cardinality(Told(c)) < Len(Plan[c])
    /\ Visit(c, NextHook(Event(c), 1), FALSE)
    /\ UNCHANGED <<cancelled, sent, answer, seen>>

\* A URL that does not parse and a context that is done fail before anything
\* is sent.
Try(c) ==
    /\ call[c].pc = "try"
    /\ IF configs[call[c].hook].validURL /\ c \notin cancelled
       THEN /\ sent' = sent \cup {Request(c)}
            /\ call' = [call EXCEPT ![c].pc = "flying"]
            /\ UNCHANGED result
       ELSE Failed(c) /\ UNCHANGED sent
    /\ UNCHANGED <<cancelled, answer, seen>>

GiveUp(c) ==
    /\ call[c].pc = "gave up"
    /\ AfterFailure(c)
    /\ UNCHANGED <<cancelled, sent, answer, seen>>

\* Mutant of Answered: any response is taken for an acceptance.
AnsweredAnyStatus(c) ==
    /\ call[c].pc = "flying" /\ Request(c) \in DOMAIN answer
    /\ AfterSuccess(c)
    /\ UNCHANGED <<cancelled, sent, answer, seen>>

\* Do returned a response: 2xx ends the work on this webhook.
Answered(c) ==
    /\ call[c].pc = "flying" /\ Request(c) \in DOMAIN answer
    /\ IF answer[Request(c)] = "2xx" THEN AfterSuccess(c) ELSE Failed(c)
    /\ UNCHANGED <<cancelled, sent, answer, seen>>

\* Do returned an error: the timeout, a done context or a broken connection.
TimesOut(c) ==
    /\ call[c].pc = "flying"
    /\ Failed(c)
    /\ UNCHANGED <<cancelled, sent, answer, seen>>

\* time.Sleep knows no context: a cancelled caller sleeps on.
Wake(c) ==
    /\ call[c].pc = "sleep"
    /\ call' = [call EXCEPT ![c].pc = "try"]
    /\ UNCHANGED <<cancelled, result, sent, answer, seen>>

-----------------------------------------------------------------------------
(* The environment.  A request or an answer that never arrives is lost. *)

Cancel(c) ==
    /\ c \notin cancelled
    /\ cancelled' = cancelled \cup {c}
    /\ UNCHANGED <<call, result, sent, answer, seen>>

Receive(r, status) ==
    /\ r \in sent /\ r \notin DOMAIN answer
    /\ seen' = [seen EXCEPT ![r.hook] = Append(@, [event |-> r.event, status |-> status])]
    /\ answer' = [q \in DOMAIN answer \cup {r} |-> IF q = r THEN status ELSE answer[q]]
    /\ UNCHANGED <<call, cancelled, result, sent>>

Send(c) == Notify(c) \/ Try(c) \/ GiveUp(c) \/ Answered(c) \/ TimesOut(c) \/ Wake(c)

Environment ==
    \/ \E c \in Callers : Cancel(c)
    \/ \E r \in sent, status \in {"2xx", "other"} : Receive(r, status)

Init ==
    /\ call = [c \in Callers |-> Idle]
    /\ cancelled = {}
    /\ result = [e \in {} |-> "ok"]
    /\ sent = {}
    /\ answer = [r \in {} |-> "2xx"]
    /\ seen = [h \in Hooks |-> <<>>]

Next == Environment \/ \E c \in Callers : Send(c)

Spec == Init /\ [][Next]_vars

\* A caller runs on; nobody else is bound to do anything.
FairSpec == Spec /\ \A c \in Callers : WF_vars(Send(c))

-----------------------------------------------------------------------------
(* Properties. *)

\* Send returns nil only when every webhook that wants the event has accepted
\* it, and then the webhook accepted it before it got any later event of the
\* same caller: retries and late arrivals do not change the order.
AcknowledgedInOrder ==
    \A c \in Callers : \A i \in Told(c) :
        result[Plan[c][i]] = "ok" =>
            \A h \in Interested(Plan[c][i]) :
                \E n \in DOMAIN seen[h] :
                    /\ seen[h][n] = [event |-> Plan[c][i], status |-> "2xx"]
                    /\ \A j \in DOMAIN Plan[c] : \A k \in 1..n :
                           j > i => seen[h][k].event # Plan[c][j]

\* How often h may be sent an event: not at all with a negative RetryCount.
Allowed(h) == IF Retries(h) >= 0 THEN Retries(h) + 1 ELSE 0

Attempts(e, h) == {r \in sent : r.event = e /\ r.hook = h}

\* A webhook that fails takes nothing from the others: when Send returns in
\* time, each webhook with a proper URL that wants the event has accepted it or
\* was sent it as often as its retries allow; and however answers are lost or
\* late, no webhook sees an event more often, or one it did not ask for.
FailuresIsolated ==
    /\ \A c \in Callers \ cancelled : \A i \in Told(c) :
           \A h \in Interested(Plan[c][i]) :
               configs[h].validURL =>
                   \/ \E n \in DOMAIN seen[h] : seen[h][n] = [event |-> Plan[c][i], status |-> "2xx"]
                   \/ Cardinality(Attempts(Plan[c][i], h)) = Allowed(h)
    /\ \A e \in Events, h \in Hooks :
           Cardinality({n \in DOMAIN seen[h] : seen[h][n].event = e})
               <= IF containsEventType(h, e) THEN Allowed(h) ELSE 0

\* Every call of Send comes back, whether webhooks answer or not.
SendReturns == \A c \in Callers : call[c].pc # "idle" ~> call[c].pc = "idle"
=============================================================================
