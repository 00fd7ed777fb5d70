--------------------------- MODULE MCWebhookNotifier ---------------------------
(* One caller tells two events, another one an event of a type that only some
   webhooks want.  The webhooks retry once, not at all (a negative count), or
   have a URL that does not parse. *)
EXTENDS WebhookNotifier, TLC

CONSTANTS c1, c2, e1, e2, e3

MCPlan == c1 :> <<e1, e2>> @@ c2 :> <<e3>>
MCTypeOf == e1 :> "pr_created" @@ e2 :> "pr_merged" @@ e3 :> "error"
MCConfigs ==
    << [retryCount |-> -1, eventTypes |-> {"pr_merged"}, validURL |-> TRUE],
       [retryCount |-> 1, eventTypes |-> {"pr_created", "pr_merged"}, validURL |-> TRUE],
       [retryCount |-> 0, eventTypes |-> {"error"}, validURL |-> FALSE] >>

=============================================================================
