------------------------- MODULE WebhookNotifierProofs -------------------------
(***************************************************************************)
(* Theorems about WebhookNotifier, for any callers, events, webhooks and   *)
(* retry counts, whatever is lost, late or cancelled.                      *)
(***************************************************************************)
EXTENDS WebhookNotifier, FiniteSetTheorems, FunctionTheorems, WellFoundedInduction, TLAPS

-----------------------------------------------------------------------------
(* The least of a set of numbers. *)

LEMMA LeastNatural ==
    ASSUME NEW T \in SUBSET Nat, T # {}
    PROVE  \E x \in T : \A y \in T : x <= y
<1>1. PICK x \in T : \A y \in T : <<y, x>> \notin OpToRel(<, Nat)
  BY NatLessThanWellFounded, WFMin
<1>2. ASSUME NEW y \in T PROVE x <= y
  <2>1. x \in Nat /\ y \in Nat
    OBVIOUS
  <2>2. ~(y < x)
    BY <1>1, <2>1 DEF OpToRel
  <2>3. QED
    BY <2>1, <2>2
<1>3. QED
  BY <1>2

-----------------------------------------------------------------------------
(* Lemmas about the operators. *)

LEMMA Compared ==
    ASSUME NEW a \in Int, NEW b \in Int
    PROVE  (~(a < b) => a >= b) /\ (a < b => a + 1 <= b)
  OBVIOUS

LEMMA PlaceBefore ==
    ASSUME NEW m \in Nat, NEW p \in 1..m
    PROVE  p - 1 \in 0..m /\ p - 1 < m
  OBVIOUS

LEMMA HooksFacts ==
    /\ Len(configs) \in Nat /\ Hooks = 1..Len(configs)
    /\ \A h \in Hooks : Retries(h) \in Int
    /\ \A e : Interested(e) \subseteq Hooks
<1>1. Len(configs) \in Nat /\ Hooks = 1..Len(configs)
  BY ConfigsAssumption DEF Hooks
<1>2. ASSUME NEW h \in Hooks PROVE configs[h].retryCount \in Int
  <2> DEFINE C == [retryCount : Int, eventTypes : SUBSET {TypeOf[e] : e \in Events},
                   validURL : BOOLEAN]
  <2>1. configs[h] \in C
    <3>1. configs \in Seq(C)
      BY ConfigsAssumption
    <3> HIDE DEF C
    <3>2. QED
      BY <1>1, <3>1
  <2>2. QED
    BY <2>1
<1>3. QED
  BY <1>1, <1>2 DEF Retries, Interested

LEMMA PlanFacts ==
    ASSUME NEW c \in Callers
    PROVE  /\ Len(Plan[c]) \in Nat /\ DOMAIN Plan[c] = 1..Len(Plan[c])
           /\ \A i \in 1..Len(Plan[c]) : Plan[c][i] \in Events
  BY PlanAssumption

LEMMA PlanUnique ==
    ASSUME NEW c \in Callers, NEW d \in Callers, NEW i \in DOMAIN Plan[c],
           NEW j \in DOMAIN Plan[d], Plan[c][i] = Plan[d][j]
    PROVE  c = d /\ i = j
  BY PlanAssumption

\* There is a next webhook, and none that wants the event is passed over.
LEMMA NextHookFacts ==
    ASSUME NEW e, NEW h \in 1..(Len(configs) + 1)
    PROVE  /\ NextHook(e, h) \in h..(Len(configs) + 1)
           /\ NextHook(e, h) \in Interested(e) \cup {Len(configs) + 1}
           /\ \A k \in Interested(e) : k < h \/ k >= NextHook(e, h)
<1> DEFINE last == Len(configs) + 1
           T == {n \in h..last : n \in Interested(e) \cup {last}}
           P(n) == /\ n \in Interested(e) \cup {last}
                   /\ \A k \in h..(n - 1) : k \notin Interested(e)
<1>1. Len(configs) \in Nat /\ h \in Nat /\ last \in Nat /\ h <= last
      /\ Interested(e) \subseteq 1..Len(configs)
  BY HooksFacts
<1>2. T \in SUBSET Nat /\ last \in T
  BY <1>1
<1>3. PICK n \in T : \A m \in T : n <= m
  BY <1>2, LeastNatural
<1>4. n \in h..last /\ P(n)
  BY <1>1, <1>3
<1>5. NextHook(e, h) \in h..last /\ P(NextHook(e, h))
  <2>1. NextHook(e, h) = CHOOSE m \in h..last : P(m)
    BY DEF NextHook
  <2> HIDE DEF P, last
  <2>2. QED
    BY <1>4, <2>1
<1>6. QED
  BY <1>1, <1>5

-----------------------------------------------------------------------------
(***************************************************************************)
(* The invariant that the proofs share.  A caller tells its events in the  *)
(* order of its plan; a call is at a webhook that wants the event, with an *)
(* attempt that its retries allow; and what was sent belongs to an event   *)
(* that is told or being told.                                             *)
(***************************************************************************)
Call == [pc : {"idle", "try", "flying", "sleep", "gave up"}, hook : Nat, attempt : Nat,
         failed : BOOLEAN]
Entry == [event : Events, status : {"2xx", "other"}]

TypeInv ==
    /\ call \in [Callers -> Call]
    /\ sent \subseteq Requests
    /\ DOMAIN answer \subseteq sent
    /\ seen \in [Hooks -> Seq(Entry)]

Busy(c) == call[c].pc # "idle"
Place(c) == Cardinality(Told(c)) + 1

TellsInOrder ==
    \A c \in Callers : \E n \in 0..Len(Plan[c]) :
        Told(c) = 1..n /\ (Busy(c) => n < Len(Plan[c]))

AtHook ==
    \A c \in Callers : Busy(c) =>
        /\ call[c].hook \in Interested(Event(c))
        /\ call[c].pc # "gave up" => call[c].attempt <= Retries(call[c].hook)
        /\ call[c].pc = "gave up" => Retries(call[c].hook) < 0 /\ call[c].attempt = 0

\* The event at place i of c's plan is told or being told.
Begun(c, i) == i \in Told(c) \/ (Busy(c) /\ i = Place(c))

SentInv ==
    \A r \in sent :
        /\ r.hook \in Interested(r.event) /\ r.attempt <= Retries(r.hook)
        /\ \A c \in Callers : \A i \in DOMAIN Plan[c] : r.event = Plan[c][i] => Begun(c, i)

Inv == TypeInv /\ TellsInOrder /\ AtHook /\ SentInv

\* What a caller has told, and what comes next.
LEMMA ToldFacts ==
    ASSUME NEW c \in Callers, TellsInOrder
    PROVE  /\ Place(c) \in 1..(Len(Plan[c]) + 1) /\ Told(c) = 1..(Place(c) - 1)
           /\ Event(c) = Plan[c][Place(c)]
           /\ Busy(c) \/ Cardinality(Told(c)) < Len(Plan[c])
                => Place(c) \in DOMAIN Plan[c] /\ Event(c) \in Events
<1>1. PICK n \in 0..Len(Plan[c]) : Told(c) = 1..n /\ (Busy(c) => n < Len(Plan[c]))
  BY DEF TellsInOrder
<1>2. n \in Nat /\ Len(Plan[c]) \in Nat
  BY PlanFacts
<1>3. Cardinality(Told(c)) = n
  BY <1>1, <1>2, FS_Interval
<1>4. QED
  BY <1>1, <1>2, <1>3, PlanFacts DEF Place, Event

\* While results stay, so do the events told and the next one.
LEMMA ToldKept ==
    ASSUME UNCHANGED result, NEW c
    PROVE  Told(c)' = Told(c) /\ Event(c)' = Event(c) /\ Place(c)' = Place(c)
  BY DEF Told, Event, Place

\* When Send returns, its event is told and nothing else changes.
LEMMA ToldGrows ==
    ASSUME TellsInOrder, NEW c \in Callers, NEW failed, Return(c, failed),
           Busy(c) \/ Cardinality(Told(c)) < Len(Plan[c])
    PROVE  /\ Told(c)' = 1..Place(c) /\ Place(c)' = Place(c) + 1
           /\ \A d \in Callers \ {c} : Told(d)' = Told(d) /\ Event(d)' = Event(d)
                                       /\ Place(d)' = Place(d)
<1>1. /\ Place(c) \in DOMAIN Plan[c] /\ Told(c) = 1..(Place(c) - 1)
      /\ Event(c) = Plan[c][Place(c)]
  BY ToldFacts
<1>2. DOMAIN result' = DOMAIN result \cup {Event(c)}
  BY DEF Return
<1>3. \A d \in Callers : Told(d)' = {i \in DOMAIN Plan[d] : Plan[d][i] \in DOMAIN result'}
  BY DEF Told
<1>4. Told(c)' = Told(c) \cup {Place(c)}
  BY <1>1, <1>2, <1>3, PlanUnique DEF Told
<1>5. Place(c) \in Nat \ {0} /\ Told(c)' = 1..Place(c)
  BY <1>1, <1>4, PlanFacts
<1>6. Cardinality(Told(c)') = Place(c)
  BY <1>5, FS_Interval
<1>7. ASSUME NEW d \in Callers, d # c PROVE Told(d)' = Told(d)
  BY <1>1, <1>2, <1>3, <1>7, PlanUnique DEF Told
<1>8. QED
  BY <1>5, <1>6, <1>7 DEF Place, Event
-----------------------------------------------------------------------------
(* The steps of Send: another attempt at the same webhook, or the next one. *)

\* The attempt that fails was sent, unless the context was done or the URL wrong.
SentOrExcused(c) ==
    call[c].pc = "flying" \/ c \in cancelled \/ ~configs[call[c].hook].validURL

\* The record of c becomes r, at the same webhook.
Repeats(c, r) ==
    /\ Busy(c) /\ call' = [call EXCEPT ![c] = r] /\ UNCHANGED <<result, answer, seen>>
    /\ r \in Call /\ r.hook = call[c].hook /\ r.failed = call[c].failed
    /\ r.pc \in {"try", "flying", "sleep"} /\ r.attempt <= Retries(r.hook)
    /\ \/ r.pc = "flying" /\ r.attempt = call[c].attempt /\ sent' = sent \cup {Request(c)}
       \/ r.pc = "try" /\ r.attempt = call[c].attempt /\ UNCHANGED sent
       \/ /\ r.pc = "sleep" /\ r.attempt = call[c].attempt + 1 /\ UNCHANGED sent
          /\ SentOrExcused(c)

\* c goes on with the webhooks from k on, or returns.
Leaves(c, k, failed) ==
    /\ Visit(c, NextHook(Event(c), k), failed) /\ UNCHANGED <<sent, answer, seen>>
    /\ k \in 1..(Len(configs) + 1) /\ failed \in BOOLEAN
    /\ \/ ~Busy(c) /\ Cardinality(Told(c)) < Len(Plan[c]) /\ k = 1
       \/ /\ Busy(c) /\ k = call[c].hook + 1 /\ failed = call[c].failed
          /\ Request(c) \in DOMAIN answer /\ answer[Request(c)] = "2xx"
       \/ /\ Busy(c) /\ k = call[c].hook + 1 /\ failed
          /\ call[c].attempt >= Retries(call[c].hook)
          /\ SentOrExcused(c) \/ call[c].pc = "gave up"

LEMMA CallFacts ==
    ASSUME Inv, NEW c \in Callers
    PROVE  /\ call[c] \in Call /\ call[c].attempt \in Nat /\ call[c].failed \in BOOLEAN
           /\ call[c] = [pc |-> call[c].pc, hook |-> call[c].hook, attempt |-> call[c].attempt,
                         failed |-> call[c].failed]
           /\ Busy(c) => /\ call[c].hook \in Hooks /\ Retries(call[c].hook) \in Int
                         /\ call[c].hook + 1 \in 1..(Len(configs) + 1)
<1>1. call[c] \in Call
  BY DEF Inv, TypeInv
<1>2. Busy(c) => call[c].hook \in Hooks
  BY HooksFacts DEF Inv, AtHook
<1>3. Busy(c) => /\ Retries(call[c].hook) \in Int
                 /\ call[c].hook + 1 \in 1..(Len(configs) + 1)
  BY <1>2, HooksFacts
<1>4. QED
  BY <1>1, <1>2, <1>3 DEF Call

AttemptFails(c) == Busy(c) /\ call[c].pc # "gave up" /\ Failed(c) /\ SentOrExcused(c)

LEMMA FailedSteps ==
    ASSUME Inv, NEW c \in Callers, AttemptFails(c), UNCHANGED <<sent, answer, seen>>
    PROVE  (\E r : Repeats(c, r)) \/ (\E k, f : Leaves(c, k, f))
<1> DEFINE a == call[c].attempt
           n == Retries(call[c].hook)
<1>1. /\ a \in Nat /\ n \in Int /\ a <= n
      /\ call[c].hook + 1 \in 1..(Len(configs) + 1)
  BY CallFacts DEF Inv, AtHook, AttemptFails
<1>2. CASE a < n
  <2> DEFINE r == [call[c] EXCEPT !.pc = "sleep", !.attempt = @ + 1]
  <2>1. call' = [call EXCEPT ![c] = r] /\ UNCHANGED result
    BY <1>2, CallFacts DEF Failed, AttemptFails, Inv, TypeInv
  <2>2. a + 1 \in Nat /\ a + 1 <= n
    <3>1. a \in Int /\ a + 1 \in Nat
      BY <1>1
    <3>2. QED
      BY <1>1, <1>2, <3>1, Compared
  <2>3. /\ r \in Call /\ r.hook = call[c].hook /\ r.failed = call[c].failed /\ r.pc = "sleep"
        /\ r.attempt = a + 1
    BY <2>2, CallFacts DEF Call
  <2>4. Repeats(c, r)
    BY <2>1, <2>2, <2>3 DEF Repeats, AttemptFails
  <2>5. QED
    BY <2>4
<1>3. CASE ~(a < n)
  <2>1. Visit(c, NextHook(Event(c), call[c].hook + 1), TRUE)
    BY <1>3 DEF Failed, AfterFailure, AttemptFails
  <2>2. a >= n
    <3>1. a \in Int
      BY <1>1
    <3>2. QED
      BY <1>1, <1>3, <3>1, Compared
  <2>3. Leaves(c, call[c].hook + 1, TRUE)
    BY <1>1, <2>1, <2>2 DEF Leaves, AttemptFails
  <2>4. QED
    BY <2>3
<1>4. QED
  BY <1>2, <1>3

LEMMA SendSteps ==
    ASSUME Inv, NEW c \in Callers, Send(c)
    PROVE  /\ UNCHANGED cancelled
           /\ (\E r : Repeats(c, r)) \/ (\E k, f : Leaves(c, k, f))
<1>0. UNCHANGED cancelled
  BY DEF Send, Notify, Try, GiveUp, Answered, TimesOut, Wake
<1>1. call \in [Callers -> Call] /\ call[c] \in Call
  BY DEF Inv, TypeInv
<1>2. CASE Notify(c)
  <2>1. 1 \in 1..(Len(configs) + 1)
    BY HooksFacts
  <2>2. Leaves(c, 1, FALSE)
    BY <1>2, <2>1 DEF Notify, Leaves, Busy
  <2>3. QED
    BY <1>0, <2>2
<1>3. CASE Try(c)
  <2>1. CASE configs[call[c].hook].validURL /\ c \notin cancelled
    <3> DEFINE r == [call[c] EXCEPT !.pc = "flying"]
    <3>1. call[c].attempt <= Retries(call[c].hook)
      BY <1>3 DEF Try, Inv, AtHook, Busy
    <3>2. /\ r \in Call /\ r.hook = call[c].hook /\ r.failed = call[c].failed
          /\ r.attempt = call[c].attempt /\ r.pc = "flying"
      BY <1>1 DEF Call
    <3>3. Repeats(c, r)
      BY <1>3, <2>1, <3>1, <3>2 DEF Try, Repeats, Busy
    <3>4. QED
      BY <1>0, <3>3
  <2>2. CASE ~(configs[call[c].hook].validURL /\ c \notin cancelled)
    BY <1>0, <1>3, <2>2, FailedSteps DEF Try, Busy, SentOrExcused, AttemptFails
  <2>3. QED
    BY <2>1, <2>2
<1>4. CASE GiveUp(c)
  <2>1. call[c].hook + 1 \in 1..(Len(configs) + 1) /\ Busy(c)
    BY <1>4, CallFacts DEF GiveUp, Busy
  <2>2. call[c].attempt >= Retries(call[c].hook)
    <3>1. call[c].attempt = 0 /\ Retries(call[c].hook) < 0 /\ Retries(call[c].hook) \in Int
      BY <1>4, <2>1, CallFacts DEF GiveUp, Inv, AtHook
    <3>2. QED
      BY <3>1
  <2>3. Leaves(c, call[c].hook + 1, TRUE)
    BY <1>4, <2>1, <2>2 DEF GiveUp, AfterFailure, Leaves
  <2>4. QED
    BY <1>0, <2>3
<1>5. CASE Answered(c)
  <2>1. CASE answer[Request(c)] = "2xx"
    <3>1. call[c].hook + 1 \in 1..(Len(configs) + 1) /\ Busy(c) /\ call[c].failed \in BOOLEAN
      BY <1>5, CallFacts DEF Answered, Busy
    <3>2. Leaves(c, call[c].hook + 1, call[c].failed)
      BY <1>5, <2>1, <3>1 DEF Answered, AfterSuccess, Leaves
    <3>3. QED
      BY <1>0, <3>2
  <2>2. CASE answer[Request(c)] # "2xx"
    BY <1>0, <1>5, <2>2, FailedSteps DEF Answered, Busy, SentOrExcused, AttemptFails
  <2>3. QED
    BY <2>1, <2>2
<1>6. CASE TimesOut(c)
  BY <1>0, <1>6, FailedSteps DEF TimesOut, Busy, SentOrExcused, AttemptFails
<1>7. CASE Wake(c)
  <2> DEFINE r == [call[c] EXCEPT !.pc = "try"]
  <2>1. call[c].attempt <= Retries(call[c].hook)
    BY <1>7 DEF Wake, Inv, AtHook, Busy
  <2>2. /\ r \in Call /\ r.hook = call[c].hook /\ r.failed = call[c].failed
        /\ r.attempt = call[c].attempt /\ r.pc = "try"
    BY <1>1 DEF Call
  <2>3. Repeats(c, r)
    BY <1>7, <2>1, <2>2 DEF Wake, Repeats, Busy
  <2>4. QED
    BY <1>0, <2>3
<1>8. QED
  BY <1>2, <1>3, <1>4, <1>5, <1>6, <1>7 DEF Send

\* Where a call that leaves a webhook arrives: at the next one that wants the
\* event, or at the end.
Arrives(c, h, k, failed) ==
    /\ h \in Interested(Event(c))
    /\ \A j \in Interested(Event(c)) : j < k \/ j >= h
    /\ UNCHANGED result
    /\ call' = [call EXCEPT ![c] = [pc |-> IF Retries(h) >= 0 THEN "try" ELSE "gave up",
                                    hook |-> h, attempt |-> 0, failed |-> failed]]

LEMMA LeavesFor ==
    ASSUME NEW c \in Callers, NEW k, NEW failed, Leaves(c, k, failed)
    PROVE  \/ \E h : Arrives(c, h, k, failed)
           \/ Return(c, failed) /\ \A j \in Interested(Event(c)) : j < k
<1> DEFINE h == NextHook(Event(c), k)
<1>1. /\ h \in k..(Len(configs) + 1) /\ h \in Interested(Event(c)) \cup {Len(configs) + 1}
      /\ \A j \in Interested(Event(c)) : j < k \/ j >= h
  BY NextHookFacts DEF Leaves
<1>2. Len(configs) \in Nat /\ Interested(Event(c)) \subseteq 1..Len(configs) /\ k \in Nat
  <2>1. Len(configs) \in Nat /\ k \in 1..(Len(configs) + 1)
    BY HooksFacts DEF Leaves
  <2>2. QED
    BY <2>1, HooksFacts
<1>3. Visit(c, h, failed)
  BY DEF Leaves
<1> HIDE DEF h
<1>4. CASE h > Len(configs)
  <2>1. Return(c, failed) /\ \A j \in Interested(Event(c)) : j < k
    BY <1>1, <1>2, <1>3, <1>4 DEF Visit
  <2>2. QED
    BY <2>1
<1>5. CASE ~(h > Len(configs))
  <2>1. h \in Interested(Event(c))
    BY <1>1, <1>2, <1>5
  <2>2. Arrives(c, h, k, failed)
    BY <1>1, <1>3, <1>5, <2>1 DEF Visit, Arrives
  <2>3. QED
    BY <2>2
<1>6. QED
  BY <1>4, <1>5
-----------------------------------------------------------------------------
(* Inv is inductive. *)

LEMMA InvInit == Init => Inv
<1> SUFFICES ASSUME Init PROVE Inv
  OBVIOUS
<1>1. TypeInv
  BY DEF Init, TypeInv, Call, Idle
<1>2. \A c \in Callers : Told(c) = {} /\ ~Busy(c)
  BY DEF Init, Told, Busy, Idle
<1>3. TellsInOrder
  <2> SUFFICES ASSUME NEW c \in Callers
               PROVE  \E n \in 0..Len(Plan[c]) : Told(c) = 1..n /\ (Busy(c) => n < Len(Plan[c]))
    BY DEF TellsInOrder
  <2>1. 0 \in 0..Len(Plan[c]) /\ Told(c) = 1..0 /\ ~Busy(c)
    BY <1>2, PlanFacts
  <2>2. QED
    BY <2>1
<1>4. QED
  BY <1>1, <1>2, <1>3 DEF Inv, AtHook, SentInv, Init

\* A step after which c is busy with the event it is to tell.
LEMMA InvBusy ==
    ASSUME Inv, NEW c \in Callers, NEW r \in Call,
           Busy(c) \/ Cardinality(Told(c)) < Len(Plan[c]),
           call' = [call EXCEPT ![c] = r], UNCHANGED <<result, answer, seen>>,
           r.pc # "idle", r.hook \in Interested(Event(c)),
           r.pc # "gave up" => r.attempt <= Retries(r.hook),
           r.pc = "gave up" => Retries(r.hook) < 0 /\ r.attempt = 0,
           \/ UNCHANGED sent
           \/ /\ sent' = sent \cup {[event |-> Event(c), hook |-> r.hook, attempt |-> r.attempt]}
              /\ r.pc # "gave up"
    PROVE  Inv'
<1>1. \A d \in Callers : Told(d)' = Told(d) /\ Event(d)' = Event(d) /\ Place(d)' = Place(d)
  BY ToldKept
<1>2. call'[c] = r /\ \A d \in Callers \ {c} : call'[d] = call[d]
  BY DEF Inv, TypeInv
<1>3. /\ Place(c) \in DOMAIN Plan[c] /\ Event(c) = Plan[c][Place(c)] /\ Event(c) \in Events
      /\ Told(c) = 1..(Place(c) - 1) /\ Place(c) \in 1..(Len(Plan[c]) + 1)
  BY ToldFacts DEF Inv
<1>4. TypeInv'
  <2>1. r.hook \in Hooks /\ r.attempt \in Nat
    BY HooksFacts DEF Call
  <2>2. sent' \subseteq Requests
    <3>1. [event |-> Event(c), hook |-> r.hook, attempt |-> r.attempt] \in Requests
      BY <1>3, <2>1 DEF Requests
    <3>2. QED
      BY <3>1 DEF Inv, TypeInv
  <2>3. sent \subseteq sent'
    OBVIOUS
  <2>4. QED
    BY <2>2, <2>3 DEF Inv, TypeInv
<1>5. TellsInOrder'
  <2> SUFFICES ASSUME NEW d \in Callers
               PROVE  \E n \in 0..Len(Plan[d]) : Told(d)' = 1..n /\ (Busy(d)' => n < Len(Plan[d]))
    BY DEF TellsInOrder
  <2>1. CASE d = c
    <3>1. Len(Plan[c]) \in Nat /\ Place(c) \in 1..Len(Plan[c])
      BY <1>3, PlanFacts
    <3> DEFINE n == Place(c) - 1
    <3>2. n \in 0..Len(Plan[c]) /\ n < Len(Plan[c]) /\ Told(c)' = 1..n
      BY <1>1, <1>3, <3>1, PlaceBefore
    <3>3. QED
      BY <2>1, <3>2
  <2>2. CASE d # c
    BY <1>1, <1>2, <2>2 DEF Inv, TellsInOrder, Busy
  <2>3. QED
    BY <2>1, <2>2
<1>6. AtHook'
  BY <1>1, <1>2 DEF Inv, AtHook, Busy
<1>7. SentInv'
  <2>1. ASSUME NEW d \in Callers, NEW i, Begun(d, i) PROVE Begun(d, i)'
    BY <1>1, <1>2, <2>1 DEF Begun, Busy
  <2>2. ASSUME NEW d \in Callers, NEW i \in DOMAIN Plan[d], Event(c) = Plan[d][i]
        PROVE  Begun(d, i)'
    <3>1. d = c /\ i = Place(c)
      BY <1>3, <2>2, PlanUnique
    <3>2. QED
      BY <1>1, <1>2, <3>1 DEF Begun, Busy
  <2> SUFFICES ASSUME NEW q \in sent'
               PROVE  /\ q.hook \in Interested(q.event) /\ q.attempt <= Retries(q.hook)
                      /\ \A d \in Callers : \A i \in DOMAIN Plan[d] :
                            q.event = Plan[d][i] => Begun(d, i)'
    BY DEF SentInv
  <2>3. CASE q \in sent
    BY <2>1, <2>3 DEF Inv, SentInv
  <2>4. CASE q \notin sent
    <3>1. /\ q = [event |-> Event(c), hook |-> r.hook, attempt |-> r.attempt]
          /\ r.pc # "gave up"
      BY <2>4
    <3>2. QED
      BY <2>2, <3>1
  <2>5. QED
    BY <2>3, <2>4
<1>8. QED
  BY <1>4, <1>5, <1>6, <1>7 DEF Inv

LEMMA InvReturn ==
    ASSUME Inv, NEW c \in Callers, NEW failed, Return(c, failed),
           Busy(c) \/ Cardinality(Told(c)) < Len(Plan[c]), UNCHANGED <<sent, answer, seen>>
    PROVE  Inv'
<1>1. /\ Told(c)' = 1..Place(c) /\ Place(c)' = Place(c) + 1
      /\ \A d \in Callers \ {c} : Told(d)' = Told(d) /\ Event(d)' = Event(d) /\ Place(d)' = Place(d)
  BY ToldGrows DEF Inv
<1>2. call'[c] = Idle /\ \A d \in Callers \ {c} : call'[d] = call[d]
  BY DEF Inv, TypeInv, Return
<1>3. Place(c) \in DOMAIN Plan[c] /\ Told(c) = 1..(Place(c) - 1)
  BY ToldFacts DEF Inv
<1>4. Len(Plan[c]) \in Nat /\ Place(c) \in 1..Len(Plan[c])
  BY <1>3, PlanFacts
<1>5. TypeInv'
  BY DEF Inv, TypeInv, Return, Idle, Call
<1>6. ~Busy(c)' /\ \A d \in Callers \ {c} : Busy(d)' <=> Busy(d)
  BY <1>2 DEF Busy, Idle
<1>7. TellsInOrder'
  <2> SUFFICES ASSUME NEW d \in Callers
               PROVE  \E n \in 0..Len(Plan[d]) : Told(d)' = 1..n /\ (Busy(d)' => n < Len(Plan[d]))
    BY DEF TellsInOrder
  <2>1. CASE d = c
    BY <1>1, <1>4, <1>6, <2>1
  <2>2. CASE d # c
    BY <1>1, <1>6, <2>2 DEF Inv, TellsInOrder
  <2>3. QED
    BY <2>1, <2>2
<1>8. AtHook'
  BY <1>1, <1>2, <1>6 DEF Inv, AtHook
<1>9. SentInv'
  <2>1. ASSUME NEW d \in Callers, NEW i, Begun(d, i) PROVE Begun(d, i)'
    <3>1. CASE d = c
      BY <1>1, <1>3, <1>4, <2>1, <3>1 DEF Begun
    <3>2. CASE d # c
      BY <1>1, <1>6, <2>1, <3>2 DEF Begun
    <3>3. QED
      BY <3>1, <3>2
  <2>2. QED
    BY <2>1 DEF Inv, SentInv
<1>10. QED
  BY <1>5, <1>7, <1>8, <1>9 DEF Inv

\* What the environment may change.
LEMMA EnvironmentSteps ==
    ASSUME Inv, Environment
    PROVE  /\ UNCHANGED <<call, result, sent>>
           /\ \/ UNCHANGED <<answer, seen>> /\ cancelled \subseteq cancelled'
              \/ UNCHANGED cancelled /\ \E r \in sent, status \in {"2xx", "other"} : Receive(r, status)
  BY DEF Environment, Cancel, Receive

LEMMA ReceiveFacts ==
    ASSUME Inv, NEW r \in sent, NEW status \in {"2xx", "other"}, Receive(r, status)
    PROVE  /\ r.hook \in Hooks /\ r \notin DOMAIN answer
           /\ DOMAIN answer' = DOMAIN answer \cup {r} /\ answer'[r] = status
           /\ \A q \in DOMAIN answer : answer'[q] = answer[q]
           /\ seen' \in [Hooks -> Seq(Entry)]
           /\ seen'[r.hook] = Append(seen[r.hook], [event |-> r.event, status |-> status])
           /\ \A h \in Hooks \ {r.hook} : seen'[h] = seen[h]
<1>1. r \in Requests
  BY DEF Inv, TypeInv
<1>2. r.hook \in Hooks /\ [event |-> r.event, status |-> status] \in Entry
  BY <1>1 DEF Requests, Entry
<1>3. Append(seen[r.hook], [event |-> r.event, status |-> status]) \in Seq(Entry)
  BY <1>2 DEF Inv, TypeInv
<1>4. QED
  BY <1>2, <1>3 DEF Receive, Inv, TypeInv

LEMMA InvStep == Inv /\ [Next]_vars => Inv'
<1> SUFFICES ASSUME Inv, [Next]_vars PROVE Inv'
  OBVIOUS
<1>1. ASSUME NEW c \in Callers, NEW r, Repeats(c, r) PROVE Inv'
  <2>1. r \in Call /\ r.pc \in {"try", "flying", "sleep"} /\ r.attempt <= Retries(r.hook)
    BY <1>1 DEF Repeats
  <2>2. r.hook \in Interested(Event(c)) /\ Busy(c)
    BY <1>1 DEF Repeats, Inv, AtHook
  <2>3. \/ UNCHANGED sent
        \/ sent' = sent \cup {[event |-> Event(c), hook |-> r.hook, attempt |-> r.attempt]}
    BY <1>1 DEF Repeats, Request
  <2>4. call' = [call EXCEPT ![c] = r] /\ UNCHANGED <<result, answer, seen>>
    BY <1>1 DEF Repeats
  <2>5. QED
    BY <2>1, <2>2, <2>3, <2>4, InvBusy
<1>2. ASSUME NEW c \in Callers, NEW k, NEW f, Leaves(c, k, f) PROVE Inv'
  <2>1. /\ Busy(c) \/ Cardinality(Told(c)) < Len(Plan[c])
        /\ UNCHANGED <<sent, answer, seen>> /\ f \in BOOLEAN
    BY <1>2 DEF Leaves
  <2>2. ASSUME NEW h, Arrives(c, h, k, f) PROVE Inv'
    <3> DEFINE r == [pc |-> IF Retries(h) >= 0 THEN "try" ELSE "gave up",
                     hook |-> h, attempt |-> 0, failed |-> f]
    <3>1. h \in Interested(Event(c)) /\ h \in Nat /\ Retries(h) \in Int
      <4>1. h \in Hooks /\ Hooks = 1..Len(configs) /\ h \in Interested(Event(c))
        BY <2>2, HooksFacts DEF Arrives
      <4>2. h \in Nat
        BY <4>1
      <4>3. QED
        BY <4>1, <4>2, HooksFacts
    <3>2. r \in Call /\ r.pc # "idle" /\ r.hook = h /\ r.attempt = 0
      BY <2>1, <3>1 DEF Call
    <3>3. /\ r.pc # "gave up" => 0 <= Retries(h)
          /\ r.pc = "gave up" => Retries(h) < 0
      BY <3>1
    <3>4. call' = [call EXCEPT ![c] = r] /\ UNCHANGED result
      BY <2>2 DEF Arrives
    <3> HIDE DEF r
    <3>5. QED
      BY <2>1, <3>1, <3>2, <3>3, <3>4, InvBusy
  <2>3. QED
    BY <1>2, <2>1, <2>2, LeavesFor, InvReturn
<1>3. CASE Environment
  <2>1. UNCHANGED <<call, result, sent>>
    BY <1>3, EnvironmentSteps
  <2>2. TypeInv'
    <3>1. CASE UNCHANGED <<answer, seen>>
      BY <2>1, <3>1 DEF Inv, TypeInv
    <3>2. ASSUME NEW r \in sent, NEW status \in {"2xx", "other"}, Receive(r, status)
          PROVE  TypeInv'
      BY <2>1, <3>2, ReceiveFacts DEF Inv, TypeInv
    <3>3. QED
      BY <1>3, <3>1, <3>2, EnvironmentSteps
  <2>3. \A d : Told(d)' = Told(d) /\ Event(d)' = Event(d) /\ Place(d)' = Place(d)
    BY <2>1, ToldKept
  <2>4. TellsInOrder' /\ AtHook' /\ SentInv'
    BY <2>1, <2>3 DEF Inv, TellsInOrder, AtHook, SentInv, Begun, Busy
  <2>5. QED
    BY <2>2, <2>4 DEF Inv
<1>4. CASE UNCHANGED vars
  <2>1. \A d : Told(d)' = Told(d) /\ Event(d)' = Event(d) /\ Place(d)' = Place(d)
    BY <1>4, ToldKept DEF vars
  <2>2. UNCHANGED <<call, sent, answer, seen>> /\ \A d : Busy(d)' <=> Busy(d)
    BY <1>4 DEF vars, Busy
  <2>3. TypeInv' /\ TellsInOrder'
    BY <2>1, <2>2 DEF Inv, TypeInv, TellsInOrder
  <2>4. AtHook'
    BY <2>1, <2>2 DEF Inv, AtHook
  <2>5. SentInv'
    BY <2>1, <2>2 DEF Inv, SentInv, Begun
  <2>6. QED
    BY <2>3, <2>4, <2>5 DEF Inv
<1>5. ASSUME NEW c \in Callers, Send(c) PROVE Inv'
  BY <1>1, <1>2, <1>5, SendSteps
<1>6. Environment \/ (\E c \in Callers : Send(c)) \/ UNCHANGED vars
  BY DEF Next
<1>7. QED
  BY <1>3, <1>4, <1>5, <1>6

LEMMA InvHolds == Spec => []Inv
  BY InvInit, InvStep, PTL DEF Spec
-----------------------------------------------------------------------------
(* What webhooks saw stays, comes from requests, and covers all answers. *)

LEMMA AppendKeeps ==
    ASSUME NEW S, NEW s \in Seq(S), NEW e \in S
    PROVE  /\ DOMAIN Append(s, e) = DOMAIN s \cup {Len(s) + 1}
           /\ \A n \in DOMAIN s : Append(s, e)[n] = s[n]
           /\ Append(s, e)[Len(s) + 1] = e
           /\ Len(s) + 1 \notin DOMAIN s
           /\ DOMAIN s = 1..Len(s) /\ Len(s) \in Nat
  OBVIOUS

LEMMA Untouched ==
    ASSUME Inv, [Next]_vars
    PROVE  \/ UNCHANGED <<answer, seen>>
           \/ /\ UNCHANGED <<call, result, sent, cancelled>>
              /\ \E r \in sent, status \in {"2xx", "other"} : Receive(r, status)
<1>1. ASSUME NEW c \in Callers, Send(c) PROVE UNCHANGED <<answer, seen>>
  BY <1>1, SendSteps DEF Repeats, Leaves
<1>2. CASE Environment
  BY <1>2, EnvironmentSteps
<1>3. CASE UNCHANGED vars
  BY <1>3 DEF vars
<1>4. QED
  BY <1>1, <1>2, <1>3 DEF Next

LEMMA SeenKept ==
    ASSUME Inv, [Next]_vars, NEW h \in Hooks, NEW n \in DOMAIN seen[h]
    PROVE  /\ n \in DOMAIN seen'[h] /\ seen'[h][n] = seen[h][n]
           /\ \A k \in 1..n : k \in DOMAIN seen[h] /\ seen'[h][k] = seen[h][k]
<1>0. seen[h] \in Seq(Entry)
  BY DEF Inv, TypeInv
<1>1. \A k \in 1..n : k \in DOMAIN seen[h]
  BY <1>0
<1>2. CASE UNCHANGED seen
  <2>1. seen'[h] = seen[h]
    BY <1>2
  <2>2. QED
    BY <1>1, <2>1
<1>3. ASSUME NEW r \in sent, NEW status \in {"2xx", "other"}, Receive(r, status)
      PROVE  \A k \in DOMAIN seen[h] : k \in DOMAIN seen'[h] /\ seen'[h][k] = seen[h][k]
  <2>1. CASE h = r.hook
    <3>1. [event |-> r.event, status |-> status] \in Entry
      BY DEF Inv, TypeInv, Requests, Entry
    <3>2. seen'[h] = Append(seen[h], [event |-> r.event, status |-> status])
      BY <1>3, <2>1, ReceiveFacts
    <3>3. QED
      BY <1>0, <3>1, <3>2, AppendKeeps
  <2>2. CASE h # r.hook
    BY <1>3, <2>2, ReceiveFacts
  <2>3. QED
    BY <2>1, <2>2
<1>4. QED
  BY <1>1, <1>2, <1>3, Untouched

Receipts ==
    /\ \A r \in DOMAIN answer : \E n \in DOMAIN seen[r.hook] :
          seen[r.hook][n] = [event |-> r.event, status |-> answer[r]]
    /\ \A h \in Hooks : \A n \in DOMAIN seen[h] :
          \E r \in sent : r.event = seen[h][n].event

LEMMA ReceiptsStep == Inv /\ Receipts /\ [Next]_vars => Receipts'
<1> SUFFICES ASSUME Inv, Receipts, [Next]_vars PROVE Receipts'
  OBVIOUS
<1>1. sent \subseteq sent'
  <2>1. ASSUME NEW c \in Callers, Send(c) PROVE sent \subseteq sent'
    BY <2>1, SendSteps DEF Repeats, Leaves
  <2>2. QED
    BY <2>1, EnvironmentSteps DEF Next, vars
<1>2. CASE UNCHANGED <<answer, seen>>
  <2>1. answer' = answer /\ seen' = seen
    BY <1>2
  <2>2. QED
    BY <1>1, <2>1 DEF Receipts
<1>3. ASSUME NEW r \in sent, NEW status \in {"2xx", "other"}, Receive(r, status)
      PROVE  Receipts'
  <2> DEFINE e == [event |-> r.event, status |-> status]
             s == seen[r.hook]
  <2>1. e \in Entry /\ s \in Seq(Entry) /\ r.hook \in Hooks
    BY <1>3, ReceiveFacts DEF Inv, TypeInv, Requests, Entry
  <2>2. /\ DOMAIN answer' = DOMAIN answer \cup {r} /\ answer'[r] = status /\ r \notin DOMAIN answer
        /\ \A q \in DOMAIN answer : answer'[q] = answer[q] /\ q.hook \in Hooks
        /\ seen'[r.hook] = Append(s, e)
        /\ \A h \in Hooks \ {r.hook} : seen'[h] = seen[h]
    BY <1>3, ReceiveFacts DEF Inv, TypeInv, Requests
  <2>3. /\ DOMAIN seen'[r.hook] = DOMAIN s \cup {Len(s) + 1}
        /\ seen'[r.hook][Len(s) + 1] = e
        /\ \A n \in DOMAIN s : seen'[r.hook][n] = s[n]
    BY <2>1, <2>2, AppendKeeps
  <2>4. ASSUME NEW q \in DOMAIN answer'
        PROVE  \E n \in DOMAIN seen'[q.hook] :
                  seen'[q.hook][n] = [event |-> q.event, status |-> answer'[q]]
    <3>1. CASE q = r
      BY <2>2, <2>3, <3>1
    <3>2. CASE q \in DOMAIN answer
      <4>1. PICK n \in DOMAIN seen[q.hook] :
                seen[q.hook][n] = [event |-> q.event, status |-> answer[q]]
        BY <3>2 DEF Receipts
      <4>2. n \in DOMAIN seen'[q.hook] /\ seen'[q.hook][n] = seen[q.hook][n]
        BY <2>2, <3>2, SeenKept
      <4>3. QED
        BY <2>2, <3>2, <4>1, <4>2
    <3>3. QED
      BY <2>2, <3>1, <3>2
  <2>5. ASSUME NEW h \in Hooks, NEW n \in DOMAIN seen'[h]
        PROVE  \E q \in sent' : q.event = seen'[h][n].event
    <3>1. CASE h = r.hook /\ n = Len(s) + 1
      BY <1>1, <2>3, <3>1
    <3>2. CASE n \in DOMAIN seen[h]
      <4>1. PICK q \in sent : q.event = seen[h][n].event
        BY <3>2 DEF Receipts
      <4>2. seen'[h][n] = seen[h][n]
        BY <3>2, SeenKept
      <4>3. QED
        BY <1>1, <4>1, <4>2
    <3>3. QED
      BY <2>2, <2>3, <3>1, <3>2
  <2>6. QED
    BY <2>4, <2>5 DEF Receipts
<1>4. QED
  BY <1>2, <1>3, Untouched

LEMMA ReceiptsHold == Spec => []Receipts
<1>1. Init => Receipts
  BY DEF Init, Receipts
<1>2. QED
  BY <1>1, InvHolds, ReceiptsStep, PTL DEF Spec

-----------------------------------------------------------------------------
(***************************************************************************)
(* A result of nil.  While c is busy no request for a later event of its   *)
(* plan is out, so that whatever a webhook has accepted of the event being *)
(* told it has accepted before the later ones.  As long as no webhook has  *)
(* failed, this holds of all that the call has left behind.                *)
(***************************************************************************)
AcceptedFirst(c, i, h) ==
    \E n \in DOMAIN seen[h] :
        /\ seen[h][n] = [event |-> Plan[c][i], status |-> "2xx"]
        /\ \A j \in DOMAIN Plan[c] : \A k \in 1..n :
               j > i => seen[h][k].event # Plan[c][j]

\* The part of AcknowledgedInOrder that is about c, and what holds before.
Ack(c) ==
    \A i \in Told(c) : result[Plan[c][i]] = "ok" =>
        \A h \in Interested(Plan[c][i]) : AcceptedFirst(c, i, h)
SoFar(c) ==
    Busy(c) /\ ~call[c].failed =>
        \A h \in Interested(Event(c)) : h < call[c].hook => AcceptedFirst(c, Place(c), h)

AckInv == \A c \in Callers : Ack(c) /\ SoFar(c)

LEMMA AcceptedKept ==
    ASSUME Inv, [Next]_vars, NEW c, NEW i, NEW h \in Hooks, AcceptedFirst(c, i, h)
    PROVE  AcceptedFirst(c, i, h)'
<1>1. PICK n \in DOMAIN seen[h] :
        /\ seen[h][n] = [event |-> Plan[c][i], status |-> "2xx"]
        /\ \A j \in DOMAIN Plan[c] : \A k \in 1..n : j > i => seen[h][k].event # Plan[c][j]
  BY DEF AcceptedFirst
<1>2. /\ n \in DOMAIN seen'[h] /\ seen'[h][n] = seen[h][n]
      /\ \A k \in 1..n : seen'[h][k] = seen[h][k]
  BY SeenKept
<1>3. QED
  BY <1>1, <1>2 DEF AcceptedFirst

\* A webhook that accepts the event being told has seen no later one.
LEMMA AcceptedNow ==
    ASSUME Inv, Receipts, NEW c \in Callers, Busy(c),
           Request(c) \in DOMAIN answer, answer[Request(c)] = "2xx"
    PROVE  AcceptedFirst(c, Place(c), call[c].hook)
<1> DEFINE h == call[c].hook
<1>1. h \in Hooks /\ Place(c) \in DOMAIN Plan[c] /\ Event(c) = Plan[c][Place(c)]
      /\ Told(c) = 1..(Place(c) - 1)
  BY CallFacts, ToldFacts DEF Inv
<1>2. PICK n \in DOMAIN seen[h] : seen[h][n] = [event |-> Plan[c][Place(c)], status |-> "2xx"]
  BY <1>1 DEF Receipts, Request
<1>3. ASSUME NEW j \in DOMAIN Plan[c], NEW k \in 1..n, j > Place(c)
      PROVE  seen[h][k].event # Plan[c][j]
  <2>1. k \in DOMAIN seen[h]
    <3>1. seen[h] \in Seq(Entry)
      BY <1>1 DEF Inv, TypeInv
    <3>2. QED
      BY <3>1
  <2>2. PICK r \in sent : r.event = seen[h][k].event
    BY <1>1, <2>1 DEF Receipts
  <2>3. ~Begun(c, j)
    <3>1. j \in Nat /\ Place(c) \in Nat
      BY <1>1, PlanFacts
    <3>2. j \notin 1..(Place(c) - 1) /\ j # Place(c)
      BY <1>3, <3>1
    <3>3. QED
      BY <1>1, <3>2 DEF Begun
  <2>4. QED
    BY <2>2, <2>3 DEF Inv, SentInv
<1>4. QED
  BY <1>2, <1>3 DEF AcceptedFirst

\* All that a call without a failure leaves behind has accepted the event.
LEMMA AcceptedBehind ==
    ASSUME Inv, Receipts, NEW c \in Callers, SoFar(c), NEW k, Leaves(c, k, FALSE),
           NEW h \in Interested(Event(c)), h < k
    PROVE  AcceptedFirst(c, Place(c), h)
<1>1. h \in Nat \ {0} /\ h \in Hooks
  <2>1. h \in 1..Len(configs) /\ h \in Hooks
    BY HooksFacts
  <2>2. QED
    BY <2>1
<1>2. PICK b \in BOOLEAN : b = Busy(c)
  BY DEF Busy
<1>3. CASE ~b
  BY <1>1, <1>2, <1>3 DEF Leaves
<1>4. CASE b
  <2>1. /\ k = call[c].hook + 1 /\ ~call[c].failed
        /\ Request(c) \in DOMAIN answer /\ answer[Request(c)] = "2xx"
    BY <1>2, <1>4 DEF Leaves
  <2>2. call[c].hook \in Nat
    BY DEF Inv, TypeInv, Call
  <2>3. h < call[c].hook \/ h = call[c].hook
    BY <1>1, <2>1, <2>2
  <2>4. QED
    BY <1>2, <1>4, <2>1, <2>3, AcceptedNow DEF SoFar
<1>5. QED
  BY <1>3, <1>4
\* c has the same events told and at hand, with the same results.
SameFor(c) ==
    /\ Told(c)' = Told(c) /\ Event(c)' = Event(c) /\ Place(c)' = Place(c)
    /\ \A i \in Told(c) : result'[Plan[c][i]] = result[Plan[c][i]]

\* What is accepted stays accepted while the place in the plan is the same.
LEMMA AcceptedMoves ==
    ASSUME Inv, [Next]_vars, NEW c, NEW h \in Hooks, AcceptedFirst(c, Place(c), h),
           Place(c)' = Place(c)
    PROVE  AcceptedFirst(c, Place(c), h)'
<1>1. PICK n \in DOMAIN seen[h] :
        /\ seen[h][n] = [event |-> Plan[c][Place(c)], status |-> "2xx"]
        /\ \A j \in DOMAIN Plan[c] : \A k \in 1..n :
              j > Place(c) => seen[h][k].event # Plan[c][j]
  BY DEF AcceptedFirst
<1>2. /\ n \in DOMAIN seen'[h] /\ seen'[h][n] = seen[h][n]
      /\ \A k \in 1..n : seen'[h][k] = seen[h][k]
  BY SeenKept
<1>3. QED
  BY <1>1, <1>2 DEF AcceptedFirst

LEMMA AckStays ==
    ASSUME Inv, [Next]_vars, NEW c \in Callers, SameFor(c), Ack(c)
    PROVE  Ack(c)'
<1> SUFFICES ASSUME NEW i \in Told(c)', result'[Plan[c][i]] = "ok", NEW h \in Interested(Plan[c][i])
             PROVE  AcceptedFirst(c, i, h)'
  BY DEF Ack
<1>1. i \in Told(c) /\ result[Plan[c][i]] = "ok"
  BY DEF SameFor
<1>2. h \in Hooks
  BY HooksFacts
<1>3. AcceptedFirst(c, i, h)
  BY <1>1 DEF Ack
<1>4. QED
  BY <1>2, <1>3, AcceptedKept

LEMMA SoFarStays ==
    ASSUME Inv, [Next]_vars, NEW c \in Callers, SameFor(c), SoFar(c), call'[c] = call[c]
    PROVE  SoFar(c)'
<1> SUFFICES ASSUME Busy(c)', ~call'[c].failed, NEW h \in Interested(Event(c)'), h < call'[c].hook
             PROVE  AcceptedFirst(c, Place(c), h)'
  BY DEF SoFar
<1>1. AcceptedFirst(c, Place(c), h)
  BY DEF SoFar, SameFor, Busy
<1>2. h \in Hooks
  BY HooksFacts
<1>3. QED
  BY <1>1, <1>2, AcceptedMoves DEF SameFor

\* When Send returns, the results of other events stay.
LEMMA ReturnKeeps ==
    ASSUME TellsInOrder, NEW c \in Callers, NEW failed, Return(c, failed),
           Busy(c) \/ Cardinality(Told(c)) < Len(Plan[c])
    PROVE  /\ \A d \in Callers \ {c} : SameFor(d)
           /\ \A i \in Told(c) : result'[Plan[c][i]] = result[Plan[c][i]]
           /\ result'[Plan[c][Place(c)]] = IF failed THEN "error" ELSE "ok"
<1>1. /\ Place(c) \in DOMAIN Plan[c] /\ Told(c) = 1..(Place(c) - 1)
      /\ Event(c) = Plan[c][Place(c)]
  BY ToldFacts
<1>2. /\ \A e \in DOMAIN result : e # Event(c) => result'[e] = result[e]
      /\ result'[Event(c)] = IF failed THEN "error" ELSE "ok"
  BY DEF Return
<1>3. ASSUME NEW d \in Callers, NEW i \in Told(d), d # c \/ i # Place(c)
      PROVE  result'[Plan[d][i]] = result[Plan[d][i]]
  <2>1. i \in DOMAIN Plan[d] /\ Plan[d][i] \in DOMAIN result
    BY DEF Told
  <2>2. Plan[d][i] # Event(c)
    BY <1>1, <1>3, <2>1, PlanUnique
  <2>3. QED
    BY <1>2, <2>1, <2>2
<1>4. \A i \in Told(c) : i # Place(c)
  <2>1. Place(c) \in Nat
    BY <1>1, PlanFacts
  <2>2. QED
    BY <1>1, <2>1
<1>5. QED
  BY <1>1, <1>2, <1>3, <1>4, ToldGrows DEF SameFor

\* The other callers do not notice a step of c.
LEMMA OthersSame ==
    ASSUME Inv, NEW c \in Callers, Send(c), NEW d \in Callers \ {c}
    PROVE  SameFor(d) /\ call'[d] = call[d]
<1>0. call \in [Callers -> Call]
  BY DEF Inv, TypeInv
<1>1. ASSUME UNCHANGED result PROVE SameFor(d)
  <2>1. Told(d)' = Told(d) /\ Event(d)' = Event(d) /\ Place(d)' = Place(d) /\ result' = result
    BY <1>1, ToldKept
  <2>2. QED
    BY <2>1 DEF SameFor
<1>2. ASSUME NEW r, Repeats(c, r) PROVE SameFor(d) /\ call'[d] = call[d]
  BY <1>0, <1>1, <1>2 DEF Repeats
<1>3. ASSUME NEW k, NEW f, Leaves(c, k, f) PROVE SameFor(d) /\ call'[d] = call[d]
  <2>1. ASSUME NEW h, Arrives(c, h, k, f) PROVE SameFor(d) /\ call'[d] = call[d]
    BY <1>0, <1>1, <2>1 DEF Arrives
  <2>2. CASE Return(c, f)
    <3>1. Busy(c) \/ Cardinality(Told(c)) < Len(Plan[c])
      BY <1>3 DEF Leaves
    <3>2. SameFor(d)
      BY <2>2, <3>1, ReturnKeeps DEF Inv
    <3>3. call'[d] = call[d]
      BY <1>0, <2>2 DEF Return
    <3>4. QED
      BY <3>2, <3>3
  <2>3. QED
    BY <1>3, <2>1, <2>2, LeavesFor
<1>4. QED
  BY <1>2, <1>3, SendSteps

\* A call that goes on: what it has told stays, and so does the event at hand.
LEMMA SameWhileBusy ==
    ASSUME NEW c, UNCHANGED result
    PROVE  SameFor(c)
<1>1. Told(c)' = Told(c) /\ Event(c)' = Event(c) /\ Place(c)' = Place(c) /\ result' = result
  BY ToldKept
<1>2. QED
  BY <1>1 DEF SameFor

LEMMA AckOfSender ==
    ASSUME Inv, Receipts, [Next]_vars, NEW c \in Callers, Send(c), Ack(c), SoFar(c)
    PROVE  Ack(c)' /\ SoFar(c)'
<1>0. call \in [Callers -> Call]
  BY DEF Inv, TypeInv
<1>1. ASSUME NEW r, Repeats(c, r) PROVE Ack(c)' /\ SoFar(c)'
  <2>1. /\ call'[c] = r /\ r.hook = call[c].hook /\ r.failed = call[c].failed
        /\ Busy(c) /\ UNCHANGED result
    BY <1>0, <1>1 DEF Repeats
  <2>2. SameFor(c)
    BY <2>1, SameWhileBusy
  <2>3. Ack(c)'
    BY <2>2, AckStays
  <2>4. ASSUME Busy(c)', ~call'[c].failed, NEW h \in Interested(Event(c)'), h < call'[c].hook
        PROVE  AcceptedFirst(c, Place(c), h)'
    <3>1. AcceptedFirst(c, Place(c), h) /\ h \in Hooks
      BY <1>0, <2>1, <2>2, <2>4, HooksFacts DEF SoFar, SameFor
    <3>2. Place(c)' = Place(c)
      BY <2>2 DEF SameFor
    <3>3. QED
      BY <3>1, <3>2, AcceptedMoves
  <2>5. QED
    BY <2>3, <2>4 DEF SoFar
<1>2. ASSUME NEW k, NEW f, Leaves(c, k, f) PROVE Ack(c)' /\ SoFar(c)'
  <2>0. f \in BOOLEAN
    BY <1>2 DEF Leaves
  <2>1. ASSUME NEW h, Arrives(c, h, k, f) PROVE Ack(c)' /\ SoFar(c)'
    <3>1. SameFor(c)
      BY <2>1, SameWhileBusy DEF Arrives
    <3>2. call'[c].hook = h /\ call'[c].failed = f
      BY <1>0, <2>1 DEF Arrives
    <3>3. ASSUME ~f, NEW g \in Interested(Event(c)), g < h
          PROVE  AcceptedFirst(c, Place(c), g)'
      <4>1. g < k
        <5>1. g < k \/ g >= h
          BY <2>1 DEF Arrives
        <5>2. g \in Nat /\ h \in Nat
          <6>1. g \in Hooks /\ h \in Hooks /\ Hooks = 1..Len(configs)
            BY <2>1, HooksFacts DEF Arrives
          <6>2. QED
            BY <6>1
        <5>3. QED
          BY <3>3, <5>1, <5>2
      <4>2. AcceptedFirst(c, Place(c), g) /\ g \in Hooks
        BY <1>2, <2>0, <3>3, <4>1, AcceptedBehind, HooksFacts
      <4>3. QED
        BY <3>1, <4>2, AcceptedMoves DEF SameFor
    <3>4. SoFar(c)'
      BY <3>1, <3>2, <3>3 DEF SoFar, SameFor
    <3>5. QED
      BY <3>1, <3>4, AckStays
  <2>2. CASE Return(c, f) /\ \A j \in Interested(Event(c)) : j < k
    <3>1. Busy(c) \/ Cardinality(Told(c)) < Len(Plan[c])
      BY <1>2 DEF Leaves
    <3>2. /\ \A i \in Told(c) : result'[Plan[c][i]] = result[Plan[c][i]]
          /\ result'[Plan[c][Place(c)]] = IF f THEN "error" ELSE "ok"
          /\ Told(c)' = 1..Place(c)
      BY <2>2, <3>1, ReturnKeeps, ToldGrows DEF Inv
    <3>3. /\ Place(c) \in DOMAIN Plan[c] /\ Told(c) = 1..(Place(c) - 1)
          /\ Event(c) = Plan[c][Place(c)]
      BY <3>1, ToldFacts DEF Inv
    <3>4. ~Busy(c)'
      BY <1>0, <2>2 DEF Busy, Return, Idle
    <3>5. ASSUME NEW i \in Told(c)', result'[Plan[c][i]] = "ok",
                 NEW h \in Interested(Plan[c][i])
          PROVE  AcceptedFirst(c, i, h)'
      <4>0. h \in Hooks
        BY HooksFacts
      <4>1. CASE i \in Told(c)
        <5>1. AcceptedFirst(c, i, h)
          BY <3>2, <3>5, <4>1 DEF Ack
        <5>2. QED
          BY <4>0, <5>1, AcceptedKept
      <4>2. CASE i = Place(c)
        <5>1. f = FALSE
          BY <2>0, <3>2, <3>5, <4>2
        <5>2. AcceptedFirst(c, i, h)
          BY <1>2, <2>2, <3>3, <4>2, <5>1, AcceptedBehind
        <5>3. QED
          BY <4>0, <5>2, AcceptedKept
      <4>3. i \in Told(c) \/ i = Place(c)
        <5>1. Place(c) \in Nat
          BY <3>3, PlanFacts
        <5>2. i \in 1..Place(c)
          BY <3>2, <3>5
        <5>3. QED
          BY <3>3, <5>1, <5>2
      <4>4. QED
        BY <4>1, <4>2, <4>3
    <3>6. QED
      BY <3>4, <3>5 DEF Ack, SoFar
  <2>3. QED
    BY <1>2, <2>1, <2>2, LeavesFor
<1>3. QED
  BY <1>1, <1>2, SendSteps

LEMMA AckStep == Inv /\ Receipts /\ AckInv /\ [Next]_vars => AckInv'
<1> SUFFICES ASSUME Inv, Receipts, AckInv, [Next]_vars, NEW c \in Callers
             PROVE  Ack(c)' /\ SoFar(c)'
  BY DEF AckInv
<1>1. Ack(c) /\ SoFar(c)
  BY DEF AckInv
<1>2. CASE Send(c)
  BY <1>1, <1>2, AckOfSender
<1>3. ASSUME NEW d \in Callers \ {c}, Send(d) PROVE Ack(c)' /\ SoFar(c)'
  BY <1>1, <1>3, OthersSame, AckStays, SoFarStays
<1>4. CASE Environment \/ UNCHANGED vars
  <2>1. UNCHANGED <<call, result>>
    BY <1>4, EnvironmentSteps DEF vars
  <2>2. SameFor(c) /\ call'[c] = call[c]
    BY <2>1, SameWhileBusy
  <2>3. QED
    BY <1>1, <2>2, AckStays, SoFarStays
<1>5. QED
  BY <1>2, <1>3, <1>4 DEF Next

\* Send returns nil only when every webhook that wants the event has accepted
\* it, before it got any later event of the same caller: no retry and no late
\* request of Send's loop over the configs breaks the order.
THEOREM NilMeansAccepted == Spec => []AcknowledgedInOrder
<1>1. Init => AckInv
  BY DEF Init, AckInv, Ack, SoFar, Told, Busy, Idle
<1>2. AckInv => AcknowledgedInOrder
  BY DEF AckInv, Ack, AcceptedFirst, AcknowledgedInOrder
<1>3. QED
  BY <1>1, <1>2, InvHolds, ReceiptsHold, AckStep, PTL DEF Spec
-----------------------------------------------------------------------------
(***************************************************************************)
(* How often a webhook is asked.  A caller that is not cancelled leaves a  *)
(* webhook with a proper URL only when it has accepted the event or every  *)
(* attempt was sent; each attempt is answered at most once.                *)
(***************************************************************************)
Slots(e, h) == {[event |-> e, hook |-> h, attempt |-> a] : a \in 0..Retries(h)}
Answers(e, h) == {r \in DOMAIN answer : r.event = e /\ r.hook = h}
Views(e, h) == {n \in DOMAIN seen[h] : seen[h][n].event = e}

\* One slot for each attempt that the retries allow.
LEMMA SlotsCount ==
    ASSUME NEW e, NEW h \in Hooks
    PROVE  IsFiniteSet(Slots(e, h)) /\ Cardinality(Slots(e, h)) = Allowed(h)
<1> DEFINE A == 0..Retries(h)
           f == [a \in A |-> [event |-> e, hook |-> h, attempt |-> a]]
<1>1. Retries(h) \in Int
  BY HooksFacts
<1>2. IsFiniteSet(A) /\ Cardinality(A) = Allowed(h)
  BY <1>1, FS_Interval DEF Allowed
<1>3. f \in [A -> Slots(e, h)]
  BY DEF Slots
<1>4. ASSUME NEW a \in A, NEW b \in A, f[a] = f[b] PROVE a = b
  <2>1. f[a].attempt = a /\ f[b].attempt = b
    OBVIOUS
  <2>2. QED
    BY <1>4, <2>1
<1>5. \A t \in Slots(e, h) : \E a \in A : f[a] = t
  BY DEF Slots
<1> HIDE DEF f, A
<1>6. f \in Bijection(A, Slots(e, h))
  BY <1>3, <1>4, <1>5, Fun_IsBij
<1>7. ExistsBijection(A, Slots(e, h))
  BY <1>6 DEF ExistsBijection
<1>8. QED
  BY <1>2, <1>7, FS_Bijection

LEMMA AttemptsInSlots ==
    ASSUME Inv, NEW e, NEW h \in Hooks
    PROVE  /\ Answers(e, h) \subseteq Attempts(e, h) /\ Attempts(e, h) \subseteq Slots(e, h)
           /\ ~containsEventType(h, e) => Attempts(e, h) = {}
<1>1. Answers(e, h) \subseteq Attempts(e, h)
  BY DEF Inv, TypeInv, Answers, Attempts
<1>2. ASSUME NEW r \in Attempts(e, h) PROVE r \in Slots(e, h)
  <2>1. r \in Requests /\ r.event = e /\ r.hook = h /\ r.attempt <= Retries(h)
    BY DEF Inv, TypeInv, SentInv, Attempts
  <2>2. r = [event |-> e, hook |-> h, attempt |-> r.attempt] /\ r.attempt \in Nat
    BY <2>1 DEF Requests
  <2>3. r.attempt \in 0..Retries(h)
    <3>1. Retries(h) \in Int
      BY HooksFacts
    <3> DEFINE a == r.attempt
    <3>2. a \in Nat /\ a <= Retries(h)
      BY <2>1, <2>2
    <3> HIDE DEF a
    <3>3. a \in 0..Retries(h)
      BY <3>1, <3>2
    <3>4. QED
      BY <3>3 DEF a
  <2>4. QED
    BY <2>2, <2>3 DEF Slots
<1>3. ASSUME NEW r \in Attempts(e, h) PROVE containsEventType(h, e)
  BY DEF Inv, SentInv, Attempts, Interested
<1>4. QED
  BY <1>1, <1>2, <1>3

\* Each view of a webhook is the arrival of one request.
Counted ==
    \A e \in Events, h \in Hooks : Cardinality(Views(e, h)) = Cardinality(Answers(e, h))

LEMMA Finite ==
    ASSUME Inv, NEW e, NEW h \in Hooks
    PROVE  IsFiniteSet(Views(e, h)) /\ IsFiniteSet(Answers(e, h)) /\ IsFiniteSet(Attempts(e, h))
<1>1. seen[h] \in Seq(Entry)
  BY DEF Inv, TypeInv
<1>2. Len(seen[h]) \in Int /\ DOMAIN seen[h] = 1..Len(seen[h])
  BY <1>1
<1>3. IsFiniteSet(DOMAIN seen[h])
  BY <1>2, FS_Interval
<1>4. Views(e, h) \subseteq DOMAIN seen[h]
  BY DEF Views
<1>5. QED
  BY <1>3, <1>4, SlotsCount, AttemptsInSlots, FS_Subset

LEMMA CountedStep == Inv /\ Counted /\ [Next]_vars => Counted'
<1> SUFFICES ASSUME Inv, Counted, [Next]_vars, NEW e \in Events, NEW h \in Hooks
             PROVE  Cardinality(Views(e, h)') = Cardinality(Answers(e, h)')
  BY DEF Counted
<1>1. CASE UNCHANGED <<answer, seen>>
  <2>1. Views(e, h)' = Views(e, h) /\ Answers(e, h)' = Answers(e, h)
    BY <1>1 DEF Views, Answers
  <2>2. QED
    BY <2>1 DEF Counted
<1>2. ASSUME NEW r \in sent, NEW status \in {"2xx", "other"}, Receive(r, status)
      PROVE  Cardinality(Views(e, h)') = Cardinality(Answers(e, h)')
  <2>1. /\ DOMAIN answer' = DOMAIN answer \cup {r} /\ r \notin DOMAIN answer
        /\ seen'[r.hook] = Append(seen[r.hook], [event |-> r.event, status |-> status])
        /\ \A g \in Hooks \ {r.hook} : seen'[g] = seen[g]
    BY <1>2, ReceiveFacts
  <2>2. [event |-> r.event, status |-> status] \in Entry /\ seen[h] \in Seq(Entry)
    BY DEF Inv, TypeInv, Requests, Entry
  <2>3. CASE r.hook = h
    <3> DEFINE n == Len(seen[h]) + 1
    <3>1. /\ DOMAIN seen'[h] = DOMAIN seen[h] \cup {n} /\ n \notin DOMAIN seen[h]
          /\ seen'[h][n].event = r.event
          /\ \A m \in DOMAIN seen[h] : seen'[h][m] = seen[h][m]
      BY <2>1, <2>2, <2>3, AppendKeeps
    <3> HIDE DEF n
    <3>2. CASE r.event = e
      <4>1. /\ Views(e, h)' = Views(e, h) \cup {n} /\ n \notin Views(e, h)
            /\ Answers(e, h)' = Answers(e, h) \cup {r} /\ r \notin Answers(e, h)
        BY <2>1, <2>3, <3>1, <3>2 DEF Views, Answers
      <4>2. Cardinality(Views(e, h) \cup {n}) = Cardinality(Views(e, h)) + 1
        BY <4>1, Finite, FS_AddElement
      <4>3. Cardinality(Answers(e, h) \cup {r}) = Cardinality(Answers(e, h)) + 1
        BY <4>1, Finite, FS_AddElement
      <4>4. QED
        BY <4>1, <4>2, <4>3 DEF Counted
    <3>3. CASE r.event # e
      <4>1. Views(e, h)' = Views(e, h) /\ Answers(e, h)' = Answers(e, h)
        BY <2>1, <3>1, <3>3 DEF Views, Answers
      <4>2. QED
        BY <4>1 DEF Counted
    <3>4. QED
      BY <3>2, <3>3
  <2>4. CASE r.hook # h
    <3>1. Views(e, h)' = Views(e, h) /\ Answers(e, h)' = Answers(e, h)
      BY <2>1, <2>4 DEF Views, Answers
    <3>2. QED
      BY <3>1 DEF Counted
  <2>5. QED
    BY <2>3, <2>4
<1>3. QED
  BY <1>1, <1>2, Untouched

\* h is done with e: it has accepted e, or every attempt went out.
Served(e, h) ==
    configs[h].validURL =>
        \/ \E n \in DOMAIN seen[h] : seen[h][n] = [event |-> e, status |-> "2xx"]
        \/ Slots(e, h) \subseteq sent

\* The attempts at the webhook at hand that went out.
Tried(c) ==
    \A a \in Nat : a < call[c].attempt \/ (a = call[c].attempt /\ call[c].pc = "flying") =>
        (configs[call[c].hook].validURL =>
            [event |-> Event(c), hook |-> call[c].hook, attempt |-> a] \in sent)

ToldServed(c) == \A i \in Told(c) : \A h \in Interested(Plan[c][i]) : Served(Plan[c][i], h)
BehindServed(c) ==
    Busy(c) => /\ \A h \in Interested(Event(c)) : h < call[c].hook => Served(Event(c), h)
               /\ Tried(c)

ServedInv == \A c \in Callers \ cancelled : ToldServed(c) /\ BehindServed(c)

LEMMA SentGrows == ASSUME Inv, [Next]_vars PROVE sent \subseteq sent' /\ cancelled \subseteq cancelled'
<1>1. ASSUME NEW c \in Callers, Send(c) PROVE sent \subseteq sent' /\ cancelled \subseteq cancelled'
  BY <1>1, SendSteps DEF Repeats, Leaves
<1>2. CASE Environment
  BY <1>2, EnvironmentSteps
<1>3. CASE UNCHANGED vars
  BY <1>3 DEF vars
<1>4. QED
  BY <1>1, <1>2, <1>3 DEF Next

LEMMA ServedKept ==
    ASSUME Inv, [Next]_vars, NEW e, NEW h \in Hooks, Served(e, h)
    PROVE  Served(e, h)'
<1>1. CASE ~configs[h].validURL
  BY <1>1 DEF Served
<1>2. ASSUME NEW n \in DOMAIN seen[h], seen[h][n] = [event |-> e, status |-> "2xx"]
      PROVE  Served(e, h)'
  BY <1>2, SeenKept DEF Served
<1>3. CASE Slots(e, h) \subseteq sent
  <2>1. Slots(e, h) \subseteq sent'
    BY <1>3, SentGrows
  <2>2. Slots(e, h)' = Slots(e, h)
    BY DEF Slots
  <2>3. QED
    BY <2>1, <2>2 DEF Served
<1>4. QED
  BY <1>1, <1>2, <1>3 DEF Served

LEMMA ServedMoves ==
    ASSUME Inv, [Next]_vars, NEW c, NEW h \in Hooks, Served(Event(c), h), Event(c)' = Event(c)
    PROVE  Served(Event(c), h)'
<1>1. CASE ~configs[h].validURL
  BY <1>1 DEF Served
<1>2. ASSUME NEW n \in DOMAIN seen[h], seen[h][n] = [event |-> Event(c), status |-> "2xx"]
      PROVE  Served(Event(c), h)'
  BY <1>2, SeenKept DEF Served
<1>3. CASE Slots(Event(c), h) \subseteq sent
  <2>1. Slots(Event(c), h) \subseteq sent'
    BY <1>3, SentGrows
  <2>2. Slots(Event(c), h)' = Slots(Event(c), h)
    BY DEF Slots
  <2>3. QED
    BY <2>1, <2>2 DEF Served
<1>4. QED
  BY <1>1, <1>2, <1>3 DEF Served

LEMMA ToldServedStays ==
    ASSUME Inv, [Next]_vars, NEW c \in Callers, SameFor(c), ToldServed(c)
    PROVE  ToldServed(c)'
<1> SUFFICES ASSUME NEW i \in Told(c)', NEW h \in Interested(Plan[c][i])
             PROVE  Served(Plan[c][i], h)'
  BY DEF ToldServed
<1>1. Served(Plan[c][i], h) /\ h \in Hooks
  BY HooksFacts DEF SameFor, ToldServed
<1>2. QED
  BY <1>1, ServedKept

LEMMA BehindServedStays ==
    ASSUME Inv, [Next]_vars, NEW c \in Callers, SameFor(c), BehindServed(c), call'[c] = call[c]
    PROVE  BehindServed(c)'
<1> SUFFICES ASSUME Busy(c) PROVE BehindServed(c)'
  BY DEF BehindServed, Busy
<1>0. Event(c)' = Event(c)
  BY DEF SameFor
<1>1. ASSUME NEW h \in Interested(Event(c)), h < call[c].hook PROVE Served(Event(c), h)'
  <2>1. Served(Event(c), h) /\ h \in Hooks
    BY <1>1, HooksFacts DEF BehindServed
  <2>2. QED
    BY <1>0, <2>1, ServedMoves
<1>2. Tried(c)'
  BY <1>0, SentGrows DEF BehindServed, Tried
<1>3. QED
  BY <1>0, <1>1, <1>2 DEF BehindServed
LEMMA UpTo ==
    ASSUME NEW n \in Nat, NEW m \in Int
    PROVE  /\ m < 0 => 0..m = {}
           /\ n >= m => \A a \in 0..m : a \in Nat /\ (a < n \/ a = n)
  OBVIOUS

LastFails(c) ==
    /\ call[c].attempt >= Retries(call[c].hook)
    /\ SentOrExcused(c) \/ call[c].pc = "gave up"

\* The last attempt that fails leaves none out.
LEMMA ExhaustedIsServed ==
    ASSUME Inv, NEW c \in Callers \ cancelled, Busy(c), BehindServed(c), LastFails(c)
    PROVE  Served(Event(c), call[c].hook)
<1> DEFINE h == call[c].hook
           n == call[c].attempt
<1>1. n \in Nat /\ Retries(h) \in Int
  BY CallFacts
<1>2. CASE call[c].pc = "gave up"
  <2>1. Retries(h) < 0
    BY <1>2 DEF Inv, AtHook
  <2>2. 0..Retries(h) = {}
    BY <1>1, <2>1, UpTo
  <2>3. QED
    BY <2>2 DEF Served, Slots
<1>3. CASE ~configs[h].validURL
  BY <1>3 DEF Served
<1>4. CASE call[c].pc = "flying" /\ configs[h].validURL
  <2>1. ASSUME NEW a \in 0..Retries(h)
        PROVE  [event |-> Event(c), hook |-> h, attempt |-> a] \in sent
    <3>1. n >= Retries(h)
      BY DEF LastFails
    <3>2. a \in Nat /\ (a < n \/ a = n)
      BY <1>1, <3>1, UpTo
    <3>3. QED
      BY <1>4, <3>2 DEF BehindServed, Tried
  <2>2. QED
    BY <2>1 DEF Served, Slots
<1>5. QED
  BY <1>2, <1>3, <1>4 DEF SentOrExcused, LastFails

LEMMA TriedNext ==
    ASSUME Inv, NEW c \in Callers \ cancelled, NEW r, Repeats(c, r), Tried(c),
           call'[c] = r, Event(c)' = Event(c)
    PROVE  Tried(c)'
<1> SUFFICES ASSUME NEW a \in Nat, a < r.attempt \/ (a = r.attempt /\ r.pc = "flying"),
                    configs[r.hook].validURL
             PROVE  [event |-> Event(c), hook |-> r.hook, attempt |-> a] \in sent'
  BY DEF Tried
<1> DEFINE n == call[c].attempt
<1>0. n \in Nat /\ r.hook = call[c].hook
  BY CallFacts DEF Repeats
<1>1. CASE r.pc = "flying" /\ r.attempt = n /\ sent' = sent \cup {Request(c)}
  <2>1. CASE a < n
    BY <1>0, <1>1, <2>1 DEF Tried
  <2>2. CASE a = n
    BY <1>0, <1>1, <2>2 DEF Request
  <2>3. QED
    BY <1>1, <2>1, <2>2
<1>2. CASE r.pc = "try" /\ r.attempt = n /\ UNCHANGED sent
  BY <1>0, <1>2 DEF Tried
<1>3. CASE /\ r.pc = "sleep" /\ r.attempt = n + 1 /\ UNCHANGED sent /\ SentOrExcused(c)
  <2>1. call[c].pc = "flying"
    BY <1>0, <1>3 DEF SentOrExcused
  <2>2. a < n + 1
    BY <1>3
  <2> HIDE DEF n
  <2>3. a < n \/ a = n
    BY <1>0, <2>2
  <2>4. QED
    BY <1>0, <1>3, <2>1, <2>3 DEF Tried, n
<1>4. QED
  BY <1>1, <1>2, <1>3 DEF Repeats

\* A webhook that a call leaves is done with the event.
LEMMA LeftIsServed ==
    ASSUME Inv, Receipts, NEW c \in Callers \ cancelled, BehindServed(c),
           NEW k, NEW f, Leaves(c, k, f), NEW h \in Interested(Event(c)), h < k
    PROVE  Served(Event(c), h)
<1>1. h \in Nat \ {0} /\ h \in Hooks
  <2>1. h \in 1..Len(configs) /\ h \in Hooks
    BY HooksFacts
  <2>2. QED
    BY <2>1
<1>2. PICK b \in BOOLEAN : b = Busy(c)
  BY DEF Busy
<1>3. CASE ~b
  <2>1. k = 1
    BY <1>2, <1>3 DEF Leaves
  <2>2. QED
    BY <1>1, <2>1
<1>4. CASE b
  <2>1. k = call[c].hook + 1 /\ call[c].hook \in Nat
    BY <1>2, <1>4 DEF Leaves, Inv, TypeInv, Call
  <2>2. CASE h < call[c].hook
    BY <1>2, <1>4, <2>2 DEF BehindServed
  <2>3. CASE h = call[c].hook
    <3>1. CASE Request(c) \in DOMAIN answer /\ answer[Request(c)] = "2xx"
      BY <1>1, <2>3, <3>1 DEF Receipts, Request, Served
    <3>2. CASE LastFails(c)
      BY <1>2, <1>4, <2>3, <3>2, ExhaustedIsServed
    <3>3. QED
      BY <1>2, <1>4, <3>1, <3>2 DEF Leaves, LastFails
  <2>4. QED
    BY <1>1, <2>1, <2>2, <2>3
<1>5. QED
  BY <1>3, <1>4

LEMMA ServedOfSender ==
    ASSUME Inv, Receipts, [Next]_vars, NEW c \in Callers \ cancelled, Send(c),
           ToldServed(c), BehindServed(c)
    PROVE  ToldServed(c)' /\ BehindServed(c)'
<1>0. call \in [Callers -> Call]
  BY DEF Inv, TypeInv
<1>1. ASSUME NEW r, Repeats(c, r) PROVE ToldServed(c)' /\ BehindServed(c)'
  <2>1. /\ call'[c] = r /\ r.hook = call[c].hook /\ Busy(c) /\ UNCHANGED result
    BY <1>0, <1>1 DEF Repeats
  <2>2. SameFor(c) /\ Event(c)' = Event(c)
    BY <2>1, SameWhileBusy DEF SameFor
  <2>3. ToldServed(c)'
    BY <2>2, ToldServedStays
  <2>4. ASSUME NEW h \in Interested(Event(c)), h < call[c].hook PROVE Served(Event(c), h)'
    <3>1. Served(Event(c), h) /\ h \in Hooks
      BY <2>1, <2>4, HooksFacts DEF BehindServed
    <3>2. QED
      BY <2>2, <3>1, ServedMoves
  <2>5. Tried(c)'
    BY <1>1, <2>1, <2>2, TriedNext DEF BehindServed
  <2>6. QED
    BY <2>1, <2>2, <2>3, <2>4, <2>5 DEF BehindServed
<1>2. ASSUME NEW k, NEW f, Leaves(c, k, f) PROVE ToldServed(c)' /\ BehindServed(c)'
  <2>1. ASSUME NEW h, Arrives(c, h, k, f) PROVE ToldServed(c)' /\ BehindServed(c)'
    <3>1. SameFor(c) /\ Event(c)' = Event(c)
      BY <2>1, SameWhileBusy DEF Arrives, SameFor
    <3>2. call'[c].hook = h /\ call'[c].attempt = 0 /\ call'[c].pc # "flying"
      BY <1>0, <2>1 DEF Arrives
    <3>3. ASSUME NEW g \in Interested(Event(c)), g < h PROVE Served(Event(c), g)'
      <4>1. g < k
        <5>1. g < k \/ g >= h
          BY <2>1 DEF Arrives
        <5>2. g \in Nat /\ h \in Nat
          <6>1. g \in Hooks /\ h \in Hooks /\ Hooks = 1..Len(configs)
            BY <2>1, HooksFacts DEF Arrives
          <6>2. QED
            BY <6>1
        <5>3. QED
          BY <3>3, <5>1, <5>2
      <4>2. Served(Event(c), g) /\ g \in Hooks
        BY <1>2, <4>1, LeftIsServed, HooksFacts
      <4>3. QED
        BY <3>1, <4>2, ServedMoves
    <3>4. Tried(c)'
      BY <3>2 DEF Tried
    <3>5. BehindServed(c)'
      BY <3>1, <3>2, <3>3, <3>4 DEF BehindServed
    <3>6. QED
      BY <3>1, <3>5, ToldServedStays
  <2>2. CASE Return(c, f) /\ \A j \in Interested(Event(c)) : j < k
    <3>1. Busy(c) \/ Cardinality(Told(c)) < Len(Plan[c])
      BY <1>2 DEF Leaves
    <3>2. Told(c)' = 1..Place(c)
      BY <2>2, <3>1, ToldGrows DEF Inv
    <3>3. /\ Place(c) \in DOMAIN Plan[c] /\ Told(c) = 1..(Place(c) - 1)
          /\ Event(c) = Plan[c][Place(c)]
      BY <3>1, ToldFacts DEF Inv
    <3>4. ~Busy(c)'
      BY <1>0, <2>2 DEF Busy, Return, Idle
    <3>5. ASSUME NEW i \in Told(c)', NEW h \in Interested(Plan[c][i])
          PROVE  Served(Plan[c][i], h)'
      <4>0. h \in Hooks
        BY HooksFacts
      <4>1. CASE i \in Told(c)
        <5>1. Served(Plan[c][i], h)
          BY <4>1 DEF ToldServed
        <5>2. QED
          BY <4>0, <5>1, ServedKept
      <4>2. CASE i = Place(c)
        <5>1. Served(Plan[c][i], h)
          BY <1>2, <2>2, <3>3, <4>2, LeftIsServed
        <5>2. QED
          BY <4>0, <5>1, ServedKept
      <4>3. i \in Told(c) \/ i = Place(c)
        <5>1. Place(c) \in Nat
          BY <3>3, PlanFacts
        <5>2. i \in 1..Place(c)
          BY <3>2, <3>5
        <5>3. QED
          BY <3>3, <5>1, <5>2
      <4>4. QED
        BY <4>1, <4>2, <4>3
    <3>6. QED
      BY <3>4, <3>5 DEF ToldServed, BehindServed
  <2>3. QED
    BY <1>2, <2>1, <2>2, LeavesFor
<1>3. QED
  BY <1>1, <1>2, SendSteps

LEMMA ServedStep == Inv /\ Receipts /\ ServedInv /\ [Next]_vars => ServedInv'
<1> SUFFICES ASSUME Inv, Receipts, ServedInv, [Next]_vars, NEW c \in Callers \ cancelled'
             PROVE  ToldServed(c)' /\ BehindServed(c)'
  BY DEF ServedInv
<1>1. c \in Callers \ cancelled /\ ToldServed(c) /\ BehindServed(c)
  BY SentGrows DEF ServedInv
<1>2. CASE Send(c)
  BY <1>1, <1>2, ServedOfSender
<1>3. ASSUME NEW d \in Callers \ {c}, Send(d) PROVE ToldServed(c)' /\ BehindServed(c)'
  BY <1>1, <1>3, OthersSame, ToldServedStays, BehindServedStays
<1>4. CASE Environment \/ UNCHANGED vars
  <2>1. UNCHANGED <<call, result>>
    BY <1>4, EnvironmentSteps DEF vars
  <2>2. SameFor(c) /\ call'[c] = call[c]
    BY <2>1, SameWhileBusy
  <2>3. QED
    BY <1>1, <2>2, ToldServedStays, BehindServedStays
<1>5. QED
  BY <1>2, <1>3, <1>4 DEF Next

\* A webhook that fails takes nothing from the others, and no lost or late
\* answer makes sendToWebhook ask a webhook more often than its retries allow.
THEOREM OneWebhookFailsAlone == Spec => []FailuresIsolated
<1>1. Init => Counted /\ ServedInv
  <2> SUFFICES ASSUME Init PROVE Counted /\ ServedInv
    OBVIOUS
  <2>1. \A e \in Events, h \in Hooks : Views(e, h) = {} /\ Answers(e, h) = {}
    BY DEF Init, Views, Answers
  <2>2. Counted
    BY <2>1 DEF Counted
  <2>3. ServedInv
    BY DEF Init, ServedInv, ToldServed, BehindServed, Told, Busy, Idle
  <2>4. QED
    BY <2>2, <2>3
<1>2. Inv /\ Counted /\ ServedInv => FailuresIsolated
  <2> SUFFICES ASSUME Inv, Counted, ServedInv PROVE FailuresIsolated
    OBVIOUS
  <2>1. ASSUME NEW c \in Callers \ cancelled, NEW i \in Told(c),
               NEW h \in Interested(Plan[c][i]), configs[h].validURL
        PROVE  \/ \E n \in DOMAIN seen[h] : seen[h][n] = [event |-> Plan[c][i], status |-> "2xx"]
               \/ Cardinality(Attempts(Plan[c][i], h)) = Allowed(h)
    <3> DEFINE e == Plan[c][i]
    <3>1. Served(e, h) /\ h \in Hooks
      BY HooksFacts DEF ServedInv, ToldServed
    <3>2. CASE Slots(e, h) \subseteq sent
      <4>1. Slots(e, h) \subseteq Attempts(e, h)
        BY <3>2 DEF Slots, Attempts
      <4>2. Slots(e, h) = Attempts(e, h)
        BY <3>1, <4>1, AttemptsInSlots
      <4>3. Cardinality(Slots(e, h)) = Allowed(h)
        BY <3>1, SlotsCount
      <4>4. QED
        BY <4>2, <4>3
    <3>3. QED
      BY <2>1, <3>1, <3>2 DEF Served
  <2>2. ASSUME NEW e \in Events, NEW h \in Hooks
        PROVE  Cardinality(Views(e, h)) <= IF containsEventType(h, e) THEN Allowed(h) ELSE 0
    <3>1. Cardinality(Views(e, h)) = Cardinality(Answers(e, h))
      BY DEF Counted
    <3>2. CASE containsEventType(h, e)
      <4>1. Answers(e, h) \in SUBSET Slots(e, h)
        BY AttemptsInSlots
      <4>2. Cardinality(Answers(e, h)) <= Cardinality(Slots(e, h))
        BY <4>1, SlotsCount, FS_Subset
      <4>3. QED
        BY <3>1, <3>2, <4>2, SlotsCount
    <3>3. CASE ~containsEventType(h, e)
      <4>1. Answers(e, h) = {}
        BY <3>3, AttemptsInSlots
      <4>2. Cardinality(Answers(e, h)) = 0
        BY <4>1, FS_EmptySet
      <4>3. QED
        BY <3>1, <3>3, <4>2
    <3>4. QED
      BY <3>2, <3>3
  <2>3. QED
    BY <2>1, <2>2 DEF FailuresIsolated, Views
<1>3. QED
  BY <1>1, <1>2, InvHolds, ReceiptsHold, CountedStep, ServedStep, PTL DEF Spec

================================================================================
