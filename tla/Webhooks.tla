------------------------------ MODULE Webhooks ------------------------------
(***************************************************************************)
(* Webhook subscriptions, fan-out and redelivery (webhooks.service.ts,     *)
(* webhook-retry.service.ts).                                              *)
(*                                                                         *)
(* A POST on its way is a member of flight: the delivery and subscription  *)
(* objects its sender holds, and who the sender is (an emit() or a         *)
(* poller).  save() writes every column of an object over its row and      *)
(* inserts the row again if it is gone, so a subscription object read      *)
(* before a removal, a 410 or a rotation brings the old columns back.      *)
(* Url, payload, secret and signature are left out.  Time is relative:     *)
(* next is how long a delivery has still to wait; the clock of an attempt  *)
(* is read before it, so the wait that is left is anything up to the       *)
(* delay, and which due rows fill a batch is left open.                    *)
(***************************************************************************)
EXTENDS Integers, FiniteSetsExt

CONSTANTS
    Subscription,  \* subscription ids
    Event,         \* the occurrences of events that are emitted
    EventSets,     \* the sets of events a subscription may ask for
    Instance,      \* instances that run the retry poller
    MaxAttempts,   \* webhooks.retry.maxAttempts
    Base,          \* webhooks.retry.baseDelayMs
    MaxDelay,      \* webhooks.retry.maxDelayMs
    BatchSize,     \* webhooks.retry.batchSize
    MaxHiccups,    \* bound on sends cut off by a crash or a failing write
    None,          \* null
    Removed        \* a row that was deleted

Delivery == Event \X Subscription

\* A row of webhook_subscriptions, and one of webhook_deliveries.
SubscriptionRow == [id: Subscription, events: EventSets, active: BOOLEAN]

DeliveryRow ==
    [d: Delivery, status: {"pending", "failed", "delivered", "exhausted"},
     attempts: Nat, next: Nat \cup {None}]

ASSUME WebhooksAssumption ==
    /\ None \notin DeliveryRow /\ \A S \in SUBSET SubscriptionRow : S # None
    /\ MaxAttempts \in Nat \ {0} /\ BatchSize \in Nat \ {0}
    /\ Base \in Nat \ {0} /\ MaxDelay \in Nat \ {0} /\ MaxHiccups \in Nat
    /\ Event \cap Instance = {} /\ None # Removed

VARIABLES
    sub,       \* webhook_subscriptions: a row, None (not yet) or Removed
    row,       \* webhook_deliveries: a row or None
    fanout,    \* emit(): the subscription objects still to serve, or None
    flight,    \* the POSTs on their way
    queue,     \* processDue(): the due delivery objects still to redeliver
    polling,   \* the instances whose poller is at work
    rotating,  \* rotateSecret(): the subscription object it read, or None
    posts,     \* how often each delivery was sent
    lost,      \* the deliveries whose first sender was cut off
    hiccups    \* how often a sender was cut off

sendVars == <<flight, queue, polling>>
webhookVars == <<sub, row, fanout, sendVars, rotating, posts, lost, hiccups>>

Rows(s) == sub[s] \notin {None, Removed}
HasEnded(d) == row[d] # None /\ row[d].status \in {"delivered", "exhausted"}

WebhookInit ==
    /\ sub = [s \in Subscription |-> None]
    /\ row = [d \in Delivery |-> None]
    /\ fanout = [e \in Event |-> None]
    /\ flight = {} /\ polling = {} /\ lost = {}
    /\ queue = [i \in Instance |-> {}]
    /\ rotating = None
    /\ posts = [d \in Delivery |-> 0]
    /\ hiccups = 0

----------------------------------------------------------------------------
(* Subscriptions                                                           *)

create(s) ==
    /\ sub[s] = None
    /\ \E events \in EventSets :
         sub' = [sub EXCEPT ![s] = [id |-> s, events |-> events, active |-> TRUE]]
    /\ UNCHANGED <<row, fanout, sendVars, rotating, posts, lost, hiccups>>

remove(s) ==
    /\ Rows(s)
    /\ sub' = [sub EXCEPT ![s] = Removed]
    /\ UNCHANGED <<row, fanout, sendVars, rotating, posts, lost, hiccups>>

rotateSecret(s) ==
    \/ /\ rotating = None /\ Rows(s)
       /\ rotating' = sub[s]
       /\ UNCHANGED sub
    \/ /\ rotating # None /\ rotating.id = s
       /\ sub' = [sub EXCEPT ![s] = rotating]
       /\ rotating' = None

Rotate(s) ==
    rotateSecret(s) /\ UNCHANGED <<row, fanout, sendVars, posts, lost, hiccups>>

----------------------------------------------------------------------------
(* One attempt                                                             *)

backoffMs(attempts) ==
    LET doubled == Base * 2^(Max({Min({attempts - 1, 30}), 0}))
    IN  IF doubled < MaxDelay THEN doubled ELSE MaxDelay

\* deliver() up to the POST: sender by sends object o to subscription object s.
Post(o, s, by) ==
    /\ flight' = flight \cup {[obj |-> [o EXCEPT !.attempts = @ + 1], to |-> s,
                               by |-> by, gone |-> FALSE]}
    /\ posts' = [posts EXCEPT ![o.d] = @ + 1]

\* Mutant: the attempts are compared one too late.
OutcomeOneMore(o, answer) ==
    CASE answer = "2xx" -> {[o EXCEPT !.status = "delivered", !.next = None]}
      [] answer = "410" \/ o.attempts > MaxAttempts ->
           {[o EXCEPT !.status = "exhausted", !.next = None]}
      [] OTHER ->
           {[o EXCEPT !.status = "failed", !.next = w] : w \in 0..backoffMs(o.attempts)}

\* What an answer makes of the delivery object.
Outcome(o, answer) ==
    CASE answer = "2xx" -> {[o EXCEPT !.status = "delivered", !.next = None]}
      [] answer = "410" \/ o.attempts >= MaxAttempts ->
           {[o EXCEPT !.status = "exhausted", !.next = None]}
      [] OTHER ->
           {[o EXCEPT !.status = "failed", !.next = w] : w \in 0..backoffMs(o.attempts)}

\* Mutant: a 410 is saved in the subscription and not in the delivery.
DeliverForgetsGone(f) ==
    \/ \E answer \in {"2xx", "other", "none"} : \E o \in Outcome(f.obj, answer) :
         /\ row' = [row EXCEPT ![o.d] = o]
         /\ flight' = flight \ {f}
         /\ UNCHANGED sub
    \/ /\ sub' = [sub EXCEPT ![f.to.id] = [f.to EXCEPT !.active = FALSE]]
       /\ flight' = flight \ {f}
       /\ UNCHANGED row

\* deliver() after the POST: an answer, or none within timeoutMs.  A 410 is
\* saved in the subscription first.
deliver(f) ==
    \/ \E answer \in {"2xx", "other", "none"} : \E o \in Outcome(f.obj, answer) :
         /\ ~f.gone
         /\ row' = [row EXCEPT ![o.d] = o]
         /\ flight' = flight \ {f}
         /\ UNCHANGED sub
    \/ /\ ~f.gone
       /\ sub' = [sub EXCEPT ![f.to.id] = [f.to EXCEPT !.active = FALSE]]
       /\ flight' = (flight \ {f}) \cup {[f EXCEPT !.gone = TRUE]}
       /\ UNCHANGED row
    \/ /\ f.gone
       /\ \E o \in Outcome(f.obj, "410") : row' = [row EXCEPT ![o.d] = o]
       /\ flight' = flight \ {f}
       /\ UNCHANGED sub

Deliver(f) ==
    /\ deliver(f)
    /\ UNCHANGED <<fanout, queue, polling, rotating, posts, lost, hiccups>>

----------------------------------------------------------------------------
(* Fan-out                                                                 *)

\* emit(): the read of the active subscriptions that want the event.
emit(e) ==
    /\ fanout[e] = None
    /\ fanout' = [fanout EXCEPT ![e] =
         {sub[s] : s \in {t \in Subscription :
             Rows(t) /\ sub[t].active /\ e \in sub[t].events}}]
    /\ UNCHANGED <<sub, row, sendVars, rotating, posts, lost, hiccups>>

\* emit(): one subscription gets its delivery row, which is sent at once.
serve(e, s) ==
    LET o == [d |-> <<e, s.id>>, status |-> "pending", attempts |-> 0, next |-> None]
    IN  /\ fanout' = [fanout EXCEPT ![e] = @ \ {s}]
        /\ row' = [row EXCEPT ![o.d] = o]
        /\ Post(o, s, e)
        /\ UNCHANGED <<sub, queue, polling, rotating, lost, hiccups>>

----------------------------------------------------------------------------
(* The retry poller                                                        *)

findDueDeliveries ==
    {row[d] : d \in {c \in Delivery :
        row[c] # None /\ row[c].status = "failed" /\ row[c].next = 0}}

\* Mutant: a tick does not look whether the last one is still at work.
ProcessDueOverlapping(i) ==
    /\ LET n == Cardinality(findDueDeliveries) IN
       \E batch \in kSubset(IF n < BatchSize THEN n ELSE BatchSize, findDueDeliveries) :
         /\ batch # {}
         /\ queue' = [queue EXCEPT ![i] = batch]
    /\ polling' = polling \cup {i}
    /\ UNCHANGED <<sub, row, fanout, flight, rotating, posts, lost, hiccups>>

\* processDue(): a tick takes a batch of the due deliveries.
processDue(i) ==
    /\ i \notin polling
    /\ LET n == Cardinality(findDueDeliveries) IN
       \E batch \in kSubset(IF n < BatchSize THEN n ELSE BatchSize, findDueDeliveries) :
         /\ batch # {}
         /\ queue' = [queue EXCEPT ![i] = batch]
    /\ polling' = polling \cup {i}
    /\ UNCHANGED <<sub, row, fanout, flight, rotating, posts, lost, hiccups>>

\* processDue(): the next delivery of the batch, one at a time.
redeliver(i, o) ==
    /\ \A f \in flight : f.by # i
    /\ queue' = [queue EXCEPT ![i] = @ \ {o}]
    /\ LET s == o.d[2] IN
       IF Rows(s) /\ sub[s].active
       THEN Post(o, sub[s], i) /\ UNCHANGED row
       ELSE /\ row' = [row EXCEPT ![o.d] = [o EXCEPT !.status = "exhausted", !.next = None]]
            /\ UNCHANGED <<flight, posts>>
    /\ UNCHANGED <<sub, fanout, polling, rotating, lost, hiccups>>

\* processDue(): the batch is done.
tickEnds(i) ==
    /\ i \in polling /\ queue[i] = {} /\ \A f \in flight : f.by # i
    /\ polling' = polling \ {i}
    /\ UNCHANGED <<sub, row, fanout, flight, queue, rotating, posts, lost, hiccups>>

----------------------------------------------------------------------------
(* Environment                                                             *)

\* A crash or a failing write cuts a sender off: nothing of the attempt is
\* stored, emit() has no one to repeat it, a poller gives up its batch.
CutOff(f) ==
    /\ hiccups < MaxHiccups /\ hiccups' = hiccups + 1
    /\ flight' = flight \ {f}
    /\ IF f.by \in Event
       THEN lost' = lost \cup {f.obj.d} /\ UNCHANGED <<queue, polling>>
       ELSE /\ queue' = [queue EXCEPT ![f.by] = {}]
            /\ polling' = polling \ {f.by}
            /\ UNCHANGED lost
    /\ UNCHANGED <<sub, row, fanout, rotating, posts>>

\* emit() is cut off before the insert, or the insert fails.
InsertFails(e, s) ==
    /\ hiccups < MaxHiccups /\ hiccups' = hiccups + 1
    /\ fanout' = [fanout EXCEPT ![e] = @ \ {s}]
    /\ UNCHANGED <<sub, row, sendVars, rotating, posts, lost>>

Elapse ==
    LET waiting == {d \in Delivery : row[d] # None /\ row[d].next \notin {None, 0}} IN
    /\ waiting # {}
    /\ row' = [d \in Delivery |->
                 IF d \in waiting THEN [row[d] EXCEPT !.next = @ - 1] ELSE row[d]]
    /\ UNCHANGED <<sub, fanout, sendVars, rotating, posts, lost, hiccups>>

Poll == \E i \in Instance :
    processDue(i) \/ tickEnds(i) \/ \E o \in queue[i] : redeliver(i, o)

Fanout == \E e \in Event : fanout[e] # None /\ \E s \in fanout[e] : serve(e, s)

Admin == \E s \in Subscription : create(s) \/ remove(s) \/ Rotate(s)

Fails ==
    \/ \E f \in flight : CutOff(f)
    \/ \E e \in Event : fanout[e] # None /\ \E s \in fanout[e] : InsertFails(e, s)

WebhookNext ==
    \/ Admin \/ Poll \/ Fanout \/ Fails \/ Elapse
    \/ \E e \in Event : emit(e)
    \/ \E f \in flight : Deliver(f)

Answered(d) == \E f \in flight : f.obj.d = d /\ Deliver(f)

\* setInterval ticks, timers pass, and every POST ends within timeoutMs.
WebhookFairness ==
    /\ WF_webhookVars(Poll) /\ WF_webhookVars(Elapse)
    /\ \A d \in Delivery : WF_webhookVars(Answered(d))

WebhookSpec == WebhookInit /\ [][WebhookNext]_webhookVars /\ WebhookFairness

----------------------------------------------------------------------------
(* Properties                                                              *)

\* One POST per attempt: a delivery is sent at most maxAttempts times, plus
\* once for each sender that was cut off before it wrote the attempt down.
SendsBounded == \A d \in Delivery : posts[d] <= MaxAttempts + hiccups

\* A delivery that is delivered or exhausted is never sent or changed again,
\* whatever happens to its subscription in the meantime.
EndedStays ==
    [][\A d \in Delivery :
         HasEnded(d) => row'[d] = row[d] /\ posts'[d] = posts[d]]_webhookVars

\* A delivery that was recorded ends as delivered or exhausted, unless the
\* process died during its first attempt: such a row stays pending, which the
\* poller does not look at.
DeliveriesEnd ==
    \A d \in Delivery :
      (row[d] # None) ~> (HasEnded(d) \/ d \in lost)
============================================================================
