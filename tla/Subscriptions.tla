--------------------------- MODULE Subscriptions ---------------------------
(***************************************************************************)
(* The event subscription handlers of the RPC server, rpc/core/events.go: *)
(* Subscribe, Unsubscribe and UnsubscribeAll over the event bus.  Each    *)
(* WebSocket connection is one client (its RemoteAddr) and handles its     *)
(* requests one at a time; different connections run concurrently.       *)
(* Subscribe reads the bus's counters, then subscribes in a later step:   *)
(* another connection may subscribe in between.                           *)
(*                                                                         *)
(* The event bus (libs/pubsub, not part of src/) keeps, per client, the    *)
(* set of its queries; NumClients is the number of clients with at least  *)
(* one query.  A Subscribe whose command the bus does not take before     *)
(* SubscribeTimeout fails and changes nothing.  Queries are model values; *)
(* a query that does not parse fails before any state change and is not  *)
(* modelled.                                                               *)
(*                                                                         *)
(* A successful Subscribe starts a goroutine (events.go:46-73) that        *)
(* writes the subscription's events to the socket until the subscription  *)
(* is cancelled: by Unsubscribe or UnsubscribeAll (ErrUnsubscribed), or    *)
(* by the bus when the client's buffer overflows (ErrOutOfCapacity).      *)
(* Events themselves are not modelled; a goroutine whose subscription is  *)
(* still on the bus is the one of that pair, and `cancelled` counts those *)
(* whose subscription was cancelled, by reason, until they return.       *)
(***************************************************************************)
EXTENDS Integers, FiniteSets

CONSTANTS
    Conns,                     \* the WebSocket connections (client addresses)
    Queries,                   \* the queries clients subscribe with
    MaxSubscriptionClients,    \* config.RPC.MaxSubscriptionClients
    MaxSubscriptionsPerClient, \* config.RPC.MaxSubscriptionsPerClient
    NoQuery,                   \* a model value: no Subscribe in progress
    MaxSubscribes              \* the bound on successful Subscribes in the model

ASSUME /\ MaxSubscriptionClients \in Nat /\ MaxSubscriptionsPerClient \in Nat
       /\ NoQuery \notin Queries /\ MaxSubscribes \in Nat

VARIABLES
    subs,  \* subs[c]: the queries client c is subscribed to on the event bus
    pc,    \* pc[c]: the query of c's Subscribe between its check and the
           \* bus call, NoQuery when c is between requests
    last,       \* last[c]: the outcome of c's last request
    cancelled,  \* cancelled[<<c, q>>][r]: goroutines of c's cancelled
                \* subscriptions to q, cancelled for reason r, still running
    subscribes  \* the number of successful Subscribes

vars == <<subs, pc, last, cancelled, subscribes>>

Pairs == Conns \X Queries

\* Why the bus cancelled a subscription: sub.Err().
Reasons == {"unsubscribed", "out_of_capacity"}

\* Goroutines of client c's subscriptions qs cancelled for reason r.
Cancel(c, qs, r) ==
    cancelled' = [p \in Pairs |->
                    IF p[1] = c /\ p[2] \in qs
                    THEN [cancelled[p] EXCEPT ![r] = @ + 1] ELSE cancelled[p]]

Outcomes == {"none", "ok", "max_clients", "max_per_client", "already_subscribed",
             "timeout", "not_found"}

\* EventBus.NumClients and NumClientSubscriptions.
NumClients == Cardinality({c \in Conns : subs[c] # {}})
NumClientSubscriptions(c) == Cardinality(subs[c])

Init ==
    /\ subs = [c \in Conns |-> {}]
    /\ pc = [c \in Conns |-> NoQuery]
    /\ last = [c \in Conns |-> "none"]
    /\ cancelled = [p \in Pairs |-> [r \in Reasons |-> 0]]
    /\ subscribes = 0

\* Mutant: the per-client limit compared with > in place of >=.
SubscribeCheckOffByOne(c, q) ==
    /\ pc[c] = NoQuery
    /\ CASE NumClients >= MaxSubscriptionClients ->
              last' = [last EXCEPT ![c] = "max_clients"] /\ UNCHANGED pc
         [] NumClientSubscriptions(c) > MaxSubscriptionsPerClient ->
              last' = [last EXCEPT ![c] = "max_per_client"] /\ UNCHANGED pc
         [] OTHER ->
              pc' = [pc EXCEPT ![c] = q] /\ UNCHANGED last
    /\ UNCHANGED <<subs, cancelled, subscribes>>

\* Subscribe, events.go:21-27: the two limit checks.
SubscribeCheck(c, q) ==
    /\ pc[c] = NoQuery
    /\ CASE NumClients >= MaxSubscriptionClients ->
              last' = [last EXCEPT ![c] = "max_clients"] /\ UNCHANGED pc
         [] NumClientSubscriptions(c) >= MaxSubscriptionsPerClient ->
              last' = [last EXCEPT ![c] = "max_per_client"] /\ UNCHANGED pc
         [] OTHER ->
              pc' = [pc EXCEPT ![c] = q] /\ UNCHANGED last
    /\ UNCHANGED <<subs, cancelled, subscribes>>

(***************************************************************************)
(* Subscribe, events.go:36-75: EventBus.Subscribe with SubscribeTimeout;  *)
(* on success the forwarding goroutine starts.                            *)
(***************************************************************************)
SubscribeCall(c) ==
    /\ pc[c] # NoQuery
    /\ pc' = [pc EXCEPT ![c] = NoQuery]
    /\ CASE pc[c] \in subs[c] ->
              last' = [last EXCEPT ![c] = "already_subscribed"]
              /\ UNCHANGED <<subs, subscribes>>
         [] OTHER ->
              \/ /\ subscribes < MaxSubscribes
                 /\ subs' = [subs EXCEPT ![c] = @ \cup {pc[c]}]
                 /\ last' = [last EXCEPT ![c] = "ok"]
                 /\ subscribes' = subscribes + 1
              \/ last' = [last EXCEPT ![c] = "timeout"] /\ UNCHANGED <<subs, subscribes>>
    /\ UNCHANGED cancelled

\* Unsubscribe, events.go:80-92.
Unsubscribe(c, q) ==
    /\ pc[c] = NoQuery
    /\ IF q \in subs[c]
       THEN /\ subs' = [subs EXCEPT ![c] = @ \ {q}] /\ last' = [last EXCEPT ![c] = "ok"]
            /\ Cancel(c, {q}, "unsubscribed")
       ELSE last' = [last EXCEPT ![c] = "not_found"] /\ UNCHANGED <<subs, cancelled>>
    /\ UNCHANGED <<pc, subscribes>>

\* UnsubscribeAll, events.go:96-104.
UnsubscribeAll(c) ==
    /\ pc[c] = NoQuery
    /\ IF subs[c] # {}
       THEN /\ subs' = [subs EXCEPT ![c] = {}] /\ last' = [last EXCEPT ![c] = "ok"]
            /\ Cancel(c, subs[c], "unsubscribed")
       ELSE last' = [last EXCEPT ![c] = "not_found"] /\ UNCHANGED <<subs, cancelled>>
    /\ UNCHANGED <<pc, subscribes>>

\* The bus cancels a subscription whose client does not keep up with its
\* events (buffer of subBufferSize full): sub.Err() is ErrOutOfCapacity.
OutOfCapacity(c, q) ==
    /\ q \in subs[c]
    /\ subs' = [subs EXCEPT ![c] = @ \ {q}]
    /\ Cancel(c, {q}, "out_of_capacity")
    /\ UNCHANGED <<pc, last, subscribes>>

\* Mutant: the goroutine returns only after writing the cancellation error,
\* so one cancelled by Unsubscribe stays in its select.
ForwarderReturnErrorOnly(p, r) ==
    /\ cancelled[p][r] > 0 /\ r # "unsubscribed"
    /\ cancelled' = [cancelled EXCEPT ![p][r] = @ - 1]
    /\ UNCHANGED <<subs, pc, last, subscribes>>

(***************************************************************************)
(* The goroutine takes <-sub.Cancelled(), writes the cancellation error   *)
(* unless the client unsubscribed, and returns (events.go:56-70).         *)
(***************************************************************************)
ForwarderReturn(p, r) ==
    /\ cancelled[p][r] > 0
    /\ cancelled' = [cancelled EXCEPT ![p][r] = @ - 1]
    /\ UNCHANGED <<subs, pc, last, subscribes>>

\* Some forwarding goroutine whose subscription is cancelled runs.
ForwardersRun == \E p \in Pairs, r \in Reasons : ForwarderReturn(p, r)

Next ==
    \/ \E c \in Conns :
          \/ \E q \in Queries : SubscribeCheck(c, q)
          \/ SubscribeCall(c)
          \/ \E q \in Queries : Unsubscribe(c, q)
          \/ UnsubscribeAll(c)
          \/ \E q \in Queries : OutOfCapacity(c, q)
    \/ ForwardersRun

(***************************************************************************)
(* A goroutine whose select has a ready case is eventually scheduled.     *)
(* Fairness on some such goroutine running is weaker than fairness on     *)
(* each, and enough here: the successful Subscribes are bounded.          *)
(***************************************************************************)
Spec == Init /\ [][Next]_vars /\ WF_vars(ForwardersRun)
-----------------------------------------------------------------------------
(***************************************************************************)
(* A client never holds more than MaxSubscriptionsPerClient subscriptions, *)
(* across any interleaving of its own Subscribe, Unsubscribe and          *)
(* UnsubscribeAll with those of other connections.                         *)
(***************************************************************************)
PerClientLimit == \A c \in Conns : NumClientSubscriptions(c) <= MaxSubscriptionsPerClient

(***************************************************************************)
(* The bus never serves more than MaxSubscriptionClients clients, the     *)
(* limit Subscribe checks at events.go:23.                                 *)
(***************************************************************************)
ClientLimit == NumClients <= MaxSubscriptionClients

\* Goroutines of cancelled subscriptions still running.
Running == {<<p, r>> \in Pairs \X Reasons : cancelled[p][r] > 0}

(***************************************************************************)
(* Every forwarding goroutine Subscribe starts returns once its           *)
(* subscription is cancelled, whether the client unsubscribed (by query   *)
(* or all at once) or the bus dropped it for overflow: the node does not  *)
(* leak goroutines across subscribe and unsubscribe cycles.               *)
(***************************************************************************)
ForwardersReturn == Running # {} ~> Running = {}
=============================================================================
