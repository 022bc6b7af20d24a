------------------------------ MODULE LightWS ------------------------------
(***************************************************************************)
(* The WebSocket subscription handlers of the light client proxy,         *)
(* light/rpc/client.go: SubscribeWS, UnsubscribeWS and UnsubscribeAllWS   *)
(* forward to the wrapped RPC client (`next`) with the connection's       *)
(* remote address as subscriber.  SubscribeWS starts a goroutine that     *)
(* copies the subscription's events to the connection; it returns only    *)
(* when the proxy stops (c.Quit()).                                       *)
(*                                                                         *)
(* The wrapped client's subscriptions are a set of <<connection, query>>; *)
(* as the node's Subscribe handler (Subscriptions), it refuses a pair it  *)
(* already holds and fails to unsubscribe one it does not.  Any call to   *)
(* it may also fail on the network.  Events are not modelled: a running   *)
(* forwarder is one that writes every event of its channel.               *)
(***************************************************************************)
EXTENDS Naturals

CONSTANTS
    Conns,          \* the WebSocket connections (remote addresses)
    Queries,        \* the queries they subscribe with
    MaxSubscribes   \* the bound on SubscribeWS calls in the model

VARIABLES
    nextSubs,    \* the wrapped client's subscriptions: set of <<conn, query>>
    forwarders,  \* forwarders[p]: the goroutines forwarding p's events
    quit,        \* TRUE once the proxy has stopped and c.Quit() is closed
    subscribes   \* the number of SubscribeWS calls made

vars == <<nextSubs, forwarders, quit, subscribes>>

Pairs == Conns \X Queries

Init ==
    /\ nextSubs = {}
    /\ forwarders = [p \in Pairs |-> 0]
    /\ quit = FALSE
    /\ subscribes = 0

(***************************************************************************)
(* SubscribeWS: next.Subscribe(RemoteAddr, query); on error it returns    *)
(* it, else it starts the forwarding goroutine.                           *)
(***************************************************************************)
SubscribeWS(c, q) ==
    /\ subscribes < MaxSubscribes
    /\ subscribes' = subscribes + 1
    /\ \/ /\ <<c, q>> \notin nextSubs
          /\ nextSubs' = nextSubs \cup {<<c, q>>}
          /\ forwarders' = [forwarders EXCEPT ![<<c, q>>] = @ + 1]
       \/ UNCHANGED <<nextSubs, forwarders>>
    /\ UNCHANGED quit

\* UnsubscribeWS: next.Unsubscribe(RemoteAddr, query).
UnsubscribeWS(c, q) ==
    /\ \/ <<c, q>> \in nextSubs /\ nextSubs' = nextSubs \ {<<c, q>>}
       \/ UNCHANGED nextSubs
    /\ UNCHANGED <<forwarders, quit, subscribes>>

\* UnsubscribeAllWS: next.UnsubscribeAll(RemoteAddr).
UnsubscribeAllWS(c) ==
    /\ \/ /\ \E q \in Queries : <<c, q>> \in nextSubs
          /\ nextSubs' = {p \in nextSubs : p[1] # c}
       \/ UNCHANGED nextSubs
    /\ UNCHANGED <<forwarders, quit, subscribes>>

\* The proxy stops: BaseService.Stop closes Quit, OnStop stops next.
Stop ==
    /\ ~quit
    /\ quit' = TRUE
    /\ UNCHANGED <<nextSubs, forwarders, subscribes>>

\* Mutant: the forwarder returns when its subscription is gone.
ForwarderExitOnUnsubscribe(p) ==
    /\ forwarders[p] > 0 /\ p \notin nextSubs
    /\ forwarders' = [forwarders EXCEPT ![p] = @ - 1]
    /\ UNCHANGED <<nextSubs, quit, subscribes>>

\* A forwarding goroutine's select takes <-c.Quit() and returns.
ForwarderExit(p) ==
    /\ forwarders[p] > 0 /\ quit
    /\ forwarders' = [forwarders EXCEPT ![p] = @ - 1]
    /\ UNCHANGED <<nextSubs, quit, subscribes>>

Next ==
    \/ \E c \in Conns, q \in Queries : SubscribeWS(c, q) \/ UnsubscribeWS(c, q)
    \/ \E c \in Conns : UnsubscribeAllWS(c)
    \/ Stop
    \/ \E p \in Pairs : ForwarderExit(p)

\* The Go scheduler runs a goroutine whose select has a ready case.
Spec == Init /\ [][Next]_vars /\ \A p \in Pairs : WF_vars(ForwarderExit(p))
-----------------------------------------------------------------------------
\* The goroutines forwarding events.
Running == {p \in Pairs : forwarders[p] > 0}

(***************************************************************************)
(* Once the proxy stops, every forwarding goroutine SubscribeWS started   *)
(* returns, whatever subscriptions were made, failed or cancelled.        *)
(***************************************************************************)
ForwardersStopWithProxy == quit ~> (Running = {})

(***************************************************************************)
(* A goroutine forwards events only for a subscription the wrapped client *)
(* holds: after UnsubscribeWS or UnsubscribeAllWS no goroutine keeps      *)
(* reading the cancelled subscription's channel.                          *)
(***************************************************************************)
ForwardersMatchSubscriptions == Running \subseteq nextSubs
=============================================================================
