# TLA+ models of the light client, its verifying RPC facade, the state-sync state provider and the event subscription handlers

This directory holds TLA+ models of the trust-minimising parts of this
repository and the TLC configurations that check them. The modules are
written from the code under `src/`. The light client engine and its store
are not under `src/`, so they are written from `spec.md`; PROJECT.json marks
those definitions `spec_modelled`.

## The system and how its parts interact

| part | source | role |
|---|---|---|
| light client engine and trust store | spec 4.C–4.E (not in src) | Verifies headers from an untrusted primary against a trusted root. It uses sequential, skipping (bisection) or backwards verification, cross-checks each new header with the witnesses, replaces a failed primary by a witness, and keeps a pruned trust store. |
| verifying RPC facade | `src/light/rpc/client.go` | Asks an untrusted node for a response and drives the engine to the height that commits the response (`updateLightClientIfNeededTo`). It then compares the response with the trusted header. |
| state provider | `src/statesync/stateprovider.go` | Builds the state a snapshot is restored with. It makes three engine calls, reads three trusted validator sets, and asks the current primary's RPC endpoint for consensus params through the facade. |
| proof runtime | `src/light/rpc/proof.go` | The Merkle proof decoders the facade verifies ABCI query proofs with. |
| proxy WebSocket subscriptions | `src/light/rpc/client.go` (SubscribeWS, UnsubscribeWS, UnsubscribeAllWS, OnStop) | Forward subscriptions to the wrapped client and copy events to the connection from one goroutine per subscription. |
| event subscription handlers | `src/rpc/core/events.go` | Subscribe, Unsubscribe and UnsubscribeAll of the RPC server, with per-server and per-client limits. |
| dead mock provider | `src/light/provider/mock/deadmock.go` | A provider that never answers. |
| not modelled | `types/protobuf.go`, `rpc/core/abci.go`, `cmd/*`, mocks, interface files | Field copies, pass-through calls, CLI wiring and declarations, none of which hold state (see PROJECT.json `components`). |

The parts depend on each other like this:
- The facade and the state provider share one engine. Both call `VerifyHeaderAtHeight` and `TrustedHeader`/`TrustedValidatorSet`.
- The state provider's constructor passes its first server to the engine as primary and the others as witnesses, and keeps a map from every provider to its address. State later creates a facade over the address of whichever provider is then the engine's primary.
- In the model, the state provider therefore EXTENDS LightRPC, which EXTENDS LightClient, which EXTENDS Blockchain.

## Modules

- **Blockchain** is the data model: headers, commits and validator sets (spec 3, 4.A, 4.D).
  - Validators have unit power, a validator set is a set of nodes, and a commit is its set of signers.
  - Block *h* has time *h*.
  - The honest chain is given by constant functions of height for the header fields the facade compares.
  - `FAULTY_FROM` gives the time from which each node signs anything. `ForgedLBs(h, t)` are the headers a faulty primary can serve at time *t*: any validator sets and contents, signed by every faulty member of the claimed set.
  - The verification primitives are `VerifyCommitLight`, `VerifyCommitTrusting` (trust level 1/3), `HeaderExpired`, `VerifyAdjacent`, `Verify` and `VerifyBackwards`.
- **AbstractLightClient** is what the engine promises its callers, with no validators, providers or clocks.
  - The store holds honest headers only: at least one, and at most the pruning size.
  - A call holds the engine. While it runs the store may change.
  - A call answers with the honest header of its height or an error. A header it answers with is in the store at that moment.
  - Every call answers (weak fairness on `Finish` and `Release`).
- **LightClient** is the engine.
  - State: `store` (height → light block), `now` (wall clock) and one call in progress (`lcState`, `target`, `callNow`, `verified`, `pending`, `result`). The engine mutex serialises the API, so there is at most one call.
  - `mode` is the verification option the client is created with (sequential or skipping); `LCInit` chooses it from `Modes`, and `NextFetchHeight` reads it.
  - `VerifyHeaderAtHeight(h)` starts a call. It returns a stored height at once, and fails on an expired anchor.
  - `Providers` is the sequence of providers, the primary first, then the witnesses. `primary` and `witnesses` hold the current ones. A provider in `FaultyProviders` may also serve forged headers. A provider in `DeadProviders` is the dead mock: `Responsive` is false and it serves nothing (`ProviderLBs`).
  - `FetchNext`, `FetchPivot` and `VerifyBackwardStep` are the provider round trips of a call. When the primary has no light block (its retry budget ran out), `PrimaryFailed` replaces it by the first witness and the fetch is retried. With no witness left, the call ends with `no_response`.
  - `Accept` cross-checks a verified header with the witnesses in order (`CrossCheck`, RECURSIVE). A witness that does not answer is dropped. The first witness that answers decides: the same hash means the header is saved, another hash ends the call with `conflicting_headers`. No witnesses ends it with `no_witnesses`.
  - `VerifyPending` verifies the last fetched header. When overlap is insufficient, it fetches the pivot `(lo+hi) div 2` (`FetchPivot`), as the spec states.
  - A save is followed by `Prune(PruningSize)` in the same step.
  - `LCRefinesAbstract` is `AbsLC!ASpec`, where `AbsLC` is `INSTANCE AbstractLightClient`. It maps the store to its headers, `lcState` to idle/busy/done, the target to the height and the result to the answer.
- **LightRPC** is the facade.
  - Each handler is an operator of request, response and trusted header. It gives the response's shape error, the height to update the light client to, and the verdict of the comparison.
  - `Call(k, r, faulty, up)` models the whole first half of a handler: the node answers, the response is validated, and the engine call starts. The node's call may fail instead (always, when the node is down), and the handler returns that error.
  - `ABCIShape` is ABCIQueryWithOptions' check order: the response code, then an empty key or missing ProofOps ("empty tree"), then the height. A faulty node sends one response of each rejected shape.
  - `Complete` models the engine call returning and the comparison.
  - `Return` models the caller taking the reply. The facade keeps nothing between calls.
  - The untrusted node is honest (`HonestResponses`) or, when `RPCFaulty`, answers anything: any height, including 0, and any content.
  - A Merkle proof is abstracted to its op type (`value` or `absence`) and the AppHash it computes.
    - `prt` is the set of op types the runtime decodes. `RPCInit` sets it to `DefaultProofRuntime`, which is `{"value"}` (proof.go). `RegisterOpDecoder(typ)` adds a type from `RegisteredOps` at any time.
    - `VerifyProof` succeeds only for an op in `prt` of the form asked for, whose root is the trusted AppHash.
  - An ABCI request names a path and a key. `ParseQueryStorePath` is parseQueryStorePath over a path given as its leading slash and its parts.
    - An honest node answers with a value proof for a key the application holds, and with an absence proof for a key in `AbsentKeys`.
  - BlockByHash is a handler of its own; a request's height names the block whose hash is asked for.
- **StateProvider** models `AppHash`, `Commit` and `State`.
  - Snapshot heights are uint64. `Uint` (wrap modulo 2^HeightBits) and `Int64` (two's complement) model `int64(height+1)` and the other conversions, at a width of `HeightBits` = 4 bits.
  - The heights asked for include the int64 and uint64 boundaries (7, 9, 14, 15), so every wrap case happens.
  - A method takes the mutex (`Request`) and then, for each engine call, issues it (`IssueCall`) and collects the result (`CollectCall`). Each call uses the current clock, so time may pass between calls.
  - `State` then reads the validator sets. It looks the engine's current primary up in `ProviderRemotes`, the constructor's map from every server's provider to its address. It calls the facade's ConsensusParams on that address (`RequestParams`, `ParamsReturned`). The primary, faulty or dead, is also the untrusted node of this call.
- **Subscriptions** models each WebSocket connection as one client.
  - A connection handles its requests one at a time; different connections run concurrently.
  - `SubscribeCheck` models the limit checks (events.go:21-27). `SubscribeCall` models `EventBus.Subscribe`, which may time out (events.go:36-43).
  - The event bus is the set of queries per client.
  - A successful Subscribe starts a forwarding goroutine (events.go:46-73). A goroutine whose subscription is still on the bus is that pair's. `cancelled` counts, per pair and reason, the goroutines whose subscription was cancelled and that have not yet returned.
  - Unsubscribe and UnsubscribeAll cancel with `unsubscribed`. `OutOfCapacity` is the bus dropping a subscription whose buffer of subBufferSize is full; this is libs/pubsub behaviour, outside this repository, and the model frees the client's slot with it. A bus that kept counting the dropped subscription would only make the limits harder to exceed. `ForwarderReturn` is the goroutine taking `<-sub.Cancelled()` and returning.
  - `MaxSubscribes` bounds the successful Subscribes.
- **LightWS** models the proxy's WebSocket handlers.
  - State: the wrapped client's subscriptions, the number of forwarding goroutines per subscription, and whether the proxy has stopped (`quit`).
  - SubscribeWS starts a goroutine only when next.Subscribe succeeds. Like the node's handler, next refuses a subscription it already holds, and any call may also fail.
  - A goroutine returns only when `quit` is set (its select on `c.Quit()`).
- **MC\*** modules instantiate the models.

## The instance (MCLightClient) and why it is enough

- **Chain.** Five heights on nodes a–e. The validator sets are {a,b,c} at heights 1–2, {b,c,d} at 3, {c,d,e} at 4 and {a,d,e} at 5. This gives:
  - skipping 2→5 lacks +1/3 overlap and bisects through 3;
  - adjacent steps change the validator set;
  - sequential mode walks every height.
- **Header fields.** The field functions give different values to neighbouring heights, so a comparison against the wrong header is visible.
- **Faults.** Node a is faulty from time 0; b and c are faulty from time 6.
  - The spec's fault assumption (`FaultAssumption`, an ASSUME of the MC module) holds for every header within its trusting period of 4.
  - At time 6, from the anchor at height 3, a header signed by a, b and c can reach exactly the 1/3 boundary of the trusting check. This is where an off-by-one in the trust level shows.
- **Providers.** The lc run has three providers: a faulty primary p1, a faulty witness p2 and a dead witness p3. This covers replacement, a dropped witness and a conflict. The facade runs have two providers. rpc_sound and rpc_complete use a faulty primary and an honest witness; their clock stops at 5 so that they finish within minutes. The state provider run has three, with p1 faulty: heights outside the chain make the primary fail, so a later State runs with p2 as primary and p3 as witness.
- **Modes.** The lc run starts the client in either mode; the facade and provider runs use skipping, the default of light.NewClient.
- **Root and clock.** The trusted root is height 2, so both forward and backward calls happen. The clock runs from 2 to 6, so anchors expire.
- **Facade and provider.** The facade requests heights 1–4. The state provider asks for snapshot heights 1–3, so State reaches height h+2 ≤ 5.
- **Subscriptions.** Three queries, with limits of 2. subs_clients has three connections, symmetric, so three clients meet a limit of two. subs_limits has two connections and no symmetry, because it checks liveness. Its three successful Subscribes allow a client to reach its limit, and a subscribe, unsubscribe and resubscribe cycle of one pair.
- **ABCI queries.** Two keys, so a value can be of another key. The pass runs use a well-formed path and a path of two parts; the completeness run adds the other three ways parseQueryStorePath rejects a path.
- **LightWS.** Two connections, two queries and up to four SubscribeWS calls. This allows two subscribe/unsubscribe cycles of one pair, and failures of every kind of call.

## Runs (PROJECT.json `runs`)

| run | cfg | expect | what it shows |
|---|---|---|---|
| lc | MCLightClient.cfg | pass | With a forging primary and witness and a dead witness, the engine in sequential or skipping mode implements AbstractLightClient (`LCRefinesAbstract`). Its store and answers are honest, a returned header is in the store, the store changes only inside a call, and every call returns. |
| lc_prune | MCLightClient_prune.cfg | violation | With PruningSize 2, a header verified backwards is pruned in the same save, which breaks the spec's round trip. |
| rpc_sound | MCLightRPC_sound.cfg | pass | Every response the facade returns without error agrees with the honest chain, whatever the node and the primary answer. This covers all handlers but Validators. |
| rpc_complete | MCLightRPC_complete.cfg | pass | Honest responses pass every handler's comparisons, for keys the application holds, with the absence decoder registered at any point. This covers all handlers but BlockchainInfo. A query path is rejected only when it is not /store/&lt;storeName&gt;/key. |
| rpc_rejected | MCLightRPC_rejected.cfg | violation | An honest answer is rejected: BlockchainInfo fails with not found, and an absence proof does not decode (`HonestResponsesAccepted`, findings 1 and 6). |
| rpc_valbypass | MCLightRPC_valbypass.cfg | violation | Validators returns an unverified set when Count > Total. |
| rpc_reqanswer | MCLightRPC_reqanswer.cfg | violation | A verified answer to another request is returned: another height (ConsensusParams, BlockResults, Block, Commit), another hash (BlockByHash) or another key (ABCIQueryWithOptions) (`RepliesAnswerRequest`, findings 3, 7 and 8). TLC reports the shortest of these; narrowing `Kinds` in the cfg to one handler shows each. |
| sp_sound | MCStateProvider_sound.cfg | pass | After primary replacements, AppHash, Commit and State return the chain's fields and validator sets, and every method returns. A snapshot height whose conversions wrap never yields another height's state. |
| subs_limits | MCSubscriptions_limits.cfg | pass | No client exceeds MaxSubscriptionsPerClient. Every forwarding goroutine returns once its subscription is cancelled, whatever the reason (`ForwardersReturn`). This is the node's counterpart of finding 9. |
| subs_clients | MCSubscriptions_clients.cfg | violation | Concurrent Subscribes exceed MaxSubscriptionClients. |
| ws_stop | MCLightWS_stop.cfg | pass | Every forwarding goroutine returns once the proxy stops. |
| ws_leak | MCLightWS_leak.cfg | violation | After UnsubscribeWS the forwarding goroutine keeps running. |

Each property of a passing run has a mutant in PROJECT.json: a plausible bug in a mapped definition that TLC finds under that run's cfg. Examples:
- `>=` for `>` in the trust level;
- adjacent verification without the NextValidatorsHash link;
- AppHash read from header h instead of h+1;
- insufficient overlap returned as an error instead of bisecting;
- a failed primary sent to the back of the witness list instead of dropped;
- Validators of height h checked against ValidatorsHash instead of NextValidatorsHash of h-1;
- a retried ConsensusParams call, which lets State loop against a faulty primary;
- an int64 conversion that clears the sign bit instead of wrapping;
- an index off by one in parseQueryStorePath;
- a forwarding goroutine that waits for its subscription to end instead of for Quit;
- a node goroutine that returns only after writing the cancellation error, so it stays after an Unsubscribe.

## Findings

1. **BlockchainInfo** (client.go:219) updates the light client only to the last meta's height. That is the lowest height, so the other metas are not found.
2. **Validators** (client.go:471) skips the hash check when the node claims Count > Total.
3. **ConsensusParams, BlockResults, Block and Commit** (client.go:181, 334-339) never compare the response's height with the request.
   - State (stateprovider.go:167) asks ConsensusParams for height h+1, so it can restore a snapshot with another height's consensus params. The model composes the two, but the run checks the facade's property, which is where the comparison is missing.
4. **Subscribe** (events.go:23) checks the client limit and subscribes later, so concurrent subscribes exceed the limit.
5. **The spec's round-trip property** needs a precondition on PruningSize. State's `TrustedValidatorSet(h)` relies on it.
6. **Absence proofs** (proof.go:9, client.go:123): the default proof runtime registers only the value op. The spec says it has a value and an absence operator, so an honest absence proof never verifies.
7. **ABCI query key** (client.go:89): resp.Key is never compared with the data asked for, so the verified value of another key is returned.
8. **BlockByHash** (client.go:304) never compares the block's hash with the hash asked for.
9. **SubscribeWS goroutines** (client.go:519) run until the proxy stops, after their subscription is cancelled.

## Fairness

- **Light client steps.** `LCStep` has weak fairness: a provider round trip ends by an answer or a timeout (the client retries a bounded number of times and then fails). Primary replacement and witness drops end, because each one shortens the witness list.
- **Facade and provider steps.** `Complete`, `Return` and the state provider's steps are weakly fair: once a handler runs, it runs to its return.
- **Forwarding goroutines.** Each `ForwarderExit(p)` of LightWS is weakly fair, and so is `ForwardersRun` of Subscriptions (some node goroutine with a cancelled subscription returns). The latter is weaker than fairness per goroutine, and it is enough because the Subscribes are bounded. The Go scheduler eventually runs a goroutine whose select has a ready case, and a closed Quit channel is always ready.
- **Not fair.** No fairness is assumed for new calls, for the clock or for the node's choice of answer. A faulty primary may keep choosing the answer that is worst for the caller.

## Not modelled, and why

- **Evidence.** After a conflict the engine builds evidence against the witness and reports it (`ReportEvidence`). That needs a second verification of the witness's own chain. The model ends the call with `conflicting_headers`, which is what the caller sees.
- **OnStart** of the facade only starts the wrapped client.
- **ABCIQuery without options** passes `rpcclient.DefaultABCIQueryOptions`, which is defined outside this repository. The model's requests always ask for a proof.
- **Pass-through handlers.** The facade's Status, Broadcast*, TxSearch and the WebSocket pass-throughs change no verified state.
- **Proof encoding.** Proofs are an op type and a root. Key-path encoding is not modelled. `RegisterOpDecoder` is one atomic step, although it writes a Go map that handlers may read concurrently.
- **Conversions and the CLI.** The protobuf conversions of types/protobuf.go copy fields one by one and hold no state; they, the Evidence type dispatch, `rpcClient` URL handling and the CLI are pure or I/O.
- **Events.** LightWS and Subscriptions do not model the events a goroutine forwards, only whether it runs. The error a node goroutine writes on a cancellation other than an unsubscribe is not modelled either.

## Plan for later work

1. An availability property for the state provider: with two servers, one primary failure leaves no witness.
2. An abstract specification of the facade ("returns only chain data for what was asked"), refined by LightRPC.
3. Compose LightWS with Subscriptions: the proxy's wrapped client as a connection of the node.
