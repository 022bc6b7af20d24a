--------------------------- MODULE StateProvider ---------------------------
(***************************************************************************)
(* The state sync state provider, statesync/stateprovider.go: AppHash,    *)
(* Commit and State of lightClientStateProvider over one light client.    *)
(* The provider's mutex serialises the three methods, so at most one is   *)
(* in progress.  A method is a sequence of light client calls, each       *)
(* issued with a fresh time.Now(): the wall clock may advance between two *)
(* of them.  State finally looks the light client's current primary up   *)
(* in the address map the constructor built, and asks that server for    *)
(* consensus params through the verifying facade of LightRPC: the primary *)
(* (faulty or dead) is also the untrusted node of that call.              *)
(***************************************************************************)
EXTENDS LightRPC

CONSTANT HeightBits  \* the width of uint64 and int64 heights, reduced

ASSUME HeightBits \in Nat /\ 2^(HeightBits - 1) > MaxHeight + 2

VARIABLES
    op,       \* the method in progress: "app_hash", "commit", "state", "none"
    spH,      \* its height argument
    calls,    \* the VerifyHeaderAtHeight heights the method has still to make
    spState,  \* "idle", "ready" (next call to issue), "waiting" (a light client
              \* call in progress), "rpc" (the ConsensusParams call in
              \* progress), "replied"
    headers,  \* the headers the method's light client calls returned
    out       \* what the method returns

spVars == <<op, spH, calls, spState, headers, out>>
allVars == <<lcVars, rpcVars, spVars>>

Ops == {"app_hash", "commit", "state"}

(***************************************************************************)
(* The snapshot heights a peer may offer (a uint64): those whose State    *)
(* the chain holds (it needs the headers up to h+2), and those at the     *)
(* int64 and uint64 boundaries, where h+1 and h+2 wrap.                   *)
(***************************************************************************)
SPHeights == (1..MaxHeight - 2) \cup
             {2^(HeightBits - 1) - 1, 2^(HeightBits - 1) + 1,
              2^HeightBits - 2, 2^HeightBits - 1}

\* uint64 addition wraps modulo 2^64.
Uint(n) == n % 2^HeightBits

\* Mutant: int64(u) clears the sign bit in place of taking two's complement.
Int64SignDropped(u) == IF u >= 2^(HeightBits - 1) THEN u - 2^(HeightBits - 1) ELSE u

\* int64(u) of a uint64: two's complement, so u >= 2^63 becomes negative.
Int64(u) == IF u >= 2^(HeightBits - 1) THEN u - 2^HeightBits ELSE u

NoOut == [err |-> "none", app |-> "none", results |-> "none", lastHeight |-> 0,
          commit |-> NoHeader, vals |-> <<>>, params |-> "none"]

\* Mutant: AppHash verifies height h, whose header holds the hash of h-1.
CallsAppHashAtH(o, h) ==
    CASE o = "app_hash" -> <<Int64(h)>>
      [] o = "commit"   -> <<Int64(h)>>
      [] o = "state"    -> <<Int64(Uint(h + 2)), Int64(h), Int64(Uint(h + 1))>>

\* The VerifyHeaderAtHeight calls of each method, in the order it makes them,
\* at int64(h+1), int64(h), int64(h+2) of the uint64 h.
Calls(o, h) ==
    CASE o = "app_hash" -> <<Int64(Uint(h + 1))>>
      [] o = "commit"   -> <<Int64(h)>>
      [] o = "state"    -> <<Int64(Uint(h + 2)), Int64(h), Int64(Uint(h + 1))>>

\* TrustedValidatorSet(h): the validator set of the stored light block h.
TrustedValidatorSet(h) ==
    IF h \in DOMAIN store THEN Ok(store[h].header) ELSE Err("not_found")

\* providerRemotes: every server's provider mapped to its address (a
\* provider is named by its server).
ProviderRemotes == [p \in Range(Providers) |-> p]

\* The method returns: the caller gets `o` and releases the mutex.
Reply(o) == spState' = "replied" /\ out' = o

\* A method is called and takes the provider mutex.
Request(o, h) ==
    /\ spState = "idle" /\ lcState = "idle" /\ rpcState = "idle"
    /\ op' = o /\ spH' = h /\ calls' = Calls(o, h)
    /\ spState' = "ready" /\ headers' = <<>> /\ out' = NoOut
    /\ UNCHANGED <<lcVars, rpcVars>>

\* The next s.lc.VerifyHeaderAtHeight(height, time.Now()).
IssueCall ==
    /\ spState = "ready"
    /\ VerifyHeaderAtHeight(Head(calls))
    /\ spState' = "waiting"
    /\ UNCHANGED <<rpcVars, op, spH, calls, headers, out>>

(***************************************************************************)
(* A light client call returned.  An error ends the method.  After the    *)
(* last call AppHash returns header h+1's AppHash, Commit header h's      *)
(* commit, and State reads header h and h+1 and the three trusted         *)
(* validator sets (stateprovider.go:137-155).                             *)
(***************************************************************************)
CollectCall ==
    /\ spState = "waiting" /\ lcState = "done"
    /\ ReturnResult
    /\ calls' = Tail(calls)
    /\ LET hs == Append(headers, result.hdr)
           vals == <<TrustedValidatorSet(Int64(spH)),
                     TrustedValidatorSet(Int64(Uint(spH + 1))),
                     TrustedValidatorSet(Int64(Uint(spH + 2)))>>
       IN CASE result.err # "none" ->
                 Reply([NoOut EXCEPT !.err = result.err]) /\ UNCHANGED headers
            [] Tail(calls) # <<>> ->
                 spState' = "ready" /\ headers' = hs /\ UNCHANGED out
            [] op = "app_hash" ->
                 Reply([NoOut EXCEPT !.app = result.hdr.app]) /\ headers' = hs
            [] op = "commit" ->
                 Reply([NoOut EXCEPT !.commit = result.hdr]) /\ headers' = hs
            [] \E i \in 1..3 : vals[i].err # "none" ->
                 Reply([NoOut EXCEPT !.err = "not_found"]) /\ headers' = hs
            [] OTHER ->
                 /\ spState' = "params" /\ headers' = hs
                 /\ out' = [NoOut EXCEPT !.lastHeight = hs[2].height,
                                         !.app = hs[3].app,
                                         !.results = hs[3].results,
                                         !.vals = [i \in 1..3 |-> vals[i].hdr.VS]]
    /\ UNCHANGED <<rpcVars, op, spH>>

(***************************************************************************)
(* s.providers[s.lc.Primary()]: a primary with no address ends State;     *)
(* else rpcclient.ConsensusParams(&nextHeader.Height) on that address.    *)
(***************************************************************************)
RequestParams ==
    /\ spState = "params"
    /\ IF primary \notin DOMAIN ProviderRemotes
       THEN /\ Reply([out EXCEPT !.err = "no_primary_address"])
            /\ UNCHANGED <<rpcVars, lcVars>>
       ELSE /\ Call("consensus_params", [NoReq EXCEPT !.height = headers[3].height],
                    primary \in FaultyProviders, Responsive(primary))
            /\ spState' = "rpc" /\ UNCHANGED out
    /\ UNCHANGED <<op, spH, calls, headers>>

\* Mutant: a failed ConsensusParams call is retried.
ParamsReturnedRetry ==
    /\ spState = "rpc" /\ rpcState = "replied"
    /\ Return
    /\ IF reply # "" THEN spState' = "params" /\ UNCHANGED out
       ELSE Reply([out EXCEPT !.params = resp.val])
    /\ UNCHANGED <<op, spH, calls, headers>>

\* The facade returned: its error ends State, else the params are taken.
ParamsReturned ==
    /\ spState = "rpc" /\ rpcState = "replied"
    /\ Return
    /\ Reply(IF reply # "" THEN [NoOut EXCEPT !.err = "params_failed"]
             ELSE [out EXCEPT !.params = resp.val])
    /\ UNCHANGED <<op, spH, calls, headers>>

\* The caller takes the return value.
SPReturn ==
    /\ spState = "replied"
    /\ spState' = "idle" /\ op' = "none" /\ spH' = 0 /\ calls' = <<>>
    /\ headers' = <<>> /\ out' = NoOut
    /\ UNCHANGED <<lcVars, rpcVars>>

SPInit ==
    /\ LCInit /\ RPCInit
    /\ op = "none" /\ spH = 0 /\ calls = <<>> /\ spState = "idle"
    /\ headers = <<>> /\ out = NoOut

SPStep == IssueCall \/ CollectCall \/ RequestParams \/ ParamsReturned \/ SPReturn

SPNext ==
    \/ \E o \in Ops, h \in SPHeights : Request(o, h)
    \/ SPStep
    \/ LCStep /\ UNCHANGED <<rpcVars, spVars>>
    \/ Complete /\ UNCHANGED spVars
    \/ Tick /\ UNCHANGED <<rpcVars, spVars>>

\* Every step of a method in progress is taken: light client and RPC round
\* trips end by an answer or a timeout.
SPSpec == SPInit /\ [][SPNext]_allVars
            /\ WF_allVars(SPStep) /\ WF_allVars(LCStep /\ UNCHANGED <<rpcVars, spVars>>)
            /\ WF_allVars(Complete /\ UNCHANGED spVars)
-----------------------------------------------------------------------------
(***************************************************************************)
(* The state a snapshot is restored with is the chain's: AppHash and      *)
(* Commit return the fields of headers h+1 and h, and State returns       *)
(* LastBlockHeight h, AppHash and LastResultsHash of header h+1 and the    *)
(* validator sets of heights h, h+1 and h+2, whatever the primary         *)
(* answers, across three light client calls made at advancing times.      *)
(* A snapshot height whose h+1 or h+2 wraps, or that is negative as an    *)
(* int64, never yields another height's state.                            *)
(***************************************************************************)
ProviderStateMatchesChain ==
    (spState = "replied" /\ out.err = "none") =>
        CASE op = "app_hash" -> spH + 1 \in Heights /\ out.app = APP_AT[spH + 1]
          [] op = "commit"   -> spH \in Heights /\ out.commit = HonestChain[spH]
          [] op = "state"    ->
                /\ spH + 2 \in Heights
                /\ out.lastHeight = spH
                /\ out.app = APP_AT[spH + 1] /\ out.results = RESULTS_AT[spH + 1]
                /\ out.vals = <<VS_AT[spH], VS_AT[spH + 1], VS_AT[spH + 2]>>

(***************************************************************************)
(* Every method returns: the calls it makes never leave it waiting on the *)
(* light client or the facade.                                            *)
(***************************************************************************)
ProviderCallsReturn == (spState # "idle") ~> (spState = "idle")
=============================================================================
