----------------------------- MODULE LightRPC -----------------------------
(***************************************************************************)
(* The verifying RPC facade, light/rpc/client.go: each verifying handler  *)
(* asks the untrusted node (`next`) for a response, validates its shape,  *)
(* drives the light client to the height that commits the response        *)
(* (updateLightClientIfNeededTo) and compares the response with the       *)
(* trusted header.  Pass-through handlers (Status, Broadcast*, Subscribe, *)
(* ...) change no state and are not modelled.                             *)
(*                                                                         *)
(* A response is a record with the fields the handlers read.  A header    *)
(* stands for a block or a signed header (its Hash() is Hash(hdr)).  For  *)
(* ABCIQuery, `val` is the application state root the Merkle proof is     *)
(* built against: a proof verifies against AppHash r only when it was     *)
(* built for r.  For Validators, `vs` is the page of validators and       *)
(* `overCount` says the node reported Count > Total.                      *)
(***************************************************************************)
EXTENDS LightClient

CONSTANTS
    Kinds,        \* the handlers a run exercises
    RPCFaulty,    \* TRUE when the untrusted node may answer anything
    MaxPerPage,   \* validators per page of the node's Validators endpoint
    QueryPaths,   \* the paths an ABCI query is made with: [slash, parts]
    Keys,         \* the keys an ABCI query asks for
    AbsentKeys,   \* the keys the application holds no value for
    RegisteredOps \* the proof op types the application registers with
                  \* RegisterOpDecoder

ASSUME /\ Kinds \subseteq {"abci_query", "consensus_params", "blockchain_info",
                           "block", "block_by_hash", "block_results", "commit", "tx",
                           "validators"}
       /\ RPCFaulty \in BOOLEAN /\ MaxPerPage \in Nat \ {0}
       /\ AbsentKeys \subseteq Keys
       /\ RegisteredOps \subseteq {"value", "absence"}

VARIABLES
    rpcState,  \* "idle", "updating" while the handler waits for the light
               \* client, "replied" when it has returned
    kind,      \* the handler being served
    req,       \* the request: [height, path, key]
    resp,      \* the response of the untrusted node
    reply,     \* the error the handler returned, "" for success
    prt        \* the proof op types the client's proof runtime decodes

rpcVars == <<rpcState, kind, req, resp, reply, prt>>
vars == <<lcVars, rpcVars>>

\* The requested heights: a response at h may be committed in header h+1.
ReqHeights == 1..MaxHeight - 1

(***************************************************************************)
(* A response.  An ABCI query response also carries its key ("none" for  *)
(* an empty one), whether it holds a value (present), its code (0 is OK), *)
(* whether it has ProofOps and the type of its proof op; a Merkle proof   *)
(* is abstracted to the AppHash it computes (val).                        *)
(***************************************************************************)
Resp(h, hdr, val) ==
    [height |-> h, hdr |-> hdr, val |-> val, vs |-> {}, metas |-> <<>>,
     present |-> TRUE, overCount |-> FALSE, key |-> "none", op |-> "none",
     code |-> 0, proof |-> TRUE]
HdrResp(hdr)  == Resp(hdr.height, hdr, "none")
ValResp(h, v) == Resp(h, NoHeader, v)

\* The proof op types a node may put in a response: an inclusion (value)
\* proof and an absence proof.
ProofOpTypes == {"value", "absence"}

\* The page an honest node returns for Validators: the whole set when it
\* fits in a page, else the first MaxPerPage validators.
ValidatorsPage(vs) ==
    IF Cardinality(vs) <= MaxPerPage THEN vs
    ELSE CHOOSE p \in SUBSET vs : Cardinality(p) = MaxPerPage

\* What an honest node returns to the request r of kind k.
HonestResponses(k, r) ==
    LET h == r.height IN
    CASE k \in {"block", "block_by_hash", "commit"} -> {HdrResp(HonestChain[h])}
      [] k = "consensus_params"   -> {ValResp(h, PARAMS_AT[h])}
      [] k = "block_results"      -> {ValResp(h, RESULTS_AT[h + 1])}
      [] k = "tx"                 -> {ValResp(h, DATA_AT[h])}
      [] k = "abci_query"         ->
            LET p == r.key \notin AbsentKeys IN
            {[ValResp(h, APP_AT[h + 1]) EXCEPT !.present = p, !.key = r.key,
                                              !.op = IF p THEN "value" ELSE "absence"]}
      [] k = "validators"         ->
            {[ValResp(h, "none") EXCEPT !.vs = ValidatorsPage(VS_AT[h])]}
      [] k = "blockchain_info"    ->
            {[ValResp(h, "none") EXCEPT !.metas = <<HonestChain[h + 1], HonestChain[h]>>]}

\* Headers a faulty node can serve as a block, a commit or a block meta.
AnyHeaders == {HonestChain[h] : h \in Heights} \cup
              {lb.header : lb \in UNION {ForgedTable[h, 0] : h \in Heights}}

\* What a faulty node can return: any height, including non-positive ones,
\* and any content.
FaultyResponses(k) ==
    CASE k \in {"block", "block_by_hash", "commit"} -> {HdrResp(hdr) : hdr \in AnyHeaders}
      [] k \in {"consensus_params", "block_results", "tx"} ->
            {ValResp(x, v) : x \in 0..MaxHeight - 1, v \in Vals}
      [] k = "abci_query" ->
            {[ValResp(x, v) EXCEPT !.present = p, !.key = key, !.op = o] :
                x \in 0..MaxHeight - 1, v \in Vals, p \in BOOLEAN, key \in Keys,
                o \in ProofOpTypes}
            \* One response of each kind the shape checks reject: they are
            \* rejected whatever their other fields hold.
            \cup {[ValResp(1, "v1") EXCEPT !.code = 1],
                  [ValResp(1, "v1") EXCEPT !.key = "none"],
                  [ValResp(1, "v1") EXCEPT !.key = CHOOSE key \in Keys : TRUE,
                                           !.proof = FALSE]}
      [] k = "validators" ->
            {[ValResp(x, "none") EXCEPT !.vs = s, !.overCount = c] :
                x \in 0..MaxHeight - 1, s \in {VS_AT[h] : h \in Heights} \cup ForgeVS,
                c \in BOOLEAN}
      [] k = "blockchain_info" ->
            {[ValResp(hdr.height, "none") EXCEPT !.metas = <<hdr>>] : hdr \in AnyHeaders}

\* What a node answers; a faulty node also answers anything.
Responses(k, r, faulty) ==
    HonestResponses(k, r) \cup (IF faulty THEN FaultyResponses(k) ELSE {})

(***************************************************************************)
(* The handlers.  Each is an operator of the request r, the untrusted     *)
(* node's response x and the trusted header h the light client returns:  *)
(*   shape   the error of the response checks before the light client     *)
(*           call, "" when they pass;                                     *)
(*   update  the height of updateLightClientIfNeededTo;                   *)
(*   verdict the error of the comparison with h, "" when it passes.       *)
(***************************************************************************)
Handler(shape, update, verdict) == [shape |-> shape, update |-> update, verdict |-> verdict]

PositiveHeight(x) == IF x.height <= 0 THEN "neg_height" ELSE ""

\* ABCIQueryWithOptions validates the response before the height: an
\* error code, then an empty key or missing ProofOps ("empty tree").
ABCIShape(x) ==
    CASE x.code # 0                     -> "err_code"
      [] x.key = "none" \/ ~x.proof     -> "empty_tree"
      [] OTHER                          -> PositiveHeight(x)
SameHash(a, b)    == IF Hash(a) = Hash(b) THEN "" ELSE "mismatch"
SameVal(a, b)     == IF a = b THEN "" ELSE "mismatch"

\* defaultProofRuntime: the proof op types the facade's runtime decodes.
DefaultProofRuntime == {"value"}

(***************************************************************************)
(* ProofRuntime.VerifyValue / VerifyAbsence: the proof decodes only when  *)
(* its op type is registered, and it verifies only when the op proves the *)
(* form asked for (a value op takes one argument and cannot prove an      *)
(* absence) and its root is the trusted AppHash.                          *)
(***************************************************************************)
VerifyProof(x, h, form) ==
    IF x.op \in prt /\ x.op = form /\ x.val = h.app
    THEN "" ELSE "proof_failed"

(***************************************************************************)
(* parseQueryStorePath: a path is whether it starts with "/" and the      *)
(* "/"-separated parts after that.  SplitN(path[1:], "/", 3) keeps every  *)
(* part past the second in its third element, which then holds a "/" and *)
(* is not "key": the path must have exactly three parts.                  *)
(***************************************************************************)
\* Mutant: the key marker is looked for in the store name's place.
ParseQueryStorePathOffByOne(path) ==
    IF /\ path.slash
       /\ Len(path.parts) = 3
       /\ path.parts[1] = "store"
       /\ path.parts[2] = "key"
    THEN [err |-> "", store |-> path.parts[2]]
    ELSE [err |-> "invalid_path", store |-> ""]

ParseQueryStorePath(path) ==
    IF /\ path.slash
       /\ Len(path.parts) = 3
       /\ path.parts[1] = "store"
       /\ path.parts[3] = "key"
    THEN [err |-> "", store |-> path.parts[2]]
    ELSE [err |-> "invalid_path", store |-> ""]

\* Mutant: the proof is checked against the header of the response's height.
ABCIQueryAtResponseHeight(r, x, h) ==
    Handler(ABCIShape(x), x.height,
            IF ~x.present THEN VerifyProof(x, h, "absence")
            ELSE IF ParseQueryStorePath(r.path).err = "" THEN VerifyProof(x, h, "value")
                 ELSE ParseQueryStorePath(r.path).err)

\* ABCIQueryWithOptions: the proof is checked against AppHash of header
\* x.height+1; a value proof needs the store name of the path, an absence
\* proof is verified against the bare key.  resp.Key is not compared with
\* the data asked for.
ABCIQueryWithOptions(r, x, h) ==
    Handler(ABCIShape(x), x.height + 1,
            IF ~x.present THEN VerifyProof(x, h, "absence")
            ELSE IF ParseQueryStorePath(r.path).err = "" THEN VerifyProof(x, h, "value")
                 ELSE ParseQueryStorePath(r.path).err)

\* ConsensusParams: checked against ConsensusHash of the response's height.
ConsensusParams(r, x, h) ==
    Handler(PositiveHeight(x), x.height, SameVal(x.val, h.params))

\* BlockchainInfo: the light client is updated to the last meta's height,
\* then every meta is compared with the stored header of its height.
BlockchainInfo(r, x, h) ==
    Handler("", x.metas[Len(x.metas)].height,
            IF \E i \in DOMAIN x.metas : TrustedHeader(x.metas[i].height).err # "none"
            THEN "not_found"
            ELSE IF \A i \in DOMAIN x.metas :
                        Hash(x.metas[i]) = Hash(TrustedHeader(x.metas[i].height).hdr)
                 THEN "" ELSE "mismatch")

\* Block: the block's own height, compared by header hash.
Block(r, x, h) == Handler("", x.hdr.height, SameHash(x.hdr, h))

\* BlockByHash: the same checks as Block; the block's hash is not compared
\* with the hash asked for.
BlockByHash(r, x, h) == Handler("", x.hdr.height, SameHash(x.hdr, h))

\* BlockResults: verified against LastResultsHash of the requested h+1.
BlockResults(r, x, h) ==
    Handler(PositiveHeight(x), r.height + 1, SameVal(x.val, h.results))

\* Commit: the signed header's height, compared by header hash.
Commit(r, x, h) == Handler(PositiveHeight(x), x.height, SameHash(x.hdr, h))

\* Tx with prove: the proof is validated against DataHash.
Tx(r, x, h) == Handler(PositiveHeight(x), x.height, SameVal(x.val, h.data))

\* Mutant: the validators are compared with ValidatorsHash at every height.
ValidatorsAgainstVS(r, x, h) ==
    Handler(PositiveHeight(x), IF x.height - 1 = 0 THEN 1 ELSE x.height - 1,
            IF ~x.overCount THEN SameVal(x.vs, h.VS) ELSE "")

\* Validators: the set of height x is in NextValidatorsHash of x-1 (in
\* ValidatorsHash of 1 for height 1); it is only compared when
\* Count <= Total.
Validators(r, x, h) ==
    Handler(PositiveHeight(x), IF x.height - 1 = 0 THEN 1 ELSE x.height - 1,
            IF ~x.overCount
            THEN SameVal(x.vs, IF x.height = 1 THEN h.VS ELSE h.NextVS)
            ELSE "")

Handle(k, r, x, h) ==
    CASE k = "abci_query"       -> ABCIQueryWithOptions(r, x, h)
      [] k = "consensus_params" -> ConsensusParams(r, x, h)
      [] k = "blockchain_info"  -> BlockchainInfo(r, x, h)
      [] k = "block"            -> Block(r, x, h)
      [] k = "block_by_hash"    -> BlockByHash(r, x, h)
      [] k = "block_results"    -> BlockResults(r, x, h)
      [] k = "commit"           -> Commit(r, x, h)
      [] k = "tx"               -> Tx(r, x, h)
      [] k = "validators"       -> Validators(r, x, h)

(***************************************************************************)
(* A handler is called on a node (faulty or not, up or not): the node     *)
(* answers, the response is validated and the light client call starts.  *)
(* The node's call may instead fail (a network error; always, for a node  *)
(* that is down), and the handler returns that error.                     *)
(***************************************************************************)
Call(k, r, faulty, up) ==
    /\ rpcState = "idle" /\ lcState = "idle"
    /\ kind' = k /\ req' = r /\ UNCHANGED prt
    /\ \/ /\ reply' = "node_error" /\ rpcState' = "replied"
          /\ UNCHANGED <<resp, lcVars>>
       \/ up /\ \E x \in Responses(k, r, faulty) :
            /\ resp' = x
            /\ IF Handle(k, r, x, NoHeader).shape # ""
               THEN /\ reply' = Handle(k, r, x, NoHeader).shape
                    /\ rpcState' = "replied"
                    /\ UNCHANGED lcVars
               ELSE /\ rpcState' = "updating"
                    /\ VerifyHeaderAtHeight(Handle(k, r, x, NoHeader).update)
                    /\ UNCHANGED reply

\* The light client call returned: compare and reply.
Complete ==
    /\ rpcState = "updating" /\ lcState = "done"
    /\ rpcState' = "replied"
    /\ reply' = IF result.err # "none" THEN "update_failed"
                ELSE Handle(kind, req, resp, result.hdr).verdict
    /\ ReturnResult
    /\ UNCHANGED <<kind, req, resp, prt>>

Requests == [height : ReqHeights, path : QueryPaths, key : Keys]

\* The facade keeps nothing of a call once the handler has returned.
NoReq  == [height |-> 0, path |-> [slash |-> FALSE, parts |-> <<>>], key |-> "none"]
NoResp == ValResp(0, "none")
RPCIdle ==
    /\ rpcState = "idle"
    /\ kind = "none" /\ req = NoReq /\ resp = NoResp /\ reply = ""

\* The caller receives the reply.
Return ==
    /\ rpcState = "replied"
    /\ rpcState' = "idle"
    /\ kind' = "none" /\ req' = NoReq /\ resp' = NoResp /\ reply' = ""
    /\ UNCHANGED <<prt, lcVars>>

\* RegisterOpDecoder: the application adds a decoder to the client's proof
\* runtime, which registers a type once.
RegisterOpDecoder(typ) ==
    /\ typ \notin prt
    /\ prt' = prt \cup {typ}
    /\ UNCHANGED <<rpcState, kind, req, resp, reply, lcVars>>

\* NewClient: an idle facade whose proof runtime is defaultProofRuntime().
RPCInit == RPCIdle /\ prt = DefaultProofRuntime

Init == LCInit /\ RPCInit

Next ==
    \/ \E k \in Kinds, r \in Requests : Call(k, r, RPCFaulty, TRUE)
    \/ LCStep /\ UNCHANGED rpcVars
    \/ Complete
    \/ Return
    \/ \E t \in RegisteredOps : RegisterOpDecoder(t)
    \/ Tick /\ UNCHANGED rpcVars

Spec == Init /\ [][Next]_vars /\ WF_vars(LCStep) /\ WF_vars(Complete) /\ WF_vars(Return)
-----------------------------------------------------------------------------
\* What a response claims about the chain, read at the height it names
\* (BlockResults: at the requested height, which the handler verifies).
ClaimHolds(k, r, x) ==
    CASE k \in {"block", "block_by_hash", "commit"} -> x.hdr = HonestChain[x.hdr.height]
      [] k = "consensus_params" -> x.val = PARAMS_AT[x.height]
      [] k = "block_results"    -> x.val = RESULTS_AT[r.height + 1]
      [] k = "tx"               -> x.val = DATA_AT[x.height]
      [] k = "abci_query"       -> x.val = APP_AT[x.height + 1]
      [] k = "validators"       -> x.vs = VS_AT[x.height]
      [] k = "blockchain_info"  ->
            \A i \in DOMAIN x.metas : x.metas[i] = HonestChain[x.metas[i].height]

(***************************************************************************)
(* Soundness of the facade: a response the facade returns without error  *)
(* agrees with the honest chain, whatever the untrusted node and the      *)
(* primary answer.  It needs the light client to trust only honest        *)
(* headers and every handler to compare the right header field at the    *)
(* right height (AppHash and LastResultsHash live in header h+1, the      *)
(* validators of h in NextValidatorsHash of h-1).                         *)
(***************************************************************************)
RepliesMatchChain ==
    (rpcState = "replied" /\ reply = "") => ClaimHolds(kind, req, resp)

\* The form the spec gives a query path: /store/<storeName>/key.
StorePathForm(path) ==
    path.slash /\ Len(path.parts) >= 2 /\ path.parts = <<"store", path.parts[2], "key">>

(***************************************************************************)
(* Completeness: the facade never rejects what an honest node returned   *)
(* by its own comparisons; an honest response fails only when the light   *)
(* client call fails, or when an ABCI query's path is not of the form    *)
(* /store/<storeName>/key.                                                *)
(***************************************************************************)
HonestResponsesAccepted ==
    (rpcState = "replied" /\ resp \in HonestResponses(kind, req))
        => \/ reply \in {"", "update_failed"}
           \/ reply = "invalid_path" /\ ~StorePathForm(req.path)

(***************************************************************************)
(* A reply answers the request: the height of a returned block, commit,  *)
(* block results, consensus params or validators is the requested one,   *)
(* the block BlockByHash returns is the one whose hash was asked for (a   *)
(* request's height names that block), and an ABCI query's value is the  *)
(* one of the key asked for.                                              *)
(***************************************************************************)
RepliesAnswerRequest ==
    (rpcState = "replied" /\ reply = "") =>
        /\ kind \in {"block", "commit", "consensus_params", "block_results", "validators"}
              => resp.height = req.height
        /\ kind = "block_by_hash" => Hash(resp.hdr) = Hash(HonestChain[req.height])
        /\ kind = "abci_query" => resp.key = req.key
=============================================================================
