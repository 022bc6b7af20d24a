---------------------------- MODULE LightClient ----------------------------
(***************************************************************************)
(* The light client engine (spec 4.C, 4.E): the trust store and            *)
(* VerifyHeaderAtHeight in sequential, skipping (bisection) and backwards  *)
(* mode against a primary provider, cross-checked by witness providers    *)
(* (spec 4.E, primary / witness protocol).  The engine is not part of     *)
(* src/; it *)
(* is modelled from the spec.  The engine mutex serialises API calls, so   *)
(* at most one call is in progress; its steps are the provider round      *)
(* trips of the call.  The `now` of a call is fixed when the call starts,  *)
(* as the API takes it as an argument.                                     *)
(***************************************************************************)
EXTENDS Blockchain, Sequences, FiniteSetsExt, Functions, TLC

CONSTANTS
    TrustHeight,      \* TrustOptions.Height, the trusted root
    PruningSize,      \* the PruningSize option
    Modes,            \* the verification modes a client may be created with
    Providers,        \* the providers in creation order: the primary, then
                      \* the witnesses
    FaultyProviders,  \* the providers that serve forged headers
    DeadProviders,    \* the providers that never answer (mock.NewDeadMock)
    MaxTime           \* the last value of the wall clock in the model

ASSUME /\ TrustHeight \in Heights
       /\ PruningSize \in Nat \ {0}
       /\ Modes \subseteq {"sequential", "skipping"}
       /\ Providers # <<>> /\ IsInjective(Providers)
       /\ FaultyProviders \cup DeadProviders \subseteq Range(Providers)

VARIABLES
    mode,      \* the client's verification option: "sequential" or "skipping"
    store,     \* the trust store: height -> signed header
    now,       \* the wall clock
    lcState,   \* "idle", "verifying" (a call holds the mutex) or "done"
    target,    \* the height the call verifies
    callNow,   \* the `now` argument of the call
    verified,  \* the signed header the call currently trusts
    pending,   \* bisection cache: fetched, not yet verified headers
    result,    \* what the call returns
    primary,   \* the provider headers are fetched from
    witnesses  \* the witness list, in order

lcVars == <<mode, store, now, lcState, target, callNow, verified, pending, result,
            primary, witnesses>>

\* Placeholder header of an error result.
NoHeader == [HonestChain[1] EXCEPT !.height = 0]

Errors == {"height_not_positive", "old_header_expired", "invalid_header",
           "no_response", "not_found", "conflicting_headers", "no_witnesses"}

Ok(hdr) == [err |-> "none", hdr |-> hdr]
Err(e)  == [err |-> e, hdr |-> NoHeader]

\* ForgedLBs(h, t) depends on t only through the faulty nodes at t.
ForgedTable == [h \in Heights, t \in 0..MaxTime |-> ForgedLBs(h, t)]

LightBlocks == {HonestLB(h) : h \in Heights} \cup
               UNION {ForgedTable[h, t] : h \in Heights, t \in 0..MaxTime}

(***************************************************************************)
(* Trust store (spec 4.C).                                                 *)
(***************************************************************************)

\* Prune(size): retain the `size` highest heights, deleting the oldest.
Prune(s, size) ==
    Restrict(s, {h \in DOMAIN s : Cardinality({k \in DOMAIN s : k > h}) < size})

\* SaveSignedHeaderAndValidatorSet followed by the engine's Prune.
Save(s, lb) == Prune(s @@ (lb.header.height :> lb), PruningSize)

\* SignedHeaderBefore(h): the greatest stored height strictly below h.
HeightBefore(s, h) == Max({k \in DOMAIN s : k < h})

\* TrustedHeader(h): a store lookup, "not_found" when h is not stored.
TrustedHeader(h) == IF h \in DOMAIN store THEN Ok(store[h].header)
                    ELSE Err("not_found")

(***************************************************************************)
(* Providers: what provider p answers to SignedHeader(h) (with the        *)
(* validator sets of the light block).  Any request may also fail after   *)
(* the retry budget; a dead provider fails every request.                 *)
(***************************************************************************)
\* deadMock: SignedHeader, ValidatorSet and ReportEvidence return errNoResp.
Responsive(p) == p \notin DeadProviders

ProviderLBs(p, h) ==
    CASE h \notin Heights \/ ~Responsive(p) -> {}
      [] p \in FaultyProviders -> {HonestLB(h)} \cup ForgedTable[h, callNow]
      [] OTHER                 -> {HonestLB(h)}

PrimaryLBs(h) == ProviderLBs(primary, h)

\* The height the forward loop fetches next: the target in skipping mode,
\* the next height in sequential mode.
NextFetchHeight ==
    IF mode = "sequential" THEN verified.header.height + 1 ELSE target

\* Bisection pivot between the trusted and the untrusted height.
Pivot(lo, hi) == (lo + hi) \div 2

Finish(r) ==
    /\ lcState' = "done"
    /\ result' = r
    /\ pending' = <<>>

\* Mutant: the failed primary is moved to the back of the witness list.
PrimaryFailedRotate ==
    IF witnesses = <<>>
    THEN Finish(Err("no_response")) /\ UNCHANGED <<primary, witnesses>>
    ELSE /\ primary' = Head(witnesses) /\ witnesses' = Append(Tail(witnesses), primary)
         /\ UNCHANGED <<lcState, pending, result>>

(***************************************************************************)
(* The primary did not answer within MaxRetryAttempts: it is replaced by  *)
(* the first witness, which leaves the witness list, and the fetch is     *)
(* retried by the next step; with no witness left the call fails with     *)
(* NoResponse.                                                             *)
(***************************************************************************)
PrimaryFailed ==
    IF witnesses = <<>>
    THEN Finish(Err("no_response")) /\ UNCHANGED <<primary, witnesses>>
    ELSE /\ primary' = Head(witnesses) /\ witnesses' = Tail(witnesses)
         /\ UNCHANGED <<lcState, pending, result>>

(***************************************************************************)
(* The witnesses are asked for their header at lb's height.  In list      *)
(* order, a witness that fails after its retries is dropped from the      *)
(* list; the first one that answers closes the comparison: the same hash  *)
(* corroborates lb, another hash is a conflicting header.  An empty list  *)
(* corroborates nothing (NoWitnesses).  The outcomes are the witness list *)
(* left and the verdict.                                                  *)
(***************************************************************************)
RECURSIVE CrossCheck(_, _)
CrossCheck(ws, lb) ==
    IF ws = <<>> THEN {[ws |-> ws, verdict |-> "no_witnesses"]}
    ELSE {[ws |-> ws, verdict |-> IF Hash(w.header) = Hash(lb.header) THEN "ok"
                                  ELSE "conflicting_headers"] :
             w \in ProviderLBs(Head(ws), lb.header.height)}
         \cup CrossCheck(Tail(ws), lb)

(***************************************************************************)
(* A verified header lb is accepted once a witness corroborates it: it is *)
(* saved and becomes the trusted header, and the call returns when it is  *)
(* the target.  A conflicting header or no witness fails the call.        *)
(***************************************************************************)
Accept(lb) ==
    \E c \in CrossCheck(witnesses, lb) :
        /\ witnesses' = c.ws
        /\ IF c.verdict = "ok"
           THEN /\ store' = Save(store, lb)
                /\ verified' = lb
                /\ IF lb.header.height = target
                   THEN Finish(Ok(lb.header))
                   ELSE /\ pending' = SubSeq(pending, 1, Len(pending) - 1)
                        /\ UNCHANGED <<lcState, result>>
           ELSE Finish(Err(c.verdict)) /\ UNCHANGED <<store, verified>>

(***************************************************************************)
(* VerifyHeaderAtHeight(h, now): the call takes the engine mutex.  A      *)
(* stored height is returned without any fetch.  Otherwise the anchor is  *)
(* the closest trusted header below h (forward) or the lowest stored      *)
(* header (backwards); an expired anchor fails the call.                  *)
(***************************************************************************)
VerifyHeaderAtHeight(h) ==
    /\ lcState = "idle"
    /\ target' = h
    /\ callNow' = now
    /\ CASE h <= 0 ->
              Finish(Err("height_not_positive")) /\ UNCHANGED verified
         [] h \in DOMAIN store ->
              Finish(Ok(store[h].header)) /\ UNCHANGED verified
         [] OTHER ->
              LET anchor == IF h > Min(DOMAIN store)
                            THEN store[HeightBefore(store, h)]
                            ELSE store[Min(DOMAIN store)]
              IN IF HeaderExpired(anchor.header, now)
                 THEN Finish(Err("old_header_expired")) /\ UNCHANGED verified
                 ELSE /\ lcState' = "verifying"
                      /\ verified' = anchor
                      /\ UNCHANGED <<pending, result>>
    /\ UNCHANGED <<mode, store, now, primary, witnesses>>

Forward  == verified.header.height < target
Backward == verified.header.height > target

\* Fetch the next header of the forward loop from the primary.
FetchNext ==
    /\ lcState = "verifying" /\ Forward /\ pending = <<>>
    /\ \/ \E lb \in PrimaryLBs(NextFetchHeight) :
            pending' = <<lb>> /\ UNCHANGED <<lcState, result, primary, witnesses>>
       \/ PrimaryFailed
    /\ UNCHANGED <<mode, store, now, target, callNow, verified>>

\* Insufficient overlap: the pivot is fetched from the primary and verified
\* first.
FetchPivot(lb) ==
    \/ \E p \in PrimaryLBs(Pivot(verified.header.height, lb.header.height)) :
         pending' = Append(pending, p) /\ UNCHANGED <<lcState, result, primary, witnesses>>
    \/ PrimaryFailed

\* Mutant: insufficient overlap is returned as an error, without bisection.
VerifyPendingNoBisection ==
    /\ lcState = "verifying" /\ Forward /\ pending # <<>>
    /\ LET lb == pending[Len(pending)]
           verdict == Verify(verified, lb, callNow)
       IN IF verdict = "ok" THEN Accept(lb) /\ UNCHANGED primary
          ELSE Finish(Err(verdict)) /\ UNCHANGED <<store, verified, primary, witnesses>>
    /\ UNCHANGED <<mode, now, target, callNow>>

(***************************************************************************)
(* One iteration of the forward loop: verify the last fetched header      *)
(* against the trusted one.  On success it is cross-checked and accepted; *)
(* on insufficient overlap the pivot is fetched and verified first; any   *)
(* other verdict fails the call.                                           *)
(***************************************************************************)
VerifyPending ==
    /\ lcState = "verifying" /\ Forward /\ pending # <<>>
    /\ LET lb == pending[Len(pending)]
           verdict == Verify(verified, lb, callNow)
       IN CASE verdict = "ok" ->
                 Accept(lb) /\ UNCHANGED primary
            [] verdict = "insufficient_overlap" ->
                 FetchPivot(lb) /\ UNCHANGED <<store, verified>>
            [] OTHER ->
                 Finish(Err(verdict)) /\ UNCHANGED <<store, verified, primary, witnesses>>
    /\ UNCHANGED <<mode, now, target, callNow>>

\* Mutant: the backwards walk does not save the headers it verifies.
VerifyBackwardStepNoSave ==
    /\ lcState = "verifying" /\ Backward
    /\ \/ \E parent \in PrimaryLBs(verified.header.height - 1) :
            /\ IF VerifyBackwards(verified, parent)
               THEN \E c \in CrossCheck(witnesses, parent) :
                      /\ witnesses' = c.ws
                      /\ IF c.verdict = "ok"
                         THEN /\ verified' = parent
                              /\ IF parent.header.height = target
                                 THEN Finish(Ok(parent.header))
                                 ELSE UNCHANGED <<lcState, pending, result>>
                         ELSE Finish(Err(c.verdict)) /\ UNCHANGED verified
               ELSE Finish(Err("invalid_header")) /\ UNCHANGED <<verified, witnesses>>
            /\ UNCHANGED <<store, primary>>
       \/ PrimaryFailed /\ UNCHANGED <<store, verified>>
    /\ UNCHANGED <<mode, now, target, callNow>>

(***************************************************************************)
(* One step of backwards verification: fetch the parent of the trusted    *)
(* header and check the hash link and the time order; no signatures are   *)
(* checked.  A header that passes is cross-checked and accepted like a    *)
(* forward one, so every header walked through is saved.                  *)
(***************************************************************************)
VerifyBackwardStep ==
    /\ lcState = "verifying" /\ Backward
    /\ \/ \E parent \in PrimaryLBs(verified.header.height - 1) :
            /\ IF VerifyBackwards(verified, parent)
               THEN Accept(parent)
               ELSE Finish(Err("invalid_header")) /\ UNCHANGED <<store, verified, witnesses>>
            /\ UNCHANGED primary
       \/ PrimaryFailed /\ UNCHANGED <<store, verified>>
    /\ UNCHANGED <<mode, now, target, callNow>>

\* The caller takes the result and releases the engine.
ReturnResult ==
    /\ lcState = "done"
    /\ lcState' = "idle"
    /\ UNCHANGED <<mode, store, now, target, callNow, verified, pending, result,
                   primary, witnesses>>

\* Wall-clock time passes between calls.
Tick ==
    /\ lcState = "idle" /\ now < MaxTime
    /\ now' = now + 1
    /\ UNCHANGED <<mode, store, lcState, target, callNow, verified, pending, result,
                   primary, witnesses>>

\* Creating the client: the root fetched from the primary is checked
\* against TrustOptions.Hash, so only the honest header is accepted; the
\* first provider is the primary, the others are the witnesses.
LCInit ==
    /\ mode \in Modes
    /\ store = TrustHeight :> HonestLB(TrustHeight)
    /\ now = TrustHeight
    /\ lcState = "idle"
    /\ target = TrustHeight
    /\ callNow = now
    /\ verified = HonestLB(TrustHeight)
    /\ pending = <<>>
    /\ result = Ok(HonestChain[TrustHeight])
    /\ primary = Head(Providers)
    /\ witnesses = Tail(Providers)

\* The internal steps of a call in progress.
LCStep == FetchNext \/ VerifyPending \/ VerifyBackwardStep

LCNext ==
    \/ \E h \in Heights : VerifyHeaderAtHeight(h)
    \/ LCStep
    \/ ReturnResult
    \/ Tick

\* A provider round trip always ends (by an answer or a timeout), so a call
\* in progress keeps stepping.
LCSpec == LCInit /\ [][LCNext]_lcVars /\ WF_lcVars(LCStep) /\ WF_lcVars(ReturnResult)

-----------------------------------------------------------------------------
(***************************************************************************)
(* Properties.                                                             *)
(***************************************************************************)

LCTypeOK ==
    /\ DOMAIN store \subseteq Heights
    /\ \A h \in DOMAIN store : store[h] \in LightBlocks /\ store[h].header.height = h
    /\ Cardinality(DOMAIN store) <= PruningSize
    /\ now \in 0..MaxTime
    /\ lcState \in {"idle", "verifying", "done"}
    /\ verified \in LightBlocks
    /\ pending \in Seq(LightBlocks)
    /\ result.err \in Errors \cup {"none"}
    /\ primary \in Range(Providers)
    /\ witnesses \in Seq(Range(Providers))

\* Faults the engine is meant to tolerate: while a header of the honest
\* chain is within its trusting period, its next validator set has at most
\* a third of faulty power.
FaultAssumption ==
    \A h \in Heights, t \in 0..MaxTime :
        t - h < TrustingPeriod =>
            3 * Cardinality(VS_AT[h + 1] \cap FaultyAt(t)) <= Cardinality(VS_AT[h + 1])

(***************************************************************************)
(* Round trip (spec 8.3): once VerifyHeaderAtHeight(h) has returned a     *)
(* header, TrustedHeader(h) returns the same header.                      *)
(***************************************************************************)
VerifiedHeaderIsRetained ==
    (lcState = "done" /\ result.err = "none") => TrustedHeader(target) = result

(***************************************************************************)
(* The engine implements AbstractLightClient: the trust store and every   *)
(* header a call returns are the honest chain's, however a faulty primary *)
(* answers the fetches of bisection, sequential and backwards            *)
(* verification (spec 8.2); a header a call returns is in the store when  *)
(* the call returns (spec 8.3); the store changes only inside a call and  *)
(* stays within PruningSize; and every call returns, bisection always     *)
(* reaching the target or an error.                                       *)
(***************************************************************************)
AbsLC == INSTANCE AbstractLightClient
           WITH Chain <- HonestChain, Capacity <- PruningSize,
                Failures <- Errors, NoHdr <- NoHeader,
                trusted <- [h \in DOMAIN store |-> store[h].header],
                call <- [idle |-> "idle", verifying |-> "busy", done |-> "done"][lcState],
                height <- target, answer <- result

LCRefinesAbstract == AbsLC!ASpec
=============================================================================
