----------------------------- MODULE Blockchain -----------------------------
(***************************************************************************)
(* The data model of the light verification core (spec section 3 and 4.A, *)
(* 4.D): headers, commits, validator sets, and the verification           *)
(* primitives the engine applies to them.  The header, commit and         *)
(* validator-set code is not part of src/, so this module is modelled     *)
(* from the spec.                                                          *)
(*                                                                         *)
(* Abstractions.  Every validator has voting power one, so the power of a *)
(* set of validators is its cardinality.  A validator set is the set of   *)
(* its nodes and a header carries the sets themselves in place of their   *)
(* hashes.  A commit is the set of nodes whose "for-block" signature it   *)
(* carries.  Block i is produced at time i.  The honest chain is given by *)
(* constant functions from heights to the header fields the RPC facade    *)
(* compares (AppHash, ConsensusHash, LastResultsHash, DataHash).          *)
(***************************************************************************)
EXTENDS Integers, FiniteSets

CONSTANTS
    Nodes,          \* every node that is ever a validator
    MaxHeight,      \* the highest height of the chain in the model
    VS_AT,          \* VS_AT[h]: the validator set of height h, 1..MaxHeight+1
    APP_AT,         \* APP_AT[h]: AppHash of header h (state after block h-1)
    PARAMS_AT,      \* PARAMS_AT[h]: ConsensusHash of header h
    RESULTS_AT,     \* RESULTS_AT[h]: LastResultsHash of header h
    DATA_AT,        \* DATA_AT[h]: DataHash of header h
    Vals,           \* the values a forged header may carry in those fields
    ForgeVS,        \* the validator sets a forged header may claim
    FAULTY_FROM,    \* FAULTY_FROM[n]: the time from which node n is faulty
    TrustingPeriod, \* TrustOptions.Period
    MaxClockDrift   \* the engine's MaxClockDrift option

Heights == 1..MaxHeight

ASSUME /\ MaxHeight \in Nat \ {0}
       /\ VS_AT \in [1..MaxHeight + 1 -> SUBSET Nodes \ {{}}]
       /\ \A f \in {APP_AT, PARAMS_AT, RESULTS_AT, DATA_AT} : f \in [Heights -> Vals]
       /\ ForgeVS \subseteq SUBSET Nodes \ {{}}
       /\ FAULTY_FROM \in [Nodes -> Nat]
       /\ TrustingPeriod \in Nat \ {0} /\ MaxClockDrift \in Nat

\* The nodes that sign whatever a faulty provider asks them to at time t.
FaultyAt(t) == {n \in Nodes : FAULTY_FROM[n] <= t}

\* The hash of header h-1 that header h carries as LastBlockID.  Height 0
\* has no block.
NoBlockID == <<0>>

(***************************************************************************)
(* Header.Hash(): a collision-free digest of the header fields.  The      *)
(* LastBlockID field of every header in the model is the honest one of    *)
(* its height (a forged header differs from the honest one in some other  *)
(* field), so the tuple below is injective on the headers of the model.   *)
(***************************************************************************)
Hash(hdr) ==
    <<hdr.height, hdr.VS, hdr.NextVS, hdr.app, hdr.params, hdr.results, hdr.data>>

\* The header the honest validators produced at height h.
RECURSIVE Honest(_)
Honest(h) ==
    [height  |-> h,
     time    |-> h,
     VS      |-> VS_AT[h],
     NextVS  |-> VS_AT[h + 1],
     app     |-> APP_AT[h],
     params  |-> PARAMS_AT[h],
     results |-> RESULTS_AT[h],
     data    |-> DATA_AT[h],
     lastID  |-> IF h = 1 THEN NoBlockID ELSE Hash(Honest(h - 1))]

\* The honest chain, computed once.
HonestChain == [h \in Heights |-> Honest(h)]

\* The signed header of the honest chain: every validator of the set signs.
HonestLB(h) == [header |-> HonestChain[h], commit |-> VS_AT[h]]

(***************************************************************************)
(* The signed headers a faulty provider can serve for height h at time t: *)
(* any validator sets and any contents, signed by every node that is      *)
(* faulty at t and belongs to the claimed set.  Signing with fewer nodes  *)
(* can only make a check fail, so the largest commit covers every attack. *)
(***************************************************************************)
ForgedLBs(h, t) ==
    { [header |-> [HonestChain[h] EXCEPT !.VS = vs, !.NextVS = nvs, !.app = v,
                                    !.params = v, !.results = v, !.data = v],
       commit |-> vs \cap FaultyAt(t)] :
        vs \in ForgeVS, nvs \in ForgeVS, v \in Vals } \ {HonestLB(h)}

(***************************************************************************)
(* Verification primitives (spec 4.A, 4.D).                               *)
(***************************************************************************)

\* VerifyCommitLight: the signers belong to the header's own validator set
\* and hold strictly more than 2/3 of its power.
VerifyCommitLight(lb) ==
    /\ lb.commit \subseteq lb.header.VS
    /\ 3 * Cardinality(lb.commit) > 2 * Cardinality(lb.header.VS)

\* Mutant: the trust level compared with >= in place of >.
VerifyCommitTrustingAtLeast(trusted, lb) ==
    3 * Cardinality(lb.commit \cap trusted.header.NextVS)
        >= Cardinality(trusted.header.NextVS)

\* VerifyCommitTrusting with the default trust level 1/3: the signers that
\* belong to the trusted next validator set hold strictly more than 1/3 of
\* its power.
VerifyCommitTrusting(trusted, lb) ==
    3 * Cardinality(lb.commit \cap trusted.header.NextVS)
        > Cardinality(trusted.header.NextVS)

\* The trust period check: a header of time t0 is expired at `now` unless
\* now - t0 < period.
HeaderExpired(hdr, now) == now - hdr.time >= TrustingPeriod

\* The checks common to adjacent and skipping verification.
ValidUntrusted(trusted, lb, now) ==
    /\ lb.header.time > trusted.header.time
    /\ lb.header.time < now + MaxClockDrift
    /\ VerifyCommitLight(lb)

\* Mutant: adjacent verification without the NextValidatorsHash link.
VerifyAdjacentNoVS(trusted, lb, now) == ValidUntrusted(trusted, lb, now)

\* Adjacent verification: untrusted.Height = trusted.Height + 1.
VerifyAdjacent(trusted, lb, now) ==
    /\ lb.header.VS = trusted.header.NextVS
    /\ ValidUntrusted(trusted, lb, now)

\* The verdict of verifying lb against trusted (spec 4.D): "ok", the
\* recoverable "insufficient_overlap" that makes the engine bisect, or the
\* error "invalid_header".
Verify(trusted, lb, now) ==
    IF lb.header.height = trusted.header.height + 1
    THEN IF VerifyAdjacent(trusted, lb, now) THEN "ok" ELSE "invalid_header"
    ELSE IF ~ValidUntrusted(trusted, lb, now) THEN "invalid_header"
    ELSE IF VerifyCommitTrusting(trusted, lb) THEN "ok"
    ELSE "insufficient_overlap"

\* Backwards verification of a parent from its trusted child.
VerifyBackwards(child, parent) ==
    /\ child.header.lastID = Hash(parent.header)
    /\ child.header.time > parent.header.time
=============================================================================
