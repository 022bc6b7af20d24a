------------------------ MODULE AbstractLightClient ------------------------
(***************************************************************************)
(* What the light client engine promises its callers (spec 4.C, 8.2,     *)
(* 8.3), with no validator sets, commits, providers or clocks.  The trust *)
(* store holds headers of the honest chain only, never more than the      *)
(* pruning size and never none.  A VerifyHeaderAtHeight(h) call holds     *)
(* the engine; while it runs the store may change; it answers with the    *)
(* honest header of height h or an error, and a header it answers with is *)
(* in the store when the answer is given.  Every call answers.            *)
(***************************************************************************)
EXTENDS Integers, FiniteSets, Functions

CONSTANTS
    Chain,      \* the honest chain: height -> header
    Capacity,   \* the pruning size
    Failures,   \* the errors a call may return
    NoHdr       \* the header of an error answer

VARIABLES
    trusted,    \* the trust store: height -> header
    call,       \* "idle", "busy" (a call holds the engine) or "done"
    height,     \* the height the last call asked for
    answer      \* what it answered: [err, hdr]

avars == <<trusted, call, height, answer>>

\* The stores the engine may hold.
Stores == {Restrict(Chain, D) :
              D \in {D \in SUBSET DOMAIN Chain : D # {} /\ Cardinality(D) <= Capacity}}

\* The answers to a call for height h.
Answers(h) ==
    {[err |-> e, hdr |-> NoHdr] : e \in Failures} \cup
    (IF h \in DOMAIN Chain THEN {[err |-> "none", hdr |-> Chain[h]]} ELSE {})

\* A call for h answers; a successful answer is retained in the store.
Respond(h) ==
    /\ call' = "done"
    /\ answer' \in Answers(h)
    /\ trusted' \in Stores
    /\ answer'.err = "none" => h \in DOMAIN trusted'

\* A call for h starts and may answer at once.
Start(h) ==
    /\ call = "idle"
    /\ height' = h
    /\ \/ call' = "busy" /\ UNCHANGED <<trusted, answer>>
       \/ Respond(h)

\* A call in progress verifies and saves headers.
Step ==
    /\ call = "busy"
    /\ trusted' \in Stores
    /\ UNCHANGED <<call, height, answer>>

\* The call in progress answers.
Finish == call = "busy" /\ Respond(height) /\ UNCHANGED height

\* The caller takes the answer and releases the engine.
Release == call = "done" /\ call' = "idle" /\ UNCHANGED <<trusted, height, answer>>

AInit ==
    /\ trusted \in Stores /\ call = "idle"
    /\ height \in DOMAIN Chain /\ answer \in Answers(height)

\* A call may ask for any height; the new height names it.
ANext == Start(height') \/ Step \/ Finish \/ Release

\* Every call answers, and every answer is taken.
ASpec == AInit /\ [][ANext]_avars /\ WF_avars(Finish) /\ WF_avars(Release)
=============================================================================
