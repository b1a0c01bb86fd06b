------------------------ MODULE MCMemoryLedgerStore ------------------------
(* Finite instances of the in-memory ledger store and of its rows.  *)
EXTENDS MemoryLedgerRows, TLC

VARIABLE scope

\* Requests are interchangeable, and so are the keys of imported vouchers.
MCSymmetry == Permutations(Requests) \cup Permutations(SieIds)

\* Two instances, one chosen in the first state: decisions and imports among few
\* evidence objects, or uploads and composes among more of them.
MCInit == RowsInit /\ scope \in {"decisions", "uploads"}

DecisionSteps ==
    /\ RowsNext
    /\ Len(evidence') <= 2
    /\ Len(packets') <= 3
    /\ Len(events') + 2 * Cardinality({r \in Requests : refresh'[r] # Idle}) <= 11

\* What an extraction that reads nothing returns.
Unread == [k \in Keys |-> Missing]

\* A file or none, every compose, one refresh at a time that reads nothing.
UploadSteps ==
    /\ \/ \E hash \in Hashes \cup {NoHash} : CreateEvidence(hash, Unread)
       \/ \E r \in Requests, e \in DOMAIN evidence :
               Free = Requests /\ BeginExtractionRefresh(r, e, Unread)
       \/ \E r \in Requests : FinishExtractionRefresh(r)
       \/ \E v \in DOMAIN vouchers : SuggestVoucher(v)
       \/ \E S \in (SUBSET (DOMAIN evidence \cup {Unknown})) \ {{}} :
               \E ids \in Orders(S) : ComposeEvidence(ids)
    /\ overwritten' = overwritten \cup StaleWrites

MCNext ==
    /\ \/ scope = "decisions" /\ DecisionSteps
       \/ scope = "uploads" /\ UploadSteps
    /\ UNCHANGED scope

MCSpec == MCInit /\ [][MCNext]_<<rowsVars, scope>>
=============================================================================
