---------------------------- MODULE LedgerPlans ----------------------------
(***************************************************************************)
(* The pure planners that MemoryLedgerStore and PostgresLedgerStore share: *)
(* what one createEvidence, extraction refresh, review decision or SIE     *)
(* import turns a voucher, its review and the event log into.  The stores  *)
(* differ in when they read and when they write, never in these functions. *)
(*                                                                         *)
(* Data is abstracted to what the ledger's rules tell apart.  A voucher's  *)
(* fields map each required key to a value or to Missing; a blank value    *)
(* counts as missing, as in hasField.  A suggestion is identified by the   *)
(* fields it was computed from and by the reviewer's edit applied to it.   *)
(* Journal lines are a function of the suggestion (edit included), of the  *)
(* voucher's fields and of the action, so a posting carries those three.   *)
(* A voucher and its review are created together and linked one to one:    *)
(* they share an identifier.                                               *)
(***************************************************************************)
EXTENDS Naturals, Sequences, FiniteSets

CONSTANTS Keys,      \* the field keys the blocking rules require
          Values,    \* the values an extraction can read for a key
          Missing,   \* no value, or a blank one
          Edits,     \* the reviewer edits that pass validation
          NoEdit,    \* a decision taken without an edit
          SieIds     \* the sie_<series>_<number> keys of imported vouchers

ASSUME MissingAssumption == Missing \notin Values
ASSUME NoEditAssumption == NoEdit \notin Edits
ASSUME SieIdsAssumption == IsFiniteSet(SieIds)

Statuses == {"needs-review", "approved", "rejected", "booked-without-vat"}
Actions == {"approve", "reject", "book-without-vat"}

Fields == [Keys -> Values \cup {Missing}]
Extractions == UNION {[K -> Values \cup {Missing}] : K \in SUBSET Keys}
Suggestions == [fields : Fields, edit : Edits \cup {NoEdit}]
Vouchers == [packet : Nat, status : Statuses, fields : Fields]
Reviews == [status : Statuses, suggestion : Suggestions, blocked : BOOLEAN]

Events ==
    [type : {"EvidenceReceived"}, evidence : Nat]
      \cup [type : {"FieldsExtracted", "ExtractionRefreshed"}, voucher : Nat, fields : Fields]
      \cup [type : {"VoucherCreated"}, voucher : Nat, packet : Nat, fields : Fields]
      \cup [type : {"SuggestionGenerated"}, voucher : Nat, suggestion : Suggestions]
      \cup [type : {"EvidenceRelinked"}, voucher : Nat, packet : Nat]
      \cup [type : {"ReviewDecided"}, voucher : Nat, action : Actions]
      \cup [type : {"PostedToLedger"}, voucher : Nat, action : Actions,
            suggestion : Suggestions, fields : Fields]
      \cup [type : {"VoucherImported"}, aggregate : SieIds]
      \cup [type : {"SimulationExecuted"}]

-----------------------------------------------------------------------------
(* Extraction, rules and suggestions.                                      *)

MergeExtractedFields(existing, refreshed) ==
    [k \in Keys |-> IF k \in DOMAIN refreshed THEN refreshed[k] ELSE existing[k]]

Blocking(fields) == \E k \in Keys : fields[k] = Missing

DeterministicSuggestion(fields) == [fields |-> fields, edit |-> NoEdit]

-----------------------------------------------------------------------------
(* The read models.                                                        *)

CreatedVoucher(packet, fields) ==
    [packet |-> packet, status |-> "needs-review", fields |-> fields]

CreatedReview(fields) ==
    [status     |-> "needs-review",
     suggestion |-> DeterministicSuggestion(fields),
     blocked    |-> Blocking(fields)]

RefreshedVoucher(voucher, extraction) ==
    [voucher EXCEPT !.fields = MergeExtractedFields(voucher.fields, extraction)]

\* Mutant of RefreshedReview: the prior blockedReason is kept.
RefreshedSuggestionOnly(review, fields) ==
    [review EXCEPT !.suggestion = DeterministicSuggestion(fields)]

RefreshedReview(review, fields) ==
    [review EXCEPT !.suggestion = DeterministicSuggestion(fields),
                   !.blocked    = Blocking(fields)]

StatusForAction(action) ==
    CASE action = "approve"          -> "approved"
      [] action = "reject"           -> "rejected"
      [] action = "book-without-vat" -> "booked-without-vat"

\* Mutant of PostingSuggestion: the reviewer's patch replaces the suggestion.
PatchAsSuggestion(review, action, edit) ==
    IF action = "reject" \/ edit = NoEdit THEN review.suggestion ELSE edit

\* An edit is ignored when the review is rejected.
PostingSuggestion(review, action, edit) ==
    IF action = "reject" \/ edit = NoEdit
    THEN review.suggestion
    ELSE [review.suggestion EXCEPT !.edit = edit]

\* Normal mode refuses to approve a review that still carries a blockedReason.
ReviewBlocked(review, action, enforce) ==
    enforce /\ action = "approve" /\ review.blocked

DecidedReview(review, action, edit) ==
    [review EXCEPT !.status     = StatusForAction(action),
                   !.suggestion = PostingSuggestion(review, action, edit)]

DecidedVoucher(voucher, action) ==
    [voucher EXCEPT !.status = StatusForAction(action)]

-----------------------------------------------------------------------------
(* The planned events.                                                     *)

CreateEvents(e, v, packet, fields) ==
    << [type |-> "EvidenceReceived", evidence |-> e],
       [type |-> "FieldsExtracted", voucher |-> v, fields |-> fields],
       [type |-> "VoucherCreated", voucher |-> v, packet |-> packet, fields |-> fields],
       [type |-> "SuggestionGenerated", voucher |-> v,
        suggestion |-> DeterministicSuggestion(fields)] >>

RelinkEvent(v, packet) ==
    [type |-> "EvidenceRelinked", voucher |-> v, packet |-> packet]

RefreshEvents(v, fields) ==
    << [type |-> "ExtractionRefreshed", voucher |-> v, fields |-> fields],
       [type |-> "SuggestionGenerated", voucher |-> v,
        suggestion |-> DeterministicSuggestion(fields)] >>

\* ReviewApproved, ReviewRejected or ReviewBookedWithoutVat: one type and its action.
DecisionEvent(v, action) ==
    [type |-> "ReviewDecided", voucher |-> v, action |-> action]

PostingEvent(v, voucher, review, action, edit) ==
    [type       |-> "PostedToLedger",
     voucher    |-> v,
     action     |-> action,
     suggestion |-> PostingSuggestion(review, action, edit),
     fields     |-> voucher.fields]

\* Mutant of DecisionEvents: a rejection is posted like any other decision.
RejectionPosted(v, voucher, review, action, edit) ==
    << DecisionEvent(v, action), PostingEvent(v, voucher, review, action, edit) >>

DecisionEvents(v, voucher, review, action, edit) ==
    IF action = "reject"
    THEN << DecisionEvent(v, action) >>
    ELSE << DecisionEvent(v, action), PostingEvent(v, voucher, review, action, edit) >>

ImportedEvents(planned) ==
    [i \in 1..Len(planned) |-> [type |-> "VoucherImported", aggregate |-> planned[i]]]

SimulationEvent == [type |-> "SimulationExecuted"]

-----------------------------------------------------------------------------
(* Reading the log: what it says of the read models beside it.             *)

IsPosting(event, v) == event.type = "PostedToLedger" /\ event.voucher = v

IsDecision(event, v) == event.type = "ReviewDecided" /\ event.voucher = v

IsImport(event) == event.type = "VoucherImported"

Postings(log, v) == {i \in DOMAIN log : IsPosting(log[i], v)}

Imported(log) == {log[i].aggregate : i \in {j \in DOMAIN log : IsImport(log[j])}}

\* The last event of the log at which Test holds of the event, 0 if none.
LastEvent(log, Test(_)) ==
    LET hits == {i \in DOMAIN log : Test(log[i])}
    IN  IF hits = {} THEN 0 ELSE CHOOSE i \in hits : \A j \in hits : j <= i

\* No voucher is posted twice and no review is decided twice.
DecidesOnce(log, V) ==
    \A v \in V : \A i, j \in DOMAIN log :
        \/ IsPosting(log[i], v) /\ IsPosting(log[j], v)
        \/ IsDecision(log[i], v) /\ IsDecision(log[j], v)
        => i = j

\* A review is open exactly when no decision of it is logged, its status is the
\* one of its decision, and the postings are exactly the events right behind the
\* decisions other than rejections.
DecisionsExplained(log, reviewRows) ==
    \A v \in DOMAIN reviewRows :
        /\ reviewRows[v].status = "needs-review"
              <=> \A i \in DOMAIN log : ~ IsDecision(log[i], v)
        /\ \A i \in DOMAIN log : IsDecision(log[i], v) =>
              /\ reviewRows[v].status = StatusForAction(log[i].action)
              /\ log[i].action # "reject" =>
                    /\ i + 1 \in DOMAIN log
                    /\ IsPosting(log[i + 1], v)
                    /\ log[i + 1].action = log[i].action
        /\ \A i \in Postings(log, v) :
              /\ i - 1 \in DOMAIN log
              /\ IsDecision(log[i - 1], v)
              /\ log[i - 1].action # "reject"

ImportsOnce(log) ==
    \A i, j \in DOMAIN log :
        IsImport(log[i]) /\ IsImport(log[j]) /\ log[i].aggregate = log[j].aggregate => i = j

\* The packet of each voucher in V is the one of its last relink or of its
\* creation, its fields those of its last refresh or of its creation.
VouchersExplained(log, voucherRows, V) ==
    \A v \in V :
        LET SetsPacket(ev) == ev.type \in {"VoucherCreated", "EvidenceRelinked"} /\ ev.voucher = v
            SetsFields(ev) == ev.type \in {"VoucherCreated", "ExtractionRefreshed"} /\ ev.voucher = v
        IN  /\ voucherRows[v].packet = log[LastEvent(log, SetsPacket)].packet
            /\ voucherRows[v].fields = log[LastEvent(log, SetsFields)].fields

\* The suggestion of an open review is the one the log generated last.
SuggestionsExplained(log, reviewRows) ==
    \A v \in DOMAIN reviewRows :
        LET Generates(ev) == ev.type = "SuggestionGenerated" /\ ev.voucher = v
        IN  reviewRows[v].status = "needs-review"
                => reviewRows[v].suggestion = log[LastEvent(log, Generates)].suggestion

\* A posting of a voucher in V used the suggestion its review shows and the
\* fields its voucher shows.
PostingsShown(log, voucherRows, reviewRows, V) ==
    \A v \in V : \A i \in Postings(log, v) :
        /\ reviewRows[v].suggestion = log[i].suggestion
        /\ voucherRows[v].fields = log[i].fields

\* The orders in which a file can list the members of a set.
Orders(S) ==
    {s \in [1..Cardinality(S) -> S] : \A i, j \in DOMAIN s : s[i] = s[j] => i = j}

=============================================================================
