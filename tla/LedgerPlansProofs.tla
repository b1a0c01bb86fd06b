------------------------- MODULE LedgerPlansProofs -------------------------
(***************************************************************************)
(* Facts about the planners and about logs that the proofs of both stores  *)
(* cite: the types of what is planned, and what an append changes in the   *)
(* log's account of decisions, postings and imports.                       *)
(***************************************************************************)
EXTENDS LedgerPlans, TLAPS, SequenceTheorems, FiniteSetTheorems

-----------------------------------------------------------------------------
(* Sequences.                                                              *)

\* A row appended to a map.
LEMMA AppendRow ==
    ASSUME NEW S, NEW s \in Seq(S), NEW x \in S
    PROVE  /\ Append(s, x) \in Seq(S)
           /\ Len(s) \in Nat /\ Len(Append(s, x)) = Len(s) + 1
           /\ DOMAIN s = 1..Len(s)
           /\ DOMAIN Append(s, x) = 1..(Len(s) + 1)
           /\ \A i \in 1..Len(s) : Append(s, x)[i] = s[i]
           /\ Append(s, x)[Len(s) + 1] = x
  OBVIOUS

\* A row of a map replaced by another one.
LEMMA UpdateRow ==
    ASSUME NEW S, NEW s \in Seq(S), NEW v \in DOMAIN s, NEW x \in S
    PROVE  /\ [s EXCEPT ![v] = x] \in Seq(S)
           /\ Len([s EXCEPT ![v] = x]) = Len(s)
           /\ DOMAIN [s EXCEPT ![v] = x] = DOMAIN s
           /\ [s EXCEPT ![v] = x][v] = x
           /\ \A i \in DOMAIN s \ {v} : [s EXCEPT ![v] = x][i] = s[i]
<1>1. DOMAIN s = 1..Len(s)
  BY LenProperties
<1> QED
  BY <1>1, ExceptSeq

\* One event behind a log.
LEMMA AppendOne ==
    ASSUME NEW E, NEW event \in E, NEW log \in Seq(E)
    PROVE  /\ Append(log, event) = log \o <<event>>
           /\ <<event>> \in Seq(E)
  OBVIOUS

-----------------------------------------------------------------------------
(* The planners have the types the stores rely on.                         *)

\* The merge of an extraction into a voucher's fields has the fields' type.
LEMMA MergedFields ==
    ASSUME NEW fields \in Fields, NEW extraction \in Extractions
    PROVE  MergeExtractedFields(fields, extraction) \in Fields
<1>1. PICK K \in SUBSET Keys : extraction \in [K -> Values \cup {Missing}]
  BY DEF Extractions
<1> QED
  BY <1>1 DEF MergeExtractedFields, Fields

\* The rows createEvidence adds.
LEMMA CreatedRows ==
    ASSUME NEW p \in Nat, NEW fields \in Fields
    PROVE  /\ CreatedVoucher(p, fields) \in Vouchers
           /\ CreatedReview(fields) \in Reviews
  BY DEF CreatedVoucher, CreatedReview, Vouchers, Reviews, Suggestions, Statuses,
         DeterministicSuggestion, Blocking

\* The rows an extraction refresh writes back.
LEMMA RefreshedRows ==
    ASSUME NEW row \in Vouchers, NEW extraction \in Extractions, NEW review \in Reviews
    PROVE  /\ RefreshedVoucher(row, extraction) \in Vouchers
           /\ RefreshedReview(review, RefreshedVoucher(row, extraction).fields) \in Reviews
<1> DEFINE fields == MergeExtractedFields(row.fields, extraction)
<1>1. fields \in Fields
  BY MergedFields DEF Vouchers
<1> HIDE DEF fields
<1>2. RefreshedVoucher(row, extraction) = [row EXCEPT !.fields = fields]
  BY DEF RefreshedVoucher, fields
<1>3. /\ RefreshedVoucher(row, extraction) \in Vouchers
      /\ RefreshedVoucher(row, extraction).fields = fields
  BY <1>1, <1>2 DEF Vouchers
<1>4. RefreshedReview(review, fields) \in Reviews
  BY <1>1 DEF RefreshedReview, Reviews, Suggestions, DeterministicSuggestion, Blocking
<1> QED
  BY <1>3, <1>4

\* The rows a decision writes; the status it gives is never the open one.
LEMMA DecidedRows ==
    ASSUME NEW row \in Vouchers, NEW review \in Reviews,
           NEW action \in Actions, NEW edit \in Edits \cup {NoEdit}
    PROVE  /\ StatusForAction(action) \in Statuses \ {"needs-review"}
           /\ PostingSuggestion(review, action, edit) \in Suggestions
           /\ DecidedVoucher(row, action) \in Vouchers
           /\ DecidedReview(review, action, edit) \in Reviews
<1>1. StatusForAction(action) \in Statuses \ {"needs-review"}
  BY DEF StatusForAction, Actions, Statuses
<1>2. PostingSuggestion(review, action, edit) \in Suggestions
  BY DEF PostingSuggestion, Reviews, Suggestions
<1> QED
  BY <1>1, <1>2 DEF DecidedVoucher, DecidedReview, Vouchers, Reviews

\* The events of a create, a refresh, a compose and a simulation.
LEMMA PlannedEvents ==
    ASSUME NEW e \in Nat, NEW v \in Nat, NEW p \in Nat, NEW fields \in Fields
    PROVE  /\ CreateEvents(e, v, p, fields) \in Seq(Events)
           /\ RefreshEvents(v, fields) \in Seq(Events)
           /\ RelinkEvent(v, p) \in Events
           /\ SimulationEvent \in Events
<1>1. DeterministicSuggestion(fields) \in Suggestions
  BY DEF DeterministicSuggestion, Suggestions
<1>2. /\ [type |-> "EvidenceReceived", evidence |-> e] \in Events
      /\ [type |-> "FieldsExtracted", voucher |-> v, fields |-> fields] \in Events
      /\ [type |-> "ExtractionRefreshed", voucher |-> v, fields |-> fields] \in Events
      /\ [type |-> "VoucherCreated", voucher |-> v, packet |-> p, fields |-> fields] \in Events
      /\ [type |-> "SuggestionGenerated", voucher |-> v,
          suggestion |-> DeterministicSuggestion(fields)] \in Events
  BY <1>1 DEF Events
<1>3. RelinkEvent(v, p) \in Events /\ SimulationEvent \in Events
  BY DEF RelinkEvent, SimulationEvent, Events
<1> QED
  BY <1>2, <1>3 DEF CreateEvents, RefreshEvents

\* The events of a decision.
LEMMA PlannedDecisionEvents ==
    ASSUME NEW v \in Nat, NEW row \in Vouchers, NEW review \in Reviews,
           NEW action \in Actions, NEW edit \in Edits \cup {NoEdit}
    PROVE  DecisionEvents(v, row, review, action, edit) \in Seq(Events)
<1>1. DecisionEvent(v, action) \in Events
  BY DEF DecisionEvent, Events
<1>2. PostingEvent(v, row, review, action, edit) \in Events
  BY DecidedRows DEF PostingEvent, Events, Vouchers
<1> QED
  BY <1>1, <1>2 DEF DecisionEvents

\* The events of an SIE import.
LEMMA PlannedImports ==
    ASSUME NEW file \in SUBSET SieIds, NEW planned \in Orders(file)
    PROVE  ImportedEvents(planned) \in Seq(Events)
<1> DEFINE n == Cardinality(file)
<1>1. n \in Nat
  BY SieIdsAssumption, FS_Subset, FS_CardinalityType
<1>2. planned \in [1..n -> file]
  BY DEF Orders
<1> HIDE DEF n
<1>3. planned \in Seq(file)
  BY <1>1, <1>2, SeqDef
<1>4. Len(planned) = n
  BY <1>1, <1>2, <1>3, LenProperties
<1>5. ASSUME NEW i \in 1..n
      PROVE  [type |-> "VoucherImported", aggregate |-> planned[i]] \in Events
  BY <1>2 DEF Events
<1>6. ImportedEvents(planned) \in [1..n -> Events]
  BY <1>4, <1>5 DEF ImportedEvents
<1> QED
  BY <1>1, <1>6, SeqDef

-----------------------------------------------------------------------------
(* What events say of decisions.                                           *)

\* The events of a decision: the decision itself and its posting.
Decides(event) == event.type \in {"ReviewDecided", "PostedToLedger"}

Quiet(new) == \A i \in 1..Len(new) : ~ Decides(new[i])

ImportFree(new) == \A i \in 1..Len(new) : ~ IsImport(new[i])

\* Only a decision's events decide anything.
LEMMA QuietEvents ==
    ASSUME NEW e, NEW v, NEW p, NEW fields, NEW planned
    PROVE  /\ \A i \in 1..Len(CreateEvents(e, v, p, fields)) :
                  ~ Decides(CreateEvents(e, v, p, fields)[i])
           /\ \A i \in 1..Len(RefreshEvents(v, fields)) : ~ Decides(RefreshEvents(v, fields)[i])
           /\ ~ Decides(RelinkEvent(v, p)) /\ ~ Decides(SimulationEvent)
<1>1. \A i \in 1..4 : ~ Decides(CreateEvents(e, v, p, fields)[i])
  BY DEF CreateEvents, Decides
<1>2. \A i \in 1..2 : ~ Decides(RefreshEvents(v, fields)[i])
  BY DEF RefreshEvents, Decides
<1>3. Len(CreateEvents(e, v, p, fields)) = 4 /\ Len(RefreshEvents(v, fields)) = 2
  BY DEF CreateEvents, RefreshEvents
<1> QED
  BY <1>1, <1>2, <1>3 DEF RelinkEvent, SimulationEvent, Decides

\* Nothing but an import imports.
LEMMA ImportFreeEvents ==
    ASSUME NEW e, NEW v, NEW p, NEW fields, NEW row, NEW review, NEW action, NEW edit
    PROVE  /\ ImportFree(CreateEvents(e, v, p, fields))
           /\ ImportFree(RefreshEvents(v, fields))
           /\ ImportFree(DecisionEvents(v, row, review, action, edit))
           /\ ~ IsImport(RelinkEvent(v, p)) /\ ~ IsImport(SimulationEvent)
<1>1. /\ \A i \in 1..4 : ~ IsImport(CreateEvents(e, v, p, fields)[i])
      /\ Len(CreateEvents(e, v, p, fields)) = 4
  BY DEF CreateEvents, IsImport
<1>2. /\ \A i \in 1..2 : ~ IsImport(RefreshEvents(v, fields)[i])
      /\ Len(RefreshEvents(v, fields)) = 2
  BY DEF RefreshEvents, IsImport
<1>3. ImportFree(DecisionEvents(v, row, review, action, edit))
  BY DEF ImportFree, DecisionEvents, DecisionEvent, PostingEvent, IsImport
<1> QED
  BY <1>1, <1>2, <1>3 DEF ImportFree, RelinkEvent, SimulationEvent, IsImport

\* Logs without an event, and with one.
LEMMA ShortLogs ==
    /\ << >> \in Seq(Events) /\ Quiet(<< >>) /\ ImportFree(<< >>)
    /\ \A log \in Seq(Events) : log \o << >> = log
    /\ \A event \in Events :
          /\ << event >> \in Seq(Events)
          /\ ~ Decides(event) => Quiet(<< event >>)
          /\ ~ IsImport(event) => ImportFree(<< event >>)
          /\ \A log \in Seq(Events) : Append(log, event) = log \o << event >>
<1>1. << >> \in Seq(Events) /\ \A log \in Seq(Events) : log \o << >> = log
  BY ConcatEmptySeq, EmptySeq
<1>2. Quiet(<< >>) /\ ImportFree(<< >>)
  BY DEF Quiet, ImportFree
<1>3. ASSUME NEW event \in Events
      PROVE  /\ << event >> \in Seq(Events)
             /\ Len(<< event >>) = 1 /\ << event >>[1] = event
             /\ \A log \in Seq(Events) : Append(log, event) = log \o << event >>
  BY AppendOne
<1>4. ASSUME NEW event \in Events
      PROVE  /\ ~ Decides(event) => Quiet(<< event >>)
             /\ ~ IsImport(event) => ImportFree(<< event >>)
  <2> DEFINE one == << event >>
  <2>1. Len(one) = 1 /\ one[1] = event
    OBVIOUS
  <2> HIDE DEF one
  <2>2. \A i \in 1..Len(one) : one[i] = event
    BY <2>1
  <2>3. /\ ~ Decides(event) => Quiet(one)
        /\ ~ IsImport(event) => ImportFree(one)
    BY <2>2 DEF Quiet, ImportFree
  <2> QED
    BY <2>3 DEF one
<1> QED
  BY <1>1, <1>2, <1>3, <1>4

\* A posting or a decision of a voucher decides it.
LEMMA DecidingEvents ==
    ASSUME NEW event, NEW v, IsPosting(event, v) \/ IsDecision(event, v)
    PROVE  Decides(event) /\ event.voucher = v
  BY DEF IsPosting, IsDecision, Decides

\* Two logs that decide no voucher in common and each of them once.
LEMMA ConcatDecidesOnce ==
    ASSUME NEW E, NEW s \in Seq(E), NEW t \in Seq(E),
           DecidesOnce(s, Nat), DecidesOnce(t, Nat),
           \A i \in 1..Len(s), j \in 1..Len(t) :
               Decides(s[i]) /\ Decides(t[j]) => s[i].voucher # t[j].voucher
    PROVE  DecidesOnce(s \o t, Nat)
<1> DEFINE m == Len(s)
           n == Len(t)
           u == s \o t
<1>1. /\ m \in Nat /\ n \in Nat
      /\ DOMAIN s = 1..m /\ DOMAIN t = 1..n
      /\ DOMAIN u = 1..(m + n)
      /\ \A i \in 1..(m + n) : u[i] = IF i <= m THEN s[i] ELSE t[i - m]
  BY ConcatProperties, LenProperties
<1> HIDE DEF m, n, u
<1> DEFINE Same(v, a, b) == \/ IsPosting(a, v) /\ IsPosting(b, v)
                            \/ IsDecision(a, v) /\ IsDecision(b, v)
<1>2. ASSUME NEW v, NEW a, NEW b, Same(v, a, b)
      PROVE  Decides(a) /\ Decides(b) /\ a.voucher = b.voucher
  BY <1>2 DEF IsPosting, IsDecision, Decides
<1>3. \A v \in Nat : \A i, j \in 1..m : Same(v, s[i], s[j]) => i = j
  BY <1>1 DEF DecidesOnce
<1>4. \A v \in Nat : \A i, j \in 1..n : Same(v, t[i], t[j]) => i = j
  BY <1>1 DEF DecidesOnce
<1>5. ASSUME NEW i \in 1..m, NEW j \in 1..n, Decides(s[i]), Decides(t[j])
      PROVE  s[i].voucher # t[j].voucher
  BY <1>5 DEF m, n
<1> HIDE DEF Same
<1>6. ASSUME NEW v \in Nat, NEW i \in 1..m, NEW j \in 1..n
      PROVE  ~ Same(v, s[i], t[j]) /\ ~ Same(v, t[j], s[i])
  <2>1. ASSUME Same(v, s[i], t[j]) PROVE FALSE
    BY <1>2, <1>5, <2>1
  <2>2. ASSUME Same(v, t[j], s[i]) PROVE FALSE
    BY <1>2, <1>5, <2>2
  <2> QED
    BY <2>1, <2>2
<1>7. ASSUME NEW v \in Nat, NEW i \in 1..(m + n), NEW j \in 1..(m + n), Same(v, u[i], u[j])
      PROVE  i = j
  <2>1. CASE i <= m /\ j <= m
    BY <1>1, <1>3, <1>7, <2>1
  <2>2. CASE i <= m /\ j > m
    <3>1. i \in 1..m /\ j - m \in 1..n
      BY <1>1, <2>2
    <3> QED
      BY <1>1, <1>7, <1>6, <2>2, <3>1
  <2>3. CASE i > m /\ j <= m
    <3>1. j \in 1..m /\ i - m \in 1..n
      BY <1>1, <2>3
    <3> QED
      BY <1>1, <1>7, <1>6, <2>3, <3>1
  <2>4. CASE i > m /\ j > m
    <3>1. i - m \in 1..n /\ j - m \in 1..n
      BY <1>1, <2>4
    <3>2. Same(v, t[i - m], t[j - m])
      BY <1>1, <1>7, <2>4
    <3>3. i - m = j - m
      BY <1>4, <3>1, <3>2
    <3> QED
      BY <1>1, <3>3
  <2> QED
    BY <1>1, <2>1, <2>2, <2>3, <2>4
<1> QED
  BY <1>1, <1>7 DEF DecidesOnce, Same, u

-----------------------------------------------------------------------------
(* What an append changes of the log's account of one voucher.             *)

\* The places of a log and of what is appended to it.
LEMMA ConcatPlaces ==
    ASSUME NEW E, NEW s \in Seq(E), NEW t \in Seq(E)
    PROVE  /\ Len(s) \in Nat /\ Len(t) \in Nat
           /\ DOMAIN s = 1..Len(s) /\ DOMAIN t = 1..Len(t)
           /\ s \o t \in Seq(E)
           /\ Len(s \o t) = Len(s) + Len(t)
           /\ DOMAIN (s \o t) = 1..(Len(s) + Len(t))
           /\ \A i \in 1..Len(s) : i \in DOMAIN (s \o t) /\ (s \o t)[i] = s[i]
           /\ \A i \in 1..Len(t) : Len(s) + i \in DOMAIN (s \o t) /\ (s \o t)[Len(s) + i] = t[i]
           /\ \A i \in DOMAIN (s \o t) :
                 i \in 1..Len(s) \/ (i - Len(s) \in 1..Len(t) /\ (s \o t)[i] = t[i - Len(s)] /\ i > Len(s))
<1> DEFINE m == Len(s)
           n == Len(t)
           u == s \o t
<1>1. /\ m \in Nat /\ n \in Nat
      /\ DOMAIN s = 1..m /\ DOMAIN t = 1..n
      /\ u \in Seq(E) /\ Len(u) = m + n /\ DOMAIN u = 1..(m + n)
      /\ \A i \in 1..(m + n) : u[i] = IF i <= m THEN s[i] ELSE t[i - m]
  BY ConcatProperties, LenProperties
<1> HIDE DEF m, n, u
<1>2. \A i \in 1..m : i \in 1..(m + n) /\ u[i] = s[i]
  BY <1>1
<1>3. \A i \in 1..n : m + i \in 1..(m + n) /\ u[m + i] = t[i]
  <2> TAKE i \in 1..n
  <2>1. m + i \in 1..(m + n) /\ m + i > m /\ (m + i) - m = i
    BY <1>1
  <2> QED
    BY <1>1, <2>1
<1>4. \A i \in 1..(m + n) : i \in 1..m \/ (i - m \in 1..n /\ u[i] = t[i - m] /\ i > m)
  BY <1>1
<1> QED
  BY <1>1, <1>2, <1>3, <1>4 DEF m, n, u

\* Events that do not decide v.
Silent(new, v) == \A i \in 1..Len(new) : ~ IsPosting(new[i], v) /\ ~ IsDecision(new[i], v)

\* Events that decide nothing decide no given voucher.
LEMMA QuietIsSilent ==
    ASSUME NEW new, NEW v, Quiet(new)
    PROVE  Silent(new, v)
  BY DecidingEvents DEF Quiet, Silent

\* What DecisionsExplained says of voucher v with the given review status.
Explained(log, status, v) ==
    /\ status = "needs-review" <=> \A i \in DOMAIN log : ~ IsDecision(log[i], v)
    /\ \A i \in DOMAIN log : IsDecision(log[i], v) =>
          /\ status = StatusForAction(log[i].action)
          /\ log[i].action # "reject" =>
                /\ i + 1 \in DOMAIN log
                /\ IsPosting(log[i + 1], v)
                /\ log[i + 1].action = log[i].action
    /\ \A i \in Postings(log, v) :
          /\ i - 1 \in DOMAIN log
          /\ IsDecision(log[i - 1], v)
          /\ log[i - 1].action # "reject"

\* DecisionsExplained, voucher by voucher.
LEMMA ExplainedEach ==
    ASSUME NEW log, NEW rows
    PROVE  DecisionsExplained(log, rows)
              <=> \A v \in DOMAIN rows : Explained(log, rows[v].status, v)
  BY DEF DecisionsExplained, Explained

\* An open review has no posting either.
LEMMA OpenHasNoPosting ==
    ASSUME NEW log, NEW v, Explained(log, "needs-review", v)
    PROVE  Postings(log, v) = {} /\ \A i \in DOMAIN log : ~ IsDecision(log[i], v)
  BY DEF Explained

\* A voucher of which the log says nothing is open.
LEMMA UnknownIsOpen ==
    ASSUME NEW log, NEW v, \A i \in DOMAIN log : ~ IsPosting(log[i], v) /\ ~ IsDecision(log[i], v)
    PROVE  Explained(log, "needs-review", v)
  BY DEF Explained, Postings

\* The postings are those of both parts.
LEMMA SilentPostings ==
    ASSUME NEW E, NEW s \in Seq(E), NEW t \in Seq(E), NEW v, Silent(t, v)
    PROVE  Postings(s \o t, v) = Postings(s, v)
<1> DEFINE m == Len(s)
           u == s \o t
<1>1. /\ DOMAIN s = 1..m
      /\ \A i \in 1..m : i \in DOMAIN u /\ u[i] = s[i]
      /\ \A i \in DOMAIN u : i \in 1..m \/ (i - m \in 1..Len(t) /\ u[i] = t[i - m] /\ i > m)
  BY ConcatPlaces
<1> HIDE DEF m, u
<1>2. \A i \in DOMAIN u : IsPosting(u[i], v) => i \in 1..m
  BY <1>1 DEF Silent
<1>3. \A i : i \in Postings(u, v) <=> i \in Postings(s, v)
  BY <1>1, <1>2 DEF Postings
<1> QED
  BY <1>3 DEF u

\* What does not decide v leaves the account of v as it is.
LEMMA SilentExplained ==
    ASSUME NEW E, NEW s \in Seq(E), NEW t \in Seq(E), NEW v, NEW status,
           Explained(s, status, v), Silent(t, v)
    PROVE  Explained(s \o t, status, v)
<1> DEFINE m == Len(s)
           u == s \o t
<1>1. /\ DOMAIN s = 1..m /\ m \in Nat
      /\ \A i \in 1..m : i \in DOMAIN u /\ u[i] = s[i]
      /\ \A i \in DOMAIN u : i \in 1..m \/ (i - m \in 1..Len(t) /\ u[i] = t[i - m] /\ i > m)
  BY ConcatPlaces
<1>2. Postings(u, v) = Postings(s, v)
  BY SilentPostings
<1> HIDE DEF m, u
<1>3. \A i \in DOMAIN u : IsDecision(u[i], v) => i \in 1..m
  BY <1>1 DEF Silent
<1>4. status = "needs-review" <=> \A i \in DOMAIN u : ~ IsDecision(u[i], v)
  BY <1>1, <1>3 DEF Explained
<1>5. ASSUME NEW i \in DOMAIN u, IsDecision(u[i], v)
      PROVE  /\ status = StatusForAction(u[i].action)
             /\ u[i].action # "reject" =>
                   /\ i + 1 \in DOMAIN u
                   /\ IsPosting(u[i + 1], v)
                   /\ u[i + 1].action = u[i].action
  <2>1. i \in DOMAIN s /\ u[i] = s[i]
    BY <1>1, <1>3, <1>5
  <2>2. CASE s[i].action # "reject"
    <3>1. i + 1 \in DOMAIN s /\ IsPosting(s[i + 1], v) /\ s[i + 1].action = s[i].action
      BY <1>5, <2>1, <2>2 DEF Explained
    <3>2. i + 1 \in DOMAIN u /\ u[i + 1] = s[i + 1]
      BY <1>1, <3>1
    <3> QED
      BY <1>5, <2>1, <3>1, <3>2 DEF Explained
  <2> QED
    BY <1>5, <2>1, <2>2 DEF Explained
<1>6. ASSUME NEW i \in Postings(u, v)
      PROVE  i - 1 \in DOMAIN u /\ IsDecision(u[i - 1], v) /\ u[i - 1].action # "reject"
  <2>1. i - 1 \in DOMAIN s /\ IsDecision(s[i - 1], v) /\ s[i - 1].action # "reject"
    BY <1>2, <1>6 DEF Explained
  <2> QED
    BY <1>1, <2>1
<1>7. Explained(u, status, v)
  BY <1>4, <1>5, <1>6 DEF Explained
<1> QED
  BY <1>7 DEF u

\* A decision of an open review and its posting are neighbours in the log, and
\* the only ones of their voucher.
LEMMA DecisionAppended ==
    ASSUME NEW E, NEW s \in Seq(E), NEW v, NEW row, NEW review, NEW action \in Actions, NEW edit,
           DecisionEvents(v, row, review, action, edit) \in Seq(E),
           Explained(s, "needs-review", v)
    PROVE  LET u == s \o DecisionEvents(v, row, review, action, edit)
           IN  /\ Explained(u, StatusForAction(action), v)
               /\ Postings(u, v) = IF action = "reject" THEN {} ELSE {Len(s) + 2}
<1> DEFINE t == DecisionEvents(v, row, review, action, edit)
           m == Len(s)
           n == Len(t)
           u == s \o t
<1>1. /\ DOMAIN s = 1..m /\ m \in Nat
      /\ DOMAIN u = 1..(m + n)
      /\ \A i \in 1..m : i \in DOMAIN u /\ u[i] = s[i]
      /\ \A i \in 1..n : m + i \in DOMAIN u /\ u[m + i] = t[i]
      /\ \A i \in DOMAIN u : i \in 1..m \/ (i - m \in 1..n /\ u[i] = t[i - m] /\ i > m)
  BY ConcatPlaces
<1>2. /\ n = IF action = "reject" THEN 1 ELSE 2
      /\ IsDecision(t[1], v) /\ ~ IsPosting(t[1], v) /\ t[1].action = action
  BY DEF DecisionEvents, DecisionEvent, IsDecision, IsPosting
<1>3. action # "reject" => IsPosting(t[2], v) /\ ~ IsDecision(t[2], v) /\ t[2].action = action
  BY DEF DecisionEvents, PostingEvent, IsDecision, IsPosting
<1>4. StatusForAction(action) # "needs-review"
  BY DEF StatusForAction, Actions
<1>5. \A i \in 1..m : ~ IsDecision(s[i], v) /\ ~ IsPosting(s[i], v)
  BY <1>1, OpenHasNoPosting DEF Postings
<1> HIDE DEF m, n, t, u
<1>6. \A i \in DOMAIN u : IsDecision(u[i], v) => i = m + 1
  <2> TAKE i \in DOMAIN u
  <2>1. CASE i \in 1..m
    BY <1>1, <1>5, <2>1
  <2>2. CASE i - m \in 1..n /\ u[i] = t[i - m]
    <3>1. i - m = 1 \/ (i - m = 2 /\ action # "reject")
      BY <1>1, <1>2, <2>2
    <3>2. i \in Int
      BY <1>1
    <3> QED
      BY <1>1, <1>3, <2>2, <3>1, <3>2
  <2> QED
    BY <1>1, <2>1, <2>2
<1>7. \A i \in DOMAIN u : IsPosting(u[i], v) => i = m + 2 /\ action # "reject"
  <2> TAKE i \in DOMAIN u
  <2>1. CASE i \in 1..m
    BY <1>1, <1>5, <2>1
  <2>2. CASE i - m \in 1..n /\ u[i] = t[i - m]
    <3>1. i - m = 1 \/ (i - m = 2 /\ action # "reject")
      BY <1>1, <1>2, <2>2
    <3>2. i \in Int
      BY <1>1
    <3> QED
      BY <1>1, <1>2, <2>2, <3>1, <3>2
  <2> QED
    BY <1>1, <2>1, <2>2
<1>8. m + 1 \in DOMAIN u /\ u[m + 1] = t[1]
  BY <1>1, <1>2
<1>9. action # "reject" => m + 2 \in DOMAIN u /\ u[m + 2] = t[2]
  BY <1>1, <1>2
<1>10. (m + 1) + 1 = m + 2 /\ (m + 2) - 1 = m + 1
  BY <1>1
<1>11. Postings(u, v) = IF action = "reject" THEN {} ELSE {m + 2}
  BY <1>3, <1>7, <1>9 DEF Postings
<1>12. Explained(u, StatusForAction(action), v)
  BY <1>2, <1>3, <1>4, <1>6, <1>8, <1>9, <1>10, <1>11 DEF Explained
<1> QED
  BY <1>11, <1>12 DEF u, t, m

\* The posting it caused, at its place of the log.
LEMMA DecisionPosted ==
    ASSUME NEW E, NEW s \in Seq(E), NEW v, NEW row, NEW review, NEW action \in Actions, NEW edit,
           DecisionEvents(v, row, review, action, edit) \in Seq(E),
           Explained(s, "needs-review", v)
    PROVE  /\ action = "reject" => Postings(s \o DecisionEvents(v, row, review, action, edit), v) = {}
           /\ action # "reject" =>
                Postings(s \o DecisionEvents(v, row, review, action, edit), v) = {Len(s) + 2}
<1> DEFINE posted == Postings(s \o DecisionEvents(v, row, review, action, edit), v)
<1>1. posted = IF action = "reject" THEN {} ELSE {Len(s) + 2}
  BY DecisionAppended
<1> QED
  BY <1>1

\* The events of a decision say nothing of another voucher.
LEMMA DecisionOfOne ==
    ASSUME NEW v, NEW row, NEW review, NEW action, NEW edit, NEW w, w # v
    PROVE  Silent(DecisionEvents(v, row, review, action, edit), w)
  BY DEF DecisionEvents, DecisionEvent, PostingEvent, IsDecision, IsPosting, Silent

-----------------------------------------------------------------------------
(* Imports.                                                                *)

\* An append of what was not imported yet imports nothing twice.
LEMMA ConcatImportsOnce ==
    ASSUME NEW E, NEW s \in Seq(E), NEW t \in Seq(E), ImportsOnce(s), ImportsOnce(t),
           \A j \in 1..Len(t) : IsImport(t[j]) => t[j].aggregate \notin Imported(s)
    PROVE  ImportsOnce(s \o t)
<1> DEFINE m == Len(s)
           n == Len(t)
           u == s \o t
<1>1. /\ DOMAIN s = 1..m /\ DOMAIN t = 1..n /\ m \in Nat
      /\ \A i \in 1..m : u[i] = s[i]
      /\ \A i \in DOMAIN u : i \in Int /\ (i \in 1..m \/ (i - m \in 1..n /\ u[i] = t[i - m] /\ i > m))
  BY ConcatPlaces
<1> HIDE DEF m, n, u
<1>2. ASSUME NEW i \in DOMAIN u, NEW j \in DOMAIN u, IsImport(u[i]), IsImport(u[j]),
             u[i].aggregate = u[j].aggregate
      PROVE  i = j
  <2>1. \A a \in 1..m : IsImport(s[a]) => s[a].aggregate \in Imported(s)
    BY <1>1 DEF Imported
  <2>2. \A b \in 1..n : IsImport(t[b]) => t[b].aggregate \notin Imported(s)
    BY DEF n
  <2>3. CASE i \in 1..m /\ j \in 1..m
    BY <1>1, <1>2, <2>3 DEF ImportsOnce
  <2>4. CASE i \in 1..m /\ j \notin 1..m
    BY <1>1, <1>2, <2>1, <2>2, <2>4
  <2>5. CASE i \notin 1..m /\ j \in 1..m
    BY <1>1, <1>2, <2>1, <2>2, <2>5
  <2>6. CASE i \notin 1..m /\ j \notin 1..m
    <3>1. i - m \in 1..n /\ j - m \in 1..n /\ u[i] = t[i - m] /\ u[j] = t[j - m]
      BY <1>1, <2>6
    <3>2. i - m = j - m
      BY <1>1, <1>2, <3>1 DEF ImportsOnce
    <3> QED
      BY <1>1, <3>2
  <2> QED
    BY <2>3, <2>4, <2>5, <2>6
<1>3. ImportsOnce(u)
  BY <1>2 DEF ImportsOnce
<1> QED
  BY <1>3 DEF u

\* Nothing that is planned for import has been imported, and it is planned once.
LEMMA PlannedImportsOnce ==
    ASSUME NEW E, NEW s \in Seq(E), NEW file \in SUBSET SieIds,
           NEW planned \in Orders(file \ Imported(s))
    PROVE  /\ ImportsOnce(ImportedEvents(planned))
           /\ \A j \in 1..Len(ImportedEvents(planned)) :
                  ImportedEvents(planned)[j].aggregate \notin Imported(s)
<1> DEFINE t == ImportedEvents(planned)
           left == file \ Imported(s)
           n == Cardinality(left)
<1>1. n \in Nat
  BY SieIdsAssumption, FS_Subset, FS_CardinalityType
<1>2. planned \in [1..n -> left] /\ \A i, j \in 1..n : planned[i] = planned[j] => i = j
  BY DEF Orders
<1> HIDE DEF n
<1>3. planned \in Seq(left) /\ Len(planned) = n
  <2>1. planned \in Seq(left)
    BY <1>1, <1>2, SeqDef
  <2> QED
    BY <1>1, <1>2, <2>1, LenProperties
<1>4. t \in Seq(Events)
  BY PlannedImports
<1>5. /\ DOMAIN t = 1..n /\ Len(t) = n
      /\ \A i \in 1..n : t[i].aggregate = planned[i]
  BY <1>3, <1>4, LenProperties DEF ImportedEvents
<1> HIDE DEF t
<1>6. ImportsOnce(t)
  BY <1>2, <1>5 DEF ImportsOnce
<1>7. \A j \in 1..Len(t) : t[j].aggregate \notin Imported(s)
  BY <1>2, <1>5
<1> QED
  BY <1>6, <1>7 DEF t

\* A log without imports imports once.
LEMMA ImportFreeOnce ==
    ASSUME NEW E, NEW t \in Seq(E), ImportFree(t)
    PROVE  ImportsOnce(t)
<1>1. DOMAIN t = 1..Len(t)
  BY LenProperties
<1> QED
  BY <1>1 DEF ImportFree, ImportsOnce

-----------------------------------------------------------------------------
(* What an append changes of the log's account of the rows.                *)

\* The columns of a voucher's rows that the log restores.
Columns == {"packet", "fields", "suggestion"}

\* The events that set a column of the rows of voucher v, and to what.
Sets(event, v, column) ==
    /\ \/ column = "packet" /\ event.type \in {"VoucherCreated", "EvidenceRelinked"}
       \/ column = "fields" /\ event.type \in {"VoucherCreated", "ExtractionRefreshed"}
       \/ column = "suggestion" /\ event.type = "SuggestionGenerated"
    /\ event.voucher = v

\* What the event set the column to.
Value(event, column) ==
    CASE column = "packet"     -> event.packet
      [] column = "fields"     -> event.fields
      [] column = "suggestion" -> event.suggestion

\* The log has a last event that sets the column, and it set this value.
Logged(log, v, column, value) ==
    \E i \in DOMAIN log :
        /\ Sets(log[i], v, column)
        /\ \A j \in DOMAIN log : Sets(log[j], v, column) => j <= i
        /\ value = Value(log[i], column)

\* What does not set the column leaves its value.
LEMMA LoggedStays ==
    ASSUME NEW E, NEW s \in Seq(E), NEW t \in Seq(E), NEW v, NEW column, NEW value,
           Logged(s, v, column, value), \A j \in 1..Len(t) : ~ Sets(t[j], v, column)
    PROVE  Logged(s \o t, v, column, value)
<1> DEFINE m == Len(s)
           u == s \o t
<1>1. /\ DOMAIN s = 1..m
      /\ \A i \in 1..m : i \in DOMAIN u /\ u[i] = s[i]
      /\ \A i \in DOMAIN u : i \in 1..m \/ (i - m \in 1..Len(t) /\ u[i] = t[i - m])
  BY ConcatPlaces
<1> HIDE DEF m, u
<1>2. \A j \in DOMAIN u : Sets(u[j], v, column) => j \in 1..m
  BY <1>1
<1>3. PICK i \in DOMAIN s :
          /\ Sets(s[i], v, column)
          /\ \A j \in DOMAIN s : Sets(s[j], v, column) => j <= i
          /\ value = Value(s[i], column)
  BY DEF Logged
<1>4. \A j \in DOMAIN u : Sets(u[j], v, column) => j <= i
  BY <1>1, <1>2, <1>3
<1>5. i \in DOMAIN u /\ u[i] = s[i]
  BY <1>1
<1>6. Logged(u, v, column, value)
  BY <1>3, <1>4, <1>5 DEF Logged
<1> QED
  BY <1>6 DEF u

\* The last of the appended events that set the column gives it its value.
LEMMA LoggedAnew ==
    ASSUME NEW E, NEW s \in Seq(E), NEW t \in Seq(E), NEW v, NEW column, NEW k \in 1..Len(t),
           Sets(t[k], v, column), \A j \in 1..Len(t) : Sets(t[j], v, column) => j <= k
    PROVE  Logged(s \o t, v, column, Value(t[k], column))
<1> DEFINE m == Len(s)
           n == Len(t)
           u == s \o t
<1>1. /\ DOMAIN s = 1..m /\ m \in Nat /\ n \in Nat
      /\ \A i \in 1..n : m + i \in DOMAIN u /\ u[m + i] = t[i]
      /\ \A i \in DOMAIN u : i \in 1..m \/ (i - m \in 1..n /\ u[i] = t[i - m])
      /\ DOMAIN u \subseteq Int
  BY ConcatPlaces
<1> HIDE DEF m, n, u
<1>2. ASSUME NEW j \in DOMAIN u, Sets(u[j], v, column) PROVE j <= m + k
  <2>1. CASE j \in 1..m
    BY <1>1, <2>1 DEF n
  <2>2. CASE j - m \in 1..n /\ u[j] = t[j - m]
    <3>1. j - m <= k
      BY <1>2, <2>2 DEF n
    <3> QED
      BY <1>1, <3>1 DEF n
  <2> QED
    BY <1>1, <2>1, <2>2
<1>3. m + k \in DOMAIN u /\ u[m + k] = t[k]
  BY <1>1 DEF n
<1>4. Logged(u, v, column, Value(t[k], column))
  BY <1>2, <1>3 DEF Logged
<1> QED
  BY <1>4 DEF u

\* The greatest place is the one LastEvent chooses.
LEMMA GreatestIsChosen ==
    ASSUME NEW n \in Nat, NEW hits \in SUBSET (1..n), NEW i \in hits, \A j \in hits : j <= i
    PROVE  (CHOOSE k \in hits : \A j \in hits : j <= k) = i
<1>1. \A k \in hits : (\A j \in hits : j <= k) => k = i
  OBVIOUS
<1> QED
  BY <1>1

\* Rows whose columns are logged are explained by the log.
LEMMA LoggedVouchers ==
    ASSUME NEW E, NEW log \in Seq(E), NEW rows, NEW V,
           \A v \in V : /\ Logged(log, v, "packet", rows[v].packet)
                        /\ Logged(log, v, "fields", rows[v].fields)
    PROVE  VouchersExplained(log, rows, V)
<1>1. DOMAIN log = 1..Len(log) /\ Len(log) \in Nat
  BY LenProperties
<1> SUFFICES ASSUME NEW v \in V
    PROVE  LET SetsPacket(ev) == ev.type \in {"VoucherCreated", "EvidenceRelinked"} /\ ev.voucher = v
               SetsFields(ev) == ev.type \in {"VoucherCreated", "ExtractionRefreshed"} /\ ev.voucher = v
           IN  /\ rows[v].packet = log[LastEvent(log, SetsPacket)].packet
               /\ rows[v].fields = log[LastEvent(log, SetsFields)].fields
  BY DEF VouchersExplained
<1> DEFINE packetHits == {i \in DOMAIN log :
               log[i].type \in {"VoucherCreated", "EvidenceRelinked"} /\ log[i].voucher = v}
           fieldHits == {i \in DOMAIN log :
               log[i].type \in {"VoucherCreated", "ExtractionRefreshed"} /\ log[i].voucher = v}
<1>2. PICK p \in packetHits : (\A j \in packetHits : j <= p) /\ rows[v].packet = log[p].packet
  BY DEF Logged, Sets, Value
<1>3. PICK f \in fieldHits : (\A j \in fieldHits : j <= f) /\ rows[v].fields = log[f].fields
  BY DEF Logged, Sets, Value
<1>4. (CHOOSE k \in packetHits : \A j \in packetHits : j <= k) = p
  BY <1>1, <1>2, GreatestIsChosen
<1>5. (CHOOSE k \in fieldHits : \A j \in fieldHits : j <= k) = f
  BY <1>1, <1>3, GreatestIsChosen
<1> QED
  BY <1>2, <1>3, <1>4, <1>5 DEF LastEvent

\* Suggestions of open reviews that are logged are explained by the log.
LEMMA LoggedSuggestions ==
    ASSUME NEW E, NEW log \in Seq(E), NEW reviewRows,
           \A v \in DOMAIN reviewRows : reviewRows[v].status = "needs-review" =>
               Logged(log, v, "suggestion", reviewRows[v].suggestion)
    PROVE  SuggestionsExplained(log, reviewRows)
<1>1. DOMAIN log = 1..Len(log) /\ Len(log) \in Nat
  BY LenProperties
<1> SUFFICES ASSUME NEW v \in DOMAIN reviewRows, reviewRows[v].status = "needs-review"
    PROVE  LET Generates(ev) == ev.type = "SuggestionGenerated" /\ ev.voucher = v
           IN  reviewRows[v].suggestion = log[LastEvent(log, Generates)].suggestion
  BY DEF SuggestionsExplained
<1> DEFINE hits == {i \in DOMAIN log : log[i].type = "SuggestionGenerated" /\ log[i].voucher = v}
<1>2. PICK p \in hits : (\A j \in hits : j <= p) /\ reviewRows[v].suggestion = log[p].suggestion
  BY DEF Logged, Sets, Value
<1>3. (CHOOSE k \in hits : \A j \in hits : j <= k) = p
  BY <1>1, <1>2, GreatestIsChosen
<1> QED
  BY <1>2, <1>3 DEF LastEvent

\* What the log says of voucher v is what its row and its review show: their
\* status is one, each column has the value set last, and a posting used the
\* suggestion and the fields that are shown.
RowFollows(log, v, row, review) ==
    /\ row.status = review.status
    /\ Logged(log, v, "packet", row.packet)
    /\ Logged(log, v, "fields", row.fields)
    /\ \A i \in Postings(log, v) :
          review.suggestion = log[i].suggestion /\ row.fields = log[i].fields

\* Events that say nothing of v.
Foreign(new, v) ==
    /\ Silent(new, v)
    /\ \A column \in Columns : \A j \in 1..Len(new) : ~ Sets(new[j], v, column)

\* An append that says nothing of v leaves its rows explained.
LEMMA RowUntouched ==
    ASSUME NEW E, NEW s \in Seq(E), NEW t \in Seq(E), NEW v, NEW row, NEW review,
           RowFollows(s, v, row, review), Foreign(t, v)
    PROVE  RowFollows(s \o t, v, row, review)
<1>1. Postings(s \o t, v) = Postings(s, v)
  BY SilentPostings DEF Foreign
<1>2. \A i \in Postings(s, v) : (s \o t)[i] = s[i]
  BY ConcatPlaces DEF Postings
<1>3. /\ Logged(s \o t, v, "packet", row.packet)
      /\ Logged(s \o t, v, "fields", row.fields)
  BY LoggedStays DEF RowFollows, Foreign, Columns
<1> QED
  BY <1>1, <1>2, <1>3 DEF RowFollows

\* The events of an operation are foreign to every voucher but its own.
LEMMA ForeignEvents ==
    ASSUME NEW v, NEW w, w # v
    PROVE  /\ \A e, p, fields : Foreign(CreateEvents(e, v, p, fields), w)
           /\ \A fields : Foreign(RefreshEvents(v, fields), w)
           /\ \A row, review, action, edit : Foreign(DecisionEvents(v, row, review, action, edit), w)
           /\ \A p : Foreign(<< RelinkEvent(v, p) >>, w)
<1>1. \A e, p, fields : Foreign(CreateEvents(e, v, p, fields), w)
  BY DEF CreateEvents, Foreign, Silent, Sets, IsPosting, IsDecision
<1>2. \A fields : Foreign(RefreshEvents(v, fields), w)
  BY DEF RefreshEvents, Foreign, Silent, Sets, IsPosting, IsDecision
<1>3. \A row, review, action, edit : Foreign(DecisionEvents(v, row, review, action, edit), w)
  BY DEF DecisionEvents, DecisionEvent, PostingEvent, Foreign, Silent, Sets, IsPosting, IsDecision
<1>4. \A p : Foreign(<< RelinkEvent(v, p) >>, w)
  BY DEF RelinkEvent, Foreign, Silent, Sets, IsPosting, IsDecision
<1> QED
  BY <1>1, <1>2, <1>3, <1>4

\* An event that is of no voucher says nothing of any.
LEMMA OwnerlessEvents ==
    ASSUME NEW v, NEW new,
           \A i \in 1..Len(new) : new[i].type \in {"VoucherImported", "SimulationExecuted", "OutsideEvent"}
    PROVE  Foreign(new, v)
  BY DEF Foreign, Silent, Sets, IsPosting, IsDecision

\* A voucher is born with what createEvidence logs of it.
LEMMA RowCreated ==
    ASSUME NEW E, NEW s \in Seq(E), NEW e, NEW v, NEW p, NEW fields,
           CreateEvents(e, v, p, fields) \in Seq(E),
           \A i \in DOMAIN s : ~ IsPosting(s[i], v)
    PROVE  LET u == s \o CreateEvents(e, v, p, fields)
           IN  /\ RowFollows(u, v, CreatedVoucher(p, fields), CreatedReview(fields))
               /\ Logged(u, v, "suggestion", DeterministicSuggestion(fields))
<1> DEFINE t == CreateEvents(e, v, p, fields)
           created == [type |-> "VoucherCreated", voucher |-> v, packet |-> p, fields |-> fields]
           generated == [type |-> "SuggestionGenerated", voucher |-> v,
                         suggestion |-> DeterministicSuggestion(fields)]
<1>1. /\ Len(t) = 4 /\ t[3] = created /\ t[4] = generated
      /\ t[1].type = "EvidenceReceived" /\ t[2].type = "FieldsExtracted"
  BY DEF CreateEvents
<1>2. /\ created.type = "VoucherCreated" /\ created.voucher = v
      /\ created.packet = p /\ created.fields = fields
      /\ generated.type = "SuggestionGenerated" /\ generated.voucher = v
      /\ generated.suggestion = DeterministicSuggestion(fields)
  OBVIOUS
<1> HIDE DEF t, created, generated
<1>3. t \in Seq(E)
  BY DEF t
<1>4. \A j \in 1..4 : j = 1 \/ j = 2 \/ j = 3 \/ j = 4
  OBVIOUS
<1>5. /\ Sets(t[3], v, "packet") /\ \A j \in 1..Len(t) : Sets(t[j], v, "packet") => j <= 3
      /\ Value(t[3], "packet") = p
  BY <1>1, <1>2, <1>4 DEF Sets, Value
<1>6. /\ Sets(t[3], v, "fields") /\ \A j \in 1..Len(t) : Sets(t[j], v, "fields") => j <= 3
      /\ Value(t[3], "fields") = fields
  BY <1>1, <1>2, <1>4 DEF Sets, Value
<1>7. /\ Sets(t[4], v, "suggestion") /\ \A j \in 1..Len(t) : Sets(t[j], v, "suggestion") => j <= 4
      /\ Value(t[4], "suggestion") = DeterministicSuggestion(fields)
  BY <1>1, <1>2, <1>4 DEF Sets, Value
<1>8. 3 \in 1..Len(t) /\ 4 \in 1..Len(t)
  BY <1>1
<1>9. Logged(s \o t, v, "packet", p) /\ Logged(s \o t, v, "fields", fields)
  BY <1>3, <1>5, <1>6, <1>8, LoggedAnew
<1>10. Logged(s \o t, v, "suggestion", DeterministicSuggestion(fields))
  BY <1>3, <1>7, <1>8, LoggedAnew
<1>11. Postings(s \o t, v) = {}
  <2>1. Silent(t, v)
    BY <1>1, <1>2, <1>4 DEF Silent, IsPosting, IsDecision
  <2> QED
    BY <1>3, <2>1, SilentPostings DEF Postings
<1> QED
  BY <1>9, <1>10, <1>11 DEF RowFollows, CreatedVoucher, CreatedReview, t

\* A relink gives the row its new packet.
LEMMA RowRelinked ==
    ASSUME NEW E, NEW s \in Seq(E), NEW v, NEW p \in Nat, NEW row \in Vouchers, NEW review,
           << RelinkEvent(v, p) >> \in Seq(E), RowFollows(s, v, row, review)
    PROVE  RowFollows(s \o << RelinkEvent(v, p) >>, v, [row EXCEPT !.packet = p], review)
<1> DEFINE t == << RelinkEvent(v, p) >>
           new == [row EXCEPT !.packet = p]
<1>1. /\ Len(t) = 1 /\ t[1].type = "EvidenceRelinked" /\ t[1].voucher = v /\ t[1].packet = p
  BY DEF RelinkEvent
<1>2. new.packet = p /\ new.status = row.status /\ new.fields = row.fields
  BY DEF Vouchers
<1> HIDE DEF t, new
<1>3. t \in Seq(E)
  BY DEF t
<1>4. \A j \in 1..Len(t) : j = 1
  BY <1>1
<1>5. Logged(s \o t, v, "packet", p)
  <2>1. /\ Sets(t[1], v, "packet") /\ \A j \in 1..Len(t) : Sets(t[j], v, "packet") => j <= 1
        /\ Value(t[1], "packet") = p
    BY <1>1, <1>4 DEF Sets, Value
  <2>2. 1 \in 1..Len(t)
    BY <1>1
  <2> QED
    BY <1>3, <2>1, <2>2, LoggedAnew
<1>6. Logged(s \o t, v, "fields", row.fields)
  <2>1. \A j \in 1..Len(t) : ~ Sets(t[j], v, "fields")
    BY <1>1, <1>4 DEF Sets
  <2> QED
    BY <1>3, <2>1, LoggedStays DEF RowFollows
<1>7. Silent(t, v)
  BY <1>1, <1>4 DEF Silent, IsPosting, IsDecision
<1>8. Postings(s \o t, v) = Postings(s, v)
  BY <1>3, <1>7, SilentPostings
<1>9. \A i \in Postings(s, v) : (s \o t)[i] = s[i]
  BY <1>3, ConcatPlaces DEF Postings
<1>10. RowFollows(s \o t, v, new, review)
  BY <1>2, <1>5, <1>6, <1>8, <1>9 DEF RowFollows
<1> QED
  BY <1>10 DEF t, new

\* A refresh gives the row of an open review its new fields.
LEMMA RowRefreshed ==
    ASSUME NEW E, NEW s \in Seq(E), NEW v, NEW fields \in Fields, NEW row \in Vouchers,
           NEW review \in Reviews, RefreshEvents(v, fields) \in Seq(E),
           RowFollows(s, v, row, review), Postings(s, v) = {}
    PROVE  RowFollows(s \o RefreshEvents(v, fields), v, [row EXCEPT !.fields = fields],
                      RefreshedReview(review, fields))
<1> DEFINE t == RefreshEvents(v, fields)
           new == [row EXCEPT !.fields = fields]
<1>1. /\ Len(t) = 2 /\ t[1].type = "ExtractionRefreshed" /\ t[1].voucher = v /\ t[1].fields = fields
      /\ t[2].type = "SuggestionGenerated"
  BY DEF RefreshEvents
<1>2. /\ new.fields = fields /\ new.status = row.status /\ new.packet = row.packet
      /\ RefreshedReview(review, fields).status = review.status
  BY DEF Vouchers, Reviews, RefreshedReview
<1> HIDE DEF t, new
<1>3. t \in Seq(E)
  BY DEF t
<1>4. \A j \in 1..Len(t) : j = 1 \/ j = 2
  BY <1>1
<1>5. Logged(s \o t, v, "fields", fields)
  <2>1. /\ Sets(t[1], v, "fields") /\ \A j \in 1..Len(t) : Sets(t[j], v, "fields") => j <= 1
        /\ Value(t[1], "fields") = fields
    BY <1>1, <1>4 DEF Sets, Value
  <2>2. 1 \in 1..Len(t)
    BY <1>1
  <2> QED
    BY <1>3, <2>1, <2>2, LoggedAnew
<1>6. Logged(s \o t, v, "packet", row.packet)
  <2>1. \A j \in 1..Len(t) : ~ Sets(t[j], v, "packet")
    BY <1>1, <1>4 DEF Sets
  <2> QED
    BY <1>3, <2>1, LoggedStays DEF RowFollows
<1>7. Silent(t, v)
  BY <1>1, <1>4 DEF Silent, IsPosting, IsDecision
<1>8. Postings(s \o t, v) = {}
  BY <1>3, <1>7, SilentPostings
<1>9. RowFollows(s \o t, v, new, RefreshedReview(review, fields))
  BY <1>2, <1>5, <1>6, <1>8 DEF RowFollows
<1> QED
  BY <1>9 DEF t, new

\* The suggestion a refresh logs.
LEMMA SuggestionRefreshed ==
    ASSUME NEW E, NEW s \in Seq(E), NEW v, NEW fields, RefreshEvents(v, fields) \in Seq(E)
    PROVE  Logged(s \o RefreshEvents(v, fields), v, "suggestion", DeterministicSuggestion(fields))
<1> DEFINE t == RefreshEvents(v, fields)
<1>1. /\ Len(t) = 2 /\ t[1].type = "ExtractionRefreshed"
      /\ t[2].type = "SuggestionGenerated" /\ t[2].voucher = v
      /\ t[2].suggestion = DeterministicSuggestion(fields)
  BY DEF RefreshEvents
<1> HIDE DEF t
<1>2. t \in Seq(E)
  BY DEF t
<1>3. /\ 2 \in 1..Len(t)
      /\ \A j \in 1..Len(t) : j <= 2
  BY <1>1
<1>4. Sets(t[2], v, "suggestion") /\ Value(t[2], "suggestion") = DeterministicSuggestion(fields)
  BY <1>1 DEF Sets, Value
<1>5. Logged(s \o t, v, "suggestion", DeterministicSuggestion(fields))
  BY <1>2, <1>3, <1>4, LoggedAnew
<1> QED
  BY <1>5 DEF t

\* A decision posts the suggestion and the fields it leaves in the rows.
LEMMA RowDecided ==
    ASSUME NEW E, NEW s \in Seq(E), NEW v, NEW row \in Vouchers, NEW review, NEW read \in Reviews,
           NEW action \in Actions, NEW edit, NEW decided,
           DecisionEvents(v, row, read, action, edit) \in Seq(E),
           RowFollows(s, v, row, review), Explained(s, "needs-review", v),
           decided.status = StatusForAction(action),
           decided.suggestion = PostingSuggestion(read, action, edit)
    PROVE  RowFollows(s \o DecisionEvents(v, row, read, action, edit), v,
                      DecidedVoucher(row, action), decided)
<1> DEFINE t == DecisionEvents(v, row, read, action, edit)
           m == Len(s)
           u == s \o t
<1>1. t \in Seq(E)
  OBVIOUS
<1>2. /\ m \in Nat /\ \A i \in 1..Len(t) : u[m + i] = t[i]
  BY <1>1, ConcatPlaces
<1>3. /\ action = "reject" => Postings(u, v) = {}
      /\ action # "reject" => Postings(u, v) = {m + 2}
  BY DecisionPosted
<1>4. action # "reject" => 2 \in 1..Len(t) /\ t[2] = PostingEvent(v, row, read, action, edit)
  BY DEF DecisionEvents
<1>5. \A j \in 1..Len(t) : t[j].type \in {"ReviewDecided", "PostedToLedger"}
  BY DEF DecisionEvents, DecisionEvent, PostingEvent
<1> HIDE DEF t, u, m
<1>6. \A column : \A j \in 1..Len(t) : ~ Sets(t[j], v, column)
  BY <1>5 DEF Sets
<1>7. Logged(u, v, "packet", row.packet) /\ Logged(u, v, "fields", row.fields)
  BY <1>1, <1>6, LoggedStays DEF RowFollows, u
<1>8. /\ DecidedVoucher(row, action).status = StatusForAction(action)
      /\ DecidedVoucher(row, action).packet = row.packet
      /\ DecidedVoucher(row, action).fields = row.fields
  BY DEF DecidedVoucher, Vouchers
<1>9. ASSUME NEW i \in Postings(u, v)
      PROVE  decided.suggestion = u[i].suggestion /\ row.fields = u[i].fields
  <2>1. action # "reject" /\ i = m + 2
    BY <1>3
  <2>2. 2 \in 1..Len(t)
    BY <1>4, <2>1
  <2>3. u[i] = t[2]
    BY <1>2, <2>1, <2>2
  <2> QED
    BY <1>4, <2>1, <2>3 DEF PostingEvent
<1>10. RowFollows(u, v, DecidedVoucher(row, action), decided)
  BY <1>7, <1>8, <1>9 DEF RowFollows
<1> QED
  BY <1>10 DEF u, t

=============================================================================
