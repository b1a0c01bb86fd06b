------------------------- MODULE MemoryLedgerStore -------------------------
(***************************************************************************)
(* The in-memory ledger store of demo mode and of the tests: its maps, its *)
(* append-only event array and the operations that change them.            *)
(*                                                                         *)
(* The store runs on the JavaScript event loop.  A method body with no     *)
(* await in it is one step.  Only updateEvidenceExtraction is two: it      *)
(* awaits getEvidenceContext, and other requests can run between the read  *)
(* of the voucher and the continuation that writes it back.                *)
(*                                                                         *)
(* Identifiers are creation indices: createId is random, and only the      *)
(* equality of identifiers matters.  Maps keep insertion order, which is   *)
(* index order here.  Evidence, voucher and review number n are born in    *)
(* the same createEvidence call.                                           *)
(***************************************************************************)
EXTENDS LedgerPlans

CONSTANTS Requests,            \* the requests that can be in flight at once
          Hashes,              \* the (sha256, sizeBytes) pairs of uploaded files
          NoHash,              \* a create without both of them
          EnforceBlockedReason,\* TRUE in normal mode, FALSE in demo mode
          MaxEvidence,         \* bound on evidence objects
          MaxPackets,          \* bound on packets
          MaxEvents            \* bound on the event log

ASSUME NoHashAssumption == NoHash \notin Hashes
ASSUME EnforceAssumption == EnforceBlockedReason \in BOOLEAN
ASSUME RequestsAssumption == IsFiniteSet(Requests)
ASSUME BoundsAssumption == MaxEvidence \in Nat /\ MaxPackets \in Nat /\ MaxEvents \in Nat

VARIABLES evidence,   \* evidence[e]: the hash the evidence row carries
          packetOf,   \* evidenceIdToPacketId
          stray,      \* evidenceIdToPacketId of an id no evidence has (0: none)
          packets,    \* packets[p]: its evidence, and packetIdToVoucherId (0: none)
          vouchers,   \* the voucher rows
          reviews,    \* the review rows, linked by voucherIdToReviewId
          events,     \* the append-only event array
          refresh     \* refresh[r]: what request r read before its await

vars == <<evidence, packetOf, stray, packets, vouchers, reviews, events, refresh>>

Idle == [voucher |-> 0]

Packets == [evidence : SUBSET Nat, voucher : Nat]
Suspended == [voucher : Nat \ {0}, row : Vouchers, extraction : Extractions]

\* The constructor creates one evidence object, with every field and no hash.
Init ==
    /\ evidence = <<NoHash>>
    /\ packetOf = <<1>>
    /\ stray = 0
    /\ packets = << [evidence |-> {1}, voucher |-> 1] >>
    /\ \E seed \in [Keys -> Values] :
        /\ vouchers = << CreatedVoucher(1, seed) >>
        /\ reviews = << CreatedReview(seed) >>
        /\ events = CreateEvents(1, 1, 1, seed)
    /\ refresh = [r \in Requests |-> Idle]

\* The requests that are not suspended in a refresh.
Free == {r \in Requests : refresh[r] = Idle}

-----------------------------------------------------------------------------
(* Links.                                                                  *)

\* The voucher getEvidenceContext resolves an evidence object to, 0 if none.
ContextVoucher(e) == packets[packetOf[e]].voucher

\* An id in a compose request that names no evidence: nothing refuses it.
Unknown == 0

\* The voucher a composed id leads to, 0 if none.
LinkedVoucher(e) ==
    CASE e # Unknown              -> ContextVoucher(e)
      [] e = Unknown /\ stray # 0 -> packets[stray].voucher
      [] e = Unknown /\ stray = 0 -> 0

\* Evidence that createEvidence returns instead of creating a duplicate: the
\* same content, with a packet, voucher and review that still resolve.
IsDuplicate(e, hash) ==
    /\ hash # NoHash
    /\ evidence[e] = hash
    /\ ContextVoucher(e) \in DOMAIN vouchers

\* Room for n more events, next to those a suspended refresh may still append.
Room(n) == Len(events) + n + 2 * Cardinality(Requests \ Free) <= MaxEvents

\* A synchronous operation needs a request to be running it.
CanRun(n) == Free # {} /\ Room(n)

-----------------------------------------------------------------------------
(* Operations.                                                             *)

CreateEvidence(hash, fields) ==
    /\ CanRun(4)
    /\ Len(evidence) < MaxEvidence
    /\ Len(packets) < MaxPackets
    /\ ~ \E e \in DOMAIN evidence : IsDuplicate(e, hash)
    /\ LET e == Len(evidence) + 1
           v == Len(vouchers) + 1
           p == Len(packets) + 1
       IN  /\ evidence' = Append(evidence, hash)
           /\ packetOf' = Append(packetOf, p)
           /\ packets' = Append(packets, [evidence |-> {e}, voucher |-> v])
           /\ vouchers' = Append(vouchers, CreatedVoucher(p, fields))
           /\ reviews' = Append(reviews, CreatedReview(fields))
           /\ events' = events \o CreateEvents(e, v, p, fields)
    /\ UNCHANGED <<stray, refresh>>

\* Mutant of Relinked: the relink is recorded in the log only.
RelinkedInTheLog(v, p) == vouchers

\* The voucher rows once v links to packet p.
Relinked(v, p) == [vouchers EXCEPT ![v].packet = p]

ComposedPacket(items, v) == [evidence |-> items, voucher |-> v]

\* ids is the request's list; the first one with a linked voucher decides which
\* voucher the new packet takes over.
ComposeEvidence(ids) ==
    LET p == Len(packets) + 1
        Linked == {i \in DOMAIN ids : LinkedVoucher(ids[i]) # 0}
        items == {ids[i] : i \in DOMAIN ids}
    IN  /\ CanRun(1)
        /\ p <= MaxPackets
        /\ packetOf' = [e \in DOMAIN packetOf |-> IF e \in items THEN p ELSE packetOf[e]]
        /\ stray' = IF Unknown \in items THEN p ELSE stray
        /\ \/ /\ Linked = {}
              /\ packets' = Append(packets, ComposedPacket(items, 0))
              /\ UNCHANGED <<vouchers, events>>
           \/ \E first \in Linked :
              /\ \A i \in Linked : first <= i
              /\ LET v == LinkedVoucher(ids[first])
                 IN  /\ packets' = Append(packets, ComposedPacket(items, v))
                     /\ vouchers' = Relinked(v, p)
                     /\ events' = Append(events, RelinkEvent(v, p))
        /\ UNCHANGED <<evidence, reviews, refresh>>

\* updateEvidenceExtraction up to its await: the context holds the voucher row
\* as it is now.  Without a linked voucher nothing will be written.
BeginExtractionRefresh(r, e, extraction) ==
    LET v == ContextVoucher(e)
    IN  /\ r \in Free
        /\ v \in DOMAIN vouchers
        /\ Room(2)
        /\ refresh' = [refresh EXCEPT
                ![r] = [voucher |-> v, row |-> vouchers[v], extraction |-> extraction]]
        /\ UNCHANGED <<evidence, packetOf, stray, packets, vouchers, reviews, events>>

\* The continuation: the review is read now, the voucher row was read before
\* the await and is written back whole.
FinishExtractionRefresh(r) ==
    /\ r \notin Free
    /\ refresh' = [refresh EXCEPT ![r] = Idle]
    /\ LET v   == refresh[r].voucher
           row == refresh[r].row
           new == RefreshedVoucher(row, refresh[r].extraction)
       IN  \/ /\ row.status # "needs-review"
              /\ UNCHANGED <<vouchers, reviews, events>>
           \/ /\ row.status = "needs-review"
              /\ vouchers' = [vouchers EXCEPT ![v] = new]
              /\ reviews' = [reviews EXCEPT ![v] = RefreshedReview(reviews[v], new.fields)]
              /\ events' = events \o RefreshEvents(v, new.fields)
    /\ UNCHANGED <<evidence, packetOf, stray, packets>>

\* Mutant of ImportSie: nothing is skipped as already imported.
ImportSieAgain(file) ==
    \E planned \in Orders(file) :
        /\ CanRun(Len(planned))
        /\ events' = events \o ImportedEvents(planned)
        /\ UNCHANGED <<evidence, packetOf, stray, packets, vouchers, reviews, refresh>>

\* One VoucherImported event, in file order, per voucher never imported before.
ImportSie(file) ==
    \E planned \in Orders(file \ Imported(events)) :
        /\ CanRun(Len(planned))
        /\ events' = events \o ImportedEvents(planned)
        /\ UNCHANGED <<evidence, packetOf, stray, packets, vouchers, reviews, refresh>>

\* A decided review keeps the suggestion that was posted.
SuggestVoucher(v) ==
    /\ Free # {}
    /\ \/ /\ reviews[v].status = "needs-review"
          /\ reviews' = [reviews EXCEPT
                 ![v].suggestion = DeterministicSuggestion(vouchers[v].fields)]
       \/ /\ reviews[v].status # "needs-review"
          /\ UNCHANGED reviews
    /\ UNCHANGED <<evidence, packetOf, stray, packets, vouchers, events, refresh>>

\* Mutant of ApplyReviewDecision: replay is detected on the voucher's status.
DecideByVoucherStatus(v, action, edit) ==
    /\ CanRun(2)
    /\ vouchers[v].status = "needs-review"
    /\ ~ ReviewBlocked(reviews[v], action, EnforceBlockedReason)
    /\ reviews' = [reviews EXCEPT ![v] = DecidedReview(reviews[v], action, edit)]
    /\ vouchers' = [vouchers EXCEPT ![v] = DecidedVoucher(vouchers[v], action)]
    /\ events' = events \o DecisionEvents(v, vouchers[v], reviews[v], action, edit)
    /\ UNCHANGED <<evidence, packetOf, stray, packets, refresh>>

\* A decided review is replayed and a blocked approval throws: neither writes.
ApplyReviewDecision(v, action, edit) ==
    /\ CanRun(2)
    /\ reviews[v].status = "needs-review"
    /\ ~ ReviewBlocked(reviews[v], action, EnforceBlockedReason)
    /\ reviews' = [reviews EXCEPT ![v] = DecidedReview(reviews[v], action, edit)]
    /\ vouchers' = [vouchers EXCEPT ![v] = DecidedVoucher(vouchers[v], action)]
    /\ events' = events \o DecisionEvents(v, vouchers[v], reviews[v], action, edit)
    /\ UNCHANGED <<evidence, packetOf, stray, packets, refresh>>

\* A simulation of existing reviews leaves a trace in the log and nothing else.
RunSimulation ==
    /\ CanRun(1)
    /\ events' = Append(events, SimulationEvent)
    /\ UNCHANGED <<evidence, packetOf, stray, packets, vouchers, reviews, refresh>>

Next ==
    \/ \E hash \in Hashes \cup {NoHash}, fields \in Fields : CreateEvidence(hash, fields)
    \/ \E S \in (SUBSET (DOMAIN evidence \cup {Unknown})) \ {{}} : \E ids \in Orders(S) : ComposeEvidence(ids)
    \/ \E r \in Requests, e \in DOMAIN evidence, x \in Extractions :
            BeginExtractionRefresh(r, e, x)
    \/ \E r \in Requests : FinishExtractionRefresh(r)
    \/ \E file \in (SUBSET SieIds) \ {{}} : ImportSie(file)
    \/ \E v \in DOMAIN vouchers : SuggestVoucher(v)
    \/ \E v \in DOMAIN vouchers, action \in Actions, edit \in Edits \cup {NoEdit} :
            ApplyReviewDecision(v, action, edit)
    \/ RunSimulation

Spec == Init /\ [][Next]_vars
-----------------------------------------------------------------------------
(* What every interleaving of requests preserves.                          *)

\* Every map holds rows of its type; evidence, vouchers and reviews are born
\* together, so the four of them have one length.
TypeOK ==
    /\ evidence \in Seq(Hashes \cup {NoHash})
    /\ packetOf \in Seq(Nat)
    /\ stray \in Nat
    /\ packets \in Seq(Packets)
    /\ vouchers \in Seq(Vouchers)
    /\ reviews \in Seq(Reviews)
    /\ events \in Seq(Events)
    /\ refresh \in [Requests -> Suspended \cup {Idle}]
    /\ Len(packetOf) = Len(evidence)
    /\ Len(vouchers) = Len(evidence)
    /\ Len(reviews) = Len(vouchers)

\* Idempotent create: the same file content is never stored as two evidence
\* objects, whatever composes and refreshes happen between the uploads.
ContentStoredOnce ==
    \A d, e \in DOMAIN evidence :
        evidence[d] = evidence[e] /\ evidence[d] # NoHash => d = e

\* A voucher is posted at most once and a review decided at most once, however
\* many decisions, regenerations and refreshes are sent for it.
PostedOnce == DecidesOnce(events, DOMAIN vouchers)

\* The log alone tells what was decided, and a decision and its posting are
\* neighbours in it, whatever the stale refreshes do to the voucher rows.
LogExplainsDecisions == DecisionsExplained(events, reviews)

\* In normal mode no approval is posted from a suggestion whose fields still
\* miss mandatory data: blockedReason is fresh whenever it is tested.
NoBlockedApproval ==
    EnforceBlockedReason =>
        \A i \in DOMAIN events :
            events[i].type = "PostedToLedger" /\ events[i].action = "approve"
                => ~ Blocking(events[i].suggestion.fields)

\* An SIE voucher enters the log at most once, over any imports of any files.
ImportedOnce == ImportsOnce(events)

\* Approving an open review posts the suggestion the audit trail shows last: the
\* suggestion kept in the review is never older or newer than the logged one.
OpenSuggestionIsLogged == SuggestionsExplained(events, reviews)

\* The store implements the posting book: a decision and its posting happen in
\* one step, once, behind every earlier posting.
Book == INSTANCE PostingBook WITH
    Positions <- 1..MaxEvents,
    status    <- [v \in DOMAIN reviews |-> reviews[v].status],
    postings  <- [v \in DOMAIN vouchers |-> Postings(events, v)]

ImplementsPostingBook == Book!Spec

-----------------------------------------------------------------------------
(* What a refresh that writes a stale row back breaks.                     *)

\* The vouchers whose row the step overwrites by another one read before.
StaleWrites ==
    {refresh[r].voucher : r \in {q \in Requests \ Free :
        /\ refresh'[q] = Idle
        /\ refresh[q].row # vouchers[refresh[q].voucher]}}

\* A refresh never touches a voucher whose review is decided: the suggestion and
\* the fields shown are the ones the journal lines were computed from.
DecidedSuggestionIsPosted == PostingsShown(events, vouchers, reviews, DOMAIN reviews)

\* A file that is uploaded again and a SIE voucher that is imported again add
\* nothing, whatever composes rewrote in between.
StoredOnce ==
  /\ ContentStoredOnce
  /\ ImportedOnce
=============================================================================
