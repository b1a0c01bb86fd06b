------------------------ MODULE PostgresLedgerStore ------------------------
(***************************************************************************)
(* The Postgres ledger store.  Every operation that appends to the hash    *)
(* chain is one READ COMMITTED transaction that takes the workspace's      *)
(* advisory lock, reads the chain tail, reads the rows it plans from, and  *)
(* writes rows and events.  suggestVoucher takes no lock: it reads a       *)
(* voucher and later updates the review.  Other programs may append to     *)
(* ledger.events without the lock.                                         *)
(*                                                                         *)
(* Writes become visible at commit, and the row locks and the unique index *)
(* make a second writer of the same row or of the same previous_hash wait  *)
(* for that commit; so writing and committing are one step, and what other *)
(* transactions can slip in stands between the lock, the reads and it.     *)
(* Row identifiers are creation indices, and an event hash is the place of *)
(* the event in seq order, 0 for GENESIS.                                  *)
(***************************************************************************)
EXTENDS LedgerPlans

CONSTANTS Requests,            \* the requests that can be in flight at once
          Outsiders,           \* writers of ledger.events that take no lock
          Hashes, NoHash,      \* uploaded contents, and a create without sha256
          EnforceBlockedReason,\* TRUE in normal mode
          MaxEvidence,         \* bound on evidence rows when a create is planned
          MaxPackets,          \* bound on packets when a create or compose is planned
          MaxOutside,          \* bound on the events of outsiders
          MaxEvents            \* bound on ledger.events

ASSUME RequestsAssumption == IsFiniteSet(Requests)
ASSUME NoHashAssumption == NoHash \notin Hashes
ASSUME EnforceAssumption == EnforceBlockedReason \in BOOLEAN
ASSUME BoundsAssumption ==
    MaxEvidence \in Nat /\ MaxPackets \in Nat /\ MaxOutside \in Nat /\ MaxEvents \in Nat

VARIABLES evidence,  \* evidence_objects: the content hash
          packets,   \* evidence_packet_items: the evidence of each packet
          vouchers,  \* vouchers; packet is evidence_packet_id
          numbers,   \* voucher_number of each voucher
          reviews,   \* review_tasks; review n is of voucher n
          events,    \* ledger.events in seq order: what each says
          previous,  \* ledger.events in seq order: previous_hash
          queue,     \* the advisory lock: its holder first, then the waiters
          tx,        \* tx[r]: the transaction of request r
          outside    \* outside[w]: the tail an outsider read

tables == <<evidence, packets, vouchers, numbers, reviews, events, previous>>
vars == <<tables, queue, tx, outside>>

Outside == [type |-> "OutsideEvent"]
NoTail == [reading |-> FALSE]
Idle == [phase |-> "idle"]
Conflict == [phase |-> "conflict"]   \* HashChainForkError, HTTP 409
NoOp == [kind |-> "none"]

Creates == [kind : {"create"}, hash : Hashes \cup {NoHash}, fields : Fields]
Composes == [kind : {"compose"}, ids : Seq(Nat)]
Refreshes == [kind : {"refresh"}, item : Nat, extraction : Extractions]
Imports == [kind : {"import"}, file : SUBSET SieIds]
Decisions == [kind : {"decide"}, voucher : Nat, action : Actions, edit : Edits \cup {NoEdit}]
Simulations == [kind : {"simulate"}]
Operations == Creates \cup Composes \cup Refreshes \cup Imports \cup Decisions \cup Simulations

Init ==
    /\ evidence = <<>> /\ packets = <<>> /\ vouchers = <<>> /\ numbers = <<>> /\ reviews = <<>>
    /\ events = <<>> /\ previous = <<>>
    /\ queue = <<>>
    /\ tx = [r \in Requests |-> Idle]
    /\ outside = [w \in Outsiders |-> NoTail]

-----------------------------------------------------------------------------
(* Joins.                                                                  *)

\* The newest packet an evidence object is in (packets are created in order).
NewestPacket(e) ==
    CHOOSE p \in DOMAIN packets :
        /\ e \in packets[p]
        /\ \A q \in DOMAIN packets : e \in packets[q] => q <= p

\* The vouchers resolvePacketAndVoucher can return: at most one links to a packet.
ContextVouchers(e) == {v \in DOMAIN vouchers : vouchers[v].packet = NewestPacket(e)}

\* The vouchers composeEvidence can find behind an evidence object.
LinkedVouchers(e) == {v \in DOMAIN vouchers : e \in packets[vouchers[v].packet]}

\* The evidence rows with this content whose context still resolves.
Duplicates(hash) ==
    {e \in DOMAIN evidence : hash # NoHash /\ evidence[e] = hash /\ ContextVouchers(e) # {}}

-----------------------------------------------------------------------------
(* The transaction that appends to the chain.                              *)

Outsides == Cardinality({i \in DOMAIN events : events[i] = Outside})

Active == {r \in Requests : tx[r].phase \in {"waiting", "locked", "planned"}}

\* The most one transaction writes: the events of a create, or of an import.
Longest == IF Cardinality(SieIds) > 4 THEN Cardinality(SieIds) ELSE 4

\* The bound leaves every appender, one more, and the outsiders the room they need.
Room ==
    Len(events) + Longest * (Cardinality(Active) + 1) + (MaxOutside - Outsides) <= MaxEvents

Waiting(attempt, op) == [phase |-> "waiting", attempt |-> attempt, op |-> op]

\* A request opens its transaction and queues for the workspace's lock.
Begin(r) ==
    /\ tx[r].phase \in {"idle", "conflict"}
    /\ Room
    /\ tx' = [tx EXCEPT ![r] = Waiting(1, NoOp)]
    /\ queue' = Append(queue, r)
    /\ UNCHANGED <<tables, outside>>

\* Mutant of LockTail: the tail is read without waiting for the lock.
TailWithoutLock(r) ==
    /\ tx[r].phase = "waiting"
    /\ tx' = [tx EXCEPT ![r] = [phase   |-> "locked",
                                attempt |-> tx[r].attempt,
                                op      |-> tx[r].op,
                                tail    |-> Len(events)]]
    /\ UNCHANGED <<tables, queue, outside>>

\* lockWorkspaceTail: the tail is read once the lock is held.
LockTail(r) ==
    /\ tx[r].phase = "waiting"
    /\ Head(queue) = r
    /\ tx' = [tx EXCEPT ![r] = [phase   |-> "locked",
                                attempt |-> tx[r].attempt,
                                op      |-> tx[r].op,
                                tail    |-> Len(events)]]
    /\ UNCHANGED <<tables, queue, outside>>

\* Commit and rollback both free a transaction-scoped lock.
Unqueued(r) ==
    LET places == {i \in DOMAIN queue : queue[i] = r}
        at     == CHOOSE i \in places : TRUE
    IN  IF places = {} THEN queue
        ELSE [i \in 1..(Len(queue) - 1) |-> IF i < at THEN queue[i] ELSE queue[i + 1]]

\* Mutant of End: the lock is session-scoped and survives the transaction.
EndKeepingLock(r) ==
    /\ tx' = [tx EXCEPT ![r] = Idle]
    /\ UNCHANGED <<queue, outside>>

End(r) ==
    /\ tx' = [tx EXCEPT ![r] = Idle]
    /\ queue' = Unqueued(r)
    /\ UNCHANGED outside

\* The connection breaks, a statement fails or the process stops: rolled back.
Abort(r) ==
    /\ tx[r].phase \notin {"idle", "conflict"}
    /\ End(r)
    /\ UNCHANGED tables

-----------------------------------------------------------------------------
(* What each operation reads, and what it plans to write.                  *)

\* The lock holder runs an operation; a retry runs the one of the first attempt.
Runs(r, op) == tx[r].phase = "locked" /\ tx[r].op \in {NoOp, op}

\* The bound on what is chosen for a first attempt.
Fits(r, n, m) == tx[r].op = NoOp => Len(evidence) + n <= MaxEvidence /\ Len(packets) + m <= MaxPackets

Planned(r, op, plan) ==
    /\ tx' = [tx EXCEPT ![r] = [phase   |-> "planned",
                                attempt |-> tx[r].attempt,
                                op      |-> op,
                                tail    |-> tx[r].tail,
                                plan    |-> plan]]
    /\ UNCHANGED <<queue, outside>>

\* Mutant of PlanCreate: a retry does not look for duplicates again.
PlanCreateCheckedOnce(r, op) ==
    /\ Runs(r, op)
    /\ Fits(r, 1, 1)
    /\ LET found == tx[r].attempt = 1 /\ Duplicates(op.hash) # {}
       IN  \/ found /\ End(r)
           \/ ~ found /\ Planned(r, op, [count |-> Len(vouchers)])
    /\ UNCHANGED tables

\* A duplicate upload commits an empty transaction; the voucher number is a count.
PlanCreate(r, op) ==
    /\ Runs(r, op)
    /\ Fits(r, 1, 1)
    /\ \/ Duplicates(op.hash) # {} /\ End(r)
       \/ Duplicates(op.hash) = {} /\ Planned(r, op, [count |-> Len(vouchers)])
    /\ UNCHANGED tables

\* The first listed evidence with a linked voucher; which of its vouchers, when
\* two have packets with it, is left to LIMIT 1.
PlanCompose(r, op) ==
    /\ Runs(r, op)
    /\ Fits(r, 0, 1)
    /\ LET Linked == {i \in DOMAIN op.ids : LinkedVouchers(op.ids[i]) # {}}
       IN  \/ Linked = {} /\ Planned(r, op, [voucher |-> 0])
           \/ \E first \in Linked :
                /\ \A i \in Linked : first <= i
                /\ \E v \in LinkedVouchers(op.ids[first]) : Planned(r, op, [voucher |-> v])
    /\ UNCHANGED tables

\* Evidence without a voucher and decided vouchers are left as they are.
PlanRefresh(r, op) ==
    /\ Runs(r, op)
    /\ LET Open == {v \in ContextVouchers(op.item) : vouchers[v].status = "needs-review"}
       IN  \/ Open = {} /\ End(r)
           \/ \E v \in Open :
                Planned(r, op, [voucher |-> v,
                                row     |-> RefreshedVoucher(vouchers[v], op.extraction)])
    /\ UNCHANGED tables

PlanImport(r, op) ==
    /\ Runs(r, op)
    /\ \E new \in Orders(op.file \ Imported(events)) :
        \/ new = <<>> /\ End(r)
        \/ new # <<>> /\ Planned(r, op, [new |-> new])
    /\ UNCHANGED tables

\* A decided review is replayed, a blocked approval throws: neither writes.
PlanDecision(r, op) ==
    /\ Runs(r, op)
    /\ LET review  == reviews[op.voucher]
           refused == \/ review.status # "needs-review"
                      \/ ReviewBlocked(review, op.action, EnforceBlockedReason)
       IN  \/ refused /\ End(r)
           \/ ~ refused /\ Planned(r, op, [review |-> review, row |-> vouchers[op.voucher]])
    /\ UNCHANGED tables

\* Unknown reviews throw; a simulation of known ones is only logged.
PlanSimulation(r, op) ==
    /\ Runs(r, op)
    /\ reviews # <<>>
    /\ Planned(r, op, [title |-> "simulation"])
    /\ UNCHANGED tables

-----------------------------------------------------------------------------
(* What each operation writes.                                             *)

Writes(r, kind) == tx[r].phase = "planned" /\ tx[r].op.kind = kind

\* Mutant of Forks: the unique key is missing.
NeverForks(tail) == FALSE

\* ledger_events_chain_fork_key: no two events have one previous_hash.
Forks(tail) == \E i \in DOMAIN previous : previous[i] = tail

\* Each event chains onto the one inserted before it, the first onto tail.
AppendEvents(tail, new) ==
    /\ ~ Forks(tail)
    /\ events' = events \o new
    /\ previous' = previous \o [i \in DOMAIN new |->
                                    IF i = 1 THEN tail ELSE Len(events) + i - 1]

CommitCreate(r) ==
    LET e == Len(evidence) + 1
        p == Len(packets) + 1
        v == Len(vouchers) + 1
        fields == tx[r].op.fields
    IN  /\ Writes(r, "create")
        /\ AppendEvents(tx[r].tail, CreateEvents(e, v, p, fields))
        /\ evidence' = Append(evidence, tx[r].op.hash)
        /\ packets' = Append(packets, {e})
        /\ vouchers' = Append(vouchers, CreatedVoucher(p, fields))
        /\ numbers' = Append(numbers, tx[r].plan.count + 1)
        /\ reviews' = Append(reviews, CreatedReview(fields))
        /\ End(r)

\* Mutant of CommitCompose: every voucher behind the new packet moves to it.
CommitComposeAll(r) ==
    LET p == Len(packets) + 1
        ids == tx[r].op.ids
        items == {ids[i] : i \in DOMAIN ids}
    IN  /\ Writes(r, "compose")
        /\ packets' = Append(packets, items)
        /\ vouchers' = [v \in DOMAIN vouchers |->
                            IF items \cap packets[vouchers[v].packet] = {} THEN vouchers[v]
                            ELSE [vouchers[v] EXCEPT !.packet = p]]
        /\ \/ tx[r].plan.voucher = 0 /\ UNCHANGED <<events, previous>>
           \/ /\ tx[r].plan.voucher # 0
              /\ AppendEvents(tx[r].tail, << RelinkEvent(tx[r].plan.voucher, p) >>)
        /\ End(r)
        /\ UNCHANGED <<evidence, numbers, reviews>>

\* A packet that takes no voucher over appends no event, so it cannot fork.
CommitCompose(r) ==
    LET p == Len(packets) + 1
        v == tx[r].plan.voucher
        ids == tx[r].op.ids
    IN  /\ Writes(r, "compose")
        /\ packets' = Append(packets, {ids[i] : i \in DOMAIN ids})
        /\ \/ v = 0 /\ UNCHANGED <<vouchers, events, previous>>
           \/ /\ v # 0
              /\ vouchers' = [vouchers EXCEPT ![v].packet = p]
              /\ AppendEvents(tx[r].tail, << RelinkEvent(v, p) >>)
        /\ End(r)
        /\ UNCHANGED <<evidence, numbers, reviews>>

\* Mutant of CommitRefresh: the voucher row is not updated.
CommitRefreshOfReview(r) ==
    LET v == tx[r].plan.voucher
        fields == tx[r].plan.row.fields
    IN  /\ Writes(r, "refresh")
        /\ AppendEvents(tx[r].tail, RefreshEvents(v, fields))
        /\ reviews' = [reviews EXCEPT ![v] = RefreshedReview(reviews[v], fields)]
        /\ End(r)
        /\ UNCHANGED <<evidence, packets, vouchers, numbers>>

\* UPDATE of the field columns of the voucher, and of the suggestion and blocked
\* columns of the review.
CommitRefresh(r) ==
    LET v == tx[r].plan.voucher
        fields == tx[r].plan.row.fields
    IN  /\ Writes(r, "refresh")
        /\ AppendEvents(tx[r].tail, RefreshEvents(v, fields))
        /\ vouchers' = [vouchers EXCEPT ![v].fields = fields]
        /\ reviews' = [reviews EXCEPT ![v] = RefreshedReview(reviews[v], fields)]
        /\ End(r)
        /\ UNCHANGED <<evidence, packets, numbers>>

CommitImport(r) ==
    /\ Writes(r, "import")
    /\ AppendEvents(tx[r].tail, ImportedEvents(tx[r].plan.new))
    /\ End(r)
    /\ UNCHANGED <<evidence, packets, vouchers, numbers, reviews>>

\* The suggestion column is written even without an edit: the posted one wins
\* over a regeneration committed since the review was read.
CommitDecision(r) ==
    LET v == tx[r].op.voucher
        action == tx[r].op.action
        edit == tx[r].op.edit
        plan == tx[r].plan
        decided == DecidedReview(plan.review, action, edit)
    IN  /\ Writes(r, "decide")
        /\ AppendEvents(tx[r].tail, DecisionEvents(v, plan.row, plan.review, action, edit))
        /\ reviews' = [reviews EXCEPT ![v].status     = decided.status,
                                      ![v].suggestion = decided.suggestion]
        /\ vouchers' = [vouchers EXCEPT ![v] = DecidedVoucher(vouchers[v], action)]
        /\ End(r)
        /\ UNCHANGED <<evidence, packets, numbers>>

CommitSimulation(r) ==
    /\ Writes(r, "simulate")
    /\ AppendEvents(tx[r].tail, << SimulationEvent >>)
    /\ End(r)
    /\ UNCHANGED <<evidence, packets, vouchers, numbers, reviews>>

\* withChainForkRetry: the insert dies on the unique key and the transaction is
\* rolled back; the first time it is run again, behind whoever waits by now.
ForkAborts(r) ==
    /\ tx[r].phase = "planned"
    /\ ~ (tx[r].op.kind = "compose" /\ tx[r].plan.voucher = 0)
    /\ Forks(tx[r].tail)
    /\ \/ /\ tx[r].attempt = 1
          /\ tx' = [tx EXCEPT ![r] = Waiting(2, tx[r].op)]
          /\ queue' = Append(Unqueued(r), r)
       \/ /\ tx[r].attempt = 2
          /\ tx' = [tx EXCEPT ![r] = Conflict]
          /\ queue' = Unqueued(r)
    /\ UNCHANGED <<tables, outside>>

-----------------------------------------------------------------------------
(* Writers without the lock.                                               *)

\* suggestVoucher reads the voucher row, and computes the suggestion.
BeginSuggest(r, v) ==
    /\ tx[r].phase \in {"idle", "conflict"}
    /\ tx' = [tx EXCEPT ![r] = [phase |-> "suggesting", voucher |-> v,
                                suggestion |-> DeterministicSuggestion(vouchers[v].fields)]]
    /\ UNCHANGED <<tables, queue, outside>>

\* UPDATE review_tasks ... WHERE status = 'needs-review'.
FinishSuggest(r) ==
    /\ tx[r].phase = "suggesting"
    /\ LET v == tx[r].voucher
       IN  \/ /\ reviews[v].status = "needs-review"
              /\ reviews' = [reviews EXCEPT ![v].suggestion = tx[r].suggestion]
           \/ reviews[v].status # "needs-review" /\ UNCHANGED reviews
    /\ End(r)
    /\ UNCHANGED <<evidence, packets, vouchers, numbers, events, previous>>

\* A program that bypasses the lock reads the tail ...
OutsideRead(w) ==
    /\ outside[w] = NoTail
    /\ Outsides < MaxOutside
    /\ outside' = [outside EXCEPT ![w] = [reading |-> TRUE, tail |-> Len(events)]]
    /\ UNCHANGED <<tables, queue, tx>>

\* ... and appends to it later, or dies on the unique key.
OutsideAppend(w) ==
    /\ outside[w] # NoTail
    /\ outside' = [outside EXCEPT ![w] = NoTail]
    /\ \/ Outsides < MaxOutside /\ AppendEvents(outside[w].tail, << Outside >>)
       \/ Forks(outside[w].tail) /\ UNCHANGED <<events, previous>>
    /\ UNCHANGED <<evidence, packets, vouchers, numbers, reviews, queue, tx>>

-----------------------------------------------------------------------------
Plan(r) ==
    \/ \E hash \in Hashes \cup {NoHash}, fields \in Fields :
            PlanCreate(r, [kind |-> "create", hash |-> hash, fields |-> fields])
    \/ \E S \in (SUBSET DOMAIN evidence) \ {{}} : \E ids \in Orders(S) :
            PlanCompose(r, [kind |-> "compose", ids |-> ids])
    \/ \E e \in DOMAIN evidence, x \in Extractions :
            PlanRefresh(r, [kind |-> "refresh", item |-> e, extraction |-> x])
    \/ \E file \in (SUBSET SieIds) \ {{}} : PlanImport(r, [kind |-> "import", file |-> file])
    \/ \E v \in DOMAIN reviews, action \in Actions, edit \in Edits \cup {NoEdit} :
            PlanDecision(r, [kind |-> "decide", voucher |-> v, action |-> action, edit |-> edit])
    \/ PlanSimulation(r, [kind |-> "simulate"])

Commit(r) ==
    \/ CommitCreate(r) \/ CommitCompose(r) \/ CommitRefresh(r)
    \/ CommitImport(r) \/ CommitDecision(r) \/ CommitSimulation(r)

Serve(r) == LockTail(r) \/ Plan(r) \/ Commit(r) \/ ForkAborts(r)

Next ==
    \/ \E r \in Requests : Begin(r) \/ Serve(r) \/ Abort(r) \/ FinishSuggest(r)
    \/ \E r \in Requests, v \in DOMAIN vouchers : BeginSuggest(r, v)
    \/ \E w \in Outsiders : OutsideRead(w) \/ OutsideAppend(w)

Spec == Init /\ [][Next]_vars

\* A backend that holds the lock runs on, and Postgres hands the lock over in
\* the order it was asked for.
FairSpec == Spec /\ \A r \in Requests : WF_vars(Serve(r))

-----------------------------------------------------------------------------
(* What every interleaving of requests and outsiders preserves.            *)

\* The rows have their types, and a transaction that queues or runs is in its
\* first or second attempt.
TypeOK ==
    /\ evidence \in Seq(Hashes \cup {NoHash})
    /\ packets \in Seq(SUBSET Nat)
    /\ vouchers \in Seq(Vouchers)
    /\ numbers \in Seq(Nat)
    /\ reviews \in Seq(Reviews)
    /\ events \in Seq(Events \cup {Outside})
    /\ previous \in Seq(Nat)
    /\ queue \in Seq(Requests)
    /\ \A r \in Requests :
        /\ tx[r].phase \in {"idle", "conflict", "waiting", "locked", "planned", "suggesting"}
        /\ tx[r].phase \in {"waiting", "locked", "planned"} =>
              tx[r].attempt \in {1, 2} /\ tx[r].op \in Operations \cup {NoOp}

\* The workspace's chain is linear: every event, a store's or an outsider's,
\* names the one right before it in seq order.
ChainLinear == \A i \in DOMAIN events : previous[i] = i - 1

\* Voucher numbers are unique and without gaps, although each is a count read
\* before the insert.
NumbersGapless == \A v \in DOMAIN vouchers : numbers[v] = v

\* A packet backs one voucher at most: LIMIT 1 in resolvePacketAndVoucher picks
\* the only row, and a refresh reaches the voucher that getEvidenceContext shows.
OneVoucherPerPacket ==
    \A v, w \in DOMAIN vouchers : vouchers[v].packet = vouchers[w].packet => v = w

\* The log alone tells what was decided, and a decision and its posting are
\* neighbours in it, although rows and events are planned before the commit.
LogExplainsDecisions == DecisionsExplained(events, reviews)

\* The voucher rows are the projection of the log: a compose and a refresh never
\* write a row read before another transaction's commit.
LogExplainsVouchers == VouchersExplained(events, vouchers, DOMAIN vouchers)

\* A decided review shows the suggestion that was posted, whatever suggestVoucher
\* does while the decision's transaction is open.
DecidedSuggestionIsPosted == PostingsShown(events, vouchers, reviews, DOMAIN reviews)

\* In normal mode no voucher is approved while its fields miss mandatory data.
ApprovedFieldsComplete ==
    EnforceBlockedReason =>
        \A i \in DOMAIN events :
            events[i].type = "PostedToLedger" /\ events[i].action = "approve"
                => ~ Blocking(events[i].fields)

\* An SIE voucher enters the log at most once, over concurrent imports and over
\* the retry of an import that lost a fork.
ImportedOnce == ImportsOnce(events)

\* A request is answered with a chain conflict only if two events were appended
\* behind the lock's back.
ConflictNeedsTwoOutsiders ==
    (\E r \in Requests : tx[r] = Conflict) =>
        Outsides >= 2

\* A content is stored again only when no earlier row of it resolves at the
\* moment of the insert, although duplicates were looked for before it.
DuplicatesOnlyLost ==
    [][Len(evidence') > Len(evidence) => Duplicates(evidence'[Len(evidence')]) = {}]_vars

\* The store implements the posting book: what a committed decision and its
\* posting do is one step, once, behind every earlier posting.
Book == INSTANCE PostingBook WITH
    Positions <- 1..MaxEvents,
    status    <- [v \in DOMAIN reviews |-> reviews[v].status],
    postings  <- [v \in DOMAIN vouchers |-> Postings(events, v)]

ImplementsPostingBook == Book!Spec

\* Whoever queues for the lock is served: with a result, an error or a 409.
EveryRequestEnds ==
    \A r \in Requests : tx[r].phase = "waiting" ~> tx[r].phase \in {"idle", "conflict"}

-----------------------------------------------------------------------------
(* What the code's own documents promise and this store does not keep.     *)

\* getEvidenceContext and getSnapshot agree: evidence a voucher's packet holds
\* resolves to a voucher.
ContextAgreesWithSnapshot ==
    \A v \in DOMAIN vouchers : \A e \in packets[vouchers[v].packet] : ContextVouchers(e) # {}

\* An open review's suggestion is the projection of the log.
OpenSuggestionIsLogged == SuggestionsExplained(events, reviews)

\* What is committed in the rows of vouchers, reviews and suggestions is what the
\* committed events say, whoever overlapped, failed or bypassed the lock.
RowsFollowLog ==
  /\ LogExplainsVouchers
  /\ LogExplainsDecisions
  /\ DecidedSuggestionIsPosted

\* A closure that runs again after a fork makes its checks again: it imports
\* nothing twice and creates no evidence that it would have found.
RetriedOnce ==
  /\ []ImportedOnce
  /\ DuplicatesOnlyLost

\* Voucher numbers count on without a gap, and no packet is two vouchers'.
VouchersAreDistinct ==
  /\ NumbersGapless
  /\ OneVoucherPerPacket
=============================================================================
