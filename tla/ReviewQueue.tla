----------------------------- MODULE ReviewQueue -----------------------------
(***************************************************************************)
(* The review queue of the web app over its cached snapshot: the queue and *)
(* its edit sheet (components/today/review-queue-view.tsx and              *)
(* review-edit-sheet.tsx), the dashboard widget with its batch             *)
(* (components/dashboard/widgets/review-queue-widget.tsx), and the sweep   *)
(* after a mutation (lib/query-invalidation.ts).  Several browsers work on *)
(* one ledger, and extraction refreshes the fields of open reviews.  The   *)
(* query client is external: a fetch that answers late overwrites what was *)
(* put into the cache meanwhile, an invalidation gives it up and starts    *)
(* another.  It does so for a query that is observed, and this one always  *)
(* is: OnboardingShell, around every page but the login, observes it.      *)
(* Fields are a version number; at version 0 they are incomplete and the   *)
(* review is blocked.                                                      *)
(***************************************************************************)
EXTENDS Integers, Sequences, FiniteSets

CONSTANTS
  QueueReviews,   \* reviews, the same as the vouchers they stand for
  Browsers,       \* browsers with the workspace open
  NoReviewOpen,   \* the edit sheet is closed
  MaxElsewhere,      \* bound: refreshes of all fields, and decisions of others
  MaxClicks,      \* bound: clicks of a run
  MaxFetches,     \* bound: background fetches of a run
  MaxCalls        \* bound: decisions of a browser in flight

ASSUME QueueConstants ==
  NoReviewOpen \notin QueueReviews /\ QueueReviews # {} /\ MaxElsewhere \in Nat /\ MaxCalls \in Nat

VARIABLES
  ledger,         \* review -> status, fields, and whether a sheet's decision
                  \* booked the amounts it showed (observation)
  cache,          \* browser -> the cached snapshot: review -> status, fields
  fetching,       \* browser -> the snapshot fetch in flight
  call,           \* browser -> the decisions in flight, several of one review too
  batch,          \* browser -> is a batch running, its targets left, its call
  sheet,          \* browser -> the review open in the edit sheet, with the fields shown
                  \* and its call while that is pending
  told, toldInBatch,  \* browser -> reviews it was told the decision of, alone and
                  \* within a batch (observations)
  clicks, fetches, elsewhere  \* counts for the bounds

queueVars == <<ledger, cache, fetching, call, batch, sheet, told, toldInBatch, clicks, fetches, elsewhere>>

Calls == 1..MaxCalls

Decision == [approve |-> "approved", reject |-> "rejected", withoutVat |-> "booked-without-vat"]

OnDevice(review) == [status |-> review.status, fields |-> review.fields]
Snapshot == [r \in QueueReviews |-> OnDevice(ledger[r])]

NoCall ==
  [at |-> "none", review |-> CHOOSE r \in QueueReviews : TRUE, action |-> "approve", amounts |-> 0, shown |-> 0,
   known |-> 0, status |-> "needs-review"]
NoFetching == [at |-> "none", snapshot |-> [r \in QueueReviews |-> [status |-> "needs-review", fields |-> 0]]]
SheetClosed == [review |-> NoReviewOpen, shown |-> 0, edited |-> FALSE, call |-> 0]
Sent == [NoFetching EXCEPT !.at = "sent"]

QueueInit ==
  /\ ledger \in [QueueReviews -> [status : {"needs-review"}, fields : {0, 1}, booked : {"not"}]]
  /\ cache = [b \in Browsers |-> Snapshot]
  /\ fetching = [b \in Browsers |-> NoFetching]
  /\ call = [b \in Browsers |-> [k \in Calls |-> NoCall]]
  /\ batch = [b \in Browsers |-> [running |-> FALSE, targets |-> {}, call |-> 0]]
  /\ sheet = [b \in Browsers |-> SheetClosed]
  /\ told = [b \in Browsers |-> {}]
  /\ toldInBatch = [b \in Browsers |-> {}]
  /\ clicks = 0
  /\ fetches = 0
  /\ elsewhere = 0

(***************************************************************************)
(* The ledger                                                              *)
(***************************************************************************)
\* The amounts of the decision's edit, or else the voucher's own, are booked.
Booked(review, c) ==
  LET amounts == IF c.amounts # 0 THEN c.amounts ELSE review.fields
  IN  IF c.shown \in {0, amounts} THEN "asShown" ELSE IF c.known = c.shown THEN "unseen" ELSE "otherwise"

\* A decided review is replayed; a blocked one refuses an approval.
DecideReview(review, c) ==
  IF review.status # "needs-review" THEN review
  ELSE [review EXCEPT !.status = Decision[c.action], !.booked = Booked(review, c)]

RefusedDecision(review, c) == review.status = "needs-review" /\ review.fields = 0 /\ c.action = "approve"

\* A decision reaches the ledger; its answer may get lost on the way back.
ServeDecision(b, k) ==
  LET r == call[b][k].review
  IN  /\ call[b][k].at = "sent"
      /\ IF RefusedDecision(ledger[r], call[b][k])
           THEN call' = [call EXCEPT ![b][k].at = "failed"] /\ UNCHANGED ledger
           ELSE /\ ledger' = [ledger EXCEPT ![r] = DecideReview(@, call[b][k])]
                /\ \E at \in {"answered", "failed"} :
                     call' = [call EXCEPT ![b][k].at = at, ![b][k].status = ledger'[r].status]
      /\ UNCHANGED <<cache, fetching, batch, sheet, told, toldInBatch, clicks, fetches, elsewhere>>

\* Somebody else decides: another device, or the advisor's approved tool.
DecidedElsewhere(r, action) ==
  /\ ledger' = [ledger EXCEPT ![r] = DecideReview(@, [NoCall EXCEPT !.action = action])]
  /\ ~RefusedDecision(ledger[r], [NoCall EXCEPT !.action = action])
  /\ elsewhere < MaxElsewhere /\ elsewhere' = elsewhere + 1
  /\ UNCHANGED <<cache, fetching, call, batch, sheet, told, toldInBatch, clicks, fetches>>

\* A decision never reaches the ledger.
LoseDecision(b, k) ==
  /\ call[b][k].at = "sent"
  /\ call' = [call EXCEPT ![b][k].at = "failed"]
  /\ UNCHANGED <<ledger, cache, fetching, batch, sheet, told, toldInBatch, clicks, fetches, elsewhere>>

\* Extraction refreshes the fields of a review that is still open.
RefreshSheetFields(r) ==
  /\ ledger[r].status = "needs-review"
  /\ elsewhere < MaxElsewhere /\ elsewhere' = elsewhere + 1
  /\ ledger' = [ledger EXCEPT ![r].fields = @ + 1]
  /\ UNCHANGED <<cache, fetching, call, batch, sheet, told, toldInBatch, clicks, fetches>>

(***************************************************************************)
(* The cache                                                               *)
(***************************************************************************)
\* applyOptimisticUpdate: the answered review and its voucher's status.
ApplyOptimisticUpdate(snapshot, c) == [snapshot EXCEPT ![c.review].status = c.status]

\* Mutant: the sweep joins the fetch in flight.
SweepJoinsFetch(b) == fetching' = [fetching EXCEPT ![b] = IF @.at \in {"sent", "answered"} THEN @ ELSE Sent]

\* invalidateLedgerDerived: the fetch in flight is given up, another starts.
InvalidateLedgerDerived(b) == fetching' = [fetching EXCEPT ![b] = Sent]

\* Window focus or another screen's mount fetches the snapshot.
StartFetch(b) ==
  /\ fetches < MaxFetches
  /\ fetches' = fetches + 1
  /\ fetching[b].at \in {"none", "failed"}
  /\ fetching' = [fetching EXCEPT ![b] = Sent]
  /\ UNCHANGED <<ledger, cache, call, batch, sheet, told, toldInBatch, clicks, elsewhere>>

ServeFetch(b) ==
  /\ fetching[b].at = "sent"
  /\ fetching' = [fetching EXCEPT ![b] = [at |-> "answered", snapshot |-> Snapshot]]
  /\ UNCHANGED <<ledger, cache, call, batch, sheet, told, toldInBatch, clicks, fetches, elsewhere>>

\* The cached snapshot stays when a fetch fails.
ReceiveFetch(b) ==
  /\ \/ /\ fetching[b].at = "answered"
        /\ cache' = [cache EXCEPT ![b] = fetching[b].snapshot]
        /\ fetching' = [fetching EXCEPT ![b] = NoFetching]
     \/ /\ fetching[b].at = "sent"
        /\ fetching' = [fetching EXCEPT ![b] = [NoFetching EXCEPT !.at = "failed"]]
        /\ UNCHANGED cache
  /\ UNCHANGED <<ledger, call, batch, sheet, told, toldInBatch, clicks, fetches, elsewhere>>

(***************************************************************************)
(* Decisions                                                               *)
(***************************************************************************)
\* mutate: a call of its own, whatever else is in flight; calls are used in turn.
Click(b, k, r, action, amounts, shown) ==
  /\ call[b][k].at = "none" /\ \A j \in 1..(k - 1) : call[b][j].at # "none"
  /\ call' = [call EXCEPT ![b][k] = [at |-> "sent", review |-> r, action |-> action, amounts |-> amounts,
                                     shown |-> shown, known |-> IF shown = 0 THEN 0 ELSE cache[b][r].fields,
                                     status |-> "needs-review"]]

Blocked(b, r) == cache[b][r].fields = 0

(* handleAction: a card's button, or a hotkey, which fires on a decided    *)
(* review too and while another decision of it is in flight.               *)
HandleAction(b, k, r, action) ==
  /\ clicks < MaxClicks /\ clicks' = clicks + 1
  /\ sheet[b].review = NoReviewOpen
  /\ ~(action = "approve" /\ Blocked(b, r))
  /\ Click(b, k, r, action, 0, 0)
  /\ UNCHANGED <<ledger, cache, fetching, batch, sheet, told, toldInBatch, fetches, elsewhere>>

(* The widget's approve, which does not look at blockedReason.  isPending  *)
(* is of one mount of the widget, so a call in flight does not forbid it.  *)
ApproveInWidget(b, k, r) ==
  /\ clicks < MaxClicks /\ clicks' = clicks + 1
  /\ sheet[b].review = NoReviewOpen /\ ~batch[b].running
  /\ cache[b][r].status = "needs-review"
  /\ Click(b, k, r, "approve", 0, 0)
  /\ UNCHANGED <<ledger, cache, fetching, batch, sheet, told, toldInBatch, fetches, elsewhere>>

\* "edit" opens the sheet on the voucher's fields as cached now.
OpenSheet(b, r) ==
  /\ sheet[b].review = NoReviewOpen
  /\ ~Blocked(b, r)
  /\ sheet' = [sheet EXCEPT ![b] = [SheetClosed EXCEPT !.review = r, !.shown = cache[b][r].fields]]
  /\ clicks < MaxClicks /\ clicks' = clicks + 1
  /\ UNCHANGED <<ledger, cache, fetching, call, batch, told, toldInBatch, fetches, elsewhere>>

(* amountsChanged: the shown amounts differ from those of the voucher as   *)
(* it is cached when the form renders, so they also count as changed when  *)
(* a fetch brought other ones while the sheet was open.                    *)
AmountsChanged(b) == sheet[b].edited \/ sheet[b].shown # cache[b][sheet[b].review].fields

\* handleSubmit of the sheet, with amounts the reviewer typed or left alone.
\* What was typed is kept apart from any version: MaxElsewhere + 2.
SubmitSheet(b, k) ==
  LET shown == IF sheet[b].edited THEN MaxElsewhere + 2 ELSE sheet[b].shown
  IN  /\ sheet[b].review # NoReviewOpen /\ sheet[b].call = 0
      /\ clicks < MaxClicks /\ clicks' = clicks + 1
      /\ Click(b, k, sheet[b].review, "approve", IF AmountsChanged(b) THEN shown ELSE 0, shown)
      /\ sheet' = [sheet EXCEPT ![b].call = k]
      /\ UNCHANGED <<ledger, cache, fetching, batch, told, toldInBatch, fetches, elsewhere>>

TypeAmounts(b) ==
  /\ sheet[b].review # NoReviewOpen /\ ~sheet[b].edited
  /\ sheet' = [sheet EXCEPT ![b].edited = TRUE]
  /\ UNCHANGED <<ledger, cache, fetching, call, batch, told, toldInBatch, clicks, fetches, elsewhere>>

CloseSheet(b) ==
  /\ sheet[b].review # NoReviewOpen
  /\ sheet' = [sheet EXCEPT ![b] = SheetClosed]
  /\ UNCHANGED <<ledger, cache, fetching, call, batch, told, toldInBatch, clicks, fetches, elsewhere>>

(* onMutationSuccess: cache the answered review, sweep, close the sheet    *)
(* when the call was one of a sheet, even of one closed before.  A failure *)
(* leaves the cache as it is and only shows an error.                      *)
DecisionDone(b, k) ==
  /\ batch[b].call # k
  /\ \/ /\ call[b][k].at = "answered"
        /\ cache' = [cache EXCEPT ![b] = ApplyOptimisticUpdate(@, call[b][k])]
        /\ InvalidateLedgerDerived(b)
        /\ sheet' = IF call[b][k].shown # 0 THEN [sheet EXCEPT ![b] = SheetClosed] ELSE sheet
        /\ told' = [told EXCEPT ![b] = @ \cup {call[b][k].review}]
     \/ /\ call[b][k].at = "failed"
        /\ sheet' = [sheet EXCEPT ![b].call = IF @ = k THEN 0 ELSE @]
        /\ UNCHANGED <<cache, fetching, told>>
  /\ call' = [call EXCEPT ![b][k] = NoCall]
  /\ UNCHANGED <<ledger, batch, toldInBatch, clicks, fetches, elsewhere>>

\* runBatch: the unblocked pending reviews, approved one after the other.
StartBatch(b) ==
  LET targets == {r \in QueueReviews : cache[b][r].status = "needs-review" /\ ~Blocked(b, r)}
  IN  /\ clicks < MaxClicks /\ clicks' = clicks + 1
      /\ sheet[b].review = NoReviewOpen
      /\ ~batch[b].running /\ targets # {}
      /\ batch' = [batch EXCEPT ![b] = [running |-> TRUE, targets |-> targets, call |-> 0]]
      /\ UNCHANGED <<ledger, cache, fetching, call, sheet, told, toldInBatch, fetches, elsewhere>>

\* The batch goes on, whichever screen its browser shows by now.
BatchStep(b, k, r) ==
  /\ batch[b].running /\ r \in batch[b].targets /\ batch[b].call = 0
  /\ Click(b, k, r, "approve", 0, 0)
  /\ batch' = [batch EXCEPT ![b].call = k]
  /\ UNCHANGED <<ledger, cache, fetching, sheet, told, toldInBatch, clicks, fetches, elsewhere>>

\* The finally of runBatch: after the last target, or the first that fails, one sweep.
EndBatch(b, left) ==
  /\ batch' = [batch EXCEPT ![b] = [running |-> left # {}, targets |-> left, call |-> 0]]
  /\ IF left = {} THEN InvalidateLedgerDerived(b) ELSE UNCHANGED fetching

BatchAnswer(b, k) ==
  /\ batch[b].call = k
  /\ \/ /\ call[b][k].at = "answered"
        /\ cache' = [cache EXCEPT ![b] = ApplyOptimisticUpdate(@, call[b][k])]
        /\ toldInBatch' = [toldInBatch EXCEPT ![b] = @ \cup {call[b][k].review}]
        /\ EndBatch(b, batch[b].targets \ {call[b][k].review})
     \/ /\ call[b][k].at = "failed"
        /\ UNCHANGED <<cache, toldInBatch>>
        /\ EndBatch(b, {})
  /\ call' = [call EXCEPT ![b][k] = NoCall]
  /\ UNCHANGED <<ledger, sheet, told, clicks, fetches, elsewhere>>

QueueNext ==
  \/ \E b \in Browsers, k \in Calls :
       \/ ServeDecision(b, k) \/ LoseDecision(b, k) \/ DecisionDone(b, k) \/ BatchAnswer(b, k)
       \/ SubmitSheet(b, k)
       \/ \E r \in QueueReviews :
            \/ BatchStep(b, k, r) \/ ApproveInWidget(b, k, r)
            \/ \E action \in DOMAIN Decision : HandleAction(b, k, r, action)
  \/ \E b \in Browsers :
       \/ StartFetch(b) \/ ServeFetch(b) \/ ReceiveFetch(b)
       \/ TypeAmounts(b) \/ CloseSheet(b) \/ StartBatch(b)
       \/ \E r \in QueueReviews : OpenSheet(b, r)
  \/ \E r \in QueueReviews :
       \/ RefreshSheetFields(r)
       \/ \E action \in DOMAIN Decision : DecidedElsewhere(r, action)

QueueSpec == QueueInit /\ [][QueueNext]_queueVars

-----------------------------------------------------------------------------
(* A decision shown is the ledger's: whoever decided first, and whatever   *)
(* this browser clicked, a review cached as decided has the status the     *)
(* ledger gave it.                                                         *)
ShownDecisionIsLedgers ==
  \A b \in Browsers, r \in QueueReviews :
    cache[b][r].status # "needs-review" => cache[b][r].status = ledger[r].status

(* A decision told by itself is shown from then on: no fetch from before   *)
(* it, no failed sweep and no batch takes it off the screen again.  A      *)
(* decision told within a batch may be overwritten by a fetch from before  *)
(* it, but not once the batch is over and its sweep has come back; while a *)
(* sweep has failed the screen may be behind, until the next fetch.        *)
ToldIsShown ==
  \A b \in Browsers :
    /\ \A r \in told[b] : cache[b][r].status = ledger[r].status
    /\ ~batch[b].running /\ fetching[b].at = "none" =>
         \A r \in toldInBatch[b] : cache[b][r].status = ledger[r].status

(* The edit sheet books the amounts it shows, typed over or not, although  *)
(* extraction refreshed the voucher meanwhile; the ledger's own amounts    *)
(* are booked only when the refresh was not in the cache yet.              *)
SheetBooksWhatItShows == \A r \in QueueReviews : ledger[r].booked # "otherwise"

\* A decision that is shown is the ledger's, a decision told is shown, for a batch once
\* its sweep is back, and a sheet books the amounts it showed.
QueueTellsTheTruth ==
  /\ ShownDecisionIsLedgers
  /\ ToldIsShown
  /\ SheetBooksWhatItShows
=============================================================================
