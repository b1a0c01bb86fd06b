---------------------------- MODULE PostingBook ----------------------------
(***************************************************************************)
(* What a ledger store promises about decisions, whatever it stores and    *)
(* however its requests interleave: a voucher is decided once, and the     *)
(* posting a decision causes enters the book in the same step, at a place  *)
(* of the log behind every earlier posting.                                *)
(***************************************************************************)
EXTENDS Naturals, Sequences

CONSTANT Positions   \* the places of the event log

VARIABLES status,    \* status[v]: the review status of voucher v
          postings   \* postings[v]: the places where voucher v was posted

bookVars == <<status, postings>>

Outcomes == {"approved", "rejected", "booked-without-vat"}

\* The book is empty, or holds the demo workspace's seeded voucher.
Init ==
    /\ status \in { <<>>, <<"needs-review">> }
    /\ postings = [v \in DOMAIN status |-> {}]

\* A new voucher awaits its review and is in the book nowhere.
Open ==
    /\ status' = Append(status, "needs-review")
    /\ postings' = Append(postings, {})

\* A rejection decides without posting.
Decide(v, outcome, at) ==
    /\ status[v] = "needs-review"
    /\ \A w \in DOMAIN postings : \A earlier \in postings[w] : earlier < at
    /\ status' = [status EXCEPT ![v] = outcome]
    /\ postings' = [postings EXCEPT ![v] = IF outcome = "rejected" THEN {} ELSE {at}]

Next ==
    \/ Open
    \/ \E v \in DOMAIN status, outcome \in Outcomes, at \in Positions :
            Decide(v, outcome, at)

Spec == Init /\ [][Next]_bookVars

=============================================================================
