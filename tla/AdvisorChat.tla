----------------------------- MODULE AdvisorChat -----------------------------
(***************************************************************************)
(* The advisor proposes a review decision, a human answers the proposal,   *)
(* and the server executes an approval through the ordinary review gate.   *)
(* The browser keeps the thread and sends all of it with every turn        *)
(* (advisor-chat.tsx, tool-approval.ts); what finished is saved in         *)
(* localStorage and comes back after a reload (assistant-thread-storage);  *)
(* the server (chat.ts) checks the history, validates a proposal against a *)
(* snapshot it awaits, and applies the decision after that.  Meanwhile     *)
(* others decide reviews and refresh suggestions.                          *)
(*                                                                         *)
(* Of a thread only the last message matters, and where the first message  *)
(* of more than 8 KiB is: the code looks nowhere else for a proposal, and  *)
(* checks the size of all.  A turn is one POST of the thread.  The demo is *)
(* the one with an API; its answers are short.                             *)
(***************************************************************************)
EXTENDS Integers

CONSTANTS
  Reviews,         \* reviews of the queue
  Turns,           \* turns, each used once
  NoTurn,
  NoReview,        \* a review id that is not in the workspace
  MaxMessages,     \* MAX_ADVISOR_MESSAGES
  MaxSuggestions   \* bound: suggestions a review goes through

ASSUME AdvisorConstants ==
  /\ NoTurn \notin Turns /\ NoReview \notin Reviews
  /\ MaxMessages \in Nat /\ MaxMessages % 2 = 0
  /\ MaxSuggestions \in Nat \ {0}

VARIABLES
  mode,      \* "demo" or "normal"
  gate,      \* the reviews in the ledger, and who decided them with what
  thread,    \* the thread in the open page
  saved,     \* its copy in localStorage
  turn,
  human      \* ghost: what a human has approved on a card

advisorVars == <<mode, gate, thread, saved, turn, human>>

NoProposal == [state |-> "none", review |-> NoReview, suggestion |-> 0,
               fits |-> FALSE, signed |-> FALSE, approved |-> FALSE]

\* What the model (or the demo brain) can stream.  The demo proposes the
\* current suggestion of a pending review; a model may author anything, a
\* review that does not exist or codes that are not valid included.
Proposals ==
  {p \in [state : {"requested"}, review : Reviews \cup {NoReview},
          suggestion : 1..MaxSuggestions, fits : BOOLEAN,
          signed : {mode = "normal"}, approved : {FALSE}] :
     mode = "demo" =>
       /\ p.review \in Reviews /\ p.fits
       /\ gate[p.review].status = "needs-review"
       /\ p.suggestion = gate[p.review].suggestion}

Busy == thread.waiting # NoTurn
\* What the server turns away: too many messages, or one of them too long.
TooLong(messages) == messages.count > MaxMessages \/ messages.long # 0

NewTurn(t, kind, proposal) ==
  [turn EXCEPT ![t] = [state |-> "sent", kind |-> kind, proposal |-> proposal,
                       outcome |-> "none", overtaken |-> FALSE]]

(***************************************************************************)
(* The browser                                                             *)
(***************************************************************************)
\* A POST of a thread that is too long is a 422: the page shows the error and
\* keeps the message it has just added.
Post(t, kind, next) ==
  IF TooLong(next)
  THEN /\ thread' = [next EXCEPT !.failed = TRUE]
       /\ UNCHANGED turn
  ELSE /\ thread' = [next EXCEPT !.waiting = t]
       /\ turn' = NewTurn(t, kind, next.proposal)

\* Where the first message too long for the server is, or 0; the last message is
\* number last, and may be one.
FirstLong(last, long) ==
  IF thread.long = 0 /\ long THEN last ELSE thread.long

\* sendMessage: the question becomes the last message, as long as it was typed.
Ask(t, long) ==
  /\ ~Busy /\ turn[t].state = "unused" /\ thread.count <= MaxMessages
  /\ Post(t, "question",
          [thread EXCEPT !.count = @ + 1, !.proposal = NoProposal,
                         !.long = FirstLong(thread.count + 1, long)])
  /\ UNCHANGED <<mode, gate, saved, human>>

\* respondToApprovalPreservingSignature, then the thread is sent as it is.
Responded(proposal, approved) ==
  [proposal EXCEPT !.state = "responded", !.approved = approved]

Respond(t, approved) ==
  /\ ~Busy /\ turn[t].state = "unused"
  /\ thread.proposal.state = "requested"
  /\ Post(t, "approval",
          [thread EXCEPT !.proposal = Responded(@, approved)])
  /\ human' = IF approved
              THEN human \cup {<<thread.proposal.review, thread.proposal.suggestion>>}
              ELSE human
  /\ UNCHANGED <<mode, gate, saved>>

\* onFinish: the message is complete, and the thread is saved.  The answer to a
\* question is a message, what follows an approval is added to the card's own.
Answered(t) == IF turn[t].kind = "question" THEN thread.count + 1 ELSE thread.count

Complete(t) ==
  /\ \E long \in {FALSE, mode = "normal"} :
       thread' = [thread EXCEPT
         !.waiting = NoTurn,
         !.count = Answered(t),
         !.long = FirstLong(Answered(t), long),
         !.proposal = IF turn[t].kind = "question" THEN turn[t].proposal
                      ELSE [@ EXCEPT !.state = turn[t].outcome]]
  /\ saved' = thread'
  /\ turn' = [turn EXCEPT ![t].state = "done"]
  /\ UNCHANGED <<mode, gate, human>>

Receive(t) == thread.waiting = t /\ turn[t].state = "answered" /\ Complete(t)

\* The answer is an error, or does not come: nothing is saved.
Fail(t) ==
  /\ thread.waiting = t
  /\ thread' = [thread EXCEPT !.waiting = NoTurn, !.failed = TRUE]
  /\ UNCHANGED <<mode, gate, saved, turn, human>>

ReceiveError(t) == turn[t].state = "failed" /\ Fail(t)
LoseAnswer(t) == turn[t].state # "failed" /\ Fail(t)

\* The page is loaded again and opens the saved thread.
ReloadPage ==
  /\ thread' = [saved EXCEPT !.failed = thread.failed \/ Busy]
  /\ thread' # thread
  /\ UNCHANGED <<mode, gate, saved, turn, human>>

(***************************************************************************)
(* The server                                                              *)
(***************************************************************************)
\* A question: the answer streams a proposal, or none, or the model fails.
AnswerQuestion(t) ==
  /\ turn[t].state = "sent" /\ turn[t].kind = "question"
  /\ \/ \E p \in Proposals \cup {NoProposal} :
          turn' = [turn EXCEPT ![t].state = "answered", ![t].proposal = p]
     \/ mode = "normal" /\ turn' = [turn EXCEPT ![t].state = "failed"]
  /\ UNCHANGED <<mode, gate, thread, saved, human>>

\* rejectReviewProposal, on the snapshot.
Stands(p) ==
  /\ p.review \in Reviews /\ p.fits
  /\ gate[p.review].status = "needs-review"

\* An answer to a proposal: a denial ends it, an unsigned approval fails the
\* turn in normal mode, and an approval is validated.
ValidateApproval(t) ==
  LET p == turn[t].proposal
      refused == [turn EXCEPT ![t].state = "answered", ![t].outcome = "refused"]
  IN /\ turn[t].state = "sent" /\ turn[t].kind = "approval"
     /\ turn' = IF mode = "normal" /\ ~p.signed
                THEN [turn EXCEPT ![t].state = "failed"]
                ELSE IF p.approved /\ Stands(p)
                     THEN [turn EXCEPT ![t].state = "validated"]
                     ELSE refused
     /\ UNCHANGED <<mode, gate, thread, saved, human>>

\* What the store suggests when the decision is made.
EditedAfresh(p) == gate[p.review].suggestion

\* The account and code that are posted are those of the proposal.
Edited(p) == p.suggestion

\* applyReviewDecision(approve): an open review is decided, a decided one is
\* replayed, and in normal mode an open one may be blocked.
ApplyApproval(t) ==
  LET p == turn[t].proposal
  IN /\ turn[t].state = "validated"
     /\ \/ /\ gate[p.review].status = "needs-review"
           /\ gate' = [gate EXCEPT ![p.review] =
                [@ EXCEPT !.status = "approved", !.by = "advisor", !.edited = Edited(p)]]
           /\ turn' = [turn EXCEPT ![t].state = "answered", ![t].outcome = "approved"]
        \/ /\ gate[p.review].status # "needs-review"
           /\ turn' = [turn EXCEPT ![t].state = "answered", ![t].outcome = "approved"]
           /\ UNCHANGED gate
        \/ /\ gate[p.review].status = "needs-review" /\ mode = "normal"
           /\ turn' = [turn EXCEPT ![t].state = "answered", ![t].outcome = "refused"]
           /\ UNCHANGED gate
     /\ UNCHANGED <<mode, thread, saved, human>>

(***************************************************************************)
(* The others                                                              *)
(***************************************************************************)
\* Somebody decides the review in the queue.
Decide(r, status) ==
  /\ gate[r].status = "needs-review"
  /\ gate' = [gate EXCEPT ![r].status = status, ![r].by = "queue"]
  /\ turn' = [t \in Turns |->
       [turn[t] EXCEPT !.overtaken =
          @ \/ (turn[t].state = "validated" /\ turn[t].proposal.review = r)]]
  /\ UNCHANGED <<mode, thread, saved, human>>

\* An extraction regenerates the suggestion of an open review.
RefreshSuggestion(r) ==
  /\ gate[r].status = "needs-review" /\ gate[r].suggestion < MaxSuggestions
  /\ gate' = [gate EXCEPT ![r].suggestion = @ + 1]
  /\ UNCHANGED <<mode, thread, saved, turn, human>>

NewThread == [count |-> 0, long |-> 0, proposal |-> NoProposal, waiting |-> NoTurn,
              failed |-> FALSE]

AdvisorInit ==
  /\ mode \in {"demo", "normal"}
  /\ gate = [r \in Reviews |->
       [status |-> "needs-review", by |-> "nobody", suggestion |-> 1, edited |-> 0]]
  /\ thread = NewThread
  /\ saved = NewThread
  /\ turn = [t \in Turns |->
       [state |-> "unused", kind |-> "question", proposal |-> NoProposal,
        outcome |-> "none", overtaken |-> FALSE]]
  /\ human = {}

ServerStep(t) == AnswerQuestion(t) \/ ValidateApproval(t) \/ ApplyApproval(t)

AdvisorNext ==
  \/ \E t \in Turns :
       \/ \E long \in BOOLEAN : Ask(t, long)
       \/ \E approved \in BOOLEAN : Respond(t, approved)
       \/ Receive(t) \/ ReceiveError(t) \/ LoseAnswer(t)
       \/ ServerStep(t)
  \/ ReloadPage
  \/ \E r \in Reviews :
       \/ \E status \in {"approved", "rejected"} : Decide(r, status)
       \/ RefreshSuggestion(r)

\* The server finishes what it has begun, and a page that is not cut off gets
\* its answer.
AdvisorFairness ==
  \A t \in Turns :
    WF_advisorVars(ServerStep(t)) /\ WF_advisorVars(Receive(t) \/ ReceiveError(t))

AdvisorSpec == AdvisorInit /\ [][AdvisorNext]_advisorVars /\ AdvisorFairness

(***************************************************************************)
(* Properties                                                              *)
(***************************************************************************)
\* The advisor decides nothing on its own: what it posted is a review and an
\* account that a human approved on a card, whatever was refreshed or reloaded
\* since (chat.ts, the invariant of the module comment).
PostedAsApproved ==
  \A r \in Reviews :
    gate[r].by = "advisor" => <<r, gate[r].edited>> \in human

\* What the page is told of an approval is what the ledger has, but for two ways:
\* the queue rejected the review between the check of the proposal and the
\* decision, which then replays the rejection and is told as an approval (against
\* chat.ts:320-322, which means the check to catch it); and a refusal of what the
\* advisor did post follows an answer that the page missed.
WrongReportHasACause ==
  \A t \in Turns :
    LET p == turn[t].proposal
        falselyApproved == /\ turn[t].outcome = "approved"
                           /\ gate[p.review].status # "approved"
        falselyRefused == /\ turn[t].outcome = "refused" /\ mode = "demo"
                          /\ p.approved /\ p.fits /\ p.review \in Reviews
                          /\ gate[p.review].by = "advisor"
    IN (falselyApproved => turn[t].overtaken) /\ (falselyRefused => thread.failed)

\* A card is put up that the next POST is too long to answer only in a thread
\* in which a turn has failed (questions without an answer shift the count by one,
\* and a long message stays), or when the message of the card is itself too long
\* (chat.ts:62-64, MaxMessages is even).
UnanswerableCardHasACause ==
  thread.proposal.state = "requested" /\ TooLong(thread) =>
    thread.failed \/ thread.long = thread.count

\* No approval is turned away for want of its signature, whatever was saved and
\* reloaded between the card and the answer (tool-approval.ts exists for it).
ApprovalKeepsItsSignature ==
  \A t \in Turns : turn[t].kind = "approval" => turn[t].state # "failed"

\* The page does not wait for ever: every turn ends in an answer, a refusal or
\* an error, an approval that is not signed included.
EveryTurnSettles == Busy ~> ~Busy

\* What the assistant proposes reaches the ledger as a human approved it and in
\* no other way, what the human is told of it is so but for two ways, and no card
\* is lost but to a failure or to the length of its own message.
HumansDecide ==
  /\ PostedAsApproved
  /\ WrongReportHasACause
  /\ UnanswerableCardHasACause
  /\ ApprovalKeepsItsSignature
=============================================================================
