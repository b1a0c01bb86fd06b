-------------------------- MODULE MemoryLedgerRows --------------------------
(***************************************************************************)
(* The rows of the in-memory store beside its log.  The history variable   *)
(* overwritten tells the vouchers a stale row was written back over from   *)
(* the others, of which everything holds that holds without concurrency.   *)
(***************************************************************************)
EXTENDS MemoryLedgerStore

VARIABLE overwritten

rowsVars == <<vars, overwritten>>

RowsInit == Init /\ overwritten = {}

RowsNext == Next /\ overwritten' = overwritten \cup StaleWrites

RowsSpec == RowsInit /\ [][RowsNext]_rowsVars

Current == DOMAIN vouchers \ overwritten

\* The voucher rows are the projection of the log, but for those a refresh
\* brought back from before its await.
LogExplainsCurrent == VouchersExplained(events, vouchers, Current)

\* The suggestion and the fields a decided voucher shows are the ones its
\* journal lines were computed from, but for those brought back.
DecidedCurrentIsPosted == PostingsShown(events, vouchers, reviews, Current)

\* A voucher and its review carry the same status: a decision reaches both, and
\* only a row brought back makes them differ.
CurrentFollowsReview ==
    \A v \in Current : vouchers[v].status = reviews[v].status

\* The log is the truth (docs/CONVENTIONS.md): whatever a refresh that was
\* overrun by a decision did not write back is what the log says of it, and
\* every decision of the log is the one its review shows.
RowsFollowLog ==
  /\ LogExplainsCurrent
  /\ DecidedCurrentIsPosted
  /\ CurrentFollowsReview
  /\ OpenSuggestionIsLogged
  /\ LogExplainsDecisions
=============================================================================
