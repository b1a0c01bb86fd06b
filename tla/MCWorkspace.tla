----------------------------- MODULE MCWorkspace -----------------------------
(***************************************************************************)
(* Finite instances of the calculations over posted amounts and of what    *)
(* the ledger's clients keep or show: tax periods, posting lines, reports, *)
(* observations, SIE files, the event chain, signed URLs, alerts, the      *)
(* knowledge index, the snapshot and the browser's screens.  The parts     *)
(* share no state in the code: part says which one this behaviour is       *)
(* about, and the others stay at one initial state.                        *)
(***************************************************************************)
EXTENDS TaxYear, PostingLines, Observations, SieExchange, EventChain, BlobAccess,
        ComplianceAlerts, Knowledge, WorkspaceSnapshot, DashboardLayout, ShareTarget, ReviewQueue

VARIABLE part

bookVars == <<taxVars, postingVars, observationVars, sieVars, chainVars>>
clientVars == <<blobVars, complianceVars, knowledgeVars, snapshotVars, layoutVars, shareVars, queueVars>>
workspaceVars == <<part, bookVars, clientVars>>

(***************************************************************************)
(* Posting lines: gross amounts with and without net and VAT, with a       *)
(* receipt day before, on and after the decision, and edits that balance,  *)
(* do not balance, or have no account.                                     *)
(***************************************************************************)
Extracted(gross, net, vat, rate, transaction, receipt) ==
  [gross |-> gross, net |-> net, vat |-> vat, rate |-> rate,
   transaction |-> transaction, receipt |-> receipt]
MCExtractions ==
  {Extracted(1249000, Absent, Absent, 25, 1, 1),
   Extracted(1000, Absent, 125, 25, NotADay, 2),
   Extracted(1000, 790, 200, 25, 3, Absent),
   Extracted(Absent, 100, 20, 25, Absent, Absent),
   Extracted(1000, Absent, Absent, 12, 2, 1),
   Extracted(Absent, Absent, Absent, 25, Absent, NotADay)}

Edited4(gross, net, vat, edited) ==
  [gross |-> gross, net |-> net, vat |-> vat, day |-> edited, account |-> TRUE, code |-> TRUE]
MCEdits ==
  {Edited4(1000, 800, 200, Absent), Edited4(1010, 800, 200, 1), Edited4(1000, Absent, 200, Absent),
   Edited4(1000, 875, 125, 1), Edited4(Absent, Absent, Absent, 2),
   Edited4(Absent, Absent, Absent, NotADay), Edited4(1000, 900, 120, Absent),
   [Edited4(Absent, Absent, Absent, Absent) EXCEPT !.account = FALSE],
   [Edited4(Absent, Absent, Absent, 3) EXCEPT !.code = FALSE]}

(***************************************************************************)
(* Reports and observations: a cost, a sale, a transfer, a depreciation, a *)
(* payment of three accounts and a voucher outside the statements.  The    *)
(* observations start from months of rent.                                 *)
(***************************************************************************)
Line(account, debit, credit, code) ==
  [account |-> account, debit |-> debit, credit |-> credit, code |-> code]
Purchase == <<Line(6540, 160, 0, "VAT25"), Line(2641, 40, 0, "VAT25"), Line(1930, 0, 200, "NA")>>
Sale == <<Line(1930, 625, 0, "NA"), Line(3001, 0, 500, "VAT25"), Line(2610, 0, 125, "VAT25")>>
Depreciation == <<Line(7832, 30, 0, "NA"), Line(1220, 0, 30, "NA")>>
MCTemplates ==
  {Purchase, Sale, Depreciation,
   <<Line(1940, 40, 0, "NA"), Line(1930, 0, 40, "NA")>>,
   <<Line(1930, 0, 7, "NA"), Line(8410, 2, 0, "NA"), Line(2350, 1, 0, "NA"), Line(3004, 4, 0, "NA")>>,
   <<Line(9001, 50, 0, "NA"), Line(4010, 0, 50, "NA")>>}

Booked2(n, booked, debited, credited, amount) ==
  <<[voucher |-> n, account |-> debited, debit |-> amount, credit |-> 0, code |-> "NA", day |-> booked],
    [voucher |-> n, account |-> credited, debit |-> 0, credit |-> amount, code |-> "NA", day |-> booked]>>
Rent(n, booked, amount) == Booked2(n, booked, 6540, 1930, amount)
MCHistories ==
  {Booked2(1, 102, 1930, 2081, 900) \o Rent(2, 110, 100) \o Rent(3, 210, 120)
     \o Rent(4, 310, 100) \o Rent(5, 410, 120),
   Booked2(1, 415, 1930, 3004, 50) \o Rent(2, 410, 120) \o Rent(3, 420, 30)
     \o Rent(4, 501, 10) \o Rent(5, 502, 10)}

\* Two more vouchers for the observations, the first of them perhaps in an
\* earlier month, three for the reports, the third of them in the quarter.
WithinBounds ==
  lines' # lines =>
    LET last == lines'[Len(lines')]
    IN  IF part = "reports" THEN last.voucher <= (IF last.day \in {431, 501} THEN 3 ELSE 2)
        ELSE last.day \in (IF last.voucher = MaxVouchers THEN {501} ELSE {215, 501}) /\ last.account \in {1930, 2610, 1220}

(***************************************************************************)
(* SIE files: two vouchers of one number in two years, one without a       *)
(* number, an impossible day, tenths of an ore and no number for an amount *)
(***************************************************************************)
MCVerLines ==
  {[number |-> 1, day |-> "last year", opens |-> FALSE], [number |-> 1, day |-> "this year", opens |-> TRUE],
   [number |-> NoNumber, day |-> "impossible", opens |-> TRUE]}
Amount(account, amount) == [account |-> account, amount |-> amount]
MCTransLines ==
  {Amount("a", 4), Amount("a", 334), Amount("b", -668), Amount("b", NotANumber)}

(***************************************************************************)
(* Events: two orders of the keys of one payload, and another payload.     *)
(***************************************************************************)
MCPayloads ==
  {[value |-> 1, keys |-> "ab", undefined |-> FALSE], [value |-> 1, keys |-> "ba", undefined |-> TRUE],
   [value |-> 2, keys |-> "ab", undefined |-> TRUE]}

(***************************************************************************)
(* Knowledge, dashboard layouts and shares                                 *)
(***************************************************************************)
MCCheckouts ==
  <<<<[doc |-> 1, texts |-> <<{"moms", "hej"}, {"kvitto"}>>], [doc |-> 2, texts |-> <<{"moms", "lager"}>>]>>,
    <<[doc |-> 1, texts |-> <<{"moms", "lager"}>>], [doc |-> 3, texts |-> <<{"kvitto", "moms"}, {"hej"}>>]>>>>
MCQuestions == {{"moms", "hej"}, {"hej"}, {"kvitto"}}

MCWidgetIds == <<"cash", "queue", "tax">>
MCForeignRaws ==
  {[v |-> 2, order |-> <<>>, hidden |-> {"cash"}],
   [v |-> 1, order |-> <<"tax", "gone", "tax">>, hidden |-> {"gone", "tax"}]}

MCFiles == UNION {[1..n -> {"good", "bad"}] : n \in 0..3}
MCShares ==
  [files : MCFiles, text : BOOLEAN, url : BOOLEAN, foreign : {FALSE}, body : {"whole"}]
    \cup [files : {<<"good", "good">>}, text : {TRUE}, url : {TRUE},
          foreign : BOOLEAN, body : {"whole", "too large", "malformed"}]
MCIntakes == [runtimeMode : {"demo", "normal"}, api : BOOLEAN]

-----------------------------------------------------------------------------
MCInit ==
  /\ part \in {"tax", "posting", "reports", "observations", "sie", "chain", "blob",
               "compliance", "knowledge", "snapshot", "layout", "share", "queue"}
  /\ IF part = "tax" THEN TaxInit
     ELSE profile = [start |-> 101, cadence |-> "monthly"] /\ today = 0
  /\ PostingInit
  /\ part # "posting" => fields = Derived(Extracted(1000, Absent, Absent, 12, 2, 1))
  /\ IF part = "observations" THEN ObservationInit
     ELSE ReportInit /\ captured = <<>> /\ dashboard = [pack |-> 0, journal |-> 0, captured |-> 0]
  /\ SieInit
  /\ ChainInit /\ (part = "chain" \/ scheme = "sha256")
  /\ BlobInit
  /\ ComplianceInit /\ (part = "compliance" \/ store = "memory")
  /\ KnowledgeInit
  /\ SnapshotInit
  /\ LayoutInit /\ (part = "layout" \/ stored = NoRaw)
  /\ ShareInit
  /\ part # "share" => /\ share = [files |-> <<>>, text |-> FALSE, url |-> FALSE, foreign |-> FALSE, body |-> "whole"]
                       /\ intake = [runtimeMode |-> "demo", api |-> TRUE]
  /\ QueueInit /\ ledger["v1"].fields = 1 /\ (part = "queue" \/ ledger["v2"].fields = 0)

\* Bound: of the two decisions that no gate holds back this browser takes one, others both.
OthersBookWithoutVat == \A b \in Browsers, k \in Calls : call'[b][k].action # "withoutVat"

BookNext ==
  \/ part = "tax" /\ TaxNext /\ UNCHANGED <<postingVars, observationVars, sieVars, chainVars>>
  \/ part = "posting" /\ PostingNext /\ UNCHANGED <<taxVars, observationVars, sieVars, chainVars>>
  \/ part = "reports" /\ ReportNext /\ WithinBounds /\ UNCHANGED <<taxVars, postingVars, captured, dashboard, sieVars, chainVars>>
  \/ part = "observations" /\ ObservationNext /\ WithinBounds /\ UNCHANGED <<taxVars, postingVars, sieVars, chainVars>>
  \/ part = "sie" /\ SieNext /\ UNCHANGED <<taxVars, postingVars, observationVars, chainVars>>
  \/ part = "chain" /\ ChainNext /\ UNCHANGED <<taxVars, postingVars, observationVars, sieVars>>

ClientNext ==
  \/ part = "blob" /\ BlobNext
       /\ UNCHANGED <<complianceVars, knowledgeVars, snapshotVars, layoutVars, shareVars, queueVars>>
  \/ part = "compliance" /\ ComplianceNext
       /\ UNCHANGED <<blobVars, knowledgeVars, snapshotVars, layoutVars, shareVars, queueVars>>
  \/ part = "knowledge" /\ KnowledgeNext
       /\ UNCHANGED <<blobVars, complianceVars, snapshotVars, layoutVars, shareVars, queueVars>>
  \/ part = "snapshot" /\ SnapshotNext
       /\ UNCHANGED <<blobVars, complianceVars, knowledgeVars, layoutVars, shareVars, queueVars>>
  \/ part = "layout" /\ LayoutNext
       /\ UNCHANGED <<blobVars, complianceVars, knowledgeVars, snapshotVars, shareVars, queueVars>>
  \/ part = "share" /\ ShareNext
       /\ UNCHANGED <<blobVars, complianceVars, knowledgeVars, snapshotVars, layoutVars, queueVars>>
  \/ part = "queue" /\ QueueNext /\ OthersBookWithoutVat
       /\ UNCHANGED <<blobVars, complianceVars, knowledgeVars, snapshotVars, layoutVars, shareVars>>

MCNext ==
  /\ UNCHANGED part
  /\ \/ BookNext /\ UNCHANGED clientVars
     \/ ClientNext /\ UNCHANGED bookVars

MCSpec == MCInit /\ [][MCNext]_workspaceVars
=============================================================================
