----------------------------- MODULE SieExchange -----------------------------
(***************************************************************************)
(* SIE files in and out: the line machine of parseSie, the planning of an  *)
(* import, the stores' duplicate check, and the export.  A file arrives    *)
(* line by line and may be cut off or damaged anywhere.  A line is what    *)
(* the tokenizer makes of it; amounts are thousandths of a krona.          *)
(***************************************************************************)
EXTENDS ListPlaces

CONSTANTS
    VerLines,       \* the #VER lines a file may hold
    TransLines,     \* the amounts of its #TRANS lines, by account
    NoNumber,       \* a #VER without a voucher number
    NotANumber,     \* an amount parseFloat makes NaN of
    MaxLines,       \* bound: lines of a file, while the journal is empty
    MaxMoreLines,   \* bound: lines of a file, when it is not
    MaxSieVouchers,    \* SIE_IMPORT_MAX_VOUCHERS
    MaxSieLines        \* SIE_IMPORT_MAX_LINES_PER_VOUCHER

ASSUME SieConstants ==
    /\ \A line \in VerLines : line.opens \in BOOLEAN
    /\ \A line \in TransLines : line.amount \in Int \cup {NotANumber}
    /\ NotANumber \notin Int /\ NoNumber \notin Nat \ {0}
    /\ MaxLines \in Nat /\ MaxMoreLines \in Nat
    /\ MaxSieVouchers \in Nat /\ MaxSieLines \in Nat

VARIABLES
    text,       \* the lines read so far
    parser,     \* pendingVoucher, inBlock and vouchers
    answer,     \* what the import reported, before it: an empty sequence
    journal     \* the imported vouchers in the order of the log

sieVars == <<text, parser, answer, journal>>

\* A line: a #VER, which may open its block itself, a #TRANS, a brace, or a
\* line of no concern (another label, or no label at all).
Ver(line)   == [kind |-> "ver", number |-> line.number, day |-> line.day, opens |-> line.opens]
Trans(line) == [kind |-> "trans", account |-> line.account, amount |-> line.amount]
Mark(kind)  == [kind |-> kind]

Lines ==
    {Ver(line) : line \in VerLines} \cup {Trans(line) : line \in TransLines}
        \cup {Mark("{"), Mark("}"), Mark("other")}

StartOfFile == [pending |-> <<>>, inBlock |-> FALSE, vouchers |-> <<>>]

\* `pending` holds the voucher under construction, or nothing.
CommitBlock(p) == [pending |-> <<>>, inBlock |-> FALSE, vouchers |-> p.vouchers \o p.pending]

\* The voucher under construction is forgotten.
DropPending(p) == [p EXCEPT !.pending = <<>>]

\* A #VER or the end of the file comes before the previous #VER was closed.
Interrupt(p) == IF p.pending = <<>> THEN p ELSE CommitBlock(p)

ReadVer(p, line) ==
    [pending  |-> <<[number |-> line.number, day |-> line.day, transactions |-> <<>>]>>,
     inBlock  |-> line.opens,
     vouchers |-> Interrupt(p).vouchers]

Transaction(line) == [account |-> line.account, amount |-> line.amount]

WithTransaction(voucher, line) ==
    [voucher EXCEPT !.transactions = Append(@, Transaction(line))]

ReadTrans(p, line) ==
    IF p.inBlock /\ p.pending # <<>>
    THEN [p EXCEPT !.pending = <<WithTransaction(@[1], line)>>]
    ELSE p

ReadLine(p, line) ==
    CASE line.kind = "ver"   -> ReadVer(p, line)
      [] line.kind = "trans" -> ReadTrans(p, line)
      [] line.kind = "{"     -> [p EXCEPT !.inBlock = @ \/ p.pending # <<>>]
      [] line.kind = "}"     -> IF p.inBlock THEN CommitBlock(p) ELSE p
      [] line.kind = "other" -> p

EndOfFile(p) == Interrupt(p).vouchers

ParseSie(lines) ==
    LET read[n \in 0 .. Len(lines)] ==
            IF n = 0 THEN StartOfFile ELSE ReadLine(read[n - 1], lines[n])
    IN  EndOfFile(read[Len(lines)])

----------------------------------------------------------------------------
(* planSieImport                                                           *)

SieAmounts(voucher) == {voucher.transactions[i].amount : i \in DOMAIN voucher.transactions}

RawSum(voucher) == Total([i \in DOMAIN voucher.transactions |-> voucher.transactions[i].amount])

\* round2 of a side, in ore: halves go up.
SideOre(thousandths) == IF thousandths > 0 THEN (thousandths + 5) \div 10 ELSE 0

JournalLine(t) ==
    [account |-> t.account, debit |-> SideOre(t.amount), credit |-> SideOre(-t.amount)]

JournalLines(voucher) ==
    [i \in DOMAIN voucher.transactions |-> JournalLine(voucher.transactions[i])]

LinesImbalance(lines) == Total([i \in DOMAIN lines |-> lines[i].debit - lines[i].credit])

\* The id of a voucher without a number is its position in the file.
AggregateId(vouchers, i) ==
    IF vouchers[i].number = NoNumber THEN <<"pos", i>> ELSE <<"number", vouchers[i].number>>

\* Date.parse takes any day up to 31 in any month.
DateParses(day) == day # "invalid"

WithinTolerance(sum) == sum >= -5 /\ sum <= 5

Balanced(voucher) ==
    /\ WithinTolerance(RawSum(voucher))
    /\ LinesImbalance(JournalLines(voucher)) = 0

Importable(voucher) ==
    /\ DateParses(voucher.day)
    /\ voucher.transactions # <<>>
    /\ NotANumber \notin SieAmounts(voucher)
    /\ Balanced(voucher)

\* A voucher whose id an earlier one of the file took is a duplicate, even
\* when the rounding guard refuses the earlier one.
TakesItsId(voucher) ==
    /\ DateParses(voucher.day)
    /\ voucher.transactions # <<>>
    /\ NotANumber \notin SieAmounts(voucher)
    /\ WithinTolerance(RawSum(voucher))

Repeats(vouchers, i) ==
    \E j \in 1 .. i - 1 : TakesItsId(vouchers[j]) /\ AggregateId(vouchers, j) = AggregateId(vouchers, i)

SieEntry(vouchers, i) ==
    [id |-> AggregateId(vouchers, i), day |-> vouchers[i].day, lines |-> JournalLines(vouchers[i])]

\* SieImportError: too many vouchers, or too many lines in one of them, and
\* the file is refused whole.
BeyondBounds(vouchers) ==
    \/ Len(vouchers) > MaxSieVouchers
    \/ \E i \in DOMAIN vouchers : Len(vouchers[i].transactions) > MaxSieLines

\* The vouchers of a file that are planned.
PlanSieImport(vouchers) ==
    {i \in DOMAIN vouchers :
        ~BeyondBounds(vouchers) /\ Importable(vouchers[i]) /\ ~Repeats(vouchers, i)}

EntriesAt(vouchers, places) ==
    [n \in 1 .. Cardinality(places) |-> SieEntry(vouchers, Nth(places, n))]

PlannedEntries(vouchers) == EntriesAt(vouchers, PlanSieImport(vouchers))

KnownIds(entries) == {entries[i].id : i \in DOMAIN entries}

\* importSie of both stores: what a VoucherImported event names already is
\* reported as a duplicate.
NewPlaces(vouchers, book) ==
    {i \in PlanSieImport(vouchers) : AggregateId(vouchers, i) \notin KnownIds(book)}

NewEntries(vouchers, book) == EntriesAt(vouchers, NewPlaces(vouchers, book))

----------------------------------------------------------------------------
(* buildSieExport: one numbered voucher for each voucher of the journal    *)

ExportedLines(entry) ==
    [i \in DOMAIN entry.lines |->
        [kind |-> "trans", account |-> entry.lines[i].account,
         amount |-> 10 * (entry.lines[i].debit - entry.lines[i].credit)]]

ExportedVoucher(n, entry) ==
    <<[kind |-> "ver", number |-> n, day |-> entry.day, opens |-> FALSE], Mark("{")>>
        \o ExportedLines(entry) \o <<Mark("}")>>

SieExport(book) ==
    LET written[n \in 0 .. Len(book)] ==
            IF n = 0 THEN <<>> ELSE written[n - 1] \o ExportedVoucher(n, book[n])
    IN  written[Len(book)]

----------------------------------------------------------------------------

SieInit == text = <<>> /\ parser = StartOfFile /\ answer = <<>> /\ journal = <<>>

Refused == [imported |-> 0, skipped |-> 0]

\* The next line of the file that is uploaded.
ReadNextLine(line) ==
    /\ answer = <<>> /\ Len(text) < (IF journal = <<>> THEN MaxLines ELSE MaxMoreLines)
    /\ text' = Append(text, line)
    /\ parser' = ReadLine(parser, line)
    /\ UNCHANGED <<answer, journal>>

\* The file ends here, complete or not, and is imported: a first time, or
\* again, because the answer was lost.
ImportTheFile ==
    LET vouchers == EndOfFile(parser)
        new == NewEntries(vouchers, journal)
    IN  /\ text # <<>> /\ ~BeyondBounds(vouchers)
        /\ journal' = journal \o new
        /\ answer' = <<[imported |-> Len(new), skipped |-> Len(vouchers) - Len(new)]>>
        /\ UNCHANGED <<text, parser>>

\* planSieImport throws, and nothing of the file is imported.
RefuseTheFile ==
    /\ BeyondBounds(EndOfFile(parser))
    /\ answer' = <<Refused>>
    /\ UNCHANGED <<text, parser, journal>>

\* Another file is chosen: of this year, of another one, or an export.
ChooseAnotherFile ==
    /\ answer # <<>>
    /\ text' = <<>> /\ parser' = StartOfFile /\ answer' = <<>>
    /\ UNCHANGED journal

SieNext ==
    \/ \E line \in Lines : ReadNextLine(line)
    \/ ImportTheFile
    \/ RefuseTheFile
    \/ ChooseAnotherFile

SieSpec == SieInit /\ [][SieNext]_sieVars

----------------------------------------------------------------------------

\* The block of the #VER at k starts at o: at k itself, or at the first brace.
OpensAt(lines, k, o) ==
    IF lines[k].opens THEN o = k
    ELSE lines[o].kind = "{" /\ \A j \in k + 1 .. o - 1 : lines[j].kind # "{"

InBlockOf(lines, k, n) ==
    \E o \in k .. n - 1 : OpensAt(lines, k, o) /\ \A j \in o + 1 .. n - 1 : lines[j].kind # "}"

VersIn(lines) == {n \in 1 .. Len(lines) : lines[n].kind = "ver"}

\* The #TRANS lines of the #VER at k: in its block and before the next #VER.
TransOf(lines, k) ==
    {n \in k + 1 .. Len(lines) :
        /\ lines[n].kind = "trans" /\ InBlockOf(lines, k, n)
        /\ \A j \in k + 1 .. n : lines[j].kind # "ver"}

VoucherAt(lines, k) ==
    [number |-> lines[k].number, day |-> lines[k].day,
     transactions |-> [i \in 1 .. Cardinality(TransOf(lines, k)) |->
                          Transaction(lines[Nth(TransOf(lines, k), i)])]]

VouchersIn(lines) ==
    [i \in 1 .. Cardinality(VersIn(lines)) |-> VoucherAt(lines, Nth(VersIn(lines), i))]

\* However the braces of a file are lost or doubled, and wherever it is cut
\* off, parseSie makes one voucher of every #VER line, with exactly the
\* #TRANS lines between its opening and its closing.
ReadAsWritten == answer = <<>> => EndOfFile(parser) = VouchersIn(text)

\* Whatever thousandths a file adds up, an imported voucher balances to the
\* ore after each of its lines was rounded.
ImportedToTheOre ==
    \A i \in DOMAIN journal : LinesImbalance(journal[i].lines) = 0

\* No file brings a voucher into the journal twice under one id, and a file
\* that is sent again, its unnumbered vouchers included, adds nothing.
SentAgainAddsNothing ==
    /\ Cardinality(KnownIds(journal)) = Len(journal)
    /\ answer # <<>> => NewEntries(EndOfFile(parser), journal) = <<>>

\* The vouchers of a file that the journal does not hold as they are written.
NotBooked(vouchers, book) ==
    {i \in DOMAIN vouchers :
        Importable(vouchers[i]) => \A j \in DOMAIN book : book[j] # SieEntry(vouchers, i)}

\* Every voucher of an imported file that did not come into the journal as it
\* is written is among those reported as skipped: one that breaks a rule,
\* and one whose number a voucher of another fiscal year took.
LossesAreTold ==
    answer \notin {<<>>, <<Refused>>} =>
        Cardinality(NotBooked(EndOfFile(parser), journal)) <= answer[1].skipped

\* An export of the journal, read and planned elsewhere, gives the same
\* lines on the same days: nothing is skipped, merged or turned around.  A
\* journal that several files have made longer than one file may be is
\* exported all the same, and its export is refused whole.
ExportComesBack ==
    LET vouchers == ParseSie(SieExport(journal))
        again == PlannedEntries(vouchers)
    IN  IF Len(journal) > MaxSieVouchers
        THEN BeyondBounds(vouchers)
        ELSE /\ ~BeyondBounds(vouchers) /\ Len(again) = Len(journal)
             /\ \A i \in DOMAIN journal :
                   again[i].day = journal[i].day /\ again[i].lines = journal[i].lines

\* Files are read as they were written wherever they are damaged, imported to
\* the ore and once, what is not imported is told, and what was imported comes
\* back from an export within the bounds of an import.
FilesSurvive ==
  /\ ReadAsWritten
  /\ ImportedToTheOre
  /\ SentAgainAddsNothing
  /\ LossesAreTold
  /\ ExportComesBack
=============================================================================
