------------------------------ MODULE EventChain ------------------------------
(***************************************************************************)
(* What the integrity report sees of the event log: how an event is hashed *)
(* before and after the cutover from djb2 to SHA-256, what a payload looks *)
(* like after jsonb has stored it, and how a log that lost, moved or       *)
(* changed rows is told from an honest one.  Hashes are injective: a hash  *)
(* is the scheme and what was hashed.                                      *)
(***************************************************************************)
EXTENDS Integers, Sequences, SequencesExt

CONSTANTS
    Payloads,       \* [value, keys, undefined]: what it says, the order of its keys, and
                    \* whether some property of it is undefined
    MaxChain,       \* bound: events
    MaxDamage       \* bound: rows lost, moved or changed

VARIABLES
    rows,       \* ledger.events in the order of the sequence
    written,    \* every event as it was appended, and the one it followed
    scheme,     \* which hash the deployed version appends
    damages     \* how often the rows were damaged

chainVars == <<rows, written, scheme, damages>>

\* The previousHash of the first event.
Genesis == <<"GENESIS">>

\* jsonb keeps no key order and no undefined property.
Jsonb(payload) == [value |-> payload.value, keys |-> "jsonb", undefined |-> FALSE]

\* JSON.stringify drops what is undefined and keeps the order of the keys.
JsonStringify(payload) == [value |-> payload.value, keys |-> payload.keys, undefined |-> FALSE]

\* canonicalJson sorts the keys and drops what is undefined.
CanonicalJson(payload) == [value |-> payload.value, keys |-> "sorted", undefined |-> FALSE]

\* SHA-256 of the serialised pair, and djb2 of the text.
Sha256EventHash(previous, payload) == <<"sha256", previous, CanonicalJson(payload)>>

StringifiedEventHash(previous, payload) == <<"sha256", previous, JsonStringify(payload)>>

BuildEventHash(previous, payload) == Sha256EventHash(previous, payload)

LegacyDjb2EventHash(previous, payload) == <<"djb2", previous, JsonStringify(payload)>>

DetectEventHashScheme(hash) == Head(hash)

TailHash == IF rows = <<>> THEN Genesis ELSE Last(rows).hash

Appended(payload) ==
    [id       |-> Len(written) + 1,
     after    |-> IF rows = <<>> THEN 0 ELSE Last(rows).id,
     previous |-> TailHash,
     payload  |-> payload,
     hash     |-> IF scheme = "sha256" THEN BuildEventHash(TailHash, payload)
                  ELSE LegacyDjb2EventHash(TailHash, payload)]

Stored(event) == [event EXCEPT !.payload = Jsonb(@)]

----------------------------------------------------------------------------
(* summarizeEventIntegrity                                                 *)

ExpectedPrevious(log, i) == IF i = 1 THEN Genesis ELSE log[i - 1].hash

LinkedToPrevious(log) ==
    \A i \in DOMAIN log : log[i].previous = ExpectedPrevious(log, i)

Linked(log) == LinkedToPrevious(log)

\* No djb2 hash behind a SHA-256 one.
CutOverOnce(log) ==
    \A i, j \in DOMAIN log :
        i < j /\ DetectEventHashScheme(log[i].hash) = "sha256"
            => DetectEventHashScheme(log[j].hash) = "sha256"

ChainLinked(log) == Linked(log) /\ CutOverOnce(log)

RecomputedOf(log) == {i \in DOMAIN log : DetectEventHashScheme(log[i].hash) = "sha256"}

PayloadVerified(log) ==
    \A i \in RecomputedOf(log) : BuildEventHash(log[i].previous, log[i].payload) = log[i].hash

Clean(log) == ChainLinked(log) /\ PayloadVerified(log)

----------------------------------------------------------------------------

ChainInit ==
    /\ rows = <<>> /\ written = <<>> /\ damages = 0
    /\ scheme \in {"djb2", "sha256"}

AppendToChain(payload) ==
    /\ Len(written) < MaxChain
    /\ rows' = Append(rows, Stored(Appended(payload)))
    /\ written' = Append(written, Appended(payload))
    /\ UNCHANGED <<scheme, damages>>

\* The version that hashes with SHA-256 is deployed; no stored row changes.
CutOver ==
    /\ scheme = "djb2" /\ scheme' = "sha256"
    /\ UNCHANGED <<rows, written, damages>>

Damage == damages < MaxDamage /\ damages' = damages + 1

\* A restore or a repair by hand leaves a row out,
LoseRow(i) ==
    /\ Damage
    /\ rows' = RemoveAt(rows, i)
    /\ UNCHANGED <<written, scheme>>

\* inserts two rows in another order,
SwapRows(i, j) ==
    /\ Damage /\ i < j
    /\ rows' = [rows EXCEPT ![i] = rows[j], ![j] = rows[i]]
    /\ UNCHANGED <<written, scheme>>

\* or changes what a payload says.
ChangePayload(i, payload) ==
    /\ Damage
    /\ rows[i].payload.value # payload.value
    /\ rows' = [rows EXCEPT ![i].payload = Jsonb(payload)]
    /\ UNCHANGED <<written, scheme>>

ChainNext ==
    \/ \E payload \in Payloads : AppendToChain(payload)
    \/ CutOver
    \/ \E i \in DOMAIN rows : LoseRow(i)
    \/ \E i, j \in DOMAIN rows : SwapRows(i, j)
    \/ \E i \in DOMAIN rows, payload \in Payloads : ChangePayload(i, payload)

ChainSpec == ChainInit /\ [][ChainNext]_chainVars

----------------------------------------------------------------------------

\* A log that nobody damaged verifies on both sides of the cutover, although
\* jsonb has reordered the keys of its payloads and dropped what was
\* undefined since they were hashed.
HonestLogVerifies == damages = 0 => Clean(rows)

\* The events up to event n, each following the one it was appended to.
History[n \in 0 .. Len(written)] ==
    IF n = 0 THEN <<>> ELSE Append(History[written[n].after], written[n])

\* When the report is clean, no combination of losses, moves and changes has
\* happened between the first row and the last: the hashes of the rows are those
\* of the events that led to the last one, and from the cutover on every row says
\* what its event said. Only rows lost at the very end, and what legacy payloads
\* say, are out of its sight. An event that is appended again after a loss has the
\* hash it had: the rows need not be the same appends.
CleanReportIsTrue ==
    Clean(rows) /\ rows # <<>> =>
        LET history == History[Last(rows).id]
        IN  /\ [i \in DOMAIN rows |-> rows[i].hash] = [i \in DOMAIN history |-> history[i].hash]
            /\ \A i \in RecomputedOf(rows) : rows[i].payload.value = history[i].payload.value

\* The integrity report accepts every honest log, and nothing that was damaged
\* before its last row and behind the cutover.
ReportIsRight ==
  /\ HonestLogVerifies
  /\ CleanReportIsTrue
=============================================================================
