-------------------------- MODULE WorkspaceProofs ---------------------------
(***************************************************************************)
(* What the web application and the stores it reads promise, for every     *)
(* number of browsers, mints, readers, reviews, files and events: a signed *)
(* URL lives as long as it says, a snapshot never shows a voucher without  *)
(* its packet or a packet without its evidence, the queue tells its user   *)
(* nothing that the ledger did not decide, a share becomes one draft at    *)
(* most and is never lost silently, the lines of a decision are the ones   *)
(* that were decided, a clean integrity report is true, the index of the   *)
(* knowledge corpus holds one version of it whole, a refresh of the        *)
(* compliance alerts that nothing disturbed leaves exactly what holds, and *)
(* no tab loses or doubles a widget of the dashboard.                      *)
(*                                                                         *)
(* Each proof follows what is in flight. A mint carries the minute it was  *)
(* asked at, and the key that signs it outlives that minute by the margin. *)
(* A reader of the snapshot carries the rows of each kind it has read, and *)
(* a later read sees no fewer. An answer that a browser waits for carries  *)
(* a decision the ledger had already made. The counts of a share that the  *)
(* page's address carries are those the route ended with. Lines carry the  *)
(* voucher and the edit they were built of. A row of the event log keeps   *)
(* the links and the hash it was appended with, wherever it is moved. A    *)
(* refresh has written each row once, with the first day of the row there  *)
(* is, and in step with the table until something else is committed.       *)
(***************************************************************************)
EXTENDS BlobAccess, WorkspaceSnapshot, ReviewQueue, ShareTarget, PostingLines, EventChain,
        Knowledge, ComplianceAlerts, DashboardLayout, ListPlacesProofs

-----------------------------------------------------------------------------
(* Signed URLs.                                                            *)

MintRecord ==
  [state : {"idle", "asking", "minted", "failed"}, at : Nat, expires : Nat, key : Nat]

\* A URL outlives the margin from the moment it was asked for, and so does the key
\* that signs it, cached or asked for.
BlobInv ==
  /\ minute \in Nat /\ cachedKey \in Nat
  /\ mint \in [Mints -> MintRecord]
  /\ \A c \in Mints : mint[c].state \in {"asking", "minted"} =>
        mint[c].expires > mint[c].at + Margin /\ mint[c].key > mint[c].at + Margin

\* The call of c is replaced.
LEMMA MintReplaced ==
  ASSUME BlobInv, NEW c \in Mints, NEW m \in MintRecord,
         m.state \in {"asking", "minted"} => m.expires > m.at + Margin /\ m.key > m.at + Margin,
         mint' = [mint EXCEPT ![c] = m], minute' \in Nat, cachedKey' \in Nat
  PROVE  BlobInv'
  BY DEF BlobInv

\* Every step keeps the promise.
LEMMA BlobStep == BlobInv /\ [BlobNext]_blobVars => BlobInv'
<1> SUFFICES ASSUME BlobInv, [BlobNext]_blobVars PROVE BlobInv'
  OBVIOUS
<1>1. {Lifetime, Margin, SasExpiry} \subseteq Nat /\ Margin < SasExpiry /\ SasExpiry < Lifetime
  BY BlobConstants
<1>2. ASSUME NEW c \in Mints, Begin(c) PROVE BlobInv'
  <2>1. minute \in Nat /\ cachedKey \in Nat /\ minute + SasExpiry > minute + Margin
    BY <1>1 DEF BlobInv
  <2>2. PICK began : began = [NotMinted EXCEPT !.at = minute, !.expires = minute + SasExpiry]
    OBVIOUS
  <2>3. began \in MintRecord /\ began.at = minute /\ began.expires = minute + SasExpiry
    <3>1. NotMinted \in MintRecord
      BY DEF NotMinted, MintRecord
    <3> QED
      BY <1>1, <2>1, <2>2, <3>1, minute + SasExpiry \in Nat DEF MintRecord
  <2>4. PICK signed : signed = [began EXCEPT !.state = "minted", !.key = cachedKey]
    OBVIOUS
  <2>5. PICK asking : asking = [began EXCEPT !.state = "asking", !.key = minute + Lifetime]
    OBVIOUS
  <2>6. /\ mint' = [mint EXCEPT ![c] = IF KeyUsable THEN signed ELSE asking]
        /\ UNCHANGED <<minute, cachedKey>>
    BY <1>2, <2>2, <2>4, <2>5 DEF Begin
  <2>7. CASE KeyUsable
    <3>1. signed \in MintRecord /\ signed.expires > signed.at + Margin /\ signed.key > signed.at + Margin
      BY <1>1, <2>1, <2>3, <2>4, <2>7 DEF MintRecord, KeyUsable
    <3> QED
      BY <2>1, <2>6, <2>7, <3>1, MintReplaced
  <2>8. CASE ~KeyUsable
    <3>1. asking \in MintRecord /\ asking.expires > asking.at + Margin /\ asking.key > asking.at + Margin
      BY <1>1, <2>1, <2>3, <2>5, minute + Lifetime \in Nat, minute + Lifetime > minute + Margin DEF MintRecord
    <3> QED
      BY <2>1, <2>6, <2>8, <3>1, MintReplaced
  <2> QED
    BY <2>7, <2>8
<1>3. ASSUME NEW c \in Mints, KeyArrives(c) PROVE BlobInv'
  <2> DEFINE m == [mint[c] EXCEPT !.state = "minted"]
  <2>1. mint' = [mint EXCEPT ![c] = m] /\ minute' = minute /\ cachedKey' = mint[c].key
    BY <1>3 DEF KeyArrives
  <2>2. mint[c] \in MintRecord /\ mint[c].key \in Nat
    BY DEF BlobInv, MintRecord
  <2>3. m \in MintRecord /\ m.expires > m.at + Margin /\ m.key > m.at + Margin
    BY <1>3, <2>2 DEF BlobInv, MintRecord, KeyArrives
  <2> HIDE DEF m
  <2> QED
    BY <2>1, <2>2, <2>3, MintReplaced DEF BlobInv
<1>4. ASSUME NEW c \in Mints, KeyFails(c) PROVE BlobInv'
  <2> DEFINE m == [NotMinted EXCEPT !.state = "failed"]
  <2>1. mint' = [mint EXCEPT ![c] = m] /\ UNCHANGED <<minute, cachedKey>>
    BY <1>4 DEF KeyFails
  <2>2. m \in MintRecord /\ m.state = "failed"
    BY DEF MintRecord, NotMinted
  <2> HIDE DEF m
  <2> QED
    BY <2>1, <2>2, MintReplaced DEF BlobInv
<1>5. ASSUME MinutePasses PROVE BlobInv'
  BY <1>5 DEF MinutePasses, BlobInv
<1>6. CASE UNCHANGED blobVars
  BY <1>6 DEF BlobInv, blobVars
<1> QED
  BY <1>2, <1>3, <1>4, <1>5, <1>6 DEF BlobNext

\* Whoever was handed a URL can use it for the margin at least, however many calls
\* ask for a key at once and whichever key the cache keeps.
THEOREM BlobUrlsWork == BlobSpec => []MintedUrlWorks
<1>1. BlobInit => BlobInv
  BY DEF BlobInit, BlobInv, NotMinted, MintRecord
<1>2. BlobInv => MintedUrlWorks
  <2> SUFFICES ASSUME BlobInv, NEW c \in Mints, mint[c].state = "minted",
                      minute <= mint[c].at + Margin
               PROVE  StorageAccepts(c)
    BY DEF MintedUrlWorks
  <2>1. mint[c] \in MintRecord
    BY DEF BlobInv
  <2> QED
    BY <2>1, BlobConstants DEF BlobInv, MintRecord, StorageAccepts
<1> QED
  BY <1>1, <1>2, BlobStep, PTL DEF BlobSpec

-----------------------------------------------------------------------------
(* The snapshot.                                                           *)

\* Every voucher links to one of n packets.
WithPacket(packetOf, n) == \A v \in DOMAIN packetOf : packetOf[v] \in 1..n

\* Every packet holds evidence, of the first n objects.
Holding(bundles, n) == \A p \in DOMAIN bundles : bundles[p] # {} /\ bundles[p] \subseteq 1..n

RowsRecord == [evidence : Nat, packetOf : Seq(Nat), packets : Seq(SUBSET Nat), decided : SUBSET Nat]
GotRecord == [evidence : Nat, packetOf : Seq(Nat), packets : Seq(SUBSET Nat), decided : SUBSET Nat,
              posted : SUBSET Nat]

\* The committed rows are linked, the vouchers read are linked to committed packets,
\* and, as the packets are read last of the two, to the packets read.
TablesInv ==
  /\ tables \in RowsRecord
  /\ WithPacket(tables.packetOf, Len(tables.packets))
  /\ Holding(tables.packets, tables.evidence)

GotInv ==
  /\ got \in GotRecord
  /\ "vouchers" \in reading => "packets" \in reading
  /\ WithPacket(got.packetOf, Len(tables.packets))
  /\ Holding(got.packets, tables.evidence)
  /\ "packets" \notin reading => WithPacket(got.packetOf, Len(got.packets))

SnapshotInv == TablesInv /\ GotInv

\* A link stays one among more packets, and a packet among more evidence.
LEMMA MoreRows ==
  ASSUME NEW n \in Nat, NEW m \in Nat, n <= m, NEW packetOf, NEW bundles
  PROVE  /\ WithPacket(packetOf, n) => WithPacket(packetOf, m)
         /\ Holding(bundles, n) => Holding(bundles, m)
  BY DEF WithPacket, Holding

\* A packet more.
LEMMA PacketAdded ==
  ASSUME NEW bundles \in Seq(SUBSET Nat), NEW n \in Nat, NEW ids \in SUBSET (1..n),
         ids # {}, Holding(bundles, n)
  PROVE  /\ Append(bundles, ids) \in Seq(SUBSET Nat)
         /\ Len(Append(bundles, ids)) = Len(bundles) + 1
         /\ Len(bundles) \in Nat
         /\ Holding(Append(bundles, ids), n)
<1>1. ids \in SUBSET Nat
  OBVIOUS
<1>2. Len(bundles) \in Nat /\ DOMAIN bundles = 1..Len(bundles)
  OBVIOUS
<1> PICK more : more = Append(bundles, ids)
  OBVIOUS
<1>3. more \in Seq(SUBSET Nat) /\ Len(more) = Len(bundles) + 1 /\ DOMAIN more = 1..Len(bundles) + 1
  BY <1>1, AppendProperties
<1>4. \A p \in DOMAIN more : more[p] = IF p = Len(bundles) + 1 THEN ids ELSE bundles[p]
  BY <1>1, <1>3, AppendProperties
<1>5. Holding(more, n)
  <2> SUFFICES ASSUME NEW p \in DOMAIN more PROVE more[p] # {} /\ more[p] \subseteq 1..n
    BY DEF Holding
  <2>1. CASE p = Len(bundles) + 1
    BY <1>4, <2>1
  <2>2. CASE p # Len(bundles) + 1
    <3>1. p \in DOMAIN bundles /\ more[p] = bundles[p]
      BY <1>2, <1>3, <1>4, <2>2
    <3> QED
      BY <3>1 DEF Holding
  <2> QED
    BY <2>1, <2>2
<1> QED
  BY <1>2, <1>3, <1>5

\* What the writers leave the reader with: no packet and no evidence disappears.
LEMMA WriterKeepsGot ==
  ASSUME GotInv, TablesInv, TablesInv', UNCHANGED <<reading, got>>,
         Len(tables.packets) <= Len(tables.packets'), tables.evidence <= tables.evidence'
  PROVE  GotInv'
<1>1. /\ Len(tables.packets) \in Nat /\ tables.evidence \in Nat
      /\ Len(tables.packets') \in Nat /\ tables.evidence' \in Nat
  BY DEF TablesInv, RowsRecord
<1>2. WithPacket(got.packetOf, Len(tables.packets')) /\ Holding(got.packets, tables.evidence')
  BY <1>1, MoreRows DEF GotInv
<1> QED
  BY <1>2 DEF GotInv

\* A capture and a relink add a packet and link a voucher to it.
LEMMA WritersKeepRows ==
  ASSUME SnapshotInv,
         \/ Capture
         \/ \E ids \in (SUBSET (1..tables.evidence)) \ {{}} : RelinkVoucher(ids)
         \/ \E v \in DOMAIN tables.packetOf : ApproveVoucher(v)
  PROVE  SnapshotInv'
<1>1. PICK n, packetOf, bundles, decided :
        /\ n = tables.evidence /\ packetOf = tables.packetOf
        /\ bundles = tables.packets /\ decided = tables.decided
  OBVIOUS
<1>2. /\ n \in Nat /\ packetOf \in Seq(Nat) /\ bundles \in Seq(SUBSET Nat) /\ decided \in SUBSET Nat
      /\ tables = [evidence |-> n, packetOf |-> packetOf, packets |-> bundles, decided |-> decided]
      /\ WithPacket(packetOf, Len(bundles)) /\ Holding(bundles, n)
  BY <1>1 DEF SnapshotInv, TablesInv, RowsRecord
<1>3. CASE Capture
  <2>1. n + 1 \in Nat /\ {n + 1} \in SUBSET (1..(n + 1)) /\ {n + 1} # {} /\ Holding(bundles, n + 1)
    <3>1. n + 1 \in Nat /\ n <= n + 1 /\ n + 1 \in 1..(n + 1)
      BY <1>2
    <3>2. Holding(bundles, n + 1)
      BY <1>2, <3>1, MoreRows
    <3> QED
      BY <3>1, <3>2
  <2>2. PICK more : more = Append(bundles, {n + 1})
    OBVIOUS
  <2>3. PICK links : links = Append(packetOf, Len(bundles) + 1)
    OBVIOUS
  <2>4. more \in Seq(SUBSET Nat) /\ Len(more) = Len(bundles) + 1 /\ Holding(more, n + 1) /\ Len(bundles) \in Nat
    BY <1>2, <2>1, <2>2, PacketAdded
  <2>5. links \in Seq(Nat) /\ WithPacket(links, Len(more))
    <3>1. Len(bundles) + 1 \in Nat
      BY <2>4
    <3>2. links \in Seq(Nat) /\ DOMAIN links = 1..Len(packetOf) + 1
          /\ \A v \in 1..Len(packetOf) + 1 :
               links[v] = IF v = Len(packetOf) + 1 THEN Len(bundles) + 1 ELSE packetOf[v]
      BY <1>2, <2>3, <3>1, AppendProperties
    <3>3. DOMAIN packetOf = 1..Len(packetOf) /\ Len(packetOf) \in Nat
      BY <1>2
    <3> QED
      BY <1>2, <2>4, <3>2, <3>3 DEF WithPacket
  <2>6. /\ tables' = [evidence |-> n + 1, packetOf |-> links, packets |-> more, decided |-> decided]
        /\ UNCHANGED <<reading, got>>
    <3>1. tables' = [tables EXCEPT !.evidence = n + 1, !.packets = more, !.packetOf = links]
      BY <1>1, <1>3, <2>2, <2>3 DEF Capture
    <3>2. /\ tables'.evidence = n + 1 /\ tables'.packetOf = links /\ tables'.packets = more
          /\ tables'.decided = decided /\ tables' \in RowsRecord
      BY <1>2, <2>1, <2>4, <2>5, <3>1 DEF RowsRecord
    <3> QED
      BY <1>3, <3>2 DEF RowsRecord, Capture
  <2>7. TablesInv'
    BY <1>2, <2>1, <2>4, <2>5, <2>6 DEF TablesInv, RowsRecord
  <2> QED
    BY <1>1, <1>2, <2>1, <2>4, <2>6, <2>7, WriterKeepsGot DEF SnapshotInv
<1>4. ASSUME NEW ids \in (SUBSET (1..tables.evidence)) \ {{}}, RelinkVoucher(ids) PROVE SnapshotInv'
  <2>1. ids \in SUBSET (1..n) /\ ids # {}
    BY <1>1
  <2>2. PICK more : more = Append(bundles, ids)
    OBVIOUS
  <2>3. more \in Seq(SUBSET Nat) /\ Len(more) = Len(bundles) + 1 /\ Holding(more, n) /\ Len(bundles) \in Nat
    BY <1>2, <2>1, <2>2, PacketAdded
  <2>4. PICK v \in DOMAIN packetOf :
          /\ tables' = [tables EXCEPT !.packets = more, !.packetOf[v] = Len(bundles) + 1]
          /\ UNCHANGED <<reading, got>>
    BY <1>1, <1>4, <2>2 DEF RelinkVoucher
  <2>5. PICK links : links = [packetOf EXCEPT ![v] = Len(bundles) + 1]
    OBVIOUS
  <2>6. links \in Seq(Nat) /\ WithPacket(links, Len(more))
    <3>1. links \in Seq(Nat)
      BY <1>2, <2>3, <2>4, <2>5, ExceptSeq
    <3>2. DOMAIN links = DOMAIN packetOf
          /\ \A w \in DOMAIN packetOf : links[w] = IF w = v THEN Len(bundles) + 1 ELSE packetOf[w]
      BY <2>5
    <3>3. \A w \in DOMAIN packetOf : packetOf[w] \in 1..Len(bundles)
      BY <1>2 DEF WithPacket
    <3>4. \A w \in DOMAIN links : links[w] \in 1..Len(more)
      BY <2>3, <3>2, <3>3
    <3> QED
      BY <3>1, <3>4 DEF WithPacket
  <2>7. tables' = [evidence |-> n, packetOf |-> links, packets |-> more, decided |-> decided]
    <3>1. tables' = [tables EXCEPT !.packets = more, !.packetOf = links]
      BY <1>2, <2>4, <2>5
    <3>2. /\ tables'.evidence = n /\ tables'.packetOf = links /\ tables'.packets = more
          /\ tables'.decided = decided /\ tables' \in RowsRecord
      BY <1>2, <2>3, <2>6, <3>1 DEF RowsRecord
    <3> QED
      BY <3>2 DEF RowsRecord
  <2>8. TablesInv'
    BY <1>2, <2>3, <2>6, <2>7 DEF TablesInv, RowsRecord
  <2> QED
    BY <1>1, <1>2, <2>3, <2>4, <2>7, <2>8, WriterKeepsGot DEF SnapshotInv
<1>5. ASSUME NEW v \in DOMAIN tables.packetOf, ApproveVoucher(v) PROVE SnapshotInv'
  <2>1. v \in Nat
    BY <1>1, <1>2
  <2>2. tables' = [tables EXCEPT !.decided = decided \cup {v}] /\ UNCHANGED <<reading, got>>
    BY <1>1, <1>5 DEF ApproveVoucher
  <2>3. tables' = [evidence |-> n, packetOf |-> packetOf, packets |-> bundles, decided |-> decided \cup {v}]
    BY <1>2, <2>2
  <2>4. TablesInv'
    BY <1>2, <2>1, <2>3 DEF TablesInv, RowsRecord
  <2> QED
    BY <1>1, <1>2, <2>2, <2>3, <2>4, WriterKeepsGot DEF SnapshotInv
<1> QED
  BY <1>3, <1>4, <1>5

\* A statement reads the rows as they are committed, and the packets after the vouchers.
LEMMA ReaderKeepsRows ==
  ASSUME SnapshotInv, StartSnapshot \/ \E s \in Statements : ReadStatement(s)
  PROVE  SnapshotInv'
<1>1. CASE StartSnapshot
  BY <1>1 DEF StartSnapshot, SnapshotInv, TablesInv, GotInv, NothingRead, GotRecord, Statements, WithPacket, Holding
<1>2. ASSUME NEW s \in Statements, ReadStatement(s) PROVE SnapshotInv'
  <2>1. /\ tables' = tables /\ TablesInv' /\ TablesInv /\ GotInv
        /\ reading' = reading \ {s} /\ s \in reading
    BY <1>2 DEF ReadStatement, SnapshotInv, TablesInv
  <2>2. CASE s = "vouchers"
    <3>1. got' = [got EXCEPT !.packetOf = tables.packetOf]
      BY <1>2, <2>2 DEF ReadStatement, Read
    <3>2. got' \in GotRecord /\ got'.packetOf = tables.packetOf /\ got'.packets = got.packets
      BY <2>1, <3>1 DEF TablesInv, RowsRecord, GotInv, GotRecord
    <3> QED
      BY <2>1, <2>2, <3>2 DEF SnapshotInv, TablesInv, GotInv
  <2>3. CASE s = "packets"
    <3>1. got' = [got EXCEPT !.packets = tables.packets]
      BY <1>2, <2>3 DEF ReadStatement, Read
    <3>2. got' \in GotRecord /\ got'.packetOf = got.packetOf /\ got'.packets = tables.packets
      BY <2>1, <3>1 DEF TablesInv, RowsRecord, GotInv, GotRecord
    <3>3. "vouchers" \notin reading
      BY <1>2, <2>3 DEF ReadStatement, Before
    <3> QED
      BY <2>1, <2>3, <3>2, <3>3 DEF SnapshotInv, TablesInv, GotInv
  <2>4. CASE s \notin {"vouchers", "packets"}
    <3>1. \/ got' = [got EXCEPT !.evidence = tables.evidence]
          \/ got' = [got EXCEPT !.decided = tables.decided]
          \/ got' = [got EXCEPT !.posted = tables.decided]
      BY <1>2, <2>4 DEF ReadStatement, Read, Statements
    <3>2. got' \in GotRecord /\ got'.packetOf = got.packetOf /\ got'.packets = got.packets
      BY <2>1, <3>1 DEF TablesInv, RowsRecord, GotInv, GotRecord
    <3> QED
      BY <2>1, <2>4, <3>2 DEF SnapshotInv, TablesInv, GotInv
  <2> QED
    BY <2>2, <2>3, <2>4
<1> QED
  BY <1>1, <1>2

\* Whatever commits between the statements of a snapshot, every voucher it returns
\* links to evidence that exists (getSnapshot reads the vouchers before the packets).
THEOREM SnapshotKeepsLinks == SnapshotSpec => []VouchersKeepTheirLink
<1>1. SnapshotInit => SnapshotInv
  BY DEF SnapshotInit, SnapshotInv, TablesInv, GotInv, NoRows, NothingRead, RowsRecord, GotRecord,
         WithPacket, Holding
<1>2. SnapshotInv /\ [SnapshotNext]_snapshotVars => SnapshotInv'
  <2>1. SnapshotInv /\ UNCHANGED snapshotVars => SnapshotInv'
    BY DEF SnapshotInv, TablesInv, GotInv, snapshotVars
  <2> QED
    BY <2>1, WritersKeepRows, ReaderKeepsRows DEF SnapshotNext
<1>3. SnapshotInv => VouchersKeepTheirLink
  <2> SUFFICES ASSUME SnapshotInv, reading = {}, NEW v \in DOMAIN got.packetOf
               PROVE  LinkOf(v) # {} /\ LinkOf(v) \subseteq 1..tables.evidence
    BY DEF VouchersKeepTheirLink
  <2>1. got.packetOf[v] \in 1..Len(got.packets) /\ got.packets \in Seq(SUBSET Nat)
    BY DEF SnapshotInv, GotInv, GotRecord, WithPacket
  <2> QED
    BY <2>1 DEF LinkOf, SnapshotInv, GotInv, Holding
<1> QED
  BY <1>1, <1>2, <1>3, PTL DEF SnapshotSpec

-----------------------------------------------------------------------------
(* The review queue.                                                       *)

ReviewStatuses == {"needs-review", "approved", "rejected", "booked-without-vat"}

LedgerRecord == [status : ReviewStatuses, fields : Nat, booked : {"not", "asShown", "unseen", "otherwise"}]

Snapshots == [QueueReviews -> [status : ReviewStatuses, fields : Nat]]

CallRecord ==
  [at : {"none", "sent", "answered", "failed"}, review : QueueReviews, action : DOMAIN Decision, amounts : Nat, shown : Nat,
   known : Nat, status : ReviewStatuses]

QueueTypes ==
  /\ ledger \in [QueueReviews -> LedgerRecord]
  /\ cache \in [Browsers -> Snapshots]
  /\ fetching \in [Browsers -> [at : {"none", "sent", "answered", "failed"}, snapshot : Snapshots]]
  /\ call \in [Browsers -> [Calls -> CallRecord]]
  /\ batch \in [Browsers -> [running : BOOLEAN, targets : SUBSET QueueReviews, call : Nat]]
  /\ sheet \in [Browsers -> [review : QueueReviews \cup {NoReviewOpen}, shown : Nat, edited : BOOLEAN, call : Nat]]
  /\ told \in [Browsers -> SUBSET QueueReviews]
  /\ toldInBatch \in [Browsers -> SUBSET QueueReviews]

\* What a snapshot shows as decided is decided so.
Truthful(snapshot) ==
  \A r \in QueueReviews : snapshot[r].status # "needs-review" => snapshot[r].status = ledger[r].status

\* It shows every decision in known as the ledger has it.
ShowsAll(known, snapshot) == \A r \in known : snapshot[r].status = ledger[r].status

\* A fetch that may end in the cache is truthful.  Neither the cache nor a fetch is
\* older than what was told alone, and after the sweep that follows a batch neither
\* is older than what was told within it.
ScreenOK(b) ==
  /\ Truthful(cache[b])
  /\ fetching[b].at = "answered" => Truthful(fetching[b].snapshot)
  /\ \A r \in told[b] \cup toldInBatch[b] : ledger[r].status # "needs-review"
  /\ ShowsAll(told[b], cache[b])
  /\ fetching[b].at = "answered" => ShowsAll(told[b], fetching[b].snapshot)
  /\ ~batch[b].running => /\ fetching[b].at = "none" => ShowsAll(toldInBatch[b], cache[b])
                          /\ fetching[b].at = "answered" => ShowsAll(toldInBatch[b], fetching[b].snapshot)

\* A decision carries the amounts it showed, or was made over fields that were
\* cached as shown; its answer has the status of the ledger.
CarriesShown(c) == c.amounts = c.shown \/ c.known = c.shown
AnswersLedger(c) == c.at = "answered" => c.status = ledger[c.review].status /\ c.status # "needs-review"

CallsOK == \A b \in Browsers, k \in Calls : CarriesShown(call[b][k]) /\ AnswersLedger(call[b][k])

QueueInv == QueueTypes /\ (\A b \in Browsers : ScreenOK(b)) /\ CallsOK /\ SheetBooksWhatItShows

\* The call k of b becomes c.
LEMMA CallPut ==
  ASSUME call \in [Browsers -> [Calls -> CallRecord]], NEW b \in Browsers, NEW k \in Calls,
         NEW c \in CallRecord, call' = [call EXCEPT ![b][k] = c]
  PROVE  /\ call' \in [Browsers -> [Calls -> CallRecord]]
         /\ \A d \in Browsers, j \in Calls : call'[d][j] = IF d = b /\ j = k THEN c ELSE call[d][j]
<1>1. \A d \in Browsers, j \in Calls : call'[d][j] = IF d = b /\ j = k THEN c ELSE call[d][j]
  OBVIOUS
<1> QED
  BY <1>1

\* The calls stay right when one of them is replaced and no decision is undone.
LEMMA CallsKept ==
  ASSUME QueueTypes, CallsOK, NEW b \in Browsers, NEW k \in Calls, NEW c \in CallRecord,
         call' = [call EXCEPT ![b][k] = c], CarriesShown(c),
         c.at = "answered" => c.status = ledger'[c.review].status /\ c.status # "needs-review",
         \A q \in QueueReviews : ledger[q].status # "needs-review" => ledger'[q].status = ledger[q].status
  PROVE  call' \in [Browsers -> [Calls -> CallRecord]] /\ CallsOK'
<1>1. /\ call' \in [Browsers -> [Calls -> CallRecord]]
      /\ \A d \in Browsers, j \in Calls : call'[d][j] = IF d = b /\ j = k THEN c ELSE call[d][j]
  BY CallPut DEF QueueTypes
<1>2. ASSUME NEW d \in Browsers, NEW j \in Calls
      PROVE  CarriesShown(call'[d][j]) /\ AnswersLedger(call[d][j])'
  <2>1. CASE d = b /\ j = k
    BY <1>1, <2>1 DEF AnswersLedger
  <2>2. CASE ~(d = b /\ j = k)
    <3>1. call'[d][j] = call[d][j]
      BY <1>1, <2>2
    <3>2. CarriesShown(call[d][j]) /\ AnswersLedger(call[d][j]) /\ call[d][j].review \in QueueReviews
      BY DEF CallsOK, QueueTypes, CallRecord
    <3> QED
      BY <3>1, <3>2 DEF AnswersLedger
  <2> QED
    BY <2>1, <2>2
<1> QED
  BY <1>1, <1>2 DEF CallsOK, CarriesShown

\* No call at all carries what it showed.
LEMMA NoCallIsRight == NoCall \in CallRecord /\ CarriesShown(NoCall) /\ NoCall.at = "none" /\ NoCall.shown = 0
  BY QueueConstants DEF NoCall, CallRecord, CarriesShown, ReviewStatuses, Decision

\* The screens stay right while the ledger undoes no decision.
LEMMA ScreensKept ==
  ASSUME QueueTypes, \A b \in Browsers : ScreenOK(b), UNCHANGED <<cache, fetching, told, toldInBatch>>,
         \A b \in Browsers : batch'[b].running = batch[b].running,
         \A q \in QueueReviews : ledger[q].status # "needs-review" => ledger'[q].status = ledger[q].status
  PROVE  \A b \in Browsers : ScreenOK(b)'
<1> SUFFICES ASSUME NEW b \in Browsers PROVE ScreenOK(b)'
  OBVIOUS
<1>1. ScreenOK(b) /\ told[b] \subseteq QueueReviews /\ toldInBatch[b] \subseteq QueueReviews
  BY DEF QueueTypes
<1>2. ASSUME NEW snapshot, Truthful(snapshot)
      PROVE  \A q \in QueueReviews : snapshot[q].status # "needs-review" => snapshot[q].status = ledger'[q].status
  BY <1>2 DEF Truthful
<1>3. ASSUME NEW snapshot, NEW known \in SUBSET (told[b] \cup toldInBatch[b]), ShowsAll(known, snapshot)
      PROVE  \A q \in known : snapshot[q].status = ledger'[q].status
  BY <1>1, <1>3 DEF ShowsAll, ScreenOK
<1> QED
  BY <1>1, <1>2, <1>3 DEF ScreenOK, Truthful, ShowsAll

\* Only the screen of b changes.
LEMMA OtherScreensKept ==
  ASSUME \A d \in Browsers : ScreenOK(d), NEW b \in Browsers, ScreenOK(b)', UNCHANGED ledger,
         \A d \in Browsers \ {b} : /\ cache'[d] = cache[d] /\ fetching'[d] = fetching[d]
                                   /\ batch'[d] = batch[d] /\ told'[d] = told[d] /\ toldInBatch'[d] = toldInBatch[d]
  PROVE  \A d \in Browsers : ScreenOK(d)'
<1> SUFFICES ASSUME NEW d \in Browsers \ {b} PROVE ScreenOK(d)'
  OBVIOUS
<1>1. ScreenOK(d) /\ cache'[d] = cache[d] /\ fetching'[d] = fetching[d] /\ batch'[d] = batch[d] /\ told'[d] = told[d] /\ toldInBatch'[d] = toldInBatch[d]
  OBVIOUS
<1> QED
  BY <1>1 DEF ScreenOK, Truthful, ShowsAll

-----------------------------------------------------------------------------
\* A decision is final, and books what its sheet showed or what it could not see.
LEMMA DecidedReview ==
  ASSUME NEW review \in LedgerRecord, NEW c \in CallRecord, CarriesShown(c), review.booked # "otherwise"
  PROVE  /\ DecideReview(review, c) \in LedgerRecord
         /\ DecideReview(review, c).status # "needs-review"
         /\ DecideReview(review, c).booked # "otherwise"
         /\ review.status # "needs-review" => DecideReview(review, c).status = review.status
<1>1. CASE review.status # "needs-review"
  BY <1>1 DEF DecideReview
<1>2. CASE review.status = "needs-review"
  <2> PICK status : status = Decision[c.action]
    OBVIOUS
  <2> PICK booked : booked = Booked(review, c)
    OBVIOUS
  <2>1. status \in ReviewStatuses /\ status # "needs-review"
    BY DEF Decision, CallRecord, ReviewStatuses
  <2>2. booked \in {"asShown", "unseen"}
    BY DEF Booked, CarriesShown
  <2>3. DecideReview(review, c) = [review EXCEPT !.status = status, !.booked = booked]
    BY <1>2 DEF DecideReview
  <2>4. PICK decided : decided = [review EXCEPT !.status = status, !.booked = booked]
    OBVIOUS
  <2>5. decided \in LedgerRecord /\ decided.status = status /\ decided.booked = booked
    BY <2>1, <2>2, <2>4 DEF LedgerRecord
  <2> QED
    BY <1>2, <2>1, <2>2, <2>3, <2>4, <2>5
<1> QED
  BY <1>1, <1>2

\* One review of the ledger moves on, and the calls with it.
LEMMA LedgerStep ==
  ASSUME QueueInv, NEW r \in QueueReviews, NEW review \in LedgerRecord, ledger' = [ledger EXCEPT ![r] = review],
         ledger[r].status # "needs-review" => review.status = ledger[r].status, review.booked # "otherwise",
         UNCHANGED <<cache, fetching, batch, sheet, told, toldInBatch>>,
         (\A q \in QueueReviews : ledger[q].status # "needs-review" => ledger'[q].status = ledger[q].status)
           => call' \in [Browsers -> [Calls -> CallRecord]] /\ CallsOK'
  PROVE  QueueInv'
<1>1. ledger' \in [QueueReviews -> LedgerRecord]
  BY DEF QueueInv, QueueTypes
<1>2. \A q \in QueueReviews : ledger'[q] = IF q = r THEN review ELSE ledger[q]
  BY DEF QueueInv, QueueTypes
<1>3. \A q \in QueueReviews : ledger[q].status # "needs-review" => ledger'[q].status = ledger[q].status
  BY <1>2
<1>4. \A b \in Browsers : ScreenOK(b)'
  BY <1>3, ScreensKept DEF QueueInv
<1>5. SheetBooksWhatItShows'
  BY <1>2 DEF QueueInv, SheetBooksWhatItShows
<1> QED
  BY <1>1, <1>3, <1>4, <1>5 DEF QueueInv, QueueTypes

\* A call is sent or fails, its sheet or its batch waits for it, and nothing else changes.
LEMMA CallStep ==
  ASSUME QueueInv, NEW b \in Browsers, NEW k \in Calls, NEW c \in CallRecord,
         call' = [call EXCEPT ![b][k] = c], CarriesShown(c), c.at # "answered",
         UNCHANGED <<ledger, cache, fetching, told, toldInBatch>>,
         sheet' \in [Browsers -> [review : QueueReviews \cup {NoReviewOpen}, shown : Nat, edited : BOOLEAN, call : Nat]],
         batch' \in [Browsers -> [running : BOOLEAN, targets : SUBSET QueueReviews, call : Nat]],
         \A d \in Browsers : batch'[d].running = batch[d].running
  PROVE  QueueInv'
<1>1. call' \in [Browsers -> [Calls -> CallRecord]] /\ CallsOK'
  BY CallsKept DEF QueueInv
<1>2. \A d \in Browsers : ScreenOK(d)'
  BY ScreensKept DEF QueueInv
<1> QED
  BY <1>1, <1>2 DEF QueueInv, QueueTypes, SheetBooksWhatItShows

\* The sheets and batches as they are, as CallStep asks for.
LEMMA AsTheyAre ==
  ASSUME QueueInv
  PROVE  /\ sheet \in [Browsers -> [review : QueueReviews \cup {NoReviewOpen}, shown : Nat, edited : BOOLEAN, call : Nat]]
         /\ batch \in [Browsers -> [running : BOOLEAN, targets : SUBSET QueueReviews, call : Nat]]
         /\ UNCHANGED batch => \A d \in Browsers : batch'[d].running = batch[d].running
  BY DEF QueueInv, QueueTypes

\* The ledger decides a call, and its answer tells what it holds.
LEMMA ServeDecisionStep ==
  ASSUME QueueInv, NEW b \in Browsers, NEW k \in Calls, ServeDecision(b, k) \/ LoseDecision(b, k)
  PROVE  QueueInv'
<1> PICK c : c = call[b][k]
  OBVIOUS
<1> PICK r : r = c.review
  OBVIOUS
<1>1. /\ c \in CallRecord /\ CarriesShown(c) /\ r \in QueueReviews
      /\ ledger[r] \in LedgerRecord /\ ledger[r].booked # "otherwise"
  BY DEF QueueInv, QueueTypes, CallsOK, SheetBooksWhatItShows, CallRecord
<1>2. ASSUME call' = [call EXCEPT ![b][k].at = "failed"],
             UNCHANGED <<ledger, cache, fetching, batch, sheet, told, toldInBatch>>
      PROVE  QueueInv'
  <2> PICK failed : failed = [c EXCEPT !.at = "failed"]
    OBVIOUS
  <2>1. call' = [call EXCEPT ![b][k] = failed]
    BY <1>2 DEF QueueInv, QueueTypes
  <2>2. failed \in CallRecord /\ CarriesShown(failed) /\ failed.at = "failed"
    BY <1>1 DEF CallRecord, CarriesShown
  <2> QED
    BY <1>2, <2>1, <2>2, AsTheyAre, CallStep
<1>3. CASE LoseDecision(b, k)
  BY <1>2, <1>3 DEF LoseDecision
<1>4. CASE ServeDecision(b, k)
  <2>1. CASE RefusedDecision(ledger[r], c)
    BY <1>2, <1>4, <2>1 DEF ServeDecision
  <2>2. CASE ~RefusedDecision(ledger[r], c)
    <3> PICK review : review = DecideReview(ledger[r], c)
      OBVIOUS
    <3>1. PICK at \in {"answered", "failed"} :
            call' = [call EXCEPT ![b][k].at = at, ![b][k].status = ledger'[r].status]
      BY <1>4, <2>2 DEF ServeDecision
    <3>2. ledger' = [ledger EXCEPT ![r] = review] /\ UNCHANGED <<cache, fetching, batch, sheet, told, toldInBatch>>
      BY <1>4, <2>2 DEF ServeDecision
    <3>3. /\ review \in LedgerRecord /\ review.status # "needs-review" /\ review.booked # "otherwise"
          /\ ledger[r].status # "needs-review" => review.status = ledger[r].status
      BY <1>1, DecidedReview
    <3>4. ledger'[r] = review
      BY <1>1, <3>2 DEF QueueInv, QueueTypes
    <3> PICK answer : answer = [c EXCEPT !.at = at, !.status = review.status]
      OBVIOUS
    <3>5. call' = [call EXCEPT ![b][k] = answer]
      BY <3>1, <3>4 DEF QueueInv, QueueTypes
    <3>6. answer \in CallRecord /\ CarriesShown(answer) /\ answer.status = review.status /\ answer.review = r
      BY <1>1, <3>3 DEF CallRecord, CarriesShown, LedgerRecord
    <3>7. (\A q \in QueueReviews : ledger[q].status # "needs-review" => ledger'[q].status = ledger[q].status)
            => call' \in [Browsers -> [Calls -> CallRecord]] /\ CallsOK'
      BY <3>3, <3>4, <3>5, <3>6, CallsKept DEF QueueInv
    <3> QED
      BY <1>1, <3>2, <3>3, <3>7, LedgerStep
  <2> QED
    BY <2>1, <2>2
<1> QED
  BY <1>3, <1>4

\* A decision of others, and a refresh: the calls of this browser stay.
LEMMA ElsewhereStep ==
  ASSUME QueueInv, NEW r \in QueueReviews,
         RefreshSheetFields(r) \/ \E action \in DOMAIN Decision : DecidedElsewhere(r, action)
  PROVE  QueueInv'
<1> PICK old : old = ledger[r]
  OBVIOUS
<1>1. old \in LedgerRecord /\ old.booked # "otherwise"
  BY DEF QueueInv, QueueTypes, SheetBooksWhatItShows
<1>2. UNCHANGED <<cache, fetching, call, batch, sheet, told, toldInBatch>>
  BY DEF RefreshSheetFields, DecidedElsewhere
<1>3. (\A q \in QueueReviews : ledger[q].status # "needs-review" => ledger'[q].status = ledger[q].status)
        => call' \in [Browsers -> [Calls -> CallRecord]] /\ CallsOK'
  <2> SUFFICES ASSUME \A q \in QueueReviews :
                        ledger[q].status # "needs-review" => ledger'[q].status = ledger[q].status
               PROVE  call' \in [Browsers -> [Calls -> CallRecord]] /\ CallsOK'
    OBVIOUS
  <2>1. call' = call /\ QueueTypes /\ CallsOK
    BY <1>2 DEF QueueInv
  <2>2. ASSUME NEW b \in Browsers, NEW k \in Calls
        PROVE  CarriesShown(call[b][k])' /\ AnswersLedger(call[b][k])'
    <3>1. CarriesShown(call[b][k]) /\ AnswersLedger(call[b][k]) /\ call[b][k].review \in QueueReviews
      BY <2>1 DEF QueueTypes, CallRecord, CallsOK
    <3> QED
      BY <2>1, <3>1 DEF AnswersLedger, CarriesShown
  <2> QED
    BY <2>1, <2>2 DEF QueueTypes, CallsOK
<1>4. CASE RefreshSheetFields(r)
  <2> PICK review : review = [old EXCEPT !.fields = @ + 1]
    OBVIOUS
  <2>1. ledger' = [ledger EXCEPT ![r] = review] /\ old.status = "needs-review"
    BY <1>4 DEF RefreshSheetFields, QueueInv, QueueTypes
  <2>2. old.fields + 1 \in Nat
    BY <1>1 DEF LedgerRecord
  <2>3. review \in LedgerRecord /\ review.booked = old.booked
    BY <1>1, <2>2 DEF LedgerRecord
  <2> QED
    BY <1>1, <1>2, <1>3, <2>1, <2>3, LedgerStep
<1>5. ASSUME NEW action \in DOMAIN Decision, DecidedElsewhere(r, action) PROVE QueueInv'
  <2> PICK c : c = [NoCall EXCEPT !.action = action]
    OBVIOUS
  <2>1. c \in CallRecord /\ CarriesShown(c)
    BY NoCallIsRight DEF CallRecord, CarriesShown
  <2> PICK review : review = DecideReview(old, c)
    OBVIOUS
  <2>2. ledger' = [ledger EXCEPT ![r] = review]
    BY <1>5 DEF DecidedElsewhere
  <2>3. /\ review \in LedgerRecord /\ review.booked # "otherwise"
        /\ old.status # "needs-review" => review.status = old.status
    BY <1>1, <2>1, DecidedReview
  <2> QED
    BY <1>2, <1>3, <2>2, <2>3, LedgerStep
<1> QED
  BY <1>4, <1>5

-----------------------------------------------------------------------------
\* A fetch of the snapshot has its type, answered or not.
LEMMA FetchTyped ==
  ASSUME QueueTypes
  PROVE  /\ NoFetching \in [at : {"none", "sent", "answered", "failed"}, snapshot : Snapshots]
         /\ Sent \in [at : {"none", "sent", "answered", "failed"}, snapshot : Snapshots]
         /\ NoFetching.at = "none" /\ Sent.at = "sent"
         /\ Snapshot \in Snapshots
<1>1. [r \in QueueReviews |-> [status |-> "needs-review", fields |-> 0]] \in Snapshots
  BY DEF Snapshots, ReviewStatuses
<1>2. ASSUME NEW r \in QueueReviews PROVE OnDevice(ledger[r]) \in [status : ReviewStatuses, fields : Nat]
  BY DEF QueueTypes, LedgerRecord, OnDevice
<1> QED
  BY <1>1, <1>2 DEF NoFetching, Sent, Snapshot, Snapshots

\* The screen of b is replaced, and the ledger and the calls stay.
LEMMA ScreenStep ==
  ASSUME QueueInv, NEW b \in Browsers, QueueTypes', ScreenOK(b)', CallsOK', UNCHANGED ledger,
         \A d \in Browsers \ {b} : /\ cache'[d] = cache[d] /\ fetching'[d] = fetching[d]
                                   /\ batch'[d] = batch[d] /\ told'[d] = told[d] /\ toldInBatch'[d] = toldInBatch[d]
  PROVE  QueueInv'
<1>1. \A d \in Browsers : ScreenOK(d)'
  BY OtherScreensKept DEF QueueInv
<1> QED
  BY <1>1 DEF QueueInv, SheetBooksWhatItShows

\* Calls that are not made nor answered stay right.
LEMMA CallsStay ==
  ASSUME CallsOK, UNCHANGED <<ledger, call>>
  PROVE  CallsOK'
  BY DEF CallsOK, CarriesShown, AnswersLedger

\* A fetch is sent, answered with the ledger as it is, arrives or fails.
LEMMA FetchStep ==
  ASSUME QueueInv, NEW b \in Browsers, StartFetch(b) \/ ServeFetch(b) \/ ReceiveFetch(b)
  PROVE  QueueInv'
<1> PICK f : f = fetching[b]
  OBVIOUS
<1>1. /\ ScreenOK(b) /\ QueueTypes /\ f.snapshot \in Snapshots
      /\ UNCHANGED <<ledger, call, batch, sheet, told, toldInBatch>>
  BY DEF QueueInv, QueueTypes, StartFetch, ServeFetch, ReceiveFetch
<1>2. CallsOK'
  BY <1>1, CallsStay DEF QueueInv
<1>3. ASSUME NEW g \in [at : {"none", "sent", "answered", "failed"}, snapshot : Snapshots], NEW shown \in Snapshots,
             fetching' = [fetching EXCEPT ![b] = g], cache' = [cache EXCEPT ![b] = shown],
             Truthful(shown), g.at = "answered" => Truthful(g.snapshot),
             ShowsAll(told[b], shown), g.at = "answered" => ShowsAll(told[b], g.snapshot),
             ~batch[b].running => /\ g.at = "none" => ShowsAll(toldInBatch[b], shown)
                                  /\ g.at = "answered" => ShowsAll(toldInBatch[b], g.snapshot)
      PROVE  QueueInv'
  <2>1. QueueTypes'
    BY <1>1, <1>3 DEF QueueTypes
  <2>2. fetching'[b] = g /\ cache'[b] = shown
    BY <1>1, <1>3 DEF QueueTypes
  <2>3. ScreenOK(b)'
    BY <1>1, <1>3, <2>2 DEF ScreenOK, Truthful, ShowsAll
  <2>4. \A d \in Browsers \ {b} : /\ cache'[d] = cache[d] /\ fetching'[d] = fetching[d]
                                  /\ batch'[d] = batch[d] /\ told'[d] = told[d] /\ toldInBatch'[d] = toldInBatch[d]
    BY <1>1, <1>3 DEF QueueTypes
  <2> QED
    BY <1>1, <1>2, <2>1, <2>3, <2>4, ScreenStep
<1>4. UNCHANGED cache => /\ cache' = [cache EXCEPT ![b] = cache[b]] /\ cache[b] \in Snapshots
                         /\ Truthful(cache[b]) /\ ShowsAll(told[b], cache[b])
  BY <1>1 DEF QueueTypes, ScreenOK
<1>5. CASE StartFetch(b)
  <2>1. fetching' = [fetching EXCEPT ![b] = Sent] /\ UNCHANGED cache
    BY <1>5 DEF StartFetch
  <2> QED
    BY <1>1, <1>3, <1>4, <2>1, FetchTyped
<1>6. CASE ServeFetch(b)
  <2> PICK snapshot : snapshot = Snapshot
    OBVIOUS
  <2> PICK g : g = [at |-> "answered", snapshot |-> snapshot]
    OBVIOUS
  <2>1. fetching' = [fetching EXCEPT ![b] = g] /\ UNCHANGED cache
    BY <1>6 DEF ServeFetch
  <2>2. snapshot \in Snapshots /\ \A r \in QueueReviews : snapshot[r].status = ledger[r].status
    BY <1>1, FetchTyped DEF Snapshot, OnDevice
  <2>3. Truthful(snapshot) /\ ShowsAll(told[b], snapshot) /\ ShowsAll(toldInBatch[b], snapshot)
    BY <1>1, <2>2 DEF Truthful, ShowsAll, QueueTypes
  <2>4. /\ g \in [at : {"none", "sent", "answered", "failed"}, snapshot : Snapshots]
        /\ g.at = "answered" /\ g.snapshot = snapshot
    BY <2>2
  <2> QED
    BY <1>3, <1>4, <2>1, <2>3, <2>4
<1>7. CASE ReceiveFetch(b)
  <2>1. CASE f.at = "answered" /\ cache' = [cache EXCEPT ![b] = f.snapshot]
             /\ fetching' = [fetching EXCEPT ![b] = NoFetching]
    <3>1. /\ Truthful(f.snapshot) /\ ShowsAll(told[b], f.snapshot)
          /\ ~batch[b].running => ShowsAll(toldInBatch[b], f.snapshot)
      BY <1>1, <2>1 DEF ScreenOK
    <3> QED
      BY <1>1, <1>3, <2>1, <3>1, FetchTyped
  <2>2. CASE fetching' = [fetching EXCEPT ![b] = [NoFetching EXCEPT !.at = "failed"]] /\ UNCHANGED cache
    <3> PICK g : g = [NoFetching EXCEPT !.at = "failed"]
      OBVIOUS
    <3>1. g \in [at : {"none", "sent", "answered", "failed"}, snapshot : Snapshots] /\ g.at = "failed"
      BY <1>1, FetchTyped
    <3> QED
      BY <1>3, <1>4, <2>2, <3>1
  <2> QED
    BY <1>7, <2>1, <2>2 DEF ReceiveFetch
<1> QED
  BY <1>5, <1>6, <1>7

-----------------------------------------------------------------------------
\* A click carries the amounts it shows, or the fields cached as shown.
LEMMA ClickStep ==
  ASSUME QueueInv, NEW b \in Browsers, NEW k \in Calls, NEW r \in QueueReviews, NEW action \in DOMAIN Decision,
         NEW amounts \in Nat, NEW shown \in Nat, Click(b, k, r, action, amounts, shown),
         amounts = shown \/ cache[b][r].fields = shown,
         UNCHANGED <<ledger, cache, fetching, told, toldInBatch>>,
         sheet' \in [Browsers -> [review : QueueReviews \cup {NoReviewOpen}, shown : Nat, edited : BOOLEAN, call : Nat]],
         batch' \in [Browsers -> [running : BOOLEAN, targets : SUBSET QueueReviews, call : Nat]],
         \A d \in Browsers : batch'[d].running = batch[d].running
  PROVE  QueueInv'
<1> PICK known : known = IF shown = 0 THEN 0 ELSE cache[b][r].fields
  OBVIOUS
<1> PICK c : c = [at |-> "sent", review |-> r, action |-> action, amounts |-> amounts, shown |-> shown,
                  known |-> known, status |-> "needs-review"]
  OBVIOUS
<1>1. known \in Nat /\ (amounts = shown \/ known = shown)
  BY DEF QueueInv, QueueTypes, Snapshots
<1>2. c \in CallRecord /\ CarriesShown(c) /\ c.at = "sent"
  BY <1>1 DEF CallRecord, CarriesShown, ReviewStatuses
<1>3. call' = [call EXCEPT ![b][k] = c]
  BY DEF Click
<1> QED
  BY <1>2, <1>3, CallStep

\* A click in the queue or in the widget sends a decision.
LEMMA HandleActionStep ==
  ASSUME QueueInv, NEW b \in Browsers, NEW k \in Calls, NEW r \in QueueReviews,
         ApproveInWidget(b, k, r) \/ \E action \in DOMAIN Decision : HandleAction(b, k, r, action)
  PROVE  QueueInv'
<1>1. "approve" \in DOMAIN Decision
  BY DEF Decision
<1>2. /\ UNCHANGED <<ledger, cache, fetching, batch, sheet, told, toldInBatch>>
      /\ \E action \in DOMAIN Decision : Click(b, k, r, action, 0, 0)
  BY <1>1 DEF ApproveInWidget, HandleAction
<1> QED
  BY <1>2, AsTheyAre, ClickStep

\* The batch sends its next decision.
LEMMA BatchStepStep ==
  ASSUME QueueInv, NEW b \in Browsers, NEW k \in Calls, NEW r \in QueueReviews, BatchStep(b, k, r)
  PROVE  QueueInv'
<1>1. "approve" \in DOMAIN Decision /\ k \in Nat
  BY DEF Decision, Calls
<1>2. /\ batch' \in [Browsers -> [running : BOOLEAN, targets : SUBSET QueueReviews, call : Nat]]
      /\ \A d \in Browsers : batch'[d].running = batch[d].running
  BY <1>1, AsTheyAre DEF BatchStep
<1>3. Click(b, k, r, "approve", 0, 0) /\ UNCHANGED <<ledger, cache, fetching, sheet, told, toldInBatch>>
  BY DEF BatchStep
<1> QED
  BY <1>1, <1>2, <1>3, AsTheyAre, ClickStep

\* The sheet sends the amounts it shows.
LEMMA SubmitSheetStep ==
  ASSUME QueueInv, NEW b \in Browsers, NEW k \in Calls, SubmitSheet(b, k)
  PROVE  QueueInv'
<1> PICK r : r = sheet[b].review
  OBVIOUS
<1> PICK shown : shown = IF sheet[b].edited THEN MaxElsewhere + 2 ELSE sheet[b].shown
  OBVIOUS
<1> PICK amounts : amounts = IF AmountsChanged(b) THEN shown ELSE 0
  OBVIOUS
<1>1. r \in QueueReviews /\ shown \in Nat /\ "approve" \in DOMAIN Decision /\ k \in Nat
  BY QueueConstants DEF SubmitSheet, QueueInv, QueueTypes, Decision, Calls
<1>2. amounts \in Nat /\ (amounts = shown \/ cache[b][r].fields = shown)
  BY <1>1 DEF AmountsChanged
<1>3. /\ Click(b, k, r, "approve", amounts, shown) /\ sheet' = [sheet EXCEPT ![b].call = k]
      /\ UNCHANGED <<ledger, cache, fetching, batch, told, toldInBatch>>
  BY DEF SubmitSheet
<1>4. sheet' \in [Browsers -> [review : QueueReviews \cup {NoReviewOpen}, shown : Nat, edited : BOOLEAN, call : Nat]]
  BY <1>1, <1>3, AsTheyAre
<1> QED
  BY <1>1, <1>2, <1>3, <1>4, AsTheyAre, ClickStep

\* The sheet opens, is typed into and closes.
LEMMA SheetStep ==
  ASSUME QueueInv, NEW b \in Browsers,
         TypeAmounts(b) \/ CloseSheet(b) \/ \E r \in QueueReviews : OpenSheet(b, r)
  PROVE  QueueInv'
<1>1. UNCHANGED <<ledger, cache, fetching, call, batch, told, toldInBatch>>
  BY DEF TypeAmounts, CloseSheet, OpenSheet
<1>2. sheet' \in [Browsers -> [review : QueueReviews \cup {NoReviewOpen}, shown : Nat, edited : BOOLEAN, call : Nat]]
  <2>1. CASE TypeAmounts(b)
    BY <2>1 DEF TypeAmounts, QueueInv, QueueTypes
  <2>2. CASE CloseSheet(b)
    BY <2>2 DEF CloseSheet, SheetClosed, QueueInv, QueueTypes
  <2>3. ASSUME NEW r \in QueueReviews, OpenSheet(b, r)
        PROVE  sheet' \in [Browsers -> [review : QueueReviews \cup {NoReviewOpen}, shown : Nat, edited : BOOLEAN, call : Nat]]
    <3>1. cache[b][r].fields \in Nat
      BY DEF QueueInv, QueueTypes, Snapshots
    <3> PICK opened : opened = [SheetClosed EXCEPT !.review = r, !.shown = cache[b][r].fields]
      OBVIOUS
    <3>2. opened \in [review : QueueReviews \cup {NoReviewOpen}, shown : Nat, edited : BOOLEAN, call : Nat]
      BY <3>1 DEF SheetClosed
    <3>3. sheet' = [sheet EXCEPT ![b] = opened]
      BY <2>3 DEF OpenSheet
    <3> QED
      BY <3>2, <3>3, AsTheyAre
  <2> QED
    BY <2>1, <2>2, <2>3
<1>3. \A d \in Browsers : ScreenOK(d)'
  BY <1>1, ScreensKept DEF QueueInv
<1>4. CallsOK'
  BY <1>1, CallsStay DEF QueueInv
<1> QED
  BY <1>1, <1>2, <1>3, <1>4 DEF QueueInv, QueueTypes, SheetBooksWhatItShows

-----------------------------------------------------------------------------
\* An answer is cached and told: the ledger had decided so before it was sent.
LEMMA AnswerCached ==
  ASSUME QueueInv, NEW b \in Browsers, NEW k \in Calls, call[b][k].at = "answered",
         NEW r, r = call[b][k].review, NEW shown, shown = ApplyOptimisticUpdate(cache[b], call[b][k])
  PROVE  /\ shown \in Snapshots /\ Truthful(shown) /\ r \in QueueReviews
         /\ ShowsAll(told[b] \cup {r}, shown)
         /\ \A q \in told[b] \cup toldInBatch[b] \cup {r} : q \in QueueReviews /\ ledger[q].status # "needs-review"
<1> PICK status : status = call[b][k].status
  OBVIOUS
<1> PICK known : known = cache[b]
  OBVIOUS
<1>1. /\ r \in QueueReviews /\ status \in ReviewStatuses
      /\ status = ledger[r].status /\ status # "needs-review"
  BY DEF QueueInv, QueueTypes, CallRecord, CallsOK, AnswersLedger
<1>2. known \in Snapshots /\ Truthful(known) /\ ShowsAll(told[b], known)
  BY DEF QueueInv, QueueTypes, ScreenOK
<1>3. shown = [known EXCEPT ![r].status = status]
  BY DEF ApplyOptimisticUpdate
<1>4. shown \in Snapshots /\ \A q \in QueueReviews : shown[q].status = IF q = r THEN status ELSE known[q].status
  BY <1>1, <1>2, <1>3 DEF Snapshots
<1>5. Truthful(shown)
  BY <1>1, <1>2, <1>4 DEF Truthful
<1>6. \A q \in told[b] \cup toldInBatch[b] : q \in QueueReviews /\ ledger[q].status # "needs-review"
  BY DEF QueueInv, QueueTypes, ScreenOK
<1>7. ShowsAll(told[b] \cup {r}, shown)
  BY <1>1, <1>2, <1>4, <1>6 DEF ShowsAll
<1> QED
  BY <1>1, <1>4, <1>5, <1>6, <1>7

\* The call is over.
LEMMA CallOver ==
  ASSUME QueueInv, NEW b \in Browsers, NEW k \in Calls, call' = [call EXCEPT ![b][k] = NoCall], UNCHANGED ledger
  PROVE  call' \in [Browsers -> [Calls -> CallRecord]] /\ CallsOK'
<1> PICK c : c = NoCall
  OBVIOUS
<1>1. c \in CallRecord /\ CarriesShown(c) /\ c.at # "answered"
  BY NoCallIsRight
<1>2. call' = [call EXCEPT ![b][k] = c]
  OBVIOUS
<1> QED
  BY <1>1, <1>2, CallsKept DEF QueueInv

\* The cache of b shows an answer; the sweep follows at once or a batch is under way.
LEMMA ShownStep ==
  ASSUME QueueInv, NEW b \in Browsers, NEW k \in Calls, call' = [call EXCEPT ![b][k] = NoCall],
         NEW shown \in Snapshots, Truthful(shown), cache' = [cache EXCEPT ![b] = shown],
         NEW known \in SUBSET QueueReviews, NEW swept \in SUBSET QueueReviews,
         \A q \in known \cup swept : ledger[q].status # "needs-review",
         ShowsAll(known, shown), known = told[b] \/ InvalidateLedgerDerived(b),
         told' = [told EXCEPT ![b] = known], toldInBatch' = [toldInBatch EXCEPT ![b] = swept],
         NEW work \in [running : BOOLEAN, targets : SUBSET QueueReviews, call : Nat], batch' = [batch EXCEPT ![b] = work],
         \/ InvalidateLedgerDerived(b)
         \/ UNCHANGED fetching /\ work.running,
         sheet' \in [Browsers -> [review : QueueReviews \cup {NoReviewOpen}, shown : Nat, edited : BOOLEAN, call : Nat]],
         UNCHANGED ledger
  PROVE  QueueInv'
<1> PICK f : f = fetching'[b]
  OBVIOUS
<1>1. call' \in [Browsers -> [Calls -> CallRecord]] /\ CallsOK'
  BY CallOver
<1>2. /\ fetching' \in [Browsers -> [at : {"none", "sent", "answered", "failed"}, snapshot : Snapshots]]
      /\ \A d \in Browsers \ {b} : fetching'[d] = fetching[d]
      /\ (f = fetching[b] /\ work.running /\ known = told[b]) \/ f.at = "sent"
  <2> PICK sent : sent = Sent
    OBVIOUS
  <2>1. fetching \in [Browsers -> [at : {"none", "sent", "answered", "failed"}, snapshot : Snapshots]]
    BY DEF QueueInv, QueueTypes
  <2>2. sent \in [at : {"none", "sent", "answered", "failed"}, snapshot : Snapshots] /\ sent.at = "sent"
    BY FetchTyped DEF QueueInv
  <2>3. CASE fetching' = [fetching EXCEPT ![b] = sent]
    BY <2>1, <2>2, <2>3
  <2>4. CASE UNCHANGED fetching /\ work.running /\ known = told[b]
    BY <2>1, <2>4
  <2> QED
    BY <2>3, <2>4 DEF InvalidateLedgerDerived
<1>3. cache'[b] = shown /\ told'[b] = known /\ toldInBatch'[b] = swept /\ batch'[b] = work
  BY DEF QueueInv, QueueTypes
<1>4. f.at = "answered" => Truthful(f.snapshot) /\ work.running /\ ShowsAll(known, f.snapshot)
  BY <1>2 DEF QueueInv, ScreenOK
<1>5. ScreenOK(b)'
  BY <1>2, <1>3, <1>4 DEF ScreenOK, Truthful, ShowsAll
<1>6. QueueTypes'
  BY <1>1, <1>2 DEF QueueInv, QueueTypes
<1>7. \A d \in Browsers \ {b} : /\ cache'[d] = cache[d] /\ fetching'[d] = fetching[d]
                                /\ batch'[d] = batch[d] /\ told'[d] = told[d] /\ toldInBatch'[d] = toldInBatch[d]
  BY <1>2 DEF QueueInv, QueueTypes
<1> QED
  BY <1>1, <1>5, <1>6, <1>7, ScreenStep

\* The values that a step leaves alone, as the update that ShownStep asks for.
LEMMA Untouched ==
  ASSUME QueueInv, NEW b \in Browsers
  PROVE  /\ cache = [cache EXCEPT ![b] = cache[b]] /\ cache[b] \in Snapshots /\ Truthful(cache[b])
         /\ told = [told EXCEPT ![b] = told[b]] /\ told[b] \in SUBSET QueueReviews
         /\ toldInBatch = [toldInBatch EXCEPT ![b] = toldInBatch[b]] /\ toldInBatch[b] \in SUBSET QueueReviews
         /\ \A q \in told[b] \cup toldInBatch[b] : ledger[q].status # "needs-review"
         /\ ShowsAll(told[b], cache[b])
         /\ batch = [batch EXCEPT ![b] = batch[b]]
         /\ batch[b] \in [running : BOOLEAN, targets : SUBSET QueueReviews, call : Nat]
  BY DEF QueueInv, QueueTypes, ScreenOK

\* An answered call is shown and told.
LEMMA DecisionDoneStep ==
  ASSUME QueueInv, NEW b \in Browsers, NEW k \in Calls, DecisionDone(b, k)
  PROVE  QueueInv'
<1> DEFINE Sheets == [Browsers -> [review : QueueReviews \cup {NoReviewOpen}, shown : Nat, edited : BOOLEAN, call : Nat]]
<1>1. call' = [call EXCEPT ![b][k] = NoCall] /\ UNCHANGED <<ledger, batch, toldInBatch>>
  BY DEF DecisionDone
<1>2. CASE /\ call[b][k].at = "answered"
           /\ cache' = [cache EXCEPT ![b] = ApplyOptimisticUpdate(@, call[b][k])]
           /\ InvalidateLedgerDerived(b)
           /\ sheet' = IF call[b][k].shown # 0 THEN [sheet EXCEPT ![b] = SheetClosed] ELSE sheet
           /\ told' = [told EXCEPT ![b] = @ \cup {call[b][k].review}]
  <2> PICK r : r = call[b][k].review
    OBVIOUS
  <2> PICK shown : shown = ApplyOptimisticUpdate(cache[b], call[b][k])
    OBVIOUS
  <2> PICK known : known = told[b] \cup {r}
    OBVIOUS
  <2> PICK swept : swept = toldInBatch[b]
    OBVIOUS
  <2> PICK work : work = batch[b]
    OBVIOUS
  <2>1. cache' = [cache EXCEPT ![b] = shown] /\ told' = [told EXCEPT ![b] = known]
    BY <1>2
  <2>2. sheet' \in Sheets
    <3> PICK closed : closed = SheetClosed
      OBVIOUS
    <3>1. closed \in [review : QueueReviews \cup {NoReviewOpen}, shown : Nat, edited : BOOLEAN, call : Nat]
      BY DEF SheetClosed
    <3>2. sheet \in Sheets
      BY DEF QueueInv, QueueTypes
    <3>3. CASE sheet' = [sheet EXCEPT ![b] = closed]
      BY <3>1, <3>2, <3>3
    <3> QED
      BY <1>2, <3>2, <3>3
  <2>3. /\ shown \in Snapshots /\ Truthful(shown) /\ known \in SUBSET QueueReviews /\ ShowsAll(known, shown)
        /\ swept \in SUBSET QueueReviews
        /\ \A q \in known \cup swept : ledger[q].status # "needs-review"
    BY <1>2, AnswerCached
  <2>4. /\ work \in [running : BOOLEAN, targets : SUBSET QueueReviews, call : Nat] /\ batch' = [batch EXCEPT ![b] = work]
        /\ toldInBatch' = [toldInBatch EXCEPT ![b] = swept]
    BY <1>1, Untouched
  <2> QED
    BY <1>1, <1>2, <2>1, <2>2, <2>3, <2>4, ShownStep
<1>3. CASE sheet' = [sheet EXCEPT ![b].call = IF @ = k THEN 0 ELSE @] /\ UNCHANGED <<cache, fetching, told>>
  <2>1. call' \in [Browsers -> [Calls -> CallRecord]] /\ CallsOK'
    BY <1>1, CallOver
  <2>2. \A d \in Browsers : ScreenOK(d)'
    BY <1>1, <1>3, ScreensKept DEF QueueInv
  <2>3. sheet \in Sheets
    BY DEF QueueInv, QueueTypes
  <2>4. sheet' \in Sheets
    BY <1>3, <2>3
  <2> QED
    BY <1>1, <1>3, <2>1, <2>2, <2>4 DEF QueueInv, QueueTypes, SheetBooksWhatItShows
<1> QED
  BY <1>2, <1>3 DEF DecisionDone

\* An answered call of the batch is shown and told.
LEMMA BatchAnswerStep ==
  ASSUME QueueInv, NEW b \in Browsers, NEW k \in Calls, BatchAnswer(b, k)
  PROVE  QueueInv'
<1>1. /\ call' = [call EXCEPT ![b][k] = NoCall] /\ UNCHANGED <<ledger, sheet, told>>
      /\ sheet' \in [Browsers -> [review : QueueReviews \cup {NoReviewOpen}, shown : Nat, edited : BOOLEAN, call : Nat]]
  BY DEF BatchAnswer, QueueInv, QueueTypes
<1>2. ASSUME NEW left \in SUBSET QueueReviews, EndBatch(b, left),
             NEW shown \in Snapshots, Truthful(shown), ShowsAll(told[b], shown), cache' = [cache EXCEPT ![b] = shown],
             NEW swept \in SUBSET QueueReviews, \A q \in swept : ledger[q].status # "needs-review",
             toldInBatch' = [toldInBatch EXCEPT ![b] = swept]
      PROVE  QueueInv'
  <2> PICK running \in BOOLEAN : running = (left # {})
    OBVIOUS
  <2> PICK work : work = [running |-> running, targets |-> left, call |-> 0]
    OBVIOUS
  <2> PICK known : known = told[b]
    OBVIOUS
  <2>1. work \in [running : BOOLEAN, targets : SUBSET QueueReviews, call : Nat] /\ work.running = running
    OBVIOUS
  <2>2. batch' = [batch EXCEPT ![b] = work]
    BY <1>2 DEF EndBatch
  <2>3. InvalidateLedgerDerived(b) \/ (UNCHANGED fetching /\ running)
    BY <1>2 DEF EndBatch
  <2>4. /\ told' = [told EXCEPT ![b] = known] /\ known \in SUBSET QueueReviews
        /\ \A q \in known \cup swept : ledger[q].status # "needs-review"
    BY <1>1, <1>2, Untouched
  <2> QED
    BY <1>1, <1>2, <2>1, <2>2, <2>3, <2>4, ShownStep
<1>3. CASE /\ call[b][k].at = "answered"
           /\ cache' = [cache EXCEPT ![b] = ApplyOptimisticUpdate(@, call[b][k])]
           /\ toldInBatch' = [toldInBatch EXCEPT ![b] = @ \cup {call[b][k].review}]
           /\ EndBatch(b, batch[b].targets \ {call[b][k].review})
  <2> PICK r : r = call[b][k].review
    OBVIOUS
  <2> PICK shown : shown = ApplyOptimisticUpdate(cache[b], call[b][k])
    OBVIOUS
  <2> PICK swept : swept = toldInBatch[b] \cup {r}
    OBVIOUS
  <2> PICK left : left = batch[b].targets \ {r}
    OBVIOUS
  <2>1. /\ cache' = [cache EXCEPT ![b] = shown] /\ toldInBatch' = [toldInBatch EXCEPT ![b] = swept]
        /\ EndBatch(b, left)
    BY <1>3
  <2>2. /\ shown \in Snapshots /\ Truthful(shown) /\ ShowsAll(told[b], shown) /\ swept \in SUBSET QueueReviews
        /\ \A q \in swept : ledger[q].status # "needs-review"
    BY <1>3, AnswerCached DEF ShowsAll
  <2>3. left \in SUBSET QueueReviews
    BY Untouched
  <2> QED
    BY <1>2, <2>1, <2>2, <2>3
<1>4. CASE UNCHANGED <<cache, toldInBatch>> /\ EndBatch(b, {})
  BY <1>2, <1>4, Untouched
<1> QED
  BY <1>3, <1>4 DEF BatchAnswer

\* A batch starts with the reviews it lists.
LEMMA StartBatchStep ==
  ASSUME QueueInv, NEW b \in Browsers, StartBatch(b)
  PROVE  QueueInv'
<1> PICK targets : targets = {r \in QueueReviews : cache[b][r].status = "needs-review" /\ ~Blocked(b, r)}
  OBVIOUS
<1> PICK work : work = [running |-> TRUE, targets |-> targets, call |-> 0]
  OBVIOUS
<1>1. batch' = [batch EXCEPT ![b] = work] /\ UNCHANGED <<ledger, cache, fetching, call, sheet, told, toldInBatch>>
  BY DEF StartBatch
<1>2. work \in [running : BOOLEAN, targets : SUBSET QueueReviews, call : Nat] /\ work.running
  OBVIOUS
<1>3. batch' \in [Browsers -> [running : BOOLEAN, targets : SUBSET QueueReviews, call : Nat]] /\ batch'[b] = work
      /\ \A d \in Browsers \ {b} : batch'[d] = batch[d]
  BY <1>1, <1>2 DEF QueueInv, QueueTypes
<1>4. QueueTypes'
  BY <1>1, <1>3 DEF QueueInv, QueueTypes
<1>5. ScreenOK(b)'
  BY <1>1, <1>2, <1>3 DEF QueueInv, ScreenOK, Truthful, ShowsAll
<1>6. CallsOK'
  BY <1>1, CallsStay DEF QueueInv
<1> QED
  BY <1>1, <1>3, <1>4, <1>5, <1>6, ScreenStep

-----------------------------------------------------------------------------
\* Fresh browsers before an undecided ledger satisfy the invariant.
LEMMA QueueStart == QueueInit => QueueInv
<1> SUFFICES ASSUME QueueInit PROVE QueueInv
  OBVIOUS
<1>1. \A r \in QueueReviews : ledger[r].status = "needs-review" /\ ledger[r].booked = "not" /\ ledger[r].fields \in Nat
  BY DEF QueueInit
<1>2. ledger \in [QueueReviews -> LedgerRecord]
  BY DEF QueueInit, LedgerRecord, ReviewStatuses
<1>3. Snapshot \in Snapshots /\ \A r \in QueueReviews : Snapshot[r].status = ledger[r].status
  BY <1>1, <1>2 DEF Snapshot, Snapshots, OnDevice, LedgerRecord
<1>4. NoFetching \in [at : {"none", "sent", "answered", "failed"}, snapshot : Snapshots] /\ NoFetching.at = "none"
  BY DEF NoFetching, Snapshots, ReviewStatuses
<1>5. SheetClosed \in [review : QueueReviews \cup {NoReviewOpen}, shown : Nat, edited : BOOLEAN, call : Nat]
  BY DEF SheetClosed
<1>6. QueueTypes
  BY <1>2, <1>3, <1>4, <1>5, NoCallIsRight DEF QueueInit, QueueTypes
<1>7. \A b \in Browsers : ScreenOK(b)
  BY <1>3, <1>4 DEF QueueInit, ScreenOK, Truthful, ShowsAll
<1>8. CallsOK
  BY NoCallIsRight DEF QueueInit, CallsOK, AnswersLedger
<1> QED
  BY <1>1, <1>6, <1>7, <1>8 DEF QueueInv, SheetBooksWhatItShows

\* Every step of a browser and of the ledger keeps the invariant.
LEMMA QueueStep == QueueInv /\ [QueueNext]_queueVars => QueueInv'
<1> SUFFICES ASSUME QueueInv, [QueueNext]_queueVars PROVE QueueInv'
  OBVIOUS
<1>1. ASSUME NEW b \in Browsers, NEW k \in Calls,
             \/ ServeDecision(b, k) \/ LoseDecision(b, k) \/ DecisionDone(b, k) \/ BatchAnswer(b, k)
             \/ SubmitSheet(b, k)
             \/ \E r \in QueueReviews :
                  \/ BatchStep(b, k, r) \/ ApproveInWidget(b, k, r)
                  \/ \E action \in DOMAIN Decision : HandleAction(b, k, r, action)
      PROVE  QueueInv'
  BY <1>1, ServeDecisionStep, DecisionDoneStep, BatchStepStep, BatchAnswerStep, SubmitSheetStep, HandleActionStep
<1>2. ASSUME NEW b \in Browsers,
             \/ StartFetch(b) \/ ServeFetch(b) \/ ReceiveFetch(b)
             \/ TypeAmounts(b) \/ CloseSheet(b) \/ StartBatch(b)
             \/ \E r \in QueueReviews : OpenSheet(b, r)
      PROVE  QueueInv'
  BY <1>2, FetchStep, SheetStep, StartBatchStep
<1>3. ASSUME NEW r \in QueueReviews,
             RefreshSheetFields(r) \/ \E action \in DOMAIN Decision : DecidedElsewhere(r, action)
      PROVE  QueueInv'
  BY <1>3, ElsewhereStep
<1>4. CASE UNCHANGED queueVars
  BY <1>4 DEF queueVars, QueueInv, QueueTypes, ScreenOK, Truthful, ShowsAll, CallsOK, CarriesShown, AnswersLedger,
              SheetBooksWhatItShows
<1> QED
  BY <1>1, <1>2, <1>3, <1>4 DEF QueueNext

\* A decision that a screen shows is the ledger's, a decision told is shown from then
\* on or, within a batch, once the sweep after it is back, and a sheet books the
\* amounts it showed, whatever fetches, calls, batches and refreshes overlap.
THEOREM QueueIsTrue == QueueSpec => []QueueTellsTheTruth
<1>1. QueueInv => QueueTellsTheTruth
  <2> SUFFICES ASSUME QueueInv PROVE QueueTellsTheTruth
    OBVIOUS
  <2>1. ShownDecisionIsLedgers
    BY DEF QueueInv, ScreenOK, Truthful, ShownDecisionIsLedgers
  <2>2. ToldIsShown
    BY DEF QueueInv, ScreenOK, ShowsAll, ToldIsShown
  <2> QED
    BY <2>1, <2>2 DEF QueueInv, QueueTellsTheTruth
<1> QED
  BY <1>1, QueueStart, QueueStep, PTL DEF QueueSpec

-----------------------------------------------------------------------------
(* The share target.                                                       *)

RouteRecord ==
  [at : {"posted", "rejected", "forwarding", "uploaded", "answered"}, file : Nat \ {0}, promoted : Nat, failed : Nat]

ShareTypes ==
  /\ share \in Shares
  /\ route \in RouteRecord
  /\ url \in [text : BOOLEAN, url : BOOLEAN, promoted : Nat, pending : Nat, authRequired : BOOLEAN]
  /\ screen \in [mounted : BOOLEAN, consumed : BOOLEAN, effects : Nat]
  /\ drafts \in Seq([text : BOOLEAN, url : BOOLEAN])
  /\ reloads \in Nat

\* Every file before the one the loop is at was counted once, as promoted when it is
\* evidence and was answered.
FilesCounted ==
  /\ route.at = "posted" => route.file = 1
  /\ route.promoted + route.failed = route.file - 1
  /\ route.file - 1 <= Len(share.files) /\ route.file - 1 <= MaxShareFiles
  /\ IsFiniteSet(packets) /\ packets \subseteq 1..(route.file - 1) /\ lost \subseteq packets
  /\ route.promoted = Cardinality(packets \ lost)

FilesReported == Answered /\ LetIn => url.pending = Len(share.files) - route.promoted

\* The files of a request that is not let in are never come to.
NeverForwarded == DroppedWhole /\ (~LetIn => route.at \in {"posted", "rejected", "answered"})

\* The page exists once the share is answered, and text reaches it only when no file
\* was promoted.
TextKept ==
  /\ screen.mounted => Answered
  /\ ~screen.mounted => drafts = <<>> /\ ~url.text /\ ~screen.consumed
  /\ url.text \/ (\E i \in DOMAIN drafts : drafts[i].text) => route.promoted = 0

\* A draft uses up the mount it was made in.
DraftsCounted == Len(drafts) <= reloads + (IF screen.consumed THEN 1 ELSE 0)

ShareInv == ShareTypes /\ FilesCounted /\ FilesReported /\ NeverForwarded /\ TextKept /\ DraftsCounted

\* The types of what a share and its page hold.
LEMMA ShareFacts ==
  ASSUME ShareTypes
  PROVE  /\ Len(share.files) \in Nat /\ MaxShareFiles \in Nat
         /\ share.text \in BOOLEAN /\ share.url \in BOOLEAN
         /\ {route.file, route.promoted, route.failed, url.pending, reloads, screen.effects} \subseteq Nat
<1>1. /\ share \in [files : Seq({"good", "bad"}), text : BOOLEAN, url : BOOLEAN,
                     foreign : BOOLEAN, body : {"whole", "too large", "malformed"}]
      /\ MaxShareFiles \in Nat
  BY ShareConstants DEF ShareTypes
<1>2. share.files \in Seq({"good", "bad"}) /\ share.text \in BOOLEAN /\ share.url \in BOOLEAN
  BY <1>1
<1>3. Len(share.files) \in Nat
  BY <1>2, LenProperties
<1> QED
  BY <1>1, <1>2, <1>3 DEF ShareTypes, RouteRecord

\* The share is answered with what was promoted and what is left to do.
LEMMA RedirectStep ==
  ASSUME ShareInv, NEW promoted \in Nat, NEW pending \in Nat, NEW authRequired \in BOOLEAN,
         Redirect(Params(promoted, pending, authRequired)), ~Answered, LetIn,
         promoted = route.promoted, pending = Len(share.files) - promoted
  PROVE  ShareInv'
<1> PICK next : next = [route EXCEPT !.at = "answered"]
  OBVIOUS
<1>1. /\ route' = next /\ UNCHANGED <<share, intake, packets, lost, drafts, reloads>>
      /\ screen' = [mounted |-> TRUE, consumed |-> FALSE, effects |-> 2]
      /\ url' = [text |-> HandedOn(promoted, share.text), url |-> HandedOn(promoted, share.url),
                 promoted |-> promoted, pending |-> pending, authRequired |-> authRequired]
  BY DEF Redirect, Params
<1>2. /\ next \in RouteRecord /\ next.at = "answered" /\ next.file = route.file
      /\ next.promoted = route.promoted /\ next.failed = route.failed
  BY DEF ShareInv, ShareTypes, RouteRecord
<1>3. PICK text \in BOOLEAN : text = HandedOn(promoted, share.text)
  BY ShareFacts DEF ShareInv, HandedOn
<1>4. PICK link \in BOOLEAN : link = HandedOn(promoted, share.url)
  BY ShareFacts DEF ShareInv, HandedOn
<1>5. text => promoted = 0
  BY <1>3 DEF HandedOn
<1>6. /\ url' \in [text : BOOLEAN, url : BOOLEAN, promoted : Nat, pending : Nat, authRequired : BOOLEAN]
      /\ url'.text = text /\ url'.pending = pending
  BY <1>1, <1>3, <1>4
<1>7. screen' \in [mounted : BOOLEAN, consumed : BOOLEAN, effects : Nat] /\ screen'.mounted /\ ~screen'.consumed
  BY <1>1
<1>8. ~screen.mounted /\ drafts = <<>>
  BY DEF ShareInv, ShareTypes, TextKept
<1>9. ShareTypes'
  BY <1>1, <1>2, <1>6, <1>7 DEF ShareInv, ShareTypes
<1>10. FilesCounted'
  BY <1>1, <1>2 DEF ShareInv, FilesCounted
<1>11. FilesReported'
  BY <1>1, <1>2, <1>6 DEF FilesReported
<1>12. TextKept'
  <2>1. ~\E i \in DOMAIN drafts' : drafts'[i].text
    BY <1>1, <1>8
  <2> QED
    BY <1>1, <1>2, <1>5, <1>6, <1>7, <2>1 DEF TextKept, Answered
<1>13. DraftsCounted'
  BY <1>1, <1>7, <1>8, ShareFacts DEF ShareInv, DraftsCounted
<1>14. NeverForwarded'
  BY <1>1 DEF NeverForwarded, DroppedWhole, LetIn, Disallowed
<1> QED
  BY <1>9, <1>10, <1>11, <1>12, <1>13, <1>14 DEF ShareInv

\* The loop counts the file it is at, and goes on with the next.
LEMMA CountStep ==
  ASSUME ShareInv, AtFile, NEW count \in {"promoted", "failed"}, route' = Counted(count),
         UNCHANGED <<share, intake, url, screen, drafts, reloads>>,
         \/ count = "failed" /\ packets' \ lost' = packets \ lost
         \/ count = "promoted" /\ packets' \ lost' = (packets \ lost) \cup {route.file} /\ route.file \notin packets,
         packets' = packets \/ packets' = packets \cup {route.file}, lost' \subseteq packets'
  PROVE  ShareInv'
<1> PICK file \in Nat : file = route.file + 1
  BY ShareFacts DEF ShareInv
<1> PICK more \in Nat : more = route[count] + 1
  BY ShareFacts DEF ShareInv
<1>1. route \in RouteRecord /\ route.at \in {"forwarding", "uploaded"}
      /\ route.file <= Len(share.files) /\ route.file <= MaxShareFiles
  BY DEF ShareInv, ShareTypes, AtFile
<1>2. route' = [route EXCEPT ![count] = more, !.file = file, !.at = "forwarding"]
  BY DEF Counted
<1>3. /\ route' \in RouteRecord /\ route'.at = "forwarding" /\ route'.file = route.file + 1
      /\ count = "promoted" => route'.promoted = route.promoted + 1 /\ route'.failed = route.failed
      /\ count = "failed" => route'.failed = route.failed + 1 /\ route'.promoted = route.promoted
  <2>0. file \in Nat \ {0} /\ file = route.file + 1
    BY <1>1 DEF RouteRecord
  <2>1. CASE count = "promoted"
    <3>1. route' = [route EXCEPT !.promoted = more, !.file = file, !.at = "forwarding"] /\ more = route.promoted + 1
      BY <1>2, <2>1
    <3> QED
      BY <1>1, <2>0, <2>1, <3>1 DEF RouteRecord
  <2>2. CASE count = "failed"
    <3>1. route' = [route EXCEPT !.failed = more, !.file = file, !.at = "forwarding"] /\ more = route.failed + 1
      BY <1>2, <2>2
    <3> QED
      BY <1>1, <2>0, <2>2, <3>1 DEF RouteRecord
  <2> QED
    BY <2>1, <2>2
<1>4. ~screen.mounted /\ drafts = <<>> /\ ~url.text /\ ~screen.consumed
  BY <1>1 DEF ShareInv, ShareTypes, TextKept, Answered
<1>5. IsFiniteSet(packets) /\ packets \subseteq 1..(route.file - 1) /\ route.file \in Nat
  BY <1>1 DEF ShareInv, FilesCounted, RouteRecord
<1>6. IsFiniteSet(packets') /\ packets' \subseteq 1..(route'.file - 1)
  <2>1. IsFiniteSet(packets')
    BY <1>5, FS_AddElement
  <2>2. 1..(route.file - 1) \subseteq 1..route.file /\ route'.file - 1 = route.file
    BY <1>3, <1>5
  <2>3. route.file \in 1..route.file
    BY <1>1 DEF RouteRecord
  <2> QED
    BY <1>5, <2>1, <2>2, <2>3
<1>7. route'.promoted = Cardinality(packets' \ lost')
  <2>1. IsFiniteSet(packets \ lost) /\ route.promoted = Cardinality(packets \ lost)
    BY <1>5, FS_Subset DEF ShareInv, FilesCounted
  <2>2. CASE count = "failed"
    BY <1>3, <2>1, <2>2
  <2>3. CASE count = "promoted"
    <3>1. Cardinality((packets \ lost) \cup {route.file}) = Cardinality(packets \ lost) + 1
      BY <2>1, <2>3, FS_AddElement
    <3> QED
      BY <1>3, <2>1, <2>3, <3>1
  <2> QED
    BY <2>2, <2>3
<1>8. /\ route'.promoted + route'.failed = route'.file - 1
      /\ route'.file - 1 <= Len(share.files) /\ route'.file - 1 <= MaxShareFiles
  <2>1. route.promoted + route.failed = route.file - 1
    BY DEF ShareInv, FilesCounted
  <2>2. /\ Len(share.files) \in Nat /\ MaxShareFiles \in Nat
        /\ route.file \in Nat /\ route.promoted \in Nat /\ route.failed \in Nat
    BY ShareFacts DEF ShareInv
  <2>3. route'.file - 1 = route.file
    BY <1>3, <2>2
  <2>4. route'.promoted + route'.failed = route.promoted + route.failed + 1
    BY <1>3, <2>2
  <2> QED
    BY <1>1, <2>1, <2>2, <2>3, <2>4
<1>9. FilesCounted'
  BY <1>3, <1>6, <1>7, <1>8 DEF FilesCounted
<1>10. ShareTypes'
  BY <1>3 DEF ShareInv, ShareTypes
<1>11. FilesReported' /\ TextKept' /\ DraftsCounted'
  BY <1>3, <1>4 DEF ShareInv, FilesReported, TextKept, DraftsCounted, Answered
<1>12. NeverForwarded'
  BY <1>1 DEF ShareInv, NeverForwarded, DroppedWhole, LetIn, Disallowed
<1> QED
  BY <1>9, <1>10, <1>11, <1>12 DEF ShareInv

\* Steps of the loop within a file.
LEMMA LoopStep ==
  ASSUME ShareInv, NEW at \in {"rejected", "forwarding", "uploaded"}, at = "rejected" \/ LetIn,
         ~Answered, route' = [route EXCEPT !.at = at],
         UNCHANGED <<share, intake, packets, lost, url, screen, drafts, reloads>>
  PROVE  ShareInv'
<1>1. /\ route' \in RouteRecord /\ route'.at = at /\ route'.file = route.file
      /\ route'.promoted = route.promoted /\ route'.failed = route.failed
  BY DEF ShareInv, ShareTypes, RouteRecord
<1>2. NeverForwarded'
  BY <1>1 DEF ShareInv, NeverForwarded, DroppedWhole, LetIn, Disallowed
<1> QED
  BY <1>1, <1>2 DEF ShareInv, ShareTypes, FilesCounted, FilesReported, TextKept, DraftsCounted, Answered

\* A redirect that carries nothing leaves nothing of the request.
LEMMA UnreadableStep ==
  ASSUME ShareInv, Redirect(NoParams), route.at = "posted", ~LetIn
  PROVE  ShareInv'
<1> PICK next : next = [route EXCEPT !.at = "answered"]
  OBVIOUS
<1>1. /\ route' = next /\ UNCHANGED <<share, intake, packets, lost, drafts, reloads>>
      /\ screen' = [mounted |-> TRUE, consumed |-> FALSE, effects |-> 2]
      /\ url' = NoParams
  BY DEF Redirect
<1>2. /\ next \in RouteRecord /\ next.at = "answered" /\ next.file = route.file
      /\ next.promoted = route.promoted /\ next.failed = route.failed
  BY DEF ShareInv, ShareTypes, RouteRecord
<1>3. packets = {} /\ drafts = <<>>
  BY DEF ShareInv, NeverForwarded, DroppedWhole
<1>4. url' \in [text : BOOLEAN, url : BOOLEAN, promoted : Nat, pending : Nat, authRequired : BOOLEAN] /\ ~url'.text
  BY <1>1 DEF NoParams
<1>5. screen' \in [mounted : BOOLEAN, consumed : BOOLEAN, effects : Nat] /\ screen'.mounted /\ ~screen'.consumed
  BY <1>1
<1>6. ShareTypes'
  BY <1>1, <1>2, <1>4, <1>5 DEF ShareInv, ShareTypes
<1>7. FilesCounted'
  BY <1>1, <1>2 DEF ShareInv, FilesCounted
<1>8. FilesReported' /\ NeverForwarded'
  BY <1>1, <1>2, <1>3 DEF FilesReported, NeverForwarded, DroppedWhole, LetIn, Disallowed
<1>9. TextKept'
  <2>1. ~\E i \in DOMAIN drafts' : drafts'[i].text
    BY <1>1, <1>3
  <2> QED
    BY <1>1, <1>2, <1>4, <1>5, <2>1 DEF TextKept, Answered
<1>10. DraftsCounted'
  BY <1>1, <1>3, <1>5, ShareFacts DEF ShareInv, DraftsCounted
<1> QED
  BY <1>6, <1>7, <1>8, <1>9, <1>10 DEF ShareInv

\* A share that is posted has no file behind it.
LEMMA PostShareStep ==
  ASSUME ShareInv, PostShare
  PROVE  ShareInv'
<1>1. route.at = "posted" /\ ~Answered
  BY DEF PostShare, Answered
<1>2. route.promoted = 0
  BY <1>1, ShareFacts DEF ShareInv, FilesCounted
<1>3. Len(share.files) \in Nat /\ Len(share.files) = Len(share.files) - 0 /\ 0 \in Nat
  BY ShareFacts DEF ShareInv
<1>4. CASE LetIn /\ route' = [route EXCEPT !.at = "forwarding"]
           /\ UNCHANGED <<share, intake, packets, lost, url, screen, drafts, reloads>>
  BY <1>1, <1>4, LoopStep
<1>5. CASE LetIn /\ (Redirect(Params(0, Len(share.files), TRUE)) \/ Redirect(Params(0, Len(share.files), FALSE)))
  BY <1>1, <1>2, <1>3, <1>5, RedirectStep
<1>6. CASE LetIn /\ DecideShareFileIntake = "noop" /\ Redirect(Params(0, 0, FALSE))
  <2>1. Len(share.files) = 0
    BY <1>6 DEF DecideShareFileIntake
  <2> QED
    BY <1>1, <1>2, <1>3, <1>6, <2>1, RedirectStep
<1>7. CASE route' = [route EXCEPT !.at = "rejected"]
           /\ UNCHANGED <<share, intake, packets, lost, url, screen, drafts, reloads>>
  BY <1>1, <1>7, LoopStep
<1>8. CASE share.body = "malformed" /\ Redirect(NoParams)
  BY <1>1, <1>8, UnreadableStep DEF LetIn
<1> QED
  BY <1>4, <1>5, <1>6, <1>7, <1>8 DEF PostShare, LetIn

\* A file is promoted, lost or failed, and counted so.
LEMMA FileStep ==
  ASSUME ShareInv, FileFails \/ FileUploaded \/ FileCreated
  PROVE  ShareInv'
<1>1. CASE FileFails
  <2>1. lost' \subseteq packets'
    BY <1>1 DEF FileFails, ShareInv, FilesCounted
  <2> QED
    BY <1>1, <2>1, CountStep DEF FileFails
<1>2. CASE FileUploaded
  BY <1>2, LoopStep DEF FileUploaded, Answered, ShareInv, NeverForwarded
<1>3. CASE FileCreated
  <2>1. route.file \notin packets /\ lost' \ {route.file} = lost \ {route.file}
    BY <1>3, ShareFacts DEF FileCreated, ShareInv, FilesCounted
  <2>2. /\ AtFile /\ packets' = packets \cup {route.file}
        /\ UNCHANGED <<share, intake, url, screen, drafts, reloads>>
    BY <1>3 DEF FileCreated
  <2>3. CASE route' = Counted("promoted") /\ UNCHANGED lost
    <3>1. route.file \notin lost
      BY <2>1 DEF ShareInv, FilesCounted
    <3>2. packets' \ lost' = (packets \ lost) \cup {route.file}
      BY <2>2, <2>3, <3>1
    <3>3. lost' \subseteq packets'
      BY <2>2, <2>3 DEF ShareInv, FilesCounted
    <3> QED
      BY <2>1, <2>2, <2>3, <3>2, <3>3, CountStep
  <2>4. CASE route' = Counted("failed") /\ lost' = lost \cup {route.file}
    <3>1. packets' \ lost' = packets \ lost
      BY <2>1, <2>2, <2>4
    <3>2. lost' \subseteq packets'
      BY <2>2, <2>4 DEF ShareInv, FilesCounted
    <3> QED
      BY <2>2, <2>4, <3>1, <3>2, CountStep
  <2> QED
    BY <1>3, <2>3, <2>4 DEF FileCreated
<1> QED
  BY <1>1, <1>2, <1>3

\* The redirect carries the counts of the route.
LEMMA AnswerShareStep ==
  ASSUME ShareInv, AnswerShare
  PROVE  ShareInv'
<1>1. /\ route.at = "forwarding" /\ ~Answered /\ LetIn
      /\ ~(route.file <= Len(share.files) /\ route.file <= MaxShareFiles)
  BY DEF AnswerShare, AtFile, Answered, ShareInv, NeverForwarded
<1>2. /\ Len(share.files) \in Nat /\ MaxShareFiles \in Nat
      /\ route.file \in Nat /\ route.promoted \in Nat /\ route.failed \in Nat
  BY ShareFacts DEF ShareInv
<1>3. /\ route.promoted + route.failed = route.file - 1
      /\ route.file - 1 <= Len(share.files) /\ route.file - 1 <= MaxShareFiles
  BY DEF ShareInv, FilesCounted
<1> PICK pending : pending = route.failed + BeyondTheCap
  OBVIOUS
<1>4. pending \in Nat /\ pending = Len(share.files) - route.promoted
  <2>1. CASE Len(share.files) > MaxShareFiles
    <3>1. route.file - 1 = MaxShareFiles
      BY <1>1, <1>2, <1>3, <2>1
    <3> QED
      BY <1>2, <1>3, <2>1, <3>1 DEF BeyondTheCap
  <2>2. CASE ~(Len(share.files) > MaxShareFiles)
    <3>1. route.file - 1 = Len(share.files)
      BY <1>1, <1>2, <1>3, <2>2
    <3> QED
      BY <1>2, <1>3, <2>2, <3>1 DEF BeyondTheCap
  <2> QED
    BY <2>1, <2>2
<1> QED
  BY <1>1, <1>2, <1>4, RedirectStep DEF AnswerShare

-----------------------------------------------------------------------------
\* The page: one draft at most for a mount, and none of text that a file took along.
LEMMA ScreenEffectStep ==
  ASSUME ShareInv, ScreenEffect
  PROVE  ShareInv'
<1> PICK draft : draft = [text |-> url.text, url |-> url.url]
  OBVIOUS
<1> PICK runs \in BOOLEAN :
      runs = (((url.text \/ url.url) \/ url.promoted > 0) /\ ~screen.consumed)
  OBVIOUS
<1> PICK appends \in BOOLEAN : appends = (runs /\ (url.text \/ url.url))
  OBVIOUS
<1> PICK consumed \in BOOLEAN : consumed = (screen.consumed \/ runs)
  OBVIOUS
<1> PICK effects : effects = screen.effects - 1
  OBVIOUS
<1>1. /\ screen.mounted /\ screen.effects > 0
      /\ drafts' = IF appends THEN Append(drafts, draft) ELSE drafts
      /\ screen' = [screen EXCEPT !.effects = effects, !.consumed = consumed]
      /\ UNCHANGED <<share, intake, route, packets, lost, url, reloads>>
  BY DEF ScreenEffect, ConsumedRef
<1>2. /\ drafts \in Seq([text : BOOLEAN, url : BOOLEAN]) /\ draft \in [text : BOOLEAN, url : BOOLEAN]
      /\ draft.text = url.text
      /\ effects \in Nat /\ Len(drafts) \in Nat /\ reloads \in Nat
  BY <1>1, LenProperties DEF ShareInv, ShareTypes
<1>3. /\ screen' \in [mounted : BOOLEAN, consumed : BOOLEAN, effects : Nat]
      /\ screen'.mounted = screen.mounted /\ screen'.consumed = consumed
  BY <1>1, <1>2 DEF ShareInv, ShareTypes
<1>4. /\ drafts' \in Seq([text : BOOLEAN, url : BOOLEAN])
      /\ Len(drafts') = IF appends THEN Len(drafts) + 1 ELSE Len(drafts)
      /\ (\E i \in DOMAIN drafts' : drafts'[i].text) =>
            (\E i \in DOMAIN drafts : drafts[i].text) \/ (appends /\ draft.text)
  <2>1. CASE ~appends
    BY <1>1, <1>2, <2>1
  <2>2. CASE appends
    <3> PICK more : more = Append(drafts, draft)
      OBVIOUS
    <3>1. /\ more \in Seq([text : BOOLEAN, url : BOOLEAN]) /\ Len(more) = Len(drafts) + 1
          /\ \A i \in 1..Len(drafts) : more[i] = drafts[i]
          /\ more[Len(drafts) + 1] = draft
      BY <1>2, AppendProperties
    <3>2. DOMAIN more = 1..(Len(drafts) + 1) /\ DOMAIN drafts = 1..Len(drafts)
      BY <1>2, <3>1, LenProperties
    <3>3. ASSUME NEW i \in DOMAIN more, more[i].text
          PROVE  (\E j \in DOMAIN drafts : drafts[j].text) \/ draft.text
      <4>1. i \in 1..Len(drafts) \/ i = Len(drafts) + 1
        BY <1>2, <3>2
      <4> QED
        BY <3>1, <3>2, <3>3, <4>1
    <3>4. drafts' = more
      BY <1>1, <2>2
    <3> QED
      BY <2>2, <3>1, <3>3, <3>4
  <2> QED
    BY <2>1, <2>2
<1>5. ShareTypes'
  BY <1>1, <1>3, <1>4 DEF ShareInv, ShareTypes
<1>6. FilesCounted' /\ FilesReported' /\ NeverForwarded'
  <2>1. FilesCounted' /\ FilesReported'
    BY <1>1 DEF ShareInv, FilesCounted, FilesReported, Answered, LetIn, Disallowed
  <2>2. ~LetIn => ~appends
    <3>1. ~LetIn => url = NoParams
      BY DEF ShareInv, NeverForwarded, DroppedWhole
    <3>2. NoParams.text = FALSE /\ NoParams.url = FALSE
      BY DEF NoParams
    <3>3. ~LetIn => url.text = FALSE /\ url.url = FALSE
      BY ONLY <3>1, <3>2
    <3> QED
      BY <3>3
  <2>3. NeverForwarded'
    BY <1>1, <2>2 DEF ShareInv, NeverForwarded, DroppedWhole, LetIn, Disallowed
  <2> QED
    BY <2>1, <2>3
<1>7. TextKept'
  <2>1. screen.mounted => Answered
    BY DEF ShareInv, TextKept
  <2>2. url.text \/ (\E i \in DOMAIN drafts' : drafts'[i].text) => route.promoted = 0
    BY <1>2, <1>4 DEF ShareInv, TextKept
  <2> QED
    BY <1>1, <1>3, <2>1, <2>2 DEF TextKept, Answered
<1>8. DraftsCounted'
  <2>1. Len(drafts) <= reloads + (IF screen.consumed THEN 1 ELSE 0)
    BY DEF ShareInv, DraftsCounted
  <2>2. CASE appends
    <3>1. ~screen.consumed /\ consumed
      BY <2>2
    <3>2. Len(drafts') <= reloads + 1
      BY <1>2, <1>4, <2>1, <2>2, <3>1
    <3> QED
      BY <1>1, <1>3, <3>1, <3>2 DEF DraftsCounted
  <2>3. CASE ~appends
    <3>1. screen.consumed => consumed
      OBVIOUS
    <3>2. Len(drafts') <= reloads + (IF consumed THEN 1 ELSE 0)
      BY <1>2, <1>4, <2>1, <2>3, <3>1
    <3> QED
      BY <1>1, <1>3, <3>2 DEF DraftsCounted
  <2> QED
    BY <2>2, <2>3
<1> QED
  BY <1>5, <1>6, <1>7, <1>8 DEF ShareInv

\* The page clears its address, and its counts with it.
LEMMA ClearParamsStep ==
  ASSUME ShareInv, ClearParams
  PROVE  ShareInv'
<1>1. /\ url' = [url EXCEPT !.text = FALSE, !.url = FALSE, !.promoted = 0]
      /\ UNCHANGED <<share, intake, route, packets, lost, screen, drafts, reloads>>
  BY DEF ClearParams
<1>2. /\ url' \in [text : BOOLEAN, url : BOOLEAN, promoted : Nat, pending : Nat, authRequired : BOOLEAN]
      /\ ~url'.text /\ url'.pending = url.pending
  BY <1>1 DEF ShareInv, ShareTypes
<1>3. NeverForwarded'
  <2>1. ~LetIn => url' = NoParams
    <3>1. ~LetIn => url = NoParams
      BY DEF ShareInv, NeverForwarded, DroppedWhole
    <3> PICK none : none = [text |-> FALSE, url |-> FALSE, promoted |-> 0, pending |-> 0, authRequired |-> FALSE]
      OBVIOUS
    <3>2. PICK cleared : cleared = [none EXCEPT !.text = FALSE, !.url = FALSE, !.promoted = 0]
      OBVIOUS
    <3>3. /\ cleared.text = FALSE /\ cleared.url = FALSE /\ cleared.promoted = 0
          /\ cleared.pending = 0 /\ cleared.authRequired = FALSE
          /\ DOMAIN cleared = {"text", "url", "promoted", "pending", "authRequired"}
          /\ cleared = [x \in DOMAIN cleared |-> cleared[x]]
      BY <3>2
    <3>4. cleared = none
      BY <3>3
    <3> QED
      BY <1>1, <3>1, <3>2, <3>4 DEF NoParams
  <2> QED
    BY <1>1, <2>1 DEF ShareInv, NeverForwarded, DroppedWhole, LetIn, Disallowed
<1> QED
  BY <1>1, <1>2, <1>3
     DEF ShareInv, ShareTypes, FilesCounted, FilesReported, TextKept, DraftsCounted, Answered, LetIn, Disallowed

\* A page that reloads has what its address still carries.
LEMMA ReloadStep ==
  ASSUME ShareInv, Reload
  PROVE  ShareInv'
<1>1. /\ screen' = [mounted |-> TRUE, consumed |-> FALSE, effects |-> 2] /\ screen.mounted
      /\ reloads' = reloads + 1 /\ UNCHANGED <<share, intake, route, packets, lost, url, drafts>>
  BY DEF Reload
<1>2. screen' \in [mounted : BOOLEAN, consumed : BOOLEAN, effects : Nat] /\ screen'.mounted /\ ~screen'.consumed
  BY <1>1
<1>3. reloads \in Nat /\ Len(drafts) \in Nat
  BY LenProperties DEF ShareInv, ShareTypes
<1>4. Len(drafts) <= reloads + 1
  BY <1>3 DEF ShareInv, DraftsCounted
<1>5. DraftsCounted'
  BY <1>1, <1>2, <1>3, <1>4 DEF DraftsCounted
<1>6. ShareTypes'
  BY <1>1, <1>2, <1>3 DEF ShareInv, ShareTypes
<1>7. NeverForwarded'
  BY <1>1 DEF ShareInv, NeverForwarded, DroppedWhole, LetIn, Disallowed
<1> QED
  BY <1>1, <1>2, <1>5, <1>6, <1>7 DEF ShareInv, FilesCounted, FilesReported, TextKept, Answered, LetIn, Disallowed

\* A share that is about to be posted satisfies the invariant.
LEMMA ShareStart == ShareInit => ShareInv
<1> SUFFICES ASSUME ShareInit PROVE ShareInv
  OBVIOUS
<1>1. ShareTypes
  BY EmptySeq DEF ShareInit, ShareTypes, RouteRecord, NoParams
<1>2. Len(share.files) \in Nat /\ MaxShareFiles \in Nat
  BY <1>1, ShareFacts
<1>3. IsFiniteSet(packets) /\ Cardinality(packets \ lost) = 0
  BY FS_EmptySet DEF ShareInit
<1>4. FilesCounted
  BY <1>2, <1>3 DEF ShareInit, FilesCounted
<1>5. FilesReported /\ TextKept
  BY DEF ShareInit, FilesReported, TextKept, Answered, NoParams
<1>6. DraftsCounted /\ NeverForwarded
  BY DEF ShareInit, DraftsCounted, NeverForwarded, DroppedWhole
<1> QED
  BY <1>1, <1>4, <1>5, <1>6 DEF ShareInv

\* Every step of the route and of the page keeps the invariant.
LEMMA ShareStep == ShareInv /\ [ShareNext]_shareVars => ShareInv'
<1> SUFFICES ASSUME ShareInv, [ShareNext]_shareVars PROVE ShareInv'
  OBVIOUS
<1>1. CASE UNCHANGED shareVars
  BY <1>1 DEF shareVars, ShareInv, ShareTypes, FilesCounted, FilesReported, NeverForwarded, DroppedWhole,
             TextKept, DraftsCounted, Answered, LetIn, Disallowed
<1> QED
  BY <1>1, PostShareStep, FileStep, AnswerShareStep, ScreenEffectStep, ClearParamsStep, ReloadStep DEF ShareNext

\* Every file of a share that is let in is promoted or reported as pending, the shared
\* text goes with the evidence or into a draft, and a mount makes one draft at most; of a
\* request that is refused or cannot be read nothing is taken.
THEOREM ShareTakenOnce == ShareSpec => []ShareIsTakenOnce
<1>1. ShareInv => ShareIsTakenOnce
  <2> SUFFICES ASSUME ShareInv PROVE ShareIsTakenOnce
    OBVIOUS
  <2>1. IsFiniteSet(packets \ lost) /\ route.promoted = Cardinality(packets \ lost)
    BY FS_Subset DEF ShareInv, FilesCounted
  <2>2. EveryFileIsReported
    BY <2>1 DEF ShareInv, FilesReported, EveryFileIsReported
  <2>3. TextTakesOnePath
    <3> SUFFICES ASSUME \E i \in DOMAIN drafts : drafts[i].text PROVE packets \subseteq lost
      BY DEF TextTakesOnePath
    <3>1. Cardinality(packets \ lost) = 0
      BY <2>1 DEF ShareInv, TextKept
    <3>2. packets \ lost = {}
      BY <2>1, <3>1, FS_EmptySet
    <3> QED
      BY <3>2
  <2>4. OneDraftPerMount
    <3>1. Len(drafts) \in Nat /\ reloads \in Nat
      BY LenProperties DEF ShareInv, ShareTypes
    <3> QED
      BY <3>1 DEF ShareInv, DraftsCounted, OneDraftPerMount
  <2> QED
    BY <2>2, <2>3, <2>4 DEF ShareIsTakenOnce, ShareInv, NeverForwarded
<1> QED
  BY <1>1, ShareStart, ShareStep, PTL DEF ShareSpec

-----------------------------------------------------------------------------
(* Postings.                                                               *)

VoucherFields ==
  [gross : Amounts, net : Amounts, vat : Amounts, transaction : Dates, receipt : Dates]

\* The lines of an action on day d.
LinesOf(f, action, d) ==
  LET vat == VatClaimed(f, action)
      gross == Or(f.gross, Round2(Or(f.net, 0) + vat))
      Line(account, debit, credit) ==
        [account |-> account, debit |-> debit, credit |-> credit, day |-> d]
  IN << Line("cost", NetOf(gross, vat, f), 0), Line("input-vat", vat, 0), Line("bank", 0, gross) >>

\* The day of the last decision is not ahead: nothing happens after it.
Justified ==
  /\ decision.from \in VoucherFields
  /\ decision.edit = NoEdit \/ (decision.edit \in Edits /\ ValidEdit(decision.edit))
  /\ decision.action \in {"approve", "book-without-vat"}
  /\ decision.lines = BuildPostingLines(EffectiveFields(decision.from, decision.edit), decision.action)

PostingInv ==
  /\ fields \in VoucherFields /\ day \in Nat
  /\ Posted => Justified
  /\ preview.lines # <<>> => \E d : preview.lines = LinesOf(preview.from, preview.action, d)
  /\ OreExactAmountsBalance

\* Rounding to the ore moves an amount by half an ore at most, and whole ore not at all.
LEMMA Rounding ==
  ASSUME NEW amount \in Int
  PROVE  /\ ToOre(amount) \in Int /\ Round2(amount) \in Int
         /\ Distance(Round2(amount), amount) < 10
         /\ OreExact(Round2(amount)) /\ (OreExact(amount) => Round2(amount) = amount)
  BY DEF ToOre, Round2, RoundedQuotient, Distance, OreExact

\* Whole ore add up.
LEMMA WholeOre ==
  ASSUME NEW a \in Int, NEW b \in Int, OreExact(a), OreExact(b)
  PROVE  /\ OreExact(a - b) /\ OreExact(a + b) /\ ToOre(a - b) = ToOre(a) - ToOre(b)
         /\ ToOre(0) = 0
<1>1. PICK i \in Int : a = 10 * i
  BY DEF OreExact
<1>2. PICK j \in Int : b = 10 * j
  BY DEF OreExact
<1> QED
  BY <1>1, <1>2 DEF OreExact, ToOre, RoundedQuotient

\* The amounts of the lines are amounts, whatever was not extracted.
LEMMA LineAmounts ==
  ASSUME NEW f \in VoucherFields, NEW action, NEW vat, vat = VatClaimed(f, action),
         NEW gross, gross = Or(f.gross, Round2(Or(f.net, 0) + vat))
  PROVE  vat \in Int /\ gross \in Int /\ NetOf(gross, vat, f) \in Int
<1>1. vat \in Int /\ Or(f.net, 0) \in Int
  BY DEF VoucherFields, Amounts, VatClaimed, Or
<1>2. Round2(Or(f.net, 0) + vat) \in Int
  BY <1>1, Rounding
<1>3. gross \in Int
  BY <1>2 DEF VoucherFields, Amounts, Or
<1> QED
  BY <1>1, <1>3, Rounding DEF NetOf

\* Lines of whole ore balance, also when the gross amount is not there.
LEMMA WholeOreBalance ==
  ASSUME NEW f \in VoucherFields, NEW action,
         \A amount \in {f.gross, f.vat} \ {Absent} : OreExact(amount)
  PROVE  ImbalanceOre(BuildPostingLines(f, action)) = 0
<1> PICK vat : vat = VatClaimed(f, action)
  OBVIOUS
<1> PICK gross : gross = Or(f.gross, Round2(Or(f.net, 0) + vat))
  OBVIOUS
<1>1. vat \in Int /\ gross \in Int /\ Or(f.net, 0) \in Int
  BY LineAmounts DEF VoucherFields, Amounts, Or
<1>2. OreExact(0)
  BY DEF OreExact
<1>3. OreExact(vat)
  BY <1>2 DEF VatClaimed, Or
<1>4. OreExact(gross)
  BY <1>1, Rounding DEF Or
<1>5. OreExact(gross - vat) /\ gross - vat \in Int /\ ToOre(gross - vat) = ToOre(gross) - ToOre(vat)
      /\ ToOre(0) = 0 /\ ToOre(gross) \in Int /\ ToOre(vat) \in Int
  <2>1. OreExact(gross - vat) /\ ToOre(gross - vat) = ToOre(gross) - ToOre(vat) /\ ToOre(0) = 0
    BY <1>1, <1>3, <1>4, WholeOre
  <2>2. ToOre(gross) \in Int /\ ToOre(vat) \in Int
    BY <1>1, Rounding
  <2> QED
    BY <1>1, <2>1, <2>2
<1>6. NetOf(gross, vat, f) = gross - vat
  BY <1>5, Rounding DEF NetOf
<1>7. ImbalanceOre(BuildPostingLines(f, action))
        = (ToOre(gross - vat) - ToOre(0)) + (ToOre(vat) - ToOre(0)) + (ToOre(0) - ToOre(gross))
  BY <1>6 DEF ImbalanceOre, Balance, BuildPostingLines
<1> QED
  BY <1>5, <1>7

\* The day of the lines is never ahead.
LEMMA BookedInTime ==
  ASSUME NEW f \in VoucherFields, day \in Nat
  PROVE  /\ DeriveBookedAt(f) \in Int /\ DeriveBookedAt(f) <= day
         /\ f.transaction \in Int /\ f.transaction <= day => DeriveBookedAt(f) = f.transaction
<1> DEFINE Usable(date) == date \notin {Absent, NotADay} /\ date <= day
<1>1. f.transaction \in Dates /\ f.receipt \in Dates
  BY DEF VoucherFields
<1>2. CASE Usable(f.transaction)
  <2>1. DeriveBookedAt(f) = f.transaction
    BY <1>2 DEF DeriveBookedAt
  <2> QED
    BY <1>1, <1>2, <2>1 DEF Dates
<1>3. CASE ~Usable(f.transaction) /\ Usable(f.receipt)
  <2>1. DeriveBookedAt(f) = f.receipt
    BY <1>3 DEF DeriveBookedAt
  <2> QED
    BY <1>1, <1>3, <2>1, PostingConstants DEF Dates
<1>4. CASE ~Usable(f.transaction) /\ ~Usable(f.receipt)
  <2>1. DeriveBookedAt(f) = day
    BY <1>4 DEF DeriveBookedAt
  <2> QED
    BY <1>1, <1>4, <2>1, PostingConstants DEF Dates
<1> QED
  BY <1>2, <1>3, <1>4

\* What is built is built for the day that is derived.
LEMMA BuiltLines ==
  ASSUME NEW f, NEW action
  PROVE  BuildPostingLines(f, action) = LinesOf(f, action, DeriveBookedAt(f))
  BY DEF BuildPostingLines, LinesOf

\* An edit that is valid makes fields of fields.
LEMMA EditedFields ==
  ASSUME NEW f \in VoucherFields, NEW edit, edit = NoEdit \/ edit \in Edits
  PROVE  /\ EffectiveFields(f, edit) \in VoucherFields
         /\ edit = NoEdit => EffectiveFields(f, edit) = f
         /\ edit # NoEdit =>
              /\ EffectiveFields(f, edit).gross = Or(edit.gross, f.gross)
              /\ EffectiveFields(f, edit).net = Or(edit.net, f.net)
              /\ EffectiveFields(f, edit).vat = Or(edit.vat, f.vat)
              /\ EffectiveFields(f, edit).transaction =
                   IF edit.day = Absent THEN f.transaction ELSE edit.day
<1>1. CASE edit = NoEdit
  BY <1>1 DEF EffectiveFields
<1>2. CASE edit # NoEdit
  <2> PICK gross, net, vat, transaction :
        /\ gross = Or(edit.gross, f.gross) /\ net = Or(edit.net, f.net) /\ vat = Or(edit.vat, f.vat)
        /\ transaction = IF edit.day = Absent THEN f.transaction ELSE edit.day
    OBVIOUS
  <2>1. /\ gross \in Amounts /\ net \in Amounts /\ vat \in Amounts /\ transaction \in Dates
    BY <1>2, PostingConstants DEF Or, VoucherFields
  <2> PICK g : g = [f EXCEPT !.gross = gross, !.net = net, !.vat = vat, !.transaction = transaction]
    OBVIOUS
  <2>2. EffectiveFields(f, edit) = g
    BY <1>2 DEF EffectiveFields
  <2>3. g \in VoucherFields /\ g.gross = gross /\ g.net = net /\ g.vat = vat /\ g.transaction = transaction
    BY <2>1 DEF VoucherFields
  <2> QED
    BY <1>2, <2>2, <2>3
<1> QED
  BY <1>1, <1>2

\* An extraction makes fields.
LEMMA DerivedFields ==
  ASSUME NEW e \in Extractions
  PROVE  Derived(e) \in VoucherFields
<1>1. /\ e.gross \in Amounts /\ e.net \in Amounts /\ e.vat \in Amounts
      /\ e.transaction \in Dates /\ e.receipt \in Dates /\ e.rate \in Int /\ 100 + e.rate \in Nat \ {0}
  BY PostingConstants
<1> PICK net : net = IF e.net # Absent \/ e.gross = Absent THEN e.net
             ELSE 10 * RoundedQuotient(10 * e.gross, 100 + e.rate)
  OBVIOUS
<1> PICK vat : vat = IF e.vat # Absent \/ e.gross = Absent \/ net = Absent THEN e.vat
             ELSE Round2(e.gross - net)
  OBVIOUS
<1>2. net \in Amounts
  <2>1. CASE e.net # Absent \/ e.gross = Absent
    BY <1>1, <2>1
  <2>2. CASE ~(e.net # Absent \/ e.gross = Absent)
    <3> PICK d : d = 100 + e.rate
      OBVIOUS
    <3> PICK n : n = 2 * (10 * e.gross) + d
      OBVIOUS
    <3>1. e.gross \in Int /\ d \in Nat \ {0} /\ n \in Int
      BY <1>1, <2>2 DEF Amounts
    <3>2. n \div (2 * d) \in Int
      BY <3>1
    <3>3. net = 10 * (n \div (2 * d))
      BY <2>2 DEF RoundedQuotient
    <3> QED
      BY <3>2, <3>3 DEF Amounts
  <2> QED
    BY <2>1, <2>2
<1>3. vat \in Amounts
  BY <1>1, <1>2, Rounding DEF Amounts
<1>4. Derived(e) = [gross |-> e.gross, net |-> net, vat |-> vat,
                    transaction |-> e.transaction, receipt |-> e.receipt]
  BY DEF Derived
<1> QED
  BY <1>1, <1>2, <1>3, <1>4 DEF VoucherFields

\* A decision that does not balance was made of an amount that is not whole ore.
LEMMA UnbalancedAmounts ==
  ASSUME NEW f \in VoucherFields, NEW action, NEW edit,
         edit = NoEdit \/ (edit \in Edits /\ ValidEdit(edit)),
         ImbalanceOre(BuildPostingLines(EffectiveFields(f, edit), action)) # 0
  PROVE  \E amount \in {f.gross, f.net, f.vat} \ {Absent} : ~OreExact(amount)
<1> SUFFICES ASSUME \A amount \in {f.gross, f.net, f.vat} \ {Absent} : OreExact(amount) PROVE FALSE
  OBVIOUS
<1> PICK g : g = EffectiveFields(f, edit)
  OBVIOUS
<1>1. g \in VoucherFields
  BY EditedFields
<1>2. \A amount \in {g.gross, g.vat} \ {Absent} : OreExact(amount)
  <2>1. CASE edit = NoEdit
    BY <2>1, EditedFields
  <2>2. CASE edit # NoEdit
    <3>1. g.gross = Or(edit.gross, f.gross) /\ g.vat = Or(edit.vat, f.vat)
      BY <2>2, EditedFields
    <3>2. edit.gross = Absent \/ OreExact(edit.gross)
      BY <2>2 DEF ValidEdit, Given
    <3>3. edit.vat = Absent \/ OreExact(edit.vat)
      BY <2>2 DEF ValidEdit, Given
    <3> QED
      BY <3>1, <3>2, <3>3 DEF Or
  <2> QED
    BY <2>1, <2>2
<1> QED
  BY <1>1, <1>2, WholeOreBalance

\* A decision posts the lines of what was extracted and edited, or posts nothing.
LEMMA DecideStep ==
  ASSUME PostingInv, NEW action \in {"approve", "book-without-vat"}, NEW edit \in Edits \cup {NoEdit},
         Decide(action, edit)
  PROVE  PostingInv'
<1> PICK lines : lines = BuildPostingLines(EffectiveFields(fields, edit), action)
  OBVIOUS
<1> PICK status :
      status = CASE edit # NoEdit /\ ~ValidEdit(edit) -> "invalid-edit"
                 [] edit = NoEdit \/ ValidEdit(edit) ->
                      IF ImbalanceOre(lines) # 0 THEN "unbalanced" ELSE "posted"
  OBVIOUS
<1> PICK decided :
      decided = [status |-> status, action |-> action, edit |-> edit, from |-> fields,
                 lines |-> IF status = "posted" THEN lines ELSE <<>>]
  OBVIOUS
<1>1. decision' = decided /\ UNCHANGED <<fields, preview, day>>
  BY DEF Decide
<1>2. status \in {"unbalanced", "posted"} => edit = NoEdit \/ (edit \in Edits /\ ValidEdit(edit))
  OBVIOUS
<1>3. Posted' => Justified'
  <2> SUFFICES ASSUME status = "posted"
               PROVE  /\ decided.from \in VoucherFields
                      /\ decided.edit = NoEdit \/ (decided.edit \in Edits /\ ValidEdit(decided.edit))
                      /\ decided.action \in {"approve", "book-without-vat"}
                      /\ decided.lines = BuildPostingLines(EffectiveFields(decided.from, decided.edit), decided.action)
    BY <1>1 DEF Posted, Justified, ValidEdit, BuildPostingLines, DeriveBookedAt
  <2> QED
    BY <1>2 DEF PostingInv
<1>4. OreExactAmountsBalance'
  <2> SUFFICES ASSUME status = "unbalanced"
               PROVE  \E amount \in {fields.gross, fields.net, fields.vat} \ {Absent} : ~OreExact(amount)
    BY <1>1 DEF OreExactAmountsBalance
  <2>1. ImbalanceOre(lines) # 0
    OBVIOUS
  <2> QED
    BY <1>2, <2>1, UnbalancedAmounts DEF PostingInv
<1> QED
  BY <1>1, <1>3, <1>4 DEF PostingInv

\* Every step keeps the invariant; nothing happens to a voucher that is posted.
LEMMA PostingStep ==
  ASSUME PostingInv, [PostingNext]_postingVars
  PROVE  PostingInv'
<1>1. ASSUME NEW e \in Extractions, RefreshFields(e)
      PROVE  PostingInv'
  <2>1. fields' \in VoucherFields
    BY <1>1, DerivedFields DEF RefreshFields
  <2> QED
    BY <1>1, <2>1 DEF RefreshFields, PostingInv, Open, Posted, OreExactAmountsBalance
<1>2. ASSUME NEW action \in {"approve", "book-without-vat"}, Simulate(action)
      PROVE  PostingInv'
  <2> PICK d : d = DeriveBookedAt(fields)
    OBVIOUS
  <2> PICK lines : lines = BuildPostingLines(fields, action)
    OBVIOUS
  <2>1. lines = LinesOf(fields, action, d)
    BY BuiltLines
  <2>2. /\ preview'.lines = IF ImbalanceOre(lines) # 0 THEN <<>> ELSE lines
        /\ preview'.from = fields /\ preview'.action = action
        /\ UNCHANGED <<fields, decision, day>> /\ ~Posted
    BY <1>2 DEF Simulate, Open, Posted
  <2>3. preview'.lines # <<>> => preview'.lines = LinesOf(preview'.from, preview'.action, d)
    BY <2>1, <2>2
  <2>4. (preview.lines # <<>> => \E b : preview.lines = LinesOf(preview.from, preview.action, b))'
    BY <2>3 DEF LinesOf, VatClaimed, NetOf
  <2> QED
    BY <2>2, <2>4 DEF PostingInv, Posted, OreExactAmountsBalance
<1>3. ASSUME NEW action \in {"approve", "book-without-vat"}, NEW edit \in Edits \cup {NoEdit},
             Decide(action, edit)
      PROVE  PostingInv'
  BY <1>3, DecideStep
<1>4. CASE DayPasses
  <2>1. day' \in Nat /\ UNCHANGED <<fields, decision, preview>> /\ ~Posted
    BY <1>4 DEF DayPasses, PostingInv, Open, Posted
  <2> QED
    BY <2>1 DEF PostingInv, Posted, OreExactAmountsBalance, LinesOf, VatClaimed, NetOf
<1>5. CASE UNCHANGED postingVars
  BY <1>5 DEF postingVars, PostingInv, Posted, Justified, OreExactAmountsBalance, ValidEdit,
     BuildPostingLines, DeriveBookedAt, LinesOf, VatClaimed, NetOf
<1> QED
  BY <1>1, <1>2, <1>3, <1>4, <1>5 DEF PostingNext

\* The lines of two days differ in the day alone.
ButTheDay(line) == [line EXCEPT !.day = 0]

LEMMA LinesButTheDay ==
  ASSUME NEW f, NEW action, NEW x, NEW y, NEW i \in DOMAIN LinesOf(f, action, x)
  PROVE  ButTheDay(LinesOf(f, action, x)[i]) = ButTheDay(LinesOf(f, action, y)[i])
<1> DEFINE Line(account, debit, credit, d) ==
             [account |-> account, debit |-> debit, credit |-> credit, day |-> d]
<1>1. \E net, vat, gross : \A d :
        LinesOf(f, action, d) =
          << Line("cost", net, 0, d), Line("input-vat", vat, 0, d), Line("bank", 0, gross, d) >>
  BY DEF LinesOf
<1>2. PICK net, vat, gross : \A d :
        LinesOf(f, action, d) =
          << Line("cost", net, 0, d), Line("input-vat", vat, 0, d), Line("bank", 0, gross, d) >>
  BY <1>1
<1>3. \A account, debit, credit, d :
        ButTheDay(Line(account, debit, credit, d)) = Line(account, debit, credit, 0)
  BY DEF ButTheDay
<1> HIDE DEF Line
<1>4. i \in 1..3
  BY <1>2
<1>5. CASE i = 1
  <2>1. LinesOf(f, action, x)[i] = Line("cost", net, 0, x) /\ LinesOf(f, action, y)[i] = Line("cost", net, 0, y)
    BY <1>2, <1>5
  <2> QED
    BY <1>3, <2>1
<1>6. CASE i = 2
  <2>1. LinesOf(f, action, x)[i] = Line("input-vat", vat, 0, x) /\ LinesOf(f, action, y)[i] = Line("input-vat", vat, 0, y)
    BY <1>2, <1>6
  <2> QED
    BY <1>3, <2>1
<1>7. CASE i = 3
  <2>1. LinesOf(f, action, x)[i] = Line("bank", 0, gross, x) /\ LinesOf(f, action, y)[i] = Line("bank", 0, gross, y)
    BY <1>2, <1>7
  <2> QED
    BY <1>3, <2>1
<1> QED
  BY <1>4, <1>5, <1>6, <1>7

\* A voucher that is posted was posted as it was decided.
LEMMA JustifiedIsEnough ==
  ASSUME PostingInv
  PROVE  PostedAsDecided
<1> PICK f : f = decision.from
  OBVIOUS
<1> PICK edit : edit = decision.edit
  OBVIOUS
<1> PICK action : action = decision.action
  OBVIOUS
<1> PICK g : g = EffectiveFields(f, edit)
  OBVIOUS
<1> PICK d : d = DeriveBookedAt(g)
  OBVIOUS
<1> PICK vat : vat = VatClaimed(g, action)
  OBVIOUS
<1> PICK gross : gross = Or(g.gross, Round2(Or(g.net, 0) + vat))
  OBVIOUS
<1>1. OreExactAmountsBalance /\ day \in Nat
  BY DEF PostingInv
<1>2. ASSUME Posted
      PROVE  /\ f \in VoucherFields /\ g \in VoucherFields
             /\ edit = NoEdit \/ (edit \in Edits /\ ValidEdit(edit))
             /\ action \in {"approve", "book-without-vat"}
             /\ decision.lines = LinesOf(g, action, d)
             /\ d \in Int /\ d <= day /\ (g.transaction \in Int /\ g.transaction <= day => d = g.transaction)
             /\ vat \in Int /\ gross \in Int
             /\ Cost = Round2(gross - vat) /\ Claimed = vat /\ Paid = gross
             /\ DOMAIN decision.lines = 1..3 /\ \A i \in 1..3 : decision.lines[i].day = d
  <2>1. /\ f \in VoucherFields
        /\ edit = NoEdit \/ (edit \in Edits /\ ValidEdit(edit))
        /\ action \in {"approve", "book-without-vat"}
        /\ decision.lines = BuildPostingLines(g, action)
    BY <1>2 DEF PostingInv, Justified
  <2>2. g \in VoucherFields
    BY <2>1, EditedFields
  <2>3. decision.lines = LinesOf(g, action, d)
    BY <2>1, BuiltLines
  <2>4. d \in Int /\ d <= day /\ (g.transaction \in Int /\ g.transaction <= day => d = g.transaction)
    BY <1>1, <2>2, BookedInTime
  <2>5. vat \in Int /\ gross \in Int
    BY <2>2, LineAmounts
  <2>6. decision.lines =
          << [account |-> "cost", debit |-> Round2(gross - vat), credit |-> 0, day |-> d],
             [account |-> "input-vat", debit |-> vat, credit |-> 0, day |-> d],
             [account |-> "bank", debit |-> 0, credit |-> gross, day |-> d] >>
    BY <2>3 DEF LinesOf, NetOf
  <2>7. Cost = Round2(gross - vat) /\ Claimed = vat /\ Paid = gross
    BY <2>6 DEF Cost, Claimed, Paid
  <2>8. DOMAIN decision.lines = 1..3 /\ \A i \in 1..3 : decision.lines[i].day = d
    BY <2>6
  <2> QED
    BY <2>1, <2>2, <2>3, <2>4, <2>5, <2>7, <2>8
<1>3. EditedAmountsArePosted
  <2> SUFFICES ASSUME Posted, edit # NoEdit, edit.gross # Absent
               PROVE  /\ Paid = edit.gross
                      /\ Claimed = IF action = "approve" THEN edit.vat ELSE 0
                      /\ action = "approve" => Distance(Cost, edit.net) <= 10
    BY DEF EditedAmountsArePosted
  <2>1. /\ edit \in Edits /\ ValidEdit(edit)
        /\ vat \in Int /\ gross \in Int /\ Cost = Round2(gross - vat) /\ Claimed = vat /\ Paid = gross
        /\ action \in {"approve", "book-without-vat"}
    BY <1>2
  <2>2. edit.gross \in Int /\ edit.net \in Int /\ edit.vat \in Int
        /\ OreExact(edit.gross) /\ OreExact(edit.vat) /\ Distance(edit.net + edit.vat, edit.gross) <= 10
    BY <2>1, PostingConstants DEF ValidEdit, Given, Amounts
  <2>3. g.gross = edit.gross /\ g.vat = edit.vat
    BY <1>2, <2>2, PostingConstants, EditedFields DEF Or
  <2>4. gross = edit.gross
    BY <2>2, <2>3, PostingConstants DEF Or
  <2>5. vat = IF action = "approve" THEN edit.vat ELSE 0
    BY <2>1, <2>2, <2>3, PostingConstants DEF VatClaimed, Or
  <2>6. ASSUME action = "approve" PROVE Distance(Cost, edit.net) <= 10
    <3>1. OreExact(gross) /\ OreExact(vat) /\ gross - vat \in Int
      BY <2>1, <2>2, <2>4, <2>5, <2>6
    <3>2. OreExact(gross - vat)
      BY <2>1, <3>1, WholeOre
    <3>3. Round2(gross - vat) = gross - vat
      BY <3>1, <3>2, Rounding
    <3>4. Cost = gross - vat /\ gross = edit.gross /\ vat = edit.vat
      BY <2>1, <2>4, <2>5, <2>6, <3>3
    <3> QED
      BY <2>2, <3>4 DEF Distance
  <2> QED
    BY <2>1, <2>4, <2>5, <2>6
<1>4. WithoutVatIsAllCost
  <2> SUFFICES ASSUME Posted, action = "book-without-vat"
               PROVE  Claimed = 0 /\ Distance(Cost, Paid) < 10
    BY DEF WithoutVatIsAllCost
  <2>1. vat = 0
    BY DEF VatClaimed
  <2>2. Cost = Round2(gross) /\ Paid = gross /\ gross \in Int /\ Claimed = 0
    BY <1>2, <2>1
  <2> QED
    BY <2>2, Rounding
<1>5. NothingBookedAhead
  BY <1>2 DEF NothingBookedAhead
<1>6. EditedDayIsBooked
  <2> SUFFICES ASSUME Posted, edit # NoEdit, edit.day # Absent, edit.day <= day
               PROVE  d = edit.day
    BY <1>2 DEF EditedDayIsBooked
  <2>1. edit \in Edits /\ ValidEdit(edit)
    BY <1>2
  <2>2. edit.day \in Int
    BY <2>1, PostingConstants DEF ValidEdit, Dates
  <2>3. g.transaction = edit.day
    BY <1>2, EditedFields
  <2> QED
    BY <1>2, <2>2, <2>3
<1>7. PreviewIsPosted
  <2> SUFFICES ASSUME Posted, edit = NoEdit, preview.action = action, preview.from = f,
                      NEW i \in DOMAIN preview.lines
               PROVE  ButTheDay(preview.lines[i]) = ButTheDay(decision.lines[i])
    BY DEF PreviewIsPosted, ButTheDay
  <2>1. preview.lines # <<>>
    OBVIOUS
  <2>2. PICK b : preview.lines = LinesOf(f, action, b)
    BY <2>1 DEF PostingInv
  <2>3. g = f /\ decision.lines = LinesOf(f, action, d)
    BY <1>2, EditedFields
  <2>4. i \in DOMAIN LinesOf(f, action, b)
    BY <2>2
  <2> QED
    BY <2>2, <2>3, <2>4, LinesButTheDay
<1> QED
  BY <1>1, <1>3, <1>4, <1>5, <1>6, <1>7 DEF PostedAsDecided

\* Whatever is extracted and edited, the lines of a decision balance, carry the amounts
\* and the day that were decided, and are the ones its preview showed (store-shared.ts).
THEOREM PostingsAsDecided == PostingSpec => []PostedAsDecided
<1>1. PostingInit => PostingInv
  <2> SUFFICES ASSUME PostingInit PROVE PostingInv
    OBVIOUS
  <2>1. fields \in VoucherFields
    BY DerivedFields DEF PostingInit
  <2> QED
    BY <2>1 DEF PostingInit, PostingInv, Undecided, Posted, OreExactAmountsBalance
<1>2. PostingInv /\ [PostingNext]_postingVars => PostingInv'
  BY PostingStep
<1>3. PostingInv => PostedAsDecided
  BY JustifiedIsEnough
<1> QED
  BY <1>1, <1>2, <1>3, PTL DEF PostingSpec

-----------------------------------------------------------------------------
(* The event chain.                                                        *)

\* What may be stored of event n of the log: its links and its hash are never touched.
RowOf(log, n, payload) ==
  [id |-> n, after |-> log[n].after, previous |-> log[n].previous,
   payload |-> payload, hash |-> log[n].hash]

StoredRowsOf(log) ==
  UNION {{RowOf(log, n, Jsonb(payload)) : payload \in Payloads} : n \in DOMAIN log}

\* An event follows an earlier one and hashes what it follows and what it says.
EventOf(log, n) ==
  /\ log[n].id = n /\ log[n].payload \in Payloads
  /\ log[n].after \in 0..(n - 1)
  /\ log[n].previous = IF log[n].after = 0 THEN Genesis ELSE log[log[n].after].hash
  /\ \/ log[n].hash = BuildEventHash(log[n].previous, log[n].payload)
     \/ log[n].hash = LegacyDjb2EventHash(log[n].previous, log[n].payload)

\* What was not damaged verifies: before the cutover nothing is recomputed.
Honest(log, version) ==
  /\ Clean(log)
  /\ version = "djb2" => RecomputedOf(log) = {}

EventChainInv ==
  /\ damages \in Nat /\ scheme \in {"djb2", "sha256"}
  /\ written \in Seq({written[n] : n \in DOMAIN written})
  /\ \A n \in DOMAIN written : EventOf(written, n)
  /\ rows \in Seq(StoredRowsOf(written))
  /\ damages = 0 => Honest(rows, scheme)

-----------------------------------------------------------------------------
\* A hash tells its scheme, what it follows and what it says.
LEMMA HashParts ==
  ASSUME NEW a, NEW p, NEW b, NEW q
  PROVE  /\ DetectEventHashScheme(BuildEventHash(a, p)) = "sha256"
         /\ DetectEventHashScheme(LegacyDjb2EventHash(a, p)) = "djb2"
         /\ BuildEventHash(a, p) # Genesis /\ LegacyDjb2EventHash(a, p) # Genesis
         /\ BuildEventHash(a, p) # LegacyDjb2EventHash(b, q)
         /\ BuildEventHash(a, p) = BuildEventHash(b, q) => a = b /\ CanonicalJson(p) = CanonicalJson(q)
         /\ LegacyDjb2EventHash(a, p) = LegacyDjb2EventHash(b, q) => a = b
<1>1. \A x, y, z : Head(<<x, y, z>>) = x /\ <<x, y, z>> # Genesis
  BY DEF Genesis
<1> QED
  BY <1>1 DEF DetectEventHashScheme, BuildEventHash, Sha256EventHash, LegacyDjb2EventHash

\* jsonb changes neither what a payload says nor its canonical form.
LEMMA PayloadForms ==
  ASSUME NEW p
  PROVE  /\ CanonicalJson(Jsonb(p)) = CanonicalJson(p)
         /\ CanonicalJson(p).value = p.value /\ Jsonb(p).value = p.value
  BY DEF CanonicalJson, Jsonb

\* A row of the log is a row of an event.
LEMMA RowOfEvent ==
  ASSUME NEW log, NEW kept \in Seq(StoredRowsOf(log)), NEW i \in DOMAIN kept
  PROVE  \E n \in DOMAIN log, payload \in Payloads : kept[i] = RowOf(log, n, Jsonb(payload))
<1>1. kept[i] \in StoredRowsOf(log)
  OBVIOUS
<1> QED
  BY <1>1 DEF StoredRowsOf

\* A log that grows keeps its rows.
LEMMA MoreEvents ==
  ASSUME NEW log, NEW longer, DOMAIN log \subseteq DOMAIN longer,
         \A n \in DOMAIN log : longer[n] = log[n]
  PROVE  StoredRowsOf(log) \subseteq StoredRowsOf(longer)
  BY DEF StoredRowsOf, RowOf

-----------------------------------------------------------------------------
\* An append follows the last row.
LEMMA ChainAppends ==
  ASSUME EventChainInv, NEW payload \in Payloads, AppendToChain(payload)
  PROVE  EventChainInv'
<1> PICK event : event = Appended(payload)
  OBVIOUS
<1> PICK row : row = Stored(event)
  OBVIOUS
<1> PICK log : log = written
  OBVIOUS
<1> PICK longer : longer = Append(log, event)
  OBVIOUS
<1> PICK chain : chain = rows
  OBVIOUS
<1> PICK more : more = Append(chain, row)
  OBVIOUS
<1> PICK version : version = scheme
  OBVIOUS
<1> PICK tail : tail = TailHash
  OBVIOUS
<1> PICK n : n = Len(log) + 1
  OBVIOUS
<1>1. written' = longer /\ rows' = more /\ scheme' = version /\ damages' = damages
  BY DEF AppendToChain
<1>2. /\ log \in Seq({log[k] : k \in DOMAIN log}) /\ \A k \in DOMAIN log : EventOf(log, k)
      /\ chain \in Seq(StoredRowsOf(log)) /\ version \in {"djb2", "sha256"} /\ damages \in Nat
      /\ damages = 0 => Honest(chain, version)
  BY DEF EventChainInv
<1>3. /\ n \in Nat \ {0} /\ Len(longer) = n /\ DOMAIN longer = 1..n /\ DOMAIN log = 1..(n - 1)
      /\ longer[n] = event /\ \A k \in DOMAIN log : longer[k] = log[k]
  BY <1>2, AppendProperties
<1>4. longer \in Seq({longer[k] : k \in DOMAIN longer})
  <2> PICK events : events = {longer[k] : k \in DOMAIN longer}
    OBVIOUS
  <2> PICK earlier : earlier = {log[k] : k \in DOMAIN log}
    OBVIOUS
  <2>1. log \in Seq(events) /\ event \in events
    <3>1. earlier \subseteq events
      <4> SUFFICES ASSUME NEW k \in DOMAIN log PROVE log[k] \in events
        OBVIOUS
      <4>1. k \in DOMAIN longer /\ longer[k] = log[k]
        BY <1>3
      <4> QED
        BY <4>1
    <3>2. event \in events
      BY <1>3
    <3>3. log \in Seq(earlier)
      BY <1>2
    <3>4. log \in Seq(events)
      BY <3>1, <3>3
    <3> QED
      BY <3>2, <3>4
  <2> QED
    BY <2>1, AppendProperties
<1>5. /\ event.id = n /\ event.payload = payload /\ event.previous = tail
      /\ event.after = IF chain = <<>> THEN 0 ELSE Last(chain).id
      /\ event.hash = IF version = "sha256" THEN BuildEventHash(tail, payload)
                      ELSE LegacyDjb2EventHash(tail, payload)
  BY DEF Appended
<1>6. /\ chain = <<>> => tail = Genesis
      /\ chain # <<>> => /\ Len(chain) \in DOMAIN chain /\ Last(chain) = chain[Len(chain)]
                         /\ tail = chain[Len(chain)].hash
  <2>1. chain # <<>> => Len(chain) \in DOMAIN chain
    BY <1>2, EmptySeq
  <2> QED
    BY <2>1 DEF TailHash, Last
<1>7. EventOf(longer, n)
  <2>1. CASE chain = <<>>
    BY <1>3, <1>5, <1>6, <2>1 DEF EventOf
  <2>2. CASE chain # <<>>
    <3>1. PICK k \in DOMAIN log, p \in Payloads : chain[Len(chain)] = RowOf(log, k, Jsonb(p))
      BY <1>2, <1>6, <2>2, RowOfEvent
    <3>2. event.after = k /\ tail = log[k].hash /\ k \in 0..(n - 1) /\ k # 0 /\ longer[k] = log[k]
      BY <1>3, <1>5, <1>6, <2>2, <3>1 DEF RowOf
    <3> QED
      BY <1>3, <1>5, <3>2 DEF EventOf
  <2> QED
    BY <2>1, <2>2
<1>8. \A k \in DOMAIN longer : EventOf(longer, k)
  <2> SUFFICES ASSUME NEW k \in DOMAIN longer, k # n
               PROVE  EventOf(longer, k)
    BY <1>7
  <2>1. k \in DOMAIN log /\ longer[k] = log[k] /\ EventOf(log, k)
    BY <1>2, <1>3
  <2>2. log[k].after # 0 => log[k].after \in DOMAIN log
    BY <1>3, <2>1 DEF EventOf
  <2>3. log[k].after # 0 => longer[log[k].after] = log[log[k].after]
    BY <1>3, <2>2
  <2> QED
    BY <2>1, <2>3 DEF EventOf
<1>9. row = RowOf(longer, n, Jsonb(payload))
  <2> PICK kept : kept = Jsonb(payload)
    OBVIOUS
  <2> PICK after, hash : after = event.after /\ hash = event.hash
    OBVIOUS
  <2>1. event = [id |-> n, after |-> after, previous |-> tail, payload |-> payload, hash |-> hash]
    BY DEF Appended
  <2>2. row = [event EXCEPT !.payload = kept]
    BY <1>5 DEF Stored
  <2>3. row = [id |-> n, after |-> after, previous |-> tail, payload |-> kept, hash |-> hash]
    BY <2>1, <2>2
  <2> QED
    BY <1>3, <1>5, <2>3 DEF RowOf
<1>10. more \in Seq(StoredRowsOf(longer))
  <2>1. StoredRowsOf(log) \subseteq StoredRowsOf(longer)
    <3>1. DOMAIN log \subseteq DOMAIN longer
      BY <1>3
    <3> QED
      BY <1>3, <3>1, MoreEvents
  <2>2. row \in StoredRowsOf(longer)
    BY <1>3, <1>9 DEF StoredRowsOf
  <2>3. chain \in Seq(StoredRowsOf(longer))
    BY <1>2, <2>1
  <2> QED
    BY <2>2, <2>3, AppendProperties
<1>11. damages = 0 => Honest(more, version)
  <2> SUFFICES ASSUME damages = 0 PROVE Honest(more, version)
    OBVIOUS
  <2>1. /\ Len(chain) \in Nat /\ DOMAIN chain = 1..Len(chain) /\ DOMAIN more = 1..(Len(chain) + 1)
        /\ more[Len(chain) + 1] = row /\ \A i \in DOMAIN chain : more[i] = chain[i]
    BY <1>2, AppendProperties
  <2> PICK last : last = Len(chain) + 1
    OBVIOUS
  <2>2. /\ row.previous = tail /\ row.payload = Jsonb(payload) /\ row.hash = event.hash
    BY <1>3, <1>5, <1>9 DEF RowOf
  <2>3. /\ DetectEventHashScheme(row.hash) = version
        /\ version = "sha256" => row.hash = BuildEventHash(row.previous, row.payload)
    <3>1. BuildEventHash(tail, Jsonb(payload)) = BuildEventHash(tail, payload)
      BY PayloadForms DEF BuildEventHash, Sha256EventHash
    <3> QED
      <4>1. CASE version = "sha256"
        <5>1. row.hash = BuildEventHash(tail, payload)
          BY <1>5, <2>2, <4>1
        <5>2. DetectEventHashScheme(BuildEventHash(tail, payload)) = "sha256"
          BY HashParts
        <5> QED
          BY <2>2, <3>1, <4>1, <5>1, <5>2
      <4>2. CASE version = "djb2"
        <5>1. row.hash = LegacyDjb2EventHash(tail, payload)
          BY <1>5, <2>2, <4>2
        <5>2. DetectEventHashScheme(LegacyDjb2EventHash(tail, payload)) = "djb2"
          BY HashParts
        <5> QED
          BY <4>2, <5>1, <5>2
      <4> QED
        BY <1>2, <4>1, <4>2
  <2>4. LinkedToPrevious(more)
    <3> SUFFICES ASSUME NEW i \in DOMAIN more PROVE more[i].previous = ExpectedPrevious(more, i)
      BY DEF LinkedToPrevious
    <3>1. CASE i = last
      <4>1. CASE chain = <<>>
        BY <1>6, <2>1, <2>2, <3>1, <4>1, EmptySeq DEF ExpectedPrevious
      <4>2. CASE chain # <<>>
        BY <1>6, <2>1, <2>2, <3>1, <4>2 DEF ExpectedPrevious
      <4> QED
        BY <4>1, <4>2
    <3>2. CASE i # last
      <4>1. i \in DOMAIN chain /\ chain[i].previous = ExpectedPrevious(chain, i)
        BY <1>2, <2>1, <3>2 DEF Honest, Clean, ChainLinked, Linked, LinkedToPrevious
      <4> QED
        BY <2>1, <4>1 DEF ExpectedPrevious
    <3> QED
      BY <3>1, <3>2
  <2>5. CutOverOnce(more)
    <3> SUFFICES ASSUME NEW i \in DOMAIN more, NEW j \in DOMAIN more, i < j,
                        DetectEventHashScheme(more[i].hash) = "sha256"
                 PROVE  DetectEventHashScheme(more[j].hash) = "sha256"
      BY DEF CutOverOnce
    <3>1. i \in DOMAIN chain /\ more[i] = chain[i]
      BY <2>1
    <3>2. CASE j = last
      <4>1. i \in RecomputedOf(chain)
        BY <3>1 DEF RecomputedOf
      <4>2. version = "sha256"
        BY <1>2, <4>1 DEF Honest
      <4> QED
        BY <2>1, <2>3, <3>2, <4>2
    <3>3. CASE j # last
      <4>1. j \in DOMAIN chain /\ more[j] = chain[j]
        BY <2>1, <3>3
      <4> QED
        BY <1>2, <3>1, <4>1 DEF Honest, Clean, ChainLinked, CutOverOnce
    <3> QED
      BY <3>2, <3>3
  <2>6. PayloadVerified(more)
    <3> SUFFICES ASSUME NEW i \in DOMAIN more, DetectEventHashScheme(more[i].hash) = "sha256"
                 PROVE  BuildEventHash(more[i].previous, more[i].payload) = more[i].hash
      BY DEF PayloadVerified, RecomputedOf
    <3>1. CASE i = last
      BY <2>1, <2>3, <3>1
    <3>2. CASE i # last
      <4>1. i \in DOMAIN chain /\ more[i] = chain[i]
        BY <2>1, <3>2
      <4> QED
        BY <1>2, <4>1 DEF Honest, Clean, PayloadVerified, RecomputedOf
    <3> QED
      BY <3>1, <3>2
  <2>7. version = "djb2" => RecomputedOf(more) = {}
    <3> SUFFICES ASSUME version = "djb2", NEW i \in DOMAIN more
                 PROVE  DetectEventHashScheme(more[i].hash) # "sha256"
      BY DEF RecomputedOf
    <3>1. CASE i = last
      BY <2>1, <2>3, <3>1
    <3>2. CASE i # last
      <4>1. i \in DOMAIN chain /\ more[i] = chain[i]
        BY <2>1, <3>2
      <4> QED
        BY <1>2, <4>1 DEF Honest, RecomputedOf
    <3> QED
      BY <3>1, <3>2
  <2> QED
    BY <2>4, <2>5, <2>6, <2>7 DEF Honest, Clean, ChainLinked, Linked
<1> QED
  BY <1>1, <1>2, <1>4, <1>8, <1>10, <1>11 DEF EventChainInv

-----------------------------------------------------------------------------
\* Rows that were damaged are still rows of events.
LEMMA ChainDamaged ==
  ASSUME EventChainInv, rows' \in Seq(StoredRowsOf(written)), Damage, UNCHANGED <<written, scheme>>
  PROVE  EventChainInv'
<1> PICK log : log = written
  OBVIOUS
<1>1. written' = log /\ scheme' = scheme /\ damages' \in Nat /\ damages' # 0
  BY DEF Damage, EventChainInv
<1>2. /\ log \in Seq({log[k] : k \in DOMAIN log}) /\ \A k \in DOMAIN log : EventOf(log, k)
      /\ rows' \in Seq(StoredRowsOf(log)) /\ scheme \in {"djb2", "sha256"}
  BY DEF EventChainInv
<1> QED
  BY <1>1, <1>2 DEF EventChainInv

LEMMA ChainStep == EventChainInv /\ [ChainNext]_chainVars => EventChainInv'
<1> SUFFICES ASSUME EventChainInv, [ChainNext]_chainVars PROVE EventChainInv'
  OBVIOUS
<1> PICK log : log = written
  OBVIOUS
<1> PICK chain : chain = rows
  OBVIOUS
<1> PICK kinds : kinds = StoredRowsOf(log)
  OBVIOUS
<1>1. chain \in Seq(kinds) /\ Len(chain) \in Nat /\ DOMAIN chain = 1..Len(chain)
  BY DEF EventChainInv
<1>2. ASSUME NEW payload \in Payloads, AppendToChain(payload) PROVE EventChainInv'
  BY <1>2, ChainAppends
<1>3. CASE CutOver
  <2>1. /\ written' = log /\ rows' = chain /\ scheme' = "sha256" /\ damages' = damages
    BY <1>3 DEF CutOver
  <2>2. /\ log \in Seq({log[k] : k \in DOMAIN log}) /\ \A k \in DOMAIN log : EventOf(log, k)
        /\ damages \in Nat /\ damages = 0 => Honest(chain, "sha256")
    BY DEF EventChainInv, Honest
  <2> QED
    BY <1>1, <2>1, <2>2 DEF EventChainInv
<1>4. ASSUME NEW i \in DOMAIN rows, LoseRow(i) PROVE EventChainInv'
  <2>1. i \in 1..Len(chain)
    BY <1>1
  <2>2. SubSeq(chain, 1, i - 1) \in Seq(kinds) /\ SubSeq(chain, i + 1, Len(chain)) \in Seq(kinds)
    BY <1>1, <2>1, SubSeqProperties
  <2>3. RemoveAt(chain, i) \in Seq(kinds)
    BY <2>2, ConcatProperties DEF RemoveAt
  <2> QED
    BY <1>4, <2>3, ChainDamaged DEF LoseRow
<1>5. ASSUME NEW i \in DOMAIN rows, NEW j \in DOMAIN rows, SwapRows(i, j) PROVE EventChainInv'
  <2> PICK swapped : swapped = [chain EXCEPT ![i] = chain[j], ![j] = chain[i]]
    OBVIOUS
  <2>1. chain[i] \in kinds /\ chain[j] \in kinds
    BY <1>1
  <2>2. swapped \in Seq(kinds)
    BY <1>1, <2>1, SeqDef
  <2> QED
    BY <1>5, <2>2, ChainDamaged DEF SwapRows
<1>6. ASSUME NEW i \in DOMAIN rows, NEW payload \in Payloads, ChangePayload(i, payload)
      PROVE  EventChainInv'
  <2> PICK kept : kept = Jsonb(payload)
    OBVIOUS
  <2> PICK row : row = [chain[i] EXCEPT !.payload = kept]
    OBVIOUS
  <2>1. PICK n \in DOMAIN log, p \in Payloads : chain[i] = RowOf(log, n, Jsonb(p))
    BY <1>1, RowOfEvent
  <2>2. row = RowOf(log, n, kept)
    <3> PICK after, previous, hash, payload0 :
          after = log[n].after /\ previous = log[n].previous /\ hash = log[n].hash /\ payload0 = Jsonb(p)
      OBVIOUS
    <3> PICK was : was = [id |-> n, after |-> after, previous |-> previous,
                          payload |-> payload0, hash |-> hash]
      OBVIOUS
    <3>1. chain[i] = was
      BY <2>1 DEF RowOf
    <3>2. [was EXCEPT !.payload = kept] = [id |-> n, after |-> after, previous |-> previous,
                          payload |-> kept, hash |-> hash]
      OBVIOUS
    <3> QED
      BY <3>1, <3>2 DEF RowOf
  <2>3. row \in kinds
    BY <2>2 DEF StoredRowsOf
  <2>4. [chain EXCEPT ![i] = row] \in Seq(kinds)
    BY <1>1, <2>3, SeqDef
  <2>5. rows' = [chain EXCEPT ![i] = row]
    BY <1>6 DEF ChangePayload
  <2> QED
    BY <1>6, <2>4, <2>5, ChainDamaged DEF ChangePayload
<1>7. CASE UNCHANGED chainVars
  <2>1. written' = log /\ rows' = chain /\ scheme' = scheme /\ damages' = damages
    BY <1>7 DEF chainVars
  <2>2. /\ log \in Seq({log[k] : k \in DOMAIN log}) /\ \A k \in DOMAIN log : EventOf(log, k)
        /\ damages \in Nat /\ scheme \in {"djb2", "sha256"} /\ damages = 0 => Honest(chain, scheme)
    BY DEF EventChainInv
  <2> QED
    BY <1>1, <2>1, <2>2 DEF EventChainInv
<1> QED
  BY <1>2, <1>3, <1>4, <1>5, <1>6, <1>7 DEF ChainNext

LEMMA ChainStart == ChainInit => EventChainInv
<1> SUFFICES ASSUME ChainInit PROVE EventChainInv
  OBVIOUS
<1>1. rows = <<>> /\ written = <<>> /\ damages = 0 /\ scheme \in {"djb2", "sha256"}
  BY DEF ChainInit
<1>2. DOMAIN written = {} /\ DOMAIN rows = {}
  BY <1>1
<1>3. Honest(rows, scheme)
  BY <1>2 DEF Honest, Clean, ChainLinked, Linked, LinkedToPrevious, CutOverOnce, PayloadVerified, RecomputedOf
<1>4. written \in Seq({written[n] : n \in DOMAIN written}) /\ rows \in Seq(StoredRowsOf(written))
  BY <1>1, EmptySeq
<1> QED
  BY <1>1, <1>2, <1>3, <1>4 DEF EventChainInv

-----------------------------------------------------------------------------
\* f tells the events that led to each of the first n of the log.
HistoryUpTo(log, f, n) ==
  f = [k \in 0..n |-> IF k = 0 THEN <<>> ELSE Append(f[log[k].after], log[k])]

\* There is a history of every log whose events follow earlier ones.
LEMMA HistoryExists ==
  ASSUME NEW log, NEW last \in Nat, \A n \in 1..last : log[n].after \in 0..(n - 1)
  PROVE  \E f : HistoryUpTo(log, f, last)
<1> DEFINE T == {n \in 0..last : ~\E f : HistoryUpTo(log, f, n)}
<1> SUFFICES ASSUME last \in T PROVE FALSE
  OBVIOUS
<1>1. T \in SUBSET Nat /\ T # {}
  OBVIOUS
<1> HIDE DEF T
<1>2. PICK n \in T : \A k \in T : n <= k
  BY <1>1, LeastNumber
<1>3. n \in 0..last /\ ~\E f : HistoryUpTo(log, f, n)
  BY <1>2 DEF T
<1>4. n # 0
  <2> PICK f : f = [k \in 0..0 |-> <<>>]
    OBVIOUS
  <2>1. HistoryUpTo(log, f, 0)
    BY DEF HistoryUpTo
  <2> QED
    BY <1>3, <2>1
<1>5. n - 1 \in 0..last /\ n - 1 \notin T
  BY <1>1, <1>2, <1>3, <1>4
<1>6. PICK f : HistoryUpTo(log, f, n - 1)
  BY <1>5 DEF T
<1> PICK events : events = Append(f[log[n].after], log[n])
  OBVIOUS
<1> PICK g : g = [k \in 0..n |-> IF k = n THEN events ELSE f[k]]
  OBVIOUS
<1>7. ASSUME NEW k \in 0..n
      PROVE  g[k] = IF k = 0 THEN <<>> ELSE Append(g[log[k].after], log[k])
  <2>1. CASE k = n
    <3>1. log[n].after \in 0..(n - 1)
      BY <1>3, <1>4
    <3>2. g[n] = events /\ g[log[n].after] = f[log[n].after]
      BY <1>3, <3>1
    <3> QED
      BY <1>3, <1>4, <2>1, <3>2
  <2>2. CASE k # n
    <3>1. k \in 0..(n - 1) /\ g[k] = f[k]
      BY <1>3, <2>2
    <3>2. f[k] = IF k = 0 THEN <<>> ELSE Append(f[log[k].after], log[k])
      BY <1>6, <3>1 DEF HistoryUpTo
    <3>3. k # 0 => log[k].after \in 0..(n - 1)
      BY <1>3, <3>1
    <3>4. k # 0 => g[log[k].after] = f[log[k].after]
      BY <1>3, <3>3
    <3> QED
      BY <3>1, <3>2, <3>4
  <2> QED
    BY <2>1, <2>2
<1>8. HistoryUpTo(log, g, n)
  BY <1>7 DEF HistoryUpTo
<1> QED
  BY <1>3, <1>8

\* The history of an event is that of the one it follows, and the event.
LEMMA HistoryUnfolds ==
  ASSUME EventChainInv
  PROVE  \A n \in 0..Len(written) :
           History[n] = IF n = 0 THEN <<>> ELSE Append(History[written[n].after], written[n])
<1> PICK log : log = written
  OBVIOUS
<1>1. Len(log) \in Nat /\ \A n \in 1..Len(log) : log[n].after \in 0..(n - 1)
  BY DEF EventChainInv, EventOf
<1>2. \E f : HistoryUpTo(log, f, Len(log))
  BY <1>1, HistoryExists
<1>3. History = CHOOSE f : HistoryUpTo(log, f, Len(log))
  BY DEF History, HistoryUpTo
<1>4. HistoryUpTo(log, History, Len(log))
  BY <1>2, <1>3
<1> QED
  BY <1>4 DEF HistoryUpTo

\* A clean log is the history of its last row, hash by hash.
LEMMA CleanIsHistory ==
  ASSUME EventChainInv, Clean(rows), NEW i \in DOMAIN rows, NEW n \in DOMAIN written,
         rows[i].hash = written[n].hash
  PROVE  /\ History[n] \in Seq({written[m] : m \in DOMAIN written}) /\ Len(History[n]) = i
         /\ \A j \in 1..i : History[n][j].hash = rows[j].hash
<1> PICK log : log = written
  OBVIOUS
<1> PICK chain : chain = rows
  OBVIOUS
<1> PICK events : events = {log[m] : m \in DOMAIN log}
  OBVIOUS
<1> PICK H : H = History
  OBVIOUS
<1> DEFINE Told(k) ==
      \A m \in DOMAIN log : chain[k].hash = log[m].hash =>
        /\ H[m] \in Seq(events) /\ Len(H[m]) = k
        /\ \A j \in 1..k : H[m][j].hash = chain[j].hash
<1> DEFINE T == {k \in DOMAIN chain : ~Told(k)}
<1>1. /\ Len(log) \in Nat /\ DOMAIN log = 1..Len(log) /\ \A m \in DOMAIN log : EventOf(log, m)
      /\ chain \in Seq(StoredRowsOf(log)) /\ Len(chain) \in Nat /\ DOMAIN chain = 1..Len(chain)
  BY DEF EventChainInv
<1>2. \A m \in 0..Len(log) : H[m] = IF m = 0 THEN <<>> ELSE Append(H[log[m].after], log[m])
  BY HistoryUnfolds
<1>3. LinkedToPrevious(chain)
  BY DEF Clean, ChainLinked, Linked
<1>4. \A m \in DOMAIN log : log[m].hash # Genesis
  BY <1>1, HashParts DEF EventOf
<1>5. \A k \in DOMAIN chain :
        \E r \in DOMAIN log, payload \in Payloads : chain[k] = RowOf(log, r, Jsonb(payload))
  <2>1. chain \in Seq(StoredRowsOf(log))
    BY <1>1
  <2> QED
    BY <2>1, RowOfEvent, Zenon
<1>6. T = {}
  <2> SUFFICES ASSUME T # {} PROVE FALSE
    OBVIOUS
  <2>1. T \in SUBSET Nat
    BY <1>1
  <2> HIDE DEF T
  <2>2. PICK k \in T : \A l \in T : k <= l
    BY <2>1, LeastNumber
  <2>3. k \in DOMAIN chain /\ ~Told(k)
    BY <2>2 DEF T
  <2> HIDE DEF Told
  <2>4. k # 1 => Told(k - 1)
    <3>1. k # 1 => k - 1 \in DOMAIN chain /\ ~(k <= k - 1)
      BY <1>1, <2>3
    <3> QED
      BY <2>2, <3>1 DEF T
  <2>5. PICK m \in DOMAIN log :
          /\ chain[k].hash = log[m].hash
          /\ ~(/\ H[m] \in Seq(events) /\ Len(H[m]) = k
               /\ \A j \in 1..k : H[m][j].hash = chain[j].hash)
    BY <2>3 DEF Told
  <2>6. PICK r \in DOMAIN log, payload \in Payloads : chain[k] = RowOf(log, r, Jsonb(payload))
    BY <1>5, <2>3
  <2>7. log[m].previous = log[r].previous /\ chain[k].previous = log[r].previous
    <3>1. log[r].hash = log[m].hash /\ chain[k].previous = log[r].previous
      BY <2>5, <2>6 DEF RowOf
    <3>2. EventOf(log, r) /\ EventOf(log, m)
      BY <1>1
    <3> QED
      BY <3>1, <3>2, HashParts DEF EventOf
  <2>8. log[m].previous = ExpectedPrevious(chain, k)
    BY <1>3, <2>3, <2>7 DEF LinkedToPrevious
  <2> PICK a : a = log[m].after
    OBVIOUS
  <2>9. /\ a \in 0..(m - 1) /\ log[m].previous = IF a = 0 THEN Genesis ELSE log[a].hash
        /\ m \in 1..Len(log)
    BY <1>1 DEF EventOf
  <2>10. H[m] = Append(H[a], log[m]) /\ H[0] = <<>> /\ log[m] \in events
    <3>1. m \in 0..Len(log) /\ 0 \in 0..Len(log) /\ m # 0
      BY <1>1, <2>9
    <3> QED
      BY <1>2, <3>1
  <2>11. /\ H[a] \in Seq(events) /\ Len(H[a]) = k - 1
         /\ \A j \in 1..(k - 1) : H[a][j].hash = chain[j].hash
    <3>1. CASE k = 1
      <4>1. a = 0
        BY <1>1, <1>4, <2>8, <2>9, <3>1 DEF ExpectedPrevious
      <4>2. H[a] = <<>>
        BY <2>10, <4>1
      <4>3. H[a] \in Seq(events) /\ Len(H[a]) = 0
        BY <4>2, EmptySeq
      <4> QED
        BY <3>1, <4>3
    <3>2. CASE k # 1
      <4>1. k - 1 \in DOMAIN chain /\ log[m].previous = chain[k - 1].hash
        BY <1>1, <2>3, <2>8, <3>2 DEF ExpectedPrevious
      <4>2. chain[k - 1].hash # Genesis
        <5>1. PICK q \in DOMAIN log, p \in Payloads : chain[k - 1] = RowOf(log, q, Jsonb(p))
          BY <1>5, <4>1
        <5> QED
          BY <1>4, <5>1 DEF RowOf
      <4>3. a # 0 /\ a \in DOMAIN log /\ chain[k - 1].hash = log[a].hash
        BY <1>1, <2>9, <4>1, <4>2
      <4> QED
        BY <2>4, <3>2, <4>3 DEF Told
    <3> QED
      BY <3>1, <3>2
  <2>12. /\ H[m] \in Seq(events) /\ Len(H[m]) = k /\ H[m][k] = log[m]
         /\ \A j \in 1..(k - 1) : H[m][j] = H[a][j]
    <3>1. k \in Nat \ {0}
      BY <1>1, <2>3
    <3> QED
      BY <2>10, <2>11, <3>1, AppendProperties
  <2>13. ASSUME NEW j \in 1..k PROVE H[m][j].hash = chain[j].hash
    <3>1. k \in Nat \ {0}
      BY <1>1, <2>3
    <3>2. CASE j = k
      BY <2>5, <2>12, <3>2
    <3>3. CASE j # k
      <4>1. j \in 1..(k - 1)
        BY <3>1, <3>3
      <4> QED
        BY <2>11, <2>12, <4>1
    <3> QED
      BY <3>2, <3>3
  <2> QED
    BY <2>5, <2>12, <2>13
<1>7. Told(i)
  BY <1>6
<1> QED
  BY <1>7

\* A clean report is true: the log is a history, and says what was appended.
LEMMA CleanIsTrue == EventChainInv => CleanReportIsTrue
<1> SUFFICES ASSUME EventChainInv, Clean(rows), rows # <<>>
             PROVE  LET history == History[Last(rows).id]
                    IN  /\ [i \in DOMAIN rows |-> rows[i].hash] = [i \in DOMAIN history |-> history[i].hash]
                        /\ \A i \in RecomputedOf(rows) : rows[i].payload.value = history[i].payload.value
  BY DEF CleanReportIsTrue
<1> PICK log : log = written
  OBVIOUS
<1> PICK chain : chain = rows
  OBVIOUS
<1> PICK events : events = {log[m] : m \in DOMAIN log}
  OBVIOUS
<1> PICK history : history = History[Last(rows).id]
  OBVIOUS
<1>1. /\ chain \in Seq(StoredRowsOf(log)) /\ Len(chain) \in Nat /\ DOMAIN chain = 1..Len(chain)
      /\ \A m \in DOMAIN log : EventOf(log, m)
  BY DEF EventChainInv
<1>2. Len(chain) \in DOMAIN chain
  BY <1>1, EmptySeq
<1>3. PICK n \in DOMAIN log, payload \in Payloads : chain[Len(chain)] = RowOf(log, n, Jsonb(payload))
  BY <1>1, <1>2, RowOfEvent
<1>4. history = History[n] /\ chain[Len(chain)].hash = log[n].hash
  BY <1>3 DEF Last, RowOf
<1>5. /\ history \in Seq(events) /\ Len(history) = Len(chain)
      /\ \A j \in 1..Len(chain) : history[j].hash = chain[j].hash
  <2> PICK last : last = Len(chain)
    OBVIOUS
  <2>1. last \in DOMAIN rows /\ n \in DOMAIN written /\ rows[last].hash = written[n].hash
    BY <1>2, <1>4
  <2>2. /\ History[n] \in Seq({written[m] : m \in DOMAIN written}) /\ Len(History[n]) = last
        /\ \A j \in 1..last : History[n][j].hash = rows[j].hash
    BY <2>1, CleanIsHistory
  <2> QED
    BY <1>4, <2>2
<1>6. [i \in DOMAIN chain |-> chain[i].hash] = [i \in DOMAIN history |-> history[i].hash]
  <2>1. DOMAIN history = DOMAIN chain
    BY <1>1, <1>5
  <2> QED
    BY <1>1, <1>5, <2>1
<1>7. ASSUME NEW i \in RecomputedOf(chain) PROVE chain[i].payload.value = history[i].payload.value
  <2>1. i \in DOMAIN chain /\ DetectEventHashScheme(chain[i].hash) = "sha256"
    BY DEF RecomputedOf
  <2>2. BuildEventHash(chain[i].previous, chain[i].payload) = chain[i].hash
    BY DEF Clean, PayloadVerified
  <2>3. PICK m \in DOMAIN log : history[i] = log[m]
    BY <1>1, <1>5, <2>1
  <2>4. log[m].hash = chain[i].hash /\ EventOf(log, m)
    BY <1>1, <1>5, <2>1, <2>3
  <2>5. CanonicalJson(chain[i].payload) = CanonicalJson(log[m].payload)
    BY <2>2, <2>4, HashParts DEF EventOf
  <2> QED
    BY <2>3, <2>5, PayloadForms
<1> QED
  BY <1>6, <1>7

\* The integrity report accepts every honest log across the cutover and jsonb, and nothing
\* that was damaged before its last row and behind the cutover (hash-chain.ts).
THEOREM IntegrityReportIsRight == ChainSpec => []ReportIsRight
<1>1. EventChainInv => ReportIsRight
  BY CleanIsTrue DEF EventChainInv, Honest, HonestLogVerifies, ReportIsRight
<1> QED
  BY <1>1, ChainStart, ChainStep, PTL DEF ChainSpec

-----------------------------------------------------------------------------
(* The knowledge corpus.                                                   *)

CorpusTexts ==
  UNION {{CorpusChunks(v)[n].text : n \in DOMAIN CorpusChunks(v)} : v \in DOMAIN Checkouts}

TextsOf(piece) == [n \in DOMAIN piece |-> piece[n].text]
EmbeddedWith(script, chunks) == script.vectors \o TextsOf(Batch(chunks, script.start))

IngestionRecord ==
  [phase : {"idle", "embedding"}, version : DOMAIN Checkouts \cup {0}, start : Nat,
   vectors : Seq(CorpusTexts)]

\* What was embedded so far is the texts of the first chunks, in their order.
EmbeddedInOrder(script) ==
  script.phase = "embedding" =>
    LET chunks == CorpusChunks(script.version)
    IN  /\ script.version \in DOMAIN Checkouts
        /\ Len(script.vectors) = AtMost(chunks, script.start)
        /\ \A n \in 1..Len(script.vectors) : script.vectors[n] = chunks[n].text

QuestionIsTyped ==
  \E words, passages :
    question \in [stage : {"none", "embedding", "searching", "answered"}, words : {words},
                  via : Channels \cup {"none"}, mode : {"none", "keyword", "vector"},
                  passages : {passages}]

CorpusInv ==
  /\ ingestion \in [Ingestions -> IngestionRecord]
  /\ \A i \in Ingestions : EmbeddedInOrder(ingestion[i])
  /\ landed \in DOMAIN Checkouts \cup {0}
  /\ CorpusIsWhole /\ VectorsAreOfTheirText

QuestionInv == QuestionIsTyped /\ AnsweredWhenKnown

-----------------------------------------------------------------------------
\* The chunks of a version are a sequence of its texts.
LEMMA ChunksAreTexts ==
  ASSUME NEW v \in DOMAIN Checkouts, NEW chunks, chunks = CorpusChunks(v)
  PROVE  /\ Len(chunks) \in Nat /\ DOMAIN chunks = 1..Len(chunks)
         /\ chunks \in Seq(ToSet(chunks))
         /\ \A n \in 1..Len(chunks) : chunks[n].text \in CorpusTexts
         /\ \A m, n \in 1..Len(chunks) : chunks[m].id = chunks[n].id => m = n
<1>1. chunks \in Seq(ToSet(chunks)) /\ \A m, n \in DOMAIN chunks : chunks[m].id = chunks[n].id => m = n
  BY ChunkIdsAreUnique
<1>2. Len(chunks) \in Nat /\ DOMAIN chunks = 1..Len(chunks)
  BY <1>1
<1>3. \A n \in DOMAIN chunks : chunks[n].text \in CorpusTexts
  BY DEF CorpusTexts
<1> QED
  BY <1>1, <1>2, <1>3

\* Sequences that are joined keep their elements.
LEMMA Joined ==
  ASSUME NEW S, NEW a \in Seq(S), NEW b \in Seq(S)
  PROVE  /\ a \o b \in Seq(S) /\ Len(a \o b) = Len(a) + Len(b)
         /\ \A n \in 1..(Len(a) + Len(b)) :
              (a \o b)[n] = IF n <= Len(a) THEN a[n] ELSE b[n - Len(a)]
  BY ConcatProperties

\* The next batch goes behind what was embedded.
LEMMA BatchBehind ==
  ASSUME NEW script \in IngestionRecord, script.phase = "embedding", EmbeddedInOrder(script),
         NEW chunks, chunks = CorpusChunks(script.version), script.start < Len(chunks)
  PROVE  /\ EmbeddedWith(script, chunks) \in Seq(CorpusTexts)
         /\ Len(EmbeddedWith(script, chunks)) = AtMost(chunks, script.start + EmbedBatchSize)
         /\ \A n \in 1..Len(EmbeddedWith(script, chunks)) :
              EmbeddedWith(script, chunks)[n] = chunks[n].text
<1> PICK start : start = script.start
  OBVIOUS
<1> PICK piece : piece = Batch(chunks, start)
  OBVIOUS
<1> PICK texts : texts = TextsOf(piece)
  OBVIOUS
<1> PICK old : old = script.vectors
  OBVIOUS
<1> PICK end : end = AtMost(chunks, start + EmbedBatchSize)
  OBVIOUS
<1>1. /\ script.version \in DOMAIN Checkouts /\ Len(old) = AtMost(chunks, start)
      /\ \A n \in 1..Len(old) : old[n] = chunks[n].text
      /\ old \in Seq(CorpusTexts) /\ start \in Nat
  BY DEF EmbeddedInOrder, IngestionRecord
<1>2. /\ Len(chunks) \in Nat /\ DOMAIN chunks = 1..Len(chunks)
      /\ chunks \in Seq(ToSet(chunks)) /\ \A n \in 1..Len(chunks) : chunks[n].text \in CorpusTexts
  BY <1>1, ChunksAreTexts
<1>3. Len(old) = start /\ EmbedBatchSize \in Nat \ {0} /\ start < Len(chunks)
  BY <1>1, <1>2, KnowledgeConstants DEF AtMost
<1>4. end \in Nat /\ start < end /\ end <= Len(chunks)
  BY <1>1, <1>2, <1>3 DEF AtMost
<1>5. piece = SubSeq(chunks, start + 1, end)
  BY DEF Batch
<1>6. /\ Len(piece) = end - start /\ DOMAIN piece = 1..(end - start)
      /\ \A n \in 1..(end - start) : piece[n] = chunks[start + n]
  <2>1. \A n \in (start + 1)..end : chunks[n] \in ToSet(chunks)
    BY <1>1, <1>2, <1>4
  <2> PICK from : from = start + 1
    OBVIOUS
  <2>2. from \in Int /\ end \in Int /\ end - from + 1 = end - start /\ from <= end
    BY <1>1, <1>4
  <2>3. /\ SubSeq(chunks, from, end) \in Seq(ToSet(chunks))
        /\ Len(SubSeq(chunks, from, end)) = end - from + 1
        /\ \A n \in 1..(end - from + 1) : SubSeq(chunks, from, end)[n] = chunks[from + n - 1]
    BY <2>1, <2>2, SubSeqProperties
  <2>4. /\ Len(piece) = end - start /\ piece \in Seq(ToSet(chunks))
        /\ \A n \in 1..(end - start) : piece[n] = chunks[from + n - 1]
    BY <1>5, <2>2, <2>3
  <2>5. \A n \in 1..(end - start) : from + n - 1 = start + n
    BY <1>1, <1>4
  <2> QED
    BY <2>4, <2>5
<1>7. /\ texts \in Seq(CorpusTexts) /\ Len(texts) = end - start
      /\ \A n \in 1..(end - start) : texts[n] = chunks[start + n].text
  <2>1. \A n \in 1..(end - start) : start + n \in 1..Len(chunks)
    BY <1>1, <1>2, <1>4
  <2> PICK size : size = end - start
    OBVIOUS
  <2>2. size \in Nat /\ DOMAIN piece = 1..size
    BY <1>1, <1>4, <1>6
  <2>3. texts \in Seq(CorpusTexts) /\ Len(texts) = size
    <3>1. \A n \in 1..size : piece[n].text \in CorpusTexts
      BY <1>2, <1>6, <2>1
    <3>2. texts = [n \in 1..size |-> piece[n].text]
      BY <2>2 DEF TextsOf
    <3>3. texts \in [1..size -> CorpusTexts]
      BY <3>1, <3>2
    <3> QED
      BY <2>2, <3>3, SeqDef
  <2>4. \A n \in 1..size : texts[n] = piece[n].text
    BY <2>2 DEF TextsOf
  <2> QED
    BY <1>6, <2>3, <2>4
<1>8. /\ old \o texts \in Seq(CorpusTexts) /\ Len(old \o texts) = Len(old) + Len(texts)
      /\ \A n \in 1..(Len(old) + Len(texts)) :
           (old \o texts)[n] = IF n <= Len(old) THEN old[n] ELSE texts[n - Len(old)]
  <2>1. old \in Seq(CorpusTexts) /\ texts \in Seq(CorpusTexts)
    BY <1>1, <1>7
  <2>2. \A S : \A a, b \in Seq(S) : a \o b \in Seq(S)
    BY Joined
  <2>3. old \o texts \in Seq(CorpusTexts)
    BY <2>1, <2>2
  <2>4. \A S : \A a, b \in Seq(S) : Len(a \o b) = Len(a) + Len(b)
    BY Joined
  <2>5. Len(old \o texts) = Len(old) + Len(texts)
    BY <2>1, <2>4
  <2>6. \A S : \A a, b \in Seq(S) : \A n \in 1..(Len(a) + Len(b)) :
           (a \o b)[n] = IF n <= Len(a) THEN a[n] ELSE b[n - Len(a)]
    BY Joined
  <2>7. \A n \in 1..(Len(old) + Len(texts)) :
           (old \o texts)[n] = IF n <= Len(old) THEN old[n] ELSE texts[n - Len(old)]
    BY <2>1, <2>6
  <2> QED
    BY <2>3, <2>5, <2>7
<1> PICK vectors : vectors = old \o texts
  OBVIOUS
<1>9. /\ vectors \in Seq(CorpusTexts) /\ Len(vectors) = start + (end - start)
      /\ \A n \in 1..(start + (end - start)) :
            vectors[n] = IF n <= start THEN old[n] ELSE texts[n - start]
  <2>1. Len(old) = start /\ Len(texts) = end - start
    BY <1>3, <1>7
  <2> QED
    BY <1>8, <2>1
<1>10. start + (end - start) = end
  BY <1>1, <1>4
<1>11. ASSUME NEW n \in 1..end PROVE vectors[n] = chunks[n].text
  <2>1. CASE n <= start
    <3>1. n \in 1..Len(old) /\ n \in 1..(start + (end - start))
      BY <1>1, <1>3, <1>4, <1>10, <2>1
    <3>2. vectors[n] = old[n]
      BY <1>9, <2>1, <3>1
    <3> QED
      BY <1>1, <3>1, <3>2
  <2>2. CASE ~(n <= start)
    <3>1. n - start \in 1..(end - start) /\ start + (n - start) = n
      BY <1>1, <1>4, <2>2
    <3>2. vectors[n] = texts[n - start]
      BY <1>9, <1>10, <2>2
    <3>3. texts[n - start] = chunks[n].text
      BY <1>7, <3>1
    <3> QED
      BY <3>2, <3>3
  <2> QED
    BY <2>1, <2>2
<1>12. EmbeddedWith(script, chunks) = vectors
  BY DEF EmbeddedWith
<1> QED
  BY <1>9, <1>10, <1>11, <1>12

\* A script that goes on keeps what the others have embedded.
LEMMA ScriptReplaced ==
  ASSUME CorpusInv, NEW i \in Ingestions, NEW script \in IngestionRecord, EmbeddedInOrder(script),
         ingestion' = [ingestion EXCEPT ![i] = script], UNCHANGED <<index, landed>>
  PROVE  CorpusInv'
<1> PICK scripts : scripts = [ingestion EXCEPT ![i] = script]
  OBVIOUS
<1>1. scripts \in [Ingestions -> IngestionRecord] /\ \A j \in Ingestions : EmbeddedInOrder(scripts[j])
  BY DEF CorpusInv
<1>2. ingestion' = scripts /\ index' = index /\ landed' = landed
  OBVIOUS
<1> QED
  BY <1>1, <1>2 DEF CorpusInv, CorpusIsWhole, VectorsAreOfTheirText

LEMMA Idle == NotIngesting \in IngestionRecord /\ EmbeddedInOrder(NotIngesting)
  BY EmptySeq DEF NotIngesting, IngestionRecord, EmbeddedInOrder

\* What is upserted is the corpus of the version, each chunk with the vector of its text.
LEMMA CorpusUpserted ==
  ASSUME CorpusInv, NEW i \in Ingestions, UpsertKnowledgeDocuments(i)
  PROVE  CorpusInv'
<1> PICK script : script = ingestion[i]
  OBVIOUS
<1> PICK chunks : chunks = CorpusChunks(script.version)
  OBVIOUS
<1> PICK vectors : vectors = script.vectors
  OBVIOUS
<1> PICK all : all = Len(chunks)
  OBVIOUS
<1> PICK upserted : upserted = Rows(i, all)
  OBVIOUS
<1>1. /\ script.version \in DOMAIN Checkouts /\ script.start \in Nat /\ script.start >= all
      /\ Len(vectors) = AtMost(chunks, script.start)
      /\ \A n \in 1..Len(vectors) : vectors[n] = chunks[n].text
  BY DEF UpsertKnowledgeDocuments, CorpusInv, EmbeddedInOrder, IngestionRecord
<1>2. /\ all \in Nat /\ DOMAIN chunks = 1..all
      /\ \A m, n \in 1..all : chunks[m].id = chunks[n].id => m = n
  BY <1>1, ChunksAreTexts
<1>3. \A n \in 1..all : vectors[n] = chunks[n].text
  BY <1>1, <1>2 DEF AtMost
<1>4. /\ DOMAIN upserted = {chunks[n].id : n \in 1..all}
      /\ \A n \in 1..all : /\ upserted[chunks[n].id].text = chunks[n].text
                           /\ upserted[chunks[n].id].vector = chunks[n].text
  <2> DEFINE At(id) == CHOOSE n \in 1..all : chunks[n].id = id
  <2>1. upserted = [id \in {chunks[n].id : n \in 1..all} |->
                      [text |-> chunks[At(id)].text, vector |-> vectors[At(id)]]]
    BY DEF Rows
  <2>2. \A n \in 1..all : At(chunks[n].id) = n
    <3> SUFFICES ASSUME NEW n \in 1..all PROVE At(chunks[n].id) = n
      OBVIOUS
    <3>1. At(chunks[n].id) \in 1..all /\ chunks[At(chunks[n].id)].id = chunks[n].id
      OBVIOUS
    <3> HIDE DEF At
    <3> QED
      BY <1>2, <3>1
  <2> HIDE DEF At
  <2> QED
    BY <1>3, <2>1, <2>2
<1> PICK newIndex : newIndex = UpsertedIndex(upserted)
  OBVIOUS
<1>5. /\ DOMAIN newIndex = DOMAIN index \cup DOMAIN upserted
      /\ \A id \in DOMAIN newIndex :
            newIndex[id] = IF id \in DOMAIN upserted THEN upserted[id] ELSE index[id]
  BY DEF UpsertedIndex
<1>6. index' = newIndex /\ landed' = script.version /\ ingestion' = [ingestion EXCEPT ![i] = NotIngesting]
  BY DEF UpsertKnowledgeDocuments
<1>7. CorpusIsWhole'
  <2> SUFFICES ASSUME NEW c \in ToSet(CorpusChunks(script.version))
               PROVE  c.id \in DOMAIN newIndex /\ newIndex[c.id].text = c.text
    BY <1>6 DEF CorpusIsWhole
  <2>1. PICK n \in 1..all : c = chunks[n]
    BY <1>2 DEF ToSet
  <2> QED
    BY <1>4, <1>5, <2>1
<1>8. VectorsAreOfTheirText'
  <2> SUFFICES ASSUME NEW id \in DOMAIN newIndex PROVE newIndex[id].vector = newIndex[id].text
    BY <1>6 DEF VectorsAreOfTheirText
  <2>1. CASE id \in DOMAIN upserted
    <3>1. PICK n \in 1..all : id = chunks[n].id
      BY <1>4, <2>1
    <3> QED
      BY <1>4, <1>5, <2>1, <3>1
  <2>2. CASE id \notin DOMAIN upserted
    BY <1>5, <2>2 DEF CorpusInv, VectorsAreOfTheirText
  <2> QED
    BY <2>1, <2>2
<1> PICK scripts : scripts = [ingestion EXCEPT ![i] = NotIngesting]
  OBVIOUS
<1>9. scripts \in [Ingestions -> IngestionRecord] /\ \A j \in Ingestions : EmbeddedInOrder(scripts[j])
  BY Idle DEF CorpusInv
<1> QED
  BY <1>1, <1>6, <1>7, <1>8, <1>9 DEF CorpusInv

-----------------------------------------------------------------------------
\* Queries leave the corpus alone.
LEMMA CorpusStep == CorpusInv /\ [KnowledgeNext]_knowledgeVars => CorpusInv'
<1> SUFFICES ASSUME CorpusInv, [KnowledgeNext]_knowledgeVars PROVE CorpusInv'
  OBVIOUS
<1>1. ASSUME NEW i \in Ingestions, StartIngestion(i) PROVE CorpusInv'
  <2>1. PICK v \in DOMAIN Checkouts :
          ingestion' = [ingestion EXCEPT ![i] = [NotIngesting EXCEPT !.phase = "embedding", !.version = v]]
    BY <1>1 DEF StartIngestion
  <2> PICK started : started = [NotIngesting EXCEPT !.phase = "embedding", !.version = v]
    OBVIOUS
  <2>2. started = [phase |-> "embedding", version |-> v, start |-> 0, vectors |-> <<>>]
    BY DEF NotIngesting
  <2> PICK script : script = [phase |-> "embedding", version |-> v, start |-> 0, vectors |-> <<>>]
    OBVIOUS
  <2>3. script \in IngestionRecord
    BY EmptySeq DEF IngestionRecord
  <2>4. EmbeddedInOrder(script)
    <3> PICK chunks : chunks = CorpusChunks(v)
      OBVIOUS
    <3>1. Len(chunks) \in Nat
      BY ChunksAreTexts
    <3>2. AtMost(chunks, 0) = 0
      BY <3>1 DEF AtMost
    <3> QED
      BY <3>2 DEF EmbeddedInOrder
  <2>5. UNCHANGED <<index, landed>>
    BY <1>1 DEF StartIngestion
  <2> QED
    BY <2>1, <2>2, <2>3, <2>4, <2>5, ScriptReplaced
<1>2. ASSUME NEW i \in Ingestions, EmbedChunks(i) PROVE CorpusInv'
  <2> PICK script : script = ingestion[i]
    OBVIOUS
  <2> PICK chunks : chunks = CorpusChunks(script.version)
    OBVIOUS
  <2> PICK vectors : vectors = EmbeddedWith(script, chunks)
    OBVIOUS
  <2> PICK start : start = script.start + EmbedBatchSize
    OBVIOUS
  <2> PICK more : more = [phase |-> "embedding", version |-> script.version, start |-> start, vectors |-> vectors]
    OBVIOUS
  <2>1. script \in IngestionRecord /\ EmbeddedInOrder(script)
    BY DEF CorpusInv
  <2>2. script.phase = "embedding" /\ script.start < Len(chunks)
    BY <1>2 DEF EmbedChunks
  <2>3. /\ vectors \in Seq(CorpusTexts) /\ Len(vectors) = AtMost(chunks, start)
        /\ \A n \in 1..Len(vectors) : vectors[n] = chunks[n].text
    <3>1. /\ vectors \in Seq(CorpusTexts) /\ Len(vectors) = AtMost(chunks, script.start + EmbedBatchSize)
          /\ \A n \in 1..Len(vectors) : vectors[n] = chunks[n].text
      BY <2>1, <2>2, BatchBehind
    <3> QED
      BY <3>1
  <2>4. ingestion' = [ingestion EXCEPT ![i] = more]
    BY <1>2 DEF EmbedChunks, EmbeddedWith, TextsOf
  <2>5. more \in IngestionRecord
    <3>1. start \in Nat
      BY <2>1, KnowledgeConstants DEF IngestionRecord
    <3> QED
      BY <2>1, <2>3, <3>1 DEF IngestionRecord
  <2>6. EmbeddedInOrder(more)
    BY <2>1, <2>2, <2>3 DEF EmbeddedInOrder
  <2>7. UNCHANGED <<index, landed>>
    BY <1>2 DEF EmbedChunks
  <2> QED
    BY <2>4, <2>5, <2>6, <2>7, ScriptReplaced
<1>3. ASSUME NEW i \in Ingestions, UpsertKnowledgeDocuments(i) PROVE CorpusInv'
  BY <1>3, CorpusUpserted
<1>4. ASSUME NEW i \in Ingestions, FailIngestion(i) PROVE CorpusInv'
  <2>1. ingestion' = [ingestion EXCEPT ![i] = NotIngesting] /\ UNCHANGED <<index, landed>>
    BY <1>4 DEF FailIngestion
  <2> QED
    BY <2>1, Idle, ScriptReplaced
<1>5. CASE UNCHANGED <<index, ingestion, landed>>
  BY <1>5 DEF CorpusInv, CorpusIsWhole, VectorsAreOfTheirText
<1>6. \/ \E i \in Ingestions :
           StartIngestion(i) \/ EmbedChunks(i) \/ UpsertKnowledgeDocuments(i) \/ FailIngestion(i)
      \/ UNCHANGED <<index, ingestion, landed>>
  BY DEF KnowledgeNext, knowledgeVars, AskKnowledge, EmbedQuery, SearchIndex, FallBack
<1> QED
  BY <1>1, <1>2, <1>3, <1>4, <1>5, <1>6

-----------------------------------------------------------------------------
\* A question that becomes q is answered when it can be.
LEMMA QuestionReplaced ==
  ASSUME NEW words, NEW passages, NEW stage \in {"none", "embedding", "searching", "answered"},
         NEW via \in Channels \cup {"none"}, NEW mode \in {"none", "keyword", "vector"},
         question' = [stage |-> stage, words |-> words, via |-> via, mode |-> mode, passages |-> passages],
         stage = "answered" /\ via = "route" /\ RetrieveKnowledge(words) # {} => passages # {}
  PROVE  QuestionInv'
<1> PICK q : q = [stage |-> stage, words |-> words, via |-> via, mode |-> mode, passages |-> passages]
  OBVIOUS
<1>1. /\ q.stage = stage /\ q.via = via /\ q.words = words /\ q.passages = passages
      /\ q \in [stage : {"none", "embedding", "searching", "answered"}, words : {words},
                via : Channels \cup {"none"}, mode : {"none", "keyword", "vector"},
                passages : {passages}]
  OBVIOUS
<1>2. question' = q
  OBVIOUS
<1>3. QuestionIsTyped'
  BY <1>1, <1>2 DEF QuestionIsTyped, Channels
<1>4. AnsweredWhenKnown'
  BY <1>1, <1>2 DEF AnsweredWhenKnown
<1> QED
  BY <1>3, <1>4 DEF QuestionInv

\* Ingestions leave the question alone.
LEMMA QuestionStep == QuestionInv /\ [KnowledgeNext]_knowledgeVars => QuestionInv'
<1> SUFFICES ASSUME QuestionInv, [KnowledgeNext]_knowledgeVars PROVE QuestionInv'
  OBVIOUS
<1> PICK stage, words, via, mode, passages :
      question = [stage |-> stage, words |-> words, via |-> via, mode |-> mode, passages |-> passages]
      /\ stage \in {"none", "embedding", "searching", "answered"} /\ via \in Channels \cup {"none"}
      /\ mode \in {"none", "keyword", "vector"}
  BY DEF QuestionInv, QuestionIsTyped
<1>1. /\ question.stage = stage /\ question.words = words /\ question.via = via
  OBVIOUS
<1>2. ASSUME NEW asked \in Questions, NEW channel \in Channels, AskKnowledge(asked, channel)
      PROVE  QuestionInv'
  <2>1. CASE channel = "chat" /\ ~HasRetrievableContent(asked)
    <3>1. question' = [stage |-> "answered", words |-> asked, via |-> channel, mode |-> "keyword",
                       passages |-> {}]
      BY <1>2, <2>1 DEF AskKnowledge, NotAsked
    <3> QED
      BY <2>1, <3>1, QuestionReplaced
  <2>2. CASE ~(channel = "chat" /\ ~HasRetrievableContent(asked))
    <3>1. question' = [stage |-> "embedding", words |-> asked, via |-> channel, mode |-> "none",
                       passages |-> {}]
      BY <1>2, <2>2 DEF AskKnowledge, NotAsked
    <3> QED
      BY <3>1, QuestionReplaced
  <2> QED
    BY <2>1, <2>2
<1>3. ASSUME NEW how \in {"keyword", "vector"}, NEW found, GiveAnswer(how, found),
             via = "route" /\ RetrieveKnowledge(words) # {} => found # {}
      PROVE  QuestionInv'
  <2>1. question' = [stage |-> "answered", words |-> words, via |-> via, mode |-> how, passages |-> found]
    BY <1>3 DEF GiveAnswer
  <2> QED
    BY <1>3, <2>1, QuestionReplaced
<1>4. CASE FallBack
  BY <1>1, <1>3, <1>4 DEF FallBack
<1>5. CASE SearchIndex
  <2>1. CASE Nearest = {}
    BY <1>1, <1>3, <1>5, <2>1 DEF SearchIndex
  <2>2. CASE Nearest # {}
    <3>1. GiveAnswer("vector", SelectPassages(Nearest))
      BY <1>5, <2>2 DEF SearchIndex
    <3>2. via = "route" => SelectPassages(Nearest) = Nearest
      BY <1>1 DEF SelectPassages
    <3> QED
      BY <1>3, <2>2, <3>1, <3>2
  <2> QED
    BY <2>1, <2>2
<1>6. CASE EmbedQuery
  <2>1. question' = [stage |-> "searching", words |-> words, via |-> via, mode |-> mode, passages |-> passages]
    BY <1>6 DEF EmbedQuery
  <2> QED
    BY <2>1, QuestionReplaced
<1>7. CASE UNCHANGED question
  <2>1. question' = [stage |-> stage, words |-> words, via |-> via, mode |-> mode, passages |-> passages]
    BY <1>7
  <2>2. stage = "answered" /\ via = "route" /\ RetrieveKnowledge(words) # {} => passages # {}
    BY DEF QuestionInv, AnsweredWhenKnown
  <2> QED
    BY <2>1, <2>2, QuestionReplaced
<1>8. \/ \E asked \in Questions, channel \in Channels : AskKnowledge(asked, channel)
      \/ FallBack \/ SearchIndex \/ EmbedQuery \/ UNCHANGED question
  BY DEF KnowledgeNext, knowledgeVars, StartIngestion, EmbedChunks, UpsertKnowledgeDocuments, FailIngestion
<1> QED
  BY <1>2, <1>4, <1>5, <1>6, <1>7, <1>8

\* Whatever ingestions overlap or fail, the index holds the corpus that landed last, each
\* chunk under the vector of its own text, and the query route answers what the bundled
\* corpus can answer (knowledge.ts, retrieval.ts).
THEOREM KnowledgeAnswers == KnowledgeSpec => []CorpusAnswers
<1>1. KnowledgeInit => CorpusInv
  <2> SUFFICES ASSUME KnowledgeInit PROVE CorpusInv
    OBVIOUS
  <2>1. /\ ingestion = [i \in Ingestions |-> NotIngesting] /\ DOMAIN index = {} /\ landed = 0
    BY DEF KnowledgeInit
  <2> QED
    BY <2>1, Idle DEF CorpusInv, CorpusIsWhole, VectorsAreOfTheirText
<1>2. KnowledgeInit => QuestionInv
  BY DEF KnowledgeInit, NotAsked, QuestionInv, QuestionIsTyped, AnsweredWhenKnown
<1>3. CorpusInv /\ QuestionInv => CorpusAnswers
  BY DEF CorpusInv, QuestionInv, CorpusAnswers
<1> QED
  BY <1>1, <1>2, <1>3, CorpusStep, QuestionStep, PTL DEF KnowledgeSpec

-----------------------------------------------------------------------------
(* Compliance alerts.                                                      *)

AlertIds == {Kinds[1], Kinds[2]} \X Nat

AlertStatuses == {"open", "resolved"} \cup UserStates

AlertRow == [id : AlertIds, status : AlertStatuses, since : Nat]

VoucherRows == [status : {"needs-review", "approved", "rejected"}, vat : BOOLEAN,
                blocking : BOOLEAN, created : Nat]

RefreshRecord ==
  [phase : {"idle", "vouchers", "upserts", "resolves"}, reviews : Seq(VoucherRows), today : Nat,
   detected : SUBSET AlertIds, todo : SUBSET AlertIds, wrote : SUBSET AlertRow]

\* No condition has two rows.
Unique(set) == \A a, b \in set : a.id = b.id => a = b

\* Rows that will replace others keep their first day.
SinceKept(set, puts) == \A a \in set, w \in puts : a.id = w.id => a.since = w.since

\* A transaction has written a row once at most, with the first day of the row there is.
WritesOK(set, t) ==
  /\ IsFiniteSet(t.wrote) /\ Unique(t.wrote) /\ SinceKept(set, t.wrote)
  /\ t.phase \in {"idle", "vouchers"} => t.wrote = {}

\* What a refresh makes of a row.
Merged(alert, detected) ==
  IF alert.id \notin detected THEN "resolved"
  ELSE IF alert.status \in UserStates THEN alert.status ELSE "open"

\* A refresh that nothing disturbed has read what is, and written what it makes of it.
InStep(set, t, table, conditions) ==
  /\ t.phase # "idle" => t.reviews = table
  /\ t.phase \in {"upserts", "resolves"} =>
       /\ t.detected = conditions
       /\ \A w \in t.wrote : /\ \A a \in set : a.id = w.id => w.status = Merged(a, conditions)
                             /\ w.id \notin IdsOf(set) => w.status = "open"
  /\ t.phase = "upserts" => t.todo \subseteq conditions /\ IdsOf(t.wrote) = conditions \ t.todo
  /\ t.phase = "resolves" =>
       /\ t.todo \subseteq ResolveIds(set, conditions)
       /\ IdsOf(t.wrote) = conditions \cup (ResolveIds(set, conditions) \ t.todo)

Table == ToSet(alerts)

\* No two open transactions have written a row of one condition.
Apart == \A r, s \in Refreshers : r # s => IdsOf(refresh[r].wrote) \cap IdsOf(refresh[s].wrote) = {}

AlertTypes ==
  /\ now \in Nat /\ voucher \in Seq(VoucherRows)
  /\ alerts \in Seq(AlertRow) /\ (\A i, j \in DOMAIN alerts : alerts[i].id = alerts[j].id => i = j)
  /\ refresh \in [Refreshers -> RefreshRecord]
  /\ alone \subseteq Refreshers /\ fresh \in BOOLEAN
  /\ store = "memory" => \A r \in Refreshers : refresh[r] = IdleRefresh

AlertsInv ==
  /\ AlertTypes /\ Apart /\ AlertsAreExact
  /\ \A r \in Refreshers : WritesOK(Table, refresh[r])
  /\ \A r \in alone : InStep(Table, refresh[r], voucher, Conditions)

-----------------------------------------------------------------------------
\* The row of an id in a set of rows with one row for each.
LEMMA RowOfId ==
  ASSUME NEW set, Unique(set), NEW a \in set
  PROVE  {b \in set : b.id = a.id} = {a}
  BY DEF Unique

\* Rows put over others are one for each id, too, and keep the first days.
LEMMA OverOthers ==
  ASSUME NEW A \in SUBSET AlertRow, NEW W \in SUBSET AlertRow, Unique(A), Unique(W)
  PROVE  /\ Over(A, W) \in SUBSET AlertRow /\ Unique(Over(A, W))
         /\ IdsOf(Over(A, W)) = IdsOf(A) \cup IdsOf(W)
         /\ \A set : SinceKept(set, A) /\ SinceKept(set, W) => SinceKept(set, Over(A, W))
<1>1. Over(A, W) \in SUBSET AlertRow
  BY DEF Over
<1>2. Unique(Over(A, W))
  BY DEF Over, Unique, IdsOf
<1>3. IdsOf(Over(A, W)) = IdsOf(A) \cup IdsOf(W)
  BY DEF Over, IdsOf
<1>4. \A set : SinceKept(set, A) /\ SinceKept(set, W) => SinceKept(set, Over(A, W))
  BY DEF Over, SinceKept
<1> QED
  BY <1>1, <1>2, <1>3, <1>4

\* What has its row's id and first day.
LEMMA WithStatusTyped ==
  ASSUME NEW a \in AlertRow, NEW status \in AlertStatuses
  PROVE  /\ WithStatus(a, status) \in AlertRow
         /\ WithStatus(a, status).id = a.id /\ WithStatus(a, status).since = a.since
         /\ WithStatus(a, status).status = status
         /\ a.id \in AlertIds /\ a.status \in AlertStatuses /\ a.since \in Nat
  BY DEF AlertRow, WithStatus

LEMMA NewAlertTyped ==
  ASSUME NEW id \in AlertIds, NEW since \in Nat
  PROVE  /\ NewAlert(id, since) \in AlertRow
         /\ NewAlert(id, since).id = id /\ NewAlert(id, since).status = "open"
         /\ NewAlert(id, since).since = since
  BY DEF AlertRow, NewAlert, AlertStatuses

\* A transaction in a phase has the type of one, and its fields.
LEMMA RefreshTyped ==
  ASSUME NEW phase \in {"idle", "vouchers", "upserts", "resolves"}, NEW reviews \in Seq(VoucherRows),
         NEW date \in Nat, NEW detected \in SUBSET AlertIds, NEW todo \in SUBSET AlertIds,
         NEW wrote \in SUBSET AlertRow, NEW t, t = Refresh(phase, reviews, date, detected, todo, wrote)
  PROVE  /\ t \in RefreshRecord
         /\ t.phase = phase /\ t.reviews = reviews /\ t.today = date /\ t.detected = detected
         /\ t.todo = todo /\ t.wrote = wrote
  BY DEF Refresh, RefreshRecord

\* An idle refresh has read and written nothing.
LEMMA IdleTyped ==
  /\ IdleRefresh \in RefreshRecord
  /\ IdleRefresh.phase = "idle" /\ IdleRefresh.wrote = {}
<1>1. << >> \in Seq(VoucherRows)
  BY EmptySeq
<1> QED
  BY <1>1 DEF IdleRefresh, Refresh, RefreshRecord

\* What the rules find are conditions of vouchers, and finitely many.
LEMMA DetectedTyped ==
  ASSUME NEW reviews \in Seq(VoucherRows), NEW table \in Seq(VoucherRows), NEW date \in Nat
  PROVE  /\ DetectComplianceIssues(reviews, table, date) \in SUBSET AlertIds
         /\ IsFiniteSet(DetectComplianceIssues(reviews, table, date))
<1>1. DOMAIN table = 1..Len(table) /\ Len(table) \in Nat
  OBVIOUS
<1> DEFINE found == DetectComplianceIssues(reviews, table, date)
           places == {AlertId(Kinds[1], v) : v \in 1..Len(table)} \cup {AlertId(Kinds[2], v) : v \in 1..Len(table)}
<1>2. found \subseteq places
  BY <1>1 DEF DetectComplianceIssues, StaleBlocked, MissingSupplierVat
<1>3. places \subseteq AlertIds
  BY <1>1 DEF AlertId, AlertIds
<1>4. IsFiniteSet(1..Len(table))
  BY <1>1, FS_Interval
<1>5. \A k : IsFiniteSet({AlertId(k, v) : v \in 1..Len(table)})
  <2> TAKE k
  <2> DEFINE T == {AlertId(k, v) : v \in 1..Len(table)}
             f == [v \in 1..Len(table) |-> AlertId(k, v)]
  <2>1. f \in Surjection(1..Len(table), T)
    BY DEF Surjection
  <2> HIDE DEF T, f
  <2> QED
    BY <1>4, <2>1, FS_Surjection DEF T
<1>6. IsFiniteSet(places)
  BY <1>5, FS_Union
<1> HIDE DEF found, places
<1>7. found \in SUBSET AlertIds /\ IsFiniteSet(found)
  BY <1>2, <1>3, <1>6, FS_Subset
<1> QED
  BY <1>7 DEF found

-----------------------------------------------------------------------------
\* The table's rows are typed and one for each condition.
LEMMA TableTyped ==
  ASSUME AlertTypes
  PROVE  /\ Table \in SUBSET AlertRow /\ Unique(Table)
         /\ DOMAIN alerts = 1..Len(alerts) /\ Len(alerts) \in Nat
         /\ \A i \in DOMAIN alerts : alerts[i] \in Table
         /\ \A a \in Table : \E i \in DOMAIN alerts : alerts[i] = a
<1>1. alerts \in Seq(AlertRow) /\ \A i, j \in DOMAIN alerts : alerts[i].id = alerts[j].id => i = j
  BY DEF AlertTypes
<1>2. DOMAIN alerts = 1..Len(alerts) /\ Len(alerts) \in Nat /\ \A i \in 1..Len(alerts) : alerts[i] \in AlertRow
  BY <1>1
<1> QED
  BY <1>1, <1>2 DEF Table, ToSet, Unique

\* A refresh of Postgres goes on, and nothing that others see changes.
LEMMA RefreshGoesOn ==
  ASSUME AlertsInv, NEW r \in Refreshers, NEW t \in RefreshRecord, store # "memory",
         refresh' = [refresh EXCEPT ![r] = t], UNCHANGED <<store, now, voucher, alerts, fresh>>,
         WritesOK(Table, t), alone' \subseteq alone \cup {r},
         \A s \in Refreshers \ {r} : IdsOf(refresh[s].wrote) \cap IdsOf(t.wrote) = {},
         r \in alone' => InStep(Table, t, voucher, Conditions)
  PROVE  AlertsInv'
<1>1. /\ refresh \in [Refreshers -> RefreshRecord] /\ alone \subseteq Refreshers
      /\ refresh' \in [Refreshers -> RefreshRecord] /\ refresh'[r] = t
      /\ \A s \in Refreshers \ {r} : refresh'[s] = refresh[s]
  BY DEF AlertsInv, AlertTypes
<1>2. AlertTypes'
  BY <1>1 DEF AlertsInv, AlertTypes
<1>3. Table' = Table /\ Conditions' = Conditions
  BY DEF Table, Conditions
<1>4. Apart'
  BY <1>1 DEF AlertsInv, Apart
<1>5. AlertsAreExact'
  BY <1>3 DEF AlertsInv, AlertsAreExact, Table
<1>6. ASSUME NEW s \in Refreshers PROVE WritesOK(Table', refresh'[s])
  BY <1>1, <1>3 DEF AlertsInv
<1>7. ASSUME NEW s \in alone' PROVE InStep(Table', refresh'[s], voucher', Conditions')
  BY <1>1, <1>3 DEF AlertsInv
<1> QED
  BY <1>2, <1>4, <1>5, <1>6, <1>7 DEF AlertsInv

\* Who refreshes does so in Postgres.
LEMMA RefreshesInPostgres ==
  ASSUME AlertTypes, NEW r \in Refreshers, ~Phase(r, "idle")
  PROVE  store # "memory"
  BY IdleTyped DEF AlertTypes, Phase

LEMMA BeginKeeps ==
  ASSUME AlertsInv, NEW r \in Refreshers, BeginRefresh(r)
  PROVE  AlertsInv'
<1>1. PICK t : t = Refresh("vouchers", voucher, 0, {}, {}, {})
  OBVIOUS
<1>2. /\ t \in RefreshRecord /\ t.phase = "vouchers" /\ t.reviews = voucher /\ t.wrote = {}
  BY <1>1, RefreshTyped DEF AlertsInv, AlertTypes
<1>3. refresh' = [refresh EXCEPT ![r] = t] /\ alone' \subseteq alone \cup {r}
      /\ store # "memory" /\ UNCHANGED <<store, now, voucher, alerts, fresh>>
  BY <1>1 DEF BeginRefresh
<1>4. WritesOK(Table, t) /\ InStep(Table, t, voucher, Conditions) /\ IdsOf(t.wrote) = {}
  BY <1>2, FS_EmptySet DEF WritesOK, InStep, Unique, SinceKept, IdsOf
<1> QED
  BY <1>2, <1>3, <1>4, RefreshGoesOn

LEMMA ReadVouchersKeeps ==
  ASSUME AlertsInv, NEW r \in Refreshers, ReadVouchers(r)
  PROVE  AlertsInv'
<1>1. PICK old : old = refresh[r]
  OBVIOUS
<1>2. PICK detected : detected = DetectComplianceIssues(old.reviews, voucher, now)
  OBVIOUS
<1>3. PICK t : t = Refresh("upserts", old.reviews, now, detected, detected, {})
  OBVIOUS
<1>4. AlertTypes /\ old \in RefreshRecord /\ old.phase = "vouchers" /\ old.reviews \in Seq(VoucherRows)
      /\ now \in Nat /\ voucher \in Seq(VoucherRows)
  BY <1>1 DEF AlertsInv, AlertTypes, RefreshRecord, ReadVouchers, Phase
<1>5. detected \in SUBSET AlertIds
  BY <1>2, <1>4, DetectedTyped
<1>6. /\ t \in RefreshRecord /\ t.phase = "upserts" /\ t.detected = detected /\ t.todo = detected
      /\ t.wrote = {} /\ t.reviews = old.reviews
  BY <1>3, <1>4, <1>5, RefreshTyped
<1>7. refresh' = [refresh EXCEPT ![r] = t] /\ alone' = alone
      /\ UNCHANGED <<store, now, voucher, alerts, fresh>>
  BY <1>1, <1>2, <1>3 DEF ReadVouchers
<1>8. store # "memory"
  BY <1>1, <1>4, RefreshesInPostgres DEF Phase
<1>9. WritesOK(Table, t) /\ IdsOf(t.wrote) = {}
  BY <1>6, FS_EmptySet DEF WritesOK, Unique, SinceKept, IdsOf
<1>10. r \in alone => InStep(Table, t, voucher, Conditions)
  <2> SUFFICES ASSUME r \in alone PROVE InStep(Table, t, voucher, Conditions)
    OBVIOUS
  <2>1. old.reviews = voucher
    BY <1>1, <1>4 DEF AlertsInv, InStep
  <2>2. detected = Conditions
    BY <1>2, <2>1 DEF Conditions
  <2> QED
    BY <1>6, <2>1, <2>2 DEF InStep, IdsOf
<1> QED
  BY <1>6, <1>7, <1>8, <1>9, <1>10, RefreshGoesOn

LEMMA AbortKeeps ==
  ASSUME AlertsInv, NEW r \in Refreshers, AbortRefresh(r)
  PROVE  AlertsInv'
<1>1. store # "memory"
  BY RefreshesInPostgres DEF AlertsInv, AbortRefresh
<1>2. WritesOK(Table, IdleRefresh) /\ IdsOf(IdleRefresh.wrote) = {}
  BY IdleTyped, FS_EmptySet DEF WritesOK, Unique, SinceKept, IdsOf
<1>3. alone' \subseteq alone \cup {r} /\ r \notin alone'
  BY DEF AbortRefresh
<1> QED
  BY <1>1, <1>2, <1>3, IdleTyped, RefreshGoesOn DEF AbortRefresh

LEMMA ReadOpenKeeps ==
  ASSUME AlertsInv, NEW r \in Refreshers, ReadOpenAlerts(r)
  PROVE  AlertsInv'
<1>1. PICK old : old = refresh[r]
  OBVIOUS
<1>2. PICK A : A = Table
  OBVIOUS
<1>3. PICK open : open = ResolveIds(Over(A, old.wrote), old.detected)
  OBVIOUS
<1>4. PICK t : t = Refresh("resolves", old.reviews, old.today, old.detected, open, old.wrote)
  OBVIOUS
<1>5. /\ AlertTypes /\ old \in RefreshRecord /\ old.phase = "upserts" /\ old.todo = {}
      /\ A \in SUBSET AlertRow /\ Unique(A) /\ WritesOK(A, old)
  BY <1>1, <1>2, TableTyped DEF AlertsInv, AlertTypes, ReadOpenAlerts, Phase
<1>6. /\ old.reviews \in Seq(VoucherRows) /\ old.today \in Nat /\ old.detected \in SUBSET AlertIds
      /\ old.wrote \in SUBSET AlertRow
  BY <1>5 DEF RefreshRecord
<1>7. Over(A, old.wrote) \in SUBSET AlertRow
  BY <1>5, <1>6, OverOthers DEF WritesOK
<1>8. open \in SUBSET AlertIds
  BY <1>3, <1>7 DEF ResolveIds, OpenIds, AlertRow
<1>9. /\ t \in RefreshRecord /\ t.phase = "resolves" /\ t.detected = old.detected /\ t.todo = open
      /\ t.wrote = old.wrote /\ t.reviews = old.reviews
  BY <1>4, <1>6, <1>8, RefreshTyped
<1>10. refresh' = [refresh EXCEPT ![r] = t] /\ alone' = alone
       /\ UNCHANGED <<store, now, voucher, alerts, fresh>>
  BY <1>1, <1>2, <1>3, <1>4 DEF ReadOpenAlerts, GoesOn, RowsSeenBy, Table
<1>11. store # "memory"
  BY <1>1, <1>5, RefreshesInPostgres DEF Phase
<1>12. WritesOK(A, t) /\ \A s \in Refreshers \ {r} : IdsOf(refresh[s].wrote) \cap IdsOf(t.wrote) = {}
  BY <1>1, <1>5, <1>9 DEF WritesOK, AlertsInv, Apart
<1>13. r \in alone => InStep(A, t, voucher, Conditions)
  <2> SUFFICES ASSUME r \in alone PROVE InStep(A, t, voucher, Conditions)
    OBVIOUS
  <2>1. InStep(A, old, voucher, Conditions)
    BY <1>1, <1>2 DEF AlertsInv
  <2>2. old.detected = Conditions /\ IdsOf(old.wrote) = Conditions /\ old.reviews = voucher
    BY <1>5, <2>1 DEF InStep
  <2>3. open \subseteq ResolveIds(A, Conditions)
    BY <1>3, <2>2 DEF ResolveIds, OpenIds, Over, IdsOf
  <2>4. ResolveIds(A, Conditions) \subseteq open
    BY <1>3, <2>2 DEF ResolveIds, OpenIds, Over, IdsOf
  <2> QED
    BY <1>5, <1>9, <2>1, <2>2, <2>3, <2>4 DEF InStep
<1> QED
  BY <1>2, <1>9, <1>10, <1>11, <1>12, <1>13, RefreshGoesOn

\* A transaction writes one more row.
LEMMA OneMoreRow ==
  ASSUME NEW A \in SUBSET AlertRow, NEW W \in SUBSET AlertRow, NEW w \in AlertRow,
         IsFiniteSet(W), Unique(W), SinceKept(A, W), \A a \in A : a.id = w.id => a.since = w.since
  PROVE  /\ Over(W, {w}) \in SUBSET AlertRow
         /\ IsFiniteSet(Over(W, {w})) /\ Unique(Over(W, {w})) /\ SinceKept(A, Over(W, {w}))
         /\ IdsOf(Over(W, {w})) = IdsOf(W) \cup {w.id}
         /\ \A v \in Over(W, {w}) : v = w \/ v \in W
<1>1. Unique({w}) /\ IdsOf({w}) = {w.id} /\ {w} \in SUBSET AlertRow /\ SinceKept(A, {w})
  BY DEF Unique, IdsOf, SinceKept
<1>2. Over(W, {w}) = {a \in W : a.id # w.id} \cup {w}
  BY <1>1 DEF Over
<1>3. IsFiniteSet({a \in W : a.id # w.id})
  BY FS_Subset
<1>4. IsFiniteSet(Over(W, {w}))
  <2>1. IsFiniteSet({a \in W : a.id # w.id} \cup {w})
    BY <1>3, FS_AddElement
  <2> QED
    BY <1>2, <2>1
<1> QED
  BY <1>1, <1>2, <1>4, OverOthers

\* The transaction with one more row.
Written(old, phase, todo, w) ==
  Refresh(phase, old.reviews, old.today, old.detected, todo, Over(old.wrote, {w}))

\* A transaction may write a row that keeps the first day of the row there is.
MayWrite(A, old, phase, todo, w) ==
  /\ phase = "upserts" \/ phase = "resolves"
  /\ todo \in SUBSET AlertIds
  /\ A \in SUBSET AlertRow /\ old \in RefreshRecord /\ WritesOK(A, old)
  /\ w \in AlertRow /\ \A a \in A : a.id = w.id => a.since = w.since

\* What it is after it has written the row.
HasWritten(A, old, phase, todo, w, t) ==
  /\ t \in RefreshRecord /\ WritesOK(A, t) /\ t.phase = phase /\ t.todo = todo
  /\ t.reviews = old.reviews /\ t.detected = old.detected
  /\ IdsOf(t.wrote) = IdsOf(old.wrote) \cup {w.id}
  /\ \A v \in t.wrote : v = w \/ v \in old.wrote

\* A transaction that writes a row of the row there is, if any.
LEMMA WritesRow ==
  ASSUME NEW A, NEW old, NEW phase, NEW todo, NEW w, MayWrite(A, old, phase, todo, w)
  PROVE  HasWritten(A, old, phase, todo, w, Written(old, phase, todo, w))
<1>0. PICK t : t = Written(old, phase, todo, w)
  OBVIOUS
<1>1. PICK W : W = old.wrote
  OBVIOUS
<1>2. PICK more : more = Over(W, {w})
  OBVIOUS
<1>3. /\ A \in SUBSET AlertRow /\ old \in RefreshRecord /\ WritesOK(A, old)
      /\ w \in AlertRow /\ \A a \in A : a.id = w.id => a.since = w.since
      /\ (phase = "upserts" \/ phase = "resolves") /\ todo \in SUBSET AlertIds
  BY DEF MayWrite
<1>4. /\ old.reviews \in Seq(VoucherRows) /\ old.today \in Nat /\ old.detected \in SUBSET AlertIds
      /\ W \in SUBSET AlertRow /\ phase \in {"idle", "vouchers", "upserts", "resolves"}
  BY <1>1, <1>3 DEF RefreshRecord
<1>5. IsFiniteSet(W) /\ Unique(W) /\ SinceKept(A, W)
  BY <1>1, <1>3 DEF WritesOK
<1>6. /\ more \in SUBSET AlertRow /\ IsFiniteSet(more) /\ Unique(more) /\ SinceKept(A, more)
      /\ IdsOf(more) = IdsOf(W) \cup {w.id} /\ \A v \in more : v = w \/ v \in W
  BY <1>2, <1>3, <1>4, <1>5, OneMoreRow
<1>7. /\ t \in RefreshRecord /\ t.phase = phase /\ t.reviews = old.reviews /\ t.detected = old.detected
      /\ t.todo = todo /\ t.wrote = more
  BY <1>0, <1>1, <1>2, <1>3, <1>4, <1>6 DEF Written, Refresh, RefreshRecord
<1>8. WritesOK(A, t)
  BY <1>3, <1>6, <1>7 DEF WritesOK
<1>9. IdsOf(t.wrote) = IdsOf(old.wrote) \cup {w.id} /\ \A v \in t.wrote : v = w \/ v \in old.wrote
  BY <1>1, <1>6, <1>7
<1>10. HasWritten(A, old, phase, todo, w, t)
  BY <1>7, <1>8, <1>9 DEF HasWritten
<1> QED
  BY <1>0, <1>10

LEMMA UpsertKeeps ==
  ASSUME AlertsInv, NEW r \in Refreshers, UpsertAlert(r)
  PROVE  AlertsInv'
<1>1. PICK old : old = refresh[r]
  OBVIOUS
<1>2. PICK A : A = Table
  OBVIOUS
<1>3. PICK id \in old.todo : /\ ~Locked(r, id)
                             /\ GoesOn(r, "upserts", refresh[r].todo \ {id}, Over(refresh[r].wrote, InsertOrUpdate(r, id)))
  BY <1>1 DEF UpsertAlert
<1>4. /\ AlertTypes /\ old \in RefreshRecord /\ old.phase = "upserts"
      /\ A \in SUBSET AlertRow /\ Unique(A) /\ WritesOK(A, old)
      /\ UNCHANGED <<store, now, voucher, alerts, alone, fresh>>
  BY <1>1, <1>2, TableTyped DEF AlertsInv, AlertTypes, UpsertAlert, Phase
<1>5. /\ old.today \in Nat /\ old.wrote \in SUBSET AlertRow /\ old.todo \in SUBSET AlertIds /\ id \in AlertIds
  BY <1>4 DEF RefreshRecord
<1> DEFINE seen == {a \in Over(A, old.wrote) : a.id = id}
           Kept(a) == IF a.status \in UserStates THEN a.status ELSE "open"
<1>6. /\ Over(A, old.wrote) \in SUBSET AlertRow /\ Unique(Over(A, old.wrote))
      /\ \A a \in A, b \in Over(A, old.wrote) : a.id = b.id => a.since = b.since
      /\ IdsOf(Over(A, old.wrote)) = IdsOf(A) \cup IdsOf(old.wrote)
  <2>1. SinceKept(A, A)
    BY <1>4 DEF SinceKept, Unique
  <2> QED
    BY <1>4, <1>5, <2>1, OverOthers DEF WritesOK, SinceKept
<1>7. InsertOrUpdate(r, id) = IF seen = {} THEN {NewAlert(id, old.today)}
                              ELSE {WithStatus(a, Kept(a)) : a \in seen}
  BY <1>1, <1>2 DEF InsertOrUpdate, Upserted, SeenBy, RowsSeenBy, Table
<1>8. \E w \in AlertRow :
        /\ InsertOrUpdate(r, id) = {w} /\ w.id = id
        /\ \A a \in A : a.id = id => a.since = w.since
        /\ IF seen = {} THEN w.status = "open" ELSE \E a \in seen : w.status = Kept(a)
  <2>1. CASE seen = {}
    <3>1. \A a \in A : a.id # id
      BY <1>6, <2>1 DEF IdsOf
    <3> QED
      BY <1>5, <1>7, <2>1, <3>1, NewAlertTyped
  <2>2. CASE seen # {}
    <3>1. PICK a \in Over(A, old.wrote) : a.id = id
      BY <2>2
    <3>2. seen = {a}
      BY <1>6, <3>1, RowOfId
    <3>3. a \in AlertRow /\ a.status \in AlertStatuses
      BY <1>6, WithStatusTyped DEF AlertRow
    <3>4. Kept(a) \in AlertStatuses
      BY <3>3 DEF AlertStatuses
    <3>5. /\ WithStatus(a, Kept(a)) \in AlertRow /\ WithStatus(a, Kept(a)).id = id
          /\ WithStatus(a, Kept(a)).since = a.since /\ WithStatus(a, Kept(a)).status = Kept(a)
      BY <3>1, <3>3, <3>4, WithStatusTyped
    <3>6. InsertOrUpdate(r, id) = {WithStatus(a, Kept(a))}
      BY <1>7, <2>2, <3>2
    <3> HIDE DEF Kept, seen
    <3> QED
      BY <1>6, <2>2, <3>1, <3>2, <3>5, <3>6
  <2> QED
    BY <2>1, <2>2
<1>9. PICK w \in AlertRow :
        /\ InsertOrUpdate(r, id) = {w} /\ w.id = id
        /\ \A a \in A : a.id = id => a.since = w.since
        /\ IF seen = {} THEN w.status = "open" ELSE \E a \in seen : w.status = Kept(a)
  BY <1>8
<1>10. PICK t : t = Written(old, "upserts", old.todo \ {id}, w)
  OBVIOUS
<1>11. refresh' = [refresh EXCEPT ![r] = t]
  BY <1>1, <1>3, <1>9, <1>10 DEF GoesOn, Written
<1>12. /\ t \in RefreshRecord /\ WritesOK(A, t) /\ t.phase = "upserts" /\ t.reviews = old.reviews
       /\ t.detected = old.detected /\ t.todo = old.todo \ {id}
       /\ IdsOf(t.wrote) = IdsOf(old.wrote) \cup {id}
       /\ \A v \in t.wrote : v = w \/ v \in old.wrote
  <2>1. old.todo \ {id} \in SUBSET AlertIds /\ MayWrite(A, old, "upserts", old.todo \ {id}, w) /\ w.id = id
    BY <1>4, <1>5, <1>9 DEF MayWrite
  <2>2. HasWritten(A, old, "upserts", old.todo \ {id}, w, t)
    BY <1>10, <2>1, WritesRow
  <2> QED
    BY <2>1, <2>2 DEF HasWritten
<1>13. r \in alone => InStep(A, t, voucher, Conditions)
  <2> SUFFICES ASSUME r \in alone PROVE InStep(A, t, voucher, Conditions)
    OBVIOUS
  <2>1. InStep(A, old, voucher, Conditions)
    BY <1>1, <1>2 DEF AlertsInv
  <2>2. /\ old.reviews = voucher /\ old.detected = Conditions /\ old.todo \subseteq Conditions
        /\ IdsOf(old.wrote) = Conditions \ old.todo /\ id \in Conditions /\ id \notin IdsOf(old.wrote)
    BY <1>4, <2>1 DEF InStep
  <2>3. seen = {a \in A : a.id = id}
    BY <2>2 DEF Over, IdsOf
  <2>4. \A a \in A : a.id = id => w.status = Merged(a, Conditions)
    BY <1>4, <1>9, <2>2, <2>3 DEF Merged, Unique
  <2>5. id \notin IdsOf(A) => w.status = "open"
    BY <1>9, <2>3 DEF IdsOf
  <2>6. IdsOf(t.wrote) = Conditions \ t.todo /\ t.todo \subseteq Conditions
    BY <1>12, <2>2
  <2>7. \A v \in t.wrote : /\ \A a \in A : a.id = v.id => v.status = Merged(a, Conditions)
                           /\ v.id \notin IdsOf(A) => v.status = "open"
    BY <1>4, <1>9, <1>12, <2>1, <2>4, <2>5 DEF InStep
  <2> QED
    BY <1>12, <2>2, <2>6, <2>7 DEF InStep
<1>14. store # "memory"
  BY <1>1, <1>4, RefreshesInPostgres DEF Phase
<1>15. \A s \in Refreshers \ {r} : IdsOf(refresh[s].wrote) \cap IdsOf(t.wrote) = {}
  BY <1>1, <1>3, <1>12 DEF AlertsInv, Apart, Locked
<1> QED
  BY <1>2, <1>4, <1>11, <1>12, <1>13, <1>14, <1>15, RefreshGoesOn

LEMMA ResolveKeeps ==
  ASSUME AlertsInv, NEW r \in Refreshers, ResolveAlert(r)
  PROVE  AlertsInv'
<1>1. PICK old : old = refresh[r]
  OBVIOUS
<1>2. PICK A : A = Table
  OBVIOUS
<1> DEFINE seen(id) == {a \in Over(A, old.wrote) : a.id = id}
<1>3. PICK id \in old.todo :
        /\ ~Locked(r, id)
        /\ GoesOn(r, "resolves", refresh[r].todo \ {id},
                  Over(refresh[r].wrote, {WithStatus(a, "resolved") : a \in seen(id)}))
  BY <1>1, <1>2 DEF ResolveAlert, SeenBy, RowsSeenBy, Table
<1>4. /\ AlertTypes /\ old \in RefreshRecord /\ old.phase = "resolves"
      /\ A \in SUBSET AlertRow /\ Unique(A) /\ WritesOK(A, old)
      /\ UNCHANGED <<store, now, voucher, alerts, alone, fresh>>
  BY <1>1, <1>2, TableTyped DEF AlertsInv, AlertTypes, ResolveAlert, Phase
<1>5. /\ old.reviews \in Seq(VoucherRows) /\ old.today \in Nat /\ old.detected \in SUBSET AlertIds
      /\ old.wrote \in SUBSET AlertRow /\ old.todo \in SUBSET AlertIds /\ id \in AlertIds
      /\ old.todo \ {id} \in SUBSET AlertIds
  BY <1>4 DEF RefreshRecord
<1>6. /\ Over(A, old.wrote) \in SUBSET AlertRow /\ Unique(Over(A, old.wrote))
      /\ \A a \in A, b \in Over(A, old.wrote) : a.id = b.id => a.since = b.since
  <2>1. SinceKept(A, A)
    BY <1>4 DEF SinceKept, Unique
  <2> QED
    BY <1>4, <1>5, <2>1, OverOthers DEF WritesOK, SinceKept
<1>7. store # "memory"
  BY <1>1, <1>4, RefreshesInPostgres DEF Phase
<1>8. ASSUME r \in alone
      PROVE  /\ InStep(A, old, voucher, Conditions) /\ old.reviews = voucher /\ old.detected = Conditions
             /\ old.todo \subseteq ResolveIds(A, Conditions)
             /\ IdsOf(old.wrote) = Conditions \cup (ResolveIds(A, Conditions) \ old.todo)
             /\ id \notin Conditions /\ id \notin IdsOf(old.wrote)
             /\ \E a \in A : a.id = id
  <2>1. InStep(A, old, voucher, Conditions)
    BY <1>1, <1>2, <1>8 DEF AlertsInv
  <2>2. /\ old.reviews = voucher /\ old.detected = Conditions
        /\ old.todo \subseteq ResolveIds(A, Conditions)
        /\ IdsOf(old.wrote) = Conditions \cup (ResolveIds(A, Conditions) \ old.todo)
    BY <1>4, <2>1 DEF InStep
  <2>3. id \notin Conditions /\ \E a \in A : a.id = id
    BY <2>2 DEF ResolveIds, OpenIds
  <2> QED
    BY <2>1, <2>2, <2>3
<1>9. CASE seen(id) = {}
  <2>1. Over(old.wrote, {WithStatus(a, "resolved") : a \in seen(id)}) = old.wrote
    BY <1>9 DEF Over, IdsOf
  <2>2. PICK t : t = Refresh("resolves", old.reviews, old.today, old.detected, old.todo \ {id}, old.wrote)
    OBVIOUS
  <2>3. refresh' = [refresh EXCEPT ![r] = t]
    BY <1>1, <1>3, <2>1, <2>2 DEF GoesOn
  <2>4. t \in RefreshRecord /\ t.phase = "resolves" /\ t.wrote = old.wrote
    BY <1>5, <2>2, RefreshTyped
  <2>5. WritesOK(A, t) /\ \A s \in Refreshers \ {r} : IdsOf(refresh[s].wrote) \cap IdsOf(t.wrote) = {}
    BY <1>1, <1>4, <2>4 DEF WritesOK, AlertsInv, Apart
  <2>6. r \notin alone
    BY <1>8, <1>9 DEF Over, IdsOf
  <2> QED
    BY <1>2, <1>4, <1>7, <2>3, <2>4, <2>5, <2>6, RefreshGoesOn
<1>10. CASE seen(id) # {}
  <2>1. PICK row \in Over(A, old.wrote) : row.id = id
    BY <1>10
  <2>2. seen(id) = {row}
    BY <1>6, <2>1, RowOfId
  <2>3. WithStatus(row, "resolved") \in AlertRow
    BY <1>6, <2>1, WithStatusTyped DEF AlertStatuses
  <2>4. PICK w \in AlertRow :
          w = WithStatus(row, "resolved") /\ w.id = id /\ w.since = row.since /\ w.status = "resolved"
    BY <1>6, <2>1, <2>3, WithStatusTyped DEF AlertStatuses
  <2>5. PICK t : t = Written(old, "resolves", old.todo \ {id}, w)
    OBVIOUS
  <2>6. {WithStatus(b, "resolved") : b \in seen(id)} = {w}
    BY <2>2, <2>4
  <2>7. refresh' = [refresh EXCEPT ![r] = t]
    BY <1>1, <1>3, <2>5, <2>6 DEF GoesOn, Written
  <2>8. /\ \A a \in A : a.id = w.id => a.since = w.since
        /\ "resolves" \in {"upserts", "resolves"}
    BY <1>6, <2>1, <2>4
  <2>9. /\ t \in RefreshRecord /\ WritesOK(A, t) /\ t.phase = "resolves" /\ t.reviews = old.reviews
        /\ t.detected = old.detected /\ t.todo = old.todo \ {id}
        /\ IdsOf(t.wrote) = IdsOf(old.wrote) \cup {id}
        /\ \A v \in t.wrote : v = w \/ v \in old.wrote
    <3>1. old.todo \ {id} \in SUBSET AlertIds /\ MayWrite(A, old, "resolves", old.todo \ {id}, w) /\ w.id = id
      BY <1>4, <1>5, <2>4, <2>8 DEF MayWrite
    <3>2. HasWritten(A, old, "resolves", old.todo \ {id}, w, t)
      BY <2>5, <3>1, WritesRow
    <3> QED
      BY <3>1, <3>2 DEF HasWritten
  <2>10. r \in alone => InStep(A, t, voucher, Conditions)
    <3> SUFFICES ASSUME r \in alone PROVE InStep(A, t, voucher, Conditions)
      OBVIOUS
    <3>1. id \notin Conditions /\ id \in IdsOf(A) /\ id \in ResolveIds(A, Conditions)
      BY <1>8 DEF IdsOf
    <3>2. IdsOf(t.wrote) = Conditions \cup (ResolveIds(A, Conditions) \ t.todo)
      BY <1>3, <1>8, <2>9, <3>1
    <3>3. \A v \in t.wrote : /\ \A b \in A : b.id = v.id => v.status = Merged(b, Conditions)
                             /\ v.id \notin IdsOf(A) => v.status = "open"
      BY <1>4, <1>8, <2>4, <2>9, <3>1 DEF InStep, Merged
    <3> QED
      BY <1>8, <2>9, <3>2, <3>3 DEF InStep
  <2>11. \A s \in Refreshers \ {r} : IdsOf(refresh[s].wrote) \cap IdsOf(t.wrote) = {}
    BY <1>1, <1>3, <2>9 DEF AlertsInv, Apart, Locked
  <2> QED
    BY <1>2, <1>4, <1>7, <2>7, <2>9, <2>10, <2>11, RefreshGoesOn
<1> QED
  BY <1>9, <1>10

-----------------------------------------------------------------------------
\* A finite set as a list: each element once.
LEMMA ListOfSet ==
  ASSUME NEW S, IsFiniteSet(S)
  PROVE  /\ SetToSeq(S) \in Seq(S) /\ Len(SetToSeq(S)) \in Nat
         /\ DOMAIN SetToSeq(S) = 1..Len(SetToSeq(S))
         /\ \A i, j \in DOMAIN SetToSeq(S) : SetToSeq(S)[i] = SetToSeq(S)[j] => i = j
         /\ \A x \in S : \E i \in DOMAIN SetToSeq(S) : SetToSeq(S)[i] = x
<1> DEFINE n == Cardinality(S)
           Lists == {f \in [1..n -> S] : IsInjective(f)}
<1>1. n \in Nat /\ ExistsBijection(1..n, S)
  BY FS_CardinalityType
<1>2. \E f : f \in Lists
  BY <1>1 DEF ExistsBijection, Bijection, Injection
<1>3. PICK f : f = SetToSeq(S)
  OBVIOUS
<1>4. f \in Lists
  BY <1>2, <1>3 DEF SetToSeq
<1>5. f \in [1..n -> S] /\ f \in Injection(1..n, S) /\ \A i, j \in 1..n : f[i] = f[j] => i = j
  BY <1>4 DEF Injection, IsInjective
<1>6. IsFiniteSet(1..n) /\ Cardinality(1..n) = n
  BY <1>1, FS_Interval
<1>7. f \in Surjection(1..n, S)
  BY <1>5, <1>6, FS_Injection
<1>8. \A x \in S : \E i \in 1..n : f[i] = x
  BY <1>7 DEF Surjection
<1>9. f \in Seq(S) /\ Len(f) = n /\ DOMAIN f = 1..n
  BY <1>1, <1>5, SeqDef
<1> HIDE DEF n
<1> QED
  BY <1>1, <1>3, <1>5, <1>8, <1>9

\* The rows after a transaction that wrote W has committed.
TableAfter(table, W) ==
  [i \in DOMAIN table |-> Committed(table[i], W)] \o SetToSeq({row \in W : row.id \notin IdsOf(ToSet(table))})

LEMMA CommittedRow ==
  ASSUME NEW W \in SUBSET AlertRow, NEW a \in AlertRow
  PROVE  /\ Committed(a, W) \in AlertRow /\ Committed(a, W).id = a.id
         /\ IF a.id \in IdsOf(W) THEN Committed(a, W) \in W ELSE Committed(a, W) = a
<1>1. CASE a.id \in IdsOf(W)
  <2>1. \E row \in W : row.id = a.id
    BY <1>1 DEF IdsOf
  <2> QED
    BY <1>1, <2>1 DEF Committed
<1>2. CASE a.id \notin IdsOf(W)
  BY <1>2 DEF Committed
<1> QED
  BY <1>1, <1>2

LEMMA CommittedRows ==
  ASSUME NEW table \in Seq(AlertRow), \A i, j \in DOMAIN table : table[i].id = table[j].id => i = j,
         NEW W \in SUBSET AlertRow, IsFiniteSet(W), Unique(W)
  PROVE  /\ TableAfter(table, W) \in Seq(AlertRow)
         /\ \A i, j \in DOMAIN TableAfter(table, W) : TableAfter(table, W)[i].id = TableAfter(table, W)[j].id => i = j
         /\ ToSet(TableAfter(table, W)) = Over(ToSet(table), W)
<1>1. PICK A : A = ToSet(table)
  OBVIOUS
<1>2. PICK n : n = Len(table)
  OBVIOUS
<1>3. /\ n \in Nat /\ DOMAIN table = 1..n /\ (\A i \in 1..n : table[i] \in AlertRow)
      /\ A \in SUBSET AlertRow /\ (\A i \in 1..n : table[i] \in A) /\ (\A a \in A : \E i \in 1..n : table[i] = a)
  BY <1>1, <1>2 DEF ToSet
<1>4. \A i, j \in 1..n : table[i].id = table[j].id => i = j
  BY <1>3
<1>5. PICK kept : kept = [i \in DOMAIN table |-> Committed(table[i], W)]
  OBVIOUS
<1>6. kept \in Seq(AlertRow) /\ Len(kept) = n /\ \A i \in 1..n : kept[i] = Committed(table[i], W)
  <2>1. kept \in [1..n -> AlertRow] /\ \A i \in 1..n : kept[i] = Committed(table[i], W)
    BY <1>3, <1>5, CommittedRow
  <2> QED
    BY <1>3, <2>1, SeqDef
<1>7. \A i \in 1..n : /\ kept[i].id = table[i].id
                      /\ IF table[i].id \in IdsOf(W) THEN kept[i] \in W ELSE kept[i] = table[i]
  BY <1>3, <1>6, CommittedRow
<1>8. PICK more : more = {row \in W : row.id \notin IdsOf(A)}
  OBVIOUS
<1>9. more \in SUBSET AlertRow /\ IsFiniteSet(more) /\ \A a \in A, b \in more : a.id # b.id
  BY <1>8, FS_Subset DEF IdsOf
<1>10. PICK late : late = SetToSeq(more)
  OBVIOUS
<1>11. PICK m : m = Len(late)
  OBVIOUS
<1>12. /\ late \in Seq(more) /\ m \in Nat /\ DOMAIN late = 1..m
       /\ (\A i, j \in 1..m : late[i] = late[j] => i = j) /\ \A x \in more : \E i \in 1..m : late[i] = x
  <2>1. /\ SetToSeq(more) \in Seq(more) /\ Len(SetToSeq(more)) \in Nat
        /\ DOMAIN SetToSeq(more) = 1..Len(SetToSeq(more))
        /\ \A i, j \in DOMAIN SetToSeq(more) : SetToSeq(more)[i] = SetToSeq(more)[j] => i = j
        /\ \A x \in more : \E i \in DOMAIN SetToSeq(more) : SetToSeq(more)[i] = x
    BY <1>9, ListOfSet
  <2> QED
    BY <1>10, <1>11, <2>1
<1>13. late \in Seq(AlertRow) /\ \A i \in 1..m : late[i] \in more
  BY <1>9, <1>11, <1>12, SeqDef
<1>14. PICK list : list = TableAfter(table, W)
  OBVIOUS
<1>15. list = kept \o late
  BY <1>1, <1>5, <1>8, <1>10, <1>14 DEF TableAfter
<1>16. /\ list \in Seq(AlertRow) /\ Len(list) = n + m
       /\ \A i \in 1..(n + m) : list[i] = IF i <= n THEN kept[i] ELSE late[i - n]
  <2>1. /\ kept \o late \in Seq(AlertRow) /\ Len(kept \o late) = Len(kept) + Len(late)
        /\ \A i \in 1..(Len(kept) + Len(late)) :
              (kept \o late)[i] = IF i <= Len(kept) THEN kept[i] ELSE late[i - Len(kept)]
    BY <1>6, <1>13, ConcatProperties
  <2> QED
    BY <1>6, <1>11, <1>15, <2>1
<1>17. DOMAIN list = 1..(n + m)
  BY <1>16
<1>18. /\ \A i \in 1..n : i \in DOMAIN list /\ list[i] = kept[i]
       /\ \A i \in 1..m : i + n \in DOMAIN list /\ list[i + n] = late[i]
       /\ \A i \in DOMAIN list : i \in 1..n \/ \E k \in 1..m : i = k + n
  <2>1. \A i \in 1..n : i \in DOMAIN list /\ list[i] = kept[i]
    BY <1>3, <1>12, <1>16, <1>17
  <2>2. ASSUME NEW i \in 1..m PROVE i + n \in DOMAIN list /\ list[i + n] = late[i]
    <3>1. i + n \in 1..(n + m) /\ ~(i + n <= n) /\ (i + n) - n = i
      BY <1>3, <1>12
    <3> QED
      BY <1>16, <1>17, <3>1
  <2>3. ASSUME NEW i \in DOMAIN list, i \notin 1..n PROVE \E k \in 1..m : i = k + n
    <3>1. i - n \in 1..m /\ i = (i - n) + n
      BY <1>3, <1>12, <1>17, <2>3
    <3> QED
      BY <3>1
  <2> QED
    BY <2>1, <2>2, <2>3
<1>19. ASSUME NEW i \in DOMAIN list, NEW j \in DOMAIN list, list[i].id = list[j].id PROVE i = j
  <2>1. CASE i \in 1..n /\ j \in 1..n
    BY <1>4, <1>7, <1>18, <1>19, <2>1
  <2>2. CASE i \in 1..n /\ j \notin 1..n
    BY <1>3, <1>7, <1>9, <1>13, <1>18, <1>19, <2>2
  <2>3. CASE i \notin 1..n /\ j \in 1..n
    BY <1>3, <1>7, <1>9, <1>13, <1>18, <1>19, <2>3
  <2>4. CASE i \notin 1..n /\ j \notin 1..n
    <3>1. PICK k \in 1..m : i = k + n
      BY <1>18, <2>4
    <3>2. PICK l \in 1..m : j = l + n
      BY <1>18, <2>4
    <3>3. late[k].id = late[l].id
      BY <1>18, <1>19, <3>1, <3>2
    <3>4. late[k] = late[l]
      BY <1>8, <1>13, <3>3 DEF Unique
    <3> QED
      BY <1>12, <3>1, <3>2, <3>4
  <2> QED
    BY <2>1, <2>2, <2>3, <2>4
<1>20. ASSUME NEW i \in DOMAIN list PROVE list[i] \in Over(A, W)
  <2>1. CASE i \in 1..n
    BY <1>3, <1>7, <1>18, <2>1 DEF Over
  <2>2. CASE i \notin 1..n
    BY <1>8, <1>13, <1>18, <2>2 DEF Over
  <2> QED
    BY <2>1, <2>2
<1>21. ASSUME NEW a \in Over(A, W) PROVE \E i \in DOMAIN list : list[i] = a
  <2>1. CASE a \in A /\ a.id \notin IdsOf(W)
    BY <1>3, <1>7, <1>18, <2>1
  <2>2. CASE a \in W /\ a.id \in IdsOf(A)
    <3>1. PICK i \in 1..n : table[i].id = a.id
      BY <1>3, <2>2 DEF IdsOf
    <3>2. a.id \in IdsOf(W)
      BY <2>2 DEF IdsOf
    <3>3. kept[i] \in W /\ kept[i].id = a.id
      BY <1>7, <3>1, <3>2
    <3>4. kept[i] = a
      BY <2>2, <3>3 DEF Unique
    <3> QED
      BY <1>18, <3>4
  <2>3. CASE a \in W /\ a.id \notin IdsOf(A)
    <3>1. PICK i \in 1..m : late[i] = a
      BY <1>8, <1>12, <2>3
    <3> QED
      BY <1>18, <3>1
  <2> QED
    BY <2>1, <2>2, <2>3 DEF Over
<1>22. ToSet(list) = Over(A, W)
  BY <1>20, <1>21 DEF ToSet
<1> QED
  BY <1>1, <1>14, <1>16, <1>19, <1>22

\* What an undisturbed refresh leaves: the conditions nobody has set aside are open.
LEMMA ExactAfterCommit ==
  ASSUME NEW A \in SUBSET AlertRow, Unique(A), NEW W \in SUBSET AlertRow, Unique(W), NEW C,
         IdsOf(W) = C \cup ResolveIds(A, C),
         \A w \in W : /\ \A a \in A : a.id = w.id => w.status = Merged(a, C)
                      /\ w.id \notin IdsOf(A) => w.status = "open"
  PROVE  OpenIds(Over(A, W)) = C \ IdsOf({a \in Over(A, W) : a.status \in UserStates})
<1>1. PICK B : B = Over(A, W)
  OBVIOUS
<1>2. Unique(B) /\ \A b \in B : b \in W \/ (b \in A /\ b.id \notin IdsOf(W))
  BY <1>1, OverOthers DEF Over
<1>3. \A w \in W : w \in B
  BY <1>1 DEF Over
<1>4. ASSUME NEW b \in B, b.status = "open" PROVE b.id \in C
  <2>1. CASE b \in W
    <3>1. CASE b.id \in IdsOf(A)
      <4>1. PICK a \in A : a.id = b.id
        BY <3>1 DEF IdsOf
      <4>2. b.status = Merged(a, C)
        BY <2>1, <4>1
      <4> QED
        BY <1>4, <4>1, <4>2 DEF Merged
    <3>2. CASE b.id \notin IdsOf(A)
      BY <2>1, <3>2 DEF IdsOf, ResolveIds, OpenIds
    <3> QED
      BY <3>1, <3>2
  <2>2. CASE b \in A /\ b.id \notin IdsOf(W)
    BY <1>4, <2>2 DEF ResolveIds, OpenIds
  <2> QED
    BY <1>2, <2>1, <2>2
<1>5. ASSUME NEW x \in C, x \notin IdsOf({a \in B : a.status \in UserStates}) PROVE \E b \in B : b.id = x /\ b.status = "open"
  <2>1. PICK w \in W : w.id = x
    BY DEF IdsOf
  <2>2. w.status \notin UserStates
    BY <1>3, <1>5, <2>1 DEF IdsOf
  <2>3. w.status = "open"
    <3>1. CASE w.id \in IdsOf(A)
      <4>1. PICK a \in A : a.id = w.id
        BY <3>1 DEF IdsOf
      <4>2. w.status = Merged(a, C)
        BY <4>1
      <4> QED
        BY <2>1, <2>2, <4>1, <4>2 DEF Merged
    <3>2. CASE w.id \notin IdsOf(A)
      BY <3>2
    <3> QED
      BY <3>1, <3>2
  <2> QED
    BY <1>3, <2>1, <2>3
<1>6. ASSUME NEW b \in B, b.status = "open" PROVE b.id \notin IdsOf({a \in B : a.status \in UserStates})
  BY <1>2, <1>6 DEF IdsOf, Unique, UserStates
<1>7. OpenIds(B) = C \ IdsOf({a \in B : a.status \in UserStates})
  BY <1>4, <1>5, <1>6 DEF OpenIds
<1> QED
  BY <1>1, <1>7

\* What a step leaves of the alerts: the first days.
AlertsGoOn == SinceKept(Table, Table')

LEMMA CommitKeeps ==
  ASSUME AlertsInv, NEW r \in Refreshers, CommitRefresh(r)
  PROVE  AlertsInv' /\ AlertsGoOn
<1>1. PICK old : old = refresh[r]
  OBVIOUS
<1>2. PICK A : A = Table
  OBVIOUS
<1>3. PICK W : W = old.wrote
  OBVIOUS
<1>4. /\ AlertTypes /\ Apart /\ old \in RefreshRecord /\ old.phase = "resolves" /\ old.todo = {}
      /\ A \in SUBSET AlertRow /\ Unique(A) /\ WritesOK(A, old) /\ refresh \in [Refreshers -> RefreshRecord]
      /\ \A s \in Refreshers : WritesOK(A, refresh[s])
      /\ alerts \in Seq(AlertRow) /\ \A i, j \in DOMAIN alerts : alerts[i].id = alerts[j].id => i = j
  BY <1>1, <1>2, TableTyped DEF AlertsInv, AlertTypes, CommitRefresh, Phase
<1>5. /\ alerts' = TableAfter(alerts, W) /\ refresh' = [refresh EXCEPT ![r] = IdleRefresh]
      /\ fresh' = (r \in alone) /\ alone' = {} /\ UNCHANGED <<store, now, voucher>>
  BY <1>1, <1>3 DEF CommitRefresh, TableAfter
<1>6. W \in SUBSET AlertRow /\ IsFiniteSet(W) /\ Unique(W) /\ SinceKept(A, W)
  BY <1>3, <1>4 DEF WritesOK, RefreshRecord
<1>7. /\ alerts' \in Seq(AlertRow) /\ (\A i, j \in DOMAIN alerts' : alerts'[i].id = alerts'[j].id => i = j)
      /\ Table' = Over(A, W)
  BY <1>2, <1>4, <1>5, <1>6, CommittedRows DEF Table
<1>8. refresh' \in [Refreshers -> RefreshRecord] /\ refresh'[r] = IdleRefresh
      /\ \A s \in Refreshers \ {r} : refresh'[s] = refresh[s]
  BY <1>4, <1>5, IdleTyped
<1>9. store # "memory"
  BY <1>1, <1>4, RefreshesInPostgres DEF Phase
<1>10. AlertTypes'
  BY <1>4, <1>5, <1>7, <1>8, <1>9 DEF AlertTypes
<1>11. Apart'
  <2>1. IdsOf(refresh'[r].wrote) = {}
    BY <1>8, IdleTyped DEF IdsOf
  <2>2. \A s \in Refreshers : refresh'[s] = refresh[s] \/ IdsOf(refresh'[s].wrote) = {}
    BY <1>8, <2>1
  <2> QED
    BY <1>4, <2>2 DEF Apart
<1>12. ASSUME NEW s \in Refreshers PROVE WritesOK(Table', refresh'[s])
  <2>1. CASE s = r
    BY <1>8, <2>1, IdleTyped, FS_EmptySet DEF WritesOK, Unique, SinceKept
  <2>2. CASE s # r
    <3>1. WritesOK(A, refresh[s]) /\ IdsOf(W) \cap IdsOf(refresh[s].wrote) = {} /\ refresh'[s] = refresh[s]
      BY <1>1, <1>3, <1>4, <1>8, <2>2 DEF Apart
    <3>2. SinceKept(Over(A, W), refresh[s].wrote)
      BY <3>1 DEF SinceKept, Over, IdsOf, WritesOK
    <3> QED
      BY <1>7, <3>1, <3>2 DEF WritesOK
  <2> QED
    BY <2>1, <2>2
<1>13. ASSUME r \in alone
       PROVE  /\ IdsOf(W) = Conditions \cup ResolveIds(A, Conditions)
              /\ \A w \in W : /\ \A a \in A : a.id = w.id => w.status = Merged(a, Conditions)
                              /\ w.id \notin IdsOf(A) => w.status = "open"
  <2>1. InStep(A, old, voucher, Conditions)
    BY <1>1, <1>2, <1>13 DEF AlertsInv
  <2> QED
    BY <1>3, <1>4, <2>1 DEF InStep
<1>14. AlertsAreExact'
  <2> SUFFICES ASSUME r \in alone PROVE AlertsAreExact'
    BY <1>5 DEF AlertsAreExact
  <2>1. OpenIds(Over(A, W)) = Conditions \ IdsOf({a \in Over(A, W) : a.status \in UserStates})
    BY <1>4, <1>6, <1>13, ExactAfterCommit
  <2>2. Conditions' = Conditions
    BY <1>5 DEF Conditions
  <2> QED
    BY <1>7, <2>1, <2>2 DEF AlertsAreExact, Table
<1>15. AlertsInv'
  BY <1>5, <1>10, <1>11, <1>12, <1>14 DEF AlertsInv
<1>16. SinceKept(A, Over(A, W))
  <2>1. SinceKept(A, A)
    BY <1>4 DEF SinceKept, Unique
  <2> QED
    BY <1>4, <1>6, <2>1, OverOthers
<1>17. AlertsGoOn
  BY <1>2, <1>7, <1>16 DEF AlertsGoOn
<1> QED
  BY <1>15, <1>17

\* No refresh is under way in memory.
LEMMA NoneUnderWay ==
  ASSUME AlertTypes, store = "memory", NEW set, NEW table, NEW conditions, NEW r \in Refreshers
  PROVE  WritesOK(set, refresh[r]) /\ InStep(set, refresh[r], table, conditions)
<1>1. refresh[r].phase = "idle" /\ refresh[r].wrote = {}
  BY IdleTyped DEF AlertTypes
<1> QED
  BY <1>1, FS_EmptySet DEF WritesOK, InStep, Unique, SinceKept

LEMMA SetByHandKeeps ==
  ASSUME AlertsInv, NEW i \in DOMAIN alerts, NEW status \in UserStates, SetByHand(i, status)
  PROVE  AlertsInv' /\ AlertsGoOn
<1>1. PICK A : A = Table
  OBVIOUS
<1>2. PICK a : a = alerts[i]
  OBVIOUS
<1>3. PICK b : b = WithStatus(a, status)
  OBVIOUS
<1>4. /\ AlertTypes /\ Apart /\ AlertsAreExact /\ A \in SUBSET AlertRow /\ Unique(A)
      /\ refresh \in [Refreshers -> RefreshRecord] /\ \A r \in Refreshers : WritesOK(A, refresh[r])
      /\ alerts \in Seq(AlertRow) /\ \A k, j \in DOMAIN alerts : alerts[k].id = alerts[j].id => k = j
  BY <1>1, TableTyped DEF AlertsInv, AlertTypes
<1>5. /\ a \in A /\ (\A k \in DOMAIN alerts : alerts[k] \in A) /\ (\A c \in A : \E k \in DOMAIN alerts : alerts[k] = c)
  BY <1>1, <1>2, <1>4, TableTyped
<1>6. /\ b \in AlertRow /\ b.id = a.id /\ b.since = a.since /\ b.status = status /\ a \in AlertRow
  BY <1>3, <1>4, <1>5, WithStatusTyped DEF AlertStatuses
<1>7. /\ alerts' = [alerts EXCEPT ![i] = b] /\ a.status = "open" /\ alone' = {}
      /\ UNCHANGED <<store, now, voucher, refresh, fresh>>
  BY <1>2, <1>3 DEF SetByHand
<1>8. /\ alerts' \in Seq(AlertRow) /\ DOMAIN alerts' = DOMAIN alerts /\ alerts'[i] = b
      /\ \A k \in DOMAIN alerts \ {i} : alerts'[k] = alerts[k]
  BY <1>4, <1>6, <1>7
<1>9. \A k, j \in DOMAIN alerts' : alerts'[k].id = alerts'[j].id => k = j
  BY <1>2, <1>4, <1>6, <1>8
<1>10. Table' = (A \ {a}) \cup {b}
  <2>1. \A k \in DOMAIN alerts' : alerts'[k] \in (A \ {a}) \cup {b}
    BY <1>2, <1>4, <1>5, <1>8
  <2>2. \A c \in (A \ {a}) \cup {b} : \E k \in DOMAIN alerts' : alerts'[k] = c
    BY <1>2, <1>5, <1>8
  <2> QED
    BY <2>1, <2>2 DEF Table, ToSet
<1>11. AlertTypes'
  BY <1>4, <1>7, <1>8, <1>9 DEF AlertTypes
<1>12. Apart'
  BY <1>4, <1>7 DEF Apart
<1>13. ASSUME NEW r \in Refreshers PROVE WritesOK(Table', refresh'[r])
  BY <1>4, <1>5, <1>6, <1>7, <1>10 DEF WritesOK, SinceKept
<1>14. AlertsAreExact'
  <2> SUFFICES ASSUME fresh PROVE AlertsAreExact'
    BY <1>7 DEF AlertsAreExact
  <2>1. OpenIds(A) = Conditions \ IdsOf({c \in A : c.status \in UserStates})
    BY <1>1, <1>4 DEF AlertsAreExact, Table
  <2>2. Conditions' = Conditions
    BY <1>7 DEF Conditions
  <2>3. PICK B : B = (A \ {a}) \cup {b}
    OBVIOUS
  <2>4. OpenIds(B) = OpenIds(A) \ {a.id}
    BY <1>4, <1>5, <1>6, <2>3 DEF OpenIds, Unique, UserStates
  <2>5. IdsOf({c \in B : c.status \in UserStates}) = IdsOf({c \in A : c.status \in UserStates}) \cup {a.id}
    BY <1>5, <1>6, <1>7, <2>3 DEF IdsOf, UserStates
  <2>6. OpenIds(B) = Conditions \ IdsOf({c \in B : c.status \in UserStates})
    BY <2>1, <2>4, <2>5
  <2> QED
    BY <1>10, <2>2, <2>3, <2>6 DEF AlertsAreExact, Table
<1>15. AlertsInv'
  BY <1>7, <1>11, <1>12, <1>13, <1>14 DEF AlertsInv
<1>16. AlertsGoOn
  BY <1>1, <1>4, <1>5, <1>6, <1>10 DEF AlertsGoOn, SinceKept, Unique
<1> QED
  BY <1>15, <1>16

\* The conditions in the order they are found: each once.
LEMMA FoundList ==
  ASSUME NEW ids \in SUBSET AlertIds, IsFiniteSet(ids), NEW list \in InFoundOrder(ids)
  PROVE  /\ list \in Seq(ids) /\ Len(list) \in Nat /\ DOMAIN list = 1..Len(list)
         /\ \A i, j \in 1..Len(list) : list[i] = list[j] => i = j
         /\ \A x \in ids : \E i \in 1..Len(list) : list[i] = x
<1> DEFINE n == Cardinality(ids)
<1>1. n \in Nat /\ IsFiniteSet(1..n) /\ Cardinality(1..n) = n
  BY FS_CardinalityType, FS_Interval
<1>2. list \in [1..n -> ids] /\ \A i, j \in 1..n : i < j => FoundBefore(list[i], list[j])
  BY DEF InFoundOrder
<1> HIDE DEF n
<1>3. \A x \in ids : ~FoundBefore(x, x)
  <2> TAKE x \in ids
  <2>1. x[2] \in Nat
    BY DEF AlertIds
  <2> QED
    BY <2>1 DEF FoundBefore
<1>4. \A i, j \in 1..n : list[i] = list[j] => i = j
  <2> SUFFICES ASSUME NEW i \in 1..n, NEW j \in 1..n, list[i] = list[j], i # j PROVE FALSE
    OBVIOUS
  <2>1. i < j \/ j < i
    BY <1>1
  <2> QED
    BY <1>2, <1>3, <2>1
<1>5. list \in Injection(1..n, ids)
  BY <1>2, <1>4 DEF Injection, IsInjective
<1>6. list \in Surjection(1..n, ids)
  BY <1>1, <1>5, FS_Injection DEF n
<1>7. \A x \in ids : \E i \in 1..n : list[i] = x
  BY <1>6 DEF Surjection
<1>8. list \in Seq(ids) /\ Len(list) = n
  BY <1>1, <1>2, SeqDef
<1> QED
  BY <1>1, <1>2, <1>4, <1>7, <1>8

\* What detection makes of a row there is.
LEMMA DetectedRow ==
  ASSUME NEW a \in AlertRow, NEW C
  PROVE  /\ WithStatus(a, MergedStatus(a, C)) \in AlertRow
         /\ WithStatus(a, MergedStatus(a, C)).id = a.id
         /\ WithStatus(a, MergedStatus(a, C)).since = a.since
         /\ WithStatus(a, MergedStatus(a, C)).status = MergedStatus(a, C)
         /\ a.status \in UserStates => WithStatus(a, MergedStatus(a, C)) = a
<1>1. a.status \in AlertStatuses
  BY DEF AlertRow
<1>2. MergedStatus(a, C) \in AlertStatuses
  BY <1>1 DEF MergedStatus, AlertStatuses
<1>3. a.status \in UserStates => MergedStatus(a, C) = a.status
  BY DEF MergedStatus, UserStates
<1>4. WithStatus(a, a.status) = a
  BY DEF WithStatus, AlertRow
<1> QED
  BY <1>2, <1>3, <1>4, WithStatusTyped

\* The list of alerts that detection rebuilds: the rows there were, and the new ones.
LEMMA RebuiltRows ==
  ASSUME NEW table \in Seq(AlertRow), \A i, j \in DOMAIN table : table[i].id = table[j].id => i = j,
         NEW C \in SUBSET AlertIds, IsFiniteSet(C), now \in Nat,
         NEW new \in InFoundOrder(C \ IdsOf(ToSet(table)))
  PROVE  /\ Rebuilt(table, C, new) \in Seq(AlertRow)
         /\ \A i, j \in DOMAIN Rebuilt(table, C, new) :
               Rebuilt(table, C, new)[i].id = Rebuilt(table, C, new)[j].id => i = j
         /\ ToSet(Rebuilt(table, C, new)) =
               {WithStatus(a, MergedStatus(a, C)) : a \in ToSet(table)}
                 \cup {NewAlert(id, now) : id \in C \ IdsOf(ToSet(table))}
<1>1. PICK A : A = ToSet(table)
  OBVIOUS
<1>2. PICK n : n = Len(table)
  OBVIOUS
<1>3. PICK date : date = now
  OBVIOUS
<1>4. PICK N : N = C \ IdsOf(A)
  OBVIOUS
<1>5. /\ n \in Nat /\ DOMAIN table = 1..n /\ (\A i \in 1..n : table[i] \in AlertRow)
      /\ A \in SUBSET AlertRow /\ (\A i \in 1..n : table[i] \in A) /\ (\A a \in A : \E i \in 1..n : table[i] = a)
      /\ \A i, j \in 1..n : table[i].id = table[j].id => i = j
  BY <1>1, <1>2 DEF ToSet
<1>6. N \in SUBSET AlertIds /\ IsFiniteSet(N) /\ date \in Nat /\ new \in InFoundOrder(N)
  BY <1>1, <1>3, <1>4, FS_Subset
<1>7. PICK m : m = Len(new)
  OBVIOUS
<1>8. /\ new \in Seq(N) /\ m \in Nat /\ DOMAIN new = 1..m
      /\ (\A i, j \in 1..m : new[i] = new[j] => i = j) /\ \A x \in N : \E i \in 1..m : new[i] = x
  BY <1>6, <1>7, FoundList
<1>9. PICK kept : kept = [i \in DOMAIN table |-> WithStatus(table[i], MergedStatus(table[i], C))]
  OBVIOUS
<1>10. /\ kept \in Seq(AlertRow) /\ Len(kept) = n
       /\ \A i \in 1..n : kept[i] = WithStatus(table[i], MergedStatus(table[i], C)) /\ kept[i].id = table[i].id
  <2>1. /\ kept \in [1..n -> AlertRow]
        /\ \A i \in 1..n : kept[i] = WithStatus(table[i], MergedStatus(table[i], C)) /\ kept[i].id = table[i].id
    BY <1>5, <1>9, DetectedRow
  <2> QED
    BY <1>5, <2>1, SeqDef
<1>11. PICK late : late = [i \in DOMAIN new |-> NewAlert(new[i], now)]
  OBVIOUS
<1>12. /\ late \in Seq(AlertRow) /\ Len(late) = m
       /\ \A i \in 1..m : late[i] = NewAlert(new[i], date) /\ late[i].id = new[i] /\ new[i] \in N
  <2>1. \A i \in 1..m : new[i] \in N /\ new[i] \in AlertIds
    BY <1>6, <1>7, <1>8
  <2>2. /\ late \in [1..m -> AlertRow]
        /\ \A i \in 1..m : late[i] = NewAlert(new[i], date) /\ late[i].id = new[i]
    BY <1>3, <1>6, <1>8, <1>11, <2>1, NewAlertTyped
  <2> QED
    BY <1>8, <2>1, <2>2, SeqDef
<1>13. PICK list : list = Rebuilt(table, C, new)
  OBVIOUS
<1>14. list = kept \o late
  BY <1>9, <1>11, <1>13 DEF Rebuilt
<1>15. /\ list \in Seq(AlertRow) /\ Len(list) = n + m
       /\ \A i \in 1..(n + m) : list[i] = IF i <= n THEN kept[i] ELSE late[i - n]
  <2>1. /\ kept \o late \in Seq(AlertRow) /\ Len(kept \o late) = Len(kept) + Len(late)
        /\ \A i \in 1..(Len(kept) + Len(late)) :
              (kept \o late)[i] = IF i <= Len(kept) THEN kept[i] ELSE late[i - Len(kept)]
    BY <1>10, <1>12, ConcatProperties
  <2> QED
    BY <1>10, <1>12, <1>14, <2>1
<1>16. DOMAIN list = 1..(n + m)
  BY <1>15
<1>17. /\ \A i \in 1..n : i \in DOMAIN list /\ list[i] = kept[i]
       /\ \A i \in 1..m : i + n \in DOMAIN list /\ list[i + n] = late[i]
       /\ \A i \in DOMAIN list : i \in 1..n \/ \E k \in 1..m : i = k + n
  <2>1. \A i \in 1..n : i \in DOMAIN list /\ list[i] = kept[i]
    BY <1>5, <1>8, <1>15, <1>16
  <2>2. ASSUME NEW i \in 1..m PROVE i + n \in DOMAIN list /\ list[i + n] = late[i]
    <3>1. i + n \in 1..(n + m) /\ ~(i + n <= n) /\ (i + n) - n = i
      BY <1>5, <1>8
    <3> QED
      BY <1>15, <1>16, <3>1
  <2>3. ASSUME NEW i \in DOMAIN list, i \notin 1..n PROVE \E k \in 1..m : i = k + n
    <3>1. i - n \in 1..m /\ i = (i - n) + n
      BY <1>5, <1>8, <1>16, <2>3
    <3> QED
      BY <3>1
  <2> QED
    BY <2>1, <2>2, <2>3
<1>18. \A i \in 1..n, k \in 1..m : table[i].id # new[k]
  BY <1>4, <1>5, <1>12 DEF IdsOf
<1>19. ASSUME NEW i \in DOMAIN list, NEW j \in DOMAIN list, list[i].id = list[j].id PROVE i = j
  <2>1. CASE i \in 1..n /\ j \in 1..n
    BY <1>5, <1>10, <1>17, <1>19, <2>1
  <2>2. CASE i \in 1..n /\ j \notin 1..n
    <3>1. PICK k \in 1..m : j = k + n
      BY <1>17, <2>2
    <3>2. list[i].id = table[i].id /\ list[j].id = new[k]
      BY <1>10, <1>12, <1>17, <2>2, <3>1
    <3> QED
      BY <1>18, <1>19, <2>2, <3>2
  <2>3. CASE i \notin 1..n /\ j \in 1..n
    <3>1. PICK k \in 1..m : i = k + n
      BY <1>17, <2>3
    <3>2. list[j].id = table[j].id /\ list[i].id = new[k]
      BY <1>10, <1>12, <1>17, <2>3, <3>1
    <3> QED
      BY <1>18, <1>19, <2>3, <3>2
  <2>4. CASE i \notin 1..n /\ j \notin 1..n
    <3>1. PICK k \in 1..m : i = k + n
      BY <1>17, <2>4
    <3>2. PICK l \in 1..m : j = l + n
      BY <1>17, <2>4
    <3>3. new[k] = new[l]
      BY <1>12, <1>17, <1>19, <3>1, <3>2
    <3> QED
      BY <1>8, <3>1, <3>2, <3>3
  <2> QED
    BY <2>1, <2>2, <2>3, <2>4
<1>20. ToSet(list) = {WithStatus(a, MergedStatus(a, C)) : a \in A} \cup {NewAlert(id, date) : id \in N}
  <2> DEFINE union == {WithStatus(a, MergedStatus(a, C)) : a \in A} \cup {NewAlert(id, date) : id \in N}
  <2>1. \A i \in DOMAIN list : list[i] \in union
    BY <1>5, <1>10, <1>12, <1>17
  <2>2. \A a \in A : \E i \in DOMAIN list : list[i] = WithStatus(a, MergedStatus(a, C))
    BY <1>5, <1>10, <1>17
  <2>3. \A id \in N : \E i \in DOMAIN list : list[i] = NewAlert(id, date)
    BY <1>8, <1>12, <1>17
  <2> QED
    BY <2>1, <2>2, <2>3 DEF ToSet
<1> QED
  BY <1>1, <1>3, <1>4, <1>13, <1>15, <1>19, <1>20

\* The newest alerts of a list.
LEMMA TrimmedRows ==
  ASSUME NEW list \in Seq(AlertRow), \A i, j \in DOMAIN list : list[i].id = list[j].id => i = j
  PROVE  /\ Trimmed(list) \in Seq(AlertRow)
         /\ \A i, j \in DOMAIN Trimmed(list) : Trimmed(list)[i].id = Trimmed(list)[j].id => i = j
         /\ ToSet(Trimmed(list)) \subseteq ToSet(list)
         /\ Len(list) <= AlertCap => Trimmed(list) = list
<1>1. AlertCap \in Nat
  BY ComplianceConstants
<1>2. PICK n : n = Len(list)
  OBVIOUS
<1>3. n \in Nat /\ DOMAIN list = 1..n /\ \A i \in 1..n : list[i] \in AlertRow
  BY <1>2
<1>4. CASE n <= AlertCap
  BY <1>1, <1>2, <1>3, <1>4 DEF Trimmed
<1>5. CASE n > AlertCap
  <2>1. PICK from \in 1..(n + 1) : from = (n - AlertCap) + 1
    BY <1>1, <1>3, <1>5
  <2>2. PICK rest : rest = Trimmed(list)
    OBVIOUS
  <2>3. rest = SubSeq(list, from, n)
    BY <1>1, <1>2, <1>3, <1>5, <2>1, <2>2 DEF Trimmed
  <2>4. \A i \in from..n : list[i] \in AlertRow
    BY <1>3, <2>1
  <2>5. from \in Int /\ n \in Int
    BY <1>3, <2>1
  <2>6. /\ rest \in Seq(AlertRow) /\ Len(rest) = AlertCap
        /\ \A i \in 1..(n - from + 1) : rest[i] = list[from + i - 1]
    BY <1>1, <1>3, <2>1, <2>3, <2>4, <2>5, SubSeqProperties
  <2>7. DOMAIN rest = 1..AlertCap /\ \A i \in 1..AlertCap : rest[i] = list[from + i - 1] /\ from + i - 1 \in 1..n
    BY <1>1, <1>3, <1>5, <2>1, <2>6
  <2>8. \A i, j \in 1..AlertCap : rest[i].id = rest[j].id => i = j
    <3> TAKE i, j \in 1..AlertCap
    <3>1. rest[i].id = rest[j].id => from + i - 1 = from + j - 1
      BY <1>3, <2>7
    <3> QED
      BY <1>1, <2>1, <3>1
  <2>9. ToSet(rest) \subseteq ToSet(list)
    BY <1>3, <2>7 DEF ToSet
  <2> QED
    BY <1>1, <1>2, <1>5, <2>2, <2>6, <2>7, <2>8, <2>9
<1> QED
  BY <1>1, <1>3, <1>4, <1>5

LEMMA MemoryKeeps ==
  ASSUME AlertsInv, RefreshInMemory
  PROVE  AlertsInv' /\ AlertsGoOn
<1>1. PICK A : A = Table
  OBVIOUS
<1>2. PICK C : C = Conditions
  OBVIOUS
<1>3. PICK new \in InFoundOrder(C \ IdsOf(A)) :
        alerts' = Trimmed(Rebuilt(alerts, C, new)) /\ fresh' = (Len(Rebuilt(alerts, C, new)) <= AlertCap)
  BY <1>1, <1>2 DEF RefreshInMemory, Table
<1>4. /\ AlertTypes /\ Apart /\ A \in SUBSET AlertRow /\ Unique(A) /\ store = "memory" /\ now \in Nat
      /\ alerts \in Seq(AlertRow) /\ (\A k, j \in DOMAIN alerts : alerts[k].id = alerts[j].id => k = j)
      /\ refresh \in [Refreshers -> RefreshRecord] /\ alone \subseteq Refreshers
      /\ UNCHANGED <<store, now, voucher, refresh, alone>>
  BY <1>1, TableTyped DEF AlertsInv, AlertTypes, RefreshInMemory
<1>5. C \in SUBSET AlertIds /\ IsFiniteSet(C)
  BY <1>2, DetectedTyped DEF AlertsInv, AlertTypes, Conditions
<1>6. PICK list : list = Rebuilt(alerts, C, new)
  OBVIOUS
<1>7. PICK date : date = now
  OBVIOUS
<1>8. /\ list \in Seq(AlertRow) /\ (\A i, j \in DOMAIN list : list[i].id = list[j].id => i = j)
      /\ ToSet(list) = {WithStatus(a, MergedStatus(a, C)) : a \in A} \cup {NewAlert(id, date) : id \in C \ IdsOf(A)}
  <2>1. new \in InFoundOrder(C \ IdsOf(ToSet(alerts)))
    BY <1>1 DEF Table
  <2>2. /\ Rebuilt(alerts, C, new) \in Seq(AlertRow)
        /\ \A i, j \in DOMAIN Rebuilt(alerts, C, new) :
               Rebuilt(alerts, C, new)[i].id = Rebuilt(alerts, C, new)[j].id => i = j
        /\ ToSet(Rebuilt(alerts, C, new)) =
               {WithStatus(a, MergedStatus(a, C)) : a \in ToSet(alerts)}
                 \cup {NewAlert(id, now) : id \in C \ IdsOf(ToSet(alerts))}
    BY <1>4, <1>5, <2>1, RebuiltRows
  <2> QED
    BY <1>1, <1>6, <1>7, <2>2 DEF Table
<1>9. alerts' = Trimmed(list) /\ fresh' = (Len(list) <= AlertCap)
  BY <1>3, <1>6
<1>10. PICK B : B = ToSet(list)
  OBVIOUS
<1>11. /\ alerts' \in Seq(AlertRow) /\ (\A i, j \in DOMAIN alerts' : alerts'[i].id = alerts'[j].id => i = j)
       /\ Table' \subseteq B /\ (fresh' => Table' = B)
  BY <1>8, <1>9, <1>10, TrimmedRows DEF Table
<1>12. \A b \in B : \/ \E a \in A : b.id = a.id /\ b.since = a.since /\ b.status = MergedStatus(a, C)
                    \/ b.id \in C \ IdsOf(A) /\ b.status = "open"
  BY <1>4, <1>5, <1>7, <1>8, <1>10, DetectedRow, NewAlertTyped
<1>13. \A a \in A : \E b \in B : /\ b.id = a.id /\ b.status = MergedStatus(a, C)
                                 /\ a.status \in UserStates => b = a
  BY <1>4, <1>8, <1>10, DetectedRow
<1>14. \A id \in C \ IdsOf(A) : \E b \in B : b.id = id /\ b.status = "open"
  BY <1>4, <1>5, <1>7, <1>8, <1>10, NewAlertTyped
<1>15. AlertTypes'
  BY <1>4, <1>9, <1>11 DEF AlertTypes
<1>16. Apart'
  BY <1>4 DEF Apart
<1>17. \A r \in Refreshers : WritesOK(Table', refresh'[r]) /\ InStep(Table', refresh'[r], voucher', Conditions')
  <2> TAKE r \in Refreshers
  <2>1. \A set, table, conditions : WritesOK(set, refresh[r]) /\ InStep(set, refresh[r], table, conditions)
    BY <1>4, NoneUnderWay
  <2> QED
    BY <1>4, <2>1
<1>18. \A b, c \in B : b.id = c.id => b = c
  BY <1>8, <1>10 DEF ToSet
<1>19. OpenIds(B) = C \ IdsOf({b \in B : b.status \in UserStates})
  <2>1. ASSUME NEW b \in B, b.status = "open" PROVE b.id \in C
    BY <1>12, <2>1 DEF MergedStatus
  <2>2. ASSUME NEW b \in B, b.status = "open" PROVE b.id \notin IdsOf({c \in B : c.status \in UserStates})
    BY <1>18, <2>2 DEF IdsOf, UserStates
  <2>3. ASSUME NEW id \in C, id \notin IdsOf({c \in B : c.status \in UserStates})
        PROVE  \E b \in B : b.id = id /\ b.status = "open"
    <3>1. CASE id \in IdsOf(A)
      <4>1. PICK a \in A : a.id = id
        BY <3>1 DEF IdsOf
      <4>2. PICK b \in B : b.id = id /\ b.status = MergedStatus(a, C)
        BY <1>13, <4>1
      <4>3. b.status \notin UserStates
        BY <2>3, <4>2 DEF IdsOf
      <4>4. a.status \in AlertStatuses
        BY <1>4 DEF AlertRow
      <4> QED
        BY <4>1, <4>2, <4>3, <4>4 DEF MergedStatus, AlertStatuses
    <3>2. CASE id \notin IdsOf(A)
      BY <1>14, <3>2
    <3> QED
      BY <3>1, <3>2
  <2> QED
    BY <2>1, <2>2, <2>3 DEF OpenIds
<1>20. AlertsAreExact'
  <2>1. Conditions' = C
    BY <1>2, <1>4 DEF Conditions
  <2> QED
    BY <1>11, <1>19, <2>1 DEF AlertsAreExact, Table
<1>21. AlertsInv'
  BY <1>4, <1>15, <1>16, <1>17, <1>20 DEF AlertsInv
<1>22. SinceKept(A, B)
  BY <1>4, <1>12 DEF SinceKept, Unique, IdsOf
<1>23. AlertsGoOn
  BY <1>1, <1>11, <1>22 DEF AlertsGoOn, SinceKept
<1> QED
  BY <1>21, <1>23

-----------------------------------------------------------------------------
\* What no refresh does to the alerts is kept whatever becomes of the vouchers.
LEMMA CommitOfLedger ==
  ASSUME AlertsInv, LedgerCommit, UNCHANGED <<store, alerts>>, voucher' \in Seq(VoucherRows), now' \in Nat
  PROVE  AlertsInv' /\ AlertsGoOn
<1>1. PICK A : A = Table
  OBVIOUS
<1>2. /\ AlertTypes /\ Apart /\ Unique(A) /\ Table' = A /\ fresh' = FALSE /\ alone' = {}
      /\ UNCHANGED <<store, alerts, refresh>> /\ \A r \in Refreshers : WritesOK(A, refresh[r])
  BY <1>1, TableTyped DEF AlertsInv, LedgerCommit, Table
<1>3. AlertTypes'
  BY <1>2 DEF AlertTypes
<1>4. Apart' /\ AlertsAreExact' /\ \A r \in Refreshers : WritesOK(Table', refresh'[r])
  BY <1>2 DEF Apart, AlertsAreExact
<1>5. AlertsInv'
  BY <1>2, <1>3, <1>4 DEF AlertsInv
<1>6. AlertsGoOn
  BY <1>1, <1>2 DEF AlertsGoOn, SinceKept, Unique
<1> QED
  BY <1>5, <1>6

LEMMA VoucherTyped ==
  ASSUME NEW new, new.vat \in BOOLEAN, new.blocking \in BOOLEAN, NEW created \in Nat,
         NEW status \in {"needs-review", "approved", "rejected"}
  PROVE  VoucherRow(status, new, created) \in VoucherRows
  BY DEF VoucherRow, VoucherRows

LEMMA LedgerKeeps ==
  ASSUME AlertsInv, LedgerChanges
  PROVE  AlertsInv' /\ AlertsGoOn
<1>1. PICK table : table = voucher
  OBVIOUS
<1>2. table \in Seq(VoucherRows) /\ voucher = table /\ now \in Nat
  BY <1>1 DEF AlertsInv, AlertTypes
<1>3. \A v \in DOMAIN table : /\ table[v] \in VoucherRows /\ table[v].created \in Nat
                              /\ table[v].vat \in BOOLEAN /\ table[v].blocking \in BOOLEAN
  <2> TAKE v \in DOMAIN table
  <2>1. table[v] \in VoucherRows
    BY <1>2
  <2> QED
    BY <2>1 DEF VoucherRows
<1>4. CASE \E new \in NewVouchers : AddVoucher(new)
  <2>1. PICK new \in NewVouchers : AddVoucher(new)
    BY <1>4
  <2>2. PICK row : row = VoucherRow("needs-review", new, now)
    OBVIOUS
  <2>3. new.vat \in BOOLEAN /\ new.blocking \in BOOLEAN
    BY DEF NewVouchers
  <2>4. row \in VoucherRows
    BY <1>2, <2>2, <2>3, VoucherTyped
  <2>5. voucher' = Append(table, row) /\ LedgerCommit /\ UNCHANGED <<store, now, alerts>>
    BY <1>1, <2>1, <2>2 DEF AddVoucher
  <2>6. voucher' \in Seq(VoucherRows) /\ now' \in Nat
    BY <1>2, <2>4, <2>5, AppendProperties
  <2> QED
    BY <2>5, <2>6, CommitOfLedger
<1>5. CASE \E v \in DOMAIN voucher, new \in NewVouchers : RefreshVoucher(v, new)
  <2>1. PICK v \in DOMAIN voucher, new \in NewVouchers : RefreshVoucher(v, new)
    BY <1>5
  <2>2. PICK row : row = VoucherRow("needs-review", new, table[v].created)
    OBVIOUS
  <2>3. new.vat \in BOOLEAN /\ new.blocking \in BOOLEAN /\ v \in DOMAIN table
    BY <1>1 DEF NewVouchers
  <2>4. row \in VoucherRows
    BY <1>3, <2>2, <2>3, VoucherTyped
  <2>5. voucher' = [table EXCEPT ![v] = row] /\ LedgerCommit /\ UNCHANGED <<store, now, alerts>>
    BY <1>1, <2>1, <2>2 DEF RefreshVoucher
  <2>6. voucher' \in Seq(VoucherRows) /\ now' \in Nat
    BY <1>2, <2>3, <2>4, <2>5
  <2> QED
    BY <2>5, <2>6, CommitOfLedger
<1>6. CASE \E v \in DOMAIN voucher, status \in {"approved", "rejected"} : DecideVoucher(v, status)
  <2>1. PICK v \in DOMAIN voucher, status \in {"approved", "rejected"} : DecideVoucher(v, status)
    BY <1>6
  <2>2. PICK row : row = VoucherRow(status, table[v], table[v].created)
    OBVIOUS
  <2>3. v \in DOMAIN table /\ status \in {"needs-review", "approved", "rejected"}
    BY <1>1
  <2>4. row \in VoucherRows
    BY <1>3, <2>2, <2>3, VoucherTyped
  <2>5. voucher' = [table EXCEPT ![v] = row] /\ LedgerCommit /\ UNCHANGED <<store, now, alerts>>
    BY <1>1, <2>1, <2>2 DEF DecideVoucher
  <2>6. voucher' \in Seq(VoucherRows) /\ now' \in Nat
    BY <1>2, <2>3, <2>4, <2>5
  <2> QED
    BY <2>5, <2>6, CommitOfLedger
<1>7. CASE DayPassesBy
  <2>1. /\ now' \in Nat /\ voucher' \in Seq(VoucherRows) /\ LedgerCommit /\ UNCHANGED <<store, alerts>>
    BY <1>1, <1>2, <1>7 DEF DayPassesBy
  <2> QED
    BY <2>1, CommitOfLedger
<1> QED
  BY <1>4, <1>5, <1>6, <1>7 DEF LedgerChanges

\* What nothing has been done to goes on as it is.
LEMMA NothingLost ==
  ASSUME AlertTypes, UNCHANGED alerts
  PROVE  AlertsGoOn
  BY TableTyped DEF AlertsGoOn, SinceKept, Unique, Table

LEMMA StepKeeps ==
  ASSUME AlertsInv, [ComplianceNext]_complianceVars
  PROVE  AlertsInv' /\ AlertsGoOn
<1>1. AlertTypes
  BY DEF AlertsInv
<1>2. CASE LedgerChanges
  BY <1>2, LedgerKeeps
<1>3. CASE RefreshInMemory
  BY <1>3, MemoryKeeps
<1>4. CASE \E r \in Refreshers : RefreshStep(r)
  <2>1. PICK r \in Refreshers : RefreshStep(r)
    BY <1>4
  <2>2. CASE BeginRefresh(r)
    BY <1>1, <2>2, BeginKeeps, NothingLost DEF BeginRefresh
  <2>3. CASE ReadVouchers(r)
    BY <1>1, <2>3, ReadVouchersKeeps, NothingLost DEF ReadVouchers
  <2>4. CASE UpsertAlert(r)
    BY <1>1, <2>4, UpsertKeeps, NothingLost DEF UpsertAlert
  <2>5. CASE ReadOpenAlerts(r)
    BY <1>1, <2>5, ReadOpenKeeps, NothingLost DEF ReadOpenAlerts
  <2>6. CASE ResolveAlert(r)
    BY <1>1, <2>6, ResolveKeeps, NothingLost DEF ResolveAlert
  <2>7. CASE CommitRefresh(r)
    BY <2>7, CommitKeeps
  <2>8. CASE AbortRefresh(r)
    BY <1>1, <2>8, AbortKeeps, NothingLost DEF AbortRefresh
  <2> QED
    BY <2>1, <2>2, <2>3, <2>4, <2>5, <2>6, <2>7, <2>8 DEF RefreshStep
<1>5. CASE \E i \in DOMAIN alerts, status \in UserStates : SetByHand(i, status)
  BY <1>5, SetByHandKeeps
<1>6. CASE UNCHANGED complianceVars
  <2>1. UNCHANGED <<store, now, voucher, alerts, refresh, alone, fresh>>
    BY <1>6 DEF complianceVars
  <2>2. AlertTypes' /\ Apart' /\ AlertsAreExact'
    BY <2>1 DEF AlertsInv, AlertTypes, Apart, AlertsAreExact, Conditions
  <2>3. Table' = Table /\ Conditions' = Conditions
    BY <2>1 DEF Table, Conditions
  <2>4. AlertsInv'
    BY <2>1, <2>2, <2>3 DEF AlertsInv
  <2> QED
    BY <1>1, <2>1, <2>4, NothingLost
<1> QED
  BY <1>2, <1>3, <1>4, <1>5, <1>6 DEF ComplianceNext

LEMMA AlertsInitially ==
  ASSUME ComplianceInit
  PROVE  AlertsInv
<1>1. /\ store \in Stores /\ now = 0 /\ voucher = << >> /\ alerts = << >>
      /\ refresh = [r \in Refreshers |-> IdleRefresh] /\ alone = {} /\ fresh = TRUE
  BY DEF ComplianceInit
<1>2. AlertTypes
  BY <1>1, IdleTyped, EmptySeq DEF AlertTypes
<1>3. Table = {}
  BY <1>1 DEF Table, ToSet
<1>4. Conditions = {}
  BY <1>1 DEF Conditions, DetectComplianceIssues, StaleBlocked, MissingSupplierVat
<1>5. AlertsAreExact
  BY <1>3, <1>4 DEF AlertsAreExact, OpenIds, IdsOf, Table
<1>6. Apart
  BY <1>1, IdleTyped DEF Apart, IdsOf
<1>7. \A r \in Refreshers : WritesOK(Table, refresh[r])
  BY <1>1, IdleTyped, FS_EmptySet DEF WritesOK, Unique, SinceKept
<1> QED
  BY <1>1, <1>2, <1>5, <1>6, <1>7 DEF AlertsInv

-----------------------------------------------------------------------------
\* What a transaction will do to the rows that a person has set aside: it has
\* written them as they are, or it had read them open before it resolves them.
LeavesSetAside(set, t, over) ==
  /\ t.phase # "resolves" => over = {}
  /\ \A a \in set, w \in t.wrote :
        a.id = w.id /\ a.status \in UserStates =>
            w = a \/ (a.id \in over /\ w = WithStatus(a, "resolved"))
  /\ \A w \in t.wrote : w.status \in UserStates => w \in set
  /\ t.phase = "resolves" => \A a \in set : a.id \in t.todo /\ a.status \in UserStates => a.id \in over

SetAsideInv ==
  /\ DOMAIN overtaken = Refreshers
  /\ \A r \in Refreshers : LeavesSetAside(Table, refresh[r], overtaken[r])
  /\ store = "memory" => \A a \in Table : a.status \notin UserStates

\* What a step leaves of the rows that a person has set aside.
SetAsideGoesOn ==
  \A a \in Table : a.status \in UserStates =>
      \/ a \in Table'
      \/ \E r \in Refreshers :
            a.id \in overtaken[r] /\ CommitRefresh(r) /\ WithStatus(a, "resolved") \in Table'

\* A transaction that has written nothing, and has nothing to resolve.
LEMMA WroteNothing ==
  ASSUME NEW set, NEW t, t.wrote = {}, t.phase # "resolves"
  PROVE  LeavesSetAside(set, t, {})
  BY DEF LeavesSetAside

\* A refresh goes on, and the table stays.
LEMMA SetAsideKept ==
  ASSUME AlertTypes, SetAsideInv, NEW r \in Refreshers, NEW t, refresh' = [refresh EXCEPT ![r] = t],
         UNCHANGED <<store, alerts>>, DOMAIN overtaken' = Refreshers,
         \A s \in Refreshers \ {r} : overtaken'[s] = overtaken[s],
         LeavesSetAside(Table, t, overtaken'[r])
  PROVE  SetAsideInv' /\ SetAsideGoesOn
<1>1. Table' = Table
  BY DEF Table
<1>2. refresh'[r] = t /\ \A s \in Refreshers \ {r} : refresh'[s] = refresh[s]
  BY DEF AlertTypes
<1>3. ASSUME NEW s \in Refreshers PROVE LeavesSetAside(Table', refresh'[s], overtaken'[s])
  BY <1>1, <1>2 DEF SetAsideInv
<1>4. SetAsideInv'
  BY <1>1, <1>3 DEF SetAsideInv
<1> QED
  BY <1>1, <1>4 DEF SetAsideGoesOn

LEMMA BeginLeaves ==
  ASSUME AlertsInv, SetAsideInv, NEW r \in Refreshers, BeginRefresh(r)
  PROVE  SetAsideInv' /\ SetAsideGoesOn
<1>1. PICK t : t = Refresh("vouchers", voucher, 0, {}, {}, {})
  OBVIOUS
<1>2. refresh' = [refresh EXCEPT ![r] = t] /\ UNCHANGED <<store, alerts, overtaken>>
  BY <1>1 DEF BeginRefresh
<1>3. t.wrote = {} /\ t.phase # "resolves"
  BY <1>1 DEF Refresh
<1>4. overtaken'[r] = {}
  <2>1. LeavesSetAside(Table, refresh[r], overtaken[r]) /\ refresh[r].phase = "idle"
    BY DEF SetAsideInv, BeginRefresh, Phase
  <2>2. overtaken[r] = {}
    BY <2>1 DEF LeavesSetAside
  <2> QED
    BY <1>2, <2>2
<1>5. LeavesSetAside(Table, t, overtaken'[r])
  BY <1>3, <1>4, WroteNothing
<1>6. AlertTypes /\ DOMAIN overtaken' = Refreshers /\ \A s \in Refreshers \ {r} : overtaken'[s] = overtaken[s]
  BY <1>2 DEF AlertsInv, SetAsideInv
<1> QED
  BY <1>2, <1>5, <1>6, SetAsideKept

LEMMA ReadVouchersLeaves ==
  ASSUME AlertsInv, SetAsideInv, NEW r \in Refreshers, ReadVouchers(r)
  PROVE  SetAsideInv' /\ SetAsideGoesOn
<1>1. PICK detected : detected = DetectComplianceIssues(refresh[r].reviews, voucher, now)
  OBVIOUS
<1>2. PICK t : t = Refresh("upserts", refresh[r].reviews, now, detected, detected, {})
  OBVIOUS
<1>3. refresh' = [refresh EXCEPT ![r] = t] /\ UNCHANGED <<store, alerts, overtaken>>
  BY <1>1, <1>2 DEF ReadVouchers
<1>4. t.wrote = {} /\ t.phase # "resolves"
  BY <1>2 DEF Refresh
<1>5. overtaken'[r] = {}
  <2>1. LeavesSetAside(Table, refresh[r], overtaken[r]) /\ refresh[r].phase = "vouchers"
    BY DEF SetAsideInv, ReadVouchers, Phase
  <2>2. overtaken[r] = {}
    BY <2>1 DEF LeavesSetAside
  <2> QED
    BY <1>3, <2>2
<1>6. LeavesSetAside(Table, t, overtaken'[r])
  BY <1>4, <1>5, WroteNothing
<1>7. AlertTypes /\ DOMAIN overtaken' = Refreshers /\ \A s \in Refreshers \ {r} : overtaken'[s] = overtaken[s]
  BY <1>3 DEF AlertsInv, SetAsideInv
<1> QED
  BY <1>3, <1>6, <1>7, SetAsideKept

LEMMA AbortLeaves ==
  ASSUME AlertsInv, SetAsideInv, NEW r \in Refreshers, AbortRefresh(r)
  PROVE  SetAsideInv' /\ SetAsideGoesOn
<1>1. refresh' = [refresh EXCEPT ![r] = IdleRefresh] /\ UNCHANGED <<store, alerts>>
      /\ overtaken' = [overtaken EXCEPT ![r] = {}]
  BY DEF AbortRefresh
<1>2. /\ DOMAIN overtaken' = Refreshers /\ overtaken'[r] = {}
      /\ \A s \in Refreshers \ {r} : overtaken'[s] = overtaken[s]
  BY <1>1 DEF SetAsideInv
<1>3. IdleRefresh.wrote = {} /\ IdleRefresh.phase # "resolves"
  BY IdleTyped
<1> QED
  BY <1>1, <1>2, <1>3, WroteNothing, SetAsideKept DEF AlertsInv

\* An upsert leaves the status that a person has set.
LEMMA UpsertLeaves ==
  ASSUME AlertsInv, SetAsideInv, NEW r \in Refreshers, UpsertAlert(r)
  PROVE  SetAsideInv' /\ SetAsideGoesOn
<1>1. PICK old : old = refresh[r]
  OBVIOUS
<1>2. PICK A : A = Table
  OBVIOUS
<1>3. PICK id \in old.todo :
        GoesOn(r, "upserts", refresh[r].todo \ {id}, Over(refresh[r].wrote, InsertOrUpdate(r, id)))
  BY <1>1 DEF UpsertAlert
<1>4. PICK X : X = InsertOrUpdate(r, id)
  OBVIOUS
<1>5. PICK t : t = Refresh("upserts", old.reviews, old.today, old.detected, old.todo \ {id}, Over(old.wrote, X))
  OBVIOUS
<1>6. refresh' = [refresh EXCEPT ![r] = t] /\ UNCHANGED <<store, alerts, overtaken>>
  BY <1>1, <1>3, <1>4, <1>5 DEF UpsertAlert, GoesOn
<1>7. t.phase = "upserts" /\ t.wrote = Over(old.wrote, X)
  BY <1>5 DEF Refresh
<1>8. /\ AlertTypes /\ old \in RefreshRecord /\ old.phase = "upserts"
      /\ A \in SUBSET AlertRow /\ Unique(A) /\ old.wrote \in SUBSET AlertRow
  BY <1>1, <1>2, TableTyped DEF AlertsInv, AlertTypes, UpsertAlert, Phase, RefreshRecord
<1>9. /\ overtaken[r] = {}
      /\ \A a \in A, w \in old.wrote : a.id = w.id /\ a.status \in UserStates => w = a
      /\ \A w \in old.wrote : w.status \in UserStates => w \in A
  BY <1>1, <1>2, <1>8 DEF SetAsideInv, LeavesSetAside
<1> DEFINE seen == {a \in Over(A, old.wrote) : a.id = id}
           Kept(a) == IF a.status \in UserStates THEN a.status ELSE "open"
<1>10. X = IF seen = {} THEN {NewAlert(id, old.today)} ELSE {WithStatus(a, Kept(a)) : a \in seen}
  BY <1>1, <1>2, <1>4 DEF InsertOrUpdate, Upserted, SeenBy, RowsSeenBy, Table
<1>11. ASSUME NEW a \in AlertRow, a.status \in UserStates PROVE WithStatus(a, Kept(a)) = a
  BY <1>11 DEF WithStatus, AlertRow
<1>12. ASSUME NEW x \in X
       PROVE  /\ \A a \in A : a.id = x.id /\ a.status \in UserStates => x = a
              /\ x.status \in UserStates => x \in A
  <2>1. CASE seen = {}
    <3>1. x = NewAlert(id, old.today)
      BY <1>10, <2>1
    <3>2. x.id = id /\ x.status = "open"
      BY <3>1 DEF NewAlert
    <3>3. \A a \in A : a.id # id
      BY <2>1 DEF Over, IdsOf
    <3> QED
      BY <3>2, <3>3 DEF UserStates
  <2>2. CASE seen # {}
    <3>1. PICK b \in seen : x = WithStatus(b, Kept(b))
      BY <1>10, <2>2
    <3>2. b \in A \/ b \in old.wrote
      BY DEF Over
    <3>3. b \in AlertRow /\ x.id = b.id /\ x.status = Kept(b)
      BY <1>8, <3>1, <3>2 DEF WithStatus
    <3>4. b.status \in UserStates => x = b
      BY <1>11, <3>1, <3>3
    <3>5. x.status \in UserStates => b.status \in UserStates
      BY <3>3 DEF UserStates
    <3>6. \A a \in A : a.id = b.id /\ a.status \in UserStates => b = a
      BY <1>8, <1>9, <3>2 DEF Unique
    <3>7. b.status \in UserStates => b \in A
      BY <1>9, <3>2
    <3> HIDE DEF Kept, seen
    <3> QED
      BY <3>3, <3>4, <3>5, <3>6, <3>7
  <2> QED
    BY <2>1, <2>2
<1>13. \A v \in t.wrote : v \in old.wrote \/ v \in X
  BY <1>7 DEF Over
<1>14. LeavesSetAside(A, t, {})
  BY <1>7, <1>9, <1>12, <1>13 DEF LeavesSetAside
<1> QED
  BY <1>2, <1>6, <1>8, <1>9, <1>14, SetAsideKept DEF SetAsideInv

\* The alerts a refresh reads as open are none that a person has set aside.
LEMMA ReadOpenLeaves ==
  ASSUME AlertsInv, SetAsideInv, NEW r \in Refreshers, ReadOpenAlerts(r)
  PROVE  SetAsideInv' /\ SetAsideGoesOn
<1>1. PICK old : old = refresh[r]
  OBVIOUS
<1>2. PICK A : A = Table
  OBVIOUS
<1>3. PICK open : open = ResolveIds(Over(A, old.wrote), old.detected)
  OBVIOUS
<1>4. PICK t : t = Refresh("resolves", old.reviews, old.today, old.detected, open, old.wrote)
  OBVIOUS
<1>5. refresh' = [refresh EXCEPT ![r] = t] /\ UNCHANGED <<store, alerts, overtaken>>
  BY <1>1, <1>2, <1>3, <1>4 DEF ReadOpenAlerts, GoesOn, RowsSeenBy, Table
<1>6. t.phase = "resolves" /\ t.todo = open /\ t.wrote = old.wrote
  BY <1>4 DEF Refresh
<1>7. AlertTypes /\ Unique(A) /\ old.phase = "upserts"
  BY <1>1, <1>2, TableTyped DEF AlertsInv, ReadOpenAlerts, Phase
<1>8. /\ overtaken[r] = {}
      /\ \A a \in A, w \in old.wrote : a.id = w.id /\ a.status \in UserStates => w = a
      /\ \A w \in old.wrote : w.status \in UserStates => w \in A
  BY <1>1, <1>2, <1>7 DEF SetAsideInv, LeavesSetAside
<1>9. ASSUME NEW a \in A, a.id \in open PROVE a.status \notin UserStates
  <2>1. PICK b \in Over(A, old.wrote) : b.id = a.id /\ b.status = "open"
    BY <1>3, <1>9 DEF ResolveIds, OpenIds
  <2>2. CASE b \in A
    BY <1>7, <2>1, <2>2 DEF Unique, UserStates
  <2>3. CASE b \in old.wrote
    BY <1>8, <2>1, <2>3 DEF UserStates
  <2> QED
    BY <2>2, <2>3 DEF Over
<1>10. LeavesSetAside(A, t, {})
  BY <1>6, <1>8, <1>9 DEF LeavesSetAside
<1> QED
  BY <1>2, <1>5, <1>7, <1>8, <1>10, SetAsideKept DEF SetAsideInv

\* The UPDATE goes by the id: what was set aside since is overtaken.
LEMMA ResolveLeaves ==
  ASSUME AlertsInv, SetAsideInv, NEW r \in Refreshers, ResolveAlert(r)
  PROVE  SetAsideInv' /\ SetAsideGoesOn
<1>1. PICK old : old = refresh[r]
  OBVIOUS
<1>2. PICK A : A = Table
  OBVIOUS
<1> DEFINE seen(id) == {a \in Over(A, old.wrote) : a.id = id}
           Puts(id) == {WithStatus(a, "resolved") : a \in seen(id)}
<1>3. PICK id \in old.todo : GoesOn(r, "resolves", refresh[r].todo \ {id}, Over(refresh[r].wrote, Puts(id)))
  BY <1>1, <1>2 DEF ResolveAlert, SeenBy, RowsSeenBy, Table
<1>4. PICK X : X = Puts(id)
  OBVIOUS
<1>5. PICK t : t = Refresh("resolves", old.reviews, old.today, old.detected, old.todo \ {id}, Over(old.wrote, X))
  OBVIOUS
<1>6. refresh' = [refresh EXCEPT ![r] = t] /\ UNCHANGED <<store, alerts, overtaken>>
  BY <1>1, <1>3, <1>4, <1>5 DEF ResolveAlert, GoesOn
<1>7. t.phase = "resolves" /\ t.todo = old.todo \ {id} /\ t.wrote = Over(old.wrote, X)
  BY <1>5 DEF Refresh
<1>8. /\ AlertTypes /\ old \in RefreshRecord /\ old.phase = "resolves" /\ SinceKept(A, old.wrote)
      /\ A \in SUBSET AlertRow /\ Unique(A) /\ old.wrote \in SUBSET AlertRow
  BY <1>1, <1>2, TableTyped DEF AlertsInv, AlertTypes, ResolveAlert, Phase, RefreshRecord, WritesOK
<1>9. PICK over : over = overtaken[r]
  OBVIOUS
<1>10. /\ \A a \in A, w \in old.wrote :
             a.id = w.id /\ a.status \in UserStates => w = a \/ (a.id \in over /\ w = WithStatus(a, "resolved"))
       /\ \A w \in old.wrote : w.status \in UserStates => w \in A
       /\ \A a \in A : a.id \in old.todo /\ a.status \in UserStates => a.id \in over
  BY <1>1, <1>2, <1>8, <1>9 DEF SetAsideInv, LeavesSetAside
<1>11. ASSUME NEW x \in X
       PROVE  /\ x.id = id /\ x.status \notin UserStates
              /\ \A a \in A : a.id = id => x = WithStatus(a, "resolved")
  <2>1. PICK b \in Over(A, old.wrote) : b.id = id /\ x = WithStatus(b, "resolved")
    BY <1>4
  <2>2. x.id = b.id /\ x.status = "resolved"
    BY <2>1 DEF WithStatus
  <2>3. \A a \in A : a.id = b.id => a.since = b.since
    BY <1>8 DEF Over, SinceKept, Unique
  <2> QED
    BY <2>1, <2>2, <2>3 DEF WithStatus, UserStates
<1>12. \A v \in t.wrote : v \in old.wrote \/ v \in X
  BY <1>7 DEF Over
<1>13. LeavesSetAside(A, t, over)
  <2>1. \A a \in A, w \in t.wrote :
          a.id = w.id /\ a.status \in UserStates => w = a \/ (a.id \in over /\ w = WithStatus(a, "resolved"))
    BY <1>3, <1>10, <1>11, <1>12
  <2>2. \A w \in t.wrote : w.status \in UserStates => w \in A
    BY <1>10, <1>11, <1>12
  <2>3. \A a \in A : a.id \in t.todo /\ a.status \in UserStates => a.id \in over
    BY <1>7, <1>10
  <2> QED
    BY <1>7, <2>1, <2>2, <2>3 DEF LeavesSetAside
<1> QED
  BY <1>2, <1>6, <1>8, <1>9, <1>13, SetAsideKept DEF SetAsideInv

\* The commit of a refresh undoes what was set aside only where it was overtaken.
LEMMA CommitLeaves ==
  ASSUME AlertsInv, SetAsideInv, NEW r \in Refreshers, CommitRefresh(r)
  PROVE  SetAsideInv' /\ SetAsideGoesOn
<1>1. PICK A : A = Table
  OBVIOUS
<1>2. PICK W : W = refresh[r].wrote
  OBVIOUS
<1>3. /\ AlertTypes /\ Apart /\ Unique(A) /\ refresh \in [Refreshers -> RefreshRecord]
      /\ alerts \in Seq(AlertRow) /\ (\A i, j \in DOMAIN alerts : alerts[i].id = alerts[j].id => i = j)
      /\ WritesOK(A, refresh[r]) /\ refresh[r].phase = "resolves"
  BY <1>1, TableTyped DEF AlertsInv, AlertTypes, CommitRefresh, Phase
<1>4. W \in SUBSET AlertRow /\ IsFiniteSet(W) /\ Unique(W)
  BY <1>2, <1>3 DEF WritesOK, RefreshRecord
<1>5. /\ alerts' = TableAfter(alerts, W) /\ refresh' = [refresh EXCEPT ![r] = IdleRefresh]
      /\ overtaken' = [overtaken EXCEPT ![r] = {}] /\ UNCHANGED store
  BY <1>2 DEF CommitRefresh, TableAfter
<1>6. Table' = Over(A, W)
  BY <1>1, <1>3, <1>4, <1>5, CommittedRows DEF Table
<1>7. /\ refresh'[r] = IdleRefresh /\ overtaken'[r] = {} /\ DOMAIN overtaken' = Refreshers
      /\ \A s \in Refreshers \ {r} : refresh'[s] = refresh[s] /\ overtaken'[s] = overtaken[s]
  BY <1>3, <1>5 DEF SetAsideInv
<1>8. /\ \A a \in A, w \in W :
            a.id = w.id /\ a.status \in UserStates =>
                w = a \/ (a.id \in overtaken[r] /\ w = WithStatus(a, "resolved"))
      /\ \A w \in W : w.status \in UserStates => w \in A
  BY <1>1, <1>2 DEF SetAsideInv, LeavesSetAside
<1>9. ASSUME NEW s \in Refreshers PROVE LeavesSetAside(Over(A, W), refresh'[s], overtaken'[s])
  <2>1. CASE s = r
    BY <1>7, <2>1, IdleTyped, WroteNothing
  <2>2. CASE s # r
    <3>1. PICK t : t = refresh[s]
      OBVIOUS
    <3>2. PICK over : over = overtaken[s]
      OBVIOUS
    <3>3. LeavesSetAside(A, t, over) /\ refresh'[s] = t /\ overtaken'[s] = over
      BY <1>1, <1>7, <2>2, <3>1, <3>2 DEF SetAsideInv
    <3>4. \A w \in t.wrote : w.id \notin IdsOf(W)
      BY <1>2, <1>3, <2>2, <3>1 DEF Apart, IdsOf
    <3>5. \A a \in Over(A, W), w \in t.wrote : a.id = w.id => a \in A
      BY <3>4 DEF Over, IdsOf
    <3>6. \A a \in Over(A, W) : a.status \in UserStates => a \in A
      BY <1>8 DEF Over
    <3>7. \A w \in t.wrote : w \in A => w \in Over(A, W)
      BY <3>4 DEF Over
    <3>8. LeavesSetAside(Over(A, W), t, over)
      BY <3>3, <3>5, <3>6, <3>7 DEF LeavesSetAside
    <3> QED
      BY <3>3, <3>8
  <2> QED
    BY <2>1, <2>2
<1>10. store' # "memory"
  BY <1>3, <1>5, RefreshesInPostgres DEF Phase
<1>11. SetAsideInv'
  BY <1>6, <1>7, <1>9, <1>10 DEF SetAsideInv
<1>12. ASSUME NEW a \in A, a.status \in UserStates
       PROVE  a \in Over(A, W) \/ (a.id \in overtaken[r] /\ WithStatus(a, "resolved") \in Over(A, W))
  <2>1. CASE a.id \notin IdsOf(W)
    BY <2>1 DEF Over
  <2>2. CASE a.id \in IdsOf(W)
    <3>1. PICK w \in W : w.id = a.id
      BY <2>2 DEF IdsOf
    <3>2. w \in Over(A, W)
      BY DEF Over
    <3> QED
      BY <1>8, <1>12, <3>1, <3>2
  <2> QED
    BY <2>1, <2>2
<1>13. SetAsideGoesOn
  BY <1>1, <1>6, <1>12 DEF SetAsideGoesOn
<1> QED
  BY <1>11, <1>13

\* A person sets a row aside that no transaction has written.
LEMMA SetByHandLeaves ==
  ASSUME AlertsInv, SetAsideInv, NEW i \in DOMAIN alerts, NEW status \in UserStates, SetByHand(i, status)
  PROVE  SetAsideInv' /\ SetAsideGoesOn
<1>1. PICK A : A = Table
  OBVIOUS
<1>2. PICK a : a = alerts[i]
  OBVIOUS
<1>3. PICK b : b = WithStatus(a, status)
  OBVIOUS
<1>4. /\ AlertTypes /\ Unique(A) /\ alerts \in Seq(AlertRow)
      /\ (\A k, j \in DOMAIN alerts : alerts[k].id = alerts[j].id => k = j)
      /\ a \in A /\ (\A k \in DOMAIN alerts : alerts[k] \in A) /\ (\A c \in A : \E k \in DOMAIN alerts : alerts[k] = c)
  BY <1>1, <1>2, TableTyped DEF AlertsInv, AlertTypes
<1>5. /\ alerts' = [alerts EXCEPT ![i] = b] /\ a.status = "open" /\ store = "postgres"
      /\ UNCHANGED <<store, refresh>> /\ \A r \in Refreshers : a.id \notin IdsOf(refresh[r].wrote)
  BY <1>2, <1>3 DEF SetByHand
<1>6. /\ overtaken' = [r \in Refreshers |-> overtaken[r] \cup (IF r \in WillResolve(a.id) THEN {a.id} ELSE {})]
  BY <1>2 DEF SetByHand
<1>7. b.id = a.id
  BY <1>3 DEF WithStatus
<1>8. Table' = (A \ {a}) \cup {b}
  <2>1. DOMAIN alerts' = DOMAIN alerts /\ alerts'[i] = b /\ \A k \in DOMAIN alerts \ {i} : alerts'[k] = alerts[k]
    BY <1>5
  <2>2. \A k \in DOMAIN alerts' : alerts'[k] \in (A \ {a}) \cup {b}
    BY <1>2, <1>4, <2>1
  <2>3. \A c \in (A \ {a}) \cup {b} : \E k \in DOMAIN alerts' : alerts'[k] = c
    BY <1>2, <1>4, <2>1
  <2> QED
    BY <2>2, <2>3 DEF Table, ToSet
<1>9. ASSUME NEW r \in Refreshers PROVE LeavesSetAside((A \ {a}) \cup {b}, refresh'[r], overtaken'[r])
  <2>1. PICK t : t = refresh[r]
    OBVIOUS
  <2>2. PICK over : over = overtaken[r]
    OBVIOUS
  <2>3. PICK more : more = overtaken'[r]
    OBVIOUS
  <2>4. LeavesSetAside(A, t, over) /\ refresh'[r] = t /\ a.id \notin IdsOf(t.wrote)
    BY <1>1, <1>5, <2>1, <2>2 DEF SetAsideInv
  <2>5. /\ over \subseteq more /\ (t.phase # "resolves" => more = over)
        /\ t.phase = "resolves" /\ a.id \in t.todo => a.id \in more
    BY <1>6, <2>1, <2>2, <2>3 DEF WillResolve, Phase
  <2>6. \A w \in t.wrote : w.id # a.id
    BY <2>4 DEF IdsOf
  <2>7. LeavesSetAside((A \ {a}) \cup {b}, t, more)
    BY <1>7, <2>4, <2>5, <2>6 DEF LeavesSetAside
  <2> QED
    BY <2>3, <2>4, <2>7
<1>10. SetAsideInv'
  BY <1>5, <1>6, <1>8, <1>9 DEF SetAsideInv
<1>11. SetAsideGoesOn
  BY <1>1, <1>5, <1>8 DEF SetAsideGoesOn, UserStates
<1> QED
  BY <1>10, <1>11

\* In memory nobody has set an alert aside.
LEMMA MemoryLeaves ==
  ASSUME AlertsInv, SetAsideInv, RefreshInMemory
  PROVE  SetAsideInv' /\ SetAsideGoesOn
<1>1. PICK A : A = Table
  OBVIOUS
<1>2. PICK C : C = Conditions
  OBVIOUS
<1>3. PICK new \in InFoundOrder(C \ IdsOf(A)) : alerts' = Trimmed(Rebuilt(alerts, C, new))
  BY <1>1, <1>2 DEF RefreshInMemory, Table
<1>4. /\ AlertTypes /\ A \in SUBSET AlertRow /\ store = "memory" /\ now \in Nat
      /\ alerts \in Seq(AlertRow) /\ (\A k, j \in DOMAIN alerts : alerts[k].id = alerts[j].id => k = j)
      /\ UNCHANGED <<store, refresh, overtaken>>
  BY <1>1, TableTyped DEF AlertsInv, AlertTypes, RefreshInMemory
<1>5. C \in SUBSET AlertIds /\ IsFiniteSet(C)
  BY <1>2, DetectedTyped DEF AlertsInv, AlertTypes, Conditions
<1>6. PICK list : list = Rebuilt(alerts, C, new)
  OBVIOUS
<1>7. PICK date : date = now
  OBVIOUS
<1>8. /\ list \in Seq(AlertRow) /\ (\A i, j \in DOMAIN list : list[i].id = list[j].id => i = j)
      /\ ToSet(list) = {WithStatus(a, MergedStatus(a, C)) : a \in A} \cup {NewAlert(id, date) : id \in C \ IdsOf(A)}
  <2>1. new \in InFoundOrder(C \ IdsOf(ToSet(alerts)))
    BY <1>1 DEF Table
  <2>2. /\ Rebuilt(alerts, C, new) \in Seq(AlertRow)
        /\ \A i, j \in DOMAIN Rebuilt(alerts, C, new) :
               Rebuilt(alerts, C, new)[i].id = Rebuilt(alerts, C, new)[j].id => i = j
        /\ ToSet(Rebuilt(alerts, C, new)) =
               {WithStatus(a, MergedStatus(a, C)) : a \in ToSet(alerts)}
                 \cup {NewAlert(id, now) : id \in C \ IdsOf(ToSet(alerts))}
    BY <1>4, <1>5, <2>1, RebuiltRows
  <2> QED
    BY <1>1, <1>6, <1>7, <2>2 DEF Table
<1>9. Table' \subseteq ToSet(list)
  BY <1>3, <1>6, <1>8, TrimmedRows DEF Table
<1>10. \A a \in A : a.status \notin UserStates
  BY <1>1, <1>4 DEF SetAsideInv
<1>11. ASSUME NEW b \in Table' PROVE b.status \notin UserStates
  <2>1. \/ \E a \in A : b = WithStatus(a, MergedStatus(a, C))
        \/ \E id \in C : b = NewAlert(id, date)
    BY <1>8, <1>9
  <2>2. ASSUME NEW a \in A, b = WithStatus(a, MergedStatus(a, C)) PROVE b.status \notin UserStates
    BY <1>10, <2>2 DEF WithStatus, MergedStatus, UserStates
  <2>3. ASSUME NEW id \in C, b = NewAlert(id, date) PROVE b.status \notin UserStates
    BY <2>3 DEF NewAlert, UserStates
  <2> QED
    BY <2>1, <2>2, <2>3
<1>12. ASSUME NEW r \in Refreshers PROVE LeavesSetAside(Table', refresh'[r], overtaken'[r])
  <2>1. refresh'[r] = IdleRefresh /\ overtaken'[r] = overtaken[r]
    BY <1>4 DEF AlertTypes
  <2>2. refresh[r].phase = "idle"
    BY <1>4, IdleTyped DEF AlertTypes
  <2>3. overtaken[r] = {}
    BY <2>2 DEF SetAsideInv, LeavesSetAside
  <2> QED
    BY <2>1, <2>3, IdleTyped, WroteNothing
<1>13. SetAsideInv'
  BY <1>4, <1>11, <1>12 DEF SetAsideInv
<1>14. SetAsideGoesOn
  BY <1>1, <1>10 DEF SetAsideGoesOn
<1> QED
  BY <1>13, <1>14

\* What changes neither the alerts nor a refresh.
LEMMA OthersLeave ==
  ASSUME AlertTypes, SetAsideInv, UNCHANGED <<store, alerts, refresh, overtaken>>
  PROVE  SetAsideInv' /\ SetAsideGoesOn
<1>1. Table' = Table
  BY DEF Table
<1> QED
  BY <1>1 DEF SetAsideInv, SetAsideGoesOn

LEMMA StepLeaves ==
  ASSUME AlertsInv, SetAsideInv, [ComplianceNext]_complianceVars
  PROVE  SetAsideInv' /\ SetAsideGoesOn
<1>1. AlertTypes
  BY DEF AlertsInv
<1>2. CASE LedgerChanges
  <2>1. UNCHANGED <<store, alerts, refresh, overtaken>>
    BY <1>2 DEF LedgerChanges, AddVoucher, RefreshVoucher, DecideVoucher, DayPassesBy, LedgerCommit
  <2> QED
    BY <1>1, <2>1, OthersLeave
<1>3. CASE RefreshInMemory
  BY <1>3, MemoryLeaves
<1>4. CASE \E r \in Refreshers : RefreshStep(r)
  <2>1. PICK r \in Refreshers : RefreshStep(r)
    BY <1>4
  <2> QED
    BY <2>1, BeginLeaves, ReadVouchersLeaves, UpsertLeaves, ReadOpenLeaves, ResolveLeaves, CommitLeaves,
       AbortLeaves DEF RefreshStep
<1>5. CASE \E i \in DOMAIN alerts, status \in UserStates : SetByHand(i, status)
  BY <1>5, SetByHandLeaves
<1>6. CASE UNCHANGED complianceVars
  BY <1>1, <1>6, OthersLeave DEF complianceVars
<1> QED
  BY <1>2, <1>3, <1>4, <1>5, <1>6 DEF ComplianceNext

LEMMA NothingSetAside ==
  ASSUME ComplianceInit
  PROVE  SetAsideInv
<1>1. alerts = << >> /\ refresh = [r \in Refreshers |-> IdleRefresh] /\ overtaken = [r \in Refreshers |-> {}]
  BY DEF ComplianceInit
<1>2. Table = {}
  BY <1>1 DEF Table, ToSet
<1>3. \A r \in Refreshers : LeavesSetAside(Table, refresh[r], overtaken[r])
  BY <1>1, IdleTyped, WroteNothing
<1> QED
  BY <1>1, <1>2, <1>3 DEF SetAsideInv

-----------------------------------------------------------------------------
\* The parts of FirstDetectionStays and UserStatesStay, of what a step leaves.
LEMMA AlertsStay ==
  ASSUME AlertTypes, AlertTypes', AlertsGoOn, SetAsideGoesOn
  PROVE  /\ \A i, j \in DOMAIN alerts' : alerts'[i].id = alerts'[j].id => i = j
         /\ \A i \in DOMAIN alerts, j \in DOMAIN alerts' :
               alerts'[j].id = alerts[i].id => alerts'[j].since = alerts[i].since
         /\ \A i \in DOMAIN alerts :
               alerts[i].status \in UserStates =>
                   \/ alerts[i] \in ToSet(alerts')
                   \/ \E r \in Refreshers :
                         /\ alerts[i].id \in overtaken[r] /\ CommitRefresh(r)
                         /\ WithStatus(alerts[i], "resolved") \in ToSet(alerts')
<1>1. \A i, j \in DOMAIN alerts' : alerts'[i].id = alerts'[j].id => i = j
  BY DEF AlertTypes
<1>2. (\A i \in DOMAIN alerts : alerts[i] \in Table) /\ \A j \in DOMAIN alerts' : alerts'[j] \in Table'
  BY DEF Table, ToSet
<1>3. Table' = ToSet(alerts')
  BY DEF Table
<1> QED
  BY <1>1, <1>2, <1>3 DEF AlertsGoOn, SinceKept, SetAsideGoesOn

\* In both stores, for any number of refreshes: after a refresh that nothing
\* disturbed the open alerts are exactly the conditions that hold and nobody
\* has set aside; a condition has one alert, which keeps its first day; and
\* what a person has set aside stays through every refresh but one that had
\* read the alert open before, whose UPDATE resolves it.
THEOREM AlertsKept == ComplianceSpec => AlertsAreKept
<1>1. ComplianceInit => AlertsInv /\ SetAsideInv
  BY AlertsInitially, NothingSetAside
<1>2. AlertsInv /\ SetAsideInv /\ [ComplianceNext]_complianceVars
        => AlertsInv' /\ AlertsGoOn /\ SetAsideInv' /\ SetAsideGoesOn
  BY StepKeeps, StepLeaves
<1>3. AlertsInv => AlertsAreExact /\ AlertTypes
  BY DEF AlertsInv
<1>4. AlertsInv /\ AlertsInv' /\ AlertsGoOn /\ SetAsideGoesOn
        => [/\ \A i, j \in DOMAIN alerts' : alerts'[i].id = alerts'[j].id => i = j
            /\ \A i \in DOMAIN alerts, j \in DOMAIN alerts' :
                  alerts'[j].id = alerts[i].id => alerts'[j].since = alerts[i].since]_complianceVars
  BY <1>3, AlertsStay DEF AlertsInv
<1>5. AlertsInv /\ AlertsInv' /\ AlertsGoOn /\ SetAsideGoesOn
        => [\A i \in DOMAIN alerts :
              alerts[i].status \in UserStates =>
                  \/ alerts[i] \in ToSet(alerts')
                  \/ \E r \in Refreshers :
                        /\ alerts[i].id \in overtaken[r] /\ CommitRefresh(r)
                        /\ WithStatus(alerts[i], "resolved") \in ToSet(alerts')]_complianceVars
  BY <1>3, AlertsStay DEF AlertsInv
<1> QED
  BY <1>1, <1>2, <1>3, <1>4, <1>5, PTL
     DEF ComplianceSpec, AlertsAreKept, FirstDetectionStays, UserStatesStay

-----------------------------------------------------------------------------
(* The dashboard's layout.                                                 *)

\* Picking takes the elements at the given places, each once.
LEMMA PickedElements ==
  ASSUME NEW T, NEW s \in Seq(T), NEW S \in SUBSET DOMAIN s
  PROVE  /\ IsFiniteSet(S) /\ Cardinality(S) \in Nat
         /\ Picked(s, S) \in Seq(T)
         /\ Len(Picked(s, S)) = Cardinality(S)
         /\ ToSet(Picked(s, S)) = {s[i] : i \in S}
         /\ (\A i, j \in S : s[i] = s[j] => i = j) => IsInjective(Picked(s, S))
<1>1. DOMAIN s = 1..Len(s) /\ Len(s) \in Nat
  OBVIOUS
<1>2. IsFiniteSet(S) /\ S \in SUBSET Int
  <2>1. IsFiniteSet(1..Len(s)) /\ S \in SUBSET (1..Len(s))
    BY <1>1, FS_Interval
  <2> QED BY <2>1, FS_Subset
<1>3. Cardinality(S) \in Nat
  BY <1>2, FS_CardinalityType
<1> PICK n : n = Cardinality(S)
  OBVIOUS
<1>4. \A k \in 1..n : Nth(S, k) \in S /\ CountUpTo(S, Nth(S, k)) = k
  BY <1>2, NthPlace
<1>5. \A p \in S : CountUpTo(S, p) \in 1..n /\ Nth(S, CountUpTo(S, p)) = p
  BY <1>2, NthPlace, PlacesNumbered
<1> PICK t : t = Picked(s, S)
  OBVIOUS
<1>6. t = [k \in 1..n |-> s[Nth(S, k)]]
  BY DEF Picked
<1>7. \A k \in 1..n : s[Nth(S, k)] \in T
  BY <1>1, <1>4, ElementOfSeq
<1>8. t \in Seq(T) /\ Len(t) = n /\ DOMAIN t = 1..n
  BY <1>3, <1>6, <1>7
<1>9. ToSet(t) = {s[i] : i \in S}
  <2>1. ASSUME NEW x \in ToSet(t) PROVE x \in {s[i] : i \in S}
    <3> PICK k \in 1..n : x = t[k]
      BY <1>8 DEF ToSet
    <3> QED BY <1>4, <1>6
  <2>2. ASSUME NEW i \in S PROVE s[i] \in ToSet(t)
    <3>1. t[CountUpTo(S, i)] = s[i]
      BY <1>5, <1>6
    <3> QED BY <1>5, <1>8, <3>1 DEF ToSet
  <2> QED BY <2>1, <2>2
<1>10. ASSUME \A i, j \in S : s[i] = s[j] => i = j PROVE IsInjective(t)
  <2> SUFFICES ASSUME NEW a \in 1..n, NEW b \in 1..n, t[a] = t[b] PROVE a = b
    BY <1>8 DEF IsInjective
  <2>1. s[Nth(S, a)] = s[Nth(S, b)]
    BY <1>6
  <2>2. Nth(S, a) = Nth(S, b)
    BY <1>4, <1>10, <2>1
  <2> QED BY <1>4, <2>2
<1> QED BY <1>2, <1>3, <1>8, <1>9, <1>10

\* To pick every place is to copy the list.
LEMMA PickedWhole ==
  ASSUME NEW T, NEW s \in Seq(T)
  PROVE  Picked(s, DOMAIN s) = s
<1> PICK n \in Nat : n = Len(s)
  OBVIOUS
<1> DEFINE S == 1..n
<1>1. S = DOMAIN s /\ S \in SUBSET Int
  OBVIOUS
<1>2. IsFiniteSet(S) /\ Cardinality(S) = n
  <2>1. \A k \in Nat : IsFiniteSet(1..k) /\ Cardinality(1..k) = k
    <3> SUFFICES ASSUME NEW k \in Nat PROVE IsFiniteSet(1..k) /\ Cardinality(1..k) = k
      OBVIOUS
    <3>1. IsFiniteSet(1..k)
      BY FS_Interval
    <3>2. Cardinality(1..k) = IF 1 > k THEN 0 ELSE k - 1 + 1
      BY FS_Interval
    <3> QED BY <3>1, <3>2
  <2> QED BY <2>1
<1>3. \A p \in S : CountUpTo(S, p) = p
  <2> SUFFICES ASSUME NEW p \in S PROVE Cardinality({q \in S : q <= p}) = p
    BY DEF CountUpTo
  <2>1. {q \in S : q <= p} = 1..p
    OBVIOUS
  <2>2. p \in Nat /\ Cardinality(1..p) = p
    BY FS_Interval
  <2> QED BY <2>1, <2>2
<1>4. \A p \in S : Nth(S, p) = p
  <2>1. \A p \in S : Nth(S, CountUpTo(S, p)) = p
    BY <1>1, <1>2, NthPlace
  <2> QED BY <1>3, <2>1
<1>5. Picked(s, S) = [k \in 1..n |-> s[Nth(S, k)]]
  BY <1>2 DEF Picked
<1>6. Picked(s, S) = [k \in 1..n |-> s[k]]
  BY <1>4, <1>5
<1>7. s = [k \in 1..n |-> s[k]]
  BY <1>1
<1> QED BY <1>1, <1>6, <1>7

LEMMA PickedNothing ==
  ASSUME NEW T, NEW s \in Seq(T)
  PROVE  Picked(s, {}) = << >>
<1>1. Cardinality({}) = 0
  BY FS_EmptySet
<1>2. Picked(s, {}) = [k \in 1..0 |-> s[Nth({}, k)]]
  BY <1>1 DEF Picked
<1>3. /\ Picked(s, {}) \in Seq(T) /\ Len(Picked(s, {})) = 0
  BY <1>1, PickedElements
<1> QED BY <1>3, EmptySeq

-----------------------------------------------------------------------------
Distinct(T) == {s \in Seq(T) : IsInjective(s)}

\* What is left of a list without repetitions has none either.
LEMMA WithoutElements ==
  ASSUME NEW T, NEW s \in Distinct(T), NEW dropped
  PROVE  /\ Without(s, dropped) \in Distinct(T)
         /\ ToSet(Without(s, dropped)) = ToSet(s) \ dropped
<1> DEFINE S == {i \in DOMAIN s : s[i] \notin dropped}
<1>1. s \in Seq(T) /\ \A i, j \in DOMAIN s : s[i] = s[j] => i = j
  BY DEF Distinct, IsInjective
<1>2. S \in SUBSET DOMAIN s /\ \A i, j \in S : s[i] = s[j] => i = j
  BY <1>1
<1>3. Without(s, dropped) = Picked(s, S)
  BY DEF Without
<1>4. {s[i] : i \in S} = ToSet(s) \ dropped
  BY DEF ToSet
<1> HIDE DEF S
<1>5. /\ Picked(s, S) \in Seq(T) /\ IsInjective(Picked(s, S))
      /\ ToSet(Picked(s, S)) = {s[i] : i \in S}
  BY <1>1, <1>2, PickedElements
<1> QED BY <1>3, <1>4, <1>5 DEF Distinct

\* Known ids only, the first of each.
LEMMA SanitizedIds ==
  ASSUME NEW T, NEW s \in Seq(T)
  PROVE  /\ SanitizeIds(s) \in Distinct(Widgets)
         /\ ToSet(SanitizeIds(s)) = ToSet(s) \cap Widgets
<1> DEFINE S == {i \in DOMAIN s : s[i] \in Widgets /\ \A j \in 1..(i - 1) : s[j] # s[i]}
<1>1. S \in SUBSET DOMAIN s /\ DOMAIN s = 1..Len(s) /\ Len(s) \in Nat
  OBVIOUS
<1>2. \A i, j \in S : s[i] = s[j] => i = j
  <2> SUFFICES ASSUME NEW i \in S, NEW j \in S, s[i] = s[j], i < j PROVE FALSE
    BY <1>1
  <2>1. i \in 1..(j - 1)
    BY <1>1
  <2> QED BY <2>1
<1>3. SanitizeIds(s) = Picked(s, S)
  BY DEF SanitizeIds
<1>4. {s[i] : i \in S} = ToSet(s) \cap Widgets
  <2> SUFFICES ASSUME NEW k \in DOMAIN s, s[k] \in Widgets PROVE \E i \in S : s[i] = s[k]
    BY DEF ToSet
  <2> DEFINE H == {i \in DOMAIN s : s[i] = s[k]}
  <2>1. H \in SUBSET Nat /\ k \in H
    BY <1>1
  <2>2. PICK i \in H : \A j \in H : i <= j
    BY <2>1, LeastNumber
  <2>3. \A j \in 1..(i - 1) : j \notin H /\ j \in DOMAIN s
    BY <1>1, <2>1, <2>2
  <2> QED BY <2>3
<1> HIDE DEF S
<1>5. /\ Picked(s, S) \in Seq(T) /\ IsInjective(Picked(s, S))
      /\ ToSet(Picked(s, S)) = {s[i] : i \in S}
  BY <1>1, <1>2, PickedElements
<1>6. \A i \in DOMAIN Picked(s, S) : Picked(s, S)[i] \in Widgets
  BY <1>4, <1>5 DEF ToSet
<1>7. Picked(s, S) \in Seq(Widgets)
  BY <1>5, <1>6
<1> QED BY <1>3, <1>4, <1>5, <1>7 DEF Distinct

\* Two lists with nothing in common, one after the other.
LEMMA DistinctConcat ==
  ASSUME NEW T, NEW s \in Distinct(T), NEW t \in Distinct(T), ToSet(s) \cap ToSet(t) = {}
  PROVE  s \o t \in Distinct(T) /\ ToSet(s \o t) = ToSet(s) \cup ToSet(t)
<1>1. s \in Seq(T) /\ t \in Seq(T) /\ IsInjective(s) /\ IsInjective(t)
  BY DEF Distinct
<1> PICK m \in Nat, n \in Nat : m = Len(s) /\ n = Len(t)
  BY <1>1
<1> PICK r : r = s \o t
  OBVIOUS
<1>2. /\ r \in Seq(T) /\ Len(r) = m + n
      /\ \A i \in 1..(m + n) : r[i] = IF i <= m THEN s[i] ELSE t[i - m]
  BY <1>1, ConcatProperties
<1>3. DOMAIN s = 1..m /\ DOMAIN t = 1..n /\ DOMAIN r = 1..(m + n)
  BY <1>1, <1>2
<1>4. \A i \in 1..m, j \in 1..n : s[i] # t[j]
  BY <1>3 DEF ToSet
<1>5. IsInjective(r)
  <2> SUFFICES ASSUME NEW a \in 1..(m + n), NEW b \in 1..(m + n), r[a] = r[b] PROVE a = b
    BY <1>3 DEF IsInjective
  <2>1. CASE a <= m /\ b <= m
    <3>1. a \in 1..m /\ b \in 1..m /\ s[a] = s[b]
      BY <1>2, <2>1
    <3> QED BY <1>1, <1>3, <3>1 DEF IsInjective
  <2>2. CASE a > m /\ b > m
    <3>1. a - m \in 1..n /\ b - m \in 1..n /\ t[a - m] = t[b - m]
      BY <1>2, <2>2
    <3>2. a - m = b - m
      BY <1>1, <1>3, <3>1 DEF IsInjective
    <3> QED BY <3>2
  <2>3. CASE a <= m /\ b > m
    <3>1. a \in 1..m /\ b - m \in 1..n /\ s[a] = t[b - m]
      BY <1>2, <2>3
    <3> QED BY <1>4, <3>1
  <2>4. CASE a > m /\ b <= m
    <3>1. b \in 1..m /\ a - m \in 1..n /\ s[b] = t[a - m]
      BY <1>2, <2>4
    <3> QED BY <1>4, <3>1
  <2> QED BY <2>1, <2>2, <2>3, <2>4
<1>6. ToSet(r) = ToSet(s) \cup ToSet(t)
  <2>1. ASSUME NEW x \in ToSet(r) PROVE x \in ToSet(s) \cup ToSet(t)
    <3> PICK i \in 1..(m + n) : x = r[i]
      BY <1>3 DEF ToSet
    <3>1. CASE i <= m
      BY <1>2, <1>3, <3>1 DEF ToSet
    <3>2. CASE i > m
      <4>1. i - m \in 1..n /\ x = t[i - m]
        BY <1>2, <3>2
      <4> QED BY <1>3, <4>1 DEF ToSet
    <3> QED BY <3>1, <3>2
  <2>2. ASSUME NEW i \in 1..m PROVE s[i] \in ToSet(r)
    <3>1. i \in 1..(m + n) /\ r[i] = s[i]
      BY <1>2
    <3> QED BY <1>3, <3>1 DEF ToSet
  <2>3. ASSUME NEW j \in 1..n PROVE t[j] \in ToSet(r)
    <3>1. m + j \in 1..(m + n) /\ ~(m + j <= m) /\ (m + j) - m = j
      OBVIOUS
    <3>2. r[m + j] = t[j]
      BY <1>2, <3>1
    <3> QED BY <1>3, <3>1, <3>2 DEF ToSet
  <2>4. ToSet(s) = {s[i] : i \in 1..m} /\ ToSet(t) = {t[j] : j \in 1..n}
    BY <1>3 DEF ToSet
  <2> QED BY <2>1, <2>2, <2>3, <2>4
<1> QED BY <1>2, <1>5, <1>6 DEF Distinct

\* A list without repetitions is as long as the set of its elements.
LEMMA DistinctLength ==
  ASSUME NEW T, NEW s \in Distinct(T)
  PROVE  Len(s) = Cardinality(ToSet(s))
<1>1. s \in Seq(T) /\ IsInjective(s) /\ DOMAIN s = 1..Len(s) /\ Len(s) \in Nat
  BY DEF Distinct
<1>2. s \in Bijection(1..Len(s), ToSet(s))
  <2>1. s \in [1..Len(s) -> ToSet(s)]
    BY <1>1 DEF ToSet
  <2>2. \A x \in ToSet(s) : \E i \in 1..Len(s) : s[i] = x
    BY <1>1 DEF ToSet
  <2> QED BY <1>1, <2>1, <2>2 DEF Bijection, Injection, Surjection, IsInjective
<1>3. ExistsBijection(1..Len(s), ToSet(s))
  BY <1>2 DEF ExistsBijection
<1>4. IsFiniteSet(1..Len(s)) /\ Cardinality(1..Len(s)) = Len(s)
  BY <1>1, FS_Interval
<1> QED BY <1>3, <1>4, FS_Bijection

-----------------------------------------------------------------------------
\* Layouts with every widget once, and the values a browser may have stored.
WholeLayouts ==
  {l \in [order : Distinct(Widgets), hidden : SUBSET Widgets] : ToSet(l.order) = Widgets}

RawValues == {NoRaw} \cup ForeignRaws \cup {SerializeLayout(l) : l \in WholeLayouts}

LEMMA CanonicalOrder == WidgetIds \in Distinct(Widgets) /\ ToSet(WidgetIds) = Widgets
BY LayoutAssumption DEF Distinct, Widgets

LEMMA WholeOrder ==
  ASSUME NEW l \in WholeLayouts
  PROVE  /\ l.order \in Seq(Widgets) /\ l.order \in Distinct(Widgets)
         /\ l.hidden \subseteq Widgets /\ ToSet(l.order) = Widgets
         /\ Len(l.order) = Len(WidgetIds)
         /\ l = [order |-> l.order, hidden |-> l.hidden]
<1>1. /\ l.order \in Distinct(Widgets) /\ l.hidden \subseteq Widgets /\ ToSet(l.order) = Widgets
      /\ l = [order |-> l.order, hidden |-> l.hidden]
  BY DEF WholeLayouts
<1>2. Len(l.order) = Cardinality(Widgets)
  BY <1>1, DistinctLength
<1>3. Len(WidgetIds) = Cardinality(Widgets)
  BY CanonicalOrder, DistinctLength
<1> QED BY <1>1, <1>2, <1>3 DEF Distinct

\* Whatever was stored, the page works with a layout that has every widget once.
LEMMA ParsedWhole ==
  ASSUME NEW raw \in RawValues
  PROVE  Parse(raw) \in WholeLayouts
<1>1. CASE raw.v # 1
  <2>1. DefaultLayout \in WholeLayouts
    BY CanonicalOrder DEF WholeLayouts, DefaultLayout
  <2> QED BY <1>1, <2>1 DEF Parse
<1>2. CASE raw.v = 1
  <2>1. raw.order \in Seq(ToSet(raw.order))
    <3>1. ASSUME NEW l \in WholeLayouts, raw = SerializeLayout(l)
          PROVE  raw.order \in Seq(ToSet(raw.order))
      <4>1. raw.order = l.order
        BY <3>1 DEF SerializeLayout
      <4> QED BY <4>1, WholeOrder
    <3>2. raw # NoRaw
      BY <1>2 DEF NoRaw
    <3> QED BY <3>1, <3>2, LayoutAssumption DEF RawValues
  <2> PICK known : known = SanitizeIds(raw.order)
    OBVIOUS
  <2>2. known \in Distinct(Widgets) /\ ToSet(known) \subseteq Widgets
    BY <2>1, SanitizedIds
  <2> PICK rest : rest = Without(WidgetIds, ToSet(known))
    OBVIOUS
  <2>3. rest \in Distinct(Widgets) /\ ToSet(rest) = Widgets \ ToSet(known)
    BY CanonicalOrder, WithoutElements
  <2>4. known \o rest \in Distinct(Widgets) /\ ToSet(known \o rest) = ToSet(known) \cup ToSet(rest)
    <3>1. ToSet(known) \cap ToSet(rest) = {}
      BY <2>3
    <3> QED BY <2>2, <2>3, <3>1, DistinctConcat
  <2>5. Parse(raw) = [order |-> known \o rest, hidden |-> raw.hidden \cap Widgets]
    BY <1>2 DEF Parse
  <2> PICK order : order = known \o rest
    OBVIOUS
  <2>6. order \in Distinct(Widgets) /\ ToSet(order) = Widgets
    BY <2>2, <2>3, <2>4
  <2> PICK hidden \in SUBSET Widgets : hidden = raw.hidden \cap Widgets
    OBVIOUS
  <2>7. Parse(raw) = [order |-> order, hidden |-> hidden]
    BY <2>5
  <2>8. [order |-> order, hidden |-> hidden] \in WholeLayouts
    BY <2>6 DEF WholeLayouts
  <2> QED BY <2>7, <2>8
<1> QED BY <1>1, <1>2

\* What the page stores is what a tab of this build reads.
LEMMA ParsedBack ==
  ASSUME NEW l \in WholeLayouts
  PROVE  Parse(SerializeLayout(l)) = l
<1> PICK order \in Seq(Widgets), hidden \in SUBSET Widgets :
      /\ l.order = order /\ l.hidden = hidden /\ l = [order |-> order, hidden |-> hidden]
      /\ order \in Distinct(Widgets) /\ ToSet(order) = Widgets
  BY WholeOrder
<1>1. SanitizeIds(order) = order
  <2>1. IsInjective(order) /\ DOMAIN order = 1..Len(order) /\ Len(order) \in Nat
    BY DEF Distinct
  <2>2. \A i \in DOMAIN order : order[i] \in Widgets /\ \A j \in 1..(i - 1) : order[j] # order[i]
    <3> SUFFICES ASSUME NEW i \in DOMAIN order, NEW j \in 1..(i - 1)
                 PROVE  order[i] \in Widgets /\ order[j] # order[i]
      BY <2>1
    <3>1. j \in DOMAIN order /\ j # i
      BY <2>1
    <3> QED BY <2>1, <3>1 DEF IsInjective
  <2>3. {i \in DOMAIN order : order[i] \in Widgets /\ \A j \in 1..(i - 1) : order[j] # order[i]}
          = DOMAIN order
    BY <2>2
  <2>4. SanitizeIds(order) = Picked(order, DOMAIN order)
    BY <2>3 DEF SanitizeIds
  <2> QED BY <2>4, PickedWhole
<1>2. Without(WidgetIds, Widgets) = << >>
  <2>1. {i \in DOMAIN WidgetIds : WidgetIds[i] \notin Widgets} = {}
    BY DEF Widgets, ToSet
  <2>2. Without(WidgetIds, Widgets) = Picked(WidgetIds, {})
    BY <2>1 DEF Without
  <2> QED BY <2>2, LayoutAssumption, PickedNothing
<1>3. order \o << >> = order
  BY ConcatEmptySeq
<1> PICK raw : raw = SerializeLayout(l)
  OBVIOUS
<1>4. raw.v = 1 /\ raw.order = order /\ raw.hidden = hidden
  BY DEF SerializeLayout
<1>5. Parse(raw) = [order |-> order \o << >>, hidden |-> hidden \cap Widgets]
  BY <1>1, <1>2, <1>4 DEF Parse
<1> QED BY <1>3, <1>5

-----------------------------------------------------------------------------
\* The visible ids are the widgets that are not hidden.
LEMMA VisibleElements ==
  ASSUME NEW l \in WholeLayouts
  PROVE  /\ VisibleIds(l) \in Distinct(Widgets)
         /\ ToSet(VisibleIds(l)) = Widgets \ l.hidden
         /\ Len(VisibleIds(l)) = Cardinality(VisiblePlaces(l))
<1>1. VisibleIds(l) = Without(l.order, l.hidden)
  BY DEF VisibleIds, VisiblePlaces, Without
<1>2. l.order \in Distinct(Widgets) /\ l.order \in Seq(Widgets) /\ ToSet(l.order) = Widgets
  BY WholeOrder
<1>3. VisiblePlaces(l) \in SUBSET DOMAIN l.order
  BY DEF VisiblePlaces
<1>4. Len(Picked(l.order, VisiblePlaces(l))) = Cardinality(VisiblePlaces(l))
  BY <1>2, <1>3, PickedElements
<1> QED BY <1>1, <1>2, <1>4, WithoutElements DEF VisibleIds

LEMMA NextElements ==
  ASSUME NEW l \in WholeLayouts, NEW ids \in Seq(Widgets)
  PROVE  /\ NextVisible(l, ids) \in Distinct(Widgets)
         /\ ToSet(NextVisible(l, ids)) = Widgets \ l.hidden
         /\ Len(NextVisible(l, ids)) = Cardinality(VisiblePlaces(l))
<1>1. /\ VisibleIds(l) \in Distinct(Widgets) /\ ToSet(VisibleIds(l)) = Widgets \ l.hidden
      /\ Len(VisibleIds(l)) = Cardinality(VisiblePlaces(l))
  BY VisibleElements
<1> PICK seen : seen = Without(SanitizeIds(ids), l.hidden)
  OBVIOUS
<1> PICK rest : rest = Without(VisibleIds(l), ToSet(seen))
  OBVIOUS
<1>2. SanitizeIds(ids) \in Distinct(Widgets) /\ ToSet(SanitizeIds(ids)) \subseteq Widgets
  BY SanitizedIds
<1>3. seen \in Distinct(Widgets) /\ ToSet(seen) \subseteq Widgets \ l.hidden
  BY <1>2, WithoutElements
<1>4. rest \in Distinct(Widgets) /\ ToSet(rest) = (Widgets \ l.hidden) \ ToSet(seen)
  BY <1>1, WithoutElements
<1>5. ToSet(seen) \cap ToSet(rest) = {}
  BY <1>4
<1>6. NextVisible(l, ids) = seen \o rest
  BY DEF NextVisible
<1>7. seen \o rest \in Distinct(Widgets) /\ ToSet(seen \o rest) = ToSet(seen) \cup ToSet(rest)
  BY <1>3, <1>4, <1>5, DistinctConcat
<1> PICK next : next = NextVisible(l, ids)
  OBVIOUS
<1>8. next \in Distinct(Widgets) /\ ToSet(next) = Widgets \ l.hidden
  BY <1>3, <1>4, <1>6, <1>7
<1>9. Len(next) = Cardinality(Widgets \ l.hidden)
  BY <1>8, DistinctLength
<1>10. Len(VisibleIds(l)) = Cardinality(Widgets \ l.hidden)
  BY <1>1, DistinctLength
<1> QED BY <1>1, <1>8, <1>9, <1>10

\* Reordering puts the visible widgets in another order on the places they have.
LEMMA ReorderedWhole ==
  ASSUME NEW l \in WholeLayouts, NEW ids \in Seq(Widgets)
  PROVE  LET new == ReorderVisible(l, ids)
         IN  /\ new \in WholeLayouts /\ new.hidden = l.hidden
             /\ \A i \in DOMAIN WidgetIds : l.order[i] \in l.hidden => new.order[i] = l.order[i]
<1> PICK order \in Seq(Widgets), hidden \in SUBSET Widgets :
      /\ l.order = order /\ l.hidden = hidden /\ l = [order |-> order, hidden |-> hidden]
      /\ order \in Distinct(Widgets) /\ ToSet(order) = Widgets /\ Len(order) = Len(WidgetIds)
  BY WholeOrder
<1> PICK S : S = VisiblePlaces(l)
  OBVIOUS
<1> PICK next : next = NextVisible(l, ids)
  OBVIOUS
<1> DEFINE new == [i \in DOMAIN order |-> IF order[i] \in hidden THEN order[i]
                                          ELSE next[CountUpTo(S, i)]]
<1>1. ReorderVisible(l, ids) = [order |-> new, hidden |-> hidden]
  <2>1. ReorderVisible(l, ids) =
          [l EXCEPT !.order = [i \in DOMAIN l.order |->
             IF l.order[i] \in l.hidden THEN l.order[i]
             ELSE NextVisible(l, ids)[CountUpTo(VisiblePlaces(l), i)]]]
    BY DEF ReorderVisible
  <2>2. [i \in DOMAIN l.order |-> IF l.order[i] \in l.hidden THEN l.order[i]
                                ELSE NextVisible(l, ids)[CountUpTo(VisiblePlaces(l), i)]] = new
    OBVIOUS
  <2>3. ReorderVisible(l, ids) = [l EXCEPT !.order = new]
    BY <2>1, <2>2
  <2> HIDE DEF new
  <2> QED BY <2>3
<1>2. \A i \in DOMAIN order : i \in S <=> order[i] \notin hidden
  BY DEF VisiblePlaces
<1>3. S \in SUBSET DOMAIN order /\ DOMAIN order = 1..Len(order) /\ Len(order) \in Nat
  BY DEF VisiblePlaces
<1>4. IsFiniteSet(S) /\ S \in SUBSET Int
  BY <1>3, PickedElements
<1> PICK n : n = Cardinality(S)
  OBVIOUS
<1>5. /\ \A p \in S : CountUpTo(S, p) \in 1..n
      /\ \A p, q \in S : CountUpTo(S, p) = CountUpTo(S, q) => p = q
      /\ \A k \in 1..n : \E p \in S : CountUpTo(S, p) = k
  BY <1>4, PlacesNumbered
<1>6. next \in Distinct(Widgets) /\ ToSet(next) = Widgets \ hidden /\ Len(next) = n
  BY NextElements
<1>7. DOMAIN next = 1..n /\ IsInjective(next)
  BY <1>6 DEF Distinct
<1>8. \A k \in 1..n : next[k] \in Widgets /\ next[k] \notin hidden
  BY <1>6, <1>7 DEF ToSet
<1>9. \A i \in DOMAIN order :
        IF i \in S THEN new[i] = next[CountUpTo(S, i)] /\ new[i] \notin hidden
                   ELSE new[i] = order[i] /\ new[i] \in hidden
  BY <1>2, <1>5, <1>8
<1>10. new \in Seq(Widgets) /\ DOMAIN new = DOMAIN order
  <2>1. \A i \in DOMAIN order : new[i] \in Widgets
    BY <1>2, <1>5, <1>8, <1>9
  <2>2. new \in [1..Len(order) -> Widgets]
    BY <1>3, <2>1
  <2> QED BY <1>3, <2>2
<1> HIDE DEF new
<1>11. IsInjective(new)
  <2> SUFFICES ASSUME NEW a \in DOMAIN order, NEW b \in DOMAIN order, new[a] = new[b] PROVE a = b
    BY <1>10 DEF IsInjective
  <2>1. CASE a \in S /\ b \in S
    <3>1. next[CountUpTo(S, a)] = next[CountUpTo(S, b)]
      BY <1>9, <2>1
    <3>2. CountUpTo(S, a) = CountUpTo(S, b)
      BY <1>5, <1>7, <2>1, <3>1 DEF IsInjective
    <3> QED BY <1>5, <2>1, <3>2
  <2>2. CASE a \notin S /\ b \notin S
    <3>1. order[a] = order[b]
      BY <1>9, <2>2
    <3> QED BY <3>1 DEF Distinct, IsInjective
  <2> QED BY <1>9, <2>1, <2>2
<1>12. ToSet(new) = Widgets
  <2>1. ToSet(new) \subseteq Widgets
    BY <1>10 DEF ToSet
  <2>2. ASSUME NEW x \in Widgets PROVE \E i \in DOMAIN order : new[i] = x
    <3>1. CASE x \in hidden
      <4> PICK i \in DOMAIN order : order[i] = x
        BY DEF ToSet
      <4> QED BY <1>2, <1>9, <3>1
    <3>2. CASE x \notin hidden
      <4> PICK k \in 1..n : next[k] = x
        BY <1>6, <1>7, <3>2 DEF ToSet
      <4> PICK p \in S : CountUpTo(S, p) = k
        BY <1>5
      <4> QED BY <1>3, <1>9
    <3> QED BY <3>1, <3>2
  <2> QED BY <1>10, <2>1, <2>2 DEF ToSet
<1>13. [order |-> new, hidden |-> hidden] \in WholeLayouts
  BY <1>10, <1>11, <1>12 DEF WholeLayouts, Distinct
<1>14. \A i \in DOMAIN WidgetIds : order[i] \in hidden => new[i] = order[i]
  <2>1. DOMAIN WidgetIds = DOMAIN order
    BY <1>3, LayoutAssumption
  <2> QED BY <1>2, <1>9, <2>1
<1> QED BY <1>1, <1>13, <1>14

\* A drag names widgets of the grid only.
LEMMA DraggedWidgets ==
  ASSUME NEW ids \in Seq(Widgets), NEW from \in 1..Len(ids), NEW to \in 1..Len(ids)
  PROVE  InsertAt(RemoveAt(ids, from), to, ids[from]) \in Seq(Widgets)
<1>1. RemoveAt(ids, from) \in Seq(Widgets) /\ Len(RemoveAt(ids, from)) = Len(ids) - 1
  <2>1. /\ SubSeq(ids, 1, from - 1) \in Seq(Widgets)
        /\ Len(SubSeq(ids, 1, from - 1)) = from - 1
    BY SubSeqProperties
  <2>2. /\ SubSeq(ids, from + 1, Len(ids)) \in Seq(Widgets)
        /\ Len(SubSeq(ids, from + 1, Len(ids))) = Len(ids) - from
    BY SubSeqProperties
  <2>5. (from - 1) + (Len(ids) - from) = Len(ids) - 1
    OBVIOUS
  <2> PICK a \in Seq(Widgets), b \in Seq(Widgets) :
        /\ a = SubSeq(ids, 1, from - 1) /\ Len(a) = from - 1
        /\ b = SubSeq(ids, from + 1, Len(ids)) /\ Len(b) = Len(ids) - from
    BY <2>1, <2>2
  <2>3. RemoveAt(ids, from) = a \o b
    BY DEF RemoveAt
  <2>4. a \o b \in Seq(Widgets) /\ Len(a \o b) = Len(a) + Len(b)
    BY ConcatProperties
  <2> PICK m, n : m = Len(a) /\ n = Len(b) /\ m = from - 1 /\ n = Len(ids) - from
    OBVIOUS
  <2>6. a \o b \in Seq(Widgets) /\ Len(a \o b) = m + n
    BY <2>4
  <2>7. m + n = Len(ids) - 1
    BY ONLY <2>5, m = from - 1, n = Len(ids) - from
  <2> QED BY <2>3, <2>6, <2>7
<1> PICK s \in Seq(Widgets) : s = RemoveAt(ids, from) /\ Len(s) = Len(ids) - 1
  BY <1>1
<1>2. SubSeq(s, 1, to - 1) \in Seq(Widgets) /\ SubSeq(s, to, Len(s)) \in Seq(Widgets)
  BY SubSeqProperties
<1>3. <<ids[from]>> \in Seq(Widgets)
  BY ElementOfSeq
<1> QED BY <1>2, <1>3 DEF InsertAt

-----------------------------------------------------------------------------
\* Every value kept is one that some build wrote, and a tab that has nothing left
\* to hear, and was refused nothing, rendered the one that is stored.
LayoutInv ==
  /\ stored \in RawValues
  /\ cached \in [LayoutTabs -> RawValues]
  /\ rendered \in [LayoutTabs -> RawValues]
  /\ wake \subseteq LayoutTabs
  /\ \A tab \in LayoutTabs : tab \in wake \cup refused \/ rendered[tab] = stored

\* A commit, stored or refused, shows its own tab what is stored and wakes the others.
LEMMA CommitWhole ==
  ASSUME LayoutInv, NEW tab \in LayoutTabs, NEW l, NEW next \in WholeLayouts, NEW fits,
         Commit(tab, l, next, fits)
  PROVE  LayoutInv'
<1> USE DEF LayoutInv
<1>1. SerializeLayout(next) \in RawValues
  BY DEF RawValues
<1>2. stored' \in RawValues
  BY <1>1 DEF Commit
<1>3. cached' \in [LayoutTabs -> RawValues]
  BY <1>2 DEF Commit
<1>4. CASE l = next
  BY <1>2, <1>3, <1>4 DEF Commit
<1>5. CASE l # next
  <2>1. rendered' = [rendered EXCEPT ![tab] = stored'] /\ wake' = wake \cup (LayoutTabs \ {tab})
    BY <1>5 DEF Commit
  <2>2. rendered' \in [LayoutTabs -> RawValues] /\ rendered'[tab] = stored'
    BY <1>2, <2>1
  <2> QED BY <1>2, <1>3, <2>1, <2>2
<1> QED BY <1>4, <1>5

\* Every tab opens with what is stored.
LEMMA LayoutStart == LayoutInit => LayoutInv
<1> SUFFICES ASSUME LayoutInit PROVE LayoutInv
  OBVIOUS
<1>1. stored \in RawValues
  BY DEF LayoutInit, RawValues
<1> QED BY <1>1 DEF LayoutInit, LayoutInv

LEMMA ToggledWhole ==
  ASSUME NEW l \in WholeLayouts, NEW id \in Widgets
  PROVE  AddWidget(l, id) \in WholeLayouts /\ RemoveWidget(l, id) \in WholeLayouts
<1> PICK order \in Seq(Widgets), hidden \in SUBSET Widgets :
      /\ l.order = order /\ l.hidden = hidden /\ l = [order |-> order, hidden |-> hidden]
      /\ order \in Distinct(Widgets) /\ ToSet(order) = Widgets
  BY WholeOrder
<1>1. \A h \in SUBSET Widgets : [order |-> order, hidden |-> h] \in WholeLayouts
  BY DEF WholeLayouts
<1>2. AddWidget(l, id) = [order |-> order, hidden |-> hidden \ {id}]
  <2> PICK h : h = hidden \ {id}
    OBVIOUS
  <2>1. AddWidget(l, id) = [l EXCEPT !.hidden = h]
    BY DEF AddWidget
  <2> QED BY <2>1
<1>3. RemoveWidget(l, id) = [order |-> order, hidden |-> hidden \cup {id}]
  <2> PICK h : h = hidden \cup {id}
    OBVIOUS
  <2>1. RemoveWidget(l, id) = [l EXCEPT !.hidden = h]
    BY DEF RemoveWidget
  <2> QED BY <2>1
<1> QED BY <1>1, <1>2, <1>3

LEMMA DraggedShown ==
  ASSUME LayoutInv, NEW tab \in LayoutTabs, NEW from \in Places(tab), NEW to \in Places(tab)
  PROVE  Dragged(tab, from, to) \in Seq(Widgets)
<1> PICK ids : ids = VisibleIds(Shown(tab))
  OBVIOUS
<1>1. Shown(tab) \in WholeLayouts
  BY ParsedWhole DEF LayoutInv, Shown
<1>2. ids \in Seq(Widgets)
  BY <1>1, VisibleElements DEF Distinct
<1>3. from \in 1..Len(ids) /\ to \in 1..Len(ids)
  BY DEF Places
<1>4. InsertAt(RemoveAt(ids, from), to, ids[from]) \in Seq(Widgets)
  BY <1>2, <1>3, DraggedWidgets
<1> QED BY <1>4 DEF Dragged

LEMMA LayoutStep == LayoutInv /\ [LayoutNext]_layoutVars => LayoutInv'
<1> SUFFICES ASSUME LayoutInv, [LayoutNext]_layoutVars PROVE LayoutInv'
  OBVIOUS
<1>1. ReadLayout \in WholeLayouts
  BY ParsedWhole DEF LayoutInv, ReadLayout
<1>2. ASSUME NEW tab \in LayoutTabs, NEW fits \in BOOLEAN,
             NEW from \in Places(tab), NEW to \in Places(tab), Drop(tab, from, to, fits)
      PROVE  LayoutInv'
  <2>1. Dragged(tab, from, to) \in Seq(Widgets)
    BY DraggedShown
  <2>2. ReorderVisible(ReadLayout, Dragged(tab, from, to)) \in WholeLayouts
    BY <1>1, <2>1, ReorderedWhole
  <2> QED BY <1>2, <2>2, CommitWhole DEF Drop
<1>3. ASSUME NEW tab \in LayoutTabs, NEW fits \in BOOLEAN, NEW id \in Widgets,
             Toggle(tab, id, fits)
      PROVE  LayoutInv'
  <2>1. AddWidget(ReadLayout, id) \in WholeLayouts /\ RemoveWidget(ReadLayout, id) \in WholeLayouts
    BY <1>1, ToggledWhole
  <2> PICK next \in WholeLayouts : Commit(tab, ReadLayout, next, fits)
    BY <1>3, <2>1 DEF Toggle
  <2> QED BY CommitWhole
<1>4. ASSUME NEW tab \in LayoutTabs, NEW fits \in BOOLEAN, Reset(tab, fits)
      PROVE  LayoutInv'
  <2>1. CASE UNCHANGED layoutVars
    BY <2>1 DEF layoutVars, LayoutInv
  <2>2. CASE Commit(tab, Parse(cached[tab]), DefaultLayout, fits)
    <3>1. DefaultLayout \in WholeLayouts
      BY CanonicalOrder DEF WholeLayouts, DefaultLayout
    <3> QED BY <2>2, <3>1, CommitWhole
  <2> QED BY <1>4, <2>1, <2>2 DEF Reset
<1>5. ASSUME NEW tab \in LayoutTabs, Hear(tab) PROVE LayoutInv'
  <2>1. stored' = stored /\ wake' = wake \ {tab} /\ refused' = refused \ {tab}
    BY <1>5 DEF Hear
  <2>2. cached' \in [LayoutTabs -> RawValues]
    BY <1>5 DEF Hear, LayoutInv
  <2>3. rendered' = [rendered EXCEPT ![tab] = stored]
    BY <1>5 DEF Hear
  <2> QED BY <2>1, <2>2, <2>3 DEF LayoutInv
<1>6. CASE WriteElsewhere
  <2>1. stored' \in RawValues
    BY <1>6 DEF WriteElsewhere, RawValues
  <2> QED BY <1>6, <2>1 DEF WriteElsewhere, LayoutInv
<1>7. CASE UNCHANGED layoutVars
  BY <1>7 DEF layoutVars, LayoutInv
<1> QED BY <1>2, <1>3, <1>4, <1>5, <1>6, <1>7 DEF LayoutNext

LEMMA LayoutShown == LayoutInv => LayoutsAreWhole /\ ShownIsStored
<1> SUFFICES ASSUME LayoutInv PROVE LayoutsAreWhole /\ ShownIsStored
  OBVIOUS
<1>1. \A tab \in LayoutTabs : Shown(tab) \in WholeLayouts
  BY ParsedWhole DEF LayoutInv, Shown
<1>2. LayoutsAreWhole
  BY <1>1, WholeOrder DEF LayoutsAreWhole
<1>3. ShownIsStored
  BY DEF LayoutInv, ShownIsStored, Shown
<1> QED BY <1>2, <1>3

\* What a drop leaves stored, kept or refused.
LEMMA DroppedHidden ==
  ASSUME LayoutInv, NEW tab \in LayoutTabs, NEW from \in Places(tab), NEW to \in Places(tab),
         NEW fits, Drop(tab, from, to, fits)
  PROVE  /\ Parse(stored').hidden = ReadLayout.hidden
         /\ \A i \in DOMAIN WidgetIds :
              ReadLayout.order[i] \in ReadLayout.hidden =>
                Parse(stored').order[i] = ReadLayout.order[i]
<1> PICK l \in WholeLayouts : l = ReadLayout
  BY ParsedWhole DEF LayoutInv, ReadLayout
<1> PICK ids \in Seq(Widgets) : ids = Dragged(tab, from, to)
  BY DraggedShown
<1> PICK next : next = ReorderVisible(l, ids)
  OBVIOUS
<1>1. /\ next \in WholeLayouts /\ next.hidden = l.hidden
      /\ \A i \in DOMAIN WidgetIds : l.order[i] \in l.hidden => next.order[i] = l.order[i]
  BY ReorderedWhole
<1>2. Commit(tab, l, next, fits)
  BY DEF Drop
<1>3. stored' = stored \/ stored' = SerializeLayout(next)
  BY <1>2 DEF Commit
<1> PICK after : after = stored'
  OBVIOUS
<1>4. Parse(stored) = l
  BY DEF ReadLayout
<1>5. Parse(after) = l \/ Parse(after) = next
  <2>1. CASE after = stored
    BY <1>4, <2>1
  <2>2. CASE after = SerializeLayout(next)
    BY <1>1, <2>2, ParsedBack
  <2> QED BY <1>3, <2>1, <2>2
<1>6. /\ Parse(after).hidden = l.hidden
      /\ \A i \in DOMAIN WidgetIds :
           l.order[i] \in l.hidden => Parse(after).order[i] = l.order[i]
  BY <1>1, <1>5
<1> QED BY <1>6

\* Every tab renders every widget once, and what is stored as soon as it has heard
\* of it, unless the quota refused its own last change, whatever other builds wrote and however many tabs drag, hide and reset;
\* no drag moves or shows a hidden widget.
THEOREM LayoutKept == LayoutSpec => LayoutSurvives
<1>1. LayoutInv => HiddenStays
  BY DroppedHidden DEF HiddenStays
<1> QED
  BY <1>1, LayoutStart, LayoutStep, LayoutShown, PTL DEF LayoutSpec, LayoutSurvives, DropKeepsHidden
=============================================================================
