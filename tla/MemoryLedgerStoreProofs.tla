---------------------- MODULE MemoryLedgerStoreProofs ----------------------
(***************************************************************************)
(* What the in-memory store promises for any number of concurrent          *)
(* requests: rows that are well typed, every voucher decided and posted at *)
(* most once, the posting book implemented, and on top of that a log that  *)
(* explains every decision, no blocked approval posted, and nothing stored *)
(* or imported twice.                                                      *)
(*                                                                         *)
(* Types alone are not inductive: a refresh or a compose follows the maps  *)
(* from an evidence object to its packet and on to a voucher, so the maps  *)
(* must lead to rows that exist (LinksOK).  That no voucher is posted      *)
(* twice rests on the review row, which no stale refresh can reopen: what  *)
(* the log decides is decided in the review (Settled).  StepEffect sums up *)
(* what a step does to the log and to the statuses of the reviews;         *)
(* everything that is said of decisions follows from it.                   *)
(***************************************************************************)
EXTENDS MemoryLedgerRows, LedgerPlansProofs

-----------------------------------------------------------------------------
(* The invariant.                                                          *)

\* The maps lead to rows that exist.
LinksOK ==
    /\ \A e \in DOMAIN packetOf : packetOf[e] \in DOMAIN packets
    /\ stray # 0 => stray \in DOMAIN packets
    /\ \A p \in DOMAIN packets : packets[p].voucher \in 0..Len(vouchers)
    /\ \A r \in Requests : refresh[r] # Idle => refresh[r].voucher \in DOMAIN vouchers

\* The review rows are as decided as the log.
Settled ==
    \A i \in DOMAIN events : Decides(events[i]) =>
        /\ events[i].voucher \in DOMAIN reviews
        /\ reviews[events[i].voucher].status # "needs-review"

\* Nothing was decided twice, and what was decided is settled.
DecidedOnce == Settled /\ DecidesOnce(events, Nat)

\* The inductive invariant of the store.
MemoryInv == TypeOK /\ LinksOK /\ DecidedOnce

\* The reviews that exist remain, and the decided ones remain decided.
ReviewsStay ==
    \A v \in DOMAIN reviews :
        /\ v \in DOMAIN reviews'
        /\ reviews[v].status # "needs-review" => reviews'[v].status # "needs-review"

\* Appending decisions of open reviews that the same step decides.
LEMMA AppendSettles ==
    ASSUME NEW STATE new, MemoryInv, ReviewsStay, new \in Seq(Events), events' = events \o new,
           DecidesOnce(new, Nat),
           \A i \in 1..Len(new) : Decides(new[i]) =>
               /\ new[i].voucher \in DOMAIN reviews
               /\ reviews[new[i].voucher].status = "needs-review"
               /\ reviews'[new[i].voucher].status # "needs-review"
    PROVE  events' \in Seq(Events) /\ DecidedOnce'
<1> DEFINE m == Len(events)
           n == Len(new)
<1>1. events \in Seq(Events) /\ Settled /\ DecidesOnce(events, Nat)
  BY DEF MemoryInv, TypeOK, DecidedOnce
<1>2. /\ m \in Nat /\ n \in Nat
      /\ DOMAIN events = 1..m
      /\ events' \in Seq(Events)
      /\ DOMAIN events' = 1..(m + n)
      /\ \A i \in 1..(m + n) : events'[i] = IF i <= m THEN events[i] ELSE new[i - m]
  BY <1>1, ConcatProperties, LenProperties
<1>3. ASSUME NEW i \in 1..m, Decides(events[i])
      PROVE  /\ events[i].voucher \in DOMAIN reviews
             /\ reviews[events[i].voucher].status # "needs-review"
  BY <1>1, <1>2, <1>3 DEF Settled
<1>4. DecidesOnce(events', Nat)
  BY <1>1, <1>3, ConcatDecidesOnce
<1> HIDE DEF m
<1>5. ASSUME NEW i \in 1..(m + n), Decides(events'[i])
      PROVE  /\ events'[i].voucher \in DOMAIN reviews'
             /\ reviews'[events'[i].voucher].status # "needs-review"
  <2>1. CASE i <= m
    BY <1>2, <1>3, <1>5, <2>1 DEF ReviewsStay
  <2>2. CASE i > m
    <3>1. i - m \in 1..n
      BY <1>2, <2>2
    <3> QED
      BY <1>2, <1>5, <2>2, <3>1 DEF ReviewsStay
  <2> QED
    BY <1>2, <2>1, <2>2
<1> QED
  BY <1>2, <1>4, <1>5 DEF DecidedOnce, Settled, Decides

\* Appending events that decide nothing.
LEMMA QuietAppendSettles ==
    ASSUME NEW STATE new, MemoryInv, ReviewsStay, new \in Seq(Events), events' = events \o new,
           \A i \in 1..Len(new) : ~ Decides(new[i])
    PROVE  events' \in Seq(Events) /\ DecidedOnce'
<1>1. DOMAIN new = 1..Len(new)
  BY LenProperties
<1>2. DecidesOnce(new, Nat)
  BY <1>1 DEF DecidesOnce, IsPosting, IsDecision, Decides
<1> QED
  BY <1>2, AppendSettles

\* A step that logs nothing.
LEMMA UnloggedSettles ==
    ASSUME MemoryInv, ReviewsStay, UNCHANGED events
    PROVE  events' \in Seq(Events) /\ DecidedOnce'
  BY DEF MemoryInv, DecidedOnce, Settled, ReviewsStay, DecidesOnce, TypeOK

-----------------------------------------------------------------------------
(* Each action preserves the invariant.                                    *)

\* A larger number of vouchers leaves the links of the old ones right.
LEMMA UpToMore ==
    ASSUME NEW n \in Nat, NEW i \in 0..n
    PROVE  i \in 0..(n + 1) /\ (i \in 1..n => i \in 1..(n + 1))
  OBVIOUS

\* The new evidence, packet, voucher and review link to one another.
LEMMA CreateKeeps ==
    ASSUME MemoryInv, NEW hash \in Hashes \cup {NoHash}, NEW fields \in Fields,
           CreateEvidence(hash, fields)
    PROVE  MemoryInv'
<1> DEFINE n == Len(evidence)
           m == Len(packets)
           pk == [evidence |-> {n + 1}, voucher |-> n + 1]
<1>1. /\ evidence \in Seq(Hashes \cup {NoHash}) /\ packetOf \in Seq(Nat)
      /\ packets \in Seq(Packets) /\ vouchers \in Seq(Vouchers) /\ reviews \in Seq(Reviews)
      /\ Len(packetOf) = n /\ Len(vouchers) = n /\ Len(reviews) = n
      /\ refresh \in [Requests -> Suspended \cup {Idle}] /\ stray \in Nat
  BY DEF MemoryInv, TypeOK
<1>2. n \in Nat /\ m \in Nat
  BY <1>1, LenProperties
<1>3. /\ evidence' = Append(evidence, hash)
      /\ packetOf' = Append(packetOf, m + 1)
      /\ packets' = Append(packets, pk)
      /\ vouchers' = Append(vouchers, CreatedVoucher(m + 1, fields))
      /\ reviews' = Append(reviews, CreatedReview(fields))
      /\ events' = events \o CreateEvents(n + 1, n + 1, m + 1, fields)
      /\ refresh' = refresh /\ stray' = stray
  BY <1>1 DEF CreateEvidence
<1> HIDE DEF n, m
<1>4. m + 1 \in Nat /\ n + 1 \in Nat /\ pk \in Packets
  BY <1>2 DEF Packets
<1>5. CreatedVoucher(m + 1, fields) \in Vouchers /\ CreatedReview(fields) \in Reviews
  BY <1>4, CreatedRows
<1> HIDE DEF pk
<1>6. /\ evidence' \in Seq(Hashes \cup {NoHash}) /\ Len(evidence') = n + 1
      /\ packetOf' \in Seq(Nat) /\ Len(packetOf') = n + 1
      /\ packets' \in Seq(Packets) /\ Len(packets') = m + 1
      /\ vouchers' \in Seq(Vouchers) /\ Len(vouchers') = n + 1
      /\ reviews' \in Seq(Reviews) /\ Len(reviews') = n + 1
  BY <1>1, <1>3, <1>4, <1>5, AppendRow DEF n, m
<1>7. /\ DOMAIN packetOf = 1..n /\ DOMAIN packetOf' = 1..(n + 1)
      /\ DOMAIN packets = 1..m /\ DOMAIN packets' = 1..(m + 1)
      /\ DOMAIN vouchers = 1..n /\ DOMAIN vouchers' = 1..(n + 1)
      /\ DOMAIN reviews = 1..n /\ DOMAIN reviews' = 1..(n + 1)
      /\ \A i \in 1..n : packetOf'[i] = packetOf[i] /\ reviews'[i] = reviews[i]
      /\ \A i \in 1..m : packets'[i] = packets[i]
      /\ packetOf'[n + 1] = m + 1 /\ packets'[m + 1] = pk
  BY <1>1, <1>3, <1>4, <1>5, AppendRow DEF n, m
<1>8. ReviewsStay
  BY <1>2, <1>7 DEF ReviewsStay
<1>9. events' \in Seq(Events) /\ DecidedOnce'
  BY <1>3, <1>4, <1>8, PlannedEvents, QuietEvents, QuietAppendSettles
<1>10. TypeOK'
  BY <1>1, <1>3, <1>6, <1>9 DEF TypeOK
<1>11. LinksOK'
  <2>1. /\ \A e \in 1..n : packetOf[e] \in 1..m
        /\ \A p \in 1..m : packets[p].voucher \in 0..n
        /\ \A r \in Requests : refresh[r] # Idle => refresh[r].voucher \in 1..n
    BY <1>1, <1>7 DEF MemoryInv, LinksOK
  <2>2. \A e \in 1..(n + 1) : packetOf'[e] \in 1..(m + 1)
    BY <1>2, <1>7, <2>1
  <2>3. \A p \in 1..(m + 1) : packets'[p].voucher \in 0..(n + 1)
    <3>1. packets'[m + 1].voucher = n + 1
      BY <1>7 DEF pk
    <3> QED
      BY <1>2, <1>7, <2>1, <3>1, UpToMore
  <2>4. \A r \in Requests : refresh'[r] # Idle => refresh'[r].voucher \in 1..(n + 1)
    BY <1>2, <1>3, <2>1, UpToMore
  <2>5. stray' # 0 => stray' \in 1..(m + 1)
    BY <1>2, <1>3, <1>7 DEF MemoryInv, LinksOK
  <2> QED
    BY <1>6, <1>7, <2>2, <2>3, <2>4, <2>5 DEF LinksOK
<1> QED
  BY <1>9, <1>10, <1>11 DEF MemoryInv

\* The voucher that a composed id leads to exists, if there is one.
LEMMA LinkResolves ==
    ASSUME MemoryInv, NEW e \in DOMAIN evidence \cup {Unknown}
    PROVE  LinkedVoucher(e) \in 0..Len(vouchers)
<1>1. DOMAIN evidence = DOMAIN packetOf /\ Len(vouchers) \in Nat
  BY LenProperties DEF MemoryInv, TypeOK
<1>2. CASE e # Unknown
  BY <1>1, <1>2 DEF MemoryInv, LinksOK, LinkedVoucher, ContextVoucher
<1>3. CASE e = Unknown /\ stray # 0
  BY <1>3 DEF MemoryInv, LinksOK, LinkedVoucher
<1>4. CASE e = Unknown /\ stray = 0
  BY <1>1, <1>4 DEF LinkedVoucher
<1> QED
  BY <1>2, <1>3, <1>4

\* Relinking evidence to the packet a compose appends.
LEMMA RepointedPackets ==
    ASSUME NEW s \in Seq(Nat), NEW items, NEW p \in Nat
    PROVE  /\ [e \in DOMAIN s |-> IF e \in items THEN p ELSE s[e]] \in Seq(Nat)
           /\ Len([e \in DOMAIN s |-> IF e \in items THEN p ELSE s[e]]) = Len(s)
<1> DEFINE n == Len(s)
           t == [e \in DOMAIN s |-> IF e \in items THEN p ELSE s[e]]
<1>1. n \in Nat /\ DOMAIN s = 1..n /\ s \in [1..n -> Nat]
  BY LenProperties
<1>2. t \in [1..n -> Nat]
  BY <1>1
<1> HIDE DEF n, t
<1>3. t \in Seq(Nat)
  BY <1>1, <1>2, SeqDef
<1>4. Len(t) = n
  BY <1>1, <1>2, <1>3, LenProperties
<1> QED
  BY <1>3, <1>4 DEF t, n

\* The new packet takes over a voucher that exists, or none.
LEMMA ComposeKeeps ==
    ASSUME MemoryInv, NEW S \in SUBSET (DOMAIN evidence \cup {Unknown}), NEW ids \in Orders(S),
           ComposeEvidence(ids)
    PROVE  MemoryInv'
<1> DEFINE items == {ids[i] : i \in DOMAIN ids}
           n == Len(vouchers)
           m == Len(packets)
<1>1. /\ evidence \in Seq(Hashes \cup {NoHash}) /\ packetOf \in Seq(Nat)
      /\ packets \in Seq(Packets) /\ vouchers \in Seq(Vouchers) /\ reviews \in Seq(Reviews)
      /\ events \in Seq(Events)
      /\ n \in Nat /\ m \in Nat /\ m + 1 \in Nat
      /\ DOMAIN vouchers = 1..n /\ DOMAIN packets = 1..m /\ DOMAIN evidence \subseteq Nat
  BY LenProperties DEF MemoryInv, TypeOK
<1>2. items \in SUBSET Nat
  BY <1>1 DEF Orders, Unknown
<1>3. packetOf' = [e \in DOMAIN packetOf |-> IF e \in items THEN m + 1 ELSE packetOf[e]]
  BY DEF ComposeEvidence
<1>4. UNCHANGED <<evidence, reviews, refresh>> /\ stray' \in {m + 1, stray}
  BY DEF ComposeEvidence
<1> HIDE DEF items, n, m
<1>5. PICK v \in 0..n :
          /\ packets' = Append(packets, [evidence |-> items, voucher |-> v])
          /\ \/ UNCHANGED <<vouchers, events>>
             \/ /\ v \in 1..n
                /\ vouchers' = [vouchers EXCEPT ![v].packet = m + 1]
                /\ events' = Append(events, RelinkEvent(v, m + 1))
  <2>1. CASE /\ packets' = Append(packets, [evidence |-> items, voucher |-> 0])
             /\ UNCHANGED <<vouchers, events>>
    <3>1. 0 \in 0..n
      BY <1>1
    <3> QED
      BY <2>1, <3>1
  <2>2. ASSUME NEW first \in DOMAIN ids, LinkedVoucher(ids[first]) # 0,
               packets' = Append(packets,
                   [evidence |-> items, voucher |-> LinkedVoucher(ids[first])]),
               vouchers' = Relinked(LinkedVoucher(ids[first]), m + 1),
               events' = Append(events, RelinkEvent(LinkedVoucher(ids[first]), m + 1))
        PROVE  \E v \in 0..n :
                  /\ packets' = Append(packets, [evidence |-> items, voucher |-> v])
                  /\ v \in 1..n
                  /\ vouchers' = [vouchers EXCEPT ![v].packet = m + 1]
                  /\ events' = Append(events, RelinkEvent(v, m + 1))
    <3>1. ids[first] \in DOMAIN evidence \cup {Unknown}
      BY <2>2 DEF Orders
    <3>2. LinkedVoucher(ids[first]) \in 0..n /\ LinkedVoucher(ids[first]) # 0
      BY <2>2, <3>1, LinkResolves DEF n
    <3>3. LinkedVoucher(ids[first]) \in 1..n
      BY <1>1, <3>2
    <3> QED
      BY <2>2, <3>2, <3>3 DEF Relinked
  <2> QED
    BY <2>1, <2>2 DEF ComposeEvidence, ComposedPacket, items, m
<1>6. /\ packets' \in Seq(Packets) /\ Len(packets') = m + 1
      /\ DOMAIN packets' = 1..(m + 1)
      /\ \A p \in 1..m : packets'[p] = packets[p]
      /\ packets'[m + 1].voucher = v
  <2> DEFINE pk == [evidence |-> items, voucher |-> v]
  <2>1. pk \in Packets /\ pk.voucher = v
    BY <1>1, <1>2, <1>5 DEF Packets
  <2>2. packets' = Append(packets, pk)
    BY <1>5
  <2> HIDE DEF pk
  <2> QED
    BY <1>1, <2>1, <2>2, AppendRow DEF m
<1>7. packetOf' \in Seq(Nat) /\ Len(packetOf') = Len(packetOf) /\ DOMAIN packetOf' = DOMAIN packetOf
  BY <1>1, <1>3, RepointedPackets
<1>8. ReviewsStay
  BY <1>4 DEF ReviewsStay
<1>9. vouchers' \in Seq(Vouchers) /\ Len(vouchers') = n /\ events' \in Seq(Events) /\ DecidedOnce'
  <2>1. CASE UNCHANGED <<vouchers, events>>
    BY <1>1, <1>8, <2>1, UnloggedSettles DEF n
  <2>2. CASE /\ v \in 1..n
             /\ vouchers' = [vouchers EXCEPT ![v].packet = m + 1]
             /\ events' = Append(events, RelinkEvent(v, m + 1))
    <3> DEFINE row == [vouchers[v] EXCEPT !.packet = m + 1]
    <3>8. v \in DOMAIN vouchers /\ vouchers[v] \in Vouchers
      BY <1>1, <2>2, ElementOfSeq DEF n
    <3>1. row \in Vouchers
      BY <1>1, <3>8 DEF Vouchers
    <3>2. vouchers' = [vouchers EXCEPT ![v] = row]
      BY <2>2
    <3> HIDE DEF row
    <3>3. vouchers' \in Seq(Vouchers) /\ Len(vouchers') = n
      BY <1>1, <3>8, <3>1, <3>2, UpdateRow DEF n
    <3>4. RelinkEvent(v, m + 1) \in Events
      BY <1>1, <2>2 DEF RelinkEvent, Events
    <3> DEFINE new == <<RelinkEvent(v, m + 1)>>
    <3>5. new \in Seq(Events) /\ events' = events \o new
      BY <1>1, <2>2, <3>4, AppendOne
    <3>6. \A i \in 1..Len(new) : ~ Decides(new[i])
      <4>1. ~ Decides(RelinkEvent(v, m + 1))
        BY QuietEvents
      <4>2. Len(new) = 1 /\ new[1] = RelinkEvent(v, m + 1)
        OBVIOUS
      <4> HIDE DEF new
      <4> QED
        BY <4>1, <4>2
    <3> HIDE DEF new
    <3>7. events' \in Seq(Events) /\ DecidedOnce'
      BY <1>8, <3>5, <3>6, QuietAppendSettles
    <3> QED
      BY <3>3, <3>7
  <2> QED
    BY <1>5, <2>1, <2>2
<1>10. TypeOK'
  BY <1>1, <1>4, <1>6, <1>7, <1>9 DEF MemoryInv, TypeOK, n
<1>11. LinksOK'
  <2>1. DOMAIN vouchers' = 1..n
    BY <1>9, LenProperties
  <2>2. \A e \in DOMAIN packetOf' : packetOf'[e] \in 1..(m + 1)
    BY <1>1, <1>3, <1>7 DEF MemoryInv, LinksOK
  <2>3. \A p \in 1..(m + 1) : packets'[p].voucher \in 0..n
    BY <1>1, <1>5, <1>6 DEF MemoryInv, LinksOK, n
  <2>4. \A r \in Requests : refresh'[r] # Idle => refresh'[r].voucher \in 1..n
    BY <1>1, <1>4 DEF MemoryInv, LinksOK
  <2>5. stray' # 0 => stray' \in 1..(m + 1)
    BY <1>1, <1>4 DEF MemoryInv, LinksOK
  <2> QED
    BY <1>6, <1>9, <2>1, <2>2, <2>3, <2>4, <2>5 DEF LinksOK
<1> QED
  BY <1>9, <1>10, <1>11 DEF MemoryInv


\* The context holds a voucher that exists, and its row as it is.
LEMMA BeginKeeps ==
    ASSUME MemoryInv, NEW r \in Requests, NEW e \in DOMAIN evidence, NEW x \in Extractions,
           BeginExtractionRefresh(r, e, x)
    PROVE  MemoryInv'
<1> DEFINE v == ContextVoucher(e)
           rec == [voucher |-> v, row |-> vouchers[v], extraction |-> x]
<1>1. /\ v \in DOMAIN vouchers
      /\ refresh' = [refresh EXCEPT ![r] = rec]
      /\ UNCHANGED <<evidence, packetOf, stray, packets, vouchers, reviews, events>>
  BY DEF BeginExtractionRefresh
<1>2. vouchers \in Seq(Vouchers) /\ DOMAIN vouchers = 1..Len(vouchers) /\ Len(vouchers) \in Nat
  BY LenProperties DEF MemoryInv, TypeOK
<1> HIDE DEF v
<1>3. vouchers[v] \in Vouchers /\ v \in Nat \ {0}
  BY <1>1, <1>2, ElementOfSeq
<1>4. rec \in Suspended /\ rec.voucher = v
  BY <1>3 DEF Suspended
<1> HIDE DEF rec
<1>5. refresh' \in [Requests -> Suspended \cup {Idle}]
  BY <1>1, <1>4 DEF MemoryInv, TypeOK
<1>6. TypeOK'
  BY <1>1, <1>5 DEF MemoryInv, TypeOK
<1>7. ASSUME NEW s \in Requests, refresh'[s] # Idle
      PROVE  refresh'[s].voucher \in DOMAIN vouchers
  <2>1. CASE s = r
    BY <1>1, <1>4, <2>1 DEF MemoryInv, TypeOK
  <2>2. CASE s # r
    BY <1>1, <1>7, <2>2 DEF MemoryInv, LinksOK
  <2> QED
    BY <2>1, <2>2
<1>8. LinksOK'
  BY <1>1, <1>7 DEF MemoryInv, LinksOK
<1>9. DecidedOnce'
  <2>1. ReviewsStay
    BY <1>1 DEF ReviewsStay
  <2> QED
    BY <1>1, <2>1, UnloggedSettles
<1> QED
  BY <1>6, <1>8, <1>9 DEF MemoryInv

\* A step that rewrites a voucher and its review, and logs what it does.
LEMMA RowsKeep ==
    ASSUME MemoryInv, NEW v \in DOMAIN vouchers, NEW row \in Vouchers, NEW review \in Reviews,
           vouchers' = [vouchers EXCEPT ![v] = row] \/ vouchers' = vouchers,
           reviews' = [reviews EXCEPT ![v] = review] \/ reviews' = reviews,
           UNCHANGED <<evidence, packetOf, stray, packets>>,
           refresh' \in [Requests -> Suspended \cup {Idle}],
           \A r \in Requests : refresh'[r] \in {refresh[r], Idle},
           events' \in Seq(Events), DecidedOnce'
    PROVE  MemoryInv'
<1>1. vouchers \in Seq(Vouchers) /\ reviews \in Seq(Reviews) /\ Len(reviews) = Len(vouchers)
  BY DEF MemoryInv, TypeOK
<1>2. v \in DOMAIN reviews
  BY <1>1, LenProperties
<1>3. vouchers' \in Seq(Vouchers) /\ Len(vouchers') = Len(vouchers) /\ DOMAIN vouchers' = DOMAIN vouchers
  <2>1. CASE vouchers' = [vouchers EXCEPT ![v] = row]
    BY <1>1, <2>1, UpdateRow
  <2> QED
    BY <1>1, <2>1
<1>4. reviews' \in Seq(Reviews) /\ Len(reviews') = Len(reviews)
  <2>1. CASE reviews' = [reviews EXCEPT ![v] = review]
    BY <1>1, <1>2, <2>1, UpdateRow
  <2> QED
    BY <1>1, <2>1
<1>5. TypeOK'
  BY <1>3, <1>4 DEF MemoryInv, TypeOK
<1>6. LinksOK'
  BY <1>3 DEF MemoryInv, LinksOK
<1> QED
  BY <1>5, <1>6 DEF MemoryInv

\* The continuation rewrites existing rows and never reopens a review.
LEMMA FinishKeeps ==
    ASSUME MemoryInv, NEW r \in Requests, FinishExtractionRefresh(r)
    PROVE  MemoryInv'
<1> DEFINE v   == refresh[r].voucher
           new == RefreshedVoucher(refresh[r].row, refresh[r].extraction)
           review == RefreshedReview(reviews[v], new.fields)
<1>1. refresh[r] \in Suspended /\ refresh[r] # Idle
  BY DEF MemoryInv, TypeOK, FinishExtractionRefresh, Free
<1>2. v \in DOMAIN vouchers /\ v \in DOMAIN reviews /\ v \in Nat
  <2>1. v \in DOMAIN vouchers
    BY <1>1 DEF MemoryInv, LinksOK
  <2>2. DOMAIN vouchers = DOMAIN reviews /\ DOMAIN reviews \subseteq Nat
    BY LenProperties DEF MemoryInv, TypeOK
  <2> QED
    BY <2>1, <2>2
<1>3. /\ refresh' = [refresh EXCEPT ![r] = Idle]
      /\ UNCHANGED <<evidence, packetOf, stray, packets>>
      /\ \/ UNCHANGED <<vouchers, reviews, events>>
         \/ /\ vouchers' = [vouchers EXCEPT ![v] = new]
            /\ reviews' = [reviews EXCEPT ![v] = review]
            /\ events' = events \o RefreshEvents(v, new.fields)
  BY DEF FinishExtractionRefresh
<1>4. reviews[v] \in Reviews /\ reviews \in Seq(Reviews)
  BY <1>2, LenProperties DEF MemoryInv, TypeOK
<1>5. new \in Vouchers /\ review \in Reviews
  BY <1>1, <1>4, RefreshedRows DEF Suspended
<1>6. new.fields \in Fields
  BY <1>5 DEF Vouchers
<1>7. review.status = reviews[v].status
  BY <1>4 DEF RefreshedReview, Reviews
<1> HIDE DEF new, review, v
<1>8. ReviewsStay
  <2>1. CASE reviews' = [reviews EXCEPT ![v] = review]
    BY <1>2, <1>4, <1>5, <1>7, <2>1, UpdateRow DEF ReviewsStay
  <2>2. CASE reviews' = reviews
    BY <2>2 DEF ReviewsStay
  <2> QED
    BY <1>3, <2>1, <2>2
<1>9. events' \in Seq(Events) /\ DecidedOnce'
  <2>1. RefreshEvents(v, new.fields) \in Seq(Events)
    BY <1>2, <1>6, PlannedEvents
  <2>2. CASE events' = events \o RefreshEvents(v, new.fields)
    BY <1>8, <2>1, <2>2, QuietEvents, QuietAppendSettles
  <2>3. CASE UNCHANGED events
    BY <1>8, <2>3, UnloggedSettles
  <2> QED
    BY <1>3, <2>2, <2>3
<1>10. /\ refresh' \in [Requests -> Suspended \cup {Idle}]
       /\ \A s \in Requests : refresh'[s] \in {refresh[s], Idle}
  BY <1>3 DEF MemoryInv, TypeOK
<1> QED
  BY <1>2, <1>3, <1>5, <1>9, <1>10, RowsKeep

\* Steps that only append to the log.
LEMMA LoggedOnlyKeeps ==
    ASSUME MemoryInv, NEW STATE new, new \in Seq(Events), events' = events \o new,
           \A i \in 1..Len(new) : ~ Decides(new[i]),
           UNCHANGED <<evidence, packetOf, stray, packets, vouchers, reviews, refresh>>
    PROVE  MemoryInv'
<1>1. ReviewsStay
  BY DEF ReviewsStay
<1>2. events' \in Seq(Events) /\ DecidedOnce'
  BY <1>1, QuietAppendSettles
<1> QED
  BY <1>2 DEF MemoryInv, TypeOK, LinksOK

\* An import only appends, and decides nothing.
LEMMA ImportKeeps ==
    ASSUME MemoryInv, NEW file \in SUBSET SieIds, ImportSie(file)
    PROVE  MemoryInv'
<1>1. PICK planned \in Orders(file \ Imported(events)) :
          /\ events' = events \o ImportedEvents(planned)
          /\ UNCHANGED <<evidence, packetOf, stray, packets, vouchers, reviews, refresh>>
  BY DEF ImportSie
<1>2. ImportedEvents(planned) \in Seq(Events)
  BY PlannedImports
<1>3. \A i \in 1..Len(ImportedEvents(planned)) : ~ Decides(ImportedEvents(planned)[i])
  <2>1. 1..Len(ImportedEvents(planned)) = DOMAIN ImportedEvents(planned)
    BY <1>2, LenProperties
  <2> QED
    BY <2>1 DEF ImportedEvents, Decides
<1> QED
  BY <1>1, <1>2, <1>3, LoggedOnlyKeeps

\* So does a simulation.
LEMMA SimulationKeeps ==
    ASSUME MemoryInv, RunSimulation
    PROVE  MemoryInv'
<1> DEFINE new == <<SimulationEvent>>
<1>1. SimulationEvent \in Events /\ ~ Decides(SimulationEvent)
  BY DEF SimulationEvent, Events, Decides
<1>2. new \in Seq(Events) /\ events' = events \o new
  BY <1>1, AppendOne DEF RunSimulation, MemoryInv, TypeOK
<1>3. Len(new) = 1 /\ new[1] = SimulationEvent
  OBVIOUS
<1> HIDE DEF new
<1>4. \A i \in 1..Len(new) : ~ Decides(new[i])
  BY <1>1, <1>3
<1> QED
  BY <1>2, <1>4, LoggedOnlyKeeps DEF RunSimulation

\* A regeneration changes the suggestion of an open review, never a status.
LEMMA SuggestKeeps ==
    ASSUME MemoryInv, NEW v \in DOMAIN vouchers, SuggestVoucher(v)
    PROVE  MemoryInv'
<1> DEFINE review == [reviews[v] EXCEPT !.suggestion = DeterministicSuggestion(vouchers[v].fields)]
<1>1. /\ vouchers \in Seq(Vouchers) /\ vouchers[v] \in Vouchers
      /\ reviews \in Seq(Reviews) /\ v \in DOMAIN reviews /\ reviews[v] \in Reviews
  BY LenProperties, ElementOfSeq DEF MemoryInv, TypeOK
<1>2. review \in Reviews /\ review.status = reviews[v].status
  BY <1>1 DEF Reviews, Vouchers, Suggestions, DeterministicSuggestion
<1>3. /\ reviews' = [reviews EXCEPT ![v] = review] \/ reviews' = reviews
      /\ UNCHANGED <<evidence, packetOf, stray, packets, vouchers, events, refresh>>
  BY DEF SuggestVoucher
<1> HIDE DEF review
<1>4. ReviewsStay
  BY <1>1, <1>2, <1>3, UpdateRow DEF ReviewsStay
<1>5. events' \in Seq(Events) /\ DecidedOnce'
  BY <1>3, <1>4, UnloggedSettles
<1>6. /\ refresh' \in [Requests -> Suspended \cup {Idle}]
      /\ \A r \in Requests : refresh'[r] \in {refresh[r], Idle}
  BY <1>3 DEF MemoryInv, TypeOK
<1> QED
  BY <1>1, <1>2, <1>3, <1>5, <1>6, RowsKeep

\* A decision is of an open review, which nothing in the log decides, and
\* closes it.
LEMMA DecisionKeeps ==
    ASSUME MemoryInv, NEW v \in DOMAIN vouchers, NEW action \in Actions,
           NEW edit \in Edits \cup {NoEdit}, ApplyReviewDecision(v, action, edit)
    PROVE  MemoryInv'
<1> DEFINE review == DecidedReview(reviews[v], action, edit)
           row == DecidedVoucher(vouchers[v], action)
           new == DecisionEvents(v, vouchers[v], reviews[v], action, edit)
<1>1. /\ vouchers \in Seq(Vouchers) /\ vouchers[v] \in Vouchers
      /\ reviews \in Seq(Reviews) /\ v \in DOMAIN reviews /\ reviews[v] \in Reviews
      /\ v \in Nat
  BY LenProperties, ElementOfSeq DEF MemoryInv, TypeOK
<1>2. /\ row \in Vouchers /\ review \in Reviews
      /\ StatusForAction(action) # "needs-review"
      /\ new \in Seq(Events)
  BY <1>1, DecidedRows, PlannedDecisionEvents
<1>3. review.status # "needs-review"
  BY <1>1, <1>2 DEF DecidedReview, Reviews
<1>4. /\ reviews[v].status = "needs-review"
      /\ reviews' = [reviews EXCEPT ![v] = review]
      /\ vouchers' = [vouchers EXCEPT ![v] = row]
      /\ events' = events \o new
      /\ UNCHANGED <<evidence, packetOf, stray, packets, refresh>>
  BY DEF ApplyReviewDecision
<1>5. DecidesOnce(new, Nat) /\ \A i \in 1..Len(new) : new[i].voucher = v
  BY DEF DecisionEvents, DecisionEvent, PostingEvent, DecidesOnce, IsPosting, IsDecision
<1> HIDE DEF review, row, new
<1>6. ReviewsStay /\ reviews'[v].status # "needs-review"
  BY <1>1, <1>2, <1>3, <1>4, UpdateRow DEF ReviewsStay
<1>7. events' \in Seq(Events) /\ DecidedOnce'
  BY <1>1, <1>2, <1>4, <1>5, <1>6, AppendSettles
<1>8. /\ refresh' \in [Requests -> Suspended \cup {Idle}]
      /\ \A r \in Requests : refresh'[r] \in {refresh[r], Idle}
  BY <1>4 DEF MemoryInv, TypeOK
<1> QED
  BY <1>1, <1>2, <1>4, <1>7, <1>8, RowsKeep

-----------------------------------------------------------------------------

\* The invariant holds initially and every action preserves it.
LEMMA MemoryInvariant == Spec => []MemoryInv
<1>1. Init => MemoryInv
  <2> SUFFICES ASSUME Init PROVE MemoryInv
    OBVIOUS
  <2>1. PICK seed \in [Keys -> Values] :
            /\ vouchers = << CreatedVoucher(1, seed) >>
            /\ reviews = << CreatedReview(seed) >>
            /\ events = CreateEvents(1, 1, 1, seed)
    BY DEF Init
  <2>2. seed \in Fields
    BY DEF Fields
  <2>3. /\ CreatedVoucher(1, seed) \in Vouchers /\ CreatedReview(seed) \in Reviews
        /\ events \in Seq(Events)
    BY <2>1, <2>2, CreatedRows, PlannedEvents
  <2>4. \A i \in DOMAIN events : ~ Decides(events[i])
    BY <2>1, <2>3, QuietEvents, LenProperties
  <2>5. /\ vouchers \in Seq(Vouchers) /\ Len(vouchers) = 1
        /\ reviews \in Seq(Reviews) /\ Len(reviews) = 1
    BY <2>1, <2>3
  <2>6. /\ evidence \in Seq(Hashes \cup {NoHash}) /\ Len(evidence) = 1
        /\ packetOf \in Seq(Nat) /\ Len(packetOf) = 1 /\ stray \in Nat
        /\ refresh \in [Requests -> Suspended \cup {Idle}]
    BY DEF Init
  <2>7. packets \in Seq(Packets)
    BY DEF Init, Packets
  <2>8. TypeOK
    BY <2>3, <2>5, <2>6, <2>7 DEF TypeOK
  <2>9. LinksOK
    BY <2>5 DEF Init, LinksOK
  <2>10. DecidedOnce
    BY <2>4 DEF DecidedOnce, Settled, DecidesOnce, IsPosting, IsDecision, Decides
  <2> QED
    BY <2>8, <2>9, <2>10 DEF MemoryInv
<1>2. MemoryInv /\ [Next]_vars => MemoryInv'
  <2> SUFFICES ASSUME MemoryInv, [Next]_vars PROVE MemoryInv'
    OBVIOUS
  <2>1. ASSUME NEW hash \in Hashes \cup {NoHash}, NEW fields \in Fields,
               CreateEvidence(hash, fields)
        PROVE  MemoryInv'
    BY <2>1, CreateKeeps
  <2>2. ASSUME NEW S \in (SUBSET (DOMAIN evidence \cup {Unknown})) \ {{}}, NEW ids \in Orders(S),
               ComposeEvidence(ids)
        PROVE  MemoryInv'
    BY <2>2, ComposeKeeps
  <2>3. ASSUME NEW r \in Requests, NEW e \in DOMAIN evidence, NEW x \in Extractions,
               BeginExtractionRefresh(r, e, x)
        PROVE  MemoryInv'
    BY <2>3, BeginKeeps
  <2>4. ASSUME NEW r \in Requests, FinishExtractionRefresh(r) PROVE MemoryInv'
    BY <2>4, FinishKeeps
  <2>5. ASSUME NEW file \in (SUBSET SieIds) \ {{}}, ImportSie(file) PROVE MemoryInv'
    BY <2>5, ImportKeeps
  <2>6. ASSUME NEW v \in DOMAIN vouchers, SuggestVoucher(v) PROVE MemoryInv'
    BY <2>6, SuggestKeeps
  <2>7. ASSUME NEW v \in DOMAIN vouchers, NEW action \in Actions,
               NEW edit \in Edits \cup {NoEdit}, ApplyReviewDecision(v, action, edit)
        PROVE  MemoryInv'
    BY <2>7, DecisionKeeps
  <2>8. CASE RunSimulation
    BY <2>8, SimulationKeeps
  <2>9. CASE UNCHANGED vars
    BY <2>9 DEF vars, MemoryInv, TypeOK, LinksOK, DecidedOnce, Settled, DecidesOnce
  <2> QED
    BY <2>1, <2>2, <2>3, <2>4, <2>5, <2>6, <2>7, <2>8, <2>9 DEF Next
<1> QED
  BY <1>1, <1>2, PTL DEF Spec

\* Every reachable state of the store is well typed, whatever requests are
\* suspended: MemoryLedgerStore's maps always hold rows of their types.
THEOREM MemoryTypes == Spec => []TypeOK
<1>1. MemoryInv => TypeOK
  BY DEF MemoryInv
<1> QED
  BY <1>1, MemoryInvariant, PTL

\* However many decisions, retries, suggestions and stale refreshes are sent,
\* applyReviewDecision decides and posts every voucher at most once.
THEOREM MemoryPostsOnce == Spec => []PostedOnce
<1>1. MemoryInv => PostedOnce
  <2> SUFFICES ASSUME MemoryInv PROVE PostedOnce
    OBVIOUS
  <2>1. DOMAIN vouchers \subseteq Nat
    BY LenProperties DEF MemoryInv, TypeOK
  <2> QED
    BY <2>1 DEF MemoryInv, DecidedOnce, PostedOnce, DecidesOnce
<1> QED
  BY <1>1, MemoryInvariant, PTL

-----------------------------------------------------------------------------
(* What a step does to the log and to the review statuses.                 *)

ReviewStatus == [v \in DOMAIN reviews |-> reviews[v].status]

ImportsFresh(new) ==
    \E file \in SUBSET SieIds : \E planned \in Orders(file \ Imported(events)) :
        new = ImportedEvents(planned)

\* The effect of a decision of v on the log and on the reviews.
DecisionOf(v, action, edit, new) ==
    /\ reviews[v].status = "needs-review"
    /\ ~ ReviewBlocked(reviews[v], action, EnforceBlockedReason)
    /\ CanRun(2)
    /\ new = DecisionEvents(v, vouchers[v], reviews[v], action, edit)
    /\ reviews' = [reviews EXCEPT ![v] = DecidedReview(reviews[v], action, edit)]

\* What a step appends: nothing of a decision and no status changed, or a new open
\* review, or exactly one decision.
StepOf(new) ==
    /\ new \in Seq(Events)
    /\ events' = events \o new
    /\ ImportFree(new) \/ ImportsFresh(new)
    /\ \/ Quiet(new) /\ ReviewStatus' = ReviewStatus
       \/ Quiet(new) /\ ReviewStatus' = Append(ReviewStatus, "needs-review")
       \/ \E v \in DOMAIN reviews, action \in Actions, edit \in Edits \cup {NoEdit} :
              DecisionOf(v, action, edit, new)

\* A review that is replaced by one of its status.
LEMMA SameStatus ==
    ASSUME MemoryInv, NEW v \in DOMAIN reviews, NEW review \in Reviews,
           review.status = reviews[v].status,
           reviews' = [reviews EXCEPT ![v] = review] \/ reviews' = reviews
    PROVE  ReviewStatus' = ReviewStatus
<1>1. reviews \in Seq(Reviews)
  BY DEF MemoryInv, TypeOK
<1>2. DOMAIN reviews' = DOMAIN reviews /\ \A w \in DOMAIN reviews : reviews'[w].status = reviews[w].status
  BY <1>1, UpdateRow
<1> QED
  BY <1>2 DEF ReviewStatus

\* A step that touches neither the log nor a status.
LEMMA SilentStep ==
    ASSUME MemoryInv, UNCHANGED events, ReviewStatus' = ReviewStatus
    PROVE  StepOf(<< >>)
  BY ShortLogs DEF StepOf, MemoryInv, TypeOK

\* The new review is open.
LEMMA CreateEffect ==
    ASSUME MemoryInv, NEW hash \in Hashes \cup {NoHash}, NEW fields \in Fields,
           CreateEvidence(hash, fields)
    PROVE  \E new : StepOf(new)
<1> DEFINE e == Len(evidence) + 1
           v == Len(vouchers) + 1
           p == Len(packets) + 1
           n == Len(reviews)
           new == CreateEvents(e, v, p, fields)
           review == CreatedReview(fields)
<1>1. /\ events' = events \o new
      /\ reviews' = Append(reviews, review)
  BY DEF CreateEvidence
<1>2. e \in Nat /\ v \in Nat /\ p \in Nat /\ reviews \in Seq(Reviews)
  BY LenProperties DEF MemoryInv, TypeOK
<1>3. new \in Seq(Events) /\ Quiet(new) /\ ImportFree(new)
  BY <1>2, PlannedEvents, QuietEvents, ImportFreeEvents DEF Quiet
<1>4. review \in Reviews /\ review.status = "needs-review"
  BY CreatedRows DEF CreatedReview, CreatedVoucher
<1> HIDE DEF review, e, v, p, new
<1>5. ReviewStatus' = Append(ReviewStatus, "needs-review")
  <2>1. /\ n \in Nat /\ DOMAIN reviews = 1..n /\ DOMAIN reviews' = 1..(n + 1)
        /\ \A i \in 1..n : reviews'[i] = reviews[i]
        /\ reviews'[n + 1] = review
    BY <1>1, <1>2, <1>4, AppendRow
  <2> HIDE DEF n
  <2>2. \A i \in 1..n : reviews[i] \in Reviews
    BY <1>2, ElementOfSeq DEF n
  <2>3. ReviewStatus \in [1..n -> Statuses]
    BY <2>1, <2>2 DEF ReviewStatus, Reviews
  <2>4. ReviewStatus \in Seq(Statuses) /\ Len(ReviewStatus) = n
    <3>1. ReviewStatus \in Seq(Statuses)
      BY <2>1, <2>3, SeqDef
    <3> QED
      BY <2>1, <2>3, <3>1, LenProperties
  <2> DEFINE appended == Append(ReviewStatus, "needs-review")
  <2>5. /\ appended \in Seq(Statuses) /\ Len(appended) = n + 1
        /\ DOMAIN appended = 1..(n + 1)
        /\ \A i \in 1..n : appended[i] = ReviewStatus[i]
        /\ appended[n + 1] = "needs-review"
    BY <2>4, AppendRow DEF Statuses
  <2>6. appended \in [1..(n + 1) -> Statuses]
    BY <2>5, LenProperties
  <2> HIDE DEF appended
  <2>7. \A i \in 1..(n + 1) : appended[i] = reviews'[i].status
    BY <1>4, <2>1, <2>5 DEF ReviewStatus
  <2>8. ReviewStatus' = appended
    BY <2>1, <2>6, <2>7 DEF ReviewStatus
  <2> QED
    BY <2>8 DEF appended
<1> QED
  BY <1>1, <1>3, <1>5 DEF StepOf

\* The log learns of the relink, the reviews do not.
LEMMA ComposeEffect ==
    ASSUME MemoryInv, NEW S \in SUBSET (DOMAIN evidence \cup {Unknown}), NEW ids \in Orders(S),
           ComposeEvidence(ids)
    PROVE  \E new : StepOf(new)
<1>1. ReviewStatus' = ReviewStatus
  BY DEF ComposeEvidence, ReviewStatus
<1>2. CASE UNCHANGED events
  BY <1>1, <1>2, SilentStep
<1>3. ASSUME NEW first \in DOMAIN ids, LinkedVoucher(ids[first]) # 0,
             events' = Append(events, RelinkEvent(LinkedVoucher(ids[first]), Len(packets) + 1))
      PROVE  \E new : StepOf(new)
  <2> DEFINE event == RelinkEvent(LinkedVoucher(ids[first]), Len(packets) + 1)
  <2>1. LinkedVoucher(ids[first]) \in Nat
    <3>1. ids[first] \in DOMAIN evidence \cup {Unknown}
      BY DEF Orders
    <3>2. Len(vouchers) \in Nat
      BY LenProperties DEF MemoryInv, TypeOK
    <3> QED
      BY <3>1, <3>2, LinkResolves
  <2>2. Len(packets) + 1 \in Nat
    BY LenProperties DEF MemoryInv, TypeOK
  <2>3. event \in Events
    BY <2>1, <2>2 DEF RelinkEvent, Events
  <2>4. ~ Decides(event) /\ ~ IsImport(event)
    BY QuietEvents, ImportFreeEvents
  <2> HIDE DEF event
  <2>5. events' = events \o << event >>
    BY <1>3, <2>3, ShortLogs DEF event, MemoryInv, TypeOK
  <2>6. StepOf(<< event >>)
    BY <1>1, <2>3, <2>4, <2>5, ShortLogs DEF StepOf
  <2> QED
    BY <2>6
<1> QED
  BY <1>2, <1>3 DEF ComposeEvidence

\* A refresh rewrites the suggestion and never the status.
LEMMA FinishEffect ==
    ASSUME MemoryInv, NEW r \in Requests, FinishExtractionRefresh(r)
    PROVE  \E new : StepOf(new)
<1> DEFINE v == refresh[r].voucher
           row == RefreshedVoucher(refresh[r].row, refresh[r].extraction)
           review == RefreshedReview(reviews[v], row.fields)
           new == RefreshEvents(v, row.fields)
<1>1. refresh[r] \in Suspended /\ refresh[r] # Idle
  BY DEF MemoryInv, TypeOK, FinishExtractionRefresh, Free
<1>2. v \in DOMAIN reviews /\ v \in Nat /\ reviews[v] \in Reviews
  <2>1. v \in DOMAIN vouchers
    BY <1>1 DEF MemoryInv, LinksOK
  <2>2. DOMAIN vouchers = DOMAIN reviews /\ DOMAIN reviews \subseteq Nat
    BY LenProperties DEF MemoryInv, TypeOK
  <2> QED
    BY <2>1, <2>2, LenProperties, ElementOfSeq DEF MemoryInv, TypeOK
<1>3. row \in Vouchers /\ review \in Reviews
  BY <1>1, <1>2, RefreshedRows DEF Suspended
<1>4. row.fields \in Fields
  BY <1>3 DEF Vouchers
<1>5. review.status = reviews[v].status
  BY <1>2 DEF RefreshedReview, Reviews
<1>6. \/ UNCHANGED <<reviews, events>>
      \/ reviews' = [reviews EXCEPT ![v] = review] /\ events' = events \o new
  BY DEF FinishExtractionRefresh
<1>7. new \in Seq(Events) /\ Quiet(new) /\ ImportFree(new)
  BY <1>2, <1>4, PlannedEvents, QuietEvents, ImportFreeEvents DEF Quiet
<1> HIDE DEF new, review, v, row
<1>8. ReviewStatus' = ReviewStatus
  BY <1>2, <1>3, <1>5, <1>6, SameStatus
<1>9. CASE UNCHANGED events
  BY <1>8, <1>9, SilentStep
<1>10. CASE events' = events \o new
  BY <1>7, <1>8, <1>10 DEF StepOf
<1> QED
  BY <1>6, <1>9, <1>10

\* An import appends what was never imported.
LEMMA ImportEffect ==
    ASSUME MemoryInv, NEW file \in SUBSET SieIds, ImportSie(file)
    PROVE  \E new : StepOf(new)
<1>1. PICK planned \in Orders(file \ Imported(events)) :
          /\ events' = events \o ImportedEvents(planned)
          /\ UNCHANGED reviews
  BY DEF ImportSie
<1> DEFINE new == ImportedEvents(planned)
<1>2. new \in Seq(Events)
  BY PlannedImports
<1>3. Quiet(new)
  <2>1. 1..Len(new) = DOMAIN new
    BY <1>2, LenProperties
  <2> QED
    BY <2>1 DEF ImportedEvents, Decides, Quiet
<1>4. ImportsFresh(new)
  BY DEF ImportsFresh
<1>5. ReviewStatus' = ReviewStatus
  BY <1>1 DEF ReviewStatus
<1> QED
  BY <1>1, <1>2, <1>3, <1>4, <1>5 DEF StepOf

\* A decision is the only step with a decision in it.
LEMMA DecisionEffect ==
    ASSUME MemoryInv, NEW v \in DOMAIN vouchers, NEW action \in Actions,
           NEW edit \in Edits \cup {NoEdit}, ApplyReviewDecision(v, action, edit)
    PROVE  \E new : StepOf(new)
<1> DEFINE new == DecisionEvents(v, vouchers[v], reviews[v], action, edit)
<1>1. /\ vouchers[v] \in Vouchers /\ v \in DOMAIN reviews /\ reviews[v] \in Reviews /\ v \in Nat
  BY LenProperties, ElementOfSeq DEF MemoryInv, TypeOK
<1>2. new \in Seq(Events) /\ ImportFree(new)
  BY <1>1, PlannedDecisionEvents, ImportFreeEvents
<1>3. DecisionOf(v, action, edit, new) /\ events' = events \o new
  BY DEF ApplyReviewDecision, DecisionOf
<1> QED
  BY <1>1, <1>2, <1>3 DEF StepOf

\* Every step appends something of this kind, perhaps nothing.
LEMMA StepEffect ==
    ASSUME MemoryInv, [Next]_vars
    PROVE  \E new : StepOf(new)
<1>1. ASSUME NEW hash \in Hashes \cup {NoHash}, NEW fields \in Fields,
             CreateEvidence(hash, fields)
      PROVE  \E new : StepOf(new)
  BY <1>1, CreateEffect
<1>2. ASSUME NEW S \in (SUBSET (DOMAIN evidence \cup {Unknown})) \ {{}}, NEW ids \in Orders(S),
             ComposeEvidence(ids)
      PROVE  \E new : StepOf(new)
  BY <1>2, ComposeEffect
<1>3. ASSUME NEW r \in Requests, NEW e \in DOMAIN evidence, NEW x \in Extractions,
             BeginExtractionRefresh(r, e, x)
      PROVE  \E new : StepOf(new)
  BY <1>3, SilentStep DEF BeginExtractionRefresh, ReviewStatus
<1>4. ASSUME NEW r \in Requests, FinishExtractionRefresh(r) PROVE \E new : StepOf(new)
  BY <1>4, FinishEffect
<1>5. ASSUME NEW file \in (SUBSET SieIds) \ {{}}, ImportSie(file) PROVE \E new : StepOf(new)
  BY <1>5, ImportEffect
<1>6. ASSUME NEW v \in DOMAIN vouchers, SuggestVoucher(v) PROVE \E new : StepOf(new)
  <2> DEFINE review == [reviews[v] EXCEPT !.suggestion = DeterministicSuggestion(vouchers[v].fields)]
  <2>1. /\ vouchers[v] \in Vouchers /\ v \in DOMAIN reviews /\ reviews[v] \in Reviews
    BY LenProperties, ElementOfSeq DEF MemoryInv, TypeOK
  <2>2. review \in Reviews /\ review.status = reviews[v].status
    BY <2>1 DEF Reviews, Vouchers, Suggestions, DeterministicSuggestion
  <2>3. /\ reviews' = [reviews EXCEPT ![v] = review] \/ reviews' = reviews
        /\ UNCHANGED events
    BY <1>6 DEF SuggestVoucher
  <2> HIDE DEF review
  <2> QED
    BY <2>1, <2>2, <2>3, SameStatus, SilentStep
<1>7. ASSUME NEW v \in DOMAIN vouchers, NEW action \in Actions,
             NEW edit \in Edits \cup {NoEdit}, ApplyReviewDecision(v, action, edit)
      PROVE  \E new : StepOf(new)
  BY <1>7, DecisionEffect
<1>8. CASE RunSimulation
  <2>1. SimulationEvent \in Events /\ ~ Decides(SimulationEvent) /\ ~ IsImport(SimulationEvent)
    BY DEF SimulationEvent, Events, Decides, IsImport
  <2>2. events' = events \o << SimulationEvent >>
    BY <1>8, <2>1, ShortLogs DEF RunSimulation, MemoryInv, TypeOK
  <2>3. ReviewStatus' = ReviewStatus
    BY <1>8 DEF RunSimulation, ReviewStatus
  <2>4. StepOf(<< SimulationEvent >>)
    BY <2>1, <2>2, <2>3, ShortLogs DEF StepOf
  <2> QED
    BY <2>4
<1>9. CASE UNCHANGED vars
  BY <1>9, SilentStep DEF vars, ReviewStatus
<1> QED
  BY <1>1, <1>2, <1>3, <1>4, <1>5, <1>6, <1>7, <1>8, <1>9 DEF Next

-----------------------------------------------------------------------------
(* The log explains the decisions.                                         *)

\* The reviews a step leaves alone, or adds.
LEMMA StatusesStay ==
    ASSUME MemoryInv, NEW n \in Nat, n = Len(reviews),
           \/ ReviewStatus' = ReviewStatus
           \/ ReviewStatus' = Append(ReviewStatus, "needs-review")
    PROVE  /\ DOMAIN reviews \subseteq DOMAIN reviews'
           /\ \A v \in DOMAIN reviews : reviews'[v].status = reviews[v].status
           /\ \A v \in DOMAIN reviews' \ DOMAIN reviews : reviews'[v].status = "needs-review"
<1>1. /\ DOMAIN reviews = 1..n /\ \A i \in 1..n : reviews[i] \in Reviews
  BY LenProperties, ElementOfSeq DEF MemoryInv, TypeOK
<1>2. ReviewStatus \in [1..n -> Statuses]
  BY <1>1 DEF ReviewStatus, Reviews
<1>3. ReviewStatus \in Seq(Statuses) /\ Len(ReviewStatus) = n
  <2>1. ReviewStatus \in Seq(Statuses)
    BY <1>2, SeqDef
  <2> QED
    BY <1>2, <2>1, LenProperties
<1> DEFINE appended == Append(ReviewStatus, "needs-review")
<1>4. /\ DOMAIN appended = 1..(n + 1)
      /\ \A i \in 1..n : appended[i] = ReviewStatus[i]
      /\ appended[n + 1] = "needs-review"
  BY <1>3, AppendRow DEF Statuses
<1> HIDE DEF appended
<1>5. /\ DOMAIN ReviewStatus' = DOMAIN reviews'
      /\ \A v \in DOMAIN reviews' : ReviewStatus'[v] = reviews'[v].status
      /\ \A v \in DOMAIN reviews : ReviewStatus[v] = reviews[v].status
  BY DEF ReviewStatus
<1>6. CASE ReviewStatus' = ReviewStatus
  BY <1>1, <1>2, <1>5, <1>6
<1>7. CASE ReviewStatus' = appended
  BY <1>1, <1>2, <1>4, <1>5, <1>7
<1> QED
  BY <1>6, <1>7 DEF appended

\* The reviews a decision changes.
LEMMA StatusesDecided ==
    ASSUME MemoryInv, NEW v \in DOMAIN reviews, NEW action \in Actions, NEW edit \in Edits \cup {NoEdit},
           NEW new, DecisionOf(v, action, edit, new)
    PROVE  /\ reviews' \in Seq(Reviews)
           /\ DOMAIN reviews' = DOMAIN reviews
           /\ reviews'[v].status = StatusForAction(action)
           /\ \A w \in DOMAIN reviews \ {v} : reviews'[w] = reviews[w]
<1>1. reviews \in Seq(Reviews) /\ reviews[v] \in Reviews
  BY LenProperties, ElementOfSeq DEF MemoryInv, TypeOK
<1>2. v \in DOMAIN vouchers /\ vouchers[v] \in Vouchers
  BY LenProperties, ElementOfSeq DEF MemoryInv, TypeOK
<1>3. DecidedReview(reviews[v], action, edit) \in Reviews
  BY <1>1, <1>2, DecidedRows
<1>4. DecidedReview(reviews[v], action, edit).status = StatusForAction(action)
  BY <1>1 DEF DecidedReview, Reviews
<1> QED
  BY <1>1, <1>3, <1>4, UpdateRow DEF DecisionOf

\* No event of the log is of a voucher that does not exist.
LEMMA UnbornIsSilent ==
    ASSUME MemoryInv, NEW v, v \notin DOMAIN reviews
    PROVE  \A i \in DOMAIN events : ~ IsPosting(events[i], v) /\ ~ IsDecision(events[i], v)
  BY DecidingEvents DEF MemoryInv, DecidedOnce, Settled

\* After the append the log still explains every review's status.
LEMMA StepExplains ==
    ASSUME MemoryInv, LogExplainsDecisions, NEW new, StepOf(new)
    PROVE  LogExplainsDecisions'
<1>1. /\ events \in Seq(Events) /\ new \in Seq(Events) /\ events' = events \o new
  BY DEF StepOf, MemoryInv, TypeOK
<1>2. \A v \in DOMAIN reviews : Explained(events, reviews[v].status, v)
  BY ExplainedEach DEF LogExplainsDecisions
<1>3. Len(reviews) \in Nat
  BY LenProperties DEF MemoryInv, TypeOK
<1>4. CASE /\ Quiet(new)
           /\ \/ ReviewStatus' = ReviewStatus
              \/ ReviewStatus' = Append(ReviewStatus, "needs-review")
  <2>1. ASSUME NEW v \in DOMAIN reviews'
        PROVE  Explained(events', reviews'[v].status, v)
    <3>1. Silent(new, v)
      BY <1>4, QuietIsSilent
    <3>2. CASE v \in DOMAIN reviews
      <4>1. reviews'[v].status = reviews[v].status
        BY <1>3, <1>4, <3>2, StatusesStay
      <4> QED
        BY <1>1, <1>2, <3>1, <3>2, <4>1, SilentExplained
    <3>3. CASE v \notin DOMAIN reviews
      <4>1. reviews'[v].status = "needs-review"
        BY <1>3, <1>4, <2>1, <3>3, StatusesStay
      <4>2. Explained(events, "needs-review", v)
        BY <3>3, UnbornIsSilent, UnknownIsOpen
      <4> QED
        BY <1>1, <3>1, <4>1, <4>2, SilentExplained
    <3> QED
      BY <3>2, <3>3
  <2> QED
    BY <2>1, ExplainedEach DEF LogExplainsDecisions
<1>5. ASSUME NEW v \in DOMAIN reviews, NEW action \in Actions, NEW edit \in Edits \cup {NoEdit},
             DecisionOf(v, action, edit, new)
      PROVE  LogExplainsDecisions'
  <2>1. new = DecisionEvents(v, vouchers[v], reviews[v], action, edit)
    BY <1>5 DEF DecisionOf
  <2>2. Explained(events, "needs-review", v)
    BY <1>2, <1>5 DEF DecisionOf
  <2>3. Explained(events', StatusForAction(action), v)
    BY <1>1, <2>1, <2>2, DecisionAppended
  <2>4. ASSUME NEW w \in DOMAIN reviews \ {v}
        PROVE  Explained(events', reviews'[w].status, w)
    <3>1. Silent(new, w)
      BY <2>1, DecisionOfOne
    <3> QED
      BY <1>1, <1>2, <1>5, <3>1, SilentExplained, StatusesDecided
  <2>5. \A w \in DOMAIN reviews' : Explained(events', reviews'[w].status, w)
    BY <1>5, <2>3, <2>4, StatusesDecided
  <2> QED
    BY <2>5, ExplainedEach DEF LogExplainsDecisions
<1> QED
  BY <1>4, <1>5 DEF StepOf

\* What the initial state holds: one open voucher, four events.
LEMMA InitialLog ==
    ASSUME Init
    PROVE  /\ events \in Seq(Events)
           /\ \A i \in DOMAIN events : ~ Decides(events[i]) /\ ~ IsImport(events[i])
           /\ \E seed \in Fields : /\ vouchers = << CreatedVoucher(1, seed) >>
                                   /\ reviews = << CreatedReview(seed) >>
<1>1. PICK seed \in [Keys -> Values] :
          /\ vouchers = << CreatedVoucher(1, seed) >>
          /\ reviews = << CreatedReview(seed) >>
          /\ events = CreateEvents(1, 1, 1, seed)
  BY DEF Init
<1>2. seed \in Fields
  BY DEF Fields
<1>3. events \in Seq(Events)
  BY <1>1, <1>2, PlannedEvents
<1>4. Quiet(events) /\ ImportFree(events)
  BY <1>1, QuietEvents, ImportFreeEvents DEF Quiet
<1> QED
  BY <1>1, <1>2, <1>3, <1>4, LenProperties DEF Quiet, ImportFree

\* The log alone tells what was decided, in every interleaving: a decision and
\* its posting are neighbours, and each is of a review that shows it.
THEOREM MemoryLogExplains == Spec => []LogExplainsDecisions
<1>1. Init => LogExplainsDecisions
  <2> SUFFICES ASSUME Init PROVE LogExplainsDecisions
    OBVIOUS
  <2>1. \A i \in DOMAIN events : ~ Decides(events[i])
    BY InitialLog
  <2>2. \A v : Explained(events, "needs-review", v)
    BY <2>1, DecidingEvents, UnknownIsOpen
  <2>3. \A v \in DOMAIN reviews : reviews[v].status = "needs-review"
    <3>1. PICK seed \in Fields : reviews = << CreatedReview(seed) >>
      BY InitialLog
    <3> QED
      BY <3>1 DEF CreatedReview
  <2> QED
    BY <2>2, <2>3, ExplainedEach DEF LogExplainsDecisions
<1>2. MemoryInv /\ LogExplainsDecisions /\ [Next]_vars => LogExplainsDecisions'
  BY StepEffect, StepExplains
<1> QED
  BY <1>1, <1>2, MemoryInvariant, PTL DEF Spec

-----------------------------------------------------------------------------
(* Nothing is stored or imported twice.                                    *)

\* After the append no SIE voucher is imported twice.
LEMMA StepImportsOnce ==
    ASSUME MemoryInv, ImportedOnce, NEW new, StepOf(new)
    PROVE  ImportedOnce'
<1>1. events \in Seq(Events) /\ new \in Seq(Events) /\ events' = events \o new
  BY DEF StepOf, MemoryInv, TypeOK
<1>2. CASE ImportFree(new)
  BY <1>1, <1>2, ImportFreeOnce, ConcatImportsOnce DEF ImportedOnce, ImportFree
<1>3. CASE ImportsFresh(new)
  <2>1. PICK file \in SUBSET SieIds :
            \E planned \in Orders(file \ Imported(events)) : new = ImportedEvents(planned)
    BY <1>3 DEF ImportsFresh
  <2>2. PICK planned \in Orders(file \ Imported(events)) : new = ImportedEvents(planned)
    BY <2>1
  <2> QED
    BY <1>1, <2>2, PlannedImportsOnce, ConcatImportsOnce DEF ImportedOnce
<1> QED
  BY <1>2, <1>3 DEF StepOf

\* Every evidence object leads to a voucher: a compose takes one over from the
\* evidence it regroups.
LinksLive == \A e \in DOMAIN evidence : ContextVoucher(e) # 0

\* A stored content resolves, and none is stored twice.
UploadsOnce == LinksLive /\ ContentStoredOnce

\* The upload of a content that is stored already finds it.
LEMMA CreateStoresOnce ==
    ASSUME MemoryInv, UploadsOnce, NEW hash \in Hashes \cup {NoHash}, NEW fields \in Fields,
           CreateEvidence(hash, fields)
    PROVE  UploadsOnce'
<1> DEFINE n == Len(evidence)
           m == Len(packets)
           pk == [evidence |-> {n + 1}, voucher |-> n + 1]
<1>1. /\ evidence \in Seq(Hashes \cup {NoHash}) /\ packetOf \in Seq(Nat)
      /\ packets \in Seq(Packets) /\ Len(packetOf) = n /\ Len(vouchers) = n
      /\ n \in Nat /\ m \in Nat /\ m + 1 \in Nat /\ n + 1 \in Nat /\ pk \in Packets
      /\ DOMAIN vouchers = 1..n
  BY LenProperties DEF MemoryInv, TypeOK, Packets
<1>2. /\ evidence' = Append(evidence, hash)
      /\ packetOf' = Append(packetOf, m + 1)
      /\ packets' = Append(packets, pk)
  BY <1>1 DEF CreateEvidence
<1> HIDE DEF n, m
<1>3. /\ DOMAIN evidence = 1..n /\ DOMAIN evidence' = 1..(n + 1)
      /\ \A e \in 1..n : evidence'[e] = evidence[e]
      /\ evidence'[n + 1] = hash
  BY <1>1, <1>2, AppendRow DEF n
<1>4. /\ \A e \in 1..n : packetOf'[e] = packetOf[e]
      /\ packetOf'[n + 1] = m + 1
      /\ DOMAIN packetOf = 1..n
  BY <1>1, <1>2, AppendRow DEF m
<1> HIDE DEF pk
<1>5. /\ DOMAIN packets = 1..m
      /\ \A p \in 1..m : packets'[p] = packets[p]
      /\ packets'[m + 1] = pk
  BY <1>1, <1>2, AppendRow DEF m
<1>6. \A e \in 1..n : packetOf[e] \in 1..m
  BY <1>4, <1>5 DEF MemoryInv, LinksOK
<1>7. LinksLive'
  <2> SUFFICES ASSUME NEW e \in 1..(n + 1)
               PROVE  packets'[packetOf'[e]].voucher # 0
    BY <1>3 DEF LinksLive, ContextVoucher
  <2>1. CASE e \in 1..n
    BY <1>3, <1>4, <1>5, <1>6, <2>1 DEF UploadsOnce, LinksLive, ContextVoucher
  <2>2. CASE e = n + 1
    <3>1. pk.voucher = n + 1
      BY DEF pk
    <3> QED
      BY <1>1, <1>4, <1>5, <2>2, <3>1
  <2> QED
    BY <1>1, <2>1, <2>2
<1>8. ASSUME NEW e \in 1..n, hash # NoHash PROVE evidence[e] # hash
  <2>1. ContextVoucher(e) # 0
    BY <1>3 DEF UploadsOnce, LinksLive
  <2>2. ContextVoucher(e) \in DOMAIN vouchers
    <3>1. packets[packetOf[e]].voucher \in 0..Len(vouchers)
      BY <1>5, <1>6 DEF MemoryInv, LinksOK
    <3> QED
      BY <1>1, <2>1, <3>1 DEF ContextVoucher
  <2> QED
    BY <1>3, <1>8, <2>2 DEF CreateEvidence, IsDuplicate
<1>9. ContentStoredOnce'
  <2> SUFFICES ASSUME NEW d \in 1..(n + 1), NEW e \in 1..(n + 1),
                      evidence'[d] = evidence'[e], evidence'[d] # NoHash
               PROVE  d = e
    BY <1>3 DEF ContentStoredOnce
  <2>1. CASE d \in 1..n /\ e \in 1..n
    BY <1>3, <2>1 DEF UploadsOnce, ContentStoredOnce
  <2>2. CASE d \in 1..n /\ e = n + 1
    BY <1>3, <1>8, <2>2
  <2>3. CASE d = n + 1 /\ e \in 1..n
    BY <1>3, <1>8, <2>3
  <2> QED
    BY <1>1, <2>1, <2>2, <2>3
<1> QED
  BY <1>7, <1>9 DEF UploadsOnce

\* The packet of a compose takes over a voucher as soon as one of its ids is
\* evidence.
LEMMA ComposeStoresOnce ==
    ASSUME MemoryInv, UploadsOnce, NEW S \in SUBSET (DOMAIN evidence \cup {Unknown}),
           NEW ids \in Orders(S), ComposeEvidence(ids)
    PROVE  UploadsOnce'
<1> DEFINE m == Len(packets)
           items == {ids[i] : i \in DOMAIN ids}
           Linked == {i \in DOMAIN ids : LinkedVoucher(ids[i]) # 0}
<1>1. /\ packets \in Seq(Packets) /\ m \in Nat /\ m + 1 \in Nat
      /\ DOMAIN evidence = DOMAIN packetOf /\ DOMAIN evidence \subseteq Nat \ {0}
      /\ evidence' = evidence
  BY LenProperties DEF MemoryInv, TypeOK, ComposeEvidence
<1>2. packetOf' = [e \in DOMAIN packetOf |-> IF e \in items THEN m + 1 ELSE packetOf[e]]
  BY DEF ComposeEvidence
<1>3. PICK v \in Nat :
          /\ packets' = Append(packets, ComposedPacket(items, v))
          /\ v = 0 => Linked = {}
  <2>1. CASE Linked = {} /\ packets' = Append(packets, ComposedPacket(items, 0))
    BY <2>1
  <2>2. ASSUME NEW first \in Linked,
               packets' = Append(packets, ComposedPacket(items, LinkedVoucher(ids[first])))
        PROVE  \E v \in Nat : /\ packets' = Append(packets, ComposedPacket(items, v))
                              /\ v = 0 => Linked = {}
    <3>1. ids[first] \in DOMAIN evidence \cup {Unknown}
      BY DEF Orders
    <3>2. LinkedVoucher(ids[first]) \in 0..Len(vouchers) /\ Len(vouchers) \in Nat
      BY <3>1, LinkResolves, LenProperties DEF MemoryInv, TypeOK
    <3>3. LinkedVoucher(ids[first]) # 0
      OBVIOUS
    <3> QED
      BY <2>2, <3>2, <3>3
  <2> QED
    BY <2>1, <2>2 DEF ComposeEvidence
<1> DEFINE pk == ComposedPacket(items, v)
<1>4. items \subseteq Nat
  BY <1>1 DEF Orders, Unknown
<1>5. pk \in Packets /\ pk.voucher = v
  BY <1>4 DEF ComposedPacket, Packets
<1> HIDE DEF pk
<1>6. /\ DOMAIN packets = 1..m
      /\ \A p \in 1..m : packets'[p] = packets[p]
      /\ packets'[m + 1] = pk
  BY <1>1, <1>3, <1>5, AppendRow DEF pk
<1> HIDE DEF m
<1>7. LinksLive'
  <2> SUFFICES ASSUME NEW e \in DOMAIN evidence
               PROVE  packets'[packetOf'[e]].voucher # 0
    BY <1>1 DEF LinksLive, ContextVoucher
  <2>1. ContextVoucher(e) # 0
    BY DEF UploadsOnce, LinksLive
  <2>2. CASE e \in items
    <3>1. e # Unknown
      BY <1>1 DEF Unknown
    <3>2. LinkedVoucher(e) # 0
      BY <2>1, <3>1 DEF LinkedVoucher
    <3>3. v # 0
      BY <1>3, <2>2, <3>2
    <3> QED
      BY <1>1, <1>2, <1>5, <1>6, <2>2, <3>3
  <2>3. CASE e \notin items
    <3>1. packetOf[e] \in 1..m
      BY <1>1, <1>6 DEF MemoryInv, LinksOK
    <3> QED
      BY <1>1, <1>2, <1>6, <2>1, <2>3, <3>1 DEF ContextVoucher
  <2> QED
    BY <2>2, <2>3
<1> QED
  BY <1>1, <1>7 DEF UploadsOnce, ContentStoredOnce

\* The same content is never stored as two evidence objects and the same SIE
\* voucher never imported twice, whatever composes rewrote in between.
THEOREM MemoryStoresOnce == Spec => []StoredOnce
<1>1. Init => UploadsOnce /\ ImportedOnce
  <2> SUFFICES ASSUME Init PROVE UploadsOnce /\ ImportedOnce
    OBVIOUS
  <2>1. UploadsOnce
    BY DEF Init, UploadsOnce, LinksLive, ContentStoredOnce, ContextVoucher
  <2>2. ImportedOnce
    BY InitialLog DEF ImportedOnce, ImportsOnce
  <2> QED
    BY <2>1, <2>2
<1>2. MemoryInv /\ UploadsOnce /\ [Next]_vars => UploadsOnce'
  <2> SUFFICES ASSUME MemoryInv, UploadsOnce, [Next]_vars PROVE UploadsOnce'
    OBVIOUS
  <2>1. ASSUME UNCHANGED <<evidence, packetOf, packets>> PROVE UploadsOnce'
    BY <2>1 DEF UploadsOnce, LinksLive, ContentStoredOnce, ContextVoucher
  <2>2. ASSUME NEW hash \in Hashes \cup {NoHash}, NEW fields \in Fields,
               CreateEvidence(hash, fields)
        PROVE  UploadsOnce'
    BY <2>2, CreateStoresOnce
  <2>3. ASSUME NEW S \in (SUBSET (DOMAIN evidence \cup {Unknown})) \ {{}}, NEW ids \in Orders(S),
               ComposeEvidence(ids)
        PROVE  UploadsOnce'
    BY <2>3, ComposeStoresOnce
  <2>4. ASSUME NEW r \in Requests, NEW e \in DOMAIN evidence, NEW x \in Extractions,
               BeginExtractionRefresh(r, e, x)
        PROVE  UploadsOnce'
    BY <2>1, <2>4 DEF BeginExtractionRefresh
  <2>5. ASSUME NEW r \in Requests, FinishExtractionRefresh(r) PROVE UploadsOnce'
    BY <2>1, <2>5 DEF FinishExtractionRefresh
  <2>6. ASSUME NEW file \in (SUBSET SieIds) \ {{}}, ImportSie(file) PROVE UploadsOnce'
    BY <2>1, <2>6 DEF ImportSie
  <2>7. ASSUME NEW v \in DOMAIN vouchers, SuggestVoucher(v) PROVE UploadsOnce'
    BY <2>1, <2>7 DEF SuggestVoucher
  <2>8. ASSUME NEW v \in DOMAIN vouchers, NEW action \in Actions,
               NEW edit \in Edits \cup {NoEdit}, ApplyReviewDecision(v, action, edit)
        PROVE  UploadsOnce'
    BY <2>1, <2>8 DEF ApplyReviewDecision
  <2>9. CASE RunSimulation
    BY <2>1, <2>9 DEF RunSimulation
  <2>10. CASE UNCHANGED vars
    BY <2>1, <2>10 DEF vars
  <2> QED
    BY <2>2, <2>3, <2>4, <2>5, <2>6, <2>7, <2>8, <2>9, <2>10 DEF Next
<1>3. MemoryInv /\ ImportedOnce /\ [Next]_vars => ImportedOnce'
  BY StepEffect, StepImportsOnce
<1>4. UploadsOnce /\ ImportedOnce => StoredOnce
  BY DEF UploadsOnce, StoredOnce
<1> QED
  BY <1>1, <1>2, <1>3, <1>4, MemoryInvariant, PTL DEF Spec

-----------------------------------------------------------------------------
(* A blocked review is not approved.                                       *)

\* An open review shows the suggestion and the blockedReason of the fields its
\* voucher has now: whatever writes the fields writes the review with them.
FreshReviews ==
    \A v \in DOMAIN reviews : reviews[v].status = "needs-review" =>
        /\ reviews[v].suggestion = DeterministicSuggestion(vouchers[v].fields)
        /\ reviews[v].blocked <=> Blocking(vouchers[v].fields)

\* What one review and its voucher must show.
FreshRow(row, review) ==
    review.status = "needs-review" =>
        /\ review.suggestion = DeterministicSuggestion(row.fields)
        /\ review.blocked <=> Blocking(row.fields)

\* Steps that write at most the rows of v.
LEMMA RowFresh ==
    ASSUME MemoryInv, FreshReviews, NEW v \in DOMAIN vouchers, NEW row \in Vouchers, NEW review \in Reviews,
           vouchers' = [vouchers EXCEPT ![v] = row] \/ (vouchers' = vouchers /\ row = vouchers[v]),
           reviews' = [reviews EXCEPT ![v] = review] \/ (reviews' = reviews /\ review = reviews[v]),
           FreshRow(row, review)
    PROVE  FreshReviews'
<1>1. /\ vouchers \in Seq(Vouchers) /\ reviews \in Seq(Reviews)
      /\ DOMAIN vouchers = DOMAIN reviews
  BY LenProperties DEF MemoryInv, TypeOK
<1>2. DOMAIN reviews' = DOMAIN reviews
  BY <1>1, UpdateRow
<1>3. vouchers'[v] = row /\ reviews'[v] = review
  BY <1>1, UpdateRow
<1>4. \A w \in DOMAIN reviews \ {v} : vouchers'[w] = vouchers[w] /\ reviews'[w] = reviews[w]
  BY <1>1, UpdateRow
<1>5. ASSUME NEW w \in DOMAIN reviews' PROVE FreshRow(vouchers'[w], reviews'[w])
  <2>1. CASE w = v
    BY <1>3, <2>1
  <2>2. CASE w # v
    <3>1. FreshRow(vouchers[w], reviews[w])
      BY <1>2 DEF FreshReviews, FreshRow
    <3> QED
      BY <1>2, <1>4, <2>2, <3>1
  <2> QED
    BY <2>1, <2>2
<1> QED
  BY <1>5 DEF FreshReviews, FreshRow

\* A voucher is born with the suggestion and the blockedReason of its fields.
LEMMA CreateFresh ==
    ASSUME MemoryInv, FreshReviews, NEW hash \in Hashes \cup {NoHash}, NEW fields \in Fields,
           CreateEvidence(hash, fields)
    PROVE  FreshReviews'
<1> DEFINE n == Len(vouchers)
           p == Len(packets) + 1
           row == CreatedVoucher(p, fields)
           review == CreatedReview(fields)
<1>1. /\ vouchers \in Seq(Vouchers) /\ reviews \in Seq(Reviews) /\ Len(reviews) = n
      /\ vouchers' = Append(vouchers, row) /\ reviews' = Append(reviews, review)
      /\ p \in Nat
  BY LenProperties DEF MemoryInv, TypeOK, CreateEvidence
<1>2. row \in Vouchers /\ review \in Reviews
  BY <1>1, CreatedRows
<1>3. FreshRow(row, review)
  BY DEF FreshRow, CreatedVoucher, CreatedReview
<1> HIDE DEF row, review
<1>4. /\ n \in Nat /\ DOMAIN reviews = 1..n /\ DOMAIN reviews' = 1..(n + 1)
      /\ \A v \in 1..n : vouchers'[v] = vouchers[v] /\ reviews'[v] = reviews[v]
      /\ vouchers'[n + 1] = row /\ reviews'[n + 1] = review
  BY <1>1, <1>2, AppendRow
<1> HIDE DEF n
<1>5. ASSUME NEW w \in DOMAIN reviews' PROVE FreshRow(vouchers'[w], reviews'[w])
  <2>1. CASE w \in 1..n
    <3>1. FreshRow(vouchers[w], reviews[w])
      BY <1>4, <2>1 DEF FreshReviews, FreshRow
    <3> QED
      BY <1>4, <2>1, <3>1
  <2>2. CASE w = n + 1
    BY <1>3, <1>4, <2>2
  <2> QED
    BY <1>4, <2>1, <2>2
<1> QED
  BY <1>5 DEF FreshReviews, FreshRow

\* A relink moves the voucher to another packet.
LEMMA ComposeFresh ==
    ASSUME MemoryInv, FreshReviews, NEW S \in SUBSET (DOMAIN evidence \cup {Unknown}),
           NEW ids \in Orders(S), ComposeEvidence(ids)
    PROVE  FreshReviews'
<1>1. reviews' = reviews
  BY DEF ComposeEvidence
<1>2. CASE UNCHANGED vouchers
  BY <1>1, <1>2 DEF FreshReviews
<1>3. ASSUME NEW v \in Nat, vouchers' = Relinked(v, Len(packets) + 1) PROVE FreshReviews'
  <2>1. \A w \in DOMAIN vouchers : vouchers'[w].fields = vouchers[w].fields
    <3> TAKE w \in DOMAIN vouchers
    <3>1. vouchers[w] \in Vouchers
      BY LenProperties, ElementOfSeq DEF MemoryInv, TypeOK
    <3> QED
      BY <1>3, <3>1 DEF Relinked, Vouchers
  <2>2. DOMAIN vouchers = DOMAIN reviews
    BY LenProperties DEF MemoryInv, TypeOK
  <2> QED
    BY <1>1, <2>1, <2>2 DEF FreshReviews
<1>4. ASSUME NEW first \in DOMAIN ids, LinkedVoucher(ids[first]) # 0,
             vouchers' = Relinked(LinkedVoucher(ids[first]), Len(packets) + 1)
      PROVE  FreshReviews'
  <2>1. ids[first] \in DOMAIN evidence \cup {Unknown}
    BY DEF Orders
  <2>2. LinkedVoucher(ids[first]) \in Nat
    BY <2>1, LinkResolves, LenProperties DEF MemoryInv, TypeOK
  <2> QED
    BY <1>3, <1>4, <2>2
<1> QED
  BY <1>2, <1>4 DEF ComposeEvidence

\* The continuation writes the fields and what follows from them together.
LEMMA FinishFresh ==
    ASSUME MemoryInv, FreshReviews, NEW r \in Requests, FinishExtractionRefresh(r)
    PROVE  FreshReviews'
<1> DEFINE v == refresh[r].voucher
           row == RefreshedVoucher(refresh[r].row, refresh[r].extraction)
           review == RefreshedReview(reviews[v], row.fields)
<1>1. refresh[r] \in Suspended /\ refresh[r] # Idle
  BY DEF MemoryInv, TypeOK, FinishExtractionRefresh, Free
<1>2. v \in DOMAIN vouchers /\ reviews[v] \in Reviews
  <2>1. v \in DOMAIN vouchers
    BY <1>1 DEF MemoryInv, LinksOK
  <2> QED
    BY <2>1, LenProperties, ElementOfSeq DEF MemoryInv, TypeOK
<1>3. row \in Vouchers /\ review \in Reviews
  BY <1>1, <1>2, RefreshedRows DEF Suspended
<1>4. FreshRow(row, review)
  BY <1>2, <1>3 DEF FreshRow, RefreshedReview, Reviews
<1>5. \/ UNCHANGED <<vouchers, reviews>>
      \/ /\ vouchers' = [vouchers EXCEPT ![v] = row]
         /\ reviews' = [reviews EXCEPT ![v] = review]
  BY DEF FinishExtractionRefresh
<1> HIDE DEF v, row, review
<1>6. CASE UNCHANGED <<vouchers, reviews>>
  BY <1>6 DEF FreshReviews
<1> QED
  BY <1>2, <1>3, <1>4, <1>5, <1>6, RowFresh

\* An open review follows the fields of its voucher through every step.
LEMMA ReviewsStayFresh ==
    ASSUME MemoryInv, FreshReviews, [Next]_vars
    PROVE  FreshReviews'
<1>1. ASSUME NEW v \in DOMAIN vouchers
      PROVE  vouchers[v] \in Vouchers /\ reviews[v] \in Reviews
  BY LenProperties, ElementOfSeq DEF MemoryInv, TypeOK
<1>2. ASSUME UNCHANGED <<vouchers, reviews>> PROVE FreshReviews'
  BY <1>2 DEF FreshReviews
<1>3. ASSUME NEW hash \in Hashes \cup {NoHash}, NEW fields \in Fields,
             CreateEvidence(hash, fields)
      PROVE  FreshReviews'
  BY <1>3, CreateFresh
<1>4. ASSUME NEW S \in (SUBSET (DOMAIN evidence \cup {Unknown})) \ {{}}, NEW ids \in Orders(S),
             ComposeEvidence(ids)
      PROVE  FreshReviews'
  BY <1>4, ComposeFresh
<1>5. ASSUME NEW r \in Requests, NEW e \in DOMAIN evidence, NEW x \in Extractions,
             BeginExtractionRefresh(r, e, x)
      PROVE  FreshReviews'
  BY <1>2, <1>5 DEF BeginExtractionRefresh
<1>6. ASSUME NEW r \in Requests, FinishExtractionRefresh(r) PROVE FreshReviews'
  BY <1>6, FinishFresh
<1>7. ASSUME NEW file \in (SUBSET SieIds) \ {{}}, ImportSie(file) PROVE FreshReviews'
  BY <1>2, <1>7 DEF ImportSie
<1>8. ASSUME NEW v \in DOMAIN vouchers, SuggestVoucher(v) PROVE FreshReviews'
  <2> DEFINE review == [reviews[v] EXCEPT !.suggestion = DeterministicSuggestion(vouchers[v].fields)]
  <2>1. CASE /\ reviews[v].status = "needs-review" /\ reviews' = [reviews EXCEPT ![v] = review]
             /\ UNCHANGED vouchers
    <3>1. review \in Reviews
      BY <1>1 DEF Reviews, Vouchers, Suggestions, DeterministicSuggestion
    <3>2. v \in DOMAIN reviews
      BY LenProperties DEF MemoryInv, TypeOK
    <3>3. FreshRow(vouchers[v], review)
      BY <1>1, <2>1, <3>2 DEF FreshRow, FreshReviews, Reviews
    <3> HIDE DEF review
    <3> QED
      BY <1>1, <2>1, <3>1, <3>3, RowFresh
  <2> QED
    BY <1>2, <1>8, <2>1 DEF SuggestVoucher
<1>9. ASSUME NEW v \in DOMAIN vouchers, NEW action \in Actions,
             NEW edit \in Edits \cup {NoEdit}, ApplyReviewDecision(v, action, edit)
      PROVE  FreshReviews'
  <2> DEFINE review == DecidedReview(reviews[v], action, edit)
             row == DecidedVoucher(vouchers[v], action)
  <2>1. /\ row \in Vouchers /\ review \in Reviews
        /\ StatusForAction(action) # "needs-review"
    BY <1>1, DecidedRows
  <2>2. FreshRow(row, review)
    BY <1>1, <2>1 DEF FreshRow, DecidedReview, Reviews
  <2>3. vouchers' = [vouchers EXCEPT ![v] = row] /\ reviews' = [reviews EXCEPT ![v] = review]
    BY <1>9 DEF ApplyReviewDecision
  <2> HIDE DEF row, review
  <2> QED
    BY <2>1, <2>2, <2>3, RowFresh
<1>10. CASE RunSimulation
  BY <1>2, <1>10 DEF RunSimulation
<1>11. CASE UNCHANGED vars
  BY <1>2, <1>11 DEF vars
<1> QED
  BY <1>3, <1>4, <1>5, <1>6, <1>7, <1>8, <1>9, <1>10, <1>11 DEF Next

\* An approval that is refused posts nothing; one that is not was not blocked.
LEMMA StepPostsUnblocked ==
    ASSUME MemoryInv, FreshReviews, NoBlockedApproval, NEW new, StepOf(new)
    PROVE  NoBlockedApproval'
<1> SUFFICES ASSUME EnforceBlockedReason, NEW i \in DOMAIN events',
                    events'[i].type = "PostedToLedger", events'[i].action = "approve"
             PROVE  ~ Blocking(events'[i].suggestion.fields)
  BY DEF NoBlockedApproval
<1> DEFINE m == Len(events)
           n == Len(new)
<1>1. /\ events \in Seq(Events) /\ new \in Seq(Events) /\ events' = events \o new
  BY DEF StepOf, MemoryInv, TypeOK
<1>2. /\ DOMAIN events = 1..m
      /\ \A j \in 1..m : events'[j] = events[j]
      /\ i \in 1..m \/ (i - m \in 1..n /\ events'[i] = new[i - m])
  BY <1>1, ConcatPlaces
<1> HIDE DEF m, n
<1>3. CASE i \in 1..m
  BY <1>2, <1>3 DEF NoBlockedApproval
<1>4. CASE i - m \in 1..n /\ events'[i] = new[i - m]
  <2>1. Decides(new[i - m])
    BY <1>4 DEF Decides
  <2>2. ~ Quiet(new)
    BY <1>4, <2>1 DEF Quiet, n
  <2>3. PICK v \in DOMAIN reviews, action \in Actions, edit \in Edits \cup {NoEdit} :
            DecisionOf(v, action, edit, new)
    BY <2>2 DEF StepOf
  <2>4. reviews[v] \in Reviews /\ vouchers[v] \in Vouchers
    BY LenProperties, ElementOfSeq DEF MemoryInv, TypeOK
  <2>5. new = DecisionEvents(v, vouchers[v], reviews[v], action, edit)
    BY <2>3 DEF DecisionOf
  <2>6. CASE action = "reject"
    <3>1. n = 1 /\ new[1].type = "ReviewDecided"
      BY <2>5, <2>6 DEF DecisionEvents, DecisionEvent, n
    <3>2. i - m = 1
      BY <1>4, <3>1
    <3> QED
      BY <1>4, <3>1, <3>2
  <2>7. CASE action # "reject"
    <3> DEFINE posting == PostingEvent(v, vouchers[v], reviews[v], action, edit)
    <3>1. n = 2 /\ new[1].type = "ReviewDecided" /\ new[2] = posting
      BY <2>5, <2>7 DEF DecisionEvents, DecisionEvent, n
    <3> HIDE DEF posting
    <3>2. i - m = 2
      BY <1>4, <3>1
    <3>3. events'[i] = posting
      BY <1>4, <3>1, <3>2
    <3>4. action = "approve"
      BY <3>3 DEF posting, PostingEvent
    <3>5. ~ reviews[v].blocked
      BY <2>3, <3>4 DEF DecisionOf, ReviewBlocked
    <3>6. ~ Blocking(vouchers[v].fields) /\ reviews[v].suggestion.fields = vouchers[v].fields
      <4>1. /\ reviews[v].suggestion = DeterministicSuggestion(vouchers[v].fields)
            /\ reviews[v].blocked <=> Blocking(vouchers[v].fields)
        BY <2>3, Zenon DEF FreshReviews, DecisionOf
      <4>2. ~ Blocking(vouchers[v].fields)
        BY <3>5, <4>1, Zenon
      <4> QED
        BY <4>1, <4>2, SMT DEF DeterministicSuggestion
    <3>7. posting.suggestion.fields = reviews[v].suggestion.fields
      BY <2>4 DEF posting, PostingEvent, PostingSuggestion, Reviews, Suggestions
    <3> QED
      BY <3>3, <3>6, <3>7
  <2> QED
    BY <2>6, <2>7
<1> QED
  BY <1>2, <1>3, <1>4

\* blockedReason and the suggestion are never stale when they are tested.
LEMMA MemoryReviewsFresh == Spec => []FreshReviews
<1>1. Init => FreshReviews
  <2> SUFFICES ASSUME Init PROVE FreshReviews
    OBVIOUS
  <2>1. PICK seed \in Fields : vouchers = << CreatedVoucher(1, seed) >> /\ reviews = << CreatedReview(seed) >>
    BY InitialLog
  <2> QED
    BY <2>1 DEF FreshReviews, CreatedVoucher, CreatedReview
<1>2. MemoryInv /\ FreshReviews /\ [Next]_vars => FreshReviews'
  BY ReviewsStayFresh
<1> QED
  BY <1>1, <1>2, MemoryInvariant, PTL DEF Spec

\* In normal mode nothing is approved whose suggestion still misses mandatory
\* data: applyReviewDecision tests a blockedReason that is never stale.
THEOREM MemoryApprovesUnblocked == Spec => []NoBlockedApproval
<1>1. Init => NoBlockedApproval
  BY InitialLog DEF NoBlockedApproval, Decides
<1>2. MemoryInv /\ FreshReviews /\ NoBlockedApproval /\ [Next]_vars => NoBlockedApproval'
  BY StepEffect, StepPostsUnblocked
<1> QED
  BY <1>1, <1>2, MemoryInvariant, MemoryReviewsFresh, PTL DEF Spec

-----------------------------------------------------------------------------
(* The store implements the posting book.                                  *)

\* The book as the store keeps it.
BookPostings == [v \in DOMAIN vouchers |-> Postings(events, v)]

\* The book's two sequences have an entry for every voucher.
LEMMA BookTypes ==
    ASSUME MemoryInv
    PROVE  /\ Len(reviews) \in Nat
           /\ DOMAIN vouchers = 1..Len(reviews) /\ DOMAIN reviews = 1..Len(reviews)
           /\ ReviewStatus \in Seq(Statuses) /\ Len(ReviewStatus) = Len(reviews)
           /\ BookPostings \in Seq(SUBSET Nat) /\ Len(BookPostings) = Len(reviews)
           /\ DOMAIN ReviewStatus = 1..Len(reviews) /\ DOMAIN BookPostings = 1..Len(reviews)
<1> DEFINE n == Len(reviews)
<1>1. /\ n \in Nat /\ DOMAIN vouchers = 1..n /\ DOMAIN reviews = 1..n
      /\ \A v \in 1..n : reviews[v] \in Reviews
      /\ DOMAIN events \subseteq Nat
  BY LenProperties, ElementOfSeq DEF MemoryInv, TypeOK
<1> HIDE DEF n
<1>2. ReviewStatus \in [1..n -> Statuses] /\ BookPostings \in [1..n -> SUBSET Nat]
  BY <1>1 DEF ReviewStatus, BookPostings, Reviews, Postings
<1>3. ReviewStatus \in Seq(Statuses) /\ BookPostings \in Seq(SUBSET Nat)
  BY <1>1, <1>2, SeqDef
<1>4. Len(ReviewStatus) = n /\ Len(BookPostings) = n
  BY <1>1, <1>2, <1>3, LenProperties
<1> QED
  BY <1>1, <1>2, <1>3, <1>4 DEF n

\* Every posting so far is at a place of the log.
LEMMA BookPlaces ==
    ASSUME MemoryInv, NEW v \in DOMAIN BookPostings, NEW at \in BookPostings[v]
    PROVE  at \in 1..Len(events)
  BY LenProperties DEF BookPostings, Postings, MemoryInv, TypeOK

\* A quiet step leaves the postings of the vouchers that exist.
LEMMA QuietPostings ==
    ASSUME MemoryInv, NEW new, StepOf(new), Quiet(new), NEW v
    PROVE  Postings(events', v) = Postings(events, v)
<1>1. events \in Seq(Events) /\ new \in Seq(Events) /\ events' = events \o new
  BY DEF StepOf, MemoryInv, TypeOK
<1> QED
  BY <1>1, QuietIsSilent, SilentPostings

\* A step that touches no status is a stutter of the book.
LEMMA BookStutters ==
    ASSUME MemoryInv, MemoryInv', NEW new, StepOf(new), Quiet(new), ReviewStatus' = ReviewStatus
    PROVE  BookPostings' = BookPostings
<1>1. DOMAIN vouchers' = DOMAIN vouchers
  <2>1. DOMAIN reviews' = DOMAIN reviews
    BY DEF ReviewStatus
  <2>2. DOMAIN vouchers = DOMAIN reviews
    BY BookTypes
  <2>3. DOMAIN vouchers' = DOMAIN reviews'
    BY LenProperties DEF MemoryInv, TypeOK
  <2> QED
    BY <2>1, <2>2, <2>3
<1> QED
  BY <1>1, QuietPostings DEF BookPostings

\* A create opens an entry of the book.
LEMMA BookOpens ==
    ASSUME MemoryInv, MemoryInv', NEW new, StepOf(new), Quiet(new),
           ReviewStatus' = Append(ReviewStatus, "needs-review")
    PROVE  BookPostings' = Append(BookPostings, {})
<1> DEFINE n == Len(reviews)
           appended == Append(BookPostings, {})
<1>1. /\ n \in Nat /\ DOMAIN vouchers = 1..n /\ DOMAIN reviews = 1..n
      /\ BookPostings \in Seq(SUBSET Nat) /\ Len(BookPostings) = n
      /\ ReviewStatus \in Seq(Statuses) /\ Len(ReviewStatus) = n
  BY BookTypes
<1>2. DOMAIN reviews' = 1..(n + 1)
  <2>1. DOMAIN Append(ReviewStatus, "needs-review") = 1..(n + 1)
    BY <1>1, AppendRow DEF Statuses
  <2> QED
    BY <2>1 DEF ReviewStatus
<1>3. DOMAIN vouchers' = 1..(n + 1)
  <2>1. DOMAIN vouchers' = DOMAIN reviews'
    BY LenProperties DEF MemoryInv, TypeOK
  <2> QED
    BY <1>2, <2>1
<1>4. /\ appended \in Seq(SUBSET Nat) /\ DOMAIN appended = 1..(n + 1)
      /\ \A v \in 1..n : appended[v] = BookPostings[v]
      /\ appended[n + 1] = {}
  <2>1. {} \in SUBSET Nat
    OBVIOUS
  <2> QED
    BY <1>1, <2>1, AppendRow
<1>5. Postings(events, n + 1) = {}
  <2>1. n + 1 \notin DOMAIN reviews
    BY <1>1
  <2> QED
    BY <2>1, UnbornIsSilent DEF Postings
<1> HIDE DEF n, appended
<1>6. \A v \in 1..(n + 1) : Postings(events', v) = appended[v]
  <2> TAKE v \in 1..(n + 1)
  <2>1. Postings(events', v) = Postings(events, v)
    BY QuietPostings
  <2>2. CASE v \in 1..n
    BY <1>1, <1>4, <2>1, <2>2 DEF BookPostings
  <2>3. CASE v = n + 1
    BY <1>4, <1>5, <2>1, <2>3
  <2> QED
    BY <1>1, <2>2, <2>3
<1>7. appended = [v \in 1..(n + 1) |-> appended[v]]
  BY <1>4, LenProperties
<1> QED
  BY <1>3, <1>6, <1>7 DEF BookPostings, appended

\* There is room for a decision and its posting.
LEMMA RoomForDecision ==
    ASSUME MemoryInv, CanRun(2)
    PROVE  Len(events) \in Nat /\ Len(events) + 2 \in 1..MaxEvents
<1> DEFINE busy == Cardinality(Requests \ Free)
<1>1. Requests \ Free \subseteq Requests
  OBVIOUS
<1>2. busy \in Nat
  BY <1>1, RequestsAssumption, FS_Subset, FS_CardinalityType
<1>3. Len(events) \in Nat
  BY LenProperties DEF MemoryInv, TypeOK
<1>4. Len(events) + 2 + 2 * busy <= MaxEvents
  BY DEF CanRun, Room
<1> HIDE DEF busy
<1> QED
  BY <1>2, <1>3, <1>4, BoundsAssumption

\* A decision and its posting enter the book together, behind all the others.
LEMMA BookDecides ==
    ASSUME MemoryInv, MemoryInv', LogExplainsDecisions, NEW new, StepOf(new),
           NEW v \in DOMAIN reviews, NEW action \in Actions, NEW edit \in Edits \cup {NoEdit},
           DecisionOf(v, action, edit, new)
    PROVE  LET at == Len(events) + 2
               outcome == StatusForAction(action)
           IN  /\ ReviewStatus[v] = "needs-review"
               /\ \A w \in DOMAIN BookPostings : \A earlier \in BookPostings[w] : earlier < at
               /\ ReviewStatus' = [ReviewStatus EXCEPT ![v] = outcome]
               /\ BookPostings' = [BookPostings EXCEPT
                      ![v] = IF outcome = "rejected" THEN {} ELSE {at}]
<1> DEFINE at == Len(events) + 2
           outcome == StatusForAction(action)
           n == Len(reviews)
<1>1. /\ n \in Nat /\ DOMAIN vouchers = 1..n /\ DOMAIN reviews = 1..n
      /\ DOMAIN BookPostings = 1..n /\ DOMAIN ReviewStatus = 1..n
  BY BookTypes
<1>2. events \in Seq(Events) /\ new \in Seq(Events) /\ events' = events \o new
  BY DEF StepOf, MemoryInv, TypeOK
<1>3. new = DecisionEvents(v, vouchers[v], reviews[v], action, edit)
  BY DEF DecisionOf
<1>4. /\ DOMAIN reviews' = DOMAIN reviews /\ reviews'[v].status = outcome
      /\ \A w \in DOMAIN reviews \ {v} : reviews'[w] = reviews[w]
  BY StatusesDecided
<1>5. DOMAIN vouchers' = 1..n
  <2>1. DOMAIN vouchers' = DOMAIN reviews'
    BY LenProperties DEF MemoryInv, TypeOK
  <2> QED
    BY <1>1, <1>4, <2>1
<1>6. ReviewStatus[v] = "needs-review"
  BY DEF DecisionOf, ReviewStatus
<1>7. \A w \in DOMAIN BookPostings : \A earlier \in BookPostings[w] : earlier < at
  BY BookPlaces, RoomForDecision DEF DecisionOf
<1>8. ReviewStatus' = [ReviewStatus EXCEPT ![v] = outcome]
  BY <1>4 DEF ReviewStatus
<1>9. outcome = "rejected" <=> action = "reject"
  BY DEF StatusForAction, Actions
<1>10. Postings(events', v) = IF outcome = "rejected" THEN {} ELSE {at}
  <2>1. Explained(events, reviews[v].status, v)
    BY ExplainedEach DEF LogExplainsDecisions
  <2>2. Explained(events, "needs-review", v)
    BY <2>1 DEF DecisionOf
  <2> DEFINE t == DecisionEvents(v, vouchers[v], reviews[v], action, edit)
  <2>3. t \in Seq(Events) /\ events' = events \o t
    BY <1>2, <1>3
  <2>4. /\ action = "reject" => Postings(events \o t, v) = {}
        /\ action # "reject" => Postings(events \o t, v) = {Len(events) + 2}
    BY <1>2, <2>2, <2>3, DecisionPosted
  <2> HIDE DEF t
  <2> QED
    BY <1>9, <2>3, <2>4
<1>11. \A w \in DOMAIN vouchers \ {v} : Postings(events', w) = Postings(events, w)
  BY <1>2, <1>3, DecisionOfOne, SilentPostings
<1> HIDE DEF at, outcome, n
<1>12. BookPostings' = [BookPostings EXCEPT ![v] = IF outcome = "rejected" THEN {} ELSE {at}]
  BY <1>1, <1>5, <1>10, <1>11 DEF BookPostings
<1> QED
  BY <1>6, <1>7, <1>8, <1>12 DEF at, outcome

\* Every run of the store is a run of the posting book: whatever it stores and
\* however its requests interleave, a voucher is decided once, and its posting
\* enters the log with the decision, behind every earlier posting.
THEOREM MemoryImplementsBook == Spec => ImplementsPostingBook
<1>1. Init => Book!Init
  <2> SUFFICES ASSUME Init PROVE Book!Init
    OBVIOUS
  <2>1. PICK seed \in Fields : vouchers = << CreatedVoucher(1, seed) >> /\ reviews = << CreatedReview(seed) >>
    BY InitialLog
  <2>2. DOMAIN vouchers = {1} /\ DOMAIN reviews = {1} /\ reviews[1].status = "needs-review"
    BY <2>1 DEF CreatedReview
  <2>3. [v \in DOMAIN reviews |-> reviews[v].status] = << "needs-review" >>
    BY <2>2
  <2>4. \A v : Postings(events, v) = {}
    BY InitialLog, DecidingEvents DEF Postings
  <2> QED
    BY <2>2, <2>3, <2>4 DEF Book!Init
<1>2. MemoryInv /\ MemoryInv' /\ LogExplainsDecisions /\ [Next]_vars => [Book!Next]_(Book!bookVars)
  <2> SUFFICES ASSUME MemoryInv, MemoryInv', LogExplainsDecisions, [Next]_vars
               PROVE  [Book!Next]_(Book!bookVars)
    OBVIOUS
  <2>1. PICK new : StepOf(new)
    BY StepEffect
  <2>2. CASE Quiet(new) /\ ReviewStatus' = ReviewStatus
    BY <2>1, <2>2, BookStutters DEF Book!bookVars, ReviewStatus, BookPostings
  <2>3. CASE Quiet(new) /\ ReviewStatus' = Append(ReviewStatus, "needs-review")
    BY <2>1, <2>3, BookOpens DEF Book!Next, Book!Open, ReviewStatus, BookPostings
  <2>4. ASSUME NEW v \in DOMAIN reviews, NEW action \in Actions, NEW edit \in Edits \cup {NoEdit},
               DecisionOf(v, action, edit, new)
        PROVE  Book!Next
    <3>1. PICK at \in 1..MaxEvents : at = Len(events) + 2
      BY <2>4, RoomForDecision DEF DecisionOf
    <3>2. PICK outcome \in Book!Outcomes : outcome = StatusForAction(action)
      BY DEF StatusForAction, Actions, Book!Outcomes
    <3>3. v \in DOMAIN ReviewStatus
      BY DEF ReviewStatus
    <3>4. Book!Decide(v, outcome, at)
      <4>1. /\ ReviewStatus[v] = "needs-review"
            /\ \A w \in DOMAIN BookPostings : \A earlier \in BookPostings[w] : earlier < at
            /\ ReviewStatus' = [ReviewStatus EXCEPT ![v] = outcome]
            /\ BookPostings' = [BookPostings EXCEPT
                   ![v] = IF outcome = "rejected" THEN {} ELSE {at}]
        BY <2>1, <2>4, <3>1, <3>2, BookDecides
      <4> QED
        BY <4>1 DEF Book!Decide, ReviewStatus, BookPostings
    <3> QED
      BY <3>3, <3>4 DEF Book!Next, ReviewStatus
  <2> QED
    BY <2>1, <2>2, <2>3, <2>4 DEF StepOf
<1> QED
  BY <1>1, <1>2, MemoryInvariant, MemoryLogExplains, PTL DEF Spec, ImplementsPostingBook, Book!Spec

-----------------------------------------------------------------------------
(* The rows follow the log.                                                *)

\* The log explains the row of a voucher no stale row was written back over, and
\* the suggestion of every open review.
VoucherFollows(v) ==
    /\ v \notin overwritten => RowFollows(events, v, vouchers[v], reviews[v])
    /\ reviews[v].status = "needs-review" =>
          Logged(events, v, "suggestion", reviews[v].suggestion)

\* So for every voucher.
RowsInv == \A v \in DOMAIN vouchers : VoucherFollows(v)

\* What the rows rest on.
StoreInv == MemoryInv /\ FreshReviews /\ LogExplainsDecisions

\* The rows of a voucher that exists.
LEMMA RowTypes ==
    ASSUME MemoryInv, NEW v \in DOMAIN vouchers
    PROVE  /\ v \in DOMAIN reviews /\ v \in Nat
           /\ vouchers[v] \in Vouchers /\ reviews[v] \in Reviews
           /\ vouchers \in Seq(Vouchers) /\ reviews \in Seq(Reviews) /\ events \in Seq(Events)
           /\ DOMAIN vouchers = DOMAIN reviews
  BY LenProperties, ElementOfSeq DEF MemoryInv, TypeOK

\* A voucher the step does not touch.
LEMMA VoucherUntouched ==
    ASSUME MemoryInv, RowsInv, NEW v \in DOMAIN vouchers, NEW new \in Seq(Events),
           events' = events \o new, Foreign(new, v),
           vouchers'[v] = vouchers[v], reviews'[v] = reviews[v], overwritten \subseteq overwritten'
    PROVE  VoucherFollows(v)'
<1>1. events \in Seq(Events)
  BY RowTypes
<1>2. VoucherFollows(v)
  BY DEF RowsInv
<1>3. v \notin overwritten' => RowFollows(events', v, vouchers'[v], reviews'[v])
  BY <1>1, <1>2, RowUntouched DEF VoucherFollows
<1>4. reviews'[v].status = "needs-review" => Logged(events', v, "suggestion", reviews'[v].suggestion)
  <2>1. \A j \in 1..Len(new) : ~ Sets(new[j], v, "suggestion")
    BY DEF Foreign, Columns
  <2> QED
    BY <1>1, <1>2, <2>1, LoggedStays DEF VoucherFollows
<1> QED
  BY <1>3, <1>4 DEF VoucherFollows

\* A step that touches no row.
LEMMA RowsUntouched ==
    ASSUME MemoryInv, RowsInv, NEW new \in Seq(Events), events' = events \o new,
           \A v \in DOMAIN vouchers : Foreign(new, v),
           UNCHANGED <<vouchers, reviews>>, overwritten \subseteq overwritten'
    PROVE  RowsInv'
  BY VoucherUntouched DEF RowsInv

\* A step that moves neither rows nor log.
LEMMA RowsUnchanged ==
    ASSUME MemoryInv, RowsInv, UNCHANGED <<vouchers, reviews, events>>,
           overwritten \subseteq overwritten'
    PROVE  RowsInv'
  BY DEF RowsInv, VoucherFollows

\* A created voucher follows the events that created it, the others as before.
LEMMA CreateRowsFollow ==
    ASSUME StoreInv, RowsInv, NEW hash \in Hashes \cup {NoHash}, NEW fields \in Fields,
           CreateEvidence(hash, fields), overwritten \subseteq overwritten'
    PROVE  RowsInv'
<1> DEFINE e == Len(evidence) + 1
           n == Len(vouchers)
           p == Len(packets) + 1
           row == CreatedVoucher(p, fields)
           review == CreatedReview(fields)
           new == CreateEvents(e, n + 1, p, fields)
<1>1. /\ vouchers \in Seq(Vouchers) /\ reviews \in Seq(Reviews) /\ Len(reviews) = n
      /\ events \in Seq(Events)
      /\ vouchers' = Append(vouchers, row) /\ reviews' = Append(reviews, review)
      /\ events' = events \o new
      /\ p \in Nat /\ e \in Nat /\ n \in Nat /\ n + 1 \in Nat
  BY LenProperties DEF StoreInv, MemoryInv, TypeOK, CreateEvidence
<1>2. row \in Vouchers /\ review \in Reviews /\ new \in Seq(Events)
  BY <1>1, CreatedRows, PlannedEvents
<1>3. \A v : v # n + 1 => Foreign(new, v)
  BY ForeignEvents
<1>4. \A i \in DOMAIN events : ~ IsPosting(events[i], n + 1)
  <2>1. n + 1 \notin DOMAIN reviews
    BY <1>1, LenProperties
  <2> QED
    BY <2>1, UnbornIsSilent DEF StoreInv
<1>5. /\ RowFollows(events \o new, n + 1, row, review)
      /\ Logged(events \o new, n + 1, "suggestion", DeterministicSuggestion(fields))
  BY <1>1, <1>2, <1>4, RowCreated
<1>6. review.suggestion = DeterministicSuggestion(fields)
  BY DEF CreatedReview
<1> HIDE DEF row, review, new, p, e
<1>7. /\ DOMAIN vouchers = 1..n /\ DOMAIN vouchers' = 1..(n + 1)
      /\ \A v \in 1..n : vouchers'[v] = vouchers[v] /\ reviews'[v] = reviews[v]
      /\ vouchers'[n + 1] = row /\ reviews'[n + 1] = review
  BY <1>1, <1>2, AppendRow
<1> HIDE DEF n
<1>8. ASSUME NEW v \in 1..(n + 1) PROVE VoucherFollows(v)'
  <2>1. CASE v \in 1..n
    <3>1. Foreign(new, v)
      BY <1>1, <1>3, <2>1
    <3> QED
      BY <1>1, <1>2, <1>7, <2>1, <3>1, VoucherUntouched DEF StoreInv
  <2>2. CASE v = n + 1
    BY <1>1, <1>5, <1>6, <1>7, <2>2 DEF VoucherFollows
  <2> QED
    BY <1>1, <2>1, <2>2
<1> QED
  BY <1>7, <1>8 DEF RowsInv

\* A relinked voucher follows its relinking, the others as before.
LEMMA ComposeRowsFollow ==
    ASSUME StoreInv, RowsInv, NEW S \in SUBSET (DOMAIN evidence \cup {Unknown}), NEW ids \in Orders(S),
           ComposeEvidence(ids), overwritten \subseteq overwritten'
    PROVE  RowsInv'
<1>1. CASE UNCHANGED <<vouchers, events>>
  BY <1>1, RowsUnchanged DEF ComposeEvidence, StoreInv
<1>2. ASSUME NEW v \in Nat, v \in 0..Len(vouchers), v # 0,
             vouchers' = Relinked(v, Len(packets) + 1),
             events' = Append(events, RelinkEvent(v, Len(packets) + 1))
      PROVE  RowsInv'
  <2>1. /\ v \in DOMAIN vouchers /\ Len(packets) + 1 \in Nat /\ MemoryInv
        /\ reviews' = reviews
    BY <1>2, LenProperties DEF StoreInv, MemoryInv, TypeOK, ComposeEvidence
  <2> DEFINE p == Len(packets) + 1
             row == [vouchers[v] EXCEPT !.packet = p]
             new == << RelinkEvent(v, p) >>
  <2>2. /\ vouchers \in Seq(Vouchers) /\ vouchers[v] \in Vouchers /\ events \in Seq(Events)
    BY <2>1, RowTypes
  <2>3. row \in Vouchers /\ row.status = vouchers[v].status
    BY <2>1, <2>2 DEF Vouchers
  <2>4. vouchers' = [vouchers EXCEPT ![v] = row]
    BY <1>2 DEF Relinked
  <2>5. RelinkEvent(v, p) \in Events
    BY <2>1 DEF RelinkEvent, Events
  <2>6. new \in Seq(Events) /\ events' = events \o new
    BY <1>2, <2>2, <2>5, ShortLogs
  <2>7. RowFollows(events, v, vouchers[v], reviews[v]) =>
            RowFollows(events \o new, v, row, reviews[v])
    BY <2>1, <2>2, <2>6, RowRelinked
  <2>8. \A w : w # v => Foreign(new, w)
    BY ForeignEvents
  <2>9. \A j \in 1..Len(new) : ~ Sets(new[j], v, "suggestion")
    BY DEF RelinkEvent, Sets
  <2> HIDE DEF row, new, p
  <2>10. /\ DOMAIN vouchers' = DOMAIN vouchers /\ vouchers'[v] = row
         /\ \A w \in DOMAIN vouchers \ {v} : vouchers'[w] = vouchers[w]
    BY <2>1, <2>2, <2>3, <2>4, UpdateRow
  <2>11. VoucherFollows(v)'
    <3>1. VoucherFollows(v)
      BY <2>1 DEF RowsInv
    <3>2. reviews[v].status = "needs-review" => Logged(events', v, "suggestion", reviews[v].suggestion)
      BY <2>2, <2>6, <2>9, <3>1, LoggedStays DEF VoucherFollows
    <3>3. v \notin overwritten' => RowFollows(events', v, row, reviews[v])
      BY <2>6, <2>7, <3>1 DEF VoucherFollows
    <3> QED
      BY <2>1, <2>10, <3>2, <3>3 DEF VoucherFollows
  <2>12. ASSUME NEW w \in DOMAIN vouchers \ {v} PROVE VoucherFollows(w)'
    BY <2>1, <2>6, <2>8, <2>10, VoucherUntouched
  <2> QED
    BY <2>10, <2>11, <2>12 DEF RowsInv
<1>3. ASSUME NEW first \in DOMAIN ids, LinkedVoucher(ids[first]) # 0,
             vouchers' = Relinked(LinkedVoucher(ids[first]), Len(packets) + 1),
             events' = Append(events, RelinkEvent(LinkedVoucher(ids[first]), Len(packets) + 1))
      PROVE  RowsInv'
  <2>1. ids[first] \in DOMAIN evidence \cup {Unknown}
    BY DEF Orders
  <2>2. LinkedVoucher(ids[first]) \in 0..Len(vouchers) /\ Len(vouchers) \in Nat
    BY <2>1, LinkResolves, LenProperties DEF StoreInv, MemoryInv, TypeOK
  <2> QED
    BY <1>2, <1>3, <2>2
<1> QED
  BY <1>1, <1>3 DEF ComposeEvidence

\* The end of a refresh writes back what the log says, or counts as overwriting.
LEMMA FinishRowsFollow ==
    ASSUME StoreInv, RowsInv, NEW r \in Requests, FinishExtractionRefresh(r),
           overwritten' = overwritten \cup StaleWrites
    PROVE  RowsInv'
<1>0. PICK v : v = refresh[r].voucher
  OBVIOUS
<1> DEFINE read == refresh[r].row
           row == RefreshedVoucher(read, refresh[r].extraction)
           fields == row.fields
           review == RefreshedReview(reviews[v], fields)
           new == RefreshEvents(v, fields)
<1>1. refresh[r] \in Suspended /\ refresh[r] # Idle /\ MemoryInv
  BY DEF StoreInv, MemoryInv, TypeOK, FinishExtractionRefresh, Free
<1>2. v \in DOMAIN vouchers
  BY <1>0, <1>1 DEF MemoryInv, LinksOK
<1>3. /\ v \in DOMAIN reviews /\ v \in Nat /\ reviews[v] \in Reviews /\ vouchers[v] \in Vouchers
      /\ vouchers \in Seq(Vouchers) /\ reviews \in Seq(Reviews) /\ events \in Seq(Events)
      /\ DOMAIN vouchers = DOMAIN reviews
  BY <1>1, <1>2, RowTypes
<1>4. row \in Vouchers /\ review \in Reviews
  BY <1>1, <1>3, RefreshedRows DEF Suspended
<1>5. fields \in Fields
  BY <1>4 DEF Vouchers
<1>6. read # vouchers[v] => v \in overwritten'
  <2>1. r \in Requests \ Free /\ refresh'[r] = Idle
    BY <1>1 DEF Free, FinishExtractionRefresh, MemoryInv, TypeOK
  <2> QED
    BY <1>0, <2>1 DEF StaleWrites
<1>7. read \in Vouchers
  BY <1>1 DEF Suspended
<1>8. row = [read EXCEPT !.fields = fields] /\ row.status = read.status
  BY <1>7 DEF RefreshedVoucher, Vouchers
<1>9. \/ UNCHANGED <<vouchers, reviews, events>>
      \/ /\ read.status = "needs-review"
         /\ vouchers' = [vouchers EXCEPT ![v] = row]
         /\ reviews' = [reviews EXCEPT ![v] = review]
         /\ events' = events \o new
  BY <1>0 DEF FinishExtractionRefresh
<1>10. new \in Seq(Events)
  BY <1>3, <1>5, PlannedEvents
<1>11. \A w : w # v => Foreign(new, w)
  BY ForeignEvents
<1>12. review.status = reviews[v].status /\ review.suggestion = DeterministicSuggestion(fields)
  BY <1>3 DEF RefreshedReview, Reviews
<1> HIDE DEF read, row, fields, review, new
<1>13. CASE UNCHANGED <<vouchers, reviews, events>>
  BY <1>1, <1>13, RowsUnchanged
<1>14. CASE /\ read.status = "needs-review"
            /\ vouchers' = [vouchers EXCEPT ![v] = row]
            /\ reviews' = [reviews EXCEPT ![v] = review]
            /\ events' = events \o new
  <2>1. /\ DOMAIN vouchers' = DOMAIN vouchers /\ vouchers'[v] = row /\ reviews'[v] = review
        /\ \A w \in DOMAIN vouchers \ {v} : vouchers'[w] = vouchers[w] /\ reviews'[w] = reviews[w]
    BY <1>2, <1>3, <1>4, <1>14, UpdateRow
  <2>2. ASSUME v \notin overwritten' PROVE RowFollows(events', v, row, review)
    <3>1. read = vouchers[v]
      BY <1>6, <2>2
    <3>2. RowFollows(events, v, vouchers[v], reviews[v])
      BY <1>2, <2>2 DEF RowsInv, VoucherFollows
    <3>3. reviews[v].status = "needs-review"
      BY <1>14, <3>1, <3>2 DEF RowFollows
    <3>4. Postings(events, v) = {}
      <4>1. Explained(events, "needs-review", v)
        BY <1>3, <3>3, ExplainedEach DEF StoreInv, LogExplainsDecisions
      <4> QED
        BY <4>1, OpenHasNoPosting
    <3>5. RowFollows(events \o new, v, [vouchers[v] EXCEPT !.fields = fields],
                     RefreshedReview(reviews[v], fields))
      BY <1>3, <1>5, <1>10, <3>2, <3>4, RowRefreshed DEF new
    <3> QED
      BY <1>8, <1>14, <3>1, <3>5 DEF review
  <2>3. Logged(events', v, "suggestion", review.suggestion)
    BY <1>3, <1>10, <1>12, <1>14, SuggestionRefreshed DEF new
  <2>4. VoucherFollows(v)'
    BY <2>1, <2>2, <2>3 DEF VoucherFollows
  <2>5. ASSUME NEW w \in DOMAIN vouchers \ {v} PROVE VoucherFollows(w)'
    BY <1>1, <1>10, <1>11, <1>14, <2>1, VoucherUntouched
  <2> QED
    BY <2>1, <2>4, <2>5 DEF RowsInv
<1> QED
  BY <1>9, <1>13, <1>14

\* A decided voucher shows what was posted, the others stay as they were.
LEMMA DecisionRowsFollow ==
    ASSUME StoreInv, RowsInv, NEW v \in DOMAIN vouchers, NEW action \in Actions,
           NEW edit \in Edits \cup {NoEdit}, ApplyReviewDecision(v, action, edit),
           overwritten \subseteq overwritten'
    PROVE  RowsInv'
<1> DEFINE review == DecidedReview(reviews[v], action, edit)
           row == DecidedVoucher(vouchers[v], action)
           new == DecisionEvents(v, vouchers[v], reviews[v], action, edit)
<1>1. /\ v \in DOMAIN reviews /\ v \in Nat /\ reviews[v] \in Reviews /\ vouchers[v] \in Vouchers
      /\ vouchers \in Seq(Vouchers) /\ reviews \in Seq(Reviews) /\ events \in Seq(Events)
      /\ DOMAIN vouchers = DOMAIN reviews /\ MemoryInv
  BY RowTypes DEF StoreInv
<1>2. row \in Vouchers /\ review \in Reviews /\ StatusForAction(action) # "needs-review"
  BY <1>1, DecidedRows
<1>3. new \in Seq(Events)
  BY <1>1, PlannedDecisionEvents
<1>4. /\ reviews[v].status = "needs-review"
      /\ vouchers' = [vouchers EXCEPT ![v] = row]
      /\ reviews' = [reviews EXCEPT ![v] = review]
      /\ events' = events \o new
  BY DEF ApplyReviewDecision
<1>5. /\ review.status = StatusForAction(action)
      /\ review.suggestion = PostingSuggestion(reviews[v], action, edit)
  BY <1>1 DEF DecidedReview, Reviews
<1>6. Explained(events, "needs-review", v)
  <2>1. Explained(events, reviews[v].status, v)
    BY <1>1, ExplainedEach DEF StoreInv, LogExplainsDecisions
  <2> QED
    BY <1>4, <2>1
<1>7. RowFollows(events, v, vouchers[v], reviews[v]) => RowFollows(events \o new, v, row, review)
  <2> HIDE DEF review
  <2> QED
    BY <1>1, <1>3, <1>5, <1>6, RowDecided
<1>8. \A w : w # v => Foreign(new, w)
  BY ForeignEvents
<1> HIDE DEF row, review, new
<1>9. /\ DOMAIN vouchers' = DOMAIN vouchers /\ vouchers'[v] = row /\ reviews'[v] = review
      /\ \A w \in DOMAIN vouchers \ {v} : vouchers'[w] = vouchers[w] /\ reviews'[w] = reviews[w]
  BY <1>1, <1>2, <1>4, UpdateRow
<1>10. VoucherFollows(v)'
  BY <1>2, <1>4, <1>5, <1>7, <1>9 DEF RowsInv, VoucherFollows
<1>11. ASSUME NEW w \in DOMAIN vouchers \ {v} PROVE VoucherFollows(w)'
  BY <1>1, <1>3, <1>4, <1>8, <1>9, VoucherUntouched
<1> QED
  BY <1>9, <1>10, <1>11 DEF RowsInv

\* A regeneration of the suggestion of an open review gives it the one it has.
LEMMA SuggestRowsFollow ==
    ASSUME StoreInv, NEW v \in DOMAIN vouchers, SuggestVoucher(v)
    PROVE  UNCHANGED <<vouchers, reviews, events>>
<1>1. v \in DOMAIN reviews /\ reviews[v] \in Reviews /\ reviews \in Seq(Reviews)
  BY RowTypes DEF StoreInv
<1>2. CASE reviews[v].status = "needs-review"
  <2>1. reviews[v].suggestion = DeterministicSuggestion(vouchers[v].fields)
    BY <1>1, <1>2 DEF StoreInv, FreshReviews
  <2> DEFINE same == [reviews[v] EXCEPT !.suggestion = DeterministicSuggestion(vouchers[v].fields)]
  <2>2. same = reviews[v]
    BY <1>1, <2>1 DEF Reviews
  <2>3. reviews' = [reviews EXCEPT ![v] = same]
    BY <1>2 DEF SuggestVoucher
  <2> HIDE DEF same
  <2>4. reviews' = reviews
    BY <1>1, <2>2, <2>3
  <2> QED
    BY <2>4 DEF SuggestVoucher
<1> QED
  BY <1>2 DEF SuggestVoucher

\* Every step keeps the rows that no stale row was written over with the log.
LEMMA RowsStep ==
    ASSUME StoreInv, RowsInv, [RowsNext]_rowsVars
    PROVE  RowsInv'
<1> USE DEF StoreInv
<1>1. CASE UNCHANGED rowsVars
  BY <1>1, RowsUnchanged DEF rowsVars, vars
<1> SUFFICES ASSUME Next, overwritten' = overwritten \cup StaleWrites PROVE RowsInv'
  BY <1>1 DEF RowsNext
<1>2. overwritten \subseteq overwritten'
  OBVIOUS
<1>3. ASSUME NEW hash \in Hashes \cup {NoHash}, NEW fields \in Fields,
             CreateEvidence(hash, fields)
      PROVE  RowsInv'
  BY <1>2, <1>3, CreateRowsFollow
<1>4. ASSUME NEW S \in (SUBSET (DOMAIN evidence \cup {Unknown})) \ {{}}, NEW ids \in Orders(S),
             ComposeEvidence(ids)
      PROVE  RowsInv'
  BY <1>2, <1>4, ComposeRowsFollow
<1>5. ASSUME NEW r \in Requests, NEW e \in DOMAIN evidence, NEW x \in Extractions,
             BeginExtractionRefresh(r, e, x)
      PROVE  RowsInv'
  BY <1>2, <1>5, RowsUnchanged DEF BeginExtractionRefresh
<1>6. ASSUME NEW r \in Requests, FinishExtractionRefresh(r) PROVE RowsInv'
  BY <1>6, FinishRowsFollow
<1>7. ASSUME NEW file \in (SUBSET SieIds) \ {{}}, ImportSie(file) PROVE RowsInv'
  <2>1. PICK planned \in Orders(file \ Imported(events)) :
            /\ events' = events \o ImportedEvents(planned)
            /\ UNCHANGED <<vouchers, reviews>>
    BY <1>7 DEF ImportSie
  <2> DEFINE new == ImportedEvents(planned)
  <2>2. new \in Seq(Events)
    BY PlannedImports
  <2>3. \A i \in 1..Len(new) : new[i].type = "VoucherImported"
    <3>1. 1..Len(new) = DOMAIN new
      BY <2>2, LenProperties
    <3> QED
      BY <3>1 DEF ImportedEvents
  <2>4. \A v : Foreign(new, v)
    BY <2>3, OwnerlessEvents
  <2> HIDE DEF new
  <2> QED
    BY <1>2, <2>1, <2>2, <2>4, RowsUntouched DEF new
<1>8. ASSUME NEW v \in DOMAIN vouchers, SuggestVoucher(v) PROVE RowsInv'
  BY <1>2, <1>8, SuggestRowsFollow, RowsUnchanged
<1>9. ASSUME NEW v \in DOMAIN vouchers, NEW action \in Actions,
             NEW edit \in Edits \cup {NoEdit}, ApplyReviewDecision(v, action, edit)
      PROVE  RowsInv'
  BY <1>2, <1>9, DecisionRowsFollow
<1>10. CASE RunSimulation
  <2>1. SimulationEvent \in Events /\ SimulationEvent.type = "SimulationExecuted"
    BY DEF SimulationEvent, Events
  <2>2. << SimulationEvent >> \in Seq(Events) /\ events' = events \o << SimulationEvent >>
    BY <1>10, <2>1, ShortLogs DEF RunSimulation, MemoryInv, TypeOK
  <2>3. \A i \in 1..Len(<< SimulationEvent >>) : << SimulationEvent >>[i].type = "SimulationExecuted"
    BY <2>1
  <2>4. \A v : Foreign(<< SimulationEvent >>, v)
    BY <2>3, OwnerlessEvents
  <2> QED
    BY <1>2, <1>10, <2>2, <2>4, RowsUntouched DEF RunSimulation
<1> QED
  BY <1>3, <1>4, <1>5, <1>6, <1>7, <1>8, <1>9, <1>10 DEF Next

\* What the log says of the rows, of the suggestions and of the decisions is
\* what the maps hold, in every interleaving, but for the voucher rows that a
\* refresh overrun by another step wrote back.
THEOREM MemoryRowsFollowLog == RowsSpec => []RowsFollowLog
<1>1. RowsInit => RowsInv
  <2> SUFFICES ASSUME RowsInit PROVE RowsInv
    OBVIOUS
  <2>1. PICK seed \in Fields :
            /\ vouchers = << CreatedVoucher(1, seed) >>
            /\ reviews = << CreatedReview(seed) >>
            /\ events = CreateEvents(1, 1, 1, seed)
    BY DEF RowsInit, Init, Fields
  <2> DEFINE new == CreateEvents(1, 1, 1, seed)
             none == << >>
  <2>2. new \in Seq(Events) /\ none \in Seq(Events) /\ \A i \in DOMAIN none : ~ IsPosting(none[i], 1)
    BY PlannedEvents
  <2>3. none \o new = new
    BY <2>2, ConcatEmptySeq
  <2>4. /\ RowFollows(none \o new, 1, CreatedVoucher(1, seed), CreatedReview(seed))
        /\ Logged(none \o new, 1, "suggestion", DeterministicSuggestion(seed))
    BY <2>2, RowCreated
  <2>5. CreatedReview(seed).suggestion = DeterministicSuggestion(seed)
    BY DEF CreatedReview
  <2> HIDE DEF new, none
  <2>6. DOMAIN vouchers = {1} /\ vouchers[1] = CreatedVoucher(1, seed) /\ reviews[1] = CreatedReview(seed)
    BY <2>1
  <2> QED
    BY <2>1, <2>3, <2>4, <2>5, <2>6 DEF RowsInv, VoucherFollows, new
<1>2. RowsSpec => Spec
  <2>1. RowsInit => Init
    BY DEF RowsInit
  <2>2. [RowsNext]_rowsVars => [Next]_vars
    BY DEF RowsNext, rowsVars
  <2> QED
    BY <2>1, <2>2, PTL DEF RowsSpec, Spec
<1>3. Spec => []FreshReviews
  BY MemoryReviewsFresh
<1>4. MemoryInv /\ FreshReviews /\ LogExplainsDecisions /\ RowsInv /\ [RowsNext]_rowsVars => RowsInv'
  BY RowsStep DEF StoreInv
<1>5. MemoryInv /\ LogExplainsDecisions /\ RowsInv => RowsFollowLog
  <2> SUFFICES ASSUME MemoryInv, LogExplainsDecisions, RowsInv PROVE RowsFollowLog
    OBVIOUS
  <2>1. events \in Seq(Events) /\ DOMAIN vouchers = DOMAIN reviews
    BY LenProperties DEF MemoryInv, TypeOK
  <2>2. \A v \in Current : RowFollows(events, v, vouchers[v], reviews[v])
    BY DEF Current, RowsInv, VoucherFollows
  <2>3. LogExplainsCurrent
    BY <2>1, <2>2, LoggedVouchers DEF LogExplainsCurrent, RowFollows
  <2>4. DecidedCurrentIsPosted
    BY <2>2 DEF DecidedCurrentIsPosted, PostingsShown, RowFollows
  <2>5. CurrentFollowsReview
    BY <2>2 DEF CurrentFollowsReview, RowFollows
  <2>6. OpenSuggestionIsLogged
    BY <2>1, LoggedSuggestions DEF OpenSuggestionIsLogged, RowsInv, VoucherFollows
  <2> QED
    BY <2>3, <2>4, <2>5, <2>6 DEF RowsFollowLog
<1> QED
  BY <1>1, <1>2, <1>3, <1>4, <1>5, MemoryInvariant, MemoryLogExplains, PTL DEF RowsSpec
=============================================================================
