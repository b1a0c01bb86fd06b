--------------------- MODULE PostgresLedgerStoreProofs ---------------------
(***************************************************************************)
(* What the Postgres store keeps whatever its transactions, its lock-free  *)
(* suggestions, its crashes and the writers that bypass the advisory lock  *)
(* do, for any number of each and for a log of any length.                 *)
(*                                                                         *)
(* First the hash chain: it is linear.  ChainLinear alone is not           *)
(* inductive: an insert chains onto a tail that was read earlier.  What    *)
(* makes it so is that every tail some transaction or outsider still holds *)
(* is a place of the log or GENESIS.  In a linear log every place but the  *)
(* last is already somebody's previous_hash, so the unique key lets only   *)
(* an insert behind the last event through.                                *)
(*                                                                         *)
(* Then the store, in four layers, each an invariant of its own: the queue *)
(* for the lock lets one transaction at a time past the tail read; rows    *)
(* and open transactions are well typed; what a transaction has read under *)
(* the lock still holds when it commits; the rows follow the log.          *)
(***************************************************************************)
EXTENDS PostgresLedgerStore, LedgerPlansProofs

-----------------------------------------------------------------------------
(* The hash chain.                                                         *)

\* s is a sequence, of whatever.
SomeSeq(s) == \E S : s \in Seq(S)

\* Two sequences append to one whose length is the sum of theirs.
LEMMA ConcatSomeSeq ==
    ASSUME NEW s, NEW t, SomeSeq(s), SomeSeq(t)
    PROVE  /\ SomeSeq(s \o t)
           /\ Len(s) \in Nat /\ Len(t) \in Nat
           /\ DOMAIN s = 1..Len(s) /\ DOMAIN t = 1..Len(t)
           /\ Len(s \o t) = Len(s) + Len(t)
<1>1. PICK S : s \in Seq(S)
  BY DEF SomeSeq
<1>2. PICK T : t \in Seq(T)
  BY DEF SomeSeq
<1>3. s \in Seq(S \cup T) /\ t \in Seq(S \cup T)
  BY <1>1, <1>2, SeqMonotonic
<1>4. s \o t \in Seq(S \cup T) /\ Len(s \o t) = Len(s) + Len(t)
  BY <1>3, ConcatProperties
<1> QED
  BY <1>3, <1>4, LenProperties DEF SomeSeq

\* The places a tail can be.
Tails == 0..Len(events)

\* The chain itself.
LogOK ==
    /\ SomeSeq(events)
    /\ previous \in Seq(Nat)
    /\ Len(previous) = Len(events)
    /\ ChainLinear

\* What a transaction of the request holds of the chain.
TxOK(t) ==
    /\ t.phase \in {"locked", "planned"} => t.tail \in Tails
    /\ t.phase = "planned" /\ t.op.kind = "import" => SomeSeq(t.plan.new)

TxsOK ==
    /\ tx = [r \in Requests |-> tx[r]]
    /\ \A r \in Requests : TxOK(tx[r])

OutsideOK ==
    /\ outside = [w \in Outsiders |-> outside[w]]
    /\ \A w \in Outsiders : outside[w] # NoTail => outside[w].tail \in Tails

ChainInv == LogOK /\ TxsOK /\ OutsideOK

\* In a linear chain of length n every place but n is a predecessor already.
LEMMA OnlyTheLastIsFree ==
    ASSUME NEW n \in Nat, NEW p \in Seq(Nat), Len(p) = n,
           \A i \in 1..n : p[i] = i - 1,
           NEW t \in 0..n, \A i \in 1..n : p[i] # t
    PROVE  t = n
<1> SUFFICES ASSUME t < n PROVE FALSE
  OBVIOUS
<1>1. t + 1 \in 1..n
  OBVIOUS
<1>2. p[t + 1] = (t + 1) - 1
  BY <1>1
<1> QED
  BY <1>1, <1>2

\* Links n, n + 1, ... behind a linear chain of length n make a linear chain.
LEMMA LinksContinue ==
    ASSUME NEW n \in Nat, NEW p \in Seq(Nat), Len(p) = n,
           \A i \in 1..n : p[i] = i - 1,
           NEW m \in Nat, NEW links \in [1..m -> Nat],
           \A i \in 1..m : links[i] = n + i - 1
    PROVE  /\ p \o links \in Seq(Nat)
           /\ Len(p \o links) = n + m
           /\ \A i \in 1..(n + m) : (p \o links)[i] = i - 1
<1>1. links \in Seq(Nat) /\ Len(links) = m
  BY SeqDef
<1>2. /\ p \o links \in Seq(Nat)
      /\ Len(p \o links) = n + m
      /\ \A i \in 1..(n + m) : (p \o links)[i] = IF i <= n THEN p[i] ELSE links[i - n]
  BY <1>1, ConcatProperties
<1>3. ASSUME NEW i \in 1..(n + m) PROVE (p \o links)[i] = i - 1
  <2>1. CASE i <= n
    BY <1>2, <2>1
  <2>2. CASE i > n
    <3>1. i - n \in 1..m
      BY <2>2
    <3>2. links[i - n] = n + (i - n) - 1
      BY <3>1
    <3> QED
      BY <1>2, <2>2, <3>1, <3>2
  <2> QED
    BY <2>1, <2>2
<1> QED
  BY <1>2, <1>3

\* Inserting events behind a tail that is a place of a linear chain keeps it
\* linear, because the unique key refuses every place but the last.
LEMMA AppendKeepsChain ==
    ASSUME NEW STATE tail, NEW STATE new, LogOK, tail \in Tails, SomeSeq(new),
           AppendEvents(tail, new)
    PROVE  /\ LogOK'
           /\ Tails \subseteq Tails'
<1> DEFINE n == Len(events)
           m == Len(new)
           links == [i \in DOMAIN new |-> IF i = 1 THEN tail ELSE Len(events) + i - 1]
<1>1. /\ n \in Nat /\ m \in Nat
      /\ DOMAIN events = 1..n /\ DOMAIN new = 1..m
      /\ SomeSeq(events \o new) /\ Len(events \o new) = n + m
  BY ConcatSomeSeq DEF LogOK
<1>2. DOMAIN (events \o new) = 1..(n + m)
  BY <1>1, LenProperties DEF SomeSeq
<1>3. previous \in Seq(Nat) /\ Len(previous) = n /\ DOMAIN previous = 1..n
  BY LenProperties DEF LogOK
<1>4. \A i \in 1..n : previous[i] = i - 1
  BY <1>1 DEF LogOK, ChainLinear
<1>5. tail \in 0..n
  BY DEF Tails
<1>6. \A i \in 1..n : previous[i] # tail
  BY <1>3 DEF AppendEvents, Forks
<1>7. events' = events \o new /\ previous' = previous \o links
  BY DEF AppendEvents
<1>8. links = [i \in 1..m |-> IF i = 1 THEN tail ELSE n + i - 1]
  BY <1>1
<1> HIDE DEF n, m, links
<1>9. tail = n
  BY <1>1, <1>3, <1>4, <1>5, <1>6, OnlyTheLastIsFree
<1>10. links \in [1..m -> Nat] /\ \A i \in 1..m : links[i] = n + i - 1
  BY <1>1, <1>8, <1>9
<1>11. /\ previous \o links \in Seq(Nat)
       /\ Len(previous \o links) = n + m
       /\ \A i \in 1..(n + m) : (previous \o links)[i] = i - 1
  BY <1>1, <1>3, <1>4, <1>10, LinksContinue
<1>12. LogOK'
  BY <1>1, <1>2, <1>7, <1>11 DEF LogOK, ChainLinear
<1>13. 0..n \subseteq 0..(n + m)
  BY <1>1
<1>14. Tails = 0..n
  BY DEF Tails, n
<1>15. Tails' = 0..(n + m)
  BY <1>1, <1>7 DEF Tails
<1> QED
  BY <1>12, <1>13, <1>14, <1>15

-----------------------------------------------------------------------------
(* The lists of events the operations append are sequences.                *)

\* The event lists of fixed length are sequences.
LEMMA TuplesAreSeqs ==
    ASSUME NEW a, NEW b, NEW c, NEW d
    PROVE  /\ SomeSeq(<<a>>)
           /\ SomeSeq(<<a, b>>)
           /\ SomeSeq(<<a, b, c, d>>)
<1>1. <<a>> \in Seq({a})
  OBVIOUS
<1>2. <<a, b>> \in Seq({a, b})
  OBVIOUS
<1>3. <<a, b, c, d>> \in Seq({a, b, c, d})
  OBVIOUS
<1> QED
  BY <1>1, <1>2, <1>3 DEF SomeSeq

\* An order of a finite set is a sequence.
LEMMA OrdersAreSeqs ==
    ASSUME NEW S, IsFiniteSet(S), NEW s \in Orders(S)
    PROVE  SomeSeq(s)
<1>1. Cardinality(S) \in Nat
  BY FS_CardinalityType
<1>2. s \in [1..Cardinality(S) -> S]
  BY DEF Orders
<1>3. s \in Seq(S)
  BY <1>1, <1>2, SeqDef
<1> QED
  BY <1>3 DEF SomeSeq

\* So are the events of an import.
LEMMA ImportedAreSeqs ==
    ASSUME NEW s, SomeSeq(s)
    PROVE  SomeSeq(ImportedEvents(s))
<1> DEFINE T == {[type |-> "VoucherImported", aggregate |-> s[i]] : i \in 1..Len(s)}
<1>1. Len(s) \in Nat
  BY LenProperties DEF SomeSeq
<1>2. ImportedEvents(s) \in [1..Len(s) -> T]
  BY DEF ImportedEvents
<1>3. ImportedEvents(s) \in Seq(T)
  BY <1>1, <1>2, SeqDef
<1> QED
  BY <1>3 DEF SomeSeq

\* And those of the other operations.
LEMMA PlannedEventsAreSeqs ==
    ASSUME NEW e, NEW v, NEW p, NEW fields, NEW row, NEW review, NEW action, NEW edit
    PROVE  /\ SomeSeq(CreateEvents(e, v, p, fields))
           /\ SomeSeq(RefreshEvents(v, fields))
           /\ SomeSeq(DecisionEvents(v, row, review, action, edit))
  BY TuplesAreSeqs DEF CreateEvents, RefreshEvents, DecisionEvents

-----------------------------------------------------------------------------
(* What a step may change.                                                 *)

\* A request's new transaction record, when the log keeps every place it has.
LEMMA TxChanges ==
    ASSUME TxsOK, NEW r \in Requests, NEW STATE t,
           tx' = [tx EXCEPT ![r] = t], Tails \subseteq Tails', TxOK(t)
    PROVE  TxsOK'
<1>1. tx' = [s \in Requests |-> tx'[s]]
  BY DEF TxsOK
<1>2. ASSUME NEW s \in Requests PROVE TxOK(tx[s])'
  <2>1. CASE s = r
    <3>1. tx'[s] = t
      BY <2>1 DEF TxsOK
    <3> QED
      BY <3>1 DEF TxOK
  <2>2. CASE s # r
    <3>1. tx'[s] = tx[s]
      BY <2>2 DEF TxsOK
    <3> QED
      BY <3>1 DEF TxOK, TxsOK
  <2> QED
    BY <2>1, <2>2
<1> QED
  BY <1>1, <1>2 DEF TxsOK

\* A step that leaves the log alone leaves its places alone.
LEMMA LogUnchanged ==
    ASSUME LogOK, UNCHANGED <<events, previous>>
    PROVE  LogOK' /\ Tails' = Tails
  BY DEF LogOK, Tails, ChainLinear, SomeSeq

\* Tails that outsiders hold stay places of the log as it grows.
LEMMA OutsideUnchanged ==
    ASSUME OutsideOK, UNCHANGED outside, Tails \subseteq Tails'
    PROVE  OutsideOK'
  BY DEF OutsideOK

\* Ending a transaction, with the log as it was or with more places.
LEMMA EndKeeps ==
    ASSUME ChainInv, NEW r \in Requests, End(r), LogOK', Tails \subseteq Tails'
    PROVE  ChainInv'
<1>1. TxOK(Idle)
  BY DEF TxOK, Idle
<1>2. TxsOK'
  BY <1>1, TxChanges DEF End, ChainInv
<1> QED
  BY <1>2, OutsideUnchanged DEF ChainInv, End

\* A step that writes nothing and gives request r the transaction record t.
LEMMA TxStepKeeps ==
    ASSUME ChainInv, NEW r \in Requests, NEW STATE t, TxOK(t),
           tx' = [tx EXCEPT ![r] = t], UNCHANGED <<tables, outside>>
    PROVE  ChainInv'
<1>1. LogOK' /\ Tails' = Tails
  BY LogUnchanged DEF ChainInv, tables
<1>2. TxsOK'
  BY <1>1, TxChanges DEF ChainInv
<1> QED
  BY <1>1, <1>2, OutsideUnchanged DEF ChainInv

-----------------------------------------------------------------------------
(* One lemma per group of actions.                                         *)

\* What the reads of an operation hand over to its writes.
LEMMA PlannedKeeps ==
    ASSUME ChainInv, NEW r \in Requests, NEW STATE op, NEW STATE plan,
           Runs(r, op), Planned(r, op, plan), UNCHANGED tables,
           op.kind = "import" => SomeSeq(plan.new)
    PROVE  ChainInv'
<1> DEFINE t == [phase   |-> "planned", attempt |-> tx[r].attempt, op |-> op,
                 tail    |-> tx[r].tail, plan |-> plan]
<1>1. tx[r].tail \in Tails
  BY DEF ChainInv, TxsOK, TxOK, Runs
<1>2. TxOK(t)
  BY <1>1 DEF TxOK
<1>3. tx' = [tx EXCEPT ![r] = t] /\ UNCHANGED <<tables, outside>>
  BY DEF Planned
<1> HIDE DEF t
<1> QED
  BY <1>2, <1>3, TxStepKeeps

\* Reads that end the transaction.
LEMMA EndedEarlyKeeps ==
    ASSUME ChainInv, NEW r \in Requests, End(r), UNCHANGED tables
    PROVE  ChainInv'
<1>1. LogOK' /\ Tails' = Tails
  BY LogUnchanged DEF ChainInv, tables
<1> QED
  BY <1>1, EndKeeps

\* Reading and planning writes nothing.
LEMMA PlanKeeps ==
    ASSUME ChainInv, NEW r \in Requests, Plan(r)
    PROVE  ChainInv'
<1>1. ASSUME NEW op, op.kind = "create", PlanCreate(r, op) PROVE ChainInv'
  BY <1>1, PlannedKeeps, EndedEarlyKeeps DEF PlanCreate
<1>2. ASSUME NEW op, op.kind = "compose", PlanCompose(r, op) PROVE ChainInv'
  BY <1>2, PlannedKeeps DEF PlanCompose
<1>3. ASSUME NEW op, op.kind = "refresh", PlanRefresh(r, op) PROVE ChainInv'
  BY <1>3, PlannedKeeps, EndedEarlyKeeps DEF PlanRefresh
<1>4. ASSUME NEW op, op.file \in SUBSET SieIds, PlanImport(r, op) PROVE ChainInv'
  <2>1. PICK new \in Orders(op.file \ Imported(events)) :
            \/ End(r)
            \/ Planned(r, op, [new |-> new])
    BY <1>4 DEF PlanImport
  <2>2. IsFiniteSet(op.file \ Imported(events))
    BY <1>4, SieIdsAssumption, FS_Subset
  <2>3. SomeSeq(new)
    BY <2>1, <2>2, OrdersAreSeqs
  <2>4. Runs(r, op) /\ UNCHANGED tables
    BY <1>4 DEF PlanImport
  <2> QED
    BY <2>1, <2>3, <2>4, PlannedKeeps, EndedEarlyKeeps
<1>5. ASSUME NEW op, op.kind = "decide", PlanDecision(r, op) PROVE ChainInv'
  BY <1>5, PlannedKeeps, EndedEarlyKeeps DEF PlanDecision
<1>6. ASSUME NEW op, op.kind = "simulate", PlanSimulation(r, op) PROVE ChainInv'
  BY <1>6, PlannedKeeps DEF PlanSimulation
<1> QED
  BY <1>1, <1>2, <1>3, <1>4, <1>5, <1>6 DEF Plan

\* A commit appends the planned events behind the tail read under the lock.
LEMMA AppendingCommitKeeps ==
    ASSUME ChainInv, NEW r \in Requests, NEW STATE new, tx[r].phase = "planned",
           SomeSeq(new), AppendEvents(tx[r].tail, new), End(r)
    PROVE  ChainInv'
<1>1. tx[r].tail \in Tails
  BY DEF ChainInv, TxsOK, TxOK
<1>2. LogOK' /\ Tails \subseteq Tails'
  BY <1>1, AppendKeepsChain DEF ChainInv
<1> QED
  BY <1>2, EndKeeps

\* Every commit appends behind the tail read under the lock.
LEMMA CommitKeeps ==
    ASSUME ChainInv, NEW r \in Requests, Commit(r)
    PROVE  ChainInv'
<1>1. CASE CommitCreate(r)
  BY <1>1, AppendingCommitKeeps, PlannedEventsAreSeqs DEF CommitCreate, Writes
<1>2. CASE CommitCompose(r)
  <2>1. CASE tx[r].plan.voucher = 0
    <3>1. End(r) /\ UNCHANGED <<events, previous>>
      BY <1>2, <2>1 DEF CommitCompose
    <3> QED
      BY <3>1, LogUnchanged, EndKeeps DEF ChainInv
  <2>2. CASE tx[r].plan.voucher # 0
    BY <1>2, <2>2, AppendingCommitKeeps, TuplesAreSeqs DEF CommitCompose, Writes
  <2> QED
    BY <2>1, <2>2
<1>3. CASE CommitRefresh(r)
  BY <1>3, AppendingCommitKeeps, PlannedEventsAreSeqs DEF CommitRefresh, Writes
<1>4. CASE CommitImport(r)
  <2>1. SomeSeq(tx[r].plan.new)
    BY <1>4 DEF CommitImport, Writes, ChainInv, TxsOK, TxOK
  <2> QED
    BY <1>4, <2>1, AppendingCommitKeeps, ImportedAreSeqs DEF CommitImport, Writes
<1>5. CASE CommitDecision(r)
  BY <1>5, AppendingCommitKeeps, PlannedEventsAreSeqs DEF CommitDecision, Writes
<1>6. CASE CommitSimulation(r)
  BY <1>6, AppendingCommitKeeps, TuplesAreSeqs DEF CommitSimulation, Writes
<1> QED
  BY <1>1, <1>2, <1>3, <1>4, <1>5, <1>6 DEF Commit

\* The steps of a request around its reads and writes.
LEMMA RequestKeeps ==
    ASSUME ChainInv, NEW r \in Requests,
           Begin(r) \/ LockTail(r) \/ ForkAborts(r) \/ Abort(r) \/ FinishSuggest(r)
    PROVE  ChainInv'
<1>1. CASE Begin(r)
  BY <1>1, TxStepKeeps DEF Begin, Waiting, TxOK
<1>2. CASE LockTail(r)
  <2> DEFINE t == [phase |-> "locked", attempt |-> tx[r].attempt,
                   op    |-> tx[r].op, tail    |-> Len(events)]
  <2>1. Len(events) \in Nat
    BY LenProperties DEF ChainInv, LogOK, SomeSeq
  <2>2. Len(events) \in Tails
    BY <2>1 DEF Tails
  <2>3. TxOK(t)
    BY <2>2 DEF TxOK
  <2>4. tx' = [tx EXCEPT ![r] = t] /\ UNCHANGED <<tables, outside>>
    BY <1>2 DEF LockTail
  <2> HIDE DEF t
  <2> QED
    BY <2>3, <2>4, TxStepKeeps
<1>3. CASE ForkAborts(r)
  BY <1>3, TxStepKeeps DEF ForkAborts, Waiting, Conflict, TxOK
<1>4. CASE Abort(r)
  BY <1>4, EndedEarlyKeeps DEF Abort
<1>5. CASE FinishSuggest(r)
  <2>1. End(r) /\ UNCHANGED <<events, previous>>
    BY <1>5 DEF FinishSuggest
  <2> QED
    BY <2>1, LogUnchanged, EndKeeps DEF ChainInv
<1> QED
  BY <1>1, <1>2, <1>3, <1>4, <1>5

\* A regeneration of a suggestion does not touch the log.
LEMMA SuggestKeeps ==
    ASSUME ChainInv, NEW r \in Requests, NEW v \in DOMAIN vouchers, BeginSuggest(r, v)
    PROVE  ChainInv'
  BY TxStepKeeps DEF BeginSuggest, TxOK

\* The steps of a program that bypasses the lock.
LEMMA OutsiderKeeps ==
    ASSUME ChainInv, NEW w \in Outsiders, OutsideRead(w) \/ OutsideAppend(w)
    PROVE  ChainInv'
<1>1. CASE OutsideRead(w)
  <2>1. LogOK' /\ Tails' = Tails
    BY <1>1, LogUnchanged DEF ChainInv, OutsideRead, tables
  <2>2. Len(events) \in Nat
    BY LenProperties DEF ChainInv, LogOK, SomeSeq
  <2>3. Len(events) \in Tails
    BY <2>2 DEF Tails
  <2>4. OutsideOK'
    BY <1>1, <2>1, <2>3 DEF ChainInv, OutsideOK, OutsideRead
  <2>5. TxsOK'
    BY <1>1, <2>1 DEF ChainInv, TxsOK, TxOK, OutsideRead
  <2> QED
    BY <2>1, <2>4, <2>5 DEF ChainInv
<1>2. CASE OutsideAppend(w)
  <2>1. LogOK' /\ Tails \subseteq Tails'
    <3>1. CASE UNCHANGED <<events, previous>>
      BY <3>1, LogUnchanged DEF ChainInv
    <3>2. CASE AppendEvents(outside[w].tail, << Outside >>)
      <4>1. outside[w].tail \in Tails
        BY <1>2 DEF ChainInv, OutsideOK, OutsideAppend
      <4> QED
        BY <3>2, <4>1, AppendKeepsChain, TuplesAreSeqs DEF ChainInv
    <3> QED
      BY <1>2, <3>1, <3>2 DEF OutsideAppend
  <2>2. OutsideOK'
    BY <1>2, <2>1 DEF ChainInv, OutsideOK, OutsideAppend
  <2>3. TxsOK'
    BY <1>2, <2>1 DEF ChainInv, TxsOK, TxOK, OutsideAppend
  <2> QED
    BY <2>1, <2>2, <2>3 DEF ChainInv
<1> QED
  BY <1>1, <1>2

-----------------------------------------------------------------------------
\* An empty log is a linear chain, and nobody holds a tail.
LEMMA InitChain == Init => ChainInv
<1> SUFFICES ASSUME Init PROVE ChainInv
  OBVIOUS
<1>1. events = <<>> /\ previous = <<>>
  BY DEF Init
<1>2. SomeSeq(events) /\ previous \in Seq(Nat) /\ Len(previous) = Len(events) /\ ChainLinear
  BY <1>1, EmptySeq DEF SomeSeq, ChainLinear
<1>3. TxsOK
  BY DEF Init, TxsOK, TxOK, Idle
<1>4. OutsideOK
  BY DEF Init, OutsideOK
<1> QED
  BY <1>2, <1>3, <1>4 DEF ChainInv, LogOK

\* Every step keeps the chain linear and the held tails places of it.
LEMMA NextChain == ChainInv /\ [Next]_vars => ChainInv'
<1> SUFFICES ASSUME ChainInv, [Next]_vars PROVE ChainInv'
  OBVIOUS
<1>1. CASE \E r \in Requests : Begin(r) \/ Serve(r) \/ Abort(r) \/ FinishSuggest(r)
  BY <1>1, RequestKeeps, PlanKeeps, CommitKeeps DEF Serve
<1>2. CASE \E r \in Requests, v \in DOMAIN vouchers : BeginSuggest(r, v)
  BY <1>2, SuggestKeeps
<1>3. CASE \E w \in Outsiders : OutsideRead(w) \/ OutsideAppend(w)
  BY <1>3, OutsiderKeeps
<1>4. CASE UNCHANGED vars
  <2>1. LogOK' /\ Tails' = Tails
    BY <1>4, LogUnchanged DEF ChainInv, vars, tables
  <2> QED
    BY <1>4, <2>1 DEF ChainInv, TxsOK, TxOK, OutsideOK, vars
<1> QED
  BY <1>1, <1>2, <1>3, <1>4 DEF Next

\* However appenders, crashes, fork retries and writers without the lock
\* interleave, ledger.events is one chain in seq order.
THEOREM ChainIsLinear == Spec => []ChainLinear
<1>1. ChainInv => ChainLinear
  BY DEF ChainInv, LogOK
<1> QED
  BY InitChain, NextChain, <1>1, PTL DEF Spec

-----------------------------------------------------------------------------
(* The advisory lock.                                                      *)

\* Who waits for the lock or holds it, and who holds it.
Queued == {"waiting", "locked", "planned"}
Holding == {"locked", "planned"}

\* Q is a queue without duplicates of the requests that wait for the lock or
\* hold it, and who holds it is its head.
LockHeld(Q, T) ==
    /\ Q \in Seq(Requests)
    /\ \A i, j \in 1..Len(Q) : Q[i] = Q[j] => i = j
    /\ \A i \in 1..Len(Q) : T[Q[i]].phase \in Queued
    /\ \A r \in Requests : T[r].phase \in Queued => \E i \in 1..Len(Q) : Q[i] = r
    /\ \A r \in Requests : T[r].phase \in Holding => Q[1] = r

\* The queue of the advisory lock agrees with what each request is doing.
LockInv ==
    /\ tx = [r \in Requests |-> tx[r]]
    /\ LockHeld(queue, tx)

\* The transaction of one request is replaced.
LEMMA TxReplaced ==
    ASSUME tx = [s \in Requests |-> tx[s]], NEW r \in Requests, NEW t, tx' = [tx EXCEPT ![r] = t]
    PROVE  /\ tx' = [s \in Requests |-> tx'[s]]
           /\ tx'[r] = t
           /\ \A s \in Requests \ {r} : tx'[s] = tx[s]
  OBVIOUS

\* A request leaves the queue, or was not in it; the others keep their order.
LEMMA UnqueuedLeaves ==
    ASSUME LockHeld(queue, tx), NEW r \in Requests
    PROVE  /\ Unqueued(r) \in Seq(Requests)
           /\ \A i, j \in 1..Len(Unqueued(r)) : Unqueued(r)[i] = Unqueued(r)[j] => i = j
           /\ \A i \in 1..Len(Unqueued(r)) :
                 Unqueued(r)[i] # r /\ \E j \in 1..Len(queue) : Unqueued(r)[i] = queue[j]
           /\ \A j \in 1..Len(queue) : queue[j] # r => \E i \in 1..Len(Unqueued(r)) : Unqueued(r)[i] = queue[j]
           /\ Len(queue) > 0 /\ queue[1] # r => Unqueued(r)[1] = queue[1]
<1> DEFINE n == Len(queue)
           places == {i \in DOMAIN queue : queue[i] = r}
           at == CHOOSE i \in places : TRUE
           shorter == [i \in 1..(n - 1) |-> IF i < at THEN queue[i] ELSE queue[i + 1]]
           u == Unqueued(r)
<1>1. /\ queue \in Seq(Requests)
      /\ \A i, j \in 1..n : queue[i] = queue[j] => i = j
  BY DEF LockHeld
<1>2. n \in Nat /\ DOMAIN queue = 1..n /\ queue \in [1..n -> Requests]
  BY <1>1, LenProperties
<1>3. Unqueued(r) = IF places = {} THEN queue ELSE shorter
  BY DEF Unqueued
<1>4. CASE places = {}
  <2>1. \A i \in 1..n : queue[i] # r
    BY <1>2, <1>4
  <2>2. Unqueued(r) = queue
    BY <1>3, <1>4
  <2> QED
    BY <1>1, <2>1, <2>2
<1>5. CASE places # {}
  <2>1. at \in places
    BY <1>5
  <2>2. at \in 1..n /\ queue[at] = r
    BY <1>2, <2>1
  <2>3. u = shorter
    BY <1>3, <1>5
  <2> HIDE DEF at, places
  <2>4. n - 1 \in Nat /\ shorter \in [1..(n - 1) -> Requests]
    BY <1>2, <2>2
  <2>5. shorter \in Seq(Requests)
    BY <2>4, SeqDef
  <2>6. Len(shorter) = n - 1
    BY <2>4, <2>5, LenProperties
  <2>7. \A i \in 1..(n - 1) : shorter[i] = IF i < at THEN queue[i] ELSE queue[i + 1]
    OBVIOUS
  <2> HIDE DEF shorter, n
  <2>8. ASSUME NEW i \in 1..(n - 1)
        PROVE  \E j \in 1..n : shorter[i] = queue[j] /\ j # at /\ j = IF i < at THEN i ELSE i + 1
    <3>1. CASE i < at
      <4>1. i \in 1..n /\ i # at /\ shorter[i] = queue[i]
        BY <1>2, <2>2, <2>7, <3>1
      <4> QED
        BY <3>1, <4>1
    <3>2. CASE ~ (i < at)
      <4>1. i + 1 \in 1..n /\ i + 1 # at /\ shorter[i] = queue[i + 1]
        BY <1>2, <2>2, <2>7, <3>2
      <4> QED
        BY <3>2, <4>1
    <3> QED
      BY <3>1, <3>2
  <2>9. \A i \in 1..(n - 1) : shorter[i] # r
    BY <1>1, <2>2, <2>8 DEF n
  <2>10. ASSUME NEW i \in 1..(n - 1), NEW j \in 1..(n - 1), shorter[i] = shorter[j]
         PROVE  i = j
    <3>1. PICK k \in 1..n : shorter[i] = queue[k] /\ k = IF i < at THEN i ELSE i + 1
      BY <2>8
    <3>2. PICK l \in 1..n : shorter[j] = queue[l] /\ l = IF j < at THEN j ELSE j + 1
      BY <2>8
    <3>3. k = l
      BY <1>1, <2>10, <3>1, <3>2 DEF n
    <3> QED
      BY <1>2, <2>2, <3>1, <3>2, <3>3
  <2>11. ASSUME NEW j \in 1..n, queue[j] # r
         PROVE  \E i \in 1..(n - 1) : shorter[i] = queue[j]
    <3>1. j # at
      BY <2>2, <2>11
    <3>2. CASE j < at
      <4>1. j \in 1..(n - 1) /\ shorter[j] = queue[j]
        BY <1>2, <2>2, <2>7, <3>2
      <4> QED
        BY <4>1
    <3>3. CASE j > at
      <4>1. j - 1 \in 1..(n - 1) /\ ~ (j - 1 < at) /\ (j - 1) + 1 = j
        BY <1>2, <2>2, <3>3
      <4>2. shorter[j - 1] = queue[j]
        BY <2>7, <4>1
      <4> QED
        BY <4>1, <4>2
    <3> QED
      BY <1>2, <2>2, <3>1, <3>2, <3>3
  <2>12. ASSUME queue[1] # r PROVE shorter[1] = queue[1]
    <3>1. 1 < at /\ 1 \in 1..(n - 1)
      BY <1>2, <2>2, <2>12
    <3> QED
      BY <2>7, <3>1
  <2> HIDE DEF u
  <2>13. u = shorter /\ Len(u) = n - 1
    BY <2>3, <2>6
  <2>14. /\ u \in Seq(Requests)
         /\ \A i, j \in 1..Len(u) : u[i] = u[j] => i = j
         /\ \A i \in 1..Len(u) : u[i] # r /\ \E j \in 1..n : u[i] = queue[j]
         /\ \A j \in 1..n : queue[j] # r => \E i \in 1..Len(u) : u[i] = queue[j]
         /\ queue[1] # r => u[1] = queue[1]
    BY <2>5, <2>8, <2>9, <2>10, <2>11, <2>12, <2>13
  <2> QED
    BY <2>14 DEF u, n
<1> QED
  BY <1>4, <1>5

\* A transaction that stays where it is in the queue, or out of it.
LEMMA LockStays ==
    ASSUME LockInv, NEW r \in Requests, NEW t, tx' = [tx EXCEPT ![r] = t], queue' = queue,
           t.phase \in Queued <=> tx[r].phase \in Queued,
           t.phase \in Holding => tx[r].phase \in Queued /\ queue[1] = r
    PROVE  LockInv'
<1>1. /\ tx' = [s \in Requests |-> tx'[s]]
      /\ tx'[r] = t /\ \A s \in Requests \ {r} : tx'[s] = tx[s]
  BY TxReplaced DEF LockInv
<1>2. \A i \in 1..Len(queue) : queue[i] \in Requests
  BY ElementOfSeq, LenProperties DEF LockInv, LockHeld
<1>3. \A i \in 1..Len(queue) : tx'[queue[i]].phase \in Queued
  BY <1>1, <1>2 DEF LockInv, LockHeld
<1>4. \A s \in Requests : tx'[s].phase \in Queued => \E i \in 1..Len(queue) : queue[i] = s
  BY <1>1 DEF LockInv, LockHeld
<1>5. \A s \in Requests : tx'[s].phase \in Holding => queue[1] = s
  BY <1>1 DEF LockInv, LockHeld
<1> QED
  BY <1>1, <1>3, <1>4, <1>5 DEF LockInv, LockHeld

\* A request that is in no queue joins Q, behind everybody.
LEMMA JoinsQueue ==
    ASSUME NEW Q, NEW T, LockHeld(Q, T), NEW r \in Requests, \A i \in 1..Len(Q) : Q[i] # r,
           NEW U, U[r].phase = "waiting", \A s \in Requests \ {r} : U[s] = T[s]
    PROVE  LockHeld(Append(Q, r), U)
<1> DEFINE n == Len(Q)
           A == Append(Q, r)
<1>1. /\ Q \in Seq(Requests)
      /\ \A i, j \in 1..n : Q[i] = Q[j] => i = j
      /\ \A i \in 1..n : T[Q[i]].phase \in Queued
      /\ \A s \in Requests : T[s].phase \in Queued => \E i \in 1..n : Q[i] = s
      /\ \A s \in Requests : T[s].phase \in Holding => Q[1] = s
  BY DEF LockHeld
<1>2. /\ A \in Seq(Requests) /\ n \in Nat /\ Len(A) = n + 1
      /\ \A i \in 1..n : A[i] = Q[i]
      /\ A[n + 1] = r
  BY <1>1, AppendRow
<1>3. \A i \in 1..n : Q[i] \in Requests \ {r}
  BY <1>1, ElementOfSeq, LenProperties
<1> HIDE DEF n, A
<1>4. \A i, j \in 1..(n + 1) : A[i] = A[j] => i = j
  BY <1>1, <1>2, <1>3
<1>5. \A i \in 1..(n + 1) : U[A[i]].phase \in Queued
  <2>1. \A i \in 1..n : U[A[i]].phase \in Queued
    BY <1>1, <1>2, <1>3
  <2>2. U[A[n + 1]].phase \in Queued
    BY <1>2 DEF Queued
  <2> QED
    BY <1>2, <2>1, <2>2
<1>6. \A s \in Requests : U[s].phase \in Queued => \E i \in 1..(n + 1) : A[i] = s
  <2>1. n + 1 \in 1..(n + 1) /\ \A i \in 1..n : i \in 1..(n + 1)
    BY <1>2
  <2> QED
    BY <1>1, <1>2, <2>1
<1>7. ASSUME NEW s \in Requests, U[s].phase \in Holding PROVE A[1] = s
  <2>1. s # r
    BY <1>7 DEF Holding
  <2>2. T[s].phase \in Holding /\ T[s].phase \in Queued
    BY <1>7, <2>1 DEF Holding, Queued
  <2>3. 1 \in 1..n
    BY <1>1, <1>2, <2>2
  <2> QED
    BY <1>1, <1>2, <2>2, <2>3
<1> QED
  BY <1>2, <1>4, <1>5, <1>6, <1>7 DEF LockHeld, A

\* Without r in it the queue is one of the other requests.
LEMMA LeavesQueue ==
    ASSUME LockInv, NEW r \in Requests, NEW U, U[r].phase \notin Queued,
           \A s \in Requests \ {r} : U[s] = tx[s]
    PROVE  LockHeld(Unqueued(r), U) /\ \A i \in 1..Len(Unqueued(r)) : Unqueued(r)[i] # r
<1> DEFINE u == Unqueued(r)
<1>1. LockHeld(queue, tx)
  BY DEF LockInv
<1>2. /\ u \in Seq(Requests)
      /\ \A i, j \in 1..Len(u) : u[i] = u[j] => i = j
      /\ \A i \in 1..Len(u) : u[i] # r /\ \E j \in 1..Len(queue) : u[i] = queue[j]
      /\ \A j \in 1..Len(queue) : queue[j] # r => \E i \in 1..Len(u) : u[i] = queue[j]
      /\ Len(queue) > 0 /\ queue[1] # r => u[1] = queue[1]
  BY <1>1, UnqueuedLeaves
<1> HIDE DEF u
<1>3. \A i \in 1..Len(queue) : queue[i] \in Requests
  BY <1>1, ElementOfSeq, LenProperties DEF LockHeld
<1>4. \A i \in 1..Len(u) : U[u[i]].phase \in Queued
  BY <1>1, <1>2, <1>3 DEF LockHeld
<1>5. \A s \in Requests : U[s].phase \in Queued => \E i \in 1..Len(u) : u[i] = s
  BY <1>1, <1>2 DEF LockHeld
<1>6. ASSUME NEW s \in Requests, U[s].phase \in Holding PROVE u[1] = s
  <2>1. s # r
    BY <1>6 DEF Holding, Queued
  <2>2. tx[s].phase \in Holding /\ tx[s].phase \in Queued
    BY <1>6, <2>1 DEF Holding, Queued
  <2>3. queue[1] = s /\ \E i \in 1..Len(queue) : queue[i] = s
    BY <1>1, <2>2 DEF LockHeld
  <2>4. Len(queue) \in Nat
    BY <1>1, LenProperties DEF LockHeld
  <2>5. Len(queue) > 0
    BY <2>3, <2>4
  <2> QED
    BY <1>2, <2>1, <2>3, <2>5
<1> QED
  BY <1>2, <1>4, <1>5, <1>6 DEF LockHeld, u

\* A transaction that ends.
LEMMA LockLeft ==
    ASSUME LockInv, NEW r \in Requests, NEW t, t.phase \notin Queued,
           tx' = [tx EXCEPT ![r] = t], queue' = Unqueued(r)
    PROVE  LockInv'
<1>1. /\ tx' = [s \in Requests |-> tx'[s]]
      /\ tx'[r] = t /\ \A s \in Requests \ {r} : tx'[s] = tx[s]
  BY TxReplaced DEF LockInv
<1>2. LockHeld(Unqueued(r), tx')
  BY <1>1, LeavesQueue
<1> QED
  BY <1>1, <1>2 DEF LockInv, LockHeld

\* A transaction that is run again.
LEMMA LockRejoined ==
    ASSUME LockInv, NEW r \in Requests, NEW t, t.phase = "waiting",
           tx' = [tx EXCEPT ![r] = t], queue' = Append(Unqueued(r), r)
    PROVE  LockInv'
<1> DEFINE U == [tx EXCEPT ![r] = Idle]
<1>1. /\ tx' = [s \in Requests |-> tx'[s]]
      /\ tx'[r] = t /\ \A s \in Requests \ {r} : tx'[s] = tx[s]
  BY TxReplaced DEF LockInv
<1>2. U[r].phase \notin Queued /\ \A s \in Requests \ {r} : U[s] = tx[s]
  BY DEF LockInv, Idle, Queued
<1> HIDE DEF U
<1>3. LockHeld(Unqueued(r), U) /\ \A i \in 1..Len(Unqueued(r)) : Unqueued(r)[i] # r
  BY <1>2, LeavesQueue
<1>4. LockHeld(Append(Unqueued(r), r), tx')
  BY <1>1, <1>2, <1>3, JoinsQueue
<1> QED
  BY <1>1, <1>4 DEF LockInv, LockHeld

\* A transaction that is opened.
LEMMA LockJoined ==
    ASSUME LockInv, NEW r \in Requests, NEW t, t.phase = "waiting", tx[r].phase \notin Queued,
           tx' = [tx EXCEPT ![r] = t], queue' = Append(queue, r)
    PROVE  LockInv'
<1>1. /\ tx' = [s \in Requests |-> tx'[s]]
      /\ tx'[r] = t /\ \A s \in Requests \ {r} : tx'[s] = tx[s]
  BY TxReplaced DEF LockInv
<1>2. \A i \in 1..Len(queue) : queue[i] # r
  BY DEF LockInv, LockHeld
<1>3. LockHeld(Append(queue, r), tx')
  BY <1>1, <1>2, JoinsQueue DEF LockInv
<1> QED
  BY <1>1, <1>3 DEF LockInv, LockHeld
-----------------------------------------------------------------------------
(* The steps, by what they do to the tables and to the transactions.       *)

\* An operation that has read ends, or hands over what it planned.
LEMMA PlanShape ==
    ASSUME NEW r \in Requests, Plan(r)
    PROVE  /\ tx[r].phase = "locked"
           /\ UNCHANGED <<tables, outside>>
           /\ End(r) \/ \E op, plan : Planned(r, op, plan)
<1>1. ASSUME NEW op, \/ PlanCreate(r, op) \/ PlanCompose(r, op) \/ PlanRefresh(r, op)
                     \/ PlanImport(r, op) \/ PlanDecision(r, op) \/ PlanSimulation(r, op)
      PROVE  /\ tx[r].phase = "locked"
             /\ UNCHANGED tables
             /\ End(r) \/ \E plan : Planned(r, op, plan)
  <2>1. CASE PlanCreate(r, op)
    BY <2>1 DEF PlanCreate, Runs
  <2>2. CASE PlanCompose(r, op)
    BY <2>2 DEF PlanCompose, Runs
  <2>3. CASE PlanRefresh(r, op)
    BY <2>3 DEF PlanRefresh, Runs
  <2>4. CASE PlanImport(r, op)
    BY <2>4 DEF PlanImport, Runs
  <2>5. CASE PlanDecision(r, op)
    BY <2>5 DEF PlanDecision, Runs
  <2>6. CASE PlanSimulation(r, op)
    BY <2>6 DEF PlanSimulation, Runs
  <2> QED
    BY <1>1, <2>1, <2>2, <2>3, <2>4, <2>5, <2>6
<1>2. \E op : \/ PlanCreate(r, op) \/ PlanCompose(r, op) \/ PlanRefresh(r, op)
              \/ PlanImport(r, op) \/ PlanDecision(r, op) \/ PlanSimulation(r, op)
  BY DEF Plan
<1>3. PICK op : /\ tx[r].phase = "locked"
                /\ UNCHANGED tables
                /\ End(r) \/ \E plan : Planned(r, op, plan)
  BY <1>1, <1>2
<1> QED
  BY <1>3 DEF End, Planned

\* A commit ends the transaction.
LEMMA CommitShape ==
    ASSUME NEW r \in Requests, Commit(r)
    PROVE  tx[r].phase = "planned" /\ End(r)
  BY DEF Commit, CommitCreate, CommitCompose, CommitRefresh, CommitImport, CommitDecision,
         CommitSimulation, Writes

\* Begin, the reads, a rollback and a fork leave the tables alone.
TxStep(r) == Begin(r) \/ LockTail(r) \/ Plan(r) \/ Abort(r) \/ ForkAborts(r)

\* The steps there are.
LEMMA StepKinds ==
    ASSUME [Next]_vars
    PROVE  \/ \E r \in Requests : TxStep(r)
           \/ \E r \in Requests : Commit(r)
           \/ \E r \in Requests : FinishSuggest(r)
           \/ \E r \in Requests, v \in DOMAIN vouchers : BeginSuggest(r, v)
           \/ \E w \in Outsiders : OutsideRead(w) \/ OutsideAppend(w)
           \/ UNCHANGED vars
  BY DEF Next, Serve, TxStep

-----------------------------------------------------------------------------
\* A step of a transaction keeps the queue in order.
LEMMA TxStepKeepsLock ==
    ASSUME LockInv, NEW r \in Requests, TxStep(r)
    PROVE  LockInv'
<1>1. CASE Begin(r)
  <2> DEFINE t == Waiting(1, NoOp)
  <2>1. t.phase = "waiting"
    BY DEF Waiting
  <2>2. tx[r].phase \notin Queued /\ tx' = [tx EXCEPT ![r] = t] /\ queue' = Append(queue, r)
    BY <1>1 DEF Begin, Queued
  <2> HIDE DEF t
  <2> QED
    BY <2>1, <2>2, LockJoined
<1>2. CASE LockTail(r)
  <2> DEFINE t == [phase |-> "locked", attempt |-> tx[r].attempt,
                   op    |-> tx[r].op, tail    |-> Len(events)]
  <2>1. t.phase = "locked" /\ tx[r].phase = "waiting"
    BY <1>2 DEF LockTail
  <2>2. tx' = [tx EXCEPT ![r] = t] /\ queue' = queue /\ Head(queue) = r
    BY <1>2 DEF LockTail
  <2>3. queue[1] = r
    BY <2>2
  <2> HIDE DEF t
  <2>4. t.phase \in Queued /\ tx[r].phase \in Queued
    BY <2>1 DEF Queued
  <2> QED
    BY <2>2, <2>3, <2>4, LockStays
<1>3. CASE Plan(r)
  <2>1. tx[r].phase = "locked" /\ (End(r) \/ \E op, plan : Planned(r, op, plan))
    BY <1>3, PlanShape
  <2>2. CASE End(r)
    BY <2>2, LockLeft DEF End, Idle, Queued
  <2>3. ASSUME NEW op, NEW plan, Planned(r, op, plan) PROVE LockInv'
    <3> DEFINE t == [phase |-> "planned", attempt |-> tx[r].attempt, op |-> op,
                     tail  |-> tx[r].tail, plan |-> plan]
    <3>1. t.phase = "planned"
      OBVIOUS
    <3>2. tx' = [tx EXCEPT ![r] = t] /\ queue' = queue
      BY <2>3 DEF Planned
    <3> HIDE DEF t
    <3>3. t.phase \in Queued /\ tx[r].phase \in Queued /\ tx[r].phase \in Holding
      BY <2>1, <3>1 DEF Queued, Holding
    <3>4. queue[1] = r
      BY <3>3 DEF LockInv, LockHeld
    <3> QED
      BY <3>2, <3>3, <3>4, LockStays
  <2> QED
    BY <2>1, <2>2, <2>3
<1>4. CASE Abort(r)
  BY <1>4, LockLeft DEF Abort, End, Idle, Queued
<1>5. CASE ForkAborts(r)
  <2>1. CASE tx' = [tx EXCEPT ![r] = Waiting(2, tx[r].op)] /\ queue' = Append(Unqueued(r), r)
    <3> DEFINE t == Waiting(2, tx[r].op)
    <3>1. t.phase = "waiting"
      BY DEF Waiting
    <3> HIDE DEF t
    <3> QED
      BY <2>1, <3>1, LockRejoined DEF t
  <2>2. CASE tx' = [tx EXCEPT ![r] = Conflict] /\ queue' = Unqueued(r)
    BY <2>2, LockLeft DEF Conflict, Queued
  <2> QED
    BY <1>5, <2>1, <2>2 DEF ForkAborts
<1> QED
  BY <1>1, <1>2, <1>3, <1>4, <1>5 DEF TxStep

\* Every step does.
LEMMA NextKeepsLock == LockInv /\ [Next]_vars => LockInv'
<1> SUFFICES ASSUME LockInv, [Next]_vars PROVE LockInv'
  OBVIOUS
<1>1. ASSUME NEW r \in Requests, TxStep(r) PROVE LockInv'
  BY <1>1, TxStepKeepsLock
<1>2. ASSUME NEW r \in Requests, Commit(r) \/ FinishSuggest(r) PROVE LockInv'
  <2>1. End(r)
    BY <1>2, CommitShape DEF FinishSuggest
  <2> QED
    BY <2>1, LockLeft DEF End, Idle, Queued
<1>3. ASSUME NEW r \in Requests, NEW v \in DOMAIN vouchers, BeginSuggest(r, v) PROVE LockInv'
  <2> DEFINE t == [phase |-> "suggesting", voucher |-> v,
                   suggestion |-> DeterministicSuggestion(vouchers[v].fields)]
  <2>1. t.phase \notin Queued /\ t.phase \notin Holding
    BY DEF Queued, Holding
  <2>2. tx' = [tx EXCEPT ![r] = t] /\ queue' = queue /\ tx[r].phase \notin Queued
    BY <1>3 DEF BeginSuggest, Queued
  <2> HIDE DEF t
  <2> QED
    BY <2>1, <2>2, LockStays
<1>4. ASSUME UNCHANGED <<queue, tx>> PROVE LockInv'
  BY <1>4 DEF LockInv, LockHeld
<1> QED
  BY <1>1, <1>2, <1>3, <1>4, StepKinds DEF OutsideRead, OutsideAppend, vars

\* Nobody queues at first.
LEMMA InitLock == Init => LockInv
<1> SUFFICES ASSUME Init PROVE LockInv
  OBVIOUS
<1>1. queue \in Seq(Requests) /\ 1..Len(queue) = {}
  BY EmptySeq DEF Init
<1>2. tx = [r \in Requests |-> Idle]
  BY DEF Init
<1> QED
  BY <1>1, <1>2 DEF LockInv, LockHeld, Idle, Queued, Holding

\* One transaction at a time is past its read of the tail.
LEMMA OneHolder ==
    ASSUME LockInv, NEW r \in Requests, NEW s \in Requests,
           tx[r].phase \in Holding, tx[s].phase \in Holding
    PROVE  r = s
  BY DEF LockInv, LockHeld
-----------------------------------------------------------------------------
(* Rows, and what open transactions hold.                                  *)

Phases == {"idle", "conflict", "waiting", "locked", "planned", "suggesting"}
\* What the log holds: the store's events and those of outsiders.
LoggedEvents == Events \cup {Outside}

\* Vouchers, their numbers and their reviews are created together; each voucher
\* has a packet that exists and that no other voucher has.
RowsOK ==
    /\ evidence \in Seq(Hashes \cup {NoHash})
    /\ packets \in Seq(SUBSET Nat)
    /\ vouchers \in Seq(Vouchers)
    /\ numbers \in Seq(Nat)
    /\ reviews \in Seq(Reviews)
    /\ events \in Seq(LoggedEvents)
    /\ Len(numbers) = Len(vouchers) /\ Len(reviews) = Len(vouchers)
    /\ \A v \in 1..Len(vouchers) :
          /\ numbers[v] = v
          /\ vouchers[v].packet \in 1..Len(packets)
          /\ reviews[v].status = vouchers[v].status
    /\ \A v, w \in 1..Len(vouchers) : vouchers[v].packet = vouchers[w].packet => v = w

\* The operation is one the API can ask for, and what it has read still holds.
PlanOK(op, plan) ==
    /\ op \in Operations
    /\ op.kind = "create" => plan.count = Len(vouchers) /\ Duplicates(op.hash) = {}
    /\ op.kind = "compose" => plan.voucher = 0 \/ plan.voucher \in 1..Len(vouchers)
    /\ op.kind = "refresh" =>
          /\ plan.voucher \in 1..Len(vouchers)
          /\ vouchers[plan.voucher].status = "needs-review"
          /\ plan.row.fields \in Fields
    /\ op.kind = "import" => plan.new \in Orders(op.file \ Imported(events))
    /\ op.kind = "decide" =>
          /\ op.voucher \in 1..Len(vouchers)
          /\ plan.row = vouchers[op.voucher]
          /\ plan.row.status = "needs-review"
          /\ plan.review \in Reviews
          /\ plan.review.blocked = reviews[op.voucher].blocked
          /\ ~ ReviewBlocked(plan.review, op.action, EnforceBlockedReason)

\* A transaction has its types, what a planned one has read still holds, and a
\* regeneration is of a voucher that exists.
TxTyped(t) ==
    /\ t.phase \in Phases
    /\ t.phase \in Queued => t.attempt \in {1, 2} /\ t.op \in Operations \cup {NoOp}
    /\ t.phase = "planned" => PlanOK(t.op, t.plan)
    /\ t.phase = "suggesting" => t.voucher \in 1..Len(vouchers) /\ t.suggestion \in Suggestions

\* The rows and every transaction are in order.
TypesInv == RowsOK /\ \A r \in Requests : TxTyped(tx[r])

\* An operation of a kind is one of the operations of this kind.
LEMMA OperationKinds ==
    ASSUME NEW op \in Operations
    PROVE  /\ op.kind = "create" => op \in Creates
           /\ op.kind = "compose" => op \in Composes
           /\ op.kind = "refresh" => op \in Refreshes
           /\ op.kind = "import" => op \in Imports
           /\ op.kind = "decide" => op \in Decisions
  BY DEF Operations, Creates, Composes, Refreshes, Imports, Decisions, Simulations

\* The rows and their places.
LEMMA RowPlaces ==
    ASSUME RowsOK
    PROVE  /\ Len(evidence) \in Nat /\ Len(packets) \in Nat /\ Len(vouchers) \in Nat
           /\ Len(events) \in Nat
           /\ DOMAIN evidence = 1..Len(evidence) /\ DOMAIN packets = 1..Len(packets)
           /\ DOMAIN vouchers = 1..Len(vouchers) /\ DOMAIN numbers = 1..Len(vouchers)
           /\ DOMAIN reviews = 1..Len(vouchers)
           /\ \A v \in 1..Len(vouchers) : vouchers[v] \in Vouchers /\ reviews[v] \in Reviews
  BY LenProperties, ElementOfSeq DEF RowsOK

\* What an operation plans under the lock holds at that moment.
LEMMA PlanEffect ==
    ASSUME RowsOK, NEW r \in Requests, Plan(r)
    PROVE  End(r) \/ \E op, plan : Planned(r, op, plan) /\ PlanOK(op, plan)
<1> DEFINE Goal == End(r) \/ \E op, plan : Planned(r, op, plan) /\ PlanOK(op, plan)
<1>1. ASSUME NEW hash \in Hashes \cup {NoHash}, NEW fields \in Fields,
             PlanCreate(r, [kind |-> "create", hash |-> hash, fields |-> fields])
      PROVE  Goal
  <2> DEFINE op == [kind |-> "create", hash |-> hash, fields |-> fields]
             plan == [count |-> Len(vouchers)]
  <2>1. op \in Operations /\ op.kind = "create" /\ op.hash = hash
    BY DEF Operations, Creates
  <2>2. plan.count = Len(vouchers)
    OBVIOUS
  <2>3. End(r) \/ (Duplicates(hash) = {} /\ Planned(r, op, plan))
    BY <1>1 DEF PlanCreate
  <2> HIDE DEF op, plan
  <2>4. Duplicates(hash) = {} => PlanOK(op, plan)
    BY <2>1, <2>2 DEF PlanOK
  <2> QED
    BY <2>3, <2>4
<1>2. ASSUME NEW S \in SUBSET DOMAIN evidence, NEW ids \in Orders(S),
             PlanCompose(r, [kind |-> "compose", ids |-> ids])
      PROVE  Goal
  <2> DEFINE op == [kind |-> "compose", ids |-> ids]
  <2>1. ids \in Seq(Nat)
    <3>1. DOMAIN evidence = 1..Len(evidence) /\ Len(evidence) \in Nat
      BY RowPlaces
    <3>2. IsFiniteSet(DOMAIN evidence)
      BY <3>1, FS_Interval
    <3>3. IsFiniteSet(S) /\ S \subseteq Nat
      BY <3>1, <3>2, FS_Subset
    <3>4. Cardinality(S) \in Nat
      BY <3>3, FS_CardinalityType
    <3>5. ids \in [1..Cardinality(S) -> Nat]
      BY <3>3 DEF Orders
    <3> QED
      BY <3>4, <3>5, SeqDef
  <2>2. op \in Operations /\ op.kind = "compose"
    BY <2>1 DEF Operations, Composes
  <2>3. \E v : (v = 0 \/ v \in DOMAIN vouchers) /\ Planned(r, op, [voucher |-> v])
    BY <1>2 DEF PlanCompose, LinkedVouchers
  <2>4. PICK v : (v = 0 \/ v \in DOMAIN vouchers) /\ Planned(r, op, [voucher |-> v])
    BY <2>3
  <2> DEFINE plan == [voucher |-> v]
  <2>5. plan.voucher = v
    OBVIOUS
  <2>6. Planned(r, op, plan)
    BY <2>4
  <2> HIDE DEF op, plan
  <2>7. PlanOK(op, plan)
    BY <2>2, <2>4, <2>5, RowPlaces DEF PlanOK
  <2> QED
    BY <2>6, <2>7
<1>3. ASSUME NEW e \in DOMAIN evidence, NEW x \in Extractions,
             PlanRefresh(r, [kind |-> "refresh", item |-> e, extraction |-> x])
      PROVE  Goal
  <2> DEFINE op == [kind |-> "refresh", item |-> e, extraction |-> x]
  <2>1. op \in Operations /\ op.kind = "refresh"
    BY RowPlaces DEF Operations, Refreshes
  <2>2. CASE End(r)
    BY <2>2
  <2>3. CASE ~ End(r)
    <3>1. PICK v \in DOMAIN vouchers :
              /\ vouchers[v].status = "needs-review"
              /\ Planned(r, op, [voucher |-> v, row |-> RefreshedVoucher(vouchers[v], x)])
      BY <1>3, <2>3 DEF PlanRefresh, ContextVouchers
    <3> DEFINE row == RefreshedVoucher(vouchers[v], x)
               plan == [voucher |-> v, row |-> row]
    <3>2. v \in 1..Len(vouchers) /\ vouchers[v] \in Vouchers /\ reviews[v] \in Reviews
      BY RowPlaces
    <3>3. row \in Vouchers
      BY <3>2, RefreshedRows
    <3> HIDE DEF row
    <3>4. plan.voucher = v /\ plan.row.fields \in Fields
      BY <3>3 DEF Vouchers
    <3>5. Planned(r, op, plan)
      BY <3>1 DEF row
    <3> HIDE DEF op, plan
    <3>6. PlanOK(op, plan)
      BY <2>1, <3>1, <3>2, <3>4 DEF PlanOK
    <3> QED
      BY <3>5, <3>6
  <2> QED
    BY <2>2, <2>3
<1>4. ASSUME NEW file \in SUBSET SieIds, PlanImport(r, [kind |-> "import", file |-> file])
      PROVE  Goal
  <2> DEFINE op == [kind |-> "import", file |-> file]
  <2>1. op \in Operations /\ op.kind = "import" /\ op.file = file
    BY DEF Operations, Imports
  <2>2. PICK new \in Orders(file \ Imported(events)) : End(r) \/ Planned(r, op, [new |-> new])
    BY <1>4 DEF PlanImport
  <2> DEFINE plan == [new |-> new]
  <2>3. plan.new = new /\ (End(r) \/ Planned(r, op, plan))
    BY <2>2
  <2> HIDE DEF op, plan
  <2>4. PlanOK(op, plan)
    BY <2>1, <2>3 DEF PlanOK
  <2> QED
    BY <2>3, <2>4
<1>5. ASSUME NEW v \in DOMAIN reviews, NEW action \in Actions, NEW edit \in Edits \cup {NoEdit},
             PlanDecision(r, [kind |-> "decide", voucher |-> v, action |-> action, edit |-> edit])
      PROVE  Goal
  <2> DEFINE op == [kind |-> "decide", voucher |-> v, action |-> action, edit |-> edit]
             plan == [review |-> reviews[v], row |-> vouchers[v]]
  <2>1. v \in 1..Len(vouchers) /\ v \in Nat /\ reviews[v] \in Reviews
        /\ reviews[v].status = vouchers[v].status
    BY RowPlaces DEF RowsOK
  <2>2. op \in Operations /\ op.kind = "decide" /\ op.voucher = v /\ op.action = action
    BY <2>1 DEF Operations, Decisions
  <2>3. plan.review = reviews[v] /\ plan.row = vouchers[v]
    OBVIOUS
  <2>4. \/ End(r)
        \/ /\ reviews[v].status = "needs-review"
           /\ ~ ReviewBlocked(reviews[v], action, EnforceBlockedReason)
           /\ Planned(r, op, plan)
    BY <1>5 DEF PlanDecision
  <2> HIDE DEF op, plan
  <2>5. ASSUME reviews[v].status = "needs-review",
               ~ ReviewBlocked(reviews[v], action, EnforceBlockedReason)
        PROVE  PlanOK(op, plan)
    BY <2>1, <2>2, <2>3, <2>5 DEF PlanOK
  <2> QED
    BY <2>4, <2>5
<1>6. ASSUME PlanSimulation(r, [kind |-> "simulate"]) PROVE Goal
  <2> DEFINE op == [kind |-> "simulate"]
             plan == [title |-> "simulation"]
  <2>1. op \in Operations /\ op.kind = "simulate"
    BY DEF Operations, Simulations
  <2>2. Planned(r, op, plan)
    BY <1>6 DEF PlanSimulation
  <2> HIDE DEF op, plan
  <2>3. PlanOK(op, plan)
    BY <2>1 DEF PlanOK
  <2> QED
    BY <2>2, <2>3
<1> HIDE DEF Goal
<1>7. Goal
  BY <1>1, <1>2, <1>3, <1>4, <1>5, <1>6 DEF Plan
<1> QED
  BY <1>7 DEF Goal
-----------------------------------------------------------------------------
\* The rows and the log as they were, but for suggestions and for events that
\* are no import.
ReadsStay ==
    /\ UNCHANGED <<evidence, packets, vouchers>>
    /\ Imported(events') = Imported(events)
    /\ \A v \in 1..Len(vouchers) : reviews'[v].blocked = reviews[v].blocked

\* What a transaction holds survives the steps that do not take the lock.
LEMMA HeldStays ==
    ASSUME ReadsStay, NEW t, TxTyped(t)
    PROVE  TxTyped(t)'
<1>1. ASSUME NEW op, NEW plan, PlanOK(op, plan) PROVE PlanOK(op, plan)'
  <2>1. Duplicates(op.hash)' = Duplicates(op.hash)
    BY DEF ReadsStay, Duplicates, ContextVouchers, NewestPacket
  <2>2. vouchers' = vouchers /\ Imported(events') = Imported(events)
        /\ \A v \in 1..Len(vouchers) : reviews'[v].blocked = reviews[v].blocked
    BY DEF ReadsStay
  <2> QED
    BY <1>1, <2>1, <2>2 DEF PlanOK
<1>2. vouchers' = vouchers
  BY DEF ReadsStay
<1> QED
  BY <1>1, <1>2 DEF TxTyped

\* A transaction that has planned nothing outlives any commit.
LEMMA UnplannedStays ==
    ASSUME NEW t, TxTyped(t), t.phase # "planned", NEW n \in Nat, n = Len(vouchers),
           NEW m \in Nat, m = Len(vouchers'), n <= m
    PROVE  TxTyped(t)'
  BY DEF TxTyped

\* A step that only moves the transaction of r keeps the others.
LEMMA TypesMoved ==
    ASSUME LockInv, TypesInv, NEW r \in Requests, NEW t, tx' = [tx EXCEPT ![r] = t],
           UNCHANGED tables, TxTyped(t)
    PROVE  TypesInv'
<1>1. /\ tx'[r] = t /\ \A s \in Requests \ {r} : tx'[s] = tx[s]
  BY TxReplaced DEF LockInv
<1>2. RowsOK'
  BY DEF TypesInv, RowsOK, tables
<1>3. ReadsStay
  BY DEF ReadsStay, tables
<1>4. ASSUME NEW s \in Requests PROVE TxTyped(tx[s])'
  <2>1. PICK u : u = tx'[s]
    OBVIOUS
  <2>2. TxTyped(u)
    BY <1>1, <2>1 DEF TypesInv
  <2>3. TxTyped(u)'
    BY <1>3, <2>2, HeldStays
  <2> QED
    BY <2>1, <2>3 DEF TxTyped, PlanOK
<1> QED
  BY <1>2, <1>4 DEF TypesInv

\* The steps of a transaction before its commit.
LEMMA TxStepKeepsTypes ==
    ASSUME LockInv, TypesInv, NEW r \in Requests, TxStep(r)
    PROVE  TypesInv'
<1>1. TxTyped(tx[r]) /\ RowsOK
  BY DEF TypesInv
<1>2. ASSUME tx' = [tx EXCEPT ![r] = Idle], UNCHANGED tables PROVE TypesInv'
  <2>1. TxTyped(Idle)
    BY DEF TxTyped, Idle, Phases, Queued
  <2> QED
    BY <1>2, <2>1, TypesMoved
<1>3. CASE Begin(r)
  <2> DEFINE t == Waiting(1, NoOp)
  <2>1. TxTyped(t)
    BY DEF TxTyped, Waiting, Phases, Queued
  <2>2. tx' = [tx EXCEPT ![r] = t] /\ UNCHANGED tables
    BY <1>3 DEF Begin
  <2> HIDE DEF t
  <2> QED
    BY <2>1, <2>2, TypesMoved
<1>4. CASE LockTail(r)
  <2> DEFINE t == [phase |-> "locked", attempt |-> tx[r].attempt,
                   op    |-> tx[r].op, tail    |-> Len(events)]
  <2>1. tx[r].phase \in Queued
    BY <1>4 DEF LockTail, Queued
  <2>2. TxTyped(t)
    BY <1>1, <2>1 DEF TxTyped, Phases
  <2>3. tx' = [tx EXCEPT ![r] = t] /\ UNCHANGED tables
    BY <1>4 DEF LockTail
  <2> HIDE DEF t
  <2> QED
    BY <2>2, <2>3, TypesMoved
<1>5. CASE Plan(r)
  <2>1. tx[r].phase \in Queued /\ UNCHANGED tables
    BY <1>5, PlanShape DEF Queued
  <2>2. CASE End(r)
    BY <1>2, <2>1, <2>2 DEF End
  <2>3. ASSUME NEW op, NEW plan, Planned(r, op, plan), PlanOK(op, plan) PROVE TypesInv'
    <3> DEFINE t == [phase |-> "planned", attempt |-> tx[r].attempt, op |-> op,
                     tail  |-> tx[r].tail, plan |-> plan]
    <3>1. op \in Operations
      BY <2>3 DEF PlanOK
    <3>2. /\ t.phase = "planned" /\ t.attempt \in {1, 2} /\ t.op = op /\ t.plan = plan
      BY <1>1, <2>1 DEF TxTyped
    <3>3. tx' = [tx EXCEPT ![r] = t]
      BY <2>3 DEF Planned
    <3> HIDE DEF t
    <3>4. TxTyped(t)
      BY <2>3, <3>1, <3>2 DEF TxTyped, Phases
    <3> QED
      BY <2>1, <3>3, <3>4, TypesMoved
  <2> QED
    BY <1>1, <1>5, <2>2, <2>3, PlanEffect
<1>6. CASE Abort(r)
  BY <1>2, <1>6 DEF Abort, End
<1>7. CASE ForkAborts(r)
  <2>1. tx[r].phase = "planned" /\ UNCHANGED tables
    BY <1>7 DEF ForkAborts
  <2>2. CASE tx' = [tx EXCEPT ![r] = Waiting(2, tx[r].op)]
    <3> DEFINE t == Waiting(2, tx[r].op)
    <3>1. tx[r].op \in Operations \cup {NoOp}
      BY <1>1, <2>1 DEF TxTyped, Queued
    <3>2. TxTyped(t)
      BY <3>1 DEF TxTyped, Waiting, Phases
    <3> HIDE DEF t
    <3> QED
      BY <2>1, <2>2, <3>2, TypesMoved DEF t
  <2>3. CASE tx' = [tx EXCEPT ![r] = Conflict]
    <3>1. TxTyped(Conflict)
      BY DEF TxTyped, Conflict, Phases, Queued
    <3> QED
      BY <2>1, <2>3, <3>1, TypesMoved
  <2> QED
    BY <1>7, <2>2, <2>3 DEF ForkAborts
<1> QED
  BY <1>3, <1>4, <1>5, <1>6, <1>7 DEF TxStep

\* suggestVoucher reads a row, and what it will write is a suggestion.
LEMMA BeginSuggestKeepsTypes ==
    ASSUME LockInv, TypesInv, NEW r \in Requests, NEW v \in DOMAIN vouchers, BeginSuggest(r, v)
    PROVE  TypesInv'
<1> DEFINE suggestion == DeterministicSuggestion(vouchers[v].fields)
           t == [phase |-> "suggesting", voucher |-> v, suggestion |-> suggestion]
<1>1. v \in 1..Len(vouchers) /\ vouchers[v] \in Vouchers
  BY RowPlaces DEF TypesInv
<1>2. suggestion \in Suggestions
  BY <1>1 DEF Vouchers, Suggestions, DeterministicSuggestion
<1>3. tx' = [tx EXCEPT ![r] = t] /\ UNCHANGED tables
  BY DEF BeginSuggest
<1> HIDE DEF suggestion
<1>4. TxTyped(t)
  BY <1>1, <1>2 DEF TxTyped, Phases, Queued
<1> HIDE DEF t
<1> QED
  BY <1>3, <1>4, TypesMoved

\* It writes the suggestion of an open review, and nothing else.
LEMMA SuggestEffect ==
    ASSUME TypesInv, NEW r \in Requests, FinishSuggest(r)
    PROVE  /\ End(r) /\ tx[r].phase = "suggesting"
           /\ UNCHANGED <<evidence, packets, vouchers, numbers, events, previous>>
           /\ \/ UNCHANGED reviews
              \/ \E v \in 1..Len(vouchers), suggestion \in Suggestions :
                    /\ reviews[v].status = "needs-review"
                    /\ reviews' = [reviews EXCEPT ![v].suggestion = suggestion]
  BY DEF FinishSuggest, TypesInv, TxTyped

\* An update of the suggestion keeps the rows in order.
LEMMA SuggestionWritten ==
    ASSUME RowsOK, NEW v \in 1..Len(vouchers), NEW suggestion \in Suggestions,
           UNCHANGED <<evidence, packets, vouchers, numbers, events>>,
           reviews' = [reviews EXCEPT ![v].suggestion = suggestion]
    PROVE  /\ RowsOK'
           /\ ReadsStay
           /\ reviews'[v] = [reviews[v] EXCEPT !.suggestion = suggestion]
           /\ \A w \in 1..Len(vouchers) : w # v => reviews'[w] = reviews[w]
<1> DEFINE review == [reviews[v] EXCEPT !.suggestion = suggestion]
<1>1. reviews[v] \in Reviews /\ v \in DOMAIN reviews /\ DOMAIN reviews = 1..Len(vouchers)
      /\ reviews \in Seq(Reviews)
  BY RowPlaces DEF RowsOK
<1>2. review \in Reviews /\ review.status = reviews[v].status /\ review.blocked = reviews[v].blocked
  BY <1>1 DEF Reviews
<1>3. reviews' = [reviews EXCEPT ![v] = review]
  OBVIOUS
<1> HIDE DEF review
<1>4. /\ reviews' \in Seq(Reviews) /\ Len(reviews') = Len(reviews)
      /\ reviews'[v] = review
      /\ \A w \in 1..Len(vouchers) : w # v => reviews'[w] = reviews[w]
  BY <1>1, <1>2, <1>3, UpdateRow
<1>5. \A w \in 1..Len(vouchers) : reviews'[w].status = reviews[w].status
                                  /\ reviews'[w].blocked = reviews[w].blocked
  BY <1>2, <1>4
<1>6. RowsOK'
  BY <1>4, <1>5 DEF RowsOK
<1>7. ReadsStay
  BY <1>5 DEF ReadsStay
<1> QED
  BY <1>4, <1>6, <1>7 DEF review

\* Whoever plans under the lock meanwhile has read nothing that it changes.
LEMMA FinishSuggestKeepsTypes ==
    ASSUME LockInv, TypesInv, NEW r \in Requests, FinishSuggest(r)
    PROVE  TypesInv'
<1>1. RowsOK' /\ ReadsStay
  <2>1. UNCHANGED <<evidence, packets, vouchers, numbers, events>>
    BY SuggestEffect
  <2>2. CASE UNCHANGED reviews
    BY <2>1, <2>2 DEF TypesInv, RowsOK, ReadsStay
  <2>3. ASSUME NEW v \in 1..Len(vouchers), NEW suggestion \in Suggestions,
               reviews' = [reviews EXCEPT ![v].suggestion = suggestion]
        PROVE  RowsOK' /\ ReadsStay
    BY <2>1, <2>3, SuggestionWritten DEF TypesInv
  <2> QED
    BY <2>2, <2>3, SuggestEffect
<1>2. tx' = [tx EXCEPT ![r] = Idle]
  BY DEF FinishSuggest, End
<1>3. ASSUME NEW s \in Requests PROVE TxTyped(tx[s])'
  <2>1. PICK u : u = tx'[s]
    OBVIOUS
  <2>2. TxTyped(u)
    BY <1>2, <2>1, TxReplaced DEF TypesInv, LockInv, TxTyped, Idle, Phases, Queued
  <2>3. TxTyped(u)'
    BY <1>1, <2>2, HeldStays
  <2> QED
    BY <2>1, <2>3 DEF TxTyped, PlanOK
<1> QED
  BY <1>1, <1>3 DEF TypesInv

\* An outsider's event is nobody's import, decision or column.
LEMMA OutsideEvent ==
    /\ Outside \in LoggedEvents /\ << Outside >> \in Seq(LoggedEvents)
    /\ ~ IsImport(Outside) /\ ~ Decides(Outside)
    /\ \A log \in Seq(LoggedEvents) : Imported(log \o << Outside >>) = Imported(log)
<1>1. Outside \in LoggedEvents /\ ~ IsImport(Outside) /\ ~ Decides(Outside)
  BY DEF Outside, LoggedEvents, IsImport, Decides
<1>2. << Outside >> \in Seq(LoggedEvents) /\ Len(<< Outside >>) = 1 /\ << Outside >>[1] = Outside
  BY <1>1
<1>3. ASSUME NEW log \in Seq(LoggedEvents)
      PROVE  Imported(log \o << Outside >>) = Imported(log)
  <2> DEFINE u == log \o << Outside >>
             n == Len(log)
  <2>1. /\ n \in Nat /\ DOMAIN log = 1..n /\ DOMAIN u = 1..(n + 1)
        /\ \A i \in 1..n : u[i] = log[i]
        /\ u[n + 1] = Outside
    <3>1. /\ u \in Seq(LoggedEvents) /\ Len(u) = n + 1
          /\ \A i \in 1..(n + 1) : u[i] = IF i <= n THEN log[i] ELSE << Outside >>[i - n]
      BY <1>2, ConcatProperties
    <3>2. n \in Nat /\ (n + 1) - n = 1
      BY LenProperties
    <3>3. u[n + 1] = Outside
      BY <1>2, <3>1, <3>2
    <3> QED
      BY <3>1, <3>2, <3>3, LenProperties
  <2> HIDE DEF u, n
  <2>2. {j \in DOMAIN u : IsImport(u[j])} = {j \in DOMAIN log : IsImport(log[j])}
    BY <1>1, <2>1
  <2> QED
    BY <2>1, <2>2 DEF Imported, u
<1> QED
  BY <1>1, <1>2, <1>3

\* A writer without the lock appends an event of no voucher.
LEMMA OutsiderKeepsTypes ==
    ASSUME LockInv, TypesInv, NEW w \in Outsiders, OutsideRead(w) \/ OutsideAppend(w)
    PROVE  TypesInv'
<1>1. /\ UNCHANGED <<evidence, packets, vouchers, numbers, reviews, tx>>
      /\ events' = events \/ events' = events \o << Outside >>
  BY DEF OutsideRead, OutsideAppend, AppendEvents, tables
<1>2. RowsOK' /\ ReadsStay
  <2>1. events' \in Seq(LoggedEvents) /\ Imported(events') = Imported(events)
    <3>1. events \in Seq(LoggedEvents) /\ << Outside >> \in Seq(LoggedEvents)
      BY OutsideEvent DEF TypesInv, RowsOK
    <3>2. events \o << Outside >> \in Seq(LoggedEvents)
      BY <3>1, ConcatProperties
    <3>3. Imported(events \o << Outside >>) = Imported(events)
      BY <3>1, OutsideEvent
    <3> QED
      BY <1>1, <3>1, <3>2, <3>3
  <2> QED
    BY <1>1, <2>1 DEF TypesInv, RowsOK, ReadsStay
<1>3. ASSUME NEW s \in Requests PROVE TxTyped(tx[s])'
  <2>1. PICK u : u = tx[s]
    OBVIOUS
  <2>2. TxTyped(u)'
    BY <1>2, <2>1, HeldStays DEF TypesInv
  <2> QED
    BY <1>1, <2>1, <2>2 DEF TxTyped, PlanOK
<1> QED
  BY <1>2, <1>3 DEF TypesInv
-----------------------------------------------------------------------------
(* What the commits write, in terms of what was asked for and read.        *)

\* The duplicate search of a create still finds nothing at its commit.
CreateOf(hash, fields) ==
    LET e == Len(evidence) + 1
        p == Len(packets) + 1
        v == Len(vouchers) + 1
    IN  /\ Duplicates(hash) = {}
        /\ events' = events \o CreateEvents(e, v, p, fields)
        /\ evidence' = Append(evidence, hash)
        /\ packets' = Append(packets, {e})
        /\ vouchers' = Append(vouchers, CreatedVoucher(p, fields))
        /\ numbers' = Append(numbers, Len(vouchers) + 1)
        /\ reviews' = Append(reviews, CreatedReview(fields))

\* v is 0 when the packet takes no voucher over.
ComposeOf(items, v) ==
    LET p == Len(packets) + 1
    IN  /\ packets' = Append(packets, items)
        /\ \/ v = 0 /\ UNCHANGED <<vouchers, events, previous>>
           \/ /\ v \in 1..Len(vouchers)
              /\ vouchers' = [vouchers EXCEPT ![v].packet = p]
              /\ events' = events \o << RelinkEvent(v, p) >>
        /\ UNCHANGED <<evidence, numbers, reviews>>

\* A refresh writes a voucher that is still open.
RefreshOf(v, fields) ==
    /\ vouchers[v].status = "needs-review"
    /\ events' = events \o RefreshEvents(v, fields)
    /\ vouchers' = [vouchers EXCEPT ![v].fields = fields]
    /\ reviews' = [reviews EXCEPT ![v] = RefreshedReview(reviews[v], fields)]
    /\ UNCHANGED <<evidence, packets, numbers>>

\* An import writes what is still not imported.
ImportOf(file, new) ==
    /\ new \in Orders(file \ Imported(events))
    /\ events' = events \o ImportedEvents(new)
    /\ UNCHANGED <<evidence, packets, vouchers, numbers, reviews>>

\* read is the review row as it was read, before the latest suggestion.
DecisionOf(v, read, action, edit) ==
    /\ vouchers[v].status = "needs-review"
    /\ read.blocked = reviews[v].blocked
    /\ ~ ReviewBlocked(read, action, EnforceBlockedReason)
    /\ events' = events \o DecisionEvents(v, vouchers[v], read, action, edit)
    /\ reviews' = [reviews EXCEPT ![v].status     = DecidedReview(read, action, edit).status,
                                  ![v].suggestion = DecidedReview(read, action, edit).suggestion]
    /\ vouchers' = [vouchers EXCEPT ![v] = DecidedVoucher(vouchers[v], action)]
    /\ UNCHANGED <<evidence, packets, numbers>>

\* A simulation is only logged.
SimulationOf ==
    /\ events' = events \o << SimulationEvent >>
    /\ UNCHANGED <<evidence, packets, vouchers, numbers, reviews>>

\* What a commit does.
CommitOf ==
    \/ \E hash \in Hashes \cup {NoHash}, fields \in Fields : CreateOf(hash, fields)
    \/ \E items \in SUBSET Nat, v \in Nat : ComposeOf(items, v)
    \/ \E v \in 1..Len(vouchers), fields \in Fields : RefreshOf(v, fields)
    \/ \E file \in SUBSET SieIds : \E new : ImportOf(file, new)
    \/ \E v \in 1..Len(vouchers), read \in Reviews, action \in Actions, edit \in Edits \cup {NoEdit} :
            DecisionOf(v, read, action, edit)
    \/ SimulationOf

\* Each commit writes one of these.
LEMMA CommitEffect ==
    ASSUME TypesInv, NEW r \in Requests, Commit(r)
    PROVE  CommitOf
<1>1. tx[r].phase = "planned"
  BY CommitShape
<1>2. PICK op, plan : op = tx[r].op /\ plan = tx[r].plan
  OBVIOUS
<1>3. PlanOK(op, plan)
  BY <1>1, <1>2 DEF TypesInv, TxTyped
<1>4. op \in Operations
  BY <1>3 DEF PlanOK
<1>5. CASE CommitCreate(r)
  <2>1. op \in Creates /\ op.kind = "create"
    BY <1>2, <1>4, <1>5, OperationKinds DEF CommitCreate, Writes
  <2>2. plan.count = Len(vouchers) /\ Duplicates(op.hash) = {}
    BY <1>3, <2>1 DEF PlanOK
  <2>3. op.hash \in Hashes \cup {NoHash} /\ op.fields \in Fields
    BY <2>1 DEF Creates
  <2>4. CreateOf(op.hash, op.fields)
    BY <1>2, <1>5, <2>2 DEF CommitCreate, CreateOf, AppendEvents
  <2> QED
    BY <2>3, <2>4 DEF CommitOf
<1>6. CASE CommitCompose(r)
  <2> DEFINE items == {op.ids[i] : i \in DOMAIN op.ids}
  <2>1. op \in Composes /\ op.kind = "compose"
    BY <1>2, <1>4, <1>6, OperationKinds DEF CommitCompose, Writes
  <2>2. plan.voucher = 0 \/ plan.voucher \in 1..Len(vouchers)
    BY <1>3, <2>1 DEF PlanOK
  <2>3. items \in SUBSET Nat
    BY <2>1, LenProperties, ElementOfSeq DEF Composes
  <2>4. plan.voucher \in Nat
    BY <2>2, RowPlaces DEF TypesInv
  <2>5. ComposeOf(items, plan.voucher)
    BY <1>2, <1>6, <2>2 DEF CommitCompose, ComposeOf, AppendEvents
  <2> HIDE DEF items
  <2> QED
    BY <2>3, <2>4, <2>5 DEF CommitOf
<1>7. CASE CommitRefresh(r)
  <2>1. op.kind = "refresh"
    BY <1>2, <1>7 DEF CommitRefresh, Writes
  <2>2. /\ plan.voucher \in 1..Len(vouchers) /\ vouchers[plan.voucher].status = "needs-review"
        /\ plan.row.fields \in Fields
    BY <1>3, <2>1 DEF PlanOK
  <2>3. RefreshOf(plan.voucher, plan.row.fields)
    BY <1>2, <1>7, <2>2 DEF CommitRefresh, RefreshOf, AppendEvents
  <2> QED
    BY <2>2, <2>3 DEF CommitOf
<1>8. CASE CommitImport(r)
  <2>1. op \in Imports /\ op.kind = "import"
    BY <1>2, <1>4, <1>8, OperationKinds DEF CommitImport, Writes
  <2>2. plan.new \in Orders(op.file \ Imported(events)) /\ op.file \in SUBSET SieIds
    BY <1>3, <2>1 DEF PlanOK, Imports
  <2>3. ImportOf(op.file, plan.new)
    BY <1>2, <1>8, <2>2 DEF CommitImport, ImportOf, AppendEvents
  <2> QED
    BY <2>2, <2>3 DEF CommitOf
<1>9. CASE CommitDecision(r)
  <2>1. op \in Decisions /\ op.kind = "decide"
    BY <1>2, <1>4, <1>9, OperationKinds DEF CommitDecision, Writes
  <2>2. /\ op.voucher \in 1..Len(vouchers) /\ plan.row = vouchers[op.voucher]
        /\ plan.row.status = "needs-review" /\ plan.review \in Reviews
        /\ plan.review.blocked = reviews[op.voucher].blocked
        /\ ~ ReviewBlocked(plan.review, op.action, EnforceBlockedReason)
    BY <1>3, <2>1 DEF PlanOK
  <2>3. op.action \in Actions /\ op.edit \in Edits \cup {NoEdit}
    BY <2>1 DEF Decisions
  <2>4. DecisionOf(op.voucher, plan.review, op.action, op.edit)
    BY <1>2, <1>9, <2>2 DEF CommitDecision, DecisionOf, AppendEvents
  <2> QED
    BY <2>2, <2>3, <2>4 DEF CommitOf
<1>10. CASE CommitSimulation(r)
  BY <1>10 DEF CommitSimulation, SimulationOf, CommitOf, AppendEvents
<1> QED
  BY <1>5, <1>6, <1>7, <1>8, <1>9, <1>10 DEF Commit

\* What the store plans, among the events anybody logs.
LEMMA LoggedPlans ==
    ASSUME NEW new \in Seq(Events)
    PROVE  /\ new \in Seq(LoggedEvents)
           /\ \A log \in Seq(LoggedEvents) : log \o new \in Seq(LoggedEvents)
<1>1. new \in Seq(LoggedEvents)
  BY SeqMonotonic DEF LoggedEvents
<1> QED
  BY <1>1, ConcatProperties

\* A voucher is created with the next number and a packet of its own.
LEMMA CreateKeepsRows ==
    ASSUME RowsOK, NEW hash \in Hashes \cup {NoHash}, NEW fields \in Fields, CreateOf(hash, fields)
    PROVE  RowsOK' /\ Len(vouchers') = Len(vouchers) + 1
<1> DEFINE e == Len(evidence) + 1
           p == Len(packets) + 1
           n == Len(vouchers)
           row == CreatedVoucher(p, fields)
           review == CreatedReview(fields)
           new == CreateEvents(e, n + 1, p, fields)
<1>1. e \in Nat /\ p \in Nat /\ n \in Nat /\ Len(packets) \in Nat
  BY RowPlaces
<1>2. row \in Vouchers /\ review \in Reviews /\ row.packet = p /\ row.status = review.status
  BY <1>1, CreatedRows DEF CreatedVoucher, CreatedReview
<1>3. new \in Seq(Events)
  BY <1>1, PlannedEvents
<1>4. /\ events' = events \o new
      /\ evidence' = Append(evidence, hash) /\ packets' = Append(packets, {e})
      /\ vouchers' = Append(vouchers, row) /\ numbers' = Append(numbers, n + 1)
      /\ reviews' = Append(reviews, review)
  BY DEF CreateOf
<1> HIDE DEF row, review, new
<1>5. evidence' \in Seq(Hashes \cup {NoHash})
  BY <1>4, AppendRow DEF RowsOK
<1>6. packets' \in Seq(SUBSET Nat) /\ Len(packets') = Len(packets) + 1
  <2>1. {e} \in SUBSET Nat
    BY <1>1
  <2> QED
    BY <1>4, <2>1, AppendRow DEF RowsOK
<1>7. /\ vouchers' \in Seq(Vouchers) /\ Len(vouchers') = n + 1
      /\ \A v \in 1..n : vouchers'[v] = vouchers[v]
      /\ vouchers'[n + 1] = row
  BY <1>2, <1>4, AppendRow DEF RowsOK
<1>8. /\ numbers' \in Seq(Nat) /\ Len(numbers') = n + 1
      /\ \A v \in 1..n : numbers'[v] = numbers[v]
      /\ numbers'[n + 1] = n + 1
  <2>1. numbers \in Seq(Nat) /\ Len(numbers) = n /\ n + 1 \in Nat
    BY <1>1 DEF RowsOK
  <2> HIDE DEF n
  <2> QED
    BY <1>4, <2>1, AppendRow
<1>9. /\ reviews' \in Seq(Reviews) /\ Len(reviews') = n + 1
      /\ \A v \in 1..n : reviews'[v] = reviews[v]
      /\ reviews'[n + 1] = review
  BY <1>2, <1>4, AppendRow DEF RowsOK
<1>10. events' \in Seq(LoggedEvents)
  BY <1>3, <1>4, LoggedPlans DEF RowsOK
<1>11. \A v \in 1..n : /\ numbers[v] = v /\ vouchers[v].packet \in 1..Len(packets)
                       /\ reviews[v].status = vouchers[v].status
  BY DEF RowsOK
<1>12. \A v, w \in 1..n : vouchers[v].packet = vouchers[w].packet => v = w
  BY DEF RowsOK
<1> HIDE DEF n
<1>13. ASSUME NEW v \in 1..(n + 1)
       PROVE  /\ numbers'[v] = v
              /\ vouchers'[v].packet \in 1..Len(packets')
              /\ reviews'[v].status = vouchers'[v].status
  <2>1. CASE v \in 1..n
    <3>1. numbers'[v] = numbers[v] /\ vouchers'[v] = vouchers[v] /\ reviews'[v] = reviews[v]
      BY <1>7, <1>8, <1>9, <2>1
    <3>2. vouchers[v].packet \in 1..Len(packets')
      BY <1>1, <1>6, <1>11, <2>1
    <3> QED
      BY <1>11, <2>1, <3>1, <3>2
  <2>2. CASE v = n + 1
    BY <1>1, <1>2, <1>6, <1>7, <1>8, <1>9, <2>2
  <2> QED
    BY <1>1, <2>1, <2>2
<1>14. ASSUME NEW v \in 1..(n + 1), NEW w \in 1..(n + 1), vouchers'[v].packet = vouchers'[w].packet
       PROVE  v = w
  <2>1. \A u \in 1..n : vouchers'[u].packet \in 1..Len(packets) /\ vouchers'[u].packet # p
    BY <1>1, <1>7, <1>11
  <2>2. vouchers'[n + 1].packet = p
    BY <1>2, <1>7
  <2>3. \A u \in 1..(n + 1) : u \in 1..n \/ u = n + 1
    BY <1>1
  <2> QED
    BY <1>7, <1>12, <1>14, <2>1, <2>2, <2>3
<1> QED
  BY <1>5, <1>6, <1>7, <1>8, <1>9, <1>10, <1>13, <1>14 DEF RowsOK, n

\* The packet of a compose is new, so no other voucher has it.
LEMMA ComposeKeepsRows ==
    ASSUME RowsOK, NEW items \in SUBSET Nat, NEW v \in Nat, ComposeOf(items, v)
    PROVE  RowsOK' /\ Len(vouchers') = Len(vouchers)
<1> DEFINE p == Len(packets) + 1
           n == Len(vouchers)
<1>1. p \in Nat /\ Len(packets) \in Nat /\ n \in Nat /\ DOMAIN vouchers = 1..n
      /\ \A w \in 1..n : vouchers[w] \in Vouchers
  BY RowPlaces
<1>2. packets' \in Seq(SUBSET Nat) /\ Len(packets') = p
  BY AppendRow DEF RowsOK, ComposeOf
<1>3. UNCHANGED <<evidence, numbers, reviews>>
  BY DEF ComposeOf
<1>4. CASE UNCHANGED <<vouchers, events>>
  <2>1. \A w \in 1..n : vouchers[w].packet \in 1..p
    BY <1>1 DEF RowsOK
  <2> QED
    BY <1>2, <1>3, <1>4, <2>1 DEF RowsOK
<1>5. CASE /\ v \in 1..n
           /\ vouchers' = [vouchers EXCEPT ![v].packet = p]
           /\ events' = events \o << RelinkEvent(v, p) >>
  <2> DEFINE row == [vouchers[v] EXCEPT !.packet = p]
  <2>1. row \in Vouchers /\ row.packet = p /\ row.status = vouchers[v].status
    BY <1>1, <1>5 DEF Vouchers
  <2>2. vouchers' = [vouchers EXCEPT ![v] = row]
    BY <1>5
  <2> HIDE DEF row
  <2>3. /\ vouchers' \in Seq(Vouchers) /\ Len(vouchers') = n
        /\ vouchers'[v] = row
        /\ \A w \in 1..n : w # v => vouchers'[w] = vouchers[w]
    <3>1. vouchers \in Seq(Vouchers) /\ v \in DOMAIN vouchers
      BY <1>1, <1>5 DEF RowsOK
    <3> QED
      BY <1>1, <2>1, <2>2, <3>1, UpdateRow
  <2>4. events' \in Seq(LoggedEvents)
    <3>1. RelinkEvent(v, p) \in Events
      BY <1>1 DEF RelinkEvent, Events
    <3> QED
      BY <1>5, <3>1, ShortLogs, LoggedPlans DEF RowsOK
  <2>5. \A w \in 1..n : /\ numbers[w] = w /\ vouchers[w].packet \in 1..Len(packets)
                        /\ reviews[w].status = vouchers[w].status
    BY DEF RowsOK
  <2>6. \A w, x \in 1..n : vouchers[w].packet = vouchers[x].packet => w = x
    BY DEF RowsOK
  <2>7. UNCHANGED <<Len(numbers), Len(reviews)>> /\ Len(numbers) = n /\ Len(reviews) = n
    BY <1>3 DEF RowsOK
  <2> HIDE DEF n
  <2>8. \A w \in 1..n : /\ numbers'[w] = w /\ vouchers'[w].packet \in 1..Len(packets')
                        /\ reviews'[w].status = vouchers'[w].status
    BY <1>1, <1>2, <1>3, <2>1, <2>3, <2>5
  <2>9. \A w, x \in 1..n : vouchers'[w].packet = vouchers'[x].packet => w = x
    BY <1>1, <2>1, <2>3, <2>5, <2>6
  <2> QED
    BY <1>2, <1>3, <2>3, <2>4, <2>7, <2>8, <2>9 DEF RowsOK, n
<1> QED
  BY <1>4, <1>5 DEF ComposeOf

\* A row and a review are replaced by ones of a common status and the row's packet.
LEMMA PairKeepsRows ==
    ASSUME RowsOK, NEW v \in 1..Len(vouchers), NEW row \in Vouchers, NEW review \in Reviews,
           row.packet = vouchers[v].packet, row.status = review.status,
           NEW new \in Seq(Events), events' = events \o new,
           vouchers' = [vouchers EXCEPT ![v] = row], reviews' = [reviews EXCEPT ![v] = review],
           UNCHANGED <<evidence, packets, numbers>>
    PROVE  /\ RowsOK' /\ Len(vouchers') = Len(vouchers)
           /\ vouchers'[v] = row /\ reviews'[v] = review
           /\ \A w \in 1..Len(vouchers) : w # v => vouchers'[w] = vouchers[w] /\ reviews'[w] = reviews[w]
<1> DEFINE n == Len(vouchers)
<1>1. DOMAIN vouchers = 1..n /\ DOMAIN reviews = 1..n
  BY RowPlaces
<1>2. /\ vouchers' \in Seq(Vouchers) /\ Len(vouchers') = n
      /\ vouchers'[v] = row
      /\ \A w \in 1..n : w # v => vouchers'[w] = vouchers[w]
  BY <1>1, UpdateRow DEF RowsOK
<1>3. /\ reviews' \in Seq(Reviews) /\ Len(reviews') = n
      /\ reviews'[v] = review
      /\ \A w \in 1..n : w # v => reviews'[w] = reviews[w]
  BY <1>1, UpdateRow DEF RowsOK
<1>4. events' \in Seq(LoggedEvents)
  BY LoggedPlans DEF RowsOK
<1>5. \A w \in 1..n : /\ numbers'[w] = w /\ vouchers'[w].packet \in 1..Len(packets')
                      /\ reviews'[w].status = vouchers'[w].status
  BY <1>2, <1>3 DEF RowsOK
<1>6. \A w, x \in 1..n : vouchers'[w].packet = vouchers'[x].packet => w = x
  BY <1>2 DEF RowsOK
<1> QED
  BY <1>2, <1>3, <1>4, <1>5, <1>6 DEF RowsOK

\* The rows after a refresh.
LEMMA RefreshKeepsRows ==
    ASSUME RowsOK, NEW v \in 1..Len(vouchers), NEW fields \in Fields, RefreshOf(v, fields)
    PROVE  /\ RowsOK' /\ Len(vouchers') = Len(vouchers)
           /\ vouchers'[v] = [vouchers[v] EXCEPT !.fields = fields]
           /\ reviews'[v] = RefreshedReview(reviews[v], fields)
           /\ \A w \in 1..Len(vouchers) : w # v => vouchers'[w] = vouchers[w] /\ reviews'[w] = reviews[w]
<1> DEFINE row == [vouchers[v] EXCEPT !.fields = fields]
           review == RefreshedReview(reviews[v], fields)
           new == RefreshEvents(v, fields)
<1>1. /\ vouchers[v] \in Vouchers /\ reviews[v] \in Reviews /\ v \in Nat
      /\ reviews[v].status = vouchers[v].status
  BY RowPlaces DEF RowsOK
<1>2. row \in Vouchers /\ row.packet = vouchers[v].packet /\ row.status = vouchers[v].status
  BY <1>1 DEF Vouchers
<1>3. review \in Reviews /\ review.status = reviews[v].status
  BY <1>1 DEF Reviews, RefreshedReview, DeterministicSuggestion, Suggestions, Blocking
<1>4. new \in Seq(Events)
  BY <1>1, PlannedEvents
<1>5. /\ events' = events \o new
      /\ vouchers' = [vouchers EXCEPT ![v] = row] /\ reviews' = [reviews EXCEPT ![v] = review]
      /\ UNCHANGED <<evidence, packets, numbers>>
  BY DEF RefreshOf
<1>6. row.status = review.status
  BY <1>1, <1>2, <1>3
<1> HIDE DEF row, review, new
<1>7. /\ RowsOK' /\ Len(vouchers') = Len(vouchers)
      /\ vouchers'[v] = row /\ reviews'[v] = review
      /\ \A w \in 1..Len(vouchers) : w # v => vouchers'[w] = vouchers[w] /\ reviews'[w] = reviews[w]
  BY <1>2, <1>3, <1>4, <1>5, <1>6, PairKeepsRows
<1> QED
  BY <1>7 DEF row, review

\* The rows after a decision.
LEMMA DecisionKeepsRows ==
    ASSUME RowsOK, NEW v \in 1..Len(vouchers), NEW read \in Reviews, NEW action \in Actions,
           NEW edit \in Edits \cup {NoEdit}, DecisionOf(v, read, action, edit)
    PROVE  /\ RowsOK' /\ Len(vouchers') = Len(vouchers)
           /\ vouchers'[v] = DecidedVoucher(vouchers[v], action)
           /\ reviews'[v].status = StatusForAction(action)
           /\ reviews'[v].suggestion = PostingSuggestion(read, action, edit)
           /\ \A w \in 1..Len(vouchers) : w # v => vouchers'[w] = vouchers[w] /\ reviews'[w] = reviews[w]
<1> DEFINE row == DecidedVoucher(vouchers[v], action)
           decided == DecidedReview(read, action, edit)
           review == [reviews[v] EXCEPT !.status = decided.status, !.suggestion = decided.suggestion]
           new == DecisionEvents(v, vouchers[v], read, action, edit)
<1>1. vouchers[v] \in Vouchers /\ reviews[v] \in Reviews /\ v \in Nat
  BY RowPlaces
<1>2. /\ row \in Vouchers /\ StatusForAction(action) \in Statuses
      /\ PostingSuggestion(read, action, edit) \in Suggestions
  BY <1>1, DecidedRows
<1>3. row.packet = vouchers[v].packet /\ row.status = StatusForAction(action)
  BY <1>1 DEF Vouchers, DecidedVoucher
<1>4. decided.status = StatusForAction(action) /\ decided.suggestion = PostingSuggestion(read, action, edit)
  BY DEF Reviews, DecidedReview
<1>5. /\ review.status = decided.status /\ review.suggestion = decided.suggestion
      /\ review \in Reviews
  BY <1>1, <1>2, <1>4 DEF Reviews
<1>6. new \in Seq(Events)
  BY <1>1, PlannedDecisionEvents
<1>7. /\ events' = events \o new
      /\ vouchers' = [vouchers EXCEPT ![v] = row] /\ reviews' = [reviews EXCEPT ![v] = review]
      /\ UNCHANGED <<evidence, packets, numbers>>
  BY DEF DecisionOf
<1> HIDE DEF row, review, new, decided
<1>8. /\ RowsOK' /\ Len(vouchers') = Len(vouchers)
      /\ vouchers'[v] = row /\ reviews'[v] = review
      /\ \A w \in 1..Len(vouchers) : w # v => vouchers'[w] = vouchers[w] /\ reviews'[w] = reviews[w]
  BY <1>2, <1>3, <1>4, <1>5, <1>6, <1>7, PairKeepsRows
<1> QED
  BY <1>4, <1>5, <1>8 DEF row

\* An import and a simulation only log.
LEMMA LoggingKeepsRows ==
    ASSUME RowsOK, NEW new \in Seq(Events), events' = events \o new,
           UNCHANGED <<evidence, packets, vouchers, numbers, reviews>>
    PROVE  RowsOK'
<1>1. events' \in Seq(LoggedEvents)
  BY LoggedPlans DEF RowsOK
<1> QED
  BY <1>1 DEF RowsOK

\* What an import and a simulation log.
LEMMA LoggingEvents ==
    /\ \A file \in SUBSET SieIds : \A new : ImportOf(file, new) => ImportedEvents(new) \in Seq(Events)
    /\ << SimulationEvent >> \in Seq(Events)
<1>1. ASSUME NEW file \in SUBSET SieIds, NEW new, ImportOf(file, new)
      PROVE  ImportedEvents(new) \in Seq(Events)
  BY <1>1, PlannedImports DEF ImportOf
<1>2. SimulationEvent \in Events
  BY DEF SimulationEvent, Events
<1> QED
  BY <1>1, <1>2, ShortLogs

\* A commit keeps the rows in order, and voucher rows are never deleted.
LEMMA CommitKeepsRows ==
    ASSUME RowsOK, CommitOf
    PROVE  RowsOK' /\ Len(vouchers') \in {Len(vouchers), Len(vouchers) + 1}
<1>1. ASSUME NEW hash \in Hashes \cup {NoHash}, NEW fields \in Fields, CreateOf(hash, fields)
      PROVE  RowsOK' /\ Len(vouchers') = Len(vouchers) + 1
  BY <1>1, CreateKeepsRows
<1>2. ASSUME NEW items \in SUBSET Nat, NEW v \in Nat, ComposeOf(items, v)
      PROVE  RowsOK' /\ Len(vouchers') = Len(vouchers)
  BY <1>2, ComposeKeepsRows
<1>3. ASSUME NEW v \in 1..Len(vouchers), NEW fields \in Fields, RefreshOf(v, fields)
      PROVE  RowsOK' /\ Len(vouchers') = Len(vouchers)
  BY <1>3, RefreshKeepsRows
<1>4. ASSUME NEW file \in SUBSET SieIds, NEW new, ImportOf(file, new)
      PROVE  RowsOK' /\ Len(vouchers') = Len(vouchers)
  BY <1>4, LoggingEvents, LoggingKeepsRows DEF ImportOf
<1>5. ASSUME NEW v \in 1..Len(vouchers), NEW read \in Reviews, NEW action \in Actions,
             NEW edit \in Edits \cup {NoEdit}, DecisionOf(v, read, action, edit)
      PROVE  RowsOK' /\ Len(vouchers') = Len(vouchers)
  BY <1>5, DecisionKeepsRows
<1>6. CASE SimulationOf
  BY <1>6, LoggingEvents, LoggingKeepsRows DEF SimulationOf
<1> QED
  BY <1>1, <1>2, <1>3, <1>4, <1>5, <1>6 DEF CommitOf

\* The transactions that a commit overtakes have planned nothing yet.
LEMMA CommitKeepsTypes ==
    ASSUME LockInv, TypesInv, NEW r \in Requests, Commit(r)
    PROVE  TypesInv'
<1>1. tx[r].phase = "planned" /\ tx' = [tx EXCEPT ![r] = Idle]
  BY CommitShape DEF End
<1>2. RowsOK' /\ Len(vouchers') \in {Len(vouchers), Len(vouchers) + 1}
  BY CommitEffect, CommitKeepsRows DEF TypesInv
<1>3. /\ Len(vouchers) \in Nat /\ Len(vouchers') \in Nat /\ Len(vouchers) <= Len(vouchers')
  <2>1. Len(vouchers) \in Nat
    BY RowPlaces DEF TypesInv
  <2> QED
    BY <1>2, <2>1
<1>4. ASSUME NEW s \in Requests PROVE TxTyped(tx[s])'
  <2>1. PICK u : u = tx'[s]
    OBVIOUS
  <2>2. TxTyped(u) /\ u.phase # "planned"
    <3>1. CASE s = r
      BY <1>1, <2>1, <3>1 DEF LockInv, TxTyped, Idle, Phases, Queued
    <3>2. CASE s # r
      <4>1. u = tx[s]
        BY <1>1, <2>1, <3>2 DEF LockInv
      <4>2. tx[s].phase # "planned"
        BY <1>1, <3>2, OneHolder DEF Holding
      <4> QED
        BY <4>1, <4>2 DEF TypesInv
    <3> QED
      BY <3>1, <3>2
  <2>3. PICK n, m : n = Len(vouchers) /\ m = Len(vouchers')
    OBVIOUS
  <2>4. TxTyped(u)'
    BY <1>3, <2>2, <2>3, UnplannedStays
  <2> QED
    BY <2>1, <2>4 DEF TxTyped, PlanOK
<1> QED
  BY <1>2, <1>4 DEF TypesInv

\* Every step keeps rows and transactions in order.
LEMMA NextKeepsTypes == LockInv /\ TypesInv /\ [Next]_vars => TypesInv'
<1> SUFFICES ASSUME LockInv, TypesInv, [Next]_vars PROVE TypesInv'
  OBVIOUS
<1>1. CASE UNCHANGED vars
  <2>1. RowsOK' /\ ReadsStay
    BY <1>1 DEF vars, tables, TypesInv, RowsOK, ReadsStay
  <2>2. ASSUME NEW s \in Requests PROVE TxTyped(tx[s])'
    <3>1. PICK u : u = tx[s]
      OBVIOUS
    <3>2. TxTyped(u)'
      BY <2>1, <3>1, HeldStays DEF TypesInv
    <3> QED
      BY <1>1, <3>1, <3>2 DEF TxTyped, PlanOK, vars
  <2> QED
    BY <2>1, <2>2 DEF TypesInv
<1> QED
  BY <1>1, StepKinds, TxStepKeepsTypes, CommitKeepsTypes, FinishSuggestKeepsTypes,
     BeginSuggestKeepsTypes, OutsiderKeepsTypes

\* Empty tables, and no transaction.
LEMMA InitTypes == Init => TypesInv
<1> SUFFICES ASSUME Init PROVE TypesInv
  OBVIOUS
<1>1. /\ evidence = <<>> /\ packets = <<>> /\ vouchers = <<>> /\ numbers = <<>> /\ reviews = <<>>
      /\ events = <<>>
  BY DEF Init
<1>2. \A S : << >> \in Seq(S) /\ Len(<< >>) = 0
  BY EmptySeq
<1>3. RowsOK
  BY <1>1, <1>2 DEF RowsOK
<1>4. \A r \in Requests : TxTyped(tx[r])
  BY DEF Init, TxTyped, Idle, Phases, Queued
<1> QED
  BY <1>3, <1>4 DEF TypesInv

\* The inductive invariant of lock, rows, transactions and chain.
StoreInv == LockInv /\ TypesInv /\ ChainInv

\* The three invariants together.
LEMMA StoreInvariant == Spec => []StoreInv
<1>1. Init => StoreInv
  BY InitLock, InitTypes, InitChain DEF StoreInv
<1>2. StoreInv /\ [Next]_vars => StoreInv'
  BY NextKeepsLock, NextKeepsTypes, NextChain DEF StoreInv
<1> QED
  BY <1>1, <1>2, PTL DEF Spec

\* Every state of the Postgres store is well typed: rows, log, queue, and what a
\* transaction in its first or second attempt is about to do.
THEOREM PostgresTypes == Spec => []TypeOK
<1>1. StoreInv => TypeOK
  <2> SUFFICES ASSUME StoreInv PROVE TypeOK
    OBVIOUS
  <2>1. RowsOK /\ previous \in Seq(Nat) /\ queue \in Seq(Requests)
        /\ \A r \in Requests : TxTyped(tx[r])
    BY DEF StoreInv, TypesInv, LockInv, LockHeld, ChainInv, LogOK
  <2> QED
    BY <2>1 DEF TypeOK, RowsOK, TxTyped, Phases, Queued, LoggedEvents
<1> QED
  BY <1>1, StoreInvariant, PTL

\* Voucher numbers have no gap and no duplicate, though each is a count read
\* before the insert, and no packet backs two vouchers, however many requests
\* create, compose, fail and are retried at once.
THEOREM PostgresNumbersVouchers == Spec => []VouchersAreDistinct
<1>1. StoreInv => VouchersAreDistinct
  BY RowPlaces DEF StoreInv, TypesInv, RowsOK, VouchersAreDistinct, NumbersGapless, OneVoucherPerPacket
<1> QED
  BY <1>1, StoreInvariant, PTL
-----------------------------------------------------------------------------
(* The rows follow the log.                                                *)

\* The log tells what the row and the review of v show, and an open review is
\* blocked when its voucher misses mandatory data.
FollowsAt(v) ==
    /\ RowFollows(events, v, vouchers[v], reviews[v])
    /\ Explained(events, reviews[v].status, v)
    /\ reviews[v].status = "needs-review" =>
          (reviews[v].blocked <=> Blocking(vouchers[v].fields))

\* What is logged of decisions is logged of vouchers that exist.
DecidesRows == \A i \in DOMAIN events : Decides(events[i]) => events[i].voucher \in 1..Len(vouchers)

\* The inductive invariant of rows and log.
FollowInv == (\A v \in 1..Len(vouchers) : FollowsAt(v)) /\ DecidesRows

\* Events that say nothing of v, which stays as it is.
LEMMA StaysFollowing ==
    ASSUME NEW v, FollowsAt(v), events \in Seq(LoggedEvents),
           NEW new \in Seq(LoggedEvents), events' = events \o new, Foreign(new, v),
           vouchers'[v] = vouchers[v], reviews'[v] = reviews[v]
    PROVE  FollowsAt(v)'
<1>1. RowFollows(events \o new, v, vouchers[v], reviews[v])
  BY RowUntouched DEF FollowsAt
<1>2. Explained(events \o new, reviews[v].status, v)
  BY SilentExplained DEF FollowsAt, Foreign
<1>3. FollowsAt(v)' <=> /\ RowFollows(events', v, vouchers'[v], reviews'[v])
                        /\ Explained(events', reviews'[v].status, v)
                        /\ reviews'[v].status = "needs-review" =>
                              (reviews'[v].blocked <=> Blocking(vouchers'[v].fields))
  BY DEF FollowsAt
<1>4. reviews[v].status = "needs-review" => (reviews[v].blocked <=> Blocking(vouchers[v].fields))
  BY DEF FollowsAt
<1> QED
  BY <1>1, <1>2, <1>3, <1>4

\* Logged decisions are of vouchers that exist, when the new ones are.
LEMMA StaysDeciding ==
    ASSUME DecidesRows, events \in Seq(LoggedEvents), NEW new \in Seq(LoggedEvents),
           events' = events \o new,
           NEW n \in Nat, n = Len(vouchers), NEW m \in Nat, m = Len(vouchers'), n <= m,
           \A i \in 1..Len(new) : Decides(new[i]) => new[i].voucher \in 1..m
    PROVE  DecidesRows'
<1>1. \A i \in DOMAIN (events \o new) :
          \/ i \in DOMAIN events /\ (events \o new)[i] = events[i]
          \/ i - Len(events) \in 1..Len(new) /\ (events \o new)[i] = new[i - Len(events)]
  BY ConcatPlaces
<1>2. 1..n \subseteq 1..m
  OBVIOUS
<1>3. ASSUME NEW i \in DOMAIN (events \o new), Decides((events \o new)[i])
      PROVE  (events \o new)[i].voucher \in 1..m
  BY <1>1, <1>2, <1>3 DEF DecidesRows
<1> QED
  BY <1>3 DEF DecidesRows

\* A voucher that is created.
LEMMA CreateFollows ==
    ASSUME RowsOK, FollowInv, NEW hash \in Hashes \cup {NoHash}, NEW fields \in Fields,
           CreateOf(hash, fields)
    PROVE  FollowInv'
<1>1. PICK e, p, n, v : /\ e = Len(evidence) + 1 /\ p = Len(packets) + 1
                        /\ n = Len(vouchers) /\ v = n + 1
  OBVIOUS
<1> DEFINE row == CreatedVoucher(p, fields)
           review == CreatedReview(fields)
           new == CreateEvents(e, v, p, fields)
<1>2. e \in Nat /\ p \in Nat /\ n \in Nat /\ v \in Nat
  BY <1>1, RowPlaces
<1>3. row \in Vouchers /\ review \in Reviews
  BY <1>2, CreatedRows
<1>4. new \in Seq(Events) /\ Quiet(new)
  BY <1>2, PlannedEvents, QuietEvents DEF Quiet
<1>5. new \in Seq(LoggedEvents) /\ events \in Seq(LoggedEvents)
  BY <1>4, LoggedPlans DEF RowsOK
<1>6. events' = events \o new /\ vouchers' = Append(vouchers, row) /\ reviews' = Append(reviews, review)
  BY <1>1 DEF CreateOf
<1>7. /\ Len(vouchers') = v
      /\ \A w \in 1..n : vouchers'[w] = vouchers[w]
      /\ vouchers'[v] = row
  BY <1>1, <1>3, <1>6, AppendRow DEF RowsOK
<1>8. /\ \A w \in 1..n : reviews'[w] = reviews[w]
      /\ reviews'[v] = review
  <2>1. Len(reviews) = n /\ reviews \in Seq(Reviews)
    BY <1>1 DEF RowsOK
  <2> HIDE DEF review
  <2> QED
    BY <1>1, <1>3, <1>6, <2>1, AppendRow
<1>9. ASSUME NEW w \in 1..n PROVE FollowsAt(w)'
  <2>1. v # w
    BY <1>1, <1>2
  <2>2. Foreign(new, w)
    BY <2>1, ForeignEvents
  <2>3. FollowsAt(w) /\ vouchers'[w] = vouchers[w] /\ reviews'[w] = reviews[w]
    BY <1>1, <1>7, <1>8 DEF FollowInv
  <2> HIDE DEF new
  <2> QED
    BY <1>5, <1>6, <2>2, <2>3, StaysFollowing
<1>10. FollowsAt(v)'
  <2>1. v \notin 1..Len(vouchers)
    BY <1>1, <1>2
  <2>2. \A i \in DOMAIN events : ~ IsPosting(events[i], v) /\ ~ IsDecision(events[i], v)
    BY <2>1, DecidingEvents DEF FollowInv, DecidesRows
  <2>3. RowFollows(events \o new, v, row, review)
    BY <1>5, <2>2, RowCreated
  <2>4. Silent(new, v)
    BY <1>4, QuietIsSilent
  <2>5. Explained(events, "needs-review", v)
    BY <2>2, UnknownIsOpen
  <2>6. Explained(events \o new, "needs-review", v)
    BY <1>5, <2>4, <2>5, SilentExplained
  <2>7. review.status = "needs-review" /\ (review.blocked <=> Blocking(row.fields))
    BY DEF CreatedReview, CreatedVoucher
  <2> HIDE DEF row, review, new
  <2>8. /\ RowFollows(events', v, vouchers'[v], reviews'[v])
        /\ Explained(events', reviews'[v].status, v)
    BY <1>6, <1>7, <1>8, <2>3, <2>6, <2>7
  <2>9. reviews'[v].blocked <=> Blocking(vouchers'[v].fields)
    BY <1>7, <1>8, <2>7
  <2> QED
    BY <2>8, <2>9 DEF FollowsAt
<1>11. DecidesRows'
  <2>1. \A i \in 1..Len(new) : ~ Decides(new[i])
    BY <1>4 DEF Quiet
  <2>2. n <= v
    BY <1>1, <1>2
  <2> HIDE DEF new
  <2> QED
    BY <1>1, <1>2, <1>5, <1>6, <1>7, <2>1, <2>2, StaysDeciding DEF FollowInv
<1>12. \A w \in 1..Len(vouchers') : w \in 1..n \/ w = v
  BY <1>1, <1>2, <1>7
<1>13. (\A w \in 1..Len(vouchers) : FollowsAt(w))'
  BY <1>9, <1>10, <1>12
<1> QED
  BY <1>11, <1>13 DEF FollowInv

\* A step of one voucher v, of which new tells; no event of it is of another one.
LEMMA StepFollows ==
    ASSUME RowsOK, FollowInv, NEW v \in 1..Len(vouchers), NEW new \in Seq(LoggedEvents),
           events' = events \o new, Len(vouchers') = Len(vouchers),
           \A w \in 1..Len(vouchers) : w # v =>
               Foreign(new, w) /\ vouchers'[w] = vouchers[w] /\ reviews'[w] = reviews[w],
           \A i \in 1..Len(new) : Decides(new[i]) => new[i].voucher = v,
           RowFollows(events', v, vouchers'[v], reviews'[v]),
           Explained(events', reviews'[v].status, v),
           reviews'[v].status = "needs-review" =>
               (reviews'[v].blocked <=> Blocking(vouchers'[v].fields))
    PROVE  FollowInv'
<1>1. PICK n : n = Len(vouchers)
  OBVIOUS
<1>2. n \in Nat /\ events \in Seq(LoggedEvents)
  BY <1>1, RowPlaces DEF RowsOK
<1>3. ASSUME NEW w \in 1..n PROVE FollowsAt(w)'
  <2>1. CASE w = v
    BY <2>1 DEF FollowsAt
  <2>2. CASE w # v
    <3>1. /\ Foreign(new, w) /\ vouchers'[w] = vouchers[w] /\ reviews'[w] = reviews[w]
          /\ FollowsAt(w)
      BY <1>1, <2>2 DEF FollowInv
    <3> QED
      BY <1>2, <3>1, StaysFollowing
  <2> QED
    BY <2>1, <2>2
<1>4. DecidesRows'
  <2>1. \A i \in 1..Len(new) : Decides(new[i]) => new[i].voucher \in 1..n
    BY <1>1
  <2>2. n <= n /\ n = Len(vouchers')
    BY <1>1, <1>2
  <2> QED
    BY <1>1, <1>2, <2>1, <2>2, StaysDeciding DEF FollowInv
<1> QED
  BY <1>1, <1>3, <1>4 DEF FollowInv

\* A step of no voucher: an import, a simulation, an outsider.
LEMMA OwnerlessFollows ==
    ASSUME RowsOK, FollowInv, NEW new \in Seq(LoggedEvents), events' = events \o new,
           UNCHANGED <<vouchers, reviews>>,
           \A i \in 1..Len(new) : new[i].type \in {"VoucherImported", "SimulationExecuted", "OutsideEvent"}
    PROVE  FollowInv'
<1>1. PICK n : n = Len(vouchers)
  OBVIOUS
<1>2. n \in Nat /\ events \in Seq(LoggedEvents)
  BY <1>1, RowPlaces DEF RowsOK
<1>3. ASSUME NEW w \in 1..n PROVE FollowsAt(w)'
  <2>1. Foreign(new, w)
    BY OwnerlessEvents
  <2>2. FollowsAt(w)
    BY <1>1 DEF FollowInv
  <2> QED
    BY <1>2, <2>1, <2>2, StaysFollowing
<1>4. DecidesRows'
  <2>1. \A i \in 1..Len(new) : ~ Decides(new[i])
    BY DEF Decides
  <2>2. n <= n /\ n = Len(vouchers')
    BY <1>1, <1>2
  <2> QED
    BY <1>1, <1>2, <2>1, <2>2, StaysDeciding DEF FollowInv
<1> QED
  BY <1>1, <1>3, <1>4 DEF FollowInv

\* A voucher that is linked to a new packet.
LEMMA ComposeFollows ==
    ASSUME RowsOK, FollowInv, NEW items \in SUBSET Nat, NEW v \in Nat, ComposeOf(items, v)
    PROVE  FollowInv'
<1>1. UNCHANGED reviews
  BY DEF ComposeOf
<1>2. CASE UNCHANGED <<vouchers, events>>
  BY <1>1, <1>2 DEF FollowInv, FollowsAt, DecidesRows
<1>3. CASE /\ v \in 1..Len(vouchers)
           /\ vouchers' = [vouchers EXCEPT ![v].packet = Len(packets) + 1]
           /\ events' = events \o << RelinkEvent(v, Len(packets) + 1) >>
  <2>1. PICK p : p = Len(packets) + 1
    OBVIOUS
  <2> DEFINE event == RelinkEvent(v, p)
             row == [vouchers[v] EXCEPT !.packet = p]
  <2>2. p \in Nat /\ vouchers[v] \in Vouchers /\ DOMAIN vouchers = 1..Len(vouchers)
        /\ events \in Seq(LoggedEvents) /\ vouchers \in Seq(Vouchers)
    BY <1>3, <2>1, RowPlaces DEF RowsOK
  <2>3. event \in Events /\ ~ Decides(event)
    BY <2>2 DEF RelinkEvent, Events, Decides
  <2>4. << event >> \in Seq(Events) /\ Quiet(<< event >>)
    BY <2>3, ShortLogs
  <2>5. << event >> \in Seq(LoggedEvents)
    BY <2>4, LoggedPlans
  <2>6. row \in Vouchers /\ row.fields = vouchers[v].fields
    BY <2>2 DEF Vouchers
  <2>7. vouchers' = [vouchers EXCEPT ![v] = row]
    BY <1>3, <2>1
  <2>8. RowFollows(events \o << event >>, v, row, reviews[v])
    BY <1>3, <2>2, <2>5, RowRelinked DEF FollowInv, FollowsAt
  <2>9. Explained(events \o << event >>, reviews[v].status, v)
    <3>1. Silent(<< event >>, v)
      BY <2>4, QuietIsSilent
    <3>2. Explained(events, reviews[v].status, v)
      BY <1>3 DEF FollowInv, FollowsAt
    <3> QED
      BY <2>2, <2>5, <3>1, <3>2, SilentExplained
  <2>10. \A w \in 1..Len(vouchers) : w # v => Foreign(<< event >>, w)
    BY ForeignEvents
  <2>11. \A i \in 1..Len(<< event >>) : ~ Decides(<< event >>[i])
    BY <2>4 DEF Quiet
  <2>12. reviews[v].status = "needs-review" =>
            (reviews[v].blocked <=> Blocking(vouchers[v].fields))
    BY <1>3 DEF FollowInv, FollowsAt
  <2>13. events' = events \o << event >>
    BY <1>3, <2>1
  <2> HIDE DEF event, row
  <2>14. /\ Len(vouchers') = Len(vouchers)
         /\ vouchers'[v] = row
         /\ \A w \in 1..Len(vouchers) : w # v => vouchers'[w] = vouchers[w]
    BY <1>3, <2>2, <2>6, <2>7, UpdateRow
  <2>15. reviews'[v].status = "needs-review" =>
            (reviews'[v].blocked <=> Blocking(vouchers'[v].fields))
    BY <1>1, <2>6, <2>12, <2>14
  <2>16. /\ RowFollows(events', v, vouchers'[v], reviews'[v])
         /\ Explained(events', reviews'[v].status, v)
    BY <1>1, <2>8, <2>9, <2>13, <2>14
  <2> QED
    BY <1>1, <1>3, <2>5, <2>10, <2>11, <2>13, <2>14, <2>15, <2>16, StepFollows
<1> QED
  BY <1>2, <1>3 DEF ComposeOf

\* A voucher whose fields and suggestion are computed anew, while it is open.
LEMMA RefreshFollows ==
    ASSUME RowsOK, FollowInv, NEW v \in 1..Len(vouchers), NEW fields \in Fields, RefreshOf(v, fields)
    PROVE  FollowInv'
<1> DEFINE new == RefreshEvents(v, fields)
           row == [vouchers[v] EXCEPT !.fields = fields]
           review == RefreshedReview(reviews[v], fields)
<1>1. /\ Len(vouchers') = Len(vouchers)
      /\ vouchers'[v] = row /\ reviews'[v] = review
      /\ \A w \in 1..Len(vouchers) : w # v => vouchers'[w] = vouchers[w] /\ reviews'[w] = reviews[w]
  BY RefreshKeepsRows
<1>2. /\ vouchers[v] \in Vouchers /\ reviews[v] \in Reviews /\ v \in Nat
      /\ reviews[v].status = "needs-review" /\ events \in Seq(LoggedEvents)
  BY RowPlaces DEF RowsOK, RefreshOf
<1>3. new \in Seq(Events) /\ Quiet(new)
  BY <1>2, PlannedEvents, QuietEvents DEF Quiet
<1>4. new \in Seq(LoggedEvents)
  BY <1>3, LoggedPlans
<1>5. /\ Explained(events, "needs-review", v)
      /\ RowFollows(events, v, vouchers[v], reviews[v])
  BY <1>2 DEF FollowInv, FollowsAt
<1>6. Postings(events, v) = {}
  BY <1>5, OpenHasNoPosting
<1>7. RowFollows(events \o new, v, row, review)
  BY <1>2, <1>4, <1>5, <1>6, RowRefreshed
<1>8. Explained(events \o new, "needs-review", v)
  <2>1. Silent(new, v)
    BY <1>3, QuietIsSilent
  <2> QED
    BY <1>2, <1>4, <1>5, <2>1, SilentExplained
<1>9. review.status = "needs-review" /\ (review.blocked <=> Blocking(row.fields))
  <2>1. row.fields = fields /\ review.status = "needs-review"
    BY <1>2 DEF Vouchers, Reviews, RefreshedReview
  <2>2. review.blocked = Blocking(fields)
    BY <1>2 DEF Reviews, RefreshedReview
  <2> HIDE DEF row, review
  <2> QED
    BY <2>1, <2>2
<1>10. events' = events \o new
  BY DEF RefreshOf
<1>11. \A w \in 1..Len(vouchers) : w # v => Foreign(new, w)
  BY ForeignEvents
<1>12. \A i \in 1..Len(new) : ~ Decides(new[i])
  BY <1>3 DEF Quiet
<1> HIDE DEF new, row, review
<1>13. /\ RowFollows(events', v, vouchers'[v], reviews'[v])
       /\ Explained(events', reviews'[v].status, v)
  BY <1>1, <1>7, <1>8, <1>9, <1>10
<1>14. reviews'[v].status = "needs-review" =>
           (reviews'[v].blocked <=> Blocking(vouchers'[v].fields))
  BY <1>1, <1>9
<1>15. \A w \in 1..Len(vouchers) : w # v =>
           Foreign(new, w) /\ vouchers'[w] = vouchers[w] /\ reviews'[w] = reviews[w]
  BY <1>1, <1>11
<1>16. Len(vouchers') = Len(vouchers)
  BY <1>1
<1>17. \A i \in 1..Len(new) : Decides(new[i]) => new[i].voucher = v
  BY <1>12
<1> QED
  BY <1>4, <1>10, <1>13, <1>14, <1>15, <1>16, <1>17, StepFollows

\* A voucher that is decided: its review shows the suggestion that was read.
LEMMA DecisionFollows ==
    ASSUME RowsOK, FollowInv, NEW v \in 1..Len(vouchers), NEW read \in Reviews, NEW action \in Actions,
           NEW edit \in Edits \cup {NoEdit}, DecisionOf(v, read, action, edit)
    PROVE  FollowInv'
<1> DEFINE new == DecisionEvents(v, vouchers[v], read, action, edit)
<1>1. /\ Len(vouchers') = Len(vouchers)
      /\ vouchers'[v] = DecidedVoucher(vouchers[v], action)
      /\ reviews'[v].status = StatusForAction(action)
      /\ reviews'[v].suggestion = PostingSuggestion(read, action, edit)
      /\ \A w \in 1..Len(vouchers) : w # v => vouchers'[w] = vouchers[w] /\ reviews'[w] = reviews[w]
  BY DecisionKeepsRows
<1>2. /\ vouchers[v] \in Vouchers /\ reviews[v] \in Reviews /\ v \in Nat
      /\ reviews[v].status = "needs-review" /\ events \in Seq(LoggedEvents)
  BY RowPlaces DEF RowsOK, DecisionOf
<1>3. new \in Seq(Events)
  BY <1>2, PlannedDecisionEvents
<1>4. new \in Seq(LoggedEvents)
  BY <1>3, LoggedPlans
<1>5. /\ Explained(events, "needs-review", v)
      /\ RowFollows(events, v, vouchers[v], reviews[v])
  BY <1>2 DEF FollowInv, FollowsAt
<1>6. RowFollows(events \o new, v, vouchers'[v], reviews'[v])
  <2>1. PICK decided : decided = reviews'[v]
    OBVIOUS
  <2>2. RowFollows(events \o new, v, DecidedVoucher(vouchers[v], action), decided)
    BY <1>1, <1>2, <1>4, <1>5, <2>1, RowDecided
  <2> QED
    BY <1>1, <2>1, <2>2
<1>7. Explained(events \o new, StatusForAction(action), v)
  BY <1>2, <1>4, <1>5, DecisionAppended
<1>8. StatusForAction(action) # "needs-review"
  BY <1>2, DecidedRows
<1>9. \A w \in 1..Len(vouchers) : w # v => Foreign(new, w)
  BY ForeignEvents
<1>10. \A i \in 1..Len(new) : new[i].voucher = v
  BY DEF DecisionEvents, DecisionEvent, PostingEvent
<1>11. events' = events \o new
  BY DEF DecisionOf
<1> HIDE DEF new
<1> QED
  BY <1>1, <1>4, <1>6, <1>7, <1>8, <1>9, <1>10, <1>11, StepFollows

\* A commit keeps rows and log in agreement.
LEMMA CommitFollows ==
    ASSUME RowsOK, FollowInv, CommitOf
    PROVE  FollowInv'
<1>1. ASSUME NEW file \in SUBSET SieIds, NEW new, ImportOf(file, new) PROVE FollowInv'
  <2> DEFINE imports == ImportedEvents(new)
  <2>1. imports \in Seq(Events)
    BY <1>1, LoggingEvents
  <2>2. imports \in Seq(LoggedEvents)
    BY <2>1, LoggedPlans
  <2>3. \A i \in 1..Len(imports) : imports[i].type = "VoucherImported"
    <3>1. DOMAIN imports = 1..Len(imports)
      BY <2>1, LenProperties
    <3> QED
      BY <3>1 DEF ImportedEvents
  <2>4. events' = events \o imports /\ UNCHANGED <<vouchers, reviews>>
    BY <1>1 DEF ImportOf
  <2> HIDE DEF imports
  <2> QED
    BY <2>2, <2>3, <2>4, OwnerlessFollows
<1>2. CASE SimulationOf
  <2> DEFINE simulated == << SimulationEvent >>
  <2>1. simulated \in Seq(LoggedEvents)
    BY LoggingEvents, LoggedPlans
  <2>2. \A i \in 1..Len(simulated) : simulated[i].type = "SimulationExecuted"
    BY DEF SimulationEvent
  <2>3. events' = events \o simulated /\ UNCHANGED <<vouchers, reviews>>
    BY <1>2 DEF SimulationOf
  <2> HIDE DEF simulated
  <2> QED
    BY <2>1, <2>2, <2>3, OwnerlessFollows
<1> QED
  BY <1>1, <1>2, CreateFollows, ComposeFollows, RefreshFollows, DecisionFollows DEF CommitOf

\* suggestVoucher writes the suggestion of an open review only, and an open review
\* has no posting that its suggestion would have to match.
LEMMA SuggestFollows ==
    ASSUME RowsOK, FollowInv, NEW v \in 1..Len(vouchers), NEW suggestion \in Suggestions,
           reviews[v].status = "needs-review",
           reviews' = [reviews EXCEPT ![v].suggestion = suggestion],
           UNCHANGED <<evidence, packets, vouchers, numbers, events>>
    PROVE  FollowInv'
<1>1. /\ reviews'[v] = [reviews[v] EXCEPT !.suggestion = suggestion]
      /\ \A w \in 1..Len(vouchers) : w # v => reviews'[w] = reviews[w]
  BY SuggestionWritten
<1>2. reviews[v] \in Reviews
  BY RowPlaces
<1>3. reviews'[v].status = reviews[v].status /\ reviews'[v].blocked = reviews[v].blocked
  BY <1>1, <1>2 DEF Reviews
<1>4. FollowsAt(v)
  BY DEF FollowInv
<1>5. Postings(events, v) = {}
  BY <1>4, OpenHasNoPosting DEF FollowsAt
<1>6. FollowsAt(v)'
  BY <1>3, <1>4, <1>5 DEF FollowsAt, RowFollows
<1>7. ASSUME NEW w \in 1..Len(vouchers), w # v PROVE FollowsAt(w)'
  <2>1. FollowsAt(w) /\ reviews'[w] = reviews[w]
    BY <1>1, <1>7 DEF FollowInv
  <2> QED
    BY <2>1 DEF FollowsAt
<1> QED
  BY <1>6, <1>7 DEF FollowInv, DecidesRows

\* Every step keeps them in agreement.
LEMMA NextFollows == StoreInv /\ FollowInv /\ [Next]_vars => FollowInv'
<1> SUFFICES ASSUME StoreInv, FollowInv, [Next]_vars PROVE FollowInv'
  OBVIOUS
<1>1. RowsOK /\ TypesInv
  BY DEF StoreInv, TypesInv
<1>2. ASSUME UNCHANGED <<vouchers, reviews, events>> PROVE FollowInv'
  BY <1>2 DEF FollowInv, FollowsAt, DecidesRows
<1>3. ASSUME NEW r \in Requests, TxStep(r) PROVE FollowInv'
  <2>1. UNCHANGED tables
    BY <1>3, PlanShape DEF TxStep, Begin, LockTail, Abort, ForkAborts
  <2> QED
    BY <1>2, <2>1 DEF tables
<1>4. ASSUME NEW r \in Requests, Commit(r) PROVE FollowInv'
  BY <1>1, <1>4, CommitEffect, CommitFollows
<1>5. ASSUME NEW r \in Requests, FinishSuggest(r) PROVE FollowInv'
  <2>1. UNCHANGED <<evidence, packets, vouchers, numbers, events>>
    BY <1>1, <1>5, SuggestEffect
  <2> QED
    BY <1>1, <1>2, <1>5, <2>1, SuggestEffect, SuggestFollows
<1>6. ASSUME NEW w \in Outsiders, OutsideRead(w) \/ OutsideAppend(w) PROVE FollowInv'
  <2>1. CASE UNCHANGED events
    BY <1>2, <1>6, <2>1 DEF OutsideRead, OutsideAppend, tables
  <2>2. CASE events' = events \o << Outside >>
    <3>1. UNCHANGED <<vouchers, reviews>>
      BY <1>6 DEF OutsideRead, OutsideAppend, tables
    <3> DEFINE new == << Outside >>
    <3>2. \A i \in 1..Len(new) : new[i].type = "OutsideEvent"
      BY DEF Outside
    <3>3. new \in Seq(LoggedEvents) /\ events' = events \o new
      BY <2>2, OutsideEvent
    <3> HIDE DEF new
    <3> QED
      BY <1>1, <3>1, <3>2, <3>3, OwnerlessFollows
  <2> QED
    BY <1>6, <2>1, <2>2 DEF OutsideRead, OutsideAppend, AppendEvents, tables
<1> QED
  BY <1>2, <1>3, <1>4, <1>5, <1>6, StepKinds DEF BeginSuggest, vars, tables

\* Nothing to agree on.
LEMMA InitFollows == Init => FollowInv
<1>1. Init => 1..Len(vouchers) = {} /\ DOMAIN events = {}
  BY DEF Init
<1> QED
  BY <1>1 DEF FollowInv, DecidesRows

\* With the rows in order the log explains them.
LEMMA FollowingRows ==
    ASSUME RowsOK, FollowInv
    PROVE  RowsFollowLog
<1>1. DOMAIN vouchers = 1..Len(vouchers) /\ DOMAIN reviews = 1..Len(vouchers)
      /\ events \in Seq(LoggedEvents)
  BY RowPlaces DEF RowsOK
<1>2. \A v \in 1..Len(vouchers) : RowFollows(events, v, vouchers[v], reviews[v])
                                  /\ Explained(events, reviews[v].status, v)
  BY DEF FollowInv, FollowsAt
<1>3. LogExplainsVouchers
  BY <1>1, <1>2, LoggedVouchers DEF LogExplainsVouchers, RowFollows
<1>4. LogExplainsDecisions
  BY <1>1, <1>2, ExplainedEach DEF LogExplainsDecisions
<1>5. DecidedSuggestionIsPosted
  BY <1>1, <1>2 DEF DecidedSuggestionIsPosted, PostingsShown, RowFollows
<1> QED
  BY <1>3, <1>4, <1>5 DEF RowsFollowLog

\* The rows and the log of every committed state agree: the packet, the fields
\* and the status of each voucher are those the log has last, each decision is
\* logged once with its posting behind it, and what was posted is what is shown.
THEOREM PostgresRowsFollowLog == Spec => []RowsFollowLog
<1>1. StoreInv /\ FollowInv => RowsFollowLog
  BY FollowingRows DEF StoreInv, TypesInv
<1> QED
  BY InitFollows, NextFollows, StoreInvariant, <1>1, PTL DEF Spec
-----------------------------------------------------------------------------
(* What a step appends to the log.                                         *)

\* What is imported was not imported before, and is imported once.
Fresh(new) ==
    ImportFree(new) \/ \E file \in SUBSET SieIds : \E planned \in Orders(file \ Imported(events)) :
                           new = ImportedEvents(planned)

\* In normal mode an approval is posted with every mandatory field.
Complete(new) ==
    \A i \in 1..Len(new) :
        EnforceBlockedReason /\ new[i].type = "PostedToLedger" /\ new[i].action = "approve"
            => ~ Blocking(new[i].fields)

\* What a commit appends.
Appended(new) ==
    /\ new \in Seq(Events)
    /\ events' = events \o new
    /\ Len(new) <= Longest
    /\ Fresh(new)
    /\ Complete(new)

\* The model's bound on what a transaction writes.
LEMMA LongestBound == Longest \in Nat /\ 4 <= Longest /\ Cardinality(SieIds) <= Longest
  BY SieIdsAssumption, FS_CardinalityType DEF Longest

\* Events that are no postings are complete.
LEMMA QuietComplete ==
    ASSUME NEW new, Quiet(new)
    PROVE  Complete(new)
  BY DEF Quiet, Complete, Decides

\* A commit writes a bounded number of events, no import twice and no approval
\* of a voucher that misses mandatory data, although it posts the fields and the
\* review that it read before.
LEMMA CommitAppends ==
    ASSUME RowsOK, FollowInv, CommitOf
    PROVE  \E new : Appended(new)
<1>1. ASSUME NEW hash \in Hashes \cup {NoHash}, NEW fields \in Fields, CreateOf(hash, fields)
      PROVE  \E new : Appended(new)
  <2>1. PICK e, p, v : e = Len(evidence) + 1 /\ p = Len(packets) + 1 /\ v = Len(vouchers) + 1
    OBVIOUS
  <2> DEFINE new == CreateEvents(e, v, p, fields)
  <2>2. e \in Nat /\ p \in Nat /\ v \in Nat
    BY <2>1, RowPlaces
  <2>3. new \in Seq(Events) /\ Quiet(new) /\ ImportFree(new)
    BY <2>2, PlannedEvents, QuietEvents, ImportFreeEvents DEF Quiet
  <2>4. Len(new) = 4
    BY DEF CreateEvents
  <2>5. events' = events \o new
    BY <1>1, <2>1 DEF CreateOf
  <2> HIDE DEF new
  <2>6. Appended(new)
    BY <2>3, <2>4, <2>5, LongestBound, QuietComplete DEF Appended, Fresh
  <2> QED
    BY <2>6
<1>2. ASSUME NEW items \in SUBSET Nat, NEW v \in Nat, ComposeOf(items, v)
      PROVE  \E new : Appended(new)
  <2>1. CASE UNCHANGED events
    <3>1. /\ << >> \in Seq(Events) /\ Len(<< >>) = 0 /\ events' = events \o << >>
      BY <2>1, ShortLogs, ConcatProperties, EmptySeq DEF RowsOK
    <3>2. Appended(<< >>)
      BY <3>1, ShortLogs, LongestBound, QuietComplete DEF Appended, Fresh
    <3> QED
      BY <3>2
  <2>2. CASE events' = events \o << RelinkEvent(v, Len(packets) + 1) >>
    <3>1. PICK p : p = Len(packets) + 1
      OBVIOUS
    <3> DEFINE event == RelinkEvent(v, p)
               new == << event >>
    <3>2. p \in Nat
      BY <3>1, RowPlaces
    <3>3. event \in Events /\ ~ Decides(event) /\ ~ IsImport(event)
      BY <3>2 DEF RelinkEvent, Events, Decides, IsImport
    <3>4. new \in Seq(Events) /\ Quiet(new) /\ ImportFree(new) /\ Len(new) = 1
      BY <3>3, ShortLogs
    <3>5. events' = events \o new
      BY <2>2, <3>1
    <3> HIDE DEF new, event
    <3>6. Appended(new)
      BY <3>4, <3>5, LongestBound, QuietComplete DEF Appended, Fresh
    <3> QED
      BY <3>6
  <2> QED
    BY <1>2, <2>1, <2>2 DEF ComposeOf
<1>3. ASSUME NEW v \in 1..Len(vouchers), NEW fields \in Fields, RefreshOf(v, fields)
      PROVE  \E new : Appended(new)
  <2> DEFINE new == RefreshEvents(v, fields)
  <2>1. v \in Nat
    BY RowPlaces
  <2>2. new \in Seq(Events) /\ Quiet(new) /\ ImportFree(new)
    BY <2>1, PlannedEvents, QuietEvents, ImportFreeEvents DEF Quiet
  <2>3. Len(new) = 2 /\ events' = events \o new
    BY <1>3 DEF RefreshEvents, RefreshOf
  <2> HIDE DEF new
  <2>4. Appended(new)
    BY <2>2, <2>3, LongestBound, QuietComplete DEF Appended, Fresh
  <2> QED
    BY <2>4
<1>4. ASSUME NEW file \in SUBSET SieIds, NEW planned, ImportOf(file, planned)
      PROVE  \E new : Appended(new)
  <2> DEFINE new == ImportedEvents(planned)
             fresh == file \ Imported(events)
  <2>1. planned \in Orders(fresh) /\ events' = events \o new
    BY <1>4 DEF ImportOf
  <2>2. new \in Seq(Events)
    BY <1>4, LoggingEvents
  <2>3. /\ fresh \subseteq SieIds /\ IsFiniteSet(fresh)
        /\ Cardinality(fresh) <= Cardinality(SieIds) /\ Cardinality(fresh) \in Nat
    BY SieIdsAssumption, FS_Subset, FS_CardinalityType
  <2>4. Len(planned) = Cardinality(fresh)
    <3>1. planned \in [1..Cardinality(fresh) -> fresh]
      BY <2>1 DEF Orders
    <3>2. planned \in Seq(fresh)
      BY <2>3, <3>1, SeqDef
    <3> QED
      BY <2>3, <3>1, <3>2, LenProperties
  <2>5. DOMAIN new = 1..Len(planned) /\ \A i \in 1..Len(planned) : new[i].type = "VoucherImported"
    BY DEF ImportedEvents
  <2>6. Len(new) = Len(planned)
    BY <2>2, <2>3, <2>4, <2>5, LenProperties
  <2>7. Fresh(new)
    BY <2>1 DEF Fresh
  <2> HIDE DEF new, fresh
  <2>8. Complete(new)
    BY <2>5, <2>6 DEF Complete
  <2>9. Len(new) <= Longest
    <3>1. Cardinality(SieIds) \in Nat
      BY SieIdsAssumption, FS_CardinalityType
    <3> QED
      BY <2>3, <2>4, <2>6, <3>1, LongestBound
  <2>10. Appended(new)
    BY <2>1, <2>2, <2>7, <2>8, <2>9 DEF Appended
  <2> QED
    BY <2>10
<1>5. ASSUME NEW v \in 1..Len(vouchers), NEW read \in Reviews, NEW action \in Actions,
             NEW edit \in Edits \cup {NoEdit}, DecisionOf(v, read, action, edit)
      PROVE  \E new : Appended(new)
  <2> DEFINE new == DecisionEvents(v, vouchers[v], read, action, edit)
  <2>1. vouchers[v] \in Vouchers /\ v \in Nat /\ reviews[v].status = "needs-review"
    BY <1>5, RowPlaces DEF DecisionOf, RowsOK
  <2>2. new \in Seq(Events)
    BY <2>1, PlannedDecisionEvents
  <2>3. Fresh(new)
    BY ImportFreeEvents DEF Fresh
  <2>4. Len(new) <= 2
    BY DEF DecisionEvents
  <2>5. events' = events \o new
    BY <1>5 DEF DecisionOf
  <2>6. reviews[v].blocked <=> Blocking(vouchers[v].fields)
    BY <2>1 DEF FollowInv, FollowsAt
  <2>7. EnforceBlockedReason /\ action = "approve" => ~ Blocking(vouchers[v].fields)
    BY <1>5, <2>6 DEF DecisionOf, ReviewBlocked
  <2>8. Complete(new)
    <3> SUFFICES ASSUME NEW i \in 1..Len(new), EnforceBlockedReason,
                        new[i].type = "PostedToLedger", new[i].action = "approve"
                 PROVE  ~ Blocking(new[i].fields)
      BY DEF Complete
    <3>1. new[i].action = action /\ new[i].fields = vouchers[v].fields
      BY DEF DecisionEvents, DecisionEvent, PostingEvent
    <3> QED
      BY <2>7, <3>1
  <2>9. Len(new) <= Longest
    BY <2>2, <2>4, LongestBound, LenProperties
  <2> HIDE DEF new
  <2>10. Appended(new)
    BY <2>2, <2>3, <2>5, <2>8, <2>9 DEF Appended
  <2> QED
    BY <2>10
<1>6. CASE SimulationOf
  <2> DEFINE new == << SimulationEvent >>
  <2>1. SimulationEvent \in Events /\ ~ Decides(SimulationEvent) /\ ~ IsImport(SimulationEvent)
    BY DEF SimulationEvent, Events, Decides, IsImport
  <2>2. new \in Seq(Events) /\ Quiet(new) /\ ImportFree(new) /\ Len(new) = 1
    BY <2>1, ShortLogs
  <2>3. events' = events \o new
    BY <1>6 DEF SimulationOf
  <2> HIDE DEF new
  <2>4. Appended(new)
    BY <2>2, <2>3, LongestBound, QuietComplete DEF Appended, Fresh
  <2> QED
    BY <2>4
<1> QED
  BY <1>1, <1>2, <1>3, <1>4, <1>5, <1>6 DEF CommitOf

\* The log grows by a commit or by an outsider's event, if it grows.
LEMMA LogSteps ==
    ASSUME StoreInv, FollowInv, [Next]_vars
    PROVE  \/ UNCHANGED events
           \/ \E new : Appended(new)
           \/ events' = events \o << Outside >>
<1>1. ASSUME NEW r \in Requests, TxStep(r) PROVE UNCHANGED events
  BY <1>1, PlanShape DEF TxStep, Begin, LockTail, Abort, ForkAborts, tables
<1>2. ASSUME NEW r \in Requests, Commit(r) PROVE \E new : Appended(new)
  BY <1>2, CommitEffect, CommitAppends DEF StoreInv, TypesInv
<1> QED
  BY <1>1, <1>2, StepKinds DEF FinishSuggest, BeginSuggest, OutsideRead, OutsideAppend, AppendEvents,
     vars, tables

\* No posting of an approval misses mandatory data, in normal mode.
LEMMA NextApproves ==
    StoreInv /\ FollowInv /\ ApprovedFieldsComplete /\ [Next]_vars => ApprovedFieldsComplete'
<1> SUFFICES ASSUME StoreInv, FollowInv, ApprovedFieldsComplete, [Next]_vars
             PROVE  ApprovedFieldsComplete'
  OBVIOUS
<1>1. events \in Seq(LoggedEvents)
  BY DEF StoreInv, TypesInv, RowsOK
<1>2. CASE UNCHANGED events
  BY <1>2 DEF ApprovedFieldsComplete
<1>3. ASSUME NEW new \in Seq(LoggedEvents), events' = events \o new, Complete(new)
      PROVE  ApprovedFieldsComplete'
  <2>1. /\ DOMAIN events = 1..Len(events)
        /\ \A i \in DOMAIN (events \o new) :
              \/ i \in 1..Len(events) /\ (events \o new)[i] = events[i]
              \/ i - Len(events) \in 1..Len(new) /\ (events \o new)[i] = new[i - Len(events)]
    BY <1>1, ConcatPlaces
  <2>2. \A i \in DOMAIN (events \o new) :
            EnforceBlockedReason /\ (events \o new)[i].type = "PostedToLedger"
                /\ (events \o new)[i].action = "approve"
            => ~ Blocking((events \o new)[i].fields)
    BY <2>1, <1>3 DEF ApprovedFieldsComplete, Complete
  <2> QED
    BY <1>3, <2>2 DEF ApprovedFieldsComplete
<1>4. ASSUME NEW new, Appended(new) PROVE ApprovedFieldsComplete'
  BY <1>3, <1>4, LoggedPlans DEF Appended
<1>5. CASE events' = events \o << Outside >>
  <2> DEFINE new == << Outside >>
  <2>1. \A i \in 1..Len(new) : new[i].type # "PostedToLedger"
    BY DEF Outside
  <2>2. new \in Seq(LoggedEvents) /\ events' = events \o new
    BY <1>5, OutsideEvent
  <2> HIDE DEF new
  <2>3. Complete(new)
    BY <2>1 DEF Complete
  <2> QED
    BY <1>3, <2>2, <2>3
<1> QED
  BY <1>2, <1>4, <1>5, LogSteps

\* In normal mode no approval is posted for a voucher that misses mandatory
\* data: the review's blocked reason and the voucher's fields change together,
\* and the lock keeps both between the check and the posting.
THEOREM PostgresApprovesComplete == Spec => []ApprovedFieldsComplete
<1>1. Init => ApprovedFieldsComplete
  BY DEF Init, ApprovedFieldsComplete
<1> QED
  BY <1>1, InitFollows, NextFollows, NextApproves, StoreInvariant, PTL DEF Spec

-----------------------------------------------------------------------------
(* What a closure that is run again checks again.                          *)

\* An SIE voucher is imported once.
LEMMA NextImportsOnce ==
    StoreInv /\ FollowInv /\ ImportedOnce /\ [Next]_vars => ImportedOnce'
<1> SUFFICES ASSUME StoreInv, FollowInv, ImportedOnce, [Next]_vars PROVE ImportedOnce'
  OBVIOUS
<1>1. events \in Seq(LoggedEvents) /\ ImportsOnce(events)
  BY DEF StoreInv, TypesInv, RowsOK, ImportedOnce
<1>2. ASSUME NEW new \in Seq(LoggedEvents), events' = events \o new, ImportFree(new)
      PROVE  ImportedOnce'
  <2>1. ImportsOnce(new) /\ \A j \in 1..Len(new) : ~ IsImport(new[j])
    BY <1>2, ImportFreeOnce DEF ImportFree
  <2>2. ImportsOnce(events \o new)
    BY <1>1, <2>1, ConcatImportsOnce
  <2> QED
    BY <1>2, <2>2 DEF ImportedOnce
<1>3. ASSUME NEW file \in SUBSET SieIds, NEW planned \in Orders(file \ Imported(events)),
             ImportedEvents(planned) \in Seq(LoggedEvents),
             events' = events \o ImportedEvents(planned)
      PROVE  ImportedOnce'
  <2>1. ImportsOnce(events \o ImportedEvents(planned))
    BY <1>1, <1>3, PlannedImportsOnce, ConcatImportsOnce
  <2> QED
    BY <1>3, <2>1 DEF ImportedOnce
<1>4. ASSUME NEW new, Appended(new) PROVE ImportedOnce'
  BY <1>2, <1>3, <1>4, LoggedPlans DEF Appended, Fresh
<1>5. CASE events' = events \o << Outside >>
  <2> DEFINE new == << Outside >>
  <2>1. \A i \in 1..Len(new) : ~ IsImport(new[i])
    BY OutsideEvent
  <2>2. new \in Seq(LoggedEvents) /\ events' = events \o new
    BY <1>5, OutsideEvent
  <2> HIDE DEF new
  <2>3. ImportFree(new)
    BY <2>1 DEF ImportFree
  <2> QED
    BY <1>2, <2>2, <2>3
<1>6. CASE UNCHANGED events
  BY <1>6 DEF ImportedOnce
<1> QED
  BY <1>4, <1>5, <1>6, LogSteps

\* A content is stored again only when nothing stored resolves to it: nothing
\* the duplicate search read changes before the insert.
LEMMA NextStoresLost ==
    StoreInv /\ [Next]_vars =>
        [Len(evidence') > Len(evidence) => Duplicates(evidence'[Len(evidence')]) = {}]_vars
<1> SUFFICES ASSUME StoreInv, [Next]_vars, Len(evidence') > Len(evidence)
             PROVE  Duplicates(evidence'[Len(evidence')]) = {}
  OBVIOUS
<1>1. RowsOK /\ TypesInv /\ Len(evidence) \in Nat
  BY RowPlaces DEF StoreInv, TypesInv
<1>2. evidence' # evidence
  BY <1>1
<1>3. PICK r \in Requests : Commit(r)
  <2>1. ASSUME NEW r \in Requests, TxStep(r) PROVE UNCHANGED evidence
    BY <2>1, PlanShape DEF TxStep, Begin, LockTail, Abort, ForkAborts, tables
  <2> QED
    BY <1>2, <2>1, StepKinds DEF FinishSuggest, BeginSuggest, OutsideRead, OutsideAppend, vars, tables
<1>4. CommitOf
  BY <1>1, <1>3, CommitEffect
<1>5. PICK hash \in Hashes \cup {NoHash} :
          evidence' = Append(evidence, hash) /\ Duplicates(hash) = {}
  BY <1>2, <1>4 DEF CommitOf, CreateOf, ComposeOf, RefreshOf, ImportOf, DecisionOf, SimulationOf
<1>6. evidence'[Len(evidence')] = hash
  BY <1>1, <1>5, AppendRow DEF RowsOK
<1>7. PICK stored : stored = evidence'[Len(evidence')]
  OBVIOUS
<1> QED
  BY <1>5, <1>6, <1>7

\* What a request does again after a fork it checks again, and what it has
\* checked stays so until it commits.
THEOREM PostgresRetriesOnce == Spec => RetriedOnce
<1>1. Init => ImportedOnce
  BY DEF Init, ImportedOnce, ImportsOnce
<1>2. Spec => []ImportedOnce
  BY <1>1, InitFollows, NextFollows, NextImportsOnce, StoreInvariant, PTL DEF Spec
<1>3. Spec => DuplicatesOnlyLost
  BY NextStoresLost, StoreInvariant, PTL DEF Spec, DuplicatesOnlyLost
<1> QED
  BY <1>2, <1>3, PTL DEF RetriedOnce
-----------------------------------------------------------------------------
(* Conflicts.                                                              *)

\* Behind the tail that a lock holder read there are events of outsiders only; a
\* second attempt has met one before, and a conflict two.
Witnessed(t) ==
    /\ t.phase \in Holding => \A i \in DOMAIN events : i > t.tail => events[i] = Outside
    /\ t.phase \in Queued /\ t.attempt = 2 => \E i \in DOMAIN events : events[i] = Outside
    /\ t.phase \in Holding /\ t.attempt = 2 =>
          \E i \in DOMAIN events : i <= t.tail /\ events[i] = Outside
    /\ t.phase = "conflict" =>
          \E i, j \in DOMAIN events : i # j /\ events[i] = Outside /\ events[j] = Outside

\* So for every transaction.
ConflictInv == \A r \in Requests : Witnessed(tx[r])

\* What has been met stays in the log; only outsiders append behind a held tail.
LEMMA WitnessedGrows ==
    ASSUME events \in Seq(LoggedEvents), NEW new \in Seq(LoggedEvents), events' = events \o new,
           NEW t, Witnessed(t), t.phase \in Holding => \A i \in 1..Len(new) : new[i] = Outside
    PROVE  Witnessed(t)'
<1>1. /\ \A i \in DOMAIN events : i \in DOMAIN events' /\ events'[i] = events[i]
      /\ \A i \in DOMAIN events' :
            \/ i \in DOMAIN events /\ events'[i] = events[i]
            \/ i - Len(events) \in 1..Len(new) /\ events'[i] = new[i - Len(events)]
  BY ConcatPlaces
<1> QED
  BY <1>1 DEF Witnessed

\* A step that moves the transaction of r and leaves the log alone.
LEMMA ConflictMoved ==
    ASSUME LockInv, ConflictInv, NEW r \in Requests, NEW t, tx' = [tx EXCEPT ![r] = t],
           UNCHANGED events, Witnessed(t)
    PROVE  ConflictInv'
<1>1. /\ tx'[r] = t /\ \A s \in Requests \ {r} : tx'[s] = tx[s]
  BY TxReplaced DEF LockInv
<1>2. ASSUME NEW s \in Requests PROVE Witnessed(tx[s])'
  <2>1. Witnessed(tx'[s])
    BY <1>1 DEF ConflictInv
  <2> QED
    BY <2>1 DEF Witnessed
<1> QED
  BY <1>2 DEF ConflictInv

\* An insert that dies on the unique key has met an event behind its tail.
LEMMA ForkIsOutside ==
    ASSUME StoreInv, ConflictInv, NEW r \in Requests, tx[r].phase = "planned", Forks(tx[r].tail)
    PROVE  \E i \in DOMAIN events : i > tx[r].tail /\ events[i] = Outside
<1>1. PICK i \in DOMAIN previous : previous[i] = tx[r].tail
  BY DEF Forks
<1>2. DOMAIN previous = DOMAIN events /\ DOMAIN events = 1..Len(events) /\ Len(events) \in Nat
  BY RowPlaces, LenProperties DEF StoreInv, TypesInv, RowsOK, ChainInv, LogOK
<1>3. previous[i] = i - 1 /\ i \in Nat
  BY <1>1, <1>2 DEF StoreInv, ChainInv, LogOK, ChainLinear
<1>4. i > tx[r].tail
  BY <1>1, <1>3
<1>5. events[i] = Outside
  BY <1>1, <1>2, <1>4 DEF ConflictInv, Witnessed, Holding
<1> QED
  BY <1>1, <1>2, <1>4, <1>5

\* The steps of a transaction.
LEMMA TxStepWitnessed ==
    ASSUME StoreInv, ConflictInv, NEW r \in Requests, TxStep(r)
    PROVE  ConflictInv'
<1>1. LockInv /\ Witnessed(tx[r]) /\ TxTyped(tx[r])
  BY DEF StoreInv, ConflictInv, TypesInv
<1>2. ASSUME tx' = [tx EXCEPT ![r] = Idle], UNCHANGED events PROVE ConflictInv'
  <2>1. Witnessed(Idle)
    BY DEF Witnessed, Idle, Holding, Queued
  <2> QED
    BY <1>1, <1>2, <2>1, ConflictMoved
<1>3. CASE Begin(r)
  <2> DEFINE t == Waiting(1, NoOp)
  <2>1. Witnessed(t)
    BY DEF Witnessed, Waiting, Holding
  <2>2. tx' = [tx EXCEPT ![r] = t] /\ UNCHANGED events
    BY <1>3 DEF Begin, tables
  <2> HIDE DEF t
  <2> QED
    BY <1>1, <2>1, <2>2, ConflictMoved
<1>4. CASE LockTail(r)
  <2> DEFINE t == [phase |-> "locked", attempt |-> tx[r].attempt,
                   op    |-> tx[r].op, tail    |-> Len(events)]
  <2>1. DOMAIN events = 1..Len(events) /\ Len(events) \in Nat
    BY RowPlaces, LenProperties DEF StoreInv, TypesInv, RowsOK
  <2>2. t.attempt = 2 => \E i \in DOMAIN events : events[i] = Outside
    BY <1>1, <1>4 DEF LockTail, Witnessed, Queued
  <2>3. t.phase = "locked" /\ t.tail = Len(events)
    OBVIOUS
  <2>4. tx' = [tx EXCEPT ![r] = t] /\ UNCHANGED events
    BY <1>4 DEF LockTail, tables
  <2> HIDE DEF t
  <2>5. Witnessed(t)
    BY <2>1, <2>2, <2>3 DEF Witnessed
  <2> QED
    BY <1>1, <2>4, <2>5, ConflictMoved
<1>5. CASE Plan(r)
  <2>1. tx[r].phase = "locked" /\ UNCHANGED events
    BY <1>5, PlanShape DEF tables
  <2>2. CASE End(r)
    BY <1>2, <2>1, <2>2 DEF End
  <2>3. ASSUME NEW op, NEW plan, Planned(r, op, plan) PROVE ConflictInv'
    <3> DEFINE t == [phase |-> "planned", attempt |-> tx[r].attempt, op |-> op,
                     tail  |-> tx[r].tail, plan |-> plan]
    <3>1. t.phase = "planned" /\ t.attempt = tx[r].attempt /\ t.tail = tx[r].tail
      OBVIOUS
    <3>2. tx' = [tx EXCEPT ![r] = t]
      BY <2>3 DEF Planned
    <3> HIDE DEF t
    <3>3. Witnessed(t)
      BY <1>1, <2>1, <3>1 DEF Witnessed, Holding, Queued
    <3> QED
      BY <1>1, <2>1, <3>2, <3>3, ConflictMoved
  <2> QED
    BY <1>5, <2>2, <2>3, PlanShape
<1>6. CASE Abort(r)
  BY <1>2, <1>6 DEF Abort, End, tables
<1>7. CASE ForkAborts(r)
  <2>1. tx[r].phase = "planned" /\ Forks(tx[r].tail) /\ UNCHANGED events
    BY <1>7 DEF ForkAborts, tables
  <2>2. PICK i \in DOMAIN events : i > tx[r].tail /\ events[i] = Outside
    BY <2>1, ForkIsOutside
  <2>3. CASE tx' = [tx EXCEPT ![r] = Waiting(2, tx[r].op)]
    <3> DEFINE t == Waiting(2, tx[r].op)
    <3>1. Witnessed(t)
      BY <2>2 DEF Witnessed, Waiting, Holding
    <3> HIDE DEF t
    <3> QED
      BY <1>1, <2>1, <2>3, <3>1, ConflictMoved DEF t
  <2>4. CASE tx[r].attempt = 2 /\ tx' = [tx EXCEPT ![r] = Conflict]
    <3>1. PICK j \in DOMAIN events : j <= tx[r].tail /\ events[j] = Outside
      BY <1>1, <2>1, <2>4 DEF Witnessed, Holding
    <3>2. i # j
      <4>1. tx[r].tail \in Nat
        BY <2>1, RowPlaces DEF StoreInv, TypesInv, ChainInv, TxsOK, TxOK, Tails
      <4>2. i \in Nat /\ j \in Nat
        BY RowPlaces, LenProperties DEF StoreInv, TypesInv, RowsOK
      <4> QED
        BY <2>2, <3>1, <4>1, <4>2
    <3>3. Witnessed(Conflict)
      BY <2>2, <3>1, <3>2 DEF Witnessed, Conflict, Holding, Queued
    <3> QED
      BY <1>1, <2>1, <2>4, <3>3, ConflictMoved
  <2> QED
    BY <1>7, <2>3, <2>4 DEF ForkAborts
<1> QED
  BY <1>3, <1>4, <1>5, <1>6, <1>7 DEF TxStep

\* Every step keeps the witnesses.
LEMMA NextWitnessed == StoreInv /\ FollowInv /\ ConflictInv /\ [Next]_vars => ConflictInv'
<1> SUFFICES ASSUME StoreInv, FollowInv, ConflictInv, [Next]_vars PROVE ConflictInv'
  OBVIOUS
<1>1. LockInv /\ events \in Seq(LoggedEvents)
  BY DEF StoreInv, TypesInv, RowsOK
<1>2. Witnessed(Idle)
  BY DEF Witnessed, Idle, Holding, Queued
<1>3. ASSUME NEW r \in Requests, Commit(r) PROVE ConflictInv'
  <2>1. tx[r].phase = "planned" /\ tx' = [tx EXCEPT ![r] = Idle]
    BY <1>3, CommitShape DEF End
  <2>2. PICK new : Appended(new)
    BY <1>3, CommitEffect, CommitAppends DEF StoreInv, TypesInv
  <2>3. new \in Seq(LoggedEvents) /\ events' = events \o new
    BY <2>2, LoggedPlans DEF Appended
  <2>4. ASSUME NEW s \in Requests PROVE Witnessed(tx[s])'
    <3>1. PICK u : u = tx'[s]
      OBVIOUS
    <3>2. Witnessed(u) /\ u.phase \notin Holding
      <4>1. CASE s = r
        BY <1>1, <1>2, <2>1, <3>1, <4>1 DEF LockInv, Idle, Holding
      <4>2. CASE s # r
        <5>1. u = tx[s]
          BY <1>1, <2>1, <3>1, <4>2 DEF LockInv
        <5>2. tx[s].phase \notin Holding
          BY <1>1, <2>1, <4>2, OneHolder DEF Holding
        <5> QED
          BY <5>1, <5>2 DEF ConflictInv
      <4> QED
        BY <4>1, <4>2
    <3>3. Witnessed(u)'
      BY <1>1, <2>3, <3>2, WitnessedGrows
    <3> QED
      BY <3>1, <3>3 DEF Witnessed
  <2> QED
    BY <2>4 DEF ConflictInv
<1>4. ASSUME NEW r \in Requests, FinishSuggest(r) PROVE ConflictInv'
  BY <1>1, <1>2, <1>4, ConflictMoved DEF FinishSuggest, End
<1>5. ASSUME NEW r \in Requests, NEW v \in DOMAIN vouchers, BeginSuggest(r, v) PROVE ConflictInv'
  <2> DEFINE t == [phase |-> "suggesting", voucher |-> v,
                   suggestion |-> DeterministicSuggestion(vouchers[v].fields)]
  <2>1. Witnessed(t)
    BY DEF Witnessed, Holding, Queued
  <2>2. tx' = [tx EXCEPT ![r] = t] /\ UNCHANGED events
    BY <1>5 DEF BeginSuggest, tables
  <2> HIDE DEF t
  <2> QED
    BY <1>1, <2>1, <2>2, ConflictMoved
<1>6. ASSUME UNCHANGED <<tx, events>> PROVE ConflictInv'
  BY <1>6 DEF ConflictInv, Witnessed
<1>7. ASSUME UNCHANGED tx, events' = events \o << Outside >> PROVE ConflictInv'
  <2> DEFINE new == << Outside >>
  <2>1. \A i \in 1..Len(new) : new[i] = Outside
    OBVIOUS
  <2>2. new \in Seq(LoggedEvents) /\ events' = events \o new
    BY <1>7, OutsideEvent
  <2> HIDE DEF new
  <2>3. ASSUME NEW s \in Requests PROVE Witnessed(tx[s])'
    <3>1. PICK u : u = tx[s]
      OBVIOUS
    <3>2. Witnessed(u)'
      BY <1>1, <2>1, <2>2, <3>1, WitnessedGrows DEF ConflictInv
    <3> QED
      BY <1>7, <3>1, <3>2 DEF Witnessed
  <2> QED
    BY <2>3 DEF ConflictInv
<1>8. ASSUME NEW w \in Outsiders, OutsideRead(w) \/ OutsideAppend(w) PROVE ConflictInv'
  BY <1>6, <1>7, <1>8 DEF OutsideRead, OutsideAppend, AppendEvents, tables
<1> QED
  BY <1>3, <1>4, <1>5, <1>6, <1>8, StepKinds, TxStepWitnessed DEF vars, tables

\* A request is answered with a conflict only after two outsiders' appends: each
\* of its two attempts met one of its own.
THEOREM PostgresConflictsAreReal == Spec => []ConflictNeedsTwoOutsiders
<1>1. Init => ConflictInv
  BY DEF Init, ConflictInv, Witnessed, Idle, Holding, Queued
<1>2. StoreInv /\ ConflictInv => ConflictNeedsTwoOutsiders
  <2> SUFFICES ASSUME StoreInv, ConflictInv, NEW r \in Requests, tx[r] = Conflict
               PROVE  Outsides >= 2
    BY DEF ConflictNeedsTwoOutsiders
  <2> DEFINE theirs == {i \in DOMAIN events : events[i] = Outside}
  <2>1. PICK i \in DOMAIN events : \E j \in DOMAIN events :
            i # j /\ events[i] = Outside /\ events[j] = Outside
    BY DEF ConflictInv, Witnessed, Conflict
  <2>2. PICK j \in DOMAIN events : i # j /\ events[i] = Outside /\ events[j] = Outside
    BY <2>1
  <2>3. IsFiniteSet(theirs)
    <3>1. DOMAIN events = 1..Len(events) /\ Len(events) \in Nat
      BY RowPlaces, LenProperties DEF StoreInv, TypesInv, RowsOK
    <3>2. IsFiniteSet(1..Len(events))
      BY <3>1, FS_Interval
    <3> QED
      BY <3>1, <3>2, FS_Subset
  <2>4. {i, j} \subseteq theirs
    BY <2>2
  <2>5. Cardinality({i, j}) = 2
    <3>1. IsFiniteSet({i}) /\ Cardinality({i}) = 1
      BY FS_Singleton
    <3>2. j \notin {i}
      BY <2>2
    <3>3. Cardinality({i} \cup {j}) = Cardinality({i}) + 1
      BY <3>1, <3>2, FS_AddElement
    <3>4. {i, j} = {i} \cup {j}
      OBVIOUS
    <3> QED
      BY <3>1, <3>3, <3>4
  <2>6. Cardinality({i, j}) <= Cardinality(theirs)
    BY <2>3, <2>4, FS_Subset
  <2>7. Cardinality(theirs) \in Nat
    BY <2>3, FS_CardinalityType
  <2> QED
    BY <2>5, <2>6, <2>7 DEF Outsides
<1> QED
  BY <1>1, <1>2, InitFollows, NextFollows, NextWitnessed, StoreInvariant, PTL DEF Spec
-----------------------------------------------------------------------------
(* The room that the model's bound leaves.                                 *)

\* Whoever is in a transaction still finds room for the most it can write, and
\* so do the outsiders.
RoomInv ==
    /\ Outsides <= MaxOutside
    /\ Active # {} =>
          Len(events) + Longest * Cardinality(Active) + (MaxOutside - Outsides) <= MaxEvents

\* What the bounds are stated over.
LEMMA RoomTypes ==
    ASSUME RowsOK
    PROVE  /\ Len(events) \in Nat /\ DOMAIN events = 1..Len(events)
           /\ IsFiniteSet({i \in DOMAIN events : events[i] = Outside}) /\ Outsides \in Nat
           /\ IsFiniteSet(Active) /\ Cardinality(Active) \in Nat
           /\ Longest \in Nat /\ 4 <= Longest
<1>1. Len(events) \in Nat /\ DOMAIN events = 1..Len(events)
  BY LenProperties DEF RowsOK
<1>2. IsFiniteSet({i \in DOMAIN events : events[i] = Outside})
  <2>1. IsFiniteSet(1..Len(events))
    BY <1>1, FS_Interval
  <2>2. {i \in DOMAIN events : events[i] = Outside} \subseteq 1..Len(events)
    BY <1>1
  <2> QED
    BY <2>1, <2>2, FS_Subset
<1>3. Outsides \in Nat
  BY <1>2, FS_CardinalityType DEF Outsides
<1>4. Active \subseteq Requests
  BY DEF Active
<1> QED
  BY <1>1, <1>2, <1>3, <1>4, RequestsAssumption, FS_Subset, FS_CardinalityType, LongestBound

\* The store's own events are nobody else's.
LEMMA OutsidesKept ==
    ASSUME RowsOK, NEW new \in Seq(Events), events' = events \o new
    PROVE  Len(events') = Len(events) + Len(new) /\ Outsides' = Outsides
<1> DEFINE u == events \o new
           theirs == {i \in DOMAIN events : events[i] = Outside}
<1>1. events \in Seq(LoggedEvents) /\ new \in Seq(LoggedEvents)
  BY LoggedPlans DEF RowsOK
<1>2. /\ DOMAIN events = 1..Len(events) /\ Len(u) = Len(events) + Len(new)
      /\ \A i \in 1..Len(events) : i \in DOMAIN u /\ u[i] = events[i]
      /\ \A i \in DOMAIN u :
            \/ i \in 1..Len(events) /\ u[i] = events[i]
            \/ i - Len(events) \in 1..Len(new) /\ u[i] = new[i - Len(events)]
  BY <1>1, ConcatPlaces
<1>3. \A j \in 1..Len(new) : new[j] # Outside
  <2>1. \A j \in 1..Len(new) : new[j] \in Events
    BY ElementOfSeq
  <2>2. Outside \notin Events
    BY DEF Outside, Events
  <2> QED
    BY <2>1, <2>2
<1> HIDE DEF u
<1>4. {i \in DOMAIN u : u[i] = Outside} = theirs
  BY <1>2, <1>3
<1> QED
  BY <1>2, <1>4 DEF u, Outsides

\* An outsider's event is one more of theirs.
LEMMA OutsidesMore ==
    ASSUME RowsOK, events' = events \o << Outside >>
    PROVE  Len(events') = Len(events) + 1 /\ Outsides' = Outsides + 1
<1> DEFINE new == << Outside >>
           u == events \o new
           n == Len(events)
           theirs == {i \in DOMAIN events : events[i] = Outside}
<1>1. events \in Seq(LoggedEvents) /\ new \in Seq(LoggedEvents) /\ Len(new) = 1 /\ new[1] = Outside
  BY OutsideEvent DEF RowsOK
<1>2. /\ n \in Nat /\ DOMAIN events = 1..n /\ Len(u) = n + 1 /\ DOMAIN u = 1..(n + 1)
      /\ \A i \in 1..n : u[i] = events[i]
      /\ u[n + 1] = Outside
  <2>1. Len(u) = n + 1 /\ u \in Seq(LoggedEvents)
        /\ \A i \in 1..(n + 1) : u[i] = IF i <= n THEN events[i] ELSE new[i - n]
    BY <1>1, ConcatProperties
  <2>2. n \in Nat /\ (n + 1) - n = 1
    BY <1>1, LenProperties
  <2>3. u[n + 1] = Outside
    BY <1>1, <2>1, <2>2
  <2> QED
    BY <1>1, <2>1, <2>2, <2>3, LenProperties
<1>3. IsFiniteSet(theirs) /\ Outsides \in Nat
  BY RoomTypes
<1> HIDE DEF u, n, new
<1>4. {i \in DOMAIN u : u[i] = Outside} = theirs \cup {n + 1}
  BY <1>2
<1>5. n + 1 \notin theirs
  BY <1>2
<1>6. Cardinality(theirs \cup {n + 1}) = Cardinality(theirs) + 1
  BY <1>3, <1>5, FS_AddElement
<1> QED
  BY <1>2, <1>4, <1>6 DEF u, n, new, Outsides

\* A request enters or leaves the appenders with its transaction.
LEMMA ActiveMoved ==
    ASSUME LockInv, NEW r \in Requests, NEW t, tx' = [tx EXCEPT ![r] = t]
    PROVE  Active' = IF t.phase \in Queued THEN Active \cup {r} ELSE Active \ {r}
  BY TxReplaced DEF LockInv, Active, Queued

\* One appender fewer needs that much less room.
LEMMA RoomOfOne ==
    ASSUME RowsOK, NEW r
    PROVE  /\ Active \ {r} = Active \/ Cardinality(Active) = Cardinality(Active \ {r}) + 1
           /\ r \notin Active => Cardinality(Active \cup {r}) = Cardinality(Active) + 1
           /\ r \in Active =>
                 Longest * Cardinality(Active) = Longest * Cardinality(Active \ {r}) + Longest
           /\ Cardinality(Active \ {r}) \in Nat
<1>1. IsFiniteSet(Active) /\ Longest \in Nat
  BY RoomTypes
<1>2. IsFiniteSet(Active \ {r}) /\ Cardinality(Active \ {r}) \in Nat
  <2>1. Active \ {r} \subseteq Active
    OBVIOUS
  <2> QED
    BY <1>1, <2>1, FS_Subset, FS_CardinalityType
<1>3. r \in Active => Cardinality(Active) = Cardinality(Active \ {r}) + 1
  <2> HAVE r \in Active
  <2>1. Active = (Active \ {r}) \cup {r} /\ r \notin Active \ {r}
    OBVIOUS
  <2> QED
    BY <1>2, <2>1, FS_AddElement
<1>4. r \notin Active => Cardinality(Active \cup {r}) = Cardinality(Active) + 1
  BY <1>1, FS_AddElement
<1>5. \A n \in Nat : Longest * (n + 1) = Longest * n + Longest
  BY <1>1
<1>6. r \in Active => Longest * Cardinality(Active) = Longest * Cardinality(Active \ {r}) + Longest
  BY <1>2, <1>3, <1>5
<1> QED
  BY <1>2, <1>3, <1>4, <1>6
\* A step without an append that leaves an appender out, or none.
LEMMA RoomKept ==
    ASSUME RowsOK, RoomInv, NEW r, Active' = Active \ {r} \/ Active' = Active, UNCHANGED events
    PROVE  RoomInv'
<1>1. Outsides' = Outsides
  BY DEF Outsides
<1>2. /\ Outsides \in Nat /\ Cardinality(Active) \in Nat /\ Len(events) \in Nat /\ Longest \in Nat
      /\ Longest * Cardinality(Active) \in Nat
  BY RoomTypes
<1>3. CASE Active' = Active
  BY <1>1, <1>3 DEF RoomInv
<1>4. CASE Active' = Active \ {r}
  <2>1. PICK left : left = Cardinality(Active \ {r})
    OBVIOUS
  <2>2. CASE r \notin Active
    BY <1>1, <1>4, <2>2 DEF RoomInv
  <2>3. CASE r \in Active
    <3>1. left \in Nat /\ Longest * Cardinality(Active) = Longest * left + Longest
      BY <2>1, <2>3, RoomOfOne
    <3>2. Longest * left \in Nat
      BY <1>2, <3>1
    <3>3. Len(events) + (Longest * left + Longest) + (MaxOutside - Outsides) <= MaxEvents
      BY <2>3, <3>1 DEF RoomInv
    <3>4. Len(events) + Longest * left + (MaxOutside - Outsides) <= MaxEvents
      BY <1>2, <3>2, <3>3, BoundsAssumption
    <3>5. Cardinality(Active') = left
      BY <1>4, <2>1
    <3> QED
      BY <1>1, <3>4, <3>5 DEF RoomInv
  <2> QED
    BY <2>2, <2>3
<1> QED
  BY <1>3, <1>4

\* Nobody enters or leaves the appenders.
LEMMA ActiveStays ==
    ASSUME LockInv, NEW r \in Requests, NEW t, tx' = [tx EXCEPT ![r] = t],
           tx[r].phase \notin Queued, t.phase \notin Queued
    PROVE  Active' = Active
<1>1. Active' = Active \ {r}
  BY ActiveMoved
<1>2. r \notin Active
  BY DEF Active, Queued
<1> QED
  BY <1>1, <1>2

\* The steps of a transaction before its commit.
LEMMA TxStepKeepsRoom ==
    ASSUME StoreInv, RoomInv, NEW r \in Requests, TxStep(r)
    PROVE  RoomInv'
<1>1. LockInv /\ RowsOK
  BY DEF StoreInv, TypesInv
<1>2. ASSUME NEW t, tx' = [tx EXCEPT ![r] = t], tx[r].phase \in Queued, UNCHANGED events
      PROVE  RoomInv'
  <2>1. r \in Active
    BY <1>2 DEF Active, Queued
  <2>2. Active' = IF t.phase \in Queued THEN Active \cup {r} ELSE Active \ {r}
    BY <1>1, <1>2, ActiveMoved
  <2>3. Active' = Active \/ Active' = Active \ {r}
    BY <2>1, <2>2
  <2> QED
    BY <1>1, <1>2, <2>3, RoomKept
<1>3. ASSUME NEW t, tx' = [tx EXCEPT ![r] = t], t.phase \notin Queued, UNCHANGED events
      PROVE  RoomInv'
  <2>1. Active' = Active \ {r}
    BY <1>1, <1>3, ActiveMoved
  <2> QED
    BY <1>1, <1>3, <2>1, RoomKept
<1>4. Idle.phase \notin Queued /\ Conflict.phase \notin Queued
  BY DEF Idle, Conflict, Queued
<1>5. CASE Begin(r)
  <2> DEFINE t == Waiting(1, NoOp)
  <2>1. t.phase \in Queued
    BY DEF Waiting, Queued
  <2>2. tx' = [tx EXCEPT ![r] = t] /\ UNCHANGED events /\ r \notin Active
    BY <1>5 DEF Begin, tables, Active
  <2> HIDE DEF t
  <2>3. Active' = Active \cup {r}
    BY <1>1, <2>1, <2>2, ActiveMoved
  <2>4. PICK more : more = Cardinality(Active \cup {r})
    OBVIOUS
  <2>5. more = Cardinality(Active) + 1
    BY <1>1, <2>2, <2>4, RoomOfOne
  <2>6. Len(events) + Longest * more + (MaxOutside - Outsides) <= MaxEvents
    BY <1>5, <2>5 DEF Begin, Room
  <2>7. Cardinality(Active') = more
    BY <2>3, <2>4
  <2>8. Outsides' = Outsides
    BY <2>2 DEF Outsides
  <2> QED
    BY <2>2, <2>6, <2>7, <2>8 DEF RoomInv
<1>6. CASE LockTail(r)
  <2> DEFINE t == [phase |-> "locked", attempt |-> tx[r].attempt,
                   op    |-> tx[r].op, tail    |-> Len(events)]
  <2>1. tx' = [tx EXCEPT ![r] = t] /\ UNCHANGED events /\ tx[r].phase \in Queued
    BY <1>6 DEF LockTail, tables, Queued
  <2> HIDE DEF t
  <2> QED
    BY <1>2, <2>1
<1>7. CASE Plan(r)
  <2>1. tx[r].phase = "locked" /\ UNCHANGED events
    BY <1>7, PlanShape DEF tables
  <2>2. CASE End(r)
    BY <1>3, <1>4, <2>1, <2>2 DEF End
  <2>3. ASSUME NEW op, NEW plan, Planned(r, op, plan) PROVE RoomInv'
    <3> DEFINE t == [phase |-> "planned", attempt |-> tx[r].attempt, op |-> op,
                     tail  |-> tx[r].tail, plan |-> plan]
    <3>1. tx' = [tx EXCEPT ![r] = t] /\ tx[r].phase \in Queued
      BY <2>1, <2>3 DEF Planned, Queued
    <3> HIDE DEF t
    <3> QED
      BY <1>2, <2>1, <3>1
  <2> QED
    BY <1>7, <2>2, <2>3, PlanShape
<1>8. CASE Abort(r)
  BY <1>3, <1>4, <1>8 DEF Abort, End, tables
<1>9. CASE ForkAborts(r)
  <2>1. tx[r].phase \in Queued /\ UNCHANGED events
    BY <1>9 DEF ForkAborts, tables, Queued
  <2>2. \/ tx' = [tx EXCEPT ![r] = Waiting(2, tx[r].op)]
        \/ tx' = [tx EXCEPT ![r] = Conflict]
    BY <1>9 DEF ForkAborts
  <2> QED
    BY <1>2, <2>1, <2>2
<1> QED
  BY <1>5, <1>6, <1>7, <1>8, <1>9 DEF TxStep

\* A commit uses the room that its transaction was given.
LEMMA CommitKeepsRoom ==
    ASSUME StoreInv, FollowInv, RoomInv, NEW r \in Requests, Commit(r)
    PROVE  RoomInv'
<1>1. LockInv /\ RowsOK
  BY DEF StoreInv, TypesInv
<1>2. PICK new : Appended(new)
  BY <1>1, CommitEffect, CommitAppends, <1>1 DEF StoreInv, TypesInv
<1>3. tx[r].phase = "planned" /\ tx' = [tx EXCEPT ![r] = Idle]
  BY CommitShape DEF End
<1>4. r \in Active /\ Active' = Active \ {r}
  <2>1. Idle.phase \notin Queued
    BY DEF Idle, Queued
  <2> QED
    BY <1>1, <1>3, <2>1, ActiveMoved DEF Active
<1>5. PICK left : left = Cardinality(Active \ {r})
  OBVIOUS
<1>6. /\ left \in Nat /\ Longest \in Nat /\ Outsides \in Nat /\ Len(events) \in Nat
      /\ Longest * Cardinality(Active) = Longest * left + Longest
  BY <1>1, <1>4, <1>5, RoomOfOne, RoomTypes
<1>7. Len(events) + (Longest * left + Longest) + (MaxOutside - Outsides) <= MaxEvents
  BY <1>4, <1>6 DEF RoomInv
<1>8. /\ Len(events') = Len(events) + Len(new) /\ Outsides' = Outsides
      /\ Len(new) \in Nat /\ Len(new) <= Longest
  BY <1>1, <1>2, OutsidesKept, LenProperties DEF Appended
<1>9. (Len(events) + Len(new)) + Longest * left + (MaxOutside - Outsides) <= MaxEvents
  <2>1. Longest * left \in Nat
    BY <1>6
  <2> QED
    BY <1>6, <1>7, <1>8, <2>1, BoundsAssumption
<1>10. Cardinality(Active') = left
  BY <1>4, <1>5
<1> QED
  BY <1>8, <1>9, <1>10 DEF RoomInv

\* Every step leaves the room it found.
LEMMA NextKeepsRoom == StoreInv /\ FollowInv /\ RoomInv /\ [Next]_vars => RoomInv'
<1> SUFFICES ASSUME StoreInv, FollowInv, RoomInv, [Next]_vars PROVE RoomInv'
  OBVIOUS
<1>1. LockInv /\ RowsOK
  BY DEF StoreInv, TypesInv
<1>2. ASSUME UNCHANGED <<tx, events>> PROVE RoomInv'
  BY <1>2 DEF RoomInv, Active, Outsides
<1>3. ASSUME NEW r \in Requests, FinishSuggest(r) PROVE RoomInv'
  <2>1. /\ tx' = [tx EXCEPT ![r] = Idle] /\ UNCHANGED events
        /\ tx[r].phase \notin Queued /\ Idle.phase \notin Queued
    BY <1>3 DEF FinishSuggest, End, Idle, Queued
  <2> QED
    BY <1>1, <2>1, ActiveStays, RoomKept
<1>4. ASSUME NEW r \in Requests, NEW v \in DOMAIN vouchers, BeginSuggest(r, v) PROVE RoomInv'
  <2> DEFINE t == [phase |-> "suggesting", voucher |-> v,
                   suggestion |-> DeterministicSuggestion(vouchers[v].fields)]
  <2>1. /\ tx' = [tx EXCEPT ![r] = t] /\ UNCHANGED events
        /\ tx[r].phase \notin Queued /\ t.phase \notin Queued
    BY <1>4 DEF BeginSuggest, tables, Queued
  <2> HIDE DEF t
  <2> QED
    BY <1>1, <2>1, ActiveStays, RoomKept
<1>5. ASSUME UNCHANGED tx, events' = events \o << Outside >>, Outsides < MaxOutside PROVE RoomInv'
  <2>1. Len(events') = Len(events) + 1 /\ Outsides' = Outsides + 1
    BY <1>1, <1>5, OutsidesMore
  <2>2. Active' = Active
    BY <1>5 DEF Active
  <2>3. /\ Outsides \in Nat /\ Len(events) \in Nat /\ Longest * Cardinality(Active) \in Nat
    BY <1>1, RoomTypes
  <2>4. PICK used \in Nat : used = Longest * Cardinality(Active)
    BY <2>3
  <2>5. Outsides + 1 <= MaxOutside
    BY <1>5, <2>3, BoundsAssumption
  <2>6. Active # {} => (Len(events) + 1) + used + (MaxOutside - (Outsides + 1)) <= MaxEvents
    <3> HAVE Active # {}
    <3>1. Len(events) + used + (MaxOutside - Outsides) <= MaxEvents
      BY <2>4 DEF RoomInv
    <3> QED
      BY <2>3, <3>1, BoundsAssumption
  <2>7. Longest * Cardinality(Active') = used
    BY <2>2, <2>4
  <2> QED
    BY <2>1, <2>2, <2>5, <2>6, <2>7 DEF RoomInv
<1>6. ASSUME NEW w \in Outsiders, OutsideRead(w) \/ OutsideAppend(w) PROVE RoomInv'
  BY <1>2, <1>5, <1>6 DEF OutsideRead, OutsideAppend, AppendEvents, tables
<1>7. CASE UNCHANGED vars
  BY <1>2, <1>7 DEF vars, tables
<1> QED
  BY <1>3, <1>4, <1>6, <1>7, StepKinds, TxStepKeepsRoom, CommitKeepsRoom

\* Nobody has begun.
LEMMA InitRoom == Init => RoomInv
<1> SUFFICES ASSUME Init PROVE RoomInv
  OBVIOUS
<1>1. Active = {}
  BY DEF Init, Active, Idle
<1>2. {i \in DOMAIN events : events[i] = Outside} = {}
  BY DEF Init
<1>3. Outsides = 0
  BY <1>2, FS_EmptySet DEF Outsides
<1> QED
  BY <1>1, <1>3, BoundsAssumption DEF RoomInv

\* A commit finds room for a decision and its posting.
LEMMA RoomToDecide ==
    ASSUME StoreInv, RoomInv, NEW r \in Requests, Commit(r)
    PROVE  Len(events) + 2 \in 1..MaxEvents
<1>1. RowsOK
  BY DEF StoreInv, TypesInv
<1>2. r \in Active
  BY CommitShape DEF Active
<1>3. PICK left : left = Cardinality(Active \ {r})
  OBVIOUS
<1>4. /\ left \in Nat /\ Longest \in Nat /\ 4 <= Longest /\ Outsides \in Nat /\ Len(events) \in Nat
      /\ Longest * Cardinality(Active) = Longest * left + Longest
  BY <1>1, <1>2, <1>3, RoomOfOne, RoomTypes
<1>5. Longest * left \in Nat
  BY <1>4
<1>6. Len(events) + (Longest * left + Longest) + (MaxOutside - Outsides) <= MaxEvents
      /\ Outsides <= MaxOutside
  BY <1>2, <1>4 DEF RoomInv
<1> QED
  BY <1>4, <1>5, <1>6, BoundsAssumption
-----------------------------------------------------------------------------
(* The store implements the posting book.                                  *)

\* The book as the store keeps it.
BookStatus == [v \in DOMAIN reviews |-> reviews[v].status]
BookPostings == [v \in DOMAIN vouchers |-> Postings(events, v)]

\* Its entries are the vouchers'.
LEMMA BookEntries ==
    ASSUME RowsOK
    PROVE  /\ BookStatus = [v \in 1..Len(vouchers) |-> reviews[v].status]
           /\ BookPostings = [v \in 1..Len(vouchers) |-> Postings(events, v)]
           /\ BookStatus \in Seq(Statuses) /\ Len(BookStatus) = Len(vouchers)
           /\ BookPostings \in Seq(SUBSET Nat) /\ Len(BookPostings) = Len(vouchers)
<1>1. PICK n : n = Len(vouchers)
  OBVIOUS
<1>2. /\ n \in Nat /\ DOMAIN vouchers = 1..n /\ DOMAIN reviews = 1..n
      /\ \A v \in 1..n : reviews[v] \in Reviews
      /\ DOMAIN events \subseteq Nat
  BY <1>1, RowPlaces, LenProperties DEF RowsOK
<1>3. BookStatus \in [1..n -> Statuses] /\ BookPostings \in [1..n -> SUBSET Nat]
  BY <1>2 DEF BookStatus, BookPostings, Reviews, Postings
<1>4. BookStatus \in Seq(Statuses) /\ BookPostings \in Seq(SUBSET Nat)
  BY <1>2, <1>3, SeqDef
<1>5. Len(BookStatus) = n /\ Len(BookPostings) = n
  BY <1>2, <1>3, <1>4, LenProperties
<1> QED
  BY <1>1, <1>2, <1>4, <1>5 DEF BookStatus, BookPostings

\* A quiet append leaves the postings of every voucher.
LEMMA QuietPostings ==
    ASSUME RowsOK, NEW new \in Seq(LoggedEvents), events' = events \o new, Quiet(new), NEW v
    PROVE  Postings(events', v) = Postings(events, v)
  BY QuietIsSilent, SilentPostings DEF RowsOK

\* A quiet step that touches no status is a stutter of the book.
LEMMA BookStutters ==
    ASSUME RowsOK, RowsOK', Len(vouchers') = Len(vouchers),
           \A v \in 1..Len(vouchers) : reviews'[v].status = reviews[v].status,
           NEW new \in Seq(LoggedEvents), events' = events \o new, Quiet(new)
    PROVE  BookStatus' = BookStatus /\ BookPostings' = BookPostings
<1>1. PICK n : n = Len(vouchers)
  OBVIOUS
<1>2. DOMAIN vouchers = 1..n /\ DOMAIN reviews = 1..n
  BY <1>1, RowPlaces
<1>3. DOMAIN vouchers' = 1..n /\ DOMAIN reviews' = 1..n
  <2>1. DOMAIN vouchers' = 1..Len(vouchers') /\ DOMAIN reviews' = 1..Len(reviews')
        /\ Len(reviews') = Len(vouchers')
    BY LenProperties DEF RowsOK
  <2> QED
    BY <1>1, <2>1
<1>4. BookStatus' = BookStatus
  BY <1>1, <1>2, <1>3 DEF BookStatus
<1>5. BookPostings' = BookPostings
  BY <1>2, <1>3, QuietPostings DEF BookPostings
<1> QED
  BY <1>4, <1>5

\* A create opens an entry of the book.
LEMMA BookOpens ==
    ASSUME RowsOK, FollowInv, NEW hash \in Hashes \cup {NoHash}, NEW fields \in Fields,
           CreateOf(hash, fields)
    PROVE  /\ BookStatus' = Append(BookStatus, "needs-review")
           /\ BookPostings' = Append(BookPostings, {})
<1>1. PICK n : n = Len(vouchers)
  OBVIOUS
<1>2. /\ n \in Nat /\ DOMAIN vouchers = 1..n /\ DOMAIN reviews = 1..n
      /\ vouchers \in Seq(Vouchers) /\ reviews \in Seq(Reviews) /\ Len(reviews) = n
  BY <1>1, RowPlaces DEF RowsOK
<1>3. PICK e, p : e = Len(evidence) + 1 /\ p = Len(packets) + 1
  OBVIOUS
<1>4. e \in Nat /\ p \in Nat
  BY <1>3, RowPlaces
<1> DEFINE new == CreateEvents(e, n + 1, p, fields)
           row == CreatedVoucher(p, fields)
           review == CreatedReview(fields)
<1>5. new \in Seq(LoggedEvents) /\ Quiet(new)
  <2>1. new \in Seq(Events) /\ Quiet(new)
    BY <1>2, <1>4, PlannedEvents, QuietEvents DEF Quiet
  <2> QED
    BY <2>1, LoggedPlans
<1>6. row \in Vouchers /\ review \in Reviews /\ review.status = "needs-review"
  BY <1>4, CreatedRows DEF CreatedReview
<1>7. /\ events' = events \o new
      /\ vouchers' = Append(vouchers, row) /\ reviews' = Append(reviews, review)
  BY <1>1, <1>3 DEF CreateOf
<1> HIDE DEF new, row, review
<1>8. /\ DOMAIN vouchers' = 1..(n + 1) /\ DOMAIN reviews' = 1..(n + 1)
      /\ reviews'[n + 1] = review /\ \A v \in 1..n : reviews'[v] = reviews[v]
  BY <1>1, <1>2, <1>6, <1>7, AppendRow
<1>9. Postings(events, n + 1) = {}
  <2>1. \A i \in DOMAIN events : ~ IsPosting(events[i], n + 1)
    <3>1. n + 1 \notin 1..n
      BY <1>2
    <3> QED
      BY <1>1, <3>1, DecidingEvents DEF FollowInv, DecidesRows
  <2> QED
    BY <2>1 DEF Postings
<1>10. \A v : Postings(events', v) = Postings(events, v)
  BY <1>5, <1>7, QuietPostings
<1>11. /\ Append(BookStatus, "needs-review") =
              [v \in 1..(n + 1) |-> IF v = n + 1 THEN "needs-review" ELSE reviews[v].status]
       /\ Append(BookPostings, {}) =
              [v \in 1..(n + 1) |-> IF v = n + 1 THEN {} ELSE Postings(events, v)]
  <2>1. /\ BookStatus = [v \in 1..n |-> reviews[v].status]
        /\ BookPostings = [v \in 1..n |-> Postings(events, v)]
        /\ BookStatus \in Seq(Statuses) /\ Len(BookStatus) = n
        /\ BookPostings \in Seq(SUBSET Nat) /\ Len(BookPostings) = n
    BY <1>1, BookEntries
  <2>2. "needs-review" \in Statuses /\ {} \in SUBSET Nat
    BY DEF Statuses
  <2> DEFINE opened == Append(BookStatus, "needs-review")
             posted == Append(BookPostings, {})
  <2> HIDE DEF BookStatus, BookPostings
  <2>3. /\ opened \in Seq(Statuses) /\ DOMAIN opened = 1..(n + 1)
        /\ opened[n + 1] = "needs-review" /\ \A v \in 1..n : opened[v] = BookStatus[v]
    <3>1. PICK was \in Seq(Statuses) : was = BookStatus
      BY <2>1
    <3>2. PICK open \in Statuses : open = "needs-review"
      BY <2>2
    <3>3. Len(was) = n
      BY <2>1, <3>1
    <3> QED
      BY <3>1, <3>2, <3>3, AppendRow
  <2>4. /\ posted \in Seq(SUBSET Nat) /\ DOMAIN posted = 1..(n + 1)
        /\ posted[n + 1] = {} /\ \A v \in 1..n : posted[v] = BookPostings[v]
    <3>1. PICK was \in Seq(SUBSET Nat) : was = BookPostings
      BY <2>1
    <3>2. PICK none \in SUBSET Nat : none = {}
      BY <2>2
    <3>3. Len(was) = n
      BY <2>1, <3>1
    <3> QED
      BY <3>1, <3>2, <3>3, AppendRow
  <2>5. \A v \in 1..(n + 1) : v = n + 1 \/ v \in 1..n
    BY <1>2
  <2> HIDE DEF opened, posted
  <2>6. /\ opened = [v \in 1..(n + 1) |-> opened[v]]
        /\ posted = [v \in 1..(n + 1) |-> posted[v]]
    BY <2>3, <2>4, LenProperties
  <2>7. \A v \in 1..(n + 1) : opened[v] = IF v = n + 1 THEN "needs-review" ELSE reviews[v].status
    BY <2>1, <2>3, <2>5
  <2>8. \A v \in 1..(n + 1) : posted[v] = IF v = n + 1 THEN {} ELSE Postings(events, v)
    BY <2>1, <2>4, <2>5
  <2>9. opened = [v \in 1..(n + 1) |-> IF v = n + 1 THEN "needs-review" ELSE reviews[v].status]
    BY <2>6, <2>7
  <2>10. posted = [v \in 1..(n + 1) |-> IF v = n + 1 THEN {} ELSE Postings(events, v)]
    BY <2>6, <2>8
  <2> QED
    BY <2>9, <2>10 DEF opened, posted
<1>12. \A v \in 1..(n + 1) : v # n + 1 => v \in 1..n
  BY <1>2
<1>13. BookStatus' = Append(BookStatus, "needs-review")
  <2>1. \A v \in 1..(n + 1) :
            reviews'[v].status = IF v = n + 1 THEN "needs-review" ELSE reviews[v].status
    BY <1>6, <1>8, <1>12
  <2>2. BookStatus' = [v \in 1..(n + 1) |-> IF v = n + 1 THEN "needs-review" ELSE reviews[v].status]
    BY <1>8, <2>1 DEF BookStatus
  <2> QED
    BY <1>11, <2>2
<1>14. BookPostings' = Append(BookPostings, {})
  <2>1. \A v \in 1..(n + 1) : Postings(events', v) = IF v = n + 1 THEN {} ELSE Postings(events, v)
    BY <1>9, <1>10
  <2>2. BookPostings' = [v \in 1..(n + 1) |-> IF v = n + 1 THEN {} ELSE Postings(events, v)]
    BY <1>8, <2>1 DEF BookPostings
  <2> QED
    BY <1>11, <2>2
<1> QED
  BY <1>13, <1>14

\* A decision and its posting enter the book together, behind all the others.
LEMMA BookDecides ==
    ASSUME RowsOK, FollowInv, NEW v \in 1..Len(vouchers), NEW read \in Reviews,
           NEW action \in Actions, NEW edit \in Edits \cup {NoEdit}, DecisionOf(v, read, action, edit)
    PROVE  LET at == Len(events) + 2
               outcome == StatusForAction(action)
           IN  /\ BookStatus[v] = "needs-review"
               /\ \A w \in DOMAIN BookPostings : \A earlier \in BookPostings[w] : earlier < at
               /\ BookStatus' = [BookStatus EXCEPT ![v] = outcome]
               /\ BookPostings' = [BookPostings EXCEPT
                      ![v] = IF outcome = "rejected" THEN {} ELSE {at}]
<1> DEFINE at == Len(events) + 2
           outcome == StatusForAction(action)
           t == DecisionEvents(v, vouchers[v], read, action, edit)
<1>1. PICK n : n = Len(vouchers)
  OBVIOUS
<1>2. /\ n \in Nat /\ DOMAIN vouchers = 1..n /\ DOMAIN reviews = 1..n
      /\ vouchers[v] \in Vouchers /\ v \in Nat /\ reviews[v].status = "needs-review"
      /\ events \in Seq(LoggedEvents) /\ Len(events) \in Nat /\ DOMAIN events = 1..Len(events)
  BY <1>1, RowPlaces, LenProperties DEF RowsOK, DecisionOf
<1>3. /\ RowsOK' /\ Len(vouchers') = n /\ reviews'[v].status = outcome
      /\ \A w \in 1..n : w # v => vouchers'[w] = vouchers[w] /\ reviews'[w] = reviews[w]
  BY <1>1, DecisionKeepsRows
<1>4. DOMAIN vouchers' = 1..n /\ DOMAIN reviews' = 1..n
  <2>1. DOMAIN vouchers' = 1..Len(vouchers') /\ DOMAIN reviews' = 1..Len(reviews')
        /\ Len(reviews') = Len(vouchers')
    BY <1>3, LenProperties DEF RowsOK
  <2> QED
    BY <1>3, <2>1
<1>5. t \in Seq(LoggedEvents)
  <2>1. t \in Seq(Events)
    BY <1>2, PlannedDecisionEvents
  <2> QED
    BY <2>1, LoggedPlans
<1>6. events' = events \o t
  BY DEF DecisionOf
<1>7. Explained(events, "needs-review", v)
  BY <1>2 DEF FollowInv, FollowsAt
<1>8. Postings(events', v) = IF action = "reject" THEN {} ELSE {at}
  <2>1. /\ action = "reject" => Postings(events \o t, v) = {}
        /\ action # "reject" => Postings(events \o t, v) = {Len(events) + 2}
    BY <1>2, <1>5, <1>7, DecisionPosted
  <2> HIDE DEF t
  <2> QED
    BY <1>6, <2>1
<1>9. \A w \in 1..n : w # v => Postings(events', w) = Postings(events, w)
  BY <1>2, <1>5, <1>6, DecisionOfOne, SilentPostings
<1>10. outcome = "rejected" <=> action = "reject"
  BY DEF StatusForAction, Actions
<1>11. BookStatus[v] = "needs-review"
  BY <1>2 DEF BookStatus
<1>12. \A w \in DOMAIN BookPostings : \A earlier \in BookPostings[w] : earlier < at
  BY <1>2 DEF BookPostings, Postings
<1> HIDE DEF at, outcome, t
<1>13. BookStatus' = [BookStatus EXCEPT ![v] = outcome]
  BY <1>2, <1>3, <1>4 DEF BookStatus
<1>14. BookPostings' = [BookPostings EXCEPT ![v] = IF outcome = "rejected" THEN {} ELSE {at}]
  BY <1>2, <1>4, <1>8, <1>9, <1>10 DEF BookPostings
<1> QED
  BY <1>11, <1>12, <1>13, <1>14 DEF at, outcome
\* Each commit is a step of the book or a stutter.
LEMMA CommitBooks ==
    ASSUME RowsOK, RowsOK', FollowInv, CommitOf, Len(events) + 2 \in 1..MaxEvents
    PROVE  [Book!Next]_(Book!bookVars)
<1>1. ASSUME NEW new \in Seq(Events), events' = events \o new, Quiet(new),
             Len(vouchers') = Len(vouchers),
             \A v \in 1..Len(vouchers) : reviews'[v].status = reviews[v].status
      PROVE  [Book!Next]_(Book!bookVars)
  <2>1. BookStatus' = BookStatus /\ BookPostings' = BookPostings
    BY <1>1, BookStutters, LoggedPlans
  <2> QED
    BY <2>1 DEF Book!bookVars, BookStatus, BookPostings
<1>2. ASSUME NEW hash \in Hashes \cup {NoHash}, NEW fields \in Fields, CreateOf(hash, fields)
      PROVE  [Book!Next]_(Book!bookVars)
  <2>1. /\ BookStatus' = Append(BookStatus, "needs-review")
        /\ BookPostings' = Append(BookPostings, {})
    BY <1>2, BookOpens
  <2> QED
    BY <2>1 DEF Book!Next, Book!Open, BookStatus, BookPostings
<1>3. ASSUME NEW items \in SUBSET Nat, NEW v \in Nat, ComposeOf(items, v)
      PROVE  [Book!Next]_(Book!bookVars)
  <2>1. Len(vouchers') = Len(vouchers) /\ UNCHANGED reviews
    BY <1>3, ComposeKeepsRows DEF ComposeOf
  <2>2. CASE UNCHANGED events
    <3>1. << >> \in Seq(Events) /\ Quiet(<< >>) /\ events' = events \o << >>
      BY <2>2, ShortLogs, ConcatProperties, EmptySeq DEF RowsOK
    <3> QED
      BY <1>1, <2>1, <3>1
  <2>3. CASE events' = events \o << RelinkEvent(v, Len(packets) + 1) >>
    <3>1. PICK p : p = Len(packets) + 1
      OBVIOUS
    <3> DEFINE event == RelinkEvent(v, p)
               new == << event >>
    <3>2. p \in Nat
      BY <3>1, RowPlaces
    <3>3. event \in Events /\ ~ Decides(event)
      BY <3>2 DEF RelinkEvent, Events, Decides
    <3>4. new \in Seq(Events) /\ Quiet(new)
      BY <3>3, ShortLogs
    <3>5. events' = events \o new
      BY <2>3, <3>1
    <3> HIDE DEF new, event
    <3> QED
      BY <1>1, <2>1, <3>4, <3>5
  <2> QED
    BY <1>3, <2>2, <2>3 DEF ComposeOf
<1>4. ASSUME NEW v \in 1..Len(vouchers), NEW fields \in Fields, RefreshOf(v, fields)
      PROVE  [Book!Next]_(Book!bookVars)
  <2> DEFINE new == RefreshEvents(v, fields)
  <2>1. v \in Nat
    BY RowPlaces
  <2>2. new \in Seq(Events) /\ Quiet(new)
    BY <2>1, PlannedEvents, QuietEvents DEF Quiet
  <2>3. events' = events \o new
    BY <1>4 DEF RefreshOf
  <2>4. Len(vouchers') = Len(vouchers)
        /\ \A w \in 1..Len(vouchers) : reviews'[w].status = reviews[w].status
    <3>1. reviews[v] \in Reviews
      BY RowPlaces
    <3>2. RefreshedReview(reviews[v], fields).status = reviews[v].status
      BY <3>1 DEF RefreshedReview, Reviews
    <3> QED
      BY <1>4, <3>2, RefreshKeepsRows
  <2> HIDE DEF new
  <2> QED
    BY <1>1, <2>2, <2>3, <2>4
<1>5. ASSUME NEW file \in SUBSET SieIds, NEW planned, ImportOf(file, planned)
      PROVE  [Book!Next]_(Book!bookVars)
  <2> DEFINE new == ImportedEvents(planned)
  <2>1. new \in Seq(Events) /\ events' = events \o new /\ UNCHANGED <<vouchers, reviews>>
    BY <1>5, LoggingEvents DEF ImportOf
  <2>2. Quiet(new)
    <3>1. 1..Len(new) = DOMAIN new
      BY <2>1, LenProperties
    <3> QED
      BY <3>1 DEF ImportedEvents, Decides, Quiet
  <2> HIDE DEF new
  <2> QED
    BY <1>1, <2>1, <2>2
<1>6. ASSUME NEW v \in 1..Len(vouchers), NEW read \in Reviews, NEW action \in Actions,
             NEW edit \in Edits \cup {NoEdit}, DecisionOf(v, read, action, edit)
      PROVE  [Book!Next]_(Book!bookVars)
  <2>1. PICK at \in 1..MaxEvents : at = Len(events) + 2
    OBVIOUS
  <2>2. PICK outcome \in Book!Outcomes : outcome = StatusForAction(action)
    BY DEF StatusForAction, Actions, Book!Outcomes
  <2>3. v \in DOMAIN BookStatus
    BY RowPlaces DEF BookStatus
  <2>4. Book!Decide(v, outcome, at)
    <3>1. /\ BookStatus[v] = "needs-review"
          /\ \A w \in DOMAIN BookPostings : \A earlier \in BookPostings[w] : earlier < at
          /\ BookStatus' = [BookStatus EXCEPT ![v] = outcome]
          /\ BookPostings' = [BookPostings EXCEPT
                 ![v] = IF outcome = "rejected" THEN {} ELSE {at}]
      BY <1>6, <2>1, <2>2, BookDecides
    <3> QED
      BY <3>1 DEF Book!Decide, BookStatus, BookPostings
  <2> QED
    BY <2>3, <2>4 DEF Book!Next, BookStatus
<1>7. CASE SimulationOf
  <2> DEFINE new == << SimulationEvent >>
  <2>1. SimulationEvent \in Events /\ ~ Decides(SimulationEvent)
    BY DEF SimulationEvent, Events, Decides
  <2>2. new \in Seq(Events) /\ Quiet(new)
    BY <2>1, ShortLogs
  <2>3. events' = events \o new /\ UNCHANGED <<vouchers, reviews>>
    BY <1>7 DEF SimulationOf
  <2> HIDE DEF new
  <2> QED
    BY <1>1, <2>2, <2>3
<1> QED
  BY <1>2, <1>3, <1>4, <1>5, <1>6, <1>7 DEF CommitOf

\* What moves no voucher, no review's status and no posting is a stutter.
LEMMA UnbookedStutters ==
    ASSUME RowsOK, RowsOK', UNCHANGED vouchers,
           \A v \in 1..Len(vouchers) : reviews'[v].status = reviews[v].status,
           UNCHANGED events \/ events' = events \o << Outside >>
    PROVE  UNCHANGED Book!bookVars
<1>1. PICK new \in Seq(LoggedEvents) : events' = events \o new /\ Quiet(new)
  <2>1. CASE UNCHANGED events
    <3>1. << >> \in Seq(LoggedEvents) /\ Quiet(<< >>) /\ events' = events \o << >>
      BY <2>1, ShortLogs, LoggedPlans, ConcatProperties, EmptySeq DEF RowsOK
    <3> QED
      BY <3>1
  <2>2. CASE events' = events \o << Outside >>
    <3> DEFINE new == << Outside >>
    <3>1. new \in Seq(LoggedEvents) /\ Quiet(new)
      BY OutsideEvent DEF Quiet
    <3>2. events' = events \o new
      BY <2>2
    <3> HIDE DEF new
    <3> QED
      BY <3>1, <3>2
  <2> QED
    BY <2>1, <2>2
<1>2. BookStatus' = BookStatus /\ BookPostings' = BookPostings
  BY <1>1, BookStutters
<1> QED
  BY <1>2 DEF Book!bookVars, BookStatus, BookPostings

\* Every step of the store is a step of the book or a stutter.
LEMMA NextBooks ==
    StoreInv /\ StoreInv' /\ FollowInv /\ RoomInv /\ [Next]_vars => [Book!Next]_(Book!bookVars)
<1> SUFFICES ASSUME StoreInv, StoreInv', FollowInv, RoomInv, [Next]_vars
             PROVE  [Book!Next]_(Book!bookVars)
  OBVIOUS
<1>1. RowsOK /\ RowsOK' /\ TypesInv
  BY DEF StoreInv, TypesInv
<1>2. ASSUME NEW r \in Requests, Commit(r) PROVE [Book!Next]_(Book!bookVars)
  BY <1>1, <1>2, CommitEffect, RoomToDecide, CommitBooks
<1>3. ASSUME UNCHANGED <<vouchers, reviews>>,
             UNCHANGED events \/ events' = events \o << Outside >>
      PROVE  UNCHANGED Book!bookVars
  BY <1>1, <1>3, UnbookedStutters
<1>4. ASSUME NEW r \in Requests, TxStep(r) PROVE UNCHANGED Book!bookVars
  <2>1. UNCHANGED <<vouchers, reviews, events>>
    BY <1>4, PlanShape DEF TxStep, Begin, LockTail, Abort, ForkAborts, tables
  <2> QED
    BY <1>3, <2>1
<1>5. ASSUME NEW r \in Requests, FinishSuggest(r) PROVE UNCHANGED Book!bookVars
  <2>1. UNCHANGED <<evidence, packets, vouchers, numbers, events>>
        /\ \/ UNCHANGED reviews
           \/ \E v \in 1..Len(vouchers), suggestion \in Suggestions :
                    /\ reviews[v].status = "needs-review"
                    /\ reviews' = [reviews EXCEPT ![v].suggestion = suggestion]
    BY <1>1, <1>5, SuggestEffect
  <2>2. ASSUME NEW v \in 1..Len(vouchers), NEW suggestion \in Suggestions,
               reviews' = [reviews EXCEPT ![v].suggestion = suggestion]
        PROVE  \A w \in 1..Len(vouchers) : reviews'[w].status = reviews[w].status
    <3>1. /\ reviews'[v] = [reviews[v] EXCEPT !.suggestion = suggestion]
          /\ \A w \in 1..Len(vouchers) : w # v => reviews'[w] = reviews[w]
      BY <1>1, <2>1, <2>2, SuggestionWritten
    <3>2. reviews[v] \in Reviews
      BY <1>1, RowPlaces
    <3>3. [reviews[v] EXCEPT !.suggestion = suggestion].status = reviews[v].status
      BY <3>2 DEF Reviews
    <3> QED
      BY <3>1, <3>3
  <2>3. \A w \in 1..Len(vouchers) : reviews'[w].status = reviews[w].status
    BY <2>1, <2>2
  <2> QED
    BY <1>1, <2>1, <2>3, UnbookedStutters
<1>6. ASSUME NEW r \in Requests, NEW v \in DOMAIN vouchers, BeginSuggest(r, v)
      PROVE  UNCHANGED Book!bookVars
  BY <1>3, <1>6 DEF BeginSuggest, tables
<1>7. ASSUME NEW w \in Outsiders, OutsideRead(w) \/ OutsideAppend(w)
      PROVE  UNCHANGED Book!bookVars
  BY <1>3, <1>7 DEF OutsideRead, OutsideAppend, AppendEvents, tables
<1>8. CASE UNCHANGED vars
  BY <1>3, <1>8 DEF vars, tables
<1> QED
  BY <1>2, <1>4, <1>5, <1>6, <1>7, <1>8, StepKinds

\* Every run of the store is a run of the posting book: a commit decides a voucher
\* once and posts it in the same step behind every earlier posting, although it
\* writes what it read before, beside suggestions and outsiders without the lock.
THEOREM PostgresImplementsBook == Spec => ImplementsPostingBook
<1>1. Init => Book!Init
  <2> SUFFICES ASSUME Init PROVE Book!Init
    OBVIOUS
  <2>1. [v \in DOMAIN reviews |-> reviews[v].status] = << >>
    BY DEF Init
  <2>2. [v \in DOMAIN vouchers |-> Postings(events, v)] = [v \in DOMAIN << >> |-> {}]
    BY DEF Init
  <2> QED
    BY <2>1, <2>2 DEF Book!Init
<1> QED
  BY <1>1, InitFollows, NextFollows, InitRoom, NextKeepsRoom, NextBooks, StoreInvariant, PTL
  DEF Spec, ImplementsPostingBook, Book!Spec
=============================================================================
