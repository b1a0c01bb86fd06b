--------------------------- MODULE ComplianceAlerts ---------------------------
(***************************************************************************)
(* The compliance watch: which conditions the rules detect in the reviews  *)
(* and vouchers, and how a refresh merges them with the alerts there are.  *)
(* In memory a refresh is one step.  In Postgres it is a READ COMMITTED    *)
(* transaction without the workspace lock: two SELECTs, an upsert for each *)
(* alert, a SELECT of the open ones, an UPDATE, and the commit, with other *)
(* refreshes and the ledger's own transactions in between.                 *)
(***************************************************************************)
EXTENDS Integers, Sequences, FiniteSets, SequencesExt, FiniteSetsExt

CONSTANTS
    Stores,         \* the stores to consider, of "memory" and "postgres"
    Refreshers,     \* refreshComplianceAlerts in flight (Postgres)
    StaleDays,      \* a blocked voucher is stale after more than so many days
    AlertCap,       \* MEMORY_ALERT_CAP, without the seeded alert
    MaxVoucher,     \* bound: vouchers
    LastAlertDay    \* bound: days that pass

ASSUME ComplianceConstants == {StaleDays, AlertCap, MaxVoucher, LastAlertDay} \subseteq Nat

VARIABLES
    store,      \* the store of this deployment
    now,        \* today()
    voucher,    \* the rows the rules read, in the order of creation
    alerts,     \* the auto-detected alerts, in the order they were inserted
    refresh,    \* the transactions: phase, what they read, what they wrote
    alone,      \* the refreshes under way during which nothing was committed
    fresh,      \* the alerts come from a refresh that nothing disturbed since
    overtaken   \* the alerts a person set aside after a refresh had read them
                \* open and before it wrote them (observation)

complianceVars == <<store, now, voucher, alerts, refresh, alone, fresh, overtaken>>

Kinds == <<"stale-blocked", "missing-supplier-vat">>

\* deterministicAlertId: the kind and the voucher.
AlertId(kind, v) == <<kind, v>>

\* What a voucher may lack: its supplier's VAT number, or something that
\* blocks it.
NewVouchers == [vat : BOOLEAN, blocking : BOOLEAN]

VoucherRow(status, fields, created) ==
    [status |-> status, vat |-> fields.vat, blocking |-> fields.blocking, created |-> created]

Refreshable(v) == voucher[v].status = "needs-review"

\* Rule 1, over the rows of two SELECTs: the reviews and the vouchers.
StaleBlocked(reviews, rows, today) ==
    {AlertId(Kinds[1], v) : v \in
        {w \in DOMAIN reviews \cap DOMAIN rows :
            /\ reviews[w].status = "needs-review" /\ reviews[w].blocking
            /\ today - rows[w].created > StaleDays}}

\* Rule 2.
MissingSupplierVat(rows) ==
    {AlertId(Kinds[2], v) : v \in
        {w \in DOMAIN rows : rows[w].status = "approved" /\ ~rows[w].vat}}

DetectComplianceIssues(reviews, rows, today) ==
    StaleBlocked(reviews, rows, today) \cup MissingSupplierVat(rows)

\* The conditions that hold now.
Conditions == DetectComplianceIssues(voucher, voucher, now)

IdsOf(set) == {alert.id : alert \in set}

OpenIds(set) == {alert.id : alert \in {a \in set : a.status = "open"}}

UserStates == {"acknowledged", "dismissed"}

\* planComplianceMerge: which open alerts are no longer detected.
ResolveIds(set, detected) == OpenIds(set) \ detected

NewAlert(id, since) == [id |-> id, status |-> "open", since |-> since]

WithStatus(alert, status) == [id |-> alert.id, status |-> status, since |-> alert.since]

----------------------------------------------------------------------------
(* The ledger's transactions, as far as the rules see them                 *)

\* A commit that every refresh under way may have missed.
LedgerCommit == fresh' = FALSE /\ alone' = {} /\ UNCHANGED <<refresh, overtaken>>

AddVoucher(new) ==
    /\ Len(voucher) < MaxVoucher
    /\ voucher' = Append(voucher, VoucherRow("needs-review", new, now))
    /\ LedgerCommit /\ UNCHANGED <<store, now, alerts>>

\* An extraction refresh of an open voucher.
RefreshVoucher(v, new) ==
    /\ Refreshable(v)
    /\ voucher' = [voucher EXCEPT ![v] = VoucherRow("needs-review", new, @.created)]
    /\ voucher' # voucher
    /\ LedgerCommit /\ UNCHANGED <<store, now, alerts>>

DecideVoucher(v, status) ==
    /\ Refreshable(v)
    /\ status = "approved" => ~voucher[v].blocking
    /\ voucher' = [voucher EXCEPT ![v] = VoucherRow(status, @, @.created)]
    /\ LedgerCommit /\ UNCHANGED <<store, now, alerts>>

DayPassesBy ==
    /\ now < LastAlertDay /\ now' = now + 1
    /\ LedgerCommit /\ UNCHANGED <<store, voucher, alerts>>

----------------------------------------------------------------------------
(* MemoryLedgerStore                                                       *)

MergedStatus(alert, detected) ==
    IF alert.status = "open" /\ alert.id \notin detected THEN "resolved"
    ELSE IF alert.status = "resolved" /\ alert.id \in detected THEN "open"
    ELSE alert.status

\* The order the rules find them in: rule by rule, voucher by voucher.
FoundBefore(a, b) == IF a[1] = b[1] THEN a[2] < b[2] ELSE a[1] = Kinds[1]

InFoundOrder(ids) ==
    {list \in [1..Cardinality(ids) -> ids] :
        \A i, j \in DOMAIN list : i < j => FoundBefore(list[i], list[j])}

Rebuilt(list, detected, new) ==
    [i \in DOMAIN list |-> WithStatus(list[i], MergedStatus(list[i], detected))]
        \o [i \in DOMAIN new |-> NewAlert(new[i], now)]

Trimmed(list) == IF Len(list) > AlertCap THEN SubSeq(list, Len(list) - AlertCap + 1, Len(list)) ELSE list

RefreshInMemory ==
    /\ store = "memory"
    /\ \E new \in InFoundOrder(Conditions \ IdsOf(ToSet(alerts))) :
          LET rebuilt == Rebuilt(alerts, Conditions, new)
          IN  alerts' = Trimmed(rebuilt) /\ fresh' = (Len(rebuilt) <= AlertCap)
    /\ UNCHANGED <<store, now, voucher, refresh, alone, overtaken>>

----------------------------------------------------------------------------
(* PostgresLedgerStore                                                     *)

\* A transaction in a phase, with what it has read, has yet to do and has
\* written.
Refresh(phase, reviews, day, detected, todo, wrote) ==
    [phase |-> phase, reviews |-> reviews, today |-> day, detected |-> detected,
     todo |-> todo, wrote |-> wrote]

IdleRefresh == Refresh("idle", <<>>, 0, {}, {}, {})

\* The transaction goes on to a phase with something to do.
GoesOn(r, phase, todo, wrote) ==
    refresh' = [refresh EXCEPT ![r] =
        Refresh(phase, @.reviews, @.today, @.detected, todo, wrote)]

\* The rows another transaction has written and not committed are locked.
Locked(r, id) == \E s \in Refreshers \ {r} : id \in IdsOf(refresh[s].wrote)

\* Rows that replace those of the same id.
Over(set, written) == {a \in set : a.id \notin IdsOf(written)} \cup written

\* The rows as transaction r sees them: its own writes, or the committed ones.
RowsSeenBy(r) == Over(ToSet(alerts), refresh[r].wrote)

SeenBy(r, id) == {a \in RowsSeenBy(r) : a.id = id}

\* INSERT ... ON CONFLICT DO UPDATE: user states and the first detection stay.
Upserted(r, id) ==
    IF SeenBy(r, id) = {} THEN {NewAlert(id, refresh[r].today)}
    ELSE {WithStatus(a, IF a.status \in UserStates THEN a.status ELSE "open") : a \in SeenBy(r, id)}

\* Mutant: the upsert reopens whatever a person has set.
Reopened(r, id) ==
    IF SeenBy(r, id) = {} THEN {NewAlert(id, refresh[r].today)}
    ELSE {WithStatus(a, "open") : a \in SeenBy(r, id)}

InsertOrUpdate(r, id) == Upserted(r, id)

Phase(r, phase) == refresh[r].phase = phase

BeginRefresh(r) ==
    /\ store = "postgres" /\ Phase(r, "idle")
    /\ refresh' = [refresh EXCEPT ![r] = Refresh("vouchers", voucher, 0, {}, {}, {})]
    /\ alone' = alone \cup {r}
    /\ UNCHANGED <<store, now, voucher, alerts, fresh, overtaken>>

ReadVouchers(r) ==
    /\ Phase(r, "vouchers")
    /\ LET detected == DetectComplianceIssues(refresh[r].reviews, voucher, now)
       IN  refresh' = [refresh EXCEPT ![r] =
                          Refresh("upserts", @.reviews, now, detected, detected, {})]
    /\ UNCHANGED <<store, now, voucher, alerts, alone, fresh, overtaken>>

\* The next upsert, which waits for a transaction that has written the row.
UpsertAlert(r) ==
    /\ Phase(r, "upserts")
    /\ \E id \in refresh[r].todo :
          /\ ~Locked(r, id)
          /\ GoesOn(r, "upserts", refresh[r].todo \ {id}, Over(refresh[r].wrote, InsertOrUpdate(r, id)))
    /\ UNCHANGED <<store, now, voucher, alerts, alone, fresh, overtaken>>

ReadOpenAlerts(r) ==
    /\ Phase(r, "upserts") /\ refresh[r].todo = {}
    /\ GoesOn(r, "resolves", ResolveIds(RowsSeenBy(r), refresh[r].detected), refresh[r].wrote)
    /\ UNCHANGED <<store, now, voucher, alerts, alone, fresh, overtaken>>

\* The UPDATE takes its rows one after the other.
ResolveAlert(r) ==
    /\ Phase(r, "resolves")
    /\ \E id \in refresh[r].todo :
          /\ ~Locked(r, id)
          /\ GoesOn(r, "resolves", refresh[r].todo \ {id},
                    Over(refresh[r].wrote, {WithStatus(a, "resolved") : a \in SeenBy(r, id)}))
    /\ UNCHANGED <<store, now, voucher, alerts, alone, fresh, overtaken>>

\* A row of the table after a transaction that wrote these has committed.
Committed(alert, wrote) ==
    IF alert.id \in IdsOf(wrote) THEN CHOOSE row \in wrote : row.id = alert.id ELSE alert

CommitRefresh(r) ==
    /\ Phase(r, "resolves") /\ refresh[r].todo = {}
    /\ LET wrote == refresh[r].wrote
       IN  alerts' = [i \in DOMAIN alerts |-> Committed(alerts[i], wrote)]
                         \o SetToSeq({row \in wrote : row.id \notin IdsOf(ToSet(alerts))})
    /\ refresh' = [refresh EXCEPT ![r] = IdleRefresh]
    /\ fresh' = (r \in alone) /\ alone' = {}
    /\ overtaken' = [overtaken EXCEPT ![r] = {}]
    /\ UNCHANGED <<store, now, voucher>>

\* A statement fails, or Postgres breaks a deadlock of two refreshes.
AbortRefresh(r) ==
    /\ ~Phase(r, "idle")
    /\ refresh' = [refresh EXCEPT ![r] = IdleRefresh]
    /\ alone' = alone \ {r}
    /\ overtaken' = [overtaken EXCEPT ![r] = {}]
    /\ UNCHANGED <<store, now, voucher, alerts, fresh>>

\* The refreshes that have read an alert as open and will resolve it.
WillResolve(id) == {r \in Refreshers : Phase(r, "resolves") /\ id \in refresh[r].todo}

\* A person sets an open alert aside, which no route does yet: a row of SQL.
SetByHand(i, status) ==
    /\ store = "postgres" /\ alerts[i].status = "open"
    /\ \A r \in Refreshers : alerts[i].id \notin IdsOf(refresh[r].wrote)
    /\ alerts' = [alerts EXCEPT ![i] = WithStatus(@, status)]
    /\ alone' = {}
    /\ overtaken' = [r \in Refreshers |->
                       overtaken[r] \cup (IF r \in WillResolve(alerts[i].id) THEN {alerts[i].id} ELSE {})]
    /\ UNCHANGED <<store, now, voucher, refresh, fresh>>

----------------------------------------------------------------------------

ComplianceInit ==
    /\ store \in Stores /\ now = 0 /\ voucher = <<>> /\ alerts = <<>>
    /\ refresh = [r \in Refreshers |-> IdleRefresh] /\ alone = {} /\ fresh = TRUE
    /\ overtaken = [r \in Refreshers |-> {}]

LedgerChanges ==
    \/ \E new \in NewVouchers : AddVoucher(new)
    \/ \E v \in DOMAIN voucher, new \in NewVouchers : RefreshVoucher(v, new)
    \/ \E v \in DOMAIN voucher, status \in {"approved", "rejected"} : DecideVoucher(v, status)
    \/ DayPassesBy

RefreshStep(r) ==
    \/ BeginRefresh(r) \/ ReadVouchers(r) \/ UpsertAlert(r) \/ ReadOpenAlerts(r)
    \/ ResolveAlert(r) \/ CommitRefresh(r) \/ AbortRefresh(r)

ComplianceNext ==
    \/ LedgerChanges
    \/ RefreshInMemory
    \/ \E r \in Refreshers : RefreshStep(r)
    \/ \E i \in DOMAIN alerts, status \in UserStates : SetByHand(i, status)

ComplianceSpec == ComplianceInit /\ [][ComplianceNext]_complianceVars

----------------------------------------------------------------------------

\* After a refresh during which nothing was committed, and as long as nothing
\* is, the open alerts are exactly the conditions that hold and nobody has
\* set aside, in both stores and whatever earlier refreshes raced or failed.
AlertsAreExact ==
    fresh => OpenIds(ToSet(alerts)) =
                Conditions \ IdsOf({alert \in ToSet(alerts) : alert.status \in UserStates})

\* A condition has one alert, which keeps the day of its first detection
\* however often refreshes resolve, reopen or race to insert it.
FirstDetectionStays ==
    [][/\ \A i, j \in DOMAIN alerts' : alerts'[i].id = alerts'[j].id => i = j
       /\ \A i \in DOMAIN alerts, j \in DOMAIN alerts' :
             alerts'[j].id = alerts[i].id => alerts'[j].since = alerts[i].since]_complianceVars

\* An alert that a person has set aside is not touched again by any refresh, save
\* one: a refresh that had read it open before, and had not yet written its row,
\* resolves it with its commit, since the UPDATE goes by the id alone.
UserStatesStay ==
    [][\A i \in DOMAIN alerts :
          alerts[i].status \in UserStates =>
              \/ alerts[i] \in ToSet(alerts')
              \/ \E r \in Refreshers :
                    /\ alerts[i].id \in overtaken[r] /\ CommitRefresh(r)
                    /\ WithStatus(alerts[i], "resolved") \in ToSet(alerts')]_complianceVars

\* A refresh that nothing disturbed leaves the alerts of the conditions there are; no
\* refresh moves a first detection, and only an overtaken one undoes what a person set.
AlertsAreKept ==
  /\ []AlertsAreExact
  /\ FirstDetectionStays
  /\ UserStatesStay
=============================================================================
