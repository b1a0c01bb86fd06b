-------------------------- MODULE WorkspaceSnapshot --------------------------
(***************************************************************************)
(* getSnapshot of the Postgres store: it reads evidence, vouchers and      *)
(* packets in three statements, each of its own snapshot, and then, in any *)
(* order, the reviews and the posted lines, while captures, relinks and    *)
(* decisions commit in between.  The client joins what it got: a line of a *)
(* report links to the first evidence of its voucher's packet.             *)
(*                                                                         *)
(* The writers are the transactions of PostgresLedgerStore, reduced to the *)
(* rows a snapshot shows; each commits in one step.                        *)
(***************************************************************************)
EXTENDS Naturals, FiniteSets, Sequences

CONSTANTS Captures,    \* how many evidence objects are ever captured
          Relinks      \* how many relinks are ever made
ASSUME SnapshotConstants == Captures \in Nat /\ Relinks \in Nat

VARIABLES tables,      \* the committed rows
          reading,     \* the statements of the snapshot still to run
          got          \* the rows it read

snapshotVars == <<tables, reading, got>>

\* Evidence n is captured together with voucher n; packetOf says what a voucher links to.
NoRows == [evidence |-> 0, packetOf |-> <<>>, packets |-> <<>>, decided |-> {}]
NothingRead == [evidence |-> 0, packetOf |-> <<>>, packets |-> <<>>, decided |-> {}, posted |-> {}]
Statements == {"evidence", "vouchers", "packets", "reviews", "lines"}

-----------------------------------------------------------------------------
(* The writers.                                                            *)

Capture ==
    /\ tables.evidence < Captures
    /\ tables' = [tables EXCEPT !.evidence = @ + 1,
                                !.packets = Append(@, {tables.evidence + 1}),
                                !.packetOf = Append(@, Len(tables.packets) + 1)]
    /\ UNCHANGED <<reading, got>>

\* A new packet of some evidence; the voucher of its first evidence moves to it.
RelinkVoucher(ids) ==
    LET voucher == {v \in DOMAIN tables.packetOf : tables.packets[tables.packetOf[v]] \cap ids # {}}
    IN  /\ Len(tables.packets) < tables.evidence + Relinks
        /\ \E v \in voucher :
               tables' = [tables EXCEPT !.packets = Append(@, ids),
                                        !.packetOf[v] = Len(tables.packets) + 1]
        /\ UNCHANGED <<reading, got>>

ApproveVoucher(v) ==
    /\ v \notin tables.decided
    /\ tables' = [tables EXCEPT !.decided = @ \cup {v}]
    /\ UNCHANGED <<reading, got>>

-----------------------------------------------------------------------------
(* The reader.                                                             *)

StartSnapshot ==
    /\ reading = {}
    /\ reading' = Statements /\ got' = NothingRead
    /\ UNCHANGED tables

\* getSnapshot with the packets read before the vouchers.
BeforePacketsFirst(a, b) ==
    \/ a = "evidence" /\ b # "evidence"
    \/ a = "packets" /\ b \in {"vouchers", "reviews", "lines"}
    \/ a = "vouchers" /\ b \in {"reviews", "lines"}

\* The first three statements are awaited one by one, the rest run in any order.
Before(a, b) ==
    \/ a = "evidence" /\ b # "evidence"
    \/ a = "vouchers" /\ b \in {"packets", "reviews", "lines"}
    \/ a = "packets" /\ b \in {"reviews", "lines"}

Read(statement) ==
    CASE statement = "evidence" -> [got EXCEPT !.evidence = tables.evidence]
      [] statement = "vouchers" -> [got EXCEPT !.packetOf = tables.packetOf]
      [] statement = "packets"  -> [got EXCEPT !.packets = tables.packets]
      [] statement = "reviews"  -> [got EXCEPT !.decided = tables.decided]
      [] statement = "lines"    -> [got EXCEPT !.posted = tables.decided]

ReadStatement(statement) ==
    /\ statement \in reading
    /\ \A other \in reading : ~Before(other, statement)
    /\ reading' = reading \ {statement}
    /\ got' = Read(statement)
    /\ UNCHANGED tables

-----------------------------------------------------------------------------
SnapshotInit == tables = NoRows /\ reading = {} /\ got = NothingRead

SnapshotNext ==
    \/ Capture
    \/ \E ids \in (SUBSET (1..tables.evidence)) \ {{}} : RelinkVoucher(ids)
    \/ \E v \in DOMAIN tables.packetOf : ApproveVoucher(v)
    \/ StartSnapshot
    \/ \E s \in Statements : ReadStatement(s)

SnapshotSpec == SnapshotInit /\ [][SnapshotNext]_snapshotVars

-----------------------------------------------------------------------------
(* The evidence a posted line links to, {} when it is shown as text.       *)
LinkOf(v) ==
    IF v \in DOMAIN got.packetOf /\ got.packetOf[v] \in DOMAIN got.packets
    THEN got.packets[got.packetOf[v]] ELSE {}

(* Every voucher of a snapshot finds its packet in the same snapshot, and  *)
(* the packet's evidence exists: captures and relinks that commit between  *)
(* the statements never turn a voucher's link into text.                   *)
VouchersKeepTheirLink ==
    reading = {} => \A v \in DOMAIN got.packetOf : LinkOf(v) # {} /\ LinkOf(v) \subseteq 1..tables.evidence
=============================================================================
