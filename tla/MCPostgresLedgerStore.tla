----------------------- MODULE MCPostgresLedgerStore -----------------------
(* Finite instances of the Postgres ledger store. *)
EXTENDS PostgresLedgerStore, TLC

\* Requests are interchangeable.
MCSymmetry == Permutations(Requests)
=============================================================================
