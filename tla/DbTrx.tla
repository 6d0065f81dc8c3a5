------------------------------- MODULE DbTrx -------------------------------
(***************************************************************************)
(* The per-request transaction middleware of api/http/middlewares/db_trx  *)
(* .go (DatabaseTrx.Setup): it begins a transaction, stores the handle in  *)
(* the gin context under constants.DBTransaction, runs the rest of the     *)
(* chain, then commits if the response status is 200, 201 or 204 and rolls *)
(* back otherwise.  No repository reads the handle from the context: they  *)
(* all write through the common.Database connection, so every statement   *)
(* autocommits and the transaction never holds a write.  What remains of   *)
(* the middleware is the lifecycle of the handle, one per request          *)
(* goroutine, modelled here; the request's handler is the caller's.        *)
(***************************************************************************)
EXTENDS Naturals

CONSTANTS
    Workers     \* request goroutines

VARIABLES
    tx          \* tx[w]: "none", or "open" while w's handler runs

trxVars == <<tx>>

TxState == {"none", "open"}

\* statusInList(c.Writer.Status(), [200, 201, 204])
CommitStatuses == {200, 201, 204}

\* db.Begin() succeeds: the handle is set in the context.  (When it fails,
\* or the database is missing, the request is aborted with 500 and no
\* state changes.)
TrxBegin(w) ==
    /\ tx[w] = "none"
    /\ tx' = [tx EXCEPT ![w] = "open"]

\* After c.Next(): Commit on a success status, Rollback otherwise.  Either
\* call ends the transaction, whether or not it reports an error (which is
\* only logged).
TrxEnd(w, status) ==
    /\ tx[w] = "open"
    /\ status \in Nat
    /\ tx' = [tx EXCEPT ![w] = "none"]

TrxInit == tx = [w \in Workers |-> "none"]

=============================================================================
