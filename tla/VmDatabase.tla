----------------------------- MODULE VmDatabase -----------------------------
(***************************************************************************)
(* programs/stdlib/database.rs of the reference machine: one thread owns    *)
(* the SQLite connection and polls one bounded(1) request queue per client. *)
(* A pass drains every client in index order, commits what it found in one  *)
(* transaction, and only then acknowledges, once per client.                *)
(*                                                                         *)
(* A batch is one number, the client's n-th; what a client's rows look like *)
(* to that client is all that is kept of the table, so queues and table are *)
(* sequences of numbers per client.                                         *)
(***************************************************************************)
EXTENDS Naturals, Sequences, FiniteSets

CONSTANTS
    DbClients,    \* number of handles
    DbMayPanic,   \* whether a BEGIN, an insert or a COMMIT may fail
    MaxDbEmits    \* bound: how often the rate gate is let open

ASSUME DbAssumption ==
    DbClients \in Nat \ {0} /\ DbMayPanic \in BOOLEAN /\ MaxDbEmits \in Nat

DbIds == 1..DbClients

VARIABLES
    dbCall,       \* per handle: "idle", "waiting" inside batch_send, "dropped"
    dbSent,       \* batches handed to batch_send
    dbConfirmed,  \* batches whose acknowledgement came back
    dbReq,        \* request queues
    dbAck,        \* acknowledgements in the ack queues
    db,           \* the driver: control state, who is to be acknowledged,
                  \* closed clients, rows counted since the last emission
    dbTable,      \* committed rows
    dbEmitted     \* rows the emit closure has been told of in all, and how often

dbVars == <<dbCall, dbSent, dbConfirmed, dbReq, dbAck, db, dbTable, dbEmitted>>

DbNone == [c \in DbIds |-> <<>>]

DbInit ==
    /\ dbCall = [c \in DbIds |-> "idle"]
    /\ dbSent = [c \in DbIds |-> 0]
    /\ dbConfirmed = [c \in DbIds |-> 0]
    /\ dbReq = DbNone
    /\ dbAck = [c \in DbIds |-> 0]
    /\ db = [at |-> "select", flags |-> {}, closed |-> {}, rows |-> 0]
    /\ dbTable = DbNone
    /\ dbEmitted = [rows |-> 0, times |-> 0]

DbGone == db.at \in {"exit", "dead"}

-----------------------------------------------------------------------------
(* The handle *)

\* batch_send up to its recv.  With the driver gone both of its halves fail
\* and the call returns at once; nothing tells the caller.
DbSend(c) ==
    /\ dbCall[c] = "idle"
    /\ dbSent' = [dbSent EXCEPT ![c] = @ + 1]
    /\ IF DbGone
       THEN UNCHANGED <<dbCall, dbReq>>
       ELSE /\ dbReq' = [dbReq EXCEPT ![c] = Append(@, dbSent[c] + 1)]
            /\ dbCall' = [dbCall EXCEPT ![c] = "waiting"]
    /\ UNCHANGED <<dbConfirmed, dbAck, db, dbTable, dbEmitted>>

DbReturn(c) ==
    /\ dbCall[c] = "waiting"
    /\ \/ /\ dbAck[c] > 0
          /\ dbAck' = [dbAck EXCEPT ![c] = @ - 1]
          /\ dbConfirmed' = [dbConfirmed EXCEPT ![c] = @ + 1]
       \/ /\ dbAck[c] = 0 /\ DbGone
          /\ UNCHANGED <<dbAck, dbConfirmed>>
    /\ dbCall' = [dbCall EXCEPT ![c] = "idle"]
    /\ UNCHANGED <<dbSent, dbReq, db, dbTable, dbEmitted>>

DbDrop(c) ==
    /\ dbCall[c] = "idle"
    /\ dbCall' = [dbCall EXCEPT ![c] = "dropped"]
    /\ UNCHANGED <<dbSent, dbConfirmed, dbReq, dbAck, db, dbTable, dbEmitted>>

-----------------------------------------------------------------------------
(* The driver *)

DbAsking == {c \in DbIds : dbReq[c] # <<>>}
DbLeaving == {c \in DbIds \ db.closed : dbReq[c] = <<>> /\ dbCall[c] = "dropped"}

\* What pending holds after the drain, per client.
Committed == [c \in DbIds |-> dbTable[c] \o dbReq[c]]

DbEmission(rows) ==
    [rows |-> dbEmitted.rows + rows, times |-> dbEmitted.times + 1]

\* One pass up to the acknowledgements: ready(), try_recv on each client in
\* turn, flush of all that was found in one transaction, the counters and the
\* gate, which opens by the clock.  A client has at most one batch in flight;
\* whoever sends or drops behind the scan's back is found by the next pass,
\* as if it had acted after this one.  Closed queues stay registered, so
\* ready() returns at once when a client has gone: a pass that finds nothing
\* does nothing and is no step here.
DbPass ==
    /\ db.at = "select"
    /\ DbAsking \cup DbLeaving # {}
    /\ dbTable' = Committed
    /\ LET rows == db.rows + Cardinality(DbAsking)
           next == [db EXCEPT !.at = "ack", !.flags = DbAsking,
                              !.closed = @ \cup DbLeaving]
       IN \/ db' = [next EXCEPT !.rows = rows] /\ UNCHANGED dbEmitted
          \/ /\ DbAsking # {} /\ dbEmitted.times < MaxDbEmits
             /\ db' = [next EXCEPT !.rows = 0]
             /\ dbEmitted' = DbEmission(rows)
    /\ dbReq' = DbNone
    /\ UNCHANGED <<dbCall, dbSent, dbConfirmed, dbAck>>

\* expect fails inside the transaction: it is rolled back, the thread ends,
\* and with it both ends of every queue it held.
DbPanic ==
    /\ DbMayPanic
    /\ db.at = "select"
    /\ DbAsking # {}
    /\ db' = [db EXCEPT !.at = "dead"]
    /\ dbReq' = DbNone
    /\ UNCHANGED <<dbCall, dbSent, dbConfirmed, dbAck, dbTable, dbEmitted>>

\* Variant: every client that is connected is acknowledged.
DbAcknowledgeAll ==
    /\ db.at = "ack"
    /\ dbAck' = [c \in DbIds |-> IF c \in db.closed THEN dbAck[c]
                                                      ELSE dbAck[c] + 1]
    /\ db' = [db EXCEPT !.at = "select", !.flags = {}]
    /\ UNCHANGED <<dbCall, dbSent, dbConfirmed, dbReq, dbTable, dbEmitted>>

DbAcknowledge ==
    /\ db.at = "ack"
    /\ dbAck' = [c \in DbIds |-> IF c \in db.flags THEN dbAck[c] + 1
                                                   ELSE dbAck[c]]
    /\ db' = [db EXCEPT !.at = "select", !.flags = {}]
    /\ UNCHANGED <<dbCall, dbSent, dbConfirmed, dbReq, dbTable, dbEmitted>>

\* Variant: the remainder is dropped.
DbExitSilent ==
    /\ db.at = "select"
    /\ db.closed = DbIds
    /\ db' = [db EXCEPT !.at = "exit", !.rows = 0]
    /\ UNCHANGED <<dbCall, dbSent, dbConfirmed, dbReq, dbAck, dbTable, dbEmitted>>

\* Every client gone: emit the remainder, if there is one, whatever the gate
\* says and leave the loop.  The flush the code makes first never has anything to do, since
\* every pass ends with pending empty.
DbExit ==
    /\ db.at = "select"
    /\ db.closed = DbIds
    /\ dbEmitted' = IF db.rows > 0 THEN DbEmission(db.rows) ELSE dbEmitted
    /\ db' = [db EXCEPT !.at = "exit", !.rows = 0]
    /\ UNCHANGED <<dbCall, dbSent, dbConfirmed, dbReq, dbAck, dbTable>>

DbDriver == DbPass \/ DbPanic \/ DbAcknowledge \/ DbExit

DbNext ==
    \/ \E c \in DbIds : DbSend(c) \/ DbReturn(c) \/ DbDrop(c)
    \/ DbDriver

DbSpec == DbInit /\ [][DbNext]_dbVars

-----------------------------------------------------------------------------
(* What the database promises *)

\* In the table each client's batches are the first ones it sent, each once
\* and in order; and when batch_send has come back with an acknowledgement
\* the batch is committed, not merely received.  While the driver lives no
\* batch_send comes back without one, and when it has left its loop every
\* batch ever sent is in the table.
ConfirmedIsCommitted ==
    \A c \in DbIds :
        /\ dbTable[c] = [i \in 1..Len(dbTable[c]) |-> i]
        /\ dbConfirmed[c] <= Len(dbTable[c])
        /\ Len(dbTable[c]) <= dbSent[c]
        /\ db.at # "dead" =>
             dbSent[c] = dbConfirmed[c] + (IF dbCall[c] = "waiting" THEN 1 ELSE 0)
        /\ db.at = "exit" => Len(dbTable[c]) = dbSent[c]

=============================================================================
