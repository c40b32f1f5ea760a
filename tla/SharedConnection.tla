--------------------------- MODULE SharedConnection ---------------------------
(***************************************************************************)
(* The database sessions of storage/database.py.  With an SQLite url, the  *)
(* default one included, the engine keeps a StaticPool: one connection,    *)
(* handed to every session at once.  A session is a few awaits on that     *)
(* connection: its statements, its commit (get_session commits sessions    *)
(* that only read, too), and the rollback with which a connection goes     *)
(* back to the pool.  Between them the statements of other sessions run,   *)
(* in the same transaction.                                                *)
(*                                                                         *)
(* A session of the add-on writes at most one row.                         *)
(***************************************************************************)
EXTENDS Naturals, FiniteSets

CONSTANTS
    Handlers,   \* requests and loops; each has one session at a time
    Rows,       \* rows of all tables
    Values,     \* what a row may hold, its absence included
    Absent,     \* there is no such row
    NoWrite     \* the session has written nothing

ASSUME ConnectionAssumption ==
    /\ Absent \in Values
    /\ NoWrite \notin [row: Rows, value: Values]

VARIABLES
    committed,  \* the database file
    view,       \* the database as the connection sees it
    phase,      \* the session of each handler
    wrote,      \* what that session has written and not yet committed
    alone,      \* history: no other session ran while this one did
    promised,   \* history: the value last committed by a session that wrote the row
    doubtful    \* history: rows whose last writer was not alone

store == <<committed, view, promised, doubtful>>
conn == <<store, phase, wrote, alone>>

Phases == {"closed", "open", "returning"}
Write == [row: Rows, value: Values]
InFlight == {h \in Handlers : phase[h] # "closed"}

ConnInit ==
    /\ committed = [r \in Rows |-> Absent]
    /\ view = committed
    /\ promised = committed
    /\ doubtful = {}
    /\ phase = [h \in Handlers |-> "closed"]
    /\ wrote = [h \in Handlers |-> NoWrite]
    /\ alone = [h \in Handlers |-> FALSE]

\* What the sessions in flight have written, h's write among it.
Unsettled(writes) ==
    {r \in Rows : \E h \in Handlers : writes[h] # NoWrite /\ writes[h].row = r}

\* A statement of h. The first one takes the connection from the pool.
Running(h, writes) ==
    /\ phase[h] \in {"closed", "open"}
    /\ phase' = [phase EXCEPT ![h] = "open"]
    /\ wrote' = writes
    /\ IF InFlight \subseteq {h}
       THEN /\ alone' = [alone EXCEPT ![h] = (phase[h] = "closed") \/ @]
            /\ UNCHANGED doubtful
       ELSE /\ alone' = [k \in Handlers |-> FALSE]
            /\ doubtful' = doubtful \cup Unsettled(writes)

Select(h) ==
    /\ Running(h, wrote)
    /\ UNCHANGED <<committed, view, promised>>

Put(h, r, v) ==
    /\ wrote[h] = NoWrite
    /\ Running(h, [wrote EXCEPT ![h] = [row |-> r, value |-> v]])
    /\ view' = [view EXCEPT ![r] = v]
    /\ UNCHANGED <<committed, promised>>

Settle(h) ==
    /\ phase' = [phase EXCEPT ![h] = "returning"]
    /\ wrote' = [wrote EXCEPT ![h] = NoWrite]

\* The commit makes durable whatever the connection has pending, by whichever
\* session. The faulty variant only closes the session.
AfterCommitForgotten == committed
AfterCommit == view

Commit(h) ==
    /\ phase[h] = "open"
    /\ Settle(h)
    /\ committed' = AfterCommit
    /\ IF wrote[h] = NoWrite THEN UNCHANGED <<promised, doubtful>>
       ELSE /\ promised' = [promised EXCEPT ![wrote[h].row] = wrote[h].value]
            /\ doubtful' = IF alone[h] THEN doubtful \ {wrote[h].row}
                           ELSE doubtful \cup {wrote[h].row}
    /\ UNCHANGED <<view, alone>>

\* An exception, of a statement or of the code between two.
Rollback(h) ==
    /\ phase[h] = "open"
    /\ Settle(h)
    /\ view' = committed
    /\ UNCHANGED <<committed, alone, promised, doubtful>>

\* The pool resets the connection with a rollback, after a commit too.
Return(h) ==
    /\ phase[h] = "returning"
    /\ phase' = [phase EXCEPT ![h] = "closed"]
    /\ alone' = [alone EXCEPT ![h] = FALSE]
    /\ view' = committed
    /\ UNCHANGED <<committed, wrote, promised, doubtful>>

\* The process ends: SQLite drops what was not committed.
Disconnect ==
    /\ view' = committed
    /\ phase' = [h \in Handlers |-> "closed"]
    /\ wrote' = [h \in Handlers |-> NoWrite]
    /\ alone' = [h \in Handlers |-> FALSE]
    /\ UNCHANGED <<committed, promised, doubtful>>

ConnNext ==
    \/ \E h \in Handlers : Select(h) \/ Commit(h) \/ Rollback(h) \/ Return(h)
    \/ \E h \in Handlers, r \in Rows, v \in Values : Put(h, r, v)
    \/ Disconnect

ConnSpec == ConnInit /\ [][ConnNext]_conn
===============================================================================
