----------------------------- MODULE Transactions -----------------------------
(***************************************************************************)
(* What the code relies on of its database, for the modules that extend    *)
(* this one: a task has one session (get_session for a request, the        *)
(* session of a poll), reads committed rows and its own writes, writes     *)
(* under row locks and ends with one commit or rollback.  PostgreSQL,      *)
(* READ COMMITTED.  A row id stands for whatever makes the row unique, its *)
(* primary key or the columns of a unique constraint: a second insert      *)
(* under the same id waits for the first transaction like an update does.  *)
(***************************************************************************)
EXTENDS Naturals, FiniteSets

CONSTANTS
    Tasks,   \* requests and polls, each with its own session
    RowIds,  \* rows that may exist
    None     \* Python's None

ASSUME NoTaskIsNone == None \notin Tasks

VARIABLES
    rows,  \* rows[k]: the last committed version of row k
    work,  \* work[k]: row k as the transaction that has written it sees it
    lock   \* lock[k]: that transaction, or None

tables == <<rows, work, lock>>

\* What a SELECT of task a returns.
Visible(a, k) == IF lock[k] = a THEN work[k] ELSE rows[k]

\* An UPDATE or INSERT of task a need not wait for another transaction.
MayWrite(a, k) == lock[k] \in {None, a}

\* The flush of one row.
WriteRow(a, k, r) ==
    /\ work' = [work EXCEPT ![k] = r]
    /\ lock' = [lock EXCEPT ![k] = a]
    /\ UNCHANGED rows

\* Task b waits for row waits[b] if another transaction holds it.
Blocked(waits, b) == waits[b] \in RowIds /\ ~MayWrite(b, waits[b])

Waiters(waits, k) == {b \in Tasks : waits[b] = k /\ lock[k] # b}

\* The end of a transaction hands each of its row locks to a waiter.
ReleaseLocks(waits, a) ==
    LET wanted == {k \in RowIds : lock[k] = a /\ Waiters(waits, k) # {}}
    IN  \E heir \in [wanted -> Tasks] :
          /\ \A k \in wanted : heir[k] \in Waiters(waits, k)
          /\ lock' = [k \in RowIds |-> IF lock[k] # a THEN lock[k]
                                      ELSE IF k \in wanted THEN heir[k] ELSE None]

\* session.commit()
CommitRows(waits, a) ==
    /\ rows' = [k \in RowIds |-> Visible(a, k)]
    /\ UNCHANGED work
    /\ ReleaseLocks(waits, a)

\* session.rollback()
RollbackRows(waits, a) ==
    /\ work' = [k \in RowIds |-> IF lock[k] = a THEN rows[k] ELSE work[k]]
    /\ UNCHANGED rows
    /\ ReleaseLocks(waits, a)

\* Task a is one of several that wait for each other; PostgreSQL aborts one.
Deadlocked(waits, a) ==
    \E S \in SUBSET Tasks :
        /\ a \in S
        /\ \A b \in S : Blocked(waits, b) /\ lock[waits[b]] \in S
        /\ \A b \in S : \E c \in S : lock[waits[c]] = b
=============================================================================
