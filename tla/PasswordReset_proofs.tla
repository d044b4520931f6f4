------------------------- MODULE PasswordReset_proofs -------------------------
(***************************************************************************)
(* Proofs about PasswordReset, for every number of users, requests, polls, *)
(* tokens, ticks and faults: the type invariant, that a token counts as    *)
(* notified only if its mail went out, and that it is used at most once.   *)
(***************************************************************************)
EXTENDS PasswordReset, TLAPS

\* Whoever is about to update a token has it in hand.
Busy == \A a \in Tasks : pc[a] \in {"mark", "use", "password"} => cur[a] \in Tokens

Typed == TypeOK /\ Busy

\* Mailed first, marked later: in the committed version of a row, in the one its
\* writer sees, and for the poll in between.
MailedFirst ==
    /\ NotifiedWasMailed
    /\ \A t \in Tokens : work[t].status \in {"notified", "used"} => mails[t] > 0
    /\ \A a \in Tasks : pc[a] = "mark" => mails[cur[a]] > 0

\* Tokens that are still to be generated have no row.
Unborn ==
    \A t \in Tokens : t > minted =>
        lock[t] = None /\ rows[t].status = "absent" /\ work[t].status = "absent"

\* A used token stays used, for its next writer too.
UsedIsFinal == \A t \in Tokens : rows[t].status = "used" => work[t].status = "used"

\* A use that is not committed belongs to the request that saves the password next.
UseIsInHand ==
    \A t \in Tokens : work[t].status = "used" /\ rows[t].status # "used" =>
        \E a \in Tasks : lock[t] = a /\ pc[a] = "password" /\ cur[a] = t

\* That request made it, and nobody else can commit it.
HandIsUse ==
    \A a \in Tasks : pc[a] = "password" =>
        /\ lock[cur[a]] = a
        /\ work[cur[a]].status = "used" /\ rows[cur[a]].status # "used"

UsedOnce == SingleUse /\ Unborn /\ UsedIsFinal /\ UseIsInHand /\ HandIsUse
-------------------------------------------------------------------------------
(* The operators on rows and tables.                                         *)

\* A status can be changed, and a mailed token marked, and it is still a row.
LEMMA RowsMade ==
    ASSUME NEW r \in Row
    PROVE  /\ \A s \in Status : /\ [r EXCEPT !.status = s] \in Row
                                /\ [r EXCEPT !.status = s].status = s
           /\ Notified(r) \in Row
           /\ Notified(r).status = "notified"
<1>1. r = [user |-> r.user, status |-> r.status, plain |-> r.plain, exp |-> r.exp]
  BY DEF Row
<1> QED
  BY <1>1 DEF Row, Notified, Status

\* The absent row is a row.
LEMMA RowsAbsent == AbsentRow \in Row /\ AbsentRow.status = "absent"
  BY DEF AbsentRow, Row, Status

\* The row that a request inserts.
LEMMA RowsNew ==
    ASSUME TypeOK, NEW a \in Tasks
    PROVE  [user |-> user[a], status |-> "pending", plain |-> TRUE,
            exp |-> now + TokenTTL] \in Row
  BY BoundsAssumption DEF TypeOK, Row, Status

\* What a flush does to the tables.
LEMMA Written ==
    ASSUME TypeOK, NEW a \in Tasks, NEW t \in Tokens, NEW r \in Row, WriteRow(a, t, r)
    PROVE  /\ rows' = rows
           /\ work' \in [Tokens -> Row] /\ work'[t] = r
           /\ lock' \in [Tokens -> Tasks \cup {None}] /\ lock'[t] = a
           /\ \A k \in Tokens \ {t} : work'[k] = work[k] /\ lock'[k] = lock[k]
  BY DEF TypeOK, WriteRow

\* Task b waits for token k.
AwaitsRow(b, k) == b \in Tasks /\ pc[b] \in {"revoke", "mark", "use"} /\ cur[b] = k

\* Where the row locks of a transaction go: to nobody, or to a task that waits.
\* The others stay.
LEMMA Released ==
    ASSUME TypeOK, NEW a \in Tasks, ReleaseLocks(Waits, a)
    PROVE  /\ lock' \in [Tokens -> Tasks \cup {None}]
           /\ \A k \in Tokens : lock[k] # a => lock'[k] = lock[k]
           /\ \A k \in Tokens : lock[k] = a =>
                 lock'[k] = None \/ (lock'[k] # a /\ AwaitsRow(lock'[k], k))
<1> DEFINE wanted == {k \in RowIds : lock[k] = a /\ Waiters(Waits, k) # {}}
<1>1. PICK heir \in [wanted -> Tasks] :
         /\ \A k \in wanted : heir[k] \in Waiters(Waits, k)
         /\ lock' = [k \in RowIds |-> IF lock[k] # a THEN lock[k]
                                       ELSE IF k \in wanted THEN heir[k] ELSE None]
  BY DEF ReleaseLocks
<1>2. ASSUME NEW k \in Tokens, lock[k] = a, k \in wanted
      PROVE  lock'[k] # a /\ AwaitsRow(lock'[k], k)
  <2>1. lock'[k] \in Waiters(Waits, k)
    BY <1>1, <1>2, TokensAssumption
  <2> QED
    BY <1>2, <2>1, NoneAssumption DEF Waiters, Waits, AwaitsRow, Tokens
<1> HIDE DEF wanted
<1> QED
  BY <1>1, <1>2, TokensAssumption DEF TypeOK, wanted

\* What the end of a transaction leaves: its rows are committed, its locks go to
\* tasks that wait for them ...
LEMMA Committed ==
    ASSUME TypeOK, NEW a \in Tasks, CommitRows(Waits, a)
    PROVE  /\ rows' \in [Tokens -> Row] /\ work' = work
           /\ \A k \in Tokens : rows'[k] = IF lock[k] = a THEN work[k] ELSE rows[k]
           /\ lock' \in [Tokens -> Tasks \cup {None}]
           /\ \A k \in Tokens : lock[k] # a => lock'[k] = lock[k]
           /\ \A k \in Tokens : lock[k] = a =>
                 lock'[k] = None \/ (lock'[k] # a /\ AwaitsRow(lock'[k], k))
<1>1. ReleaseLocks(Waits, a) /\ work' = work
  BY DEF CommitRows
<1>2. rows' = [k \in Tokens |-> IF lock[k] = a THEN work[k] ELSE rows[k]]
  BY TokensAssumption DEF CommitRows, Visible
<1>3. rows' \in [Tokens -> Row]
  BY <1>2 DEF TypeOK
<1> QED
  BY <1>1, <1>2, <1>3, Released

\* ... or its rows are as they were before.
LEMMA RolledBack ==
    ASSUME TypeOK, NEW a \in Tasks, RollbackRows(Waits, a)
    PROVE  /\ rows' = rows /\ work' \in [Tokens -> Row]
           /\ \A k \in Tokens : work'[k] = IF lock[k] = a THEN rows[k] ELSE work[k]
           /\ lock' \in [Tokens -> Tasks \cup {None}]
           /\ \A k \in Tokens : lock[k] # a => lock'[k] = lock[k]
           /\ \A k \in Tokens : lock[k] = a =>
                 lock'[k] = None \/ (lock'[k] # a /\ AwaitsRow(lock'[k], k))
<1>1. ReleaseLocks(Waits, a) /\ rows' = rows
  BY DEF RollbackRows
<1>2. work' = [k \in Tokens |-> IF lock[k] = a THEN rows[k] ELSE work[k]]
  BY TokensAssumption DEF RollbackRows
<1>3. work' \in [Tokens -> Row]
  BY <1>2 DEF TypeOK
<1> QED
  BY <1>1, <1>2, <1>3, Released

\* The task that ends works on nothing any more; the others go on.
LEMMA Ended ==
    ASSUME Typed, NEW a \in Tasks, EndTask(a)
    PROVE  /\ pc' \in [Tasks -> Phase] /\ user' \in [Tasks -> Users \cup {None}]
           /\ todo' \in [Tasks -> SUBSET Tokens] /\ cur' \in [Tasks -> Tokens \cup {None}]
           /\ Busy'
           /\ pc'[a] = "idle" /\ cur'[a] = None /\ todo'[a] = {}
           /\ \A b \in Tasks \ {a} : /\ pc'[b] = pc[b] /\ cur'[b] = cur[b]
                                     /\ user'[b] = user[b] /\ todo'[b] = todo[b]
  BY DEF Typed, TypeOK, Busy, EndTask, Goto, Phase
-------------------------------------------------------------------------------
(* The type invariant.                                                       *)

\* The tables and all tasks are empty at first.
LEMMA TypedInit == Init => Typed
<1> SUFFICES ASSUME Init PROVE Typed
  OBVIOUS
<1>1. rows \in [Tokens -> Row] /\ work \in [Tokens -> Row]
  BY RowsAbsent DEF Init
<1>2. Busy
  BY DEF Init, Busy
<1> QED
  BY <1>1, <1>2, TokensAssumption DEF Init, Typed, TypeOK, Phase

\* The steps of a request for a reset.
LEMMA TypedRequest ==
    ASSUME Typed, NEW a \in Tasks,
           (\E u \in Users : RequestReset(a, u)) \/ NextRevoked(a) \/ RevokeRow(a) \/ SaveToken(a)
    PROVE  Typed'
<1> USE DEF Typed
<1>1. CASE \E u \in Users : RequestReset(a, u)
  BY <1>1 DEF TypeOK, Busy, RequestReset, Goto, Phase, tables, world
<1>2. CASE NextRevoked(a)
  BY <1>2 DEF TypeOK, Busy, NextRevoked, tables, world
<1>3. CASE RevokeRow(a)
  <2>1. cur[a] \in Tokens
    BY <1>3, NoneAssumption DEF TypeOK, RevokeRow
  <2>2. work[cur[a]] \in Row
    BY <2>1 DEF TypeOK
  <2>3. [work[cur[a]] EXCEPT !.status = "revoked"] \in Row
    BY <2>2, RowsMade DEF Status
  <2>4. /\ rows' = rows /\ work' \in [Tokens -> Row]
        /\ lock' \in [Tokens -> Tasks \cup {None}]
    BY <1>3, <2>1, <2>3, Written DEF RevokeRow, TypeOK, tables
  <2> QED
    BY <1>3, <2>4 DEF TypeOK, Busy, RevokeRow, world
<1>4. CASE SaveToken(a)
  <2>1. minted + 1 \in Tokens
    BY <1>4, TokensAssumption DEF TypeOK, SaveToken, Tokens
  <2>2. /\ rows' = rows /\ work' \in [Tokens -> Row]
        /\ lock' \in [Tokens -> Tasks \cup {None}]
    BY <1>4, <2>1, RowsNew, Written DEF SaveToken
  <2> QED
    BY <1>4, <2>1, <2>2, TokensAssumption
    DEF TypeOK, Busy, SaveToken, Goto, Phase, local, Tokens
<1> QED
  BY <1>1, <1>2, <1>3, <1>4

\* The steps of a poll.
LEMMA TypedPoll ==
    ASSUME Typed, NEW a \in Tasks,
           StartPoll(a) \/ SendMail(a) \/ SendFails(a) \/ MarkNotified(a)
    PROVE  Typed'
<1> USE DEF Typed
<1>1. CASE StartPoll(a)
  BY <1>1 DEF TypeOK, Busy, StartPoll, Goto, Phase, tables, world
<1>2. CASE SendMail(a)
  BY <1>2 DEF TypeOK, Busy, SendMail, Goto, Phase, tables
<1>3. CASE SendFails(a)
  <2>1. mails' \in [Tokens -> Nat]
    BY <1>3 DEF TypeOK, SendFails
  <2> QED
    BY <1>3, <2>1, RolledBack, Ended DEF TypeOK, SendFails
<1>4. CASE MarkNotified(a)
  <2>1. cur[a] \in Tokens
    BY <1>4 DEF Busy, MarkNotified
  <2>2. Notified(work[cur[a]]) \in Row
    BY <2>1, RowsMade DEF TypeOK
  <2>3. /\ rows' = rows /\ work' \in [Tokens -> Row]
        /\ lock' \in [Tokens -> Tasks \cup {None}]
    BY <1>4, <2>1, <2>2, Written DEF MarkNotified, TypeOK, tables
  <2> QED
    BY <1>4, <2>3 DEF TypeOK, Busy, MarkNotified, Goto, Phase, world
<1> QED
  BY <1>1, <1>2, <1>3, <1>4

\* The steps of a completion.
LEMMA TypedCompletion ==
    ASSUME Typed, NEW a \in Tasks,
           (\E t \in Tokens : CompleteReset(a, t)) \/ MarkUsed(a) \/ SavePassword(a)
    PROVE  Typed'
<1> USE DEF Typed
<1>1. CASE \E t \in Tokens : CompleteReset(a, t)
  BY <1>1 DEF TypeOK, Busy, CompleteReset, Goto, Phase, tables, world
<1>2. CASE MarkUsed(a)
  <2>1. cur[a] \in Tokens
    BY <1>2 DEF Busy, MarkUsed
  <2>2. CASE IsNotified(work[cur[a]])
    <3>1. [work[cur[a]] EXCEPT !.status = "used"] \in Row
      BY <2>1, RowsMade DEF TypeOK, Status
    <3>2. WriteRow(a, cur[a], [work[cur[a]] EXCEPT !.status = "used"])
      BY <1>2, <2>2 DEF MarkUsed
    <3>3. /\ rows' = rows /\ work' \in [Tokens -> Row]
          /\ lock' \in [Tokens -> Tasks \cup {None}]
      BY <2>1, <3>1, <3>2, Written
    <3> QED
      BY <1>2, <2>1, <2>2, <3>3 DEF TypeOK, Busy, MarkUsed, Goto, Phase, world, local
  <2>3. CASE ~IsNotified(work[cur[a]])
    BY <1>2, <2>3, RolledBack, Ended DEF TypeOK, MarkUsed, world
  <2> QED
    BY <2>2, <2>3
<1>3. CASE SavePassword(a)
  <2>1. resets' \in [Tokens -> Nat]
    BY <1>3 DEF TypeOK, Busy, SavePassword
  <2> QED
    BY <1>3, <2>1, Committed, Ended DEF TypeOK, SavePassword
<1> QED
  BY <1>1, <1>2, <1>3

\* The end of a task.
LEMMA TypedEnds ==
    ASSUME Typed, NEW a \in Tasks, Commit(a) \/ Abort(a) \/ DeadlockVictim(a)
    PROVE  Typed'
<1> USE DEF Typed
<1>1. CASE Commit(a)
  BY <1>1, Committed, Ended DEF TypeOK, Commit, world
<1>2. CASE Abort(a)
  BY <1>2, RolledBack, Ended DEF TypeOK, Abort
<1>3. CASE DeadlockVictim(a)
  BY <1>3, RolledBack, Ended DEF TypeOK, DeadlockVictim
<1> QED
  BY <1>1, <1>2, <1>3

\* Every step keeps the types.
LEMMA TypedNext == Typed /\ [Next]_vars => Typed'
<1> SUFFICES ASSUME Typed, [Next]_vars PROVE Typed'
  OBVIOUS
<1>1. CASE UNCHANGED vars
  BY <1>1 DEF Typed, TypeOK, Busy, vars, tables, world, local
<1>2. CASE Tick
  BY <1>2 DEF Typed, TypeOK, Busy, Tick, tables, local
<1>3. ASSUME NEW a \in Tasks, Step(a) PROVE Typed'
  BY <1>3, TypedRequest, TypedPoll, TypedCompletion, TypedEnds DEF Step
<1>4. ASSUME NEW a \in Tasks, StartPoll(a) \/ SendFails(a) \/ Abort(a) PROVE Typed'
  BY <1>4, TypedPoll, TypedEnds
<1>5. ASSUME NEW a \in Tasks, NEW u \in Users, RequestReset(a, u) PROVE Typed'
  BY <1>5, TypedRequest
<1>6. ASSUME NEW a \in Tasks, NEW t \in Tokens, CompleteReset(a, t) PROVE Typed'
  BY <1>6, TypedCompletion
<1> QED
  BY <1>1, <1>2, <1>3, <1>4, <1>5, <1>6 DEF Next

\* Every step of every number of tasks keeps the state well typed.
THEOREM TypeCorrect == Spec => []TypeOK
<1>1. Init => Typed
  BY TypedInit
<1>2. Typed /\ [Next]_vars => Typed'
  BY TypedNext
<1>3. Typed => TypeOK
  BY DEF Typed
<1> QED
  BY <1>1, <1>2, <1>3, PTL DEF Spec
-------------------------------------------------------------------------------
(* A notified token was mailed.                                              *)

\* A step that mails nothing, or something, and moves marks from one version of a
\* row to the other or makes a mark for a token that was mailed.
LEMMA MailedStays ==
    ASSUME Typed, Typed', MailedFirst,
           \A t \in Tokens : mails'[t] >= mails[t],
           \A t \in Tokens : \A s \in {rows'[t].status, work'[t].status} :
              s \in {"notified", "used"} =>
                 rows[t].status = s \/ work[t].status \in {"notified", "used"} \/ mails[t] > 0,
           \A a \in Tasks : pc'[a] = "mark" =>
              mails'[cur'[a]] > 0 \/ (pc[a] = "mark" /\ cur'[a] = cur[a])
    PROVE  MailedFirst'
<1>1. \A t \in Tokens : \A s \in {rows'[t].status, work'[t].status} :
         s \in {"notified", "used"} => mails'[t] > 0
  BY DEF Typed, TypeOK, MailedFirst, NotifiedWasMailed
<1>2. ASSUME NEW a \in Tasks, pc'[a] = "mark" PROVE mails'[cur'[a]] > 0
  BY <1>2 DEF Typed, TypeOK, Busy, MailedFirst
<1> QED
  BY <1>1, <1>2 DEF MailedFirst, NotifiedWasMailed

\* The end of a transaction.
LEMMA MailedAtEnd ==
    ASSUME Typed, Typed', MailedFirst, NEW a \in Tasks,
           CommitRows(Waits, a) \/ RollbackRows(Waits, a), EndTask(a),
           \A t \in Tokens : mails'[t] >= mails[t]
    PROVE  MailedFirst'
<1>1. \A t \in Tokens : /\ rows'[t] \in {rows[t], work[t]}
                        /\ work'[t] \in {rows[t], work[t]}
  BY Committed, RolledBack DEF Typed
<1>2. \A b \in Tasks : pc'[b] = "mark" => pc[b] = "mark" /\ cur'[b] = cur[b]
  BY Ended
<1>3. \A t \in Tokens : rows[t].status \in {"notified", "used"} => mails[t] > 0
  BY DEF MailedFirst, NotifiedWasMailed
<1> QED
  BY <1>1, <1>2, <1>3, MailedStays

\* Every step keeps the mail ahead of the mark.
LEMMA MailedNext == Typed /\ MailedFirst /\ [Next]_vars => MailedFirst'
<1> SUFFICES ASSUME Typed, MailedFirst, [Next]_vars PROVE MailedFirst'
  OBVIOUS
<1> Typed'
  BY TypedNext
<1>1. CASE UNCHANGED vars
  BY <1>1 DEF MailedFirst, NotifiedWasMailed, vars, tables, world, local
<1>2. CASE Tick
  BY <1>2 DEF MailedFirst, NotifiedWasMailed, Tick, tables, local
<1>3. ASSUME NEW a \in Tasks, NextRevoked(a) PROVE MailedFirst'
  BY <1>3 DEF MailedFirst, NotifiedWasMailed, NextRevoked, tables, world, Typed, TypeOK
<1>4. ASSUME NEW a \in Tasks, NEW u \in Users, RequestReset(a, u) PROVE MailedFirst'
  BY <1>4 DEF MailedFirst, NotifiedWasMailed, RequestReset, Goto, tables, world, Typed, TypeOK
<1>5. ASSUME NEW a \in Tasks, StartPoll(a) PROVE MailedFirst'
  BY <1>5 DEF MailedFirst, NotifiedWasMailed, StartPoll, Goto, tables, world, Typed, TypeOK
<1>6. ASSUME NEW a \in Tasks, NEW t \in Tokens, CompleteReset(a, t) PROVE MailedFirst'
  BY <1>6 DEF MailedFirst, NotifiedWasMailed, CompleteReset, Goto, tables, world, Typed, TypeOK
<1>7. ASSUME NEW a \in Tasks, RevokeRow(a) PROVE MailedFirst'
  <2>1. cur[a] \in Tokens
    BY <1>7 DEF RevokeRow, Typed, TypeOK
  <2>2. /\ rows' = rows
        /\ \A k \in Tokens : work'[k] = work[k] \/ work'[k].status = "revoked"
    <3>1. CASE work[cur[a]].status \in Active
      <4> DEFINE new == [work[cur[a]] EXCEPT !.status = "revoked"]
      <4>1. new \in Row /\ new.status = "revoked"
        BY <2>1, RowsMade DEF Typed, TypeOK, Status
      <4>2. WriteRow(a, cur[a], new)
        BY <1>7, <3>1 DEF RevokeRow
      <4> HIDE DEF new
      <4> QED
        BY <2>1, <4>1, <4>2, Written DEF Typed
    <3>2. CASE work[cur[a]].status \notin Active
      BY <1>7, <3>2 DEF RevokeRow, tables
    <3> QED
      BY <3>1, <3>2
  <2>3. mails' = mails /\ pc' = pc /\ \A b \in Tasks : pc[b] = "mark" => cur'[b] = cur[b]
    BY <1>7 DEF RevokeRow, world, Typed, TypeOK
  <2> QED
    BY <2>2, <2>3 DEF MailedFirst, NotifiedWasMailed
<1>8. ASSUME NEW a \in Tasks, SaveToken(a) PROVE MailedFirst'
  <2> DEFINE new == [user |-> user[a], status |-> "pending", plain |-> TRUE,
                     exp |-> now + TokenTTL]
  <2>1. minted + 1 \in Tokens
    BY <1>8, TokensAssumption DEF SaveToken, Tokens, Typed, TypeOK
  <2>2. new \in Row /\ new.status = "pending"
    BY RowsNew DEF Typed
  <2>3. WriteRow(a, minted + 1, new)
    BY <1>8 DEF SaveToken
  <2> HIDE DEF new
  <2>4. rows' = rows /\ \A k \in Tokens : work'[k] = work[k] \/ work'[k].status = "pending"
    BY <2>1, <2>2, <2>3, Written DEF Typed
  <2>5. mails' = mails /\ cur' = cur /\ \A b \in Tasks : pc'[b] = "mark" => pc[b] = "mark"
    BY <1>8 DEF SaveToken, Goto, local, Typed, TypeOK
  <2> QED
    BY <2>4, <2>5 DEF MailedFirst, NotifiedWasMailed
<1>9. ASSUME NEW a \in Tasks, SendMail(a) PROVE MailedFirst'
  <2>1. PICK t \in todo[a] : /\ cur' = [cur EXCEPT ![a] = t]
                             /\ mails' = [mails EXCEPT ![t] = @ + 1]
    BY <1>9 DEF SendMail
  <2>2. t \in Tokens
    BY DEF Typed, TypeOK
  <2>3. rows' = rows /\ work' = work /\ pc' = [pc EXCEPT ![a] = "mark"]
    BY <1>9 DEF SendMail, tables, Goto
  <2>4. mails'[t] > 0 /\ \A k \in Tokens : mails'[k] >= mails[k]
    BY <2>1, <2>2 DEF Typed, TypeOK
  <2>5. \A b \in Tasks : pc'[b] = "mark" =>
           mails'[cur'[b]] > 0 \/ (pc[b] = "mark" /\ cur'[b] = cur[b])
    BY <2>1, <2>3, <2>4 DEF Typed, TypeOK
  <2> QED
    BY <2>3, <2>4, <2>5, MailedStays
<1>10. ASSUME NEW a \in Tasks, MarkNotified(a) PROVE MailedFirst'
  <2>1. cur[a] \in Tokens /\ mails[cur[a]] > 0
    BY <1>10 DEF MarkNotified, MailedFirst, Typed, Busy
  <2>2. rows' = rows /\ \A k \in Tokens : work'[k] = work[k] \/ k = cur[a]
    <3>1. CASE IsMailable(work[cur[a]])
      <4>1. Notified(work[cur[a]]) \in Row
        BY <2>1, RowsMade DEF Typed, TypeOK
      <4> QED
        BY <1>10, <2>1, <3>1, <4>1, Written DEF MarkNotified, Typed
    <3>2. CASE ~IsMailable(work[cur[a]])
      BY <1>10, <3>2 DEF MarkNotified, tables
    <3> QED
      BY <3>1, <3>2
  <2>3. mails' = mails
    BY <1>10 DEF MarkNotified, world
  <2>4. \A b \in Tasks : pc'[b] = "mark" => pc[b] = "mark" /\ cur'[b] = cur[b]
    BY <1>10 DEF MarkNotified, Goto, Typed, TypeOK
  <2> QED
    BY <2>1, <2>2, <2>3, <2>4 DEF MailedFirst, NotifiedWasMailed, Typed, TypeOK, Busy
<1>11. ASSUME NEW a \in Tasks, MarkUsed(a) PROVE MailedFirst'
  <2>1. cur[a] \in Tokens
    BY <1>11 DEF MarkUsed, Typed, Busy
  <2>2. CASE IsNotified(work[cur[a]])
    <3>1. mails[cur[a]] > 0
      BY <2>1, <2>2 DEF MailedFirst, IsNotified
    <3>2. [work[cur[a]] EXCEPT !.status = "used"] \in Row
      <4>1. work[cur[a]] \in Row
        BY <2>1 DEF Typed, TypeOK
      <4>2. "used" \in Status
        BY DEF Status
      <4> QED
        BY <4>1, <4>2, RowsMade
    <3>3. rows' = rows /\ \A k \in Tokens : work'[k] = work[k] \/ k = cur[a]
      BY <1>11, <2>1, <2>2, <3>2, Written DEF MarkUsed, Typed
    <3>4. mails' = mails /\ cur' = cur /\ \A b \in Tasks : pc'[b] = "mark" => pc[b] = "mark"
      BY <1>11, <2>2 DEF MarkUsed, Goto, world, local, Typed, TypeOK
    <3> QED
      BY <3>1, <3>3, <3>4 DEF MailedFirst, NotifiedWasMailed
  <2>3. CASE ~IsNotified(work[cur[a]])
    BY <1>11, <2>3, MailedAtEnd DEF MarkUsed, world, Typed, TypeOK
  <2> QED
    BY <2>2, <2>3
<1>12. ASSUME NEW a \in Tasks, SavePassword(a) \/ Commit(a) PROVE MailedFirst'
  BY <1>12, MailedAtEnd DEF SavePassword, Commit, world, Typed, TypeOK
<1>13. ASSUME NEW a \in Tasks, Abort(a) \/ DeadlockVictim(a) PROVE MailedFirst'
  BY <1>13, MailedAtEnd DEF Abort, DeadlockVictim, Typed, TypeOK
<1>14. ASSUME NEW a \in Tasks, SendFails(a) PROVE MailedFirst'
  <2>1. \A t \in Tokens : mails'[t] >= mails[t]
    BY <1>14 DEF SendFails, Typed, TypeOK
  <2> QED
    BY <1>14, <2>1, MailedAtEnd DEF SendFails
<1> QED
  BY <1>1, <1>2, <1>3, <1>4, <1>5, <1>6, <1>7, <1>8, <1>9, <1>10, <1>11, <1>12, <1>13, <1>14
  DEF Next, Step

\* However many polls send, fail and are rolled back, a token that counts as
\* notified was mailed.
THEOREM NotifiedOnlyIfMailed == Spec => []NotifiedWasMailed
<1>1. Init => Typed /\ MailedFirst
  BY TypedInit, RowsAbsent DEF Init, MailedFirst, NotifiedWasMailed
<1>2. Typed /\ MailedFirst /\ [Next]_vars => (Typed /\ MailedFirst)'
  BY TypedNext, MailedNext
<1>3. MailedFirst => NotifiedWasMailed
  BY DEF MailedFirst
<1> QED
  BY <1>1, <1>2, <1>3, PTL DEF Spec
-------------------------------------------------------------------------------
(* A token is used once.                                                     *)

\* A step of a task that writes nothing and does not touch the password.
LEMMA UsedStays ==
    ASSUME Typed, UsedOnce, UNCHANGED <<tables, resets, minted>>,
           \A a \in Tasks : pc'[a] = "password" <=> pc[a] = "password",
           \A a \in Tasks : pc[a] = "password" => cur'[a] = cur[a]
    PROVE  UsedOnce'
<1>1. SingleUse' /\ Unborn' /\ UsedIsFinal'
  BY DEF UsedOnce, SingleUse, Unborn, UsedIsFinal, tables
<1>2. UseIsInHand'
  BY DEF UsedOnce, UseIsInHand, tables
<1>3. HandIsUse'
  BY DEF UsedOnce, HandIsUse, tables
<1> QED
  BY <1>1, <1>2, <1>3 DEF UsedOnce

\* A write to a row nobody has used, which does not use it.
LEMMA UsedAtWrite ==
    ASSUME Typed, UsedOnce, NEW a \in Tasks, NEW t \in Tokens, NEW r \in Row,
           WriteRow(a, t, r), MayWrite(a, t), t <= minted', minted <= minted', minted' \in Nat,
           work[t].status # "used", r.status # "used", pc[a] # "password",
           UNCHANGED resets,
           \A b \in Tasks : pc'[b] = "password" <=> pc[b] = "password",
           \A b \in Tasks : pc[b] = "password" => cur'[b] = cur[b]
    PROVE  UsedOnce'
<1>1. /\ rows' = rows /\ work'[t] = r /\ lock'[t] = a
      /\ \A k \in Tokens \ {t} : work'[k] = work[k] /\ lock'[k] = lock[k]
  BY Written DEF Typed
<1>2. rows[t].status # "used"
  BY DEF UsedOnce, UsedIsFinal
<1>3. SingleUse' /\ UsedIsFinal'
  BY <1>1, <1>2 DEF UsedOnce, SingleUse, UsedIsFinal
<1>4. Unborn'
  <2>1. \A k \in Tokens : k \in Nat /\ minted \in Nat
    BY TokensAssumption DEF Tokens, Typed, TypeOK
  <2>2. \A k \in Tokens : k > minted' => k > minted /\ k # t
    BY <2>1
  <2> QED
    BY <1>1, <2>2 DEF UsedOnce, Unborn
<1>5. UseIsInHand'
  BY <1>1 DEF UsedOnce, UseIsInHand
<1>6. HandIsUse'
  <2> SUFFICES ASSUME NEW b \in Tasks, pc'[b] = "password"
               PROVE  /\ lock'[cur'[b]] = b
                      /\ work'[cur'[b]].status = "used" /\ rows'[cur'[b]].status # "used"
    BY DEF HandIsUse
  <2>1. /\ pc[b] = "password" /\ cur'[b] = cur[b] /\ cur[b] \in Tokens
        /\ lock[cur[b]] = b /\ work[cur[b]].status = "used"
        /\ rows[cur[b]].status # "used"
    BY DEF UsedOnce, HandIsUse, Typed, Busy
  <2>2. cur[b] # t
    BY <2>1
  <2> QED
    BY <1>1, <2>1, <2>2
<1> QED
  BY <1>3, <1>4, <1>5, <1>6 DEF UsedOnce

\* A rollback forgets the use in hand with everything else.
LEMMA UsedAtRollback ==
    ASSUME Typed, UsedOnce, NEW a \in Tasks, RollbackRows(Waits, a), EndTask(a),
           UNCHANGED <<resets, minted>>
    PROVE  UsedOnce'
<1>1. /\ rows' = rows
      /\ \A k \in Tokens : work'[k] = IF lock[k] = a THEN rows[k] ELSE work[k]
      /\ \A k \in Tokens : lock[k] # a => lock'[k] = lock[k]
  BY RolledBack DEF Typed
<1>2. /\ pc'[a] = "idle"
      /\ \A b \in Tasks \ {a} : pc'[b] = pc[b] /\ cur'[b] = cur[b]
  BY Ended
<1>3. SingleUse' /\ UsedIsFinal'
  BY <1>1 DEF UsedOnce, SingleUse, UsedIsFinal
<1>4. Unborn'
  BY <1>1, NoTaskIsNone DEF UsedOnce, Unborn
<1>5. UseIsInHand'
  BY <1>1, <1>2 DEF UsedOnce, UseIsInHand
<1>6. HandIsUse'
  <2> SUFFICES ASSUME NEW b \in Tasks, pc'[b] = "password"
               PROVE  /\ lock'[cur'[b]] = b
                      /\ work'[cur'[b]].status = "used" /\ rows'[cur'[b]].status # "used"
    BY DEF HandIsUse
  <2>1. b # a /\ pc[b] = "password" /\ cur'[b] = cur[b]
    BY <1>2
  <2>2. /\ cur[b] \in Tokens /\ lock[cur[b]] = b
        /\ work[cur[b]].status = "used" /\ rows[cur[b]].status # "used"
    BY <2>1 DEF UsedOnce, HandIsUse, Typed, Busy
  <2> QED
    BY <1>1, <2>1, <2>2
<1> QED
  BY <1>3, <1>4, <1>5, <1>6 DEF UsedOnce

\* A commit makes exactly the use in hand final.
LEMMA UsedAtCommit ==
    ASSUME Typed, UsedOnce, NEW a \in Tasks, CommitRows(Waits, a), EndTask(a),
           UNCHANGED minted,
           \A t \in Tokens : resets'[t] =
              IF pc[a] = "password" /\ t = cur[a] THEN resets[t] + 1 ELSE resets[t]
    PROVE  UsedOnce'
<1>1. /\ work' = work
      /\ \A k \in Tokens : rows'[k] = IF lock[k] = a THEN work[k] ELSE rows[k]
      /\ \A k \in Tokens : lock[k] # a => lock'[k] = lock[k]
  BY Committed DEF Typed
<1>2. /\ pc'[a] = "idle"
      /\ \A b \in Tasks \ {a} : pc'[b] = pc[b] /\ cur'[b] = cur[b]
  BY Ended
<1>3. ASSUME NEW t \in Tokens
      PROVE  rows'[t].status = "used"
                <=> rows[t].status = "used" \/ (pc[a] = "password" /\ t = cur[a])
  BY <1>1 DEF UsedOnce, UsedIsFinal, UseIsInHand, HandIsUse
<1>4. SingleUse'
  <2> SUFFICES ASSUME NEW t \in Tokens
               PROVE  resets'[t] = IF rows'[t].status = "used" THEN 1 ELSE 0
    BY DEF SingleUse
  <2>1. CASE pc[a] = "password" /\ t = cur[a]
    <3>1. rows[t].status # "used" /\ resets[t] = 0
      BY <2>1 DEF UsedOnce, HandIsUse, SingleUse
    <3> QED
      BY <1>3, <2>1, <3>1
  <2>2. CASE ~(pc[a] = "password" /\ t = cur[a])
    BY <1>3, <2>2 DEF UsedOnce, SingleUse
  <2> QED
    BY <2>1, <2>2
<1>5. UsedIsFinal'
  BY <1>1 DEF UsedOnce, UsedIsFinal
<1>6. Unborn'
  BY <1>1, NoTaskIsNone DEF UsedOnce, Unborn
<1>7. UseIsInHand'
  BY <1>1, <1>2 DEF UsedOnce, UseIsInHand
<1>8. HandIsUse'
  <2> SUFFICES ASSUME NEW b \in Tasks, pc'[b] = "password"
               PROVE  /\ lock'[cur'[b]] = b
                      /\ work'[cur'[b]].status = "used" /\ rows'[cur'[b]].status # "used"
    BY DEF HandIsUse
  <2>1. b # a /\ pc[b] = "password" /\ cur'[b] = cur[b]
    BY <1>2
  <2>2. /\ cur[b] \in Tokens /\ lock[cur[b]] = b
        /\ work[cur[b]].status = "used" /\ rows[cur[b]].status # "used"
    BY <2>1 DEF UsedOnce, HandIsUse, Typed, Busy
  <2> QED
    BY <1>1, <2>1, <2>2
<1> QED
  BY <1>4, <1>5, <1>6, <1>7, <1>8 DEF UsedOnce

\* The request that finds the token notified takes it in hand.
LEMMA UsedAtUse ==
    ASSUME Typed, UsedOnce, NEW a \in Tasks, MarkUsed(a), IsNotified(work[cur[a]])
    PROVE  UsedOnce'
<1> DEFINE t == cur[a]
<1> DEFINE new == [work[t] EXCEPT !.status = "used"]
<1>1. t \in Tokens /\ work[t].status = "notified" /\ pc[a] = "use" /\ MayWrite(a, t)
  BY DEF MarkUsed, Typed, Busy, IsNotified
<1>2. new \in Row /\ new.status = "used"
  BY <1>1, RowsMade DEF Typed, TypeOK, Status
<1>3. WriteRow(a, t, new) /\ pc' = [pc EXCEPT ![a] = "password"] /\ cur' = cur
  BY DEF MarkUsed, Goto, local
<1>4. resets' = resets /\ minted' = minted
  BY DEF MarkUsed, world
<1> HIDE DEF new
<1>5. /\ rows' = rows /\ work'[t] = new /\ lock'[t] = a
      /\ \A k \in Tokens \ {t} : work'[k] = work[k] /\ lock'[k] = lock[k]
  BY <1>1, <1>2, <1>3, Written DEF Typed
<1> HIDE DEF t
<1>6. rows[t].status # "used" /\ ~(t > minted)
  BY <1>1 DEF UsedOnce, UsedIsFinal, Unborn
<1>7. SingleUse' /\ UsedIsFinal' /\ Unborn'
  BY <1>2, <1>4, <1>5, <1>6 DEF UsedOnce, SingleUse, UsedIsFinal, Unborn
<1>8. t = cur'[a] /\ pc'[a] = "password" /\ \A b \in Tasks \ {a} : pc'[b] = pc[b]
  BY <1>3 DEF t, Typed, TypeOK
<1>9. UseIsInHand'
  <2> SUFFICES ASSUME NEW k \in Tokens, work'[k].status = "used", rows'[k].status # "used"
               PROVE  \E b \in Tasks : lock'[k] = b /\ pc'[b] = "password" /\ cur'[b] = k
    BY DEF UseIsInHand
  <2>1. CASE k = t
    BY <1>5, <1>8, <2>1
  <2>2. CASE k # t
    <3>1. PICK b \in Tasks : lock[k] = b /\ pc[b] = "password" /\ cur[b] = k
      BY <1>5, <2>2 DEF UsedOnce, UseIsInHand
    <3>2. b # a
      BY <1>1, <3>1
    <3> QED
      BY <1>3, <1>5, <1>8, <2>2, <3>1, <3>2
  <2> QED
    BY <2>1, <2>2
<1>10. HandIsUse'
  <2> SUFFICES ASSUME NEW b \in Tasks, pc'[b] = "password"
               PROVE  /\ lock'[cur'[b]] = b
                      /\ work'[cur'[b]].status = "used" /\ rows'[cur'[b]].status # "used"
    BY DEF HandIsUse
  <2>1. CASE b = a
    BY <1>2, <1>5, <1>6, <1>8, <2>1
  <2>2. CASE b # a
    <3>1. /\ cur[b] \in Tokens /\ lock[cur[b]] = b
          /\ work[cur[b]].status = "used" /\ rows[cur[b]].status # "used"
      BY <1>8, <2>2 DEF UsedOnce, HandIsUse, Typed, Busy
    <3>2. cur[b] # t
      BY <1>1, <3>1
    <3> QED
      BY <1>3, <1>5, <3>1, <3>2
  <2> QED
    BY <2>1, <2>2
<1> QED
  BY <1>7, <1>9, <1>10 DEF UsedOnce

\* Every step keeps a used token used, and its use uncommitted in one task at most.
LEMMA UsedNext == Typed /\ UsedOnce /\ [Next]_vars => UsedOnce'
<1> SUFFICES ASSUME Typed, UsedOnce, [Next]_vars PROVE UsedOnce'
  OBVIOUS
<1>1. CASE UNCHANGED vars
  BY <1>1, UsedStays DEF vars, world, local
<1>2. CASE Tick
  BY <1>2, UsedStays DEF Tick, local
<1>3. ASSUME NEW a \in Tasks, NextRevoked(a) \/ SendMail(a) \/ StartPoll(a) PROVE UsedOnce'
  BY <1>3, UsedStays DEF NextRevoked, SendMail, StartPoll, Goto, world, Typed, TypeOK
<1>4. ASSUME NEW a \in Tasks, NEW u \in Users, RequestReset(a, u) PROVE UsedOnce'
  BY <1>4, UsedStays DEF RequestReset, Goto, world, Typed, TypeOK
<1>5. ASSUME NEW a \in Tasks, NEW t \in Tokens, CompleteReset(a, t) PROVE UsedOnce'
  BY <1>5, UsedStays DEF CompleteReset, Goto, world, Typed, TypeOK
<1>6. ASSUME NEW a \in Tasks, RevokeRow(a) PROVE UsedOnce'
  <2>1. cur[a] \in Tokens /\ MayWrite(a, cur[a]) /\ pc[a] = "revoke"
    BY <1>6 DEF RevokeRow, Typed, TypeOK
  <2>2. /\ resets' = resets /\ minted' = minted /\ pc' = pc
        /\ \A b \in Tasks : b # a => cur'[b] = cur[b]
    BY <1>6 DEF RevokeRow, world, Typed, TypeOK
  <2>3. CASE work[cur[a]].status \in Active
    <3> DEFINE new == [work[cur[a]] EXCEPT !.status = "revoked"]
    <3>1. new \in Row /\ new.status = "revoked"
      BY <2>1, RowsMade DEF Typed, TypeOK, Status
    <3>2. WriteRow(a, cur[a], new)
      BY <1>6, <2>3 DEF RevokeRow
    <3>3. cur[a] <= minted /\ minted \in Nat
      BY <2>1, <2>3, TokensAssumption DEF UsedOnce, Unborn, Active, Typed, TypeOK, Tokens
    <3> HIDE DEF new
    <3> QED
      BY <2>1, <2>2, <2>3, <3>1, <3>2, <3>3, UsedAtWrite DEF Active
  <2>4. CASE work[cur[a]].status \notin Active
    BY <1>6, <2>1, <2>2, <2>4, UsedStays DEF RevokeRow, tables
  <2> QED
    BY <2>3, <2>4
<1>7. ASSUME NEW a \in Tasks, SaveToken(a) PROVE UsedOnce'
  <2> DEFINE new == [user |-> user[a], status |-> "pending", plain |-> TRUE,
                     exp |-> now + TokenTTL]
  <2>1. minted + 1 \in Tokens /\ minted \in Nat
    BY <1>7, TokensAssumption DEF SaveToken, Tokens, Typed, TypeOK
  <2>2. new \in Row /\ new.status = "pending"
    BY RowsNew DEF Typed
  <2>3. WriteRow(a, minted + 1, new) /\ minted' = minted + 1 /\ resets' = resets
    BY <1>7 DEF SaveToken
  <2>4. lock[minted + 1] = None /\ work[minted + 1].status = "absent"
    BY <2>1 DEF UsedOnce, Unborn
  <2>5. /\ pc[a] = "revoke" /\ cur' = cur
        /\ \A b \in Tasks : pc'[b] = "password" <=> pc[b] = "password"
    BY <1>7 DEF SaveToken, Goto, local, Typed, TypeOK
  <2>6. MayWrite(a, minted + 1)
    BY <2>4 DEF MayWrite
  <2> HIDE DEF new
  <2> QED
    BY <2>1, <2>2, <2>3, <2>4, <2>5, <2>6, UsedAtWrite
<1>8. ASSUME NEW a \in Tasks, MarkNotified(a) PROVE UsedOnce'
  <2>1. cur[a] \in Tokens /\ MayWrite(a, cur[a]) /\ pc[a] = "mark"
    BY <1>8 DEF MarkNotified, Typed, Busy
  <2>2. /\ resets' = resets /\ minted' = minted
        /\ \A b \in Tasks : pc'[b] = "password" <=> pc[b] = "password"
        /\ \A b \in Tasks : b # a => cur'[b] = cur[b]
    BY <1>8 DEF MarkNotified, Goto, world, Typed, TypeOK
  <2>3. CASE IsMailable(work[cur[a]])
    <3>1. Notified(work[cur[a]]) \in Row /\ Notified(work[cur[a]]).status = "notified"
      BY <2>1, RowsMade DEF Typed, TypeOK
    <3>2. WriteRow(a, cur[a], Notified(work[cur[a]]))
      BY <1>8, <2>3 DEF MarkNotified
    <3>3. work[cur[a]].status = "pending"
      BY <2>3 DEF IsMailable
    <3>4. cur[a] <= minted /\ minted \in Nat
      BY <2>1, <3>3, TokensAssumption DEF UsedOnce, Unborn, Typed, TypeOK, Tokens
    <3> QED
      BY <2>1, <2>2, <3>1, <3>2, <3>3, <3>4, UsedAtWrite
  <2>4. CASE ~IsMailable(work[cur[a]])
    BY <1>8, <2>1, <2>2, <2>4, UsedStays DEF MarkNotified, tables
  <2> QED
    BY <2>3, <2>4
<1>9. ASSUME NEW a \in Tasks, MarkUsed(a) PROVE UsedOnce'
  <2>1. CASE IsNotified(work[cur[a]])
    BY <1>9, <2>1, UsedAtUse
  <2>2. CASE ~IsNotified(work[cur[a]])
    BY <1>9, <2>2, UsedAtRollback DEF MarkUsed, world
  <2> QED
    BY <2>1, <2>2
<1>10. ASSUME NEW a \in Tasks, SavePassword(a) PROVE UsedOnce'
  <2>1. cur[a] \in Tokens /\ pc[a] = "password"
    BY <1>10 DEF SavePassword, Typed, Busy
  <2>2. \A t \in Tokens : resets'[t] =
           IF pc[a] = "password" /\ t = cur[a] THEN resets[t] + 1 ELSE resets[t]
    BY <1>10, <2>1 DEF SavePassword, Typed, TypeOK
  <2> QED
    BY <1>10, <2>2, UsedAtCommit DEF SavePassword
<1>11. ASSUME NEW a \in Tasks, Commit(a) PROVE UsedOnce'
  BY <1>11, UsedAtCommit DEF Commit, world
<1>12. ASSUME NEW a \in Tasks, SendFails(a) \/ Abort(a) \/ DeadlockVictim(a) PROVE UsedOnce'
  BY <1>12, UsedAtRollback DEF SendFails, Abort, DeadlockVictim
<1> QED
  BY <1>1, <1>2, <1>3, <1>4, <1>5, <1>6, <1>7, <1>8, <1>9, <1>10, <1>11, <1>12 DEF Next, Step

\* However many requests present a token, and whatever fails between the mark and
\* the commit, the committed uses of a token are the password changes it made,
\* and there is at most one.
THEOREM UsedAtMostOnce == Spec => []SingleUse
<1>1. Init => Typed /\ UsedOnce
  BY TypedInit, RowsAbsent
  DEF Init, UsedOnce, SingleUse, Unborn, UsedIsFinal, UseIsInHand, HandIsUse
<1>2. Typed /\ UsedOnce /\ [Next]_vars => (Typed /\ UsedOnce)'
  BY TypedNext, UsedNext
<1>3. UsedOnce => SingleUse
  BY DEF UsedOnce
<1> QED
  BY <1>1, <1>2, <1>3, PTL DEF Spec
=============================================================================
