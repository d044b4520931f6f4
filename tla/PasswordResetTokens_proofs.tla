---------------------- MODULE PasswordResetTokens_proofs ----------------------
(***************************************************************************)
(* More proofs about PasswordReset, from who holds the lock of a token and *)
(* why: a user whose tokens were revoked has a later one, a user has no    *)
(* more usable tokens than requests overlap, and the mails of a token are  *)
(* bounded by the workers and the faults.                                  *)
(***************************************************************************)
EXTENDS PasswordReset_proofs, FiniteSetTheorems

\* What the owner of a row's lock may have made of it: request a has revoked the
\* token of its user, or inserted one; a poll has marked it; a request has used it.
Revokes(a, t) ==
    /\ rows[t].status \in Active /\ rows[t].user = user[a]
    /\ work[t].status = "revoked" /\ work[t].user = rows[t].user

Mints(a, t) ==
    /\ rows[t].status = "absent"
    /\ work[t].status = "pending" /\ work[t].user = user[a]

Marks(t) ==
    /\ IsMailable(rows[t])
    /\ work[t].status = "notified" /\ work[t].user = rows[t].user

Uses(t) ==
    /\ rows[t].status = "notified"
    /\ work[t].status = "used" /\ work[t].user = rows[t].user

\* Why task a has the lock of token t: it waited for the row, or found nothing to
\* do about it, or wrote it.
Holds(a, t) ==
    \/ /\ pc[a] \in {"revoke", "commit", "mail", "mark", "use"} /\ work[t] = rows[t]
       /\ pc[a] = "use" => cur[a] = t
    \/ pc[a] \in {"revoke", "commit"} /\ Revokes(a, t)
    \/ pc[a] = "commit" /\ Mints(a, t)
    \/ pc[a] \in {"mail", "mark"} /\ Marks(t)
    \/ pc[a] = "password" /\ cur[a] = t /\ Uses(t)

Kinds ==
    \A a \in Tasks :
        /\ pc[a] = "idle" => cur[a] = None /\ todo[a] = {}
        /\ pc[a] \in {"revoke", "commit", "use", "password"} => a \in Webs
        /\ pc[a] \in {"mail", "mark"} => a \in Pollers

Held ==
    /\ \A t \in Tokens : lock[t] = None => work[t] = rows[t]
    /\ \A t \in Tokens, a \in Tasks : lock[t] = a => Holds(a, t)

\* A request that is about to commit has inserted one token.
InsertsOne(a) ==
    \E t \in Tokens : /\ lock[t] = a /\ Mints(a, t)
                      /\ \A s \in Tokens \ {t} : lock[s] = a => ~Mints(a, s)

MintsOne == \A a \in Tasks : pc[a] = "commit" => InsertsOne(a)

\* What a task works on is in the table, and a request revokes its user's tokens.
Chosen ==
    \A a \in Tasks, t \in Tokens : t \in todo[a] \/ cur[a] = t =>
        /\ rows[t].status # "absent"
        /\ pc[a] = "revoke" => rows[t].user = user[a]

Locking == Typed /\ UsedOnce /\ Kinds /\ Held /\ MintsOne /\ Chosen
-------------------------------------------------------------------------------
(* What the writing steps do.                                                *)

\* What the UPDATE of a listed row leaves: the row revoked if it was still active,
\* and untouched otherwise.
LEMMA Revoking ==
    ASSUME Typed, NEW a \in Tasks, RevokeRow(a)
    PROVE  /\ cur[a] \in Tokens /\ MayWrite(a, cur[a]) /\ pc[a] = "revoke"
           /\ UNCHANGED <<rows, world, pc, user, todo>>
           /\ cur'[a] = None /\ \A b \in Tasks \ {a} : cur'[b] = cur[b]
           /\ \A k \in Tokens \ {cur[a]} : work'[k] = work[k] /\ lock'[k] = lock[k]
           /\ work[cur[a]].status \in Active =>
                 /\ lock'[cur[a]] = a
                 /\ work'[cur[a]].status = "revoked" /\ work'[cur[a]].user = work[cur[a]].user
           /\ work[cur[a]].status \notin Active => UNCHANGED <<work, lock>>
<1>1. cur[a] \in Tokens /\ MayWrite(a, cur[a]) /\ pc[a] = "revoke"
  BY DEF RevokeRow, Typed, TypeOK
<1>2. /\ UNCHANGED <<world, pc, user, todo>>
      /\ cur'[a] = None /\ \A b \in Tasks \ {a} : cur'[b] = cur[b]
  BY DEF RevokeRow, Typed, TypeOK
<1>3. CASE work[cur[a]].status \in Active
  <2> DEFINE new == [work[cur[a]] EXCEPT !.status = "revoked"]
  <2>1. work[cur[a]] \in Row
    BY <1>1 DEF Typed, TypeOK
  <2>2. new \in Row /\ new.status = "revoked" /\ new.user = work[cur[a]].user
    BY <2>1, RowsMade DEF Row, Status
  <2>3. WriteRow(a, cur[a], new)
    BY <1>3 DEF RevokeRow
  <2> HIDE DEF new
  <2> QED
    BY <1>1, <1>2, <1>3, <2>2, <2>3, Written DEF Typed
<1>4. CASE work[cur[a]].status \notin Active
  BY <1>1, <1>2, <1>4 DEF RevokeRow, tables
<1> QED
  BY <1>3, <1>4

\* What the INSERT of a new token leaves.
LEMMA Saving ==
    ASSUME Typed, UsedOnce, NEW a \in Tasks, SaveToken(a)
    PROVE  /\ pc[a] = "revoke" /\ todo[a] = {} /\ cur[a] = None
           /\ pc'[a] = "commit" /\ \A b \in Tasks \ {a} : pc'[b] = pc[b]
           /\ UNCHANGED <<rows, mails, resets, now, aborts, local>>
           /\ \E t \in Tokens :
                 /\ lock[t] = None /\ rows[t].status = "absent" /\ work[t].status = "absent"
                 /\ lock'[t] = a
                 /\ work'[t].status = "pending" /\ work'[t].user = user[a] /\ work'[t].plain
                 /\ \A k \in Tokens \ {t} : work'[k] = work[k] /\ lock'[k] = lock[k]
<1> DEFINE new == [user |-> user[a], status |-> "pending", plain |-> TRUE,
                   exp |-> now + TokenTTL]
<1> DEFINE t == minted + 1
<1>1. t \in Tokens /\ t > minted
  BY TokensAssumption DEF SaveToken, Tokens, Typed, TypeOK
<1>2. /\ new \in Row /\ new.status = "pending" /\ new.user = user[a] /\ new.plain
      /\ WriteRow(a, t, new)
  BY RowsNew DEF Typed, SaveToken
<1>3. /\ pc[a] = "revoke" /\ todo[a] = {} /\ cur[a] = None
      /\ pc'[a] = "commit" /\ \A b \in Tasks \ {a} : pc'[b] = pc[b]
      /\ UNCHANGED <<mails, resets, now, aborts, local>>
  BY DEF SaveToken, Goto, Typed, TypeOK
<1>4. lock[t] = None /\ rows[t].status = "absent" /\ work[t].status = "absent"
  BY <1>1 DEF UsedOnce, Unborn
<1> HIDE DEF new, t
<1> QED
  BY <1>1, <1>2, <1>3, <1>4, Written DEF Typed

\* What the UPDATE of mark_notified leaves.
LEMMA Marking ==
    ASSUME Typed, NEW a \in Tasks, MarkNotified(a)
    PROVE  /\ cur[a] \in Tokens /\ MayWrite(a, cur[a]) /\ pc[a] = "mark"
           /\ pc'[a] = "mail" /\ cur'[a] = None
           /\ \A b \in Tasks \ {a} : pc'[b] = pc[b] /\ cur'[b] = cur[b]
           /\ UNCHANGED <<rows, world, user, todo>>
           /\ \A k \in Tokens \ {cur[a]} : work'[k] = work[k] /\ lock'[k] = lock[k]
           /\ IsMailable(work[cur[a]]) =>
                 /\ lock'[cur[a]] = a
                 /\ work'[cur[a]].status = "notified" /\ work'[cur[a]].user = work[cur[a]].user
           /\ ~IsMailable(work[cur[a]]) => UNCHANGED <<work, lock>>
<1>1. cur[a] \in Tokens /\ MayWrite(a, cur[a]) /\ pc[a] = "mark"
  BY DEF MarkNotified, Typed, Busy
<1>2. /\ UNCHANGED <<world, user, todo>> /\ pc'[a] = "mail" /\ cur'[a] = None
      /\ \A b \in Tasks \ {a} : pc'[b] = pc[b] /\ cur'[b] = cur[b]
  BY DEF MarkNotified, Goto, Typed, TypeOK
<1>3. CASE IsMailable(work[cur[a]])
  <2> DEFINE new == Notified(work[cur[a]])
  <2>1. work[cur[a]] \in Row
    BY <1>1 DEF Typed, TypeOK
  <2>2. new \in Row /\ new.status = "notified"
    BY <2>1, RowsMade
  <2>3. new.user = work[cur[a]].user
    BY <2>1 DEF Row, Notified
  <2>4. WriteRow(a, cur[a], new)
    BY <1>3 DEF MarkNotified
  <2> HIDE DEF new
  <2> QED
    BY <1>1, <1>2, <1>3, <2>2, <2>3, <2>4, Written DEF Typed
<1>4. CASE ~IsMailable(work[cur[a]])
  BY <1>1, <1>2, <1>4 DEF MarkNotified, tables
<1> QED
  BY <1>3, <1>4

\* A token that is found notified is used; otherwise the request is rolled back.
LEMMA Using ==
    ASSUME Typed, NEW a \in Tasks, MarkUsed(a)
    PROVE  \/ /\ cur[a] \in Tokens /\ MayWrite(a, cur[a]) /\ pc[a] = "use"
              /\ work[cur[a]].status = "notified"
              /\ pc'[a] = "password" /\ \A b \in Tasks \ {a} : pc'[b] = pc[b]
              /\ UNCHANGED <<rows, world, local>>
              /\ lock'[cur[a]] = a
              /\ work'[cur[a]].status = "used" /\ work'[cur[a]].user = work[cur[a]].user
              /\ \A k \in Tokens \ {cur[a]} : work'[k] = work[k] /\ lock'[k] = lock[k]
           \/ RollbackRows(Waits, a) /\ EndTask(a) /\ UNCHANGED world /\ pc[a] = "use"
<1>1. cur[a] \in Tokens /\ MayWrite(a, cur[a]) /\ pc[a] = "use" /\ UNCHANGED world
  BY DEF MarkUsed, Typed, Busy
<1>2. CASE IsNotified(work[cur[a]])
  <2> DEFINE new == [work[cur[a]] EXCEPT !.status = "used"]
  <2>1. work[cur[a]] \in Row
    BY <1>1 DEF Typed, TypeOK
  <2>2. new \in Row /\ new.status = "used" /\ new.user = work[cur[a]].user
    BY <2>1, RowsMade DEF Row, Status
  <2>3. /\ WriteRow(a, cur[a], new) /\ UNCHANGED local
        /\ pc'[a] = "password" /\ \A b \in Tasks \ {a} : pc'[b] = pc[b]
    BY <1>2 DEF MarkUsed, Goto, Typed, TypeOK
  <2> HIDE DEF new
  <2> QED
    BY <1>1, <1>2, <2>2, <2>3, Written DEF Typed, IsNotified
<1>3. CASE ~IsNotified(work[cur[a]])
  BY <1>1, <1>3 DEF MarkUsed
<1> QED
  BY <1>2, <1>3
-------------------------------------------------------------------------------
(* Row locks.                                                                *)

\* Task b does nothing that concerns the rows it has a lock on.
GoesOn(b) ==
    /\ pc'[b] = pc[b] \/ {pc[b], pc'[b]} \subseteq {"mail", "mark"}
    /\ user'[b] = user[b]
    /\ pc[b] \in {"use", "password"} => cur'[b] = cur[b]

\* So the reason for which it holds them stays.
LEMMA HoldsStill ==
    ASSUME NEW b \in Tasks, NEW t \in Tokens, Holds(b, t), GoesOn(b),
           rows'[t] = rows[t], work'[t] = work[t]
    PROVE  Holds(b, t)'
  BY DEF Holds, Revokes, Mints, Marks, Uses, IsMailable, GoesOn

\* A task that stays where it is goes on minting what it minted.
LEMMA MintsStill ==
    ASSUME NEW b \in Tasks, NEW t \in Tokens, GoesOn(b),
           rows'[t] = rows[t], work'[t] = work[t]
    PROVE  Mints(b, t)' <=> Mints(b, t)
  BY DEF Mints, GoesOn

\* Requests and polls keep to their own phases.
LEMMA KindsNext == Typed /\ Kinds /\ [Next]_vars => Kinds'
<1> SUFFICES ASSUME Typed, Kinds, [Next]_vars PROVE Kinds'
  OBVIOUS
<1>1. CASE UNCHANGED vars \/ Tick
  BY <1>1 DEF Kinds, vars, local, Tick
<1>2. ASSUME NEW a \in Tasks,
             \A b \in Tasks \ {a} : pc'[b] = pc[b] /\ cur'[b] = cur[b] /\ todo'[b] = todo[b],
             pc'[a] = "idle" => cur'[a] = None /\ todo'[a] = {},
             \/ pc'[a] \in {"idle", pc[a]}
             \/ {pc[a], pc'[a]} \subseteq {"mail", "mark"}
             \/ {pc[a], pc'[a]} \subseteq {"revoke", "commit", "use", "password"}
             \/ a \in Pollers /\ pc'[a] = "mail"
             \/ a \in Webs /\ pc'[a] \in {"revoke", "use"}
      PROVE  Kinds'
  BY <1>2 DEF Kinds
<1>3. ASSUME NEW a \in Tasks, EndTask(a) PROVE Kinds'
  BY <1>2, <1>3, Ended
<1>4. ASSUME NEW a \in Tasks, Step(a) \/ StartPoll(a) \/ SendFails(a) \/ Abort(a) PROVE Kinds'
  <2>1. CASE NextRevoked(a) \/ StartPoll(a) \/ SendMail(a)
    BY <1>2, <2>1 DEF NextRevoked, StartPoll, SendMail, Goto, Typed, TypeOK
  <2>2. CASE RevokeRow(a)
    BY <1>2, <2>2, Revoking
  <2>3. CASE SaveToken(a)
    BY <1>2, <2>3 DEF SaveToken, Goto, local, Typed, TypeOK
  <2>4. CASE MarkNotified(a)
    BY <1>2, <2>4, Marking
  <2>5. CASE MarkUsed(a)
    BY <1>2, <1>3, <2>5, Using DEF local
  <2>6. CASE SavePassword(a) \/ Commit(a) \/ DeadlockVictim(a) \/ SendFails(a) \/ Abort(a)
    BY <1>3, <2>6 DEF SavePassword, Commit, DeadlockVictim, SendFails, Abort
  <2> QED
    BY <1>4, <2>1, <2>2, <2>3, <2>4, <2>5, <2>6 DEF Step
<1>5. ASSUME NEW a \in Tasks, NEW u \in Users, RequestReset(a, u) PROVE Kinds'
  BY <1>2, <1>5 DEF RequestReset, Goto, Typed, TypeOK
<1>6. ASSUME NEW a \in Tasks, NEW t \in Tokens, CompleteReset(a, t) PROVE Kinds'
  BY <1>2, <1>6 DEF CompleteReset, Goto, Typed, TypeOK
<1> QED
  BY <1>1, <1>4, <1>5, <1>6 DEF Next, vars

\* A step that writes nothing: a task that is idle begins, the others go on.
LEMMA LockingQuiet ==
    ASSUME Locking, UNCHANGED tables,
           \A b \in Tasks : GoesOn(b) \/ (pc[b] = "idle" /\ pc'[b] # "commit")
    PROVE  Held' /\ MintsOne'
<1>1. rows' = rows /\ work' = work /\ lock' = lock
  BY DEF tables
<1>2. \A t \in Tokens, b \in Tasks : lock[t] = b => GoesOn(b)
  BY DEF Locking, Held, Holds
<1>3. Held'
  BY <1>1, <1>2, HoldsStill DEF Locking, Held
<1>4. \A b \in Tasks : pc'[b] = "commit" => pc[b] = "commit" /\ GoesOn(b)
  BY DEF GoesOn
<1>5. MintsOne'
  BY <1>1, <1>4, MintsStill DEF Locking, MintsOne, InsertsOne
<1> QED
  BY <1>3, <1>5

\* Task a writes the row of t.
LEMMA LockingWrite ==
    ASSUME Locking, NEW a \in Tasks, NEW t \in Tokens, MayWrite(a, t),
           rows' = rows, lock'[t] = a,
           \A k \in Tokens \ {t} : work'[k] = work[k] /\ lock'[k] = lock[k],
           \A b \in Tasks \ {a} : GoesOn(b),
           Holds(a, t)', \A k \in Tokens \ {t} : lock[k] = a => Holds(a, k)'
    PROVE  /\ Held'
           /\ (pc'[a] = "commit" => InsertsOne(a)') => MintsOne'
<1>1. Held'
  <2>1. ASSUME NEW k \in Tokens, lock'[k] = None PROVE work'[k] = rows'[k]
    BY <2>1, NoTaskIsNone DEF Locking, Held
  <2>2. ASSUME NEW k \in Tokens, NEW b \in Tasks, lock'[k] = b PROVE Holds(b, k)'
    <3>1. CASE b = a
      BY <2>2, <3>1
    <3>2. CASE b # a
      BY <2>2, <3>2, HoldsStill DEF Locking, Held
    <3> QED
      BY <3>1, <3>2
  <2> QED
    BY <2>1, <2>2 DEF Held
<1>2. ASSUME NEW b \in Tasks, pc'[b] = "commit", b # a PROVE InsertsOne(b)'
  <2>1. pc[b] = "commit" /\ GoesOn(b)
    BY <1>2 DEF GoesOn
  <2>2. PICK k \in Tokens : /\ lock[k] = b /\ Mints(b, k)
                            /\ \A s \in Tokens \ {k} : lock[s] = b => ~Mints(b, s)
    BY <2>1 DEF Locking, MintsOne, InsertsOne
  <2>3. \A s \in Tokens : lock'[s] = b => s # t /\ lock[s] = b /\ (Mints(b, s)' <=> Mints(b, s))
    BY <1>2, <2>1, MintsStill
  <2>4. k # t
    BY <1>2, <2>2, NoTaskIsNone DEF MayWrite
  <2> QED
    BY <2>1, <2>2, <2>3, <2>4, MintsStill DEF InsertsOne
<1> QED
  BY <1>1, <1>2 DEF MintsOne

\* Transaction a ends: its locks go to tasks that wait, which see what is committed.
LEMMA LockingEnds ==
    ASSUME Locking, NEW a \in Tasks, EndTask(a),
           CommitRows(Waits, a) \/ RollbackRows(Waits, a)
    PROVE  Held' /\ MintsOne'
<1>1. /\ pc'[a] = "idle"
      /\ \A b \in Tasks \ {a} : pc'[b] = pc[b] /\ cur'[b] = cur[b] /\ user'[b] = user[b]
  BY Ended DEF Locking
<1>2. /\ \A k \in Tokens : lock[k] # a =>
            rows'[k] = rows[k] /\ work'[k] = work[k] /\ lock'[k] = lock[k]
      /\ \A k \in Tokens : lock[k] = a =>
            /\ work'[k] = rows'[k]
            /\ lock'[k] = None \/ (lock'[k] # a /\ AwaitsRow(lock'[k], k))
  BY Committed, RolledBack DEF Locking, Typed
<1>3. Held'
  <2>1. ASSUME NEW k \in Tokens, lock'[k] = None PROVE work'[k] = rows'[k]
    BY <1>2, <2>1 DEF Locking, Held
  <2>2. ASSUME NEW k \in Tokens, NEW b \in Tasks, lock'[k] = b PROVE Holds(b, k)'
    <3>1. CASE lock[k] = a
      BY <1>1, <1>2, <2>2, <3>1, NoTaskIsNone DEF AwaitsRow, Holds
    <3>2. CASE lock[k] # a
      BY <1>1, <1>2, <2>2, <3>2, HoldsStill DEF Locking, Held, GoesOn
    <3> QED
      BY <3>1, <3>2
  <2> QED
    BY <2>1, <2>2 DEF Held
<1>4. MintsOne'
  <2> SUFFICES ASSUME NEW b \in Tasks, pc'[b] = "commit" PROVE InsertsOne(b)'
    BY DEF MintsOne
  <2>1. b # a /\ pc[b] = "commit" /\ GoesOn(b)
    BY <1>1 DEF GoesOn
  <2>2. PICK k \in Tokens : /\ lock[k] = b /\ Mints(b, k)
                            /\ \A s \in Tokens \ {k} : lock[s] = b => ~Mints(b, s)
    BY <2>1 DEF Locking, MintsOne, InsertsOne
  <2>3. \A s \in Tokens : lock'[s] = b => lock[s] = b
    BY <1>2, <2>1, NoTaskIsNone DEF AwaitsRow
  <2> QED
    BY <1>2, <2>1, <2>2, <2>3, MintsStill DEF InsertsOne
<1> QED
  BY <1>3, <1>4

\* What is in the table keeps its user.
LEMMA RowsKept ==
    ASSUME Locking, NEW a \in Tasks, CommitRows(Waits, a), NEW t \in Tokens
    PROVE  rows[t].status # "absent" =>
              rows'[t].status # "absent" /\ rows'[t].user = rows[t].user
<1>1. rows'[t] = IF lock[t] = a THEN work[t] ELSE rows[t]
  BY Committed DEF Locking, Typed
<1>2. lock[t] = a => Holds(a, t)
  BY DEF Locking, Held
<1> QED
  BY <1>1, <1>2 DEF Holds, Revokes, Mints, Marks, Uses

\* What a task has listed stays a committed row of its user, or of the batch.
LEMMA ChosenNext == Locking /\ [Next]_vars => Chosen'
<1> SUFFICES ASSUME Locking, [Next]_vars PROVE Chosen'
  OBVIOUS
<1> Typed /\ UsedOnce /\ Kinds /\ Chosen
  BY DEF Locking
<1>1. ASSUME rows' = rows,
             \A b \in Tasks, t \in Tokens :
                t \in todo'[b] \/ cur'[b] = t =>
                   \/ /\ t \in todo[b] \/ cur[b] = t
                      /\ pc'[b] = "revoke" => pc[b] = "revoke" /\ user'[b] = user[b]
                   \/ /\ rows[t].status # "absent"
                      /\ pc'[b] = "revoke" => rows[t].user = user'[b]
      PROVE  Chosen'
  BY <1>1 DEF Chosen
<1>2. CASE UNCHANGED vars \/ Tick
  BY <1>1, <1>2 DEF vars, tables, local, Tick
<1>3. ASSUME NEW a \in Tasks, EndTask(a), CommitRows(Waits, a) \/ RollbackRows(Waits, a)
      PROVE  Chosen'
  <2>1. /\ pc'[a] = "idle" /\ cur'[a] = None /\ todo'[a] = {}
        /\ \A b \in Tasks \ {a} : /\ pc'[b] = pc[b] /\ cur'[b] = cur[b]
                                  /\ user'[b] = user[b] /\ todo'[b] = todo[b]
    BY <1>3, Ended DEF EndTask, Typed, TypeOK
  <2>2. \A t \in Tokens : rows[t].status # "absent" =>
           rows'[t].status # "absent" /\ rows'[t].user = rows[t].user
    BY <1>3, RowsKept, RolledBack DEF Typed
  <2>3. \A t \in Tokens : t # None
    BY NoneAssumption DEF Tokens
  <2> QED
    BY <2>1, <2>2, <2>3 DEF Chosen
<1>4. ASSUME NEW a \in Tasks, Step(a) \/ StartPoll(a) \/ SendFails(a) \/ Abort(a) PROVE Chosen'
  <2>1. CASE NextRevoked(a)
    BY <1>1, <2>1 DEF NextRevoked, tables, Typed, TypeOK
  <2>2. CASE SendMail(a)
    BY <1>1, <2>2 DEF SendMail, Goto, tables, Typed, TypeOK
  <2>3. CASE StartPoll(a)
    BY <1>1, <2>3 DEF StartPoll, Goto, IsPage, IsMailable, tables, Typed, TypeOK
  <2>4. CASE RevokeRow(a)
    BY <1>1, <2>4, Revoking, NoneAssumption DEF Tokens
  <2>5. CASE SaveToken(a)
    BY <1>1, <2>5, Saving DEF local
  <2>6. CASE MarkNotified(a)
    BY <1>1, <2>6, Marking, NoneAssumption DEF Tokens
  <2>7. CASE MarkUsed(a)
    BY <1>1, <1>3, <2>7, Using DEF local
  <2>8. CASE SavePassword(a) \/ Commit(a) \/ DeadlockVictim(a) \/ SendFails(a) \/ Abort(a)
    BY <1>3, <2>8 DEF SavePassword, Commit, DeadlockVictim, SendFails, Abort
  <2> QED
    BY <1>4, <2>1, <2>2, <2>3, <2>4, <2>5, <2>6, <2>7, <2>8 DEF Step
<1>5. ASSUME NEW a \in Tasks, NEW u \in Users, RequestReset(a, u) PROVE Chosen'
  <2>1. /\ \A b \in Tasks \ {a} : /\ pc'[b] = pc[b] /\ user'[b] = user[b] /\ todo'[b] = todo[b]
        /\ user'[a] = u /\ rows' = rows /\ cur' = cur /\ cur[a] = None
        /\ todo'[a] = {t \in Tokens : rows[t].user = u /\ rows[t].status \in Active}
    BY <1>5 DEF RequestReset, Goto, tables, Typed, TypeOK, Kinds
  <2>2. \A t \in Tokens : t # None
    BY NoneAssumption DEF Tokens
  <2> QED
    BY <1>1, <2>1, <2>2 DEF Active
<1>6. ASSUME NEW a \in Tasks, NEW t \in Tokens, CompleteReset(a, t) PROVE Chosen'
  BY <1>1, <1>6 DEF CompleteReset, Goto, tables, Typed, TypeOK
<1> QED
  BY <1>2, <1>4, <1>5, <1>6 DEF Next

\* The lock discipline is kept by every step.
LEMMA LockingNext == Locking /\ [Next]_vars => Locking'
<1> SUFFICES ASSUME Locking, [Next]_vars PROVE Held' /\ MintsOne'
  BY TypedNext, UsedNext, KindsNext, ChosenNext DEF Locking
<1> Typed /\ UsedOnce
  BY DEF Locking
<1>1. CASE UNCHANGED vars \/ Tick
  BY <1>1, LockingQuiet DEF vars, local, Tick, GoesOn
<1>2. ASSUME NEW a \in Tasks, NextRevoked(a) \/ SendMail(a) \/ StartPoll(a)
      PROVE  Held' /\ MintsOne'
  BY <1>2, LockingQuiet DEF NextRevoked, SendMail, StartPoll, Goto, GoesOn, Typed, TypeOK
<1>3. ASSUME NEW a \in Tasks, NEW u \in Users, RequestReset(a, u) PROVE Held' /\ MintsOne'
  BY <1>3, LockingQuiet DEF RequestReset, Goto, GoesOn, Typed, TypeOK
<1>4. ASSUME NEW a \in Tasks, NEW t \in Tokens, CompleteReset(a, t) PROVE Held' /\ MintsOne'
  BY <1>4, LockingQuiet DEF CompleteReset, Goto, GoesOn, local, Typed, TypeOK
<1>5. ASSUME NEW a \in Tasks, RevokeRow(a) PROVE Held' /\ MintsOne'
  <2>0. PICK t \in Tokens : t = cur[a]
    BY <1>5, Revoking
  <2>1. \A b \in Tasks : GoesOn(b)
    BY <1>5, Revoking DEF GoesOn
  <2>2. CASE work[t].status \in Active
    <3>1. /\ t \in Tokens /\ MayWrite(a, t) /\ pc[a] = "revoke" /\ pc' = pc /\ user' = user
          /\ rows' = rows /\ lock'[t] = a
          /\ work'[t].status = "revoked" /\ work'[t].user = work[t].user
          /\ \A k \in Tokens \ {t} : work'[k] = work[k] /\ lock'[k] = lock[k]
      BY <1>5, <2>0, <2>2, Revoking
    <3>2. rows[t].user = user[a]
      BY <2>0, <3>1 DEF Locking, Chosen
    <3>3. work[t] = rows[t]
      BY <2>2, <3>1 DEF MayWrite, Locking, Held, Holds, Revokes, Active
    <3>4. Holds(a, t)'
      BY <3>1, <3>2, <3>3, <2>2 DEF Holds, Revokes
    <3>5. \A k \in Tokens \ {t} : lock[k] = a => Holds(a, k)'
      BY <2>1, <3>1, HoldsStill DEF Locking, Held
    <3>6. Held' /\ ((pc'[a] = "commit" => InsertsOne(a)') => MintsOne')
      BY <2>1, <3>1, <3>4, <3>5, LockingWrite
    <3> QED
      BY <3>1, <3>6
  <2>3. CASE work[t].status \notin Active
    BY <1>5, <2>0, <2>1, <2>3, Revoking, LockingQuiet DEF tables
  <2> QED
    BY <2>2, <2>3
<1>6. ASSUME NEW a \in Tasks, SaveToken(a) PROVE Held' /\ MintsOne'
  <2>1. /\ pc[a] = "revoke" /\ pc'[a] = "commit" /\ \A b \in Tasks \ {a} : pc'[b] = pc[b]
        /\ rows' = rows /\ user' = user /\ cur' = cur
    BY <1>6, Saving DEF local
  <2>2. PICK t \in Tokens :
           /\ lock[t] = None /\ rows[t].status = "absent" /\ work[t].status = "absent"
           /\ lock'[t] = a
           /\ work'[t].status = "pending" /\ work'[t].user = user[a] /\ work'[t].plain
           /\ \A k \in Tokens \ {t} : work'[k] = work[k] /\ lock'[k] = lock[k]
    BY <1>6, Saving
  <2>3. \A b \in Tasks \ {a} : GoesOn(b)
    BY <2>1 DEF GoesOn
  <2>4. MayWrite(a, t)
    BY <2>2 DEF MayWrite
  <2>5. Holds(a, t)' /\ Mints(a, t)'
    BY <2>1, <2>2 DEF Holds, Mints
  <2>6. ASSUME NEW k \in Tokens \ {t}, lock[k] = a
        PROVE  Holds(a, k)' /\ ~Mints(a, k)'
    <3>1. work[k] = rows[k] \/ Revokes(a, k)
      BY <2>1, <2>6 DEF Locking, Held, Holds
    <3>2. rows'[k] = rows[k] /\ work'[k] = work[k]
      BY <2>1, <2>2
    <3> QED
      BY <2>1, <3>1, <3>2 DEF Holds, Revokes, Mints
  <2>7. InsertsOne(a)'
    BY <2>2, <2>5, <2>6 DEF InsertsOne
  <2>8. Held' /\ ((pc'[a] = "commit" => InsertsOne(a)') => MintsOne')
    BY <2>1, <2>2, <2>3, <2>4, <2>5, <2>6, LockingWrite
  <2> QED
    BY <2>7, <2>8
<1>7. ASSUME NEW a \in Tasks, MarkNotified(a) PROVE Held' /\ MintsOne'
  <2>0. PICK t \in Tokens : t = cur[a]
    BY <1>7, Marking
  <2>1. \A b \in Tasks : GoesOn(b)
    BY <1>7, Marking DEF GoesOn
  <2>2. CASE IsMailable(work[t])
    <3>1. /\ t \in Tokens /\ MayWrite(a, t) /\ pc[a] = "mark" /\ pc'[a] = "mail"
          /\ rows' = rows /\ lock'[t] = a
          /\ work'[t].status = "notified" /\ work'[t].user = work[t].user
          /\ \A k \in Tokens \ {t} : work'[k] = work[k] /\ lock'[k] = lock[k]
      BY <1>7, <2>0, <2>2, Marking
    <3>2. work[t] = rows[t]
      BY <2>2, <3>1 DEF MayWrite, IsMailable, Locking, Held, Holds, Marks
    <3>3. Holds(a, t)'
      BY <2>2, <3>1, <3>2 DEF Holds, Marks, IsMailable
    <3>4. \A k \in Tokens \ {t} : lock[k] = a => Holds(a, k)'
      BY <2>1, <3>1, HoldsStill DEF Locking, Held
    <3>5. Held' /\ ((pc'[a] = "commit" => InsertsOne(a)') => MintsOne')
      BY <2>1, <3>1, <3>3, <3>4, LockingWrite
    <3> QED
      BY <3>1, <3>5
  <2>3. CASE ~IsMailable(work[t])
    BY <1>7, <2>0, <2>1, <2>3, Marking, LockingQuiet DEF tables
  <2> QED
    BY <2>2, <2>3
<1>8. ASSUME NEW a \in Tasks, EndTask(a), CommitRows(Waits, a) \/ RollbackRows(Waits, a)
      PROVE  Held' /\ MintsOne'
  BY <1>8, LockingEnds
<1>9. ASSUME NEW a \in Tasks, MarkUsed(a) PROVE Held' /\ MintsOne'
  <2>1. CASE ~(RollbackRows(Waits, a) /\ EndTask(a))
    <3>0. PICK t \in Tokens : t = cur[a]
      BY <1>9 DEF MarkUsed, Typed, Busy
    <3>1. /\ t \in Tokens /\ MayWrite(a, t) /\ pc[a] = "use" /\ work[t].status = "notified"
          /\ pc'[a] = "password" /\ cur' = cur /\ user' = user
          /\ \A b \in Tasks \ {a} : pc'[b] = pc[b]
          /\ rows' = rows /\ lock'[t] = a
          /\ work'[t].status = "used" /\ work'[t].user = work[t].user
          /\ \A k \in Tokens \ {t} : work'[k] = work[k] /\ lock'[k] = lock[k]
      BY <1>9, <2>1, <3>0, Using DEF local
    <3>2. \A b \in Tasks \ {a} : GoesOn(b)
      BY <3>1 DEF GoesOn
    <3>3. t = cur'[a]
      BY <3>0, <3>1
    <3>4. \A k \in Tokens \ {t} : lock[k] # a
      BY <3>0, <3>1 DEF Locking, Held, Holds
    <3>5. work[t] = rows[t]
      BY <3>1 DEF MayWrite, Locking, Held, Holds
    <3>6. Holds(a, t)'
      BY <3>1, <3>3, <3>5 DEF Holds, Uses
    <3>7. Held' /\ ((pc'[a] = "commit" => InsertsOne(a)') => MintsOne')
      BY <3>1, <3>2, <3>4, <3>6, LockingWrite
    <3> QED
      BY <3>1, <3>7
  <2> QED
    BY <1>8, <2>1
<1>10. ASSUME NEW a \in Tasks,
              SavePassword(a) \/ Commit(a) \/ DeadlockVictim(a) \/ SendFails(a) \/ Abort(a)
       PROVE  Held' /\ MintsOne'
  BY <1>8, <1>10 DEF SavePassword, Commit, DeadlockVictim, SendFails, Abort
<1> QED
  BY <1>1, <1>2, <1>3, <1>4, <1>5, <1>6, <1>7, <1>9, <1>10 DEF Next, Step

\* It holds when nothing runs.
LEMMA LockingInit == Init => Locking
<1> SUFFICES ASSUME Init PROVE Locking
  OBVIOUS
<1>1. Typed
  BY TypedInit
<1>2. UsedOnce
  BY RowsAbsent DEF Init, UsedOnce, SingleUse, Unborn, UsedIsFinal, UseIsInHand, HandIsUse
<1>3. Kinds /\ MintsOne
  BY DEF Init, Kinds, MintsOne
<1>4. Held
  BY NoTaskIsNone DEF Init, Held
<1>5. Chosen
  BY NoneAssumption DEF Init, Chosen, Tokens
<1> QED
  BY <1>1, <1>2, <1>3, <1>4, <1>5 DEF Locking
-------------------------------------------------------------------------------
(* Whose tokens were revoked has a later one.                                *)

\* A token that counts, or has counted, for user u.
Counts(s, u) == rows[s].user = u /\ rows[s].status \in Active \cup {"used"}

\* A revocation commits together with the token that replaces the revoked one.
LEMMA SuccessorNext == Locking /\ RevokedHasSuccessor /\ [Next]_vars => RevokedHasSuccessor'
<1> SUFFICES ASSUME Locking, RevokedHasSuccessor, [Next]_vars,
                    NEW t \in Tokens, rows'[t].status = "revoked",
                    NEW u, u = rows'[t].user
             PROVE  \E s \in Tokens : Counts(s, u)'
  BY DEF RevokedHasSuccessor, Counts
<1>1. rows[t].status = "revoked" /\ rows[t].user = u => \E s \in Tokens : Counts(s, u)
  BY DEF RevokedHasSuccessor, Counts
<1>2. CASE rows' = rows
  BY <1>1, <1>2 DEF Counts
<1>3. ASSUME NEW a \in Tasks, CommitRows(Waits, a),
             pc[a] = "commit" \/ \A k \in Tokens : ~Revokes(a, k) \/ lock[k] # a
      PROVE  \E s \in Tokens : Counts(s, u)'
  <2>1. \A k \in Tokens : rows'[k] = IF lock[k] = a THEN work[k] ELSE rows[k]
    BY <1>3, Committed DEF Locking, Typed
  <2>2. \A k \in Tokens : lock[k] = a => Holds(a, k)
    BY DEF Locking, Held
  <2>3. ASSUME NEW s \in Tokens, Counts(s, u), ~Counts(s, u)'
        PROVE  lock[s] = a /\ Revokes(a, s)
    BY <2>1, <2>2, <2>3 DEF Counts, Holds, Marks, Mints, Uses, Active, IsMailable
  <2>4. CASE \E s \in Tokens : lock[s] = a /\ Revokes(a, s) /\ rows[s].user = u
    <3>1. user[a] = u /\ pc[a] = "commit"
      BY <1>3, <2>4 DEF Revokes
    <3>2. PICK m \in Tokens : lock[m] = a /\ Mints(a, m)
      BY <3>1 DEF Locking, MintsOne, InsertsOne
    <3>3. Counts(m, u)'
      BY <2>1, <3>1, <3>2 DEF Mints, Counts, Active
    <3> QED
      BY <3>3
  <2>5. CASE rows[t].status = "revoked" /\ rows[t].user = u
    <3>1. PICK s \in Tokens : Counts(s, u)
      BY <1>1, <2>5
    <3> QED
      BY <2>3, <2>4, <3>1 DEF Counts
  <2>6. CASE lock[t] = a /\ Revokes(a, t) /\ rows[t].user = u
    BY <2>4, <2>6
  <2> QED
    BY <2>1, <2>2, <2>5, <2>6 DEF Holds, Marks, Mints, Uses, Revokes
<1>4. ASSUME NEW a \in Tasks, SavePassword(a) PROVE \E s \in Tokens : Counts(s, u)'
  <2>1. CommitRows(Waits, a) /\ pc[a] = "password"
    BY <1>4 DEF SavePassword
  <2> QED
    BY <1>3, <2>1 DEF Locking, Held, Holds, Uses, Revokes
<1>5. ASSUME NEW a \in Tasks, Commit(a) PROVE \E s \in Tokens : Counts(s, u)'
  <2>1. CommitRows(Waits, a) /\ pc[a] \in {"commit", "mail"}
    BY <1>5 DEF Commit
  <2> QED
    BY <1>3, <2>1 DEF Locking, Held, Holds, Marks, Revokes, Active
<1>6. CASE UNCHANGED vars \/ Tick
  BY <1>2, <1>6 DEF vars, tables, Tick
<1>7. ASSUME NEW a \in Tasks, Step(a) \/ StartPoll(a) \/ SendFails(a) \/ Abort(a)
      PROVE  rows' = rows \/ SavePassword(a) \/ Commit(a)
  BY <1>7, Revoking, Saving, Marking, Using
  DEF Step, Locking, RollbackRows, NextRevoked, SendMail, StartPoll, SendFails, Abort,
      DeadlockVictim, tables
<1>8. ASSUME NEW a \in Tasks, NEW v \in Users, RequestReset(a, v) PROVE rows' = rows
  BY <1>8 DEF RequestReset, tables
<1>9. ASSUME NEW a \in Tasks, NEW k \in Tokens, CompleteReset(a, k) PROVE rows' = rows
  BY <1>9 DEF CompleteReset, tables
<1> QED
  BY <1>2, <1>4, <1>5, <1>6, <1>7, <1>8, <1>9 DEF Next

\* Requests of one user revoke each other's tokens, deadlock and are rolled back;
\* still nobody is left with revoked tokens only.
THEOREM RevokedIsReplaced == Spec => []RevokedHasSuccessor
<1>1. Init => Locking /\ RevokedHasSuccessor
  BY LockingInit, RowsAbsent DEF Init, RevokedHasSuccessor
<1>2. Locking /\ RevokedHasSuccessor /\ [Next]_vars => (Locking /\ RevokedHasSuccessor)'
  BY LockingNext, SuccessorNext
<1> QED
  BY <1>1, <1>2, PTL DEF Spec
-------------------------------------------------------------------------------
(* A user has no more usable tokens than requests overlap.                   *)

IsActive(t) == rows[t].status \in Active

\* f[t] is the request that inserted token t: it has revoked the active tokens it
\* had inserted for that user before, or is about to.
Minted(f) ==
    /\ \A t \in Tokens : IsActive(t) => f[t] \in Webs
    /\ \A s, t \in Tokens :
          IsActive(s) /\ IsActive(t) /\ rows[s].user = rows[t].user /\ f[s] = f[t] => s = t
    /\ \A a \in Tasks, t \in Tokens :
          pc[a] \in {"revoke", "commit"} /\ IsActive(t) /\ rows[t].user = user[a] /\ f[t] = a =>
             \/ pc[a] = "revoke" /\ (t \in todo[a] \/ cur[a] = t)
             \/ lock[t] = a /\ work[t].status = "revoked"
    /\ \A a \in Tasks, t \in Tokens : lock[t] = a /\ Mints(a, t) => f[t] = a

Minters == \E f \in [Tokens -> Webs \cup {None}] : Minted(f)

\* A step that commits nothing and inserts nothing.
LEMMA MintedQuiet ==
    ASSUME NEW f, Minted(f), rows' = rows,
           \A a \in Tasks, t \in Tokens :
              /\ pc'[a] \in {"revoke", "commit"} =>
                    IF pc'[a] = pc[a]
                      THEN /\ user'[a] = user[a]
                           /\ pc[a] = "revoke" /\ (t \in todo[a] \/ cur[a] = t) /\ IsActive(t) =>
                                 \/ t \in todo'[a] \/ cur'[a] = t
                                 \/ lock'[t] = a /\ work'[t].status = "revoked"
                      ELSE pc'[a] = "revoke" /\
                           (IsActive(t) /\ rows[t].user = user'[a] => t \in todo'[a])
              /\ lock[t] = a /\ work[t].status = "revoked" /\ pc[a] \in {"revoke", "commit"}
                 /\ pc'[a] = pc[a] => lock'[t] = a /\ work'[t].status = "revoked"
              /\ lock'[t] = a /\ Mints(a, t)' => lock[t] = a /\ Mints(a, t)
    PROVE  Minted(f)'
<1>1. \A t \in Tokens : IsActive(t)' <=> IsActive(t)
  BY DEF IsActive
<1>2. ASSUME NEW a \in Tasks, NEW t \in Tokens, pc'[a] \in {"revoke", "commit"}, IsActive(t),
             rows[t].user = user'[a], f[t] = a
      PROVE  \/ pc'[a] = "revoke" /\ (t \in todo'[a] \/ cur'[a] = t)
             \/ lock'[t] = a /\ work'[t].status = "revoked"
  <2>1. CASE pc'[a] = pc[a]
    BY <1>2, <2>1 DEF Minted
  <2>2. CASE pc'[a] # pc[a]
    BY <1>2, <2>2
  <2> QED
    BY <2>1, <2>2
<1> QED
  BY <1>1, <1>2 DEF Minted

\* A rollback, and a commit of what request a has revoked and inserted, a poll has
\* marked or a request used.
LEMMA MintedEnds ==
    ASSUME Locking, NEW f, Minted(f), NEW a \in Tasks, EndTask(a),
           CommitRows(Waits, a) \/ RollbackRows(Waits, a)
    PROVE  Minted(f)'
<1>1. /\ pc'[a] = "idle"
      /\ \A b \in Tasks \ {a} : /\ pc'[b] = pc[b] /\ cur'[b] = cur[b]
                                /\ user'[b] = user[b] /\ todo'[b] = todo[b]
  BY Ended DEF Locking
<1>2. /\ \A k \in Tokens : lock[k] # a =>
            rows'[k] = rows[k] /\ work'[k] = work[k] /\ lock'[k] = lock[k]
      /\ \A k \in Tokens : lock[k] = a =>
            /\ work'[k] = rows'[k] /\ rows'[k] \in {rows[k], work[k]}
            /\ rows'[k] = rows[k] \/ CommitRows(Waits, a)
            /\ lock'[k] = None \/ (lock'[k] # a /\ AwaitsRow(lock'[k], k))
  BY Committed, RolledBack DEF Locking, Typed
<1>3. ASSUME NEW t \in Tokens, IsActive(t)'
      PROVE  \/ IsActive(t) /\ rows'[t].user = rows[t].user
             \/ lock[t] = a /\ Mints(a, t) /\ pc[a] = "commit" /\ CommitRows(Waits, a)
                /\ rows'[t].user = user[a]
  <2>1. rows'[t] = rows[t] \/ (lock[t] = a /\ rows'[t] = work[t] /\ CommitRows(Waits, a))
    BY <1>2
  <2>2. lock[t] = a => Holds(a, t)
    BY DEF Locking, Held
  <2> QED
    BY <1>3, <2>1, <2>2
    DEF IsActive, Holds, Revokes, Marks, Mints, Uses, Active, IsMailable
<1>4. ASSUME NEW s \in Tokens, IsActive(s), IsActive(s)', rows'[s].user = user[a], f[s] = a,
             CommitRows(Waits, a), pc[a] = "commit"
      PROVE  FALSE
  <2>1. rows[s].user = user[a]
    BY <1>3, <1>4 DEF IsActive, Mints, Active
  <2>2. lock[s] = a /\ work[s].status = "revoked"
    BY <1>4, <2>1 DEF Minted
  <2>3. rows'[s] = work[s]
    BY <1>4, <2>2, Committed DEF Locking, Typed
  <2> QED
    BY <1>4, <2>2, <2>3 DEF IsActive, Active
<1>5. ASSUME NEW s \in Tokens, NEW t \in Tokens, IsActive(s)', IsActive(t)',
             rows'[s].user = rows'[t].user, f[s] = f[t]
      PROVE  s = t
  <2>1. CASE IsActive(s) /\ IsActive(t)
    BY <1>3, <1>5, <2>1 DEF Minted, IsActive, Mints, Active
  <2>2. CASE ~IsActive(s) /\ ~IsActive(t)
    BY <1>3, <1>5, <2>2 DEF Locking, MintsOne, InsertsOne
  <2>3. CASE IsActive(s) /\ ~IsActive(t)
    BY <1>3, <1>4, <1>5, <2>3 DEF Minted
  <2>4. CASE ~IsActive(s) /\ IsActive(t)
    BY <1>3, <1>4, <1>5, <2>4 DEF Minted
  <2> QED
    BY <2>1, <2>2, <2>3, <2>4
<1>6. \A t \in Tokens : IsActive(t)' => f[t] \in Webs
  BY <1>3 DEF Minted, Locking, Kinds
<1>7. ASSUME NEW b \in Tasks, NEW t \in Tokens, pc'[b] \in {"revoke", "commit"}, IsActive(t)',
             rows'[t].user = user'[b], f[t] = b
      PROVE  \/ pc'[b] = "revoke" /\ (t \in todo'[b] \/ cur'[b] = t)
             \/ lock'[t] = b /\ work'[t].status = "revoked"
  <2>1. b # a
    BY <1>1, <1>7
  <2>2. IsActive(t) /\ rows'[t].user = rows[t].user
    BY <1>3, <1>7, <2>1 DEF Minted
  <2>3. lock[t] = b => work'[t] = work[t] /\ lock'[t] = b
    BY <1>2, <2>1
  <2>4. \/ pc[b] = "revoke" /\ (t \in todo[b] \/ cur[b] = t)
        \/ lock[t] = b /\ work[t].status = "revoked"
    <3>1. pc[b] \in {"revoke", "commit"} /\ IsActive(t) /\ rows[t].user = user[b] /\ f[t] = b
      BY <1>1, <1>7, <2>1, <2>2
    <3> QED
      BY <3>1 DEF Minted
  <2> QED
    BY <1>1, <2>1, <2>3, <2>4
<1>8. ASSUME NEW b \in Tasks, NEW t \in Tokens, lock'[t] = b, Mints(b, t)' PROVE f[t] = b
  <2>1. lock[t] # a
    BY <1>2, <1>8 DEF Mints
  <2>2. lock[t] = b /\ b # a /\ rows'[t] = rows[t] /\ work'[t] = work[t]
    BY <1>2, <1>8, <2>1
  <2> QED
    BY <1>1, <1>8, <2>2 DEF Minted, Mints
<1> QED
  BY <1>5, <1>6, <1>7, <1>8 DEF Minted

\* Whoever minted a token that can still be used is a request, and mints no second one
\* without revoking it: the function from tokens to requests is carried along.
LEMMA MintersNext == Locking /\ Minters /\ [Next]_vars => Minters'
<1> SUFFICES ASSUME Locking, NEW f \in [Tokens -> Webs \cup {None}], Minted(f), [Next]_vars
             PROVE  Minters'
  BY DEF Minters
<1> Typed /\ UsedOnce
  BY DEF Locking
<1>1. ASSUME Minted(f)' PROVE Minters'
  BY <1>1 DEF Minters
<1>2. CASE UNCHANGED vars \/ Tick
  BY <1>1, <1>2, MintedQuiet DEF vars, tables, local, Tick, Mints
<1>3. ASSUME NEW a \in Tasks, NextRevoked(a) PROVE Minters'
  <2>1. PICK k \in Tokens :
           /\ cur[a] = None /\ cur'[a] = k /\ todo'[a] = todo[a] \ {k}
           /\ \A b \in Tasks \ {a} : cur'[b] = cur[b] /\ todo'[b] = todo[b]
           /\ rows' = rows /\ work' = work /\ lock' = lock /\ pc' = pc /\ user' = user
    BY <1>3 DEF NextRevoked, tables, Typed, TypeOK
  <2>2. \A t \in Tokens : t # None
    BY NoneAssumption DEF Tokens
  <2>3. Minted(f)'
    BY <2>1, <2>2, MintedQuiet DEF Mints
  <2> QED
    BY <1>1, <2>3
<1>4. ASSUME NEW a \in Tasks, SendMail(a) \/ StartPoll(a) PROVE Minters'
  <2>1. /\ rows' = rows /\ work' = work /\ lock' = lock /\ user' = user
        /\ pc[a] \in {"idle", "mail"} /\ pc'[a] \in {"mail", "mark"}
        /\ \A b \in Tasks \ {a} : pc'[b] = pc[b] /\ todo'[b] = todo[b] /\ cur'[b] = cur[b]
    <3>1. CASE SendMail(a)
      BY <3>1 DEF SendMail, Goto, tables, Typed, TypeOK
    <3>2. CASE StartPoll(a)
      BY <3>2 DEF StartPoll, Goto, tables, Typed, TypeOK
    <3> QED
      BY <1>4, <3>1, <3>2
  <2>2. Minted(f)'
    BY <2>1, MintedQuiet DEF Mints
  <2> QED
    BY <1>1, <2>2
<1>5. ASSUME NEW a \in Tasks, NEW u \in Users, RequestReset(a, u) PROVE Minters'
  <2>1. /\ rows' = rows /\ work' = work /\ lock' = lock /\ cur' = cur
        /\ pc[a] = "idle" /\ pc'[a] = "revoke" /\ user'[a] = u
        /\ todo'[a] = {t \in Tokens : rows[t].user = u /\ IsActive(t)}
        /\ \A b \in Tasks \ {a} : /\ pc'[b] = pc[b] /\ user'[b] = user[b] /\ todo'[b] = todo[b]
    BY <1>5 DEF RequestReset, Goto, tables, IsActive, Typed, TypeOK
  <2>2. \A t \in Tokens : lock[t] # a
    BY <2>1 DEF Locking, Held, Holds
  <2> QED
    BY <1>1, <2>1, <2>2, MintedQuiet DEF Mints
<1>6. ASSUME NEW a \in Tasks, NEW t \in Tokens, CompleteReset(a, t) PROVE Minters'
  BY <1>1, <1>6, MintedQuiet DEF CompleteReset, Goto, tables, Mints, Typed, TypeOK
<1>7. ASSUME NEW a \in Tasks, RevokeRow(a) PROVE Minters'
  <2>1. PICK k \in Tokens : k = cur[a]
    BY <1>7, Revoking
  <2>2. /\ MayWrite(a, k) /\ pc[a] = "revoke" /\ pc' = pc /\ user' = user /\ todo' = todo
        /\ rows' = rows /\ \A b \in Tasks \ {a} : cur'[b] = cur[b]
        /\ \A t \in Tokens \ {k} : work'[t] = work[t] /\ lock'[t] = lock[t]
        /\ work[k].status \in Active => lock'[k] = a /\ work'[k].status = "revoked"
        /\ work[k].status \notin Active => work'[k] = work[k] /\ lock'[k] = lock[k]
    BY <1>7, <2>1, Revoking
  <2>3. IsActive(k) => lock'[k] = a /\ work'[k].status = "revoked"
    BY <2>2 DEF MayWrite, Locking, Held, Holds, Revokes, IsActive
  <2>4. ASSUME NEW b \in Tasks, NEW t \in Tokens
        PROVE  /\ (t \in todo[b] \/ cur[b] = t) /\ IsActive(t) =>
                     \/ t \in todo'[b] \/ cur'[b] = t
                     \/ lock'[t] = b /\ work'[t].status = "revoked"
               /\ lock[t] = b /\ work[t].status = "revoked" =>
                     lock'[t] = b /\ work'[t].status = "revoked"
               /\ lock'[t] = b /\ Mints(b, t)' => lock[t] = b /\ Mints(b, t)
    BY <2>1, <2>2, <2>3 DEF Mints, Active
  <2>5. Minted(f)'
    BY <2>2, <2>4, MintedQuiet
  <2> QED
    BY <1>1, <2>5
<1>8. ASSUME NEW a \in Tasks, SaveToken(a) PROVE Minters'
  <2>1. /\ pc[a] = "revoke" /\ todo[a] = {} /\ cur[a] = None
        /\ \A b \in Tasks \ {a} : pc'[b] = pc[b]
        /\ rows' = rows /\ user' = user /\ todo' = todo /\ cur' = cur
    BY <1>8, Saving DEF local
  <2>2. PICK k \in Tokens :
           /\ rows[k].status = "absent" /\ lock'[k] = a /\ work'[k].status = "pending"
           /\ \A t \in Tokens \ {k} : work'[t] = work[t] /\ lock'[t] = lock[t]
           /\ lock[k] = None
    BY <1>8, Saving
  <2> DEFINE g == [f EXCEPT ![k] = a]
  <2>3. /\ g[k] = a /\ \A t \in Tokens \ {k} : g[t] = f[t]
        /\ g \in [Tokens -> Webs \cup {None}]
    BY <2>1 DEF Locking, Kinds
  <2> HIDE DEF g
  <2>4. \A t \in Tokens : (IsActive(t)' <=> IsActive(t)) /\ (IsActive(t) => t # k)
    BY <2>1, <2>2 DEF IsActive, Active
  <2>5. \A t \in Tokens : t # None
    BY NoneAssumption DEF Tokens
  <2>6. ASSUME NEW b \in Tasks, NEW t \in Tokens, pc'[b] \in {"revoke", "commit"}, IsActive(t)',
               rows'[t].user = user'[b], g[t] = b
        PROVE  \/ pc'[b] = "revoke" /\ (t \in todo'[b] \/ cur'[b] = t)
               \/ lock'[t] = b /\ work'[t].status = "revoked"
    <3>1. t # k /\ IsActive(t) /\ rows[t].user = user[b] /\ f[t] = b
      BY <2>1, <2>3, <2>4, <2>6
    <3>2. pc[b] \in {"revoke", "commit"}
      BY <2>1, <2>6
    <3>3. \/ pc[b] = "revoke" /\ (t \in todo[b] \/ cur[b] = t)
          \/ lock[t] = b /\ work[t].status = "revoked"
      BY <3>1, <3>2 DEF Minted
    <3> QED
      BY <2>1, <2>2, <2>5, <3>1, <3>3
  <2>7. ASSUME NEW b \in Tasks, NEW t \in Tokens, lock'[t] = b, Mints(b, t)' PROVE g[t] = b
    BY <2>1, <2>2, <2>3, <2>7 DEF Minted, Mints
  <2>8. Minted(g)'
    <3>1. \A t \in Tokens : IsActive(t)' => g[t] \in Webs
      BY <2>3, <2>4 DEF Minted
    <3>2. \A s, t \in Tokens :
             IsActive(s)' /\ IsActive(t)' /\ rows'[s].user = rows'[t].user /\ g[s] = g[t] => s = t
      BY <2>1, <2>3, <2>4 DEF Minted
    <3> QED
      BY <2>6, <2>7, <3>1, <3>2 DEF Minted
  <2> QED
    BY <2>3, <2>8 DEF Minters
<1>9. ASSUME NEW a \in Tasks, MarkNotified(a) PROVE Minters'
  <2>1. PICK k \in Tokens : k = cur[a]
    BY <1>9, Marking
  <2>2. /\ MayWrite(a, k) /\ pc[a] = "mark" /\ pc'[a] = "mail" /\ user' = user /\ todo' = todo
        /\ rows' = rows /\ \A b \in Tasks \ {a} : pc'[b] = pc[b] /\ cur'[b] = cur[b]
        /\ \A t \in Tokens \ {k} : work'[t] = work[t] /\ lock'[t] = lock[t]
        /\ \/ lock'[k] = a /\ work'[k].status = "notified"
           \/ work' = work /\ lock' = lock
    BY <1>9, <2>1, Marking
  <2>3. Minted(f)'
    BY <2>2, NoTaskIsNone, MintedQuiet DEF Mints, MayWrite
  <2> QED
    BY <1>1, <2>3
<1>10. ASSUME NEW a \in Tasks, EndTask(a), CommitRows(Waits, a) \/ RollbackRows(Waits, a)
       PROVE  Minters'
  BY <1>1, <1>10, MintedEnds
<1>11. ASSUME NEW a \in Tasks, MarkUsed(a) PROVE Minters'
  <2>1. CASE ~(RollbackRows(Waits, a) /\ EndTask(a))
    <3>1. PICK k \in Tokens : k = cur[a]
      BY <1>11 DEF MarkUsed, Typed, Busy
    <3>2. /\ MayWrite(a, k) /\ pc[a] = "use" /\ pc'[a] = "password"
          /\ user' = user /\ todo' = todo /\ cur' = cur
          /\ rows' = rows /\ \A b \in Tasks \ {a} : pc'[b] = pc[b]
          /\ \A t \in Tokens \ {k} : work'[t] = work[t] /\ lock'[t] = lock[t]
          /\ lock'[k] = a /\ work'[k].status = "used"
      BY <1>11, <2>1, <3>1, Using DEF local
    <3>3. Minted(f)'
      BY <3>2, NoTaskIsNone, MintedQuiet DEF Mints, MayWrite
    <3> QED
      BY <1>1, <3>3
  <2> QED
    BY <1>10, <2>1
<1>12. ASSUME NEW a \in Tasks,
              SavePassword(a) \/ Commit(a) \/ DeadlockVictim(a) \/ SendFails(a) \/ Abort(a)
       PROVE  Minters'
  BY <1>10, <1>12 DEF SavePassword, Commit, DeadlockVictim, SendFails, Abort
<1> QED
  BY <1>2, <1>3, <1>4, <1>5, <1>6, <1>7, <1>8, <1>9, <1>11, <1>12 DEF Next, Step

\* Whoever can be told apart by an owner is no more than the owners.
LEMMA DistinctOwners ==
    ASSUME NEW S, NEW T, IsFiniteSet(T), NEW f,
           \A x \in S : f[x] \in T, \A x, y \in S : f[x] = f[y] => x = y
    PROVE  Cardinality(S) <= Cardinality(T)
<1> DEFINE g == [x \in S |-> f[x]]
<1>1. g \in [S -> T] /\ \A x, y \in S : g[x] = g[y] => x = y
  OBVIOUS
<1> HIDE DEF g
<1>2. g \in Injection(S, T)
  BY <1>1 DEF Injection, IsInjective
<1> QED
  BY <1>2, FS_Injection

\* However requests of one user interleave with each other, with polls and with
\* faults, no more tokens of the user are usable than requests can overlap.
THEOREM UsableTokensBounded == Spec => []ActiveTokensOverlap
<1>1. Init => Locking /\ Minters
  <2> SUFFICES ASSUME Init PROVE Minters
    BY LockingInit
  <2> DEFINE f == [t \in Tokens |-> None]
  <2>1. \A t \in Tokens : ~IsActive(t) /\ lock[t] = None
    BY RowsAbsent DEF Init, IsActive, Active
  <2>2. Minted(f)
    BY <2>1, NoTaskIsNone DEF Minted
  <2> HIDE DEF f
  <2>3. f \in [Tokens -> Webs \cup {None}]
    BY DEF f
  <2> QED
    BY <2>2, <2>3 DEF Minters
<1>2. Locking /\ Minters /\ [Next]_vars => (Locking /\ Minters)'
  BY LockingNext, MintersNext
<1>3. Minters => ActiveTokensOverlap
  <2> SUFFICES ASSUME NEW f, Minted(f), NEW u \in Users
               PROVE  Cardinality({t \in Tokens : rows[t].user = u /\ rows[t].status \in Active})
                         <= Cardinality(Webs)
    BY DEF Minters, ActiveTokensOverlap
  <2> DEFINE S == {t \in Tokens : rows[t].user = u /\ rows[t].status \in Active}
  <2>1. /\ \A t \in S : f[t] \in Webs
        /\ \A s, t \in S : f[s] = f[t] => s = t
    BY DEF Minted, IsActive
  <2> HIDE DEF S
  <2> Cardinality(S) <= Cardinality(Webs)
    BY <2>1, DistinctOwners, FiniteAssumption
  <2> QED
    BY DEF S
<1> QED
  BY <1>1, <1>2, <1>3, PTL DEF Spec
-------------------------------------------------------------------------------
(* The mails of a token are paid for.                                        *)

\* Polls that have mailed token t and not committed its mark, and those that have
\* it on their list.
Mailers(t) ==
    {p \in Pollers : (pc[p] = "mark" /\ cur[p] = t) \/ (lock[t] = p /\ ~IsMailable(work[t]))}

Listers(t) == {p \in Pollers : t \in todo[p]}

\* While a token can still be mailed, only the polls that are about to commit a mark
\* are not paid for by a fault; later, each poll that lists it may mail it once.
PaidFor(t) ==
    /\ IsMailable(rows[t]) => mails[t] <= Cardinality(Mailers(t)) + aborts
    /\ ~IsMailable(rows[t]) => mails[t] + Cardinality(Listers(t)) <= Cardinality(Pollers) + aborts
    /\ Mailers(t) \cap Listers(t) = {}
    /\ rows[t].status = "absent" => mails[t] = 0 /\ Mailers(t) = {} /\ Listers(t) = {}

Paid == \A t \in Tokens : PaidFor(t)

\* Arithmetic of sets of polls.
LEMMA CountedPollers ==
    ASSUME NEW M, NEW L, M \subseteq Pollers, L \subseteq Pollers
    PROVE  /\ Cardinality(M) \in Nat /\ Cardinality(Pollers) \in Nat
           /\ Cardinality(M) <= Cardinality(Pollers)
           /\ M \subseteq L => Cardinality(M) <= Cardinality(L)
           /\ \A p : M \ {p} \subseteq L => Cardinality(M) <= Cardinality(L) + 1
           /\ \A p : p \in L /\ M \subseteq L \ {p} => Cardinality(M) < Cardinality(L)
           /\ M \cap L = {} => Cardinality(M) + Cardinality(L) <= Cardinality(Pollers)
<1>1. /\ IsFiniteSet(Pollers) /\ IsFiniteSet(M) /\ IsFiniteSet(L)
      /\ Cardinality(M) \in Nat /\ Cardinality(L) \in Nat /\ Cardinality(Pollers) \in Nat
      /\ Cardinality(M) <= Cardinality(Pollers)
  BY FiniteAssumption, FS_Subset, FS_CardinalityType
<1>2. M \subseteq L => Cardinality(M) <= Cardinality(L)
  BY <1>1, FS_Subset
<1>3. ASSUME NEW p, M \ {p} \subseteq L PROVE Cardinality(M) <= Cardinality(L) + 1
  <2>1. Cardinality(M \ {p}) <= Cardinality(L)
    BY <1>1, <1>3, FS_Subset
  <2>2. Cardinality(M \ {p}) \in {Cardinality(M), Cardinality(M) - 1}
    BY <1>1, FS_RemoveElement
  <2> QED
    BY <1>1, <2>1, <2>2
<1>4. ASSUME NEW p, p \in L, M \subseteq L \ {p} PROVE Cardinality(M) < Cardinality(L)
  <2>1. IsFiniteSet(L \ {p}) /\ Cardinality(L \ {p}) = Cardinality(L) - 1
    BY <1>1, <1>4, FS_RemoveElement
  <2>2. Cardinality(M) <= Cardinality(L \ {p})
    BY <1>4, <2>1, FS_Subset
  <2> QED
    BY <1>1, <2>1, <2>2
<1>5. ASSUME M \cap L = {} PROVE Cardinality(M) + Cardinality(L) <= Cardinality(Pollers)
  <2>1. Cardinality(M \cup L) = Cardinality(M) + Cardinality(L) - Cardinality(M \cap L)
    BY <1>1, FS_Union
  <2>2. Cardinality(M \cap L) = 0
    BY <1>5, FS_EmptySet
  <2>3. Cardinality(M \cup L) <= Cardinality(Pollers)
    BY <1>1, FS_Subset
  <2> QED
    BY <1>1, <2>1, <2>2, <2>3
<1> QED
  BY <1>1, <1>2, <1>3, <1>4, <1>5

\* A step that mails nothing, or adds a fault.
LEMMA PaidStep ==
    ASSUME Locking, Locking', NEW t \in Tokens, PaidFor(t),
           mails'[t] + aborts <= mails[t] + aborts',
           IsMailable(rows'[t]) =>
              \/ rows[t].status = "absent" /\ mails'[t] = 0
              \/ IsMailable(rows[t]) /\ Mailers(t) \subseteq Mailers(t)'
              \/ /\ IsMailable(rows[t]) /\ mails'[t] + aborts < mails[t] + aborts'
                 /\ \E p \in Pollers : Mailers(t) \ {p} \subseteq Mailers(t)',
           ~IsMailable(rows'[t]) => Listers(t)' \subseteq Listers(t),
           Mailers(t)' \cap Listers(t)' = {},
           rows'[t].status = "absent" =>
              rows[t].status = "absent" /\ mails'[t] = 0 /\ Mailers(t)' = {} /\ Listers(t)' = {}
    PROVE  PaidFor(t)'
<1>1. /\ mails[t] \in Nat /\ mails'[t] \in Nat /\ aborts \in Nat /\ aborts' \in Nat
  BY DEF Locking, Typed, TypeOK
<1>2. /\ Mailers(t) \subseteq Pollers /\ Mailers(t)' \subseteq Pollers
      /\ Listers(t) \subseteq Pollers /\ Listers(t)' \subseteq Pollers
  BY DEF Mailers, Listers
<1>3. /\ Cardinality(Mailers(t)) \in Nat /\ Cardinality(Mailers(t)') \in Nat
      /\ Cardinality(Listers(t)) \in Nat /\ Cardinality(Listers(t)') \in Nat
      /\ Cardinality(Pollers) \in Nat
      /\ Mailers(t) \subseteq Mailers(t)' => Cardinality(Mailers(t)) <= Cardinality(Mailers(t)')
      /\ \A p : Mailers(t) \ {p} \subseteq Mailers(t)' =>
                   Cardinality(Mailers(t)) <= Cardinality(Mailers(t)') + 1
      /\ Listers(t)' \subseteq Listers(t) => Cardinality(Listers(t)') <= Cardinality(Listers(t))
      /\ Mailers(t) \cap Listers(t) = {} =>
            Cardinality(Mailers(t)) + Cardinality(Listers(t)) <= Cardinality(Pollers)
  BY <1>2, CountedPollers
<1>4. ASSUME IsMailable(rows'[t]) PROVE mails'[t] <= Cardinality(Mailers(t)') + aborts'
  BY <1>1, <1>3, <1>4 DEF PaidFor
<1>5. ASSUME ~IsMailable(rows'[t])
      PROVE  mails'[t] + Cardinality(Listers(t)') <= Cardinality(Pollers) + aborts'
  <2>1. mails[t] + Cardinality(Listers(t)) <= Cardinality(Pollers) + aborts
    BY <1>1, <1>3 DEF PaidFor
  <2> QED
    BY <1>1, <1>3, <1>5, <2>1
<1> QED
  BY <1>4, <1>5 DEF PaidFor

\* A step of a request, which leaves the polls alone.
LEMMA PaidQuiet ==
    ASSUME Locking, Locking', Paid, UNCHANGED <<rows, mails, aborts>>,
           \A p \in Pollers : pc'[p] = pc[p] /\ cur'[p] = cur[p] /\ todo'[p] = todo[p],
           \A t \in Tokens : \/ work'[t] = work[t] /\ lock'[t] = lock[t]
                             \/ lock[t] \notin Pollers /\ lock'[t] \notin Pollers
    PROVE  Paid'
<1> SUFFICES ASSUME NEW t \in Tokens PROVE PaidFor(t)'
  BY DEF Paid
<1>1. Mailers(t)' = Mailers(t) /\ Listers(t)' = Listers(t)
  BY DEF Mailers, Listers
<1> QED
  BY <1>1 DEF Paid, PaidFor

\* The end of a transaction: what it has marked is committed, or a fault pays for
\* the mails it was going to send again.
LEMMA PaidEnds ==
    ASSUME Locking, Locking', Paid, NEW a \in Tasks, EndTask(a),
           \/ CommitRows(Waits, a) /\ mails' = mails /\ aborts' = aborts /\ pc[a] # "mark"
           \/ /\ RollbackRows(Waits, a) /\ aborts' = aborts + 1
              /\ \A t \in Tokens : mails'[t] = mails[t] \/
                    (mails'[t] = mails[t] + 1 /\ a \in Listers(t))
           \/ RollbackRows(Waits, a) /\ mails' = mails /\ aborts' = aborts /\ a \in Webs
    PROVE  Paid'
<1> SUFFICES ASSUME NEW t \in Tokens PROVE PaidFor(t)'
  BY DEF Paid
<1>1. /\ pc'[a] = "idle" /\ cur'[a] = None /\ todo'[a] = {}
      /\ \A b \in Tasks \ {a} : pc'[b] = pc[b] /\ cur'[b] = cur[b] /\ todo'[b] = todo[b]
  BY Ended DEF Locking
<1>2. /\ lock[t] # a =>
            rows'[t] = rows[t] /\ work'[t] = work[t] /\ lock'[t] = lock[t]
      /\ lock[t] = a =>
            /\ work'[t] = rows'[t]
            /\ lock'[t] = None \/ (lock'[t] # a /\ AwaitsRow(lock'[t], t))
            /\ RollbackRows(Waits, a) => rows'[t] = rows[t]
            /\ CommitRows(Waits, a) => rows'[t] = work[t]
            /\ Holds(a, t)
  BY Committed, RolledBack DEF Locking, Typed, Held
<1>3. /\ mails[t] \in Nat /\ mails'[t] \in Nat /\ aborts \in Nat /\ aborts' \in Nat
      /\ Pollers \subseteq Tasks /\ None \notin Tasks /\ (a \in Webs => a \notin Pollers)
  BY TasksAssumption, NoTaskIsNone DEF Locking, Typed, TypeOK
<1>4. Mailers(t)' \subseteq Mailers(t)
  <2> SUFFICES ASSUME NEW p \in Pollers,
                      \/ pc'[p] = "mark" /\ cur'[p] = t
                      \/ lock'[t] = p /\ ~IsMailable(work'[t])
               PROVE  p \in Mailers(t)
    BY DEF Mailers
  <2>1. CASE pc'[p] = "mark" /\ cur'[p] = t
    BY <1>1, <1>3, <2>1 DEF Mailers
  <2>2. CASE lock'[t] = p /\ lock[t] = a
    <3>1. pc[p] = "mark" /\ cur[p] = t
      BY <1>2, <1>3, <2>2, TasksAssumption DEF AwaitsRow, Locking, Kinds
    <3> QED
      BY <3>1 DEF Mailers
  <2>3. CASE lock'[t] = p /\ ~IsMailable(work'[t]) /\ lock[t] # a
    BY <1>2, <2>3 DEF Mailers
  <2> QED
    BY <2>1, <2>2, <2>3
<1>5. Mailers(t) \ {a} \subseteq Mailers(t)'
  BY <1>1, <1>2, <1>3 DEF Mailers
<1>6. Listers(t)' \subseteq Listers(t)
  BY <1>1, <1>3 DEF Listers
<1>7. mails'[t] + aborts <= mails[t] + aborts'
  BY <1>3
<1>8. ASSUME rows'[t].status = "absent"
      PROVE  rows[t].status = "absent" /\ mails'[t] = 0 /\ Mailers(t)' = {} /\ Listers(t)' = {}
  <2>1. rows[t].status = "absent"
    BY <1>8, RowsKept, RolledBack DEF Locking, Typed
  <2>2. mails[t] = 0 /\ Mailers(t) = {} /\ Listers(t) = {}
    BY <2>1 DEF Paid, PaidFor
  <2> QED
    BY <1>4, <1>6, <2>1, <2>2
<1>9. ASSUME IsMailable(rows'[t])
      PROVE  \/ rows[t].status = "absent" /\ mails'[t] = 0
             \/ IsMailable(rows[t]) /\ Mailers(t) \subseteq Mailers(t)'
             \/ /\ IsMailable(rows[t]) /\ mails'[t] + aborts < mails[t] + aborts'
                /\ \E p \in Pollers : Mailers(t) \ {p} \subseteq Mailers(t)'
  <2>1. a \notin Mailers(t) => Mailers(t) \subseteq Mailers(t)'
    BY <1>5
  <2>2. Mailers(t) \subseteq Pollers
    BY DEF Mailers
  <2>3. CASE CommitRows(Waits, a) /\ mails' = mails /\ pc[a] # "mark"
    <3>1. CASE lock[t] = a
      <4>1. work[t] = rows[t] \/ Mints(a, t)
        BY <1>2, <1>9, <2>3, <3>1 DEF Holds, Revokes, Marks, Uses, IsMailable
      <4>2. IsMailable(work[t])
        BY <1>2, <1>9, <2>3, <3>1
      <4>3. a \notin Mailers(t)
        BY <2>3, <4>2 DEF Mailers
      <4>4. rows[t].status = "absent" => mails[t] = 0
        BY DEF Paid, PaidFor
      <4> QED
        BY <2>1, <2>3, <4>1, <4>2, <4>3, <4>4 DEF Mints
    <3>2. CASE lock[t] # a
      BY <1>2, <1>9, <2>1, <2>3, <3>2 DEF Mailers
    <3> QED
      BY <3>1, <3>2
  <2>4. CASE /\ RollbackRows(Waits, a) /\ aborts' = aborts + 1
             /\ mails'[t] = mails[t] \/ (mails'[t] = mails[t] + 1 /\ a \in Listers(t))
    <3>1. IsMailable(rows[t])
      BY <1>2, <1>9, <2>4
    <3>2. CASE a \in Mailers(t)
      <4>1. mails'[t] = mails[t] /\ a \in Pollers
        BY <2>2, <2>4, <3>2 DEF Paid, PaidFor
      <4> QED
        BY <1>3, <1>5, <2>4, <3>1, <4>1
    <3>3. CASE a \notin Mailers(t)
      BY <2>1, <3>1, <3>3
    <3> QED
      BY <3>2, <3>3
  <2>5. CASE RollbackRows(Waits, a) /\ a \in Webs
    BY <1>2, <1>3, <1>9, <2>1, <2>2, <2>5
  <2> QED
    BY <2>3, <2>4, <2>5
<1>10. Mailers(t) \cap Listers(t) = {} /\ PaidFor(t)
  BY DEF Paid, PaidFor
<1> HIDE DEF Mailers, Listers
<1> QED
  BY <1>4, <1>6, <1>7, <1>8, <1>9, <1>10, PaidStep

\* A poll mails the next token of its list.
LEMMA PaidSend ==
    ASSUME Locking, Locking', Paid, NEW a \in Tasks, SendMail(a)
    PROVE  Paid'
<1>1. PICK k \in Tokens :
         /\ k \in todo[a] /\ todo'[a] = todo[a] \ {k} /\ cur'[a] = k
         /\ mails' = [mails EXCEPT ![k] = @ + 1]
         /\ \A b \in Tasks \ {a} : pc'[b] = pc[b] /\ cur'[b] = cur[b] /\ todo'[b] = todo[b]
         /\ pc[a] = "mail" /\ pc'[a] = "mark"
         /\ rows' = rows /\ work' = work /\ lock' = lock /\ aborts' = aborts
  BY DEF SendMail, Goto, tables, Locking, Typed, TypeOK
<1>2. a \in Pollers /\ Pollers \subseteq Tasks
  BY <1>1, TasksAssumption DEF Locking, Kinds
<1>3. ASSUME NEW t \in Tokens, t # k PROVE PaidFor(t)'
  <2>1. mails'[t] = mails[t]
    BY <1>1, <1>3 DEF Locking, Typed, TypeOK
  <2>2. Mailers(t) \subseteq Mailers(t)' /\ Mailers(t)' \subseteq Mailers(t)
    BY <1>1, <1>2, <1>3 DEF Mailers
  <2>3. Listers(t)' = Listers(t)
    BY <1>1, <1>2, <1>3 DEF Listers
  <2>4. Mailers(t)' = Mailers(t)
    BY <2>2
  <2> QED
    BY <1>1, <2>1, <2>3, <2>4 DEF Paid, PaidFor
<1>4. PaidFor(k)'
  <2>1. a \in Listers(k) /\ a \notin Mailers(k) /\ PaidFor(k)
    BY <1>1, <1>2 DEF Listers, Paid, PaidFor
  <2>2. a \in Mailers(k)' /\ Mailers(k) \subseteq Mailers(k)' \ {a}
    BY <1>1, <1>2, <2>1 DEF Mailers
  <2>3. Mailers(k)' \subseteq Mailers(k) \cup {a}
    BY <1>1, <1>2 DEF Mailers
  <2>4. Listers(k)' \subseteq Listers(k) \ {a}
    BY <1>1, <1>2 DEF Listers
  <2>5. /\ Cardinality(Mailers(k)) < Cardinality(Mailers(k)')
        /\ Cardinality(Listers(k)') < Cardinality(Listers(k))
        /\ Cardinality(Mailers(k)) \in Nat /\ Cardinality(Mailers(k)') \in Nat
        /\ Cardinality(Listers(k)) \in Nat /\ Cardinality(Listers(k)') \in Nat
        /\ Cardinality(Pollers) \in Nat
    <3>1. /\ Mailers(k) \subseteq Pollers /\ Mailers(k)' \subseteq Pollers
          /\ Listers(k) \subseteq Pollers /\ Listers(k)' \subseteq Pollers
      BY DEF Mailers, Listers
    <3> QED
      BY <2>1, <2>2, <2>4, <3>1, CountedPollers
  <2>6. mails'[k] = mails[k] + 1 /\ mails[k] \in Nat /\ aborts \in Nat
    BY <1>1 DEF Locking, Typed, TypeOK
  <2>7. rows'[k].status # "absent" /\ rows[k].status # "absent"
    BY <1>1 DEF Locking, Chosen
  <2>8. Mailers(k)' \cap Listers(k)' = {}
    BY <2>1, <2>3, <2>4 DEF PaidFor
  <2>9. IsMailable(rows[k]) => mails'[k] <= Cardinality(Mailers(k)') + aborts
    BY <2>1, <2>5, <2>6 DEF PaidFor
  <2>10. ~IsMailable(rows[k]) => mails'[k] + Cardinality(Listers(k)') <= Cardinality(Pollers) + aborts
    BY <2>1, <2>5, <2>6 DEF PaidFor
  <2> QED
    BY <1>1, <2>7, <2>8, <2>9, <2>10 DEF PaidFor
<1> QED
  BY <1>3, <1>4 DEF Paid

\* A poll marks the token it has mailed, or finds that it was revoked meanwhile.
LEMMA PaidMark ==
    ASSUME Locking, Locking', Paid, NEW a \in Tasks, MarkNotified(a)
    PROVE  Paid'
<1>1. PICK k \in Tokens : k = cur[a]
  BY Marking DEF Locking
<1>2. /\ MayWrite(a, k) /\ pc[a] = "mark" /\ pc'[a] = "mail"
      /\ \A b \in Tasks \ {a} : pc'[b] = pc[b] /\ cur'[b] = cur[b]
      /\ rows' = rows /\ mails' = mails /\ aborts' = aborts /\ todo' = todo
      /\ \A t \in Tokens \ {k} : work'[t] = work[t] /\ lock'[t] = lock[t]
      /\ IsMailable(work[k]) => lock'[k] = a /\ work'[k].status = "notified"
      /\ ~IsMailable(work[k]) => work'[k] = work[k] /\ lock'[k] = lock[k]
  BY <1>1, Marking DEF Locking, world
<1>3. a \in Pollers /\ Pollers \subseteq Tasks /\ None \notin Tasks
  BY <1>2, TasksAssumption, NoTaskIsNone DEF Locking, Kinds
<1>4. ASSUME NEW t \in Tokens PROVE PaidFor(t)'
  <2>1. Listers(t)' = Listers(t)
    BY <1>2 DEF Listers
  <2>2. Mailers(t)' \subseteq Mailers(t)
    BY <1>1, <1>2, <1>3 DEF Mailers
  <2>3. IsMailable(rows[t]) => Mailers(t) \subseteq Mailers(t)'
    <3>1. CASE t # k
      BY <1>1, <1>2, <1>3, <3>1 DEF Mailers
    <3>2. CASE t = k /\ IsMailable(work[k])
      BY <1>1, <1>2, <1>3, <3>2 DEF Mailers, IsMailable, MayWrite
    <3>3. CASE t = k /\ ~IsMailable(work[k])
      <4>1. IsMailable(rows[k]) => lock[k] = a
        BY <1>2, <3>3 DEF MayWrite, Locking, Held
      <4> QED
        BY <1>1, <1>2, <1>3, <3>3, <4>1 DEF Mailers
    <3> QED
      BY <3>1, <3>2, <3>3
  <2>4. mails[t] \in Nat /\ aborts \in Nat /\ PaidFor(t)
    BY DEF Locking, Typed, TypeOK, Paid
  <2> QED
    BY <1>2, <2>1, <2>2, <2>3, <2>4, PaidStep DEF PaidFor
<1> QED
  BY <1>4 DEF Paid

\* A poll lists tokens: it has mailed none of them.
LEMMA PaidStart ==
    ASSUME Locking, Locking', Paid, NEW a \in Tasks, StartPoll(a)
    PROVE  Paid'
<1>1. /\ a \in Pollers /\ pc[a] = "idle" /\ pc'[a] = "mail"
      /\ \A b \in Tasks \ {a} : pc'[b] = pc[b] /\ todo'[b] = todo[b]
      /\ rows' = rows /\ work' = work /\ lock' = lock /\ cur' = cur
      /\ mails' = mails /\ aborts' = aborts
      /\ \A t \in todo'[a] : t \in Tokens /\ IsMailable(rows[t])
  BY DEF StartPoll, Goto, IsPage, tables, world, Locking, Typed, TypeOK
<1>2. Pollers \subseteq Tasks
  BY TasksAssumption
<1>3. ASSUME NEW t \in Tokens PROVE PaidFor(t)'
  <2>1. Mailers(t)' = Mailers(t) /\ a \notin Mailers(t)
    BY <1>1, <1>2 DEF Mailers, Locking, Held, Holds
  <2>2. Listers(t)' \subseteq Listers(t) \cup {a}
    BY <1>1, <1>2 DEF Listers
  <2>3. ~IsMailable(rows[t]) => Listers(t)' \subseteq Listers(t)
    BY <1>1, <1>2 DEF Listers
  <2>4. mails[t] \in Nat /\ aborts \in Nat /\ PaidFor(t)
    BY DEF Locking, Typed, TypeOK, Paid
  <2>5. rows[t].status = "absent" => ~IsMailable(rows[t])
    BY DEF IsMailable
  <2> QED
    BY <1>1, <2>1, <2>2, <2>3, <2>4, <2>5, PaidStep DEF PaidFor
<1> QED
  BY <1>3 DEF Paid

\* Each mail beyond the first is paid for by an abort, or belongs to a poll that has
\* not committed its mark yet.
LEMMA PaidNext == Locking /\ Paid /\ [Next]_vars => Paid'
<1> SUFFICES ASSUME Locking, Locking', Paid, [Next]_vars PROVE Paid'
  BY LockingNext
<1> Typed /\ UsedOnce /\ Kinds
  BY DEF Locking
<1>0. Pollers \cap Webs = {} /\ None \notin Pollers /\ Pollers \subseteq Tasks
  BY TasksAssumption, NoTaskIsNone
<1>1. CASE UNCHANGED vars \/ Tick
  BY <1>1, PaidQuiet DEF vars, tables, world, local, Tick
<1>2. ASSUME NEW a \in Tasks, NextRevoked(a) PROVE Paid'
  BY <1>0, <1>2, PaidQuiet DEF NextRevoked, tables, world, Kinds, Typed, TypeOK
<1>3. ASSUME NEW a \in Tasks, NEW u \in Users, RequestReset(a, u) PROVE Paid'
  BY <1>0, <1>3, PaidQuiet DEF RequestReset, Goto, tables, world, Typed, TypeOK
<1>4. ASSUME NEW a \in Tasks, NEW t \in Tokens, CompleteReset(a, t) PROVE Paid'
  BY <1>0, <1>4, PaidQuiet DEF CompleteReset, Goto, tables, world, Typed, TypeOK
<1>5. ASSUME NEW a \in Tasks, RevokeRow(a) PROVE Paid'
  <2>1. PICK k \in Tokens : k = cur[a]
    BY <1>5, Revoking
  <2>2. /\ MayWrite(a, k) /\ a \in Webs /\ pc' = pc /\ todo' = todo
        /\ rows' = rows /\ mails' = mails /\ aborts' = aborts
        /\ \A b \in Tasks \ {a} : cur'[b] = cur[b]
        /\ \A t \in Tokens \ {k} : work'[t] = work[t] /\ lock'[t] = lock[t]
        /\ lock'[k] = a \/ (work'[k] = work[k] /\ lock'[k] = lock[k])
    BY <1>5, <2>1, Revoking DEF world, Kinds
  <2> QED
    BY <1>0, <2>2, PaidQuiet DEF MayWrite
<1>6. ASSUME NEW a \in Tasks, SaveToken(a) PROVE Paid'
  <2>1. /\ a \in Webs /\ \A b \in Tasks \ {a} : pc'[b] = pc[b]
        /\ UNCHANGED <<rows, mails, aborts, cur, todo>>
        /\ \E k \in Tokens : /\ lock[k] = None /\ lock'[k] = a
              /\ \A t \in Tokens \ {k} : work'[t] = work[t] /\ lock'[t] = lock[t]
    BY <1>6, Saving DEF local, Kinds
  <2> QED
    BY <1>0, <2>1, PaidQuiet
<1>7. ASSUME NEW a \in Tasks, EndTask(a), RollbackRows(Waits, a), UNCHANGED world, pc[a] = "use"
      PROVE  Paid'
  BY <1>7, PaidEnds DEF world, Kinds
<1>8. ASSUME NEW a \in Tasks, MarkUsed(a) PROVE Paid'
  <2>1. CASE ~(RollbackRows(Waits, a) /\ EndTask(a))
    <3>1. PICK k \in Tokens : k = cur[a]
      BY <1>8 DEF MarkUsed, Typed, Busy
    <3>2. /\ MayWrite(a, k) /\ a \in Webs /\ \A b \in Tasks \ {a} : pc'[b] = pc[b]
          /\ UNCHANGED <<rows, mails, aborts, cur, todo>> /\ lock'[k] = a
          /\ \A t \in Tokens \ {k} : work'[t] = work[t] /\ lock'[t] = lock[t]
      BY <1>8, <2>1, <3>1, Using DEF local, world, Kinds
    <3> QED
      BY <1>0, <3>2, PaidQuiet DEF MayWrite
  <2> QED
    BY <1>7, <1>8, <2>1, Using
<1>9. ASSUME NEW a \in Tasks, SavePassword(a) \/ Commit(a) PROVE Paid'
  BY <1>9, PaidEnds DEF SavePassword, Commit, world
<1>10. ASSUME NEW a \in Tasks, DeadlockVictim(a) \/ Abort(a) PROVE Paid'
  BY <1>10, PaidEnds DEF DeadlockVictim, Abort
<1>11. ASSUME NEW a \in Tasks, SendFails(a) PROVE Paid'
  <2>1. a \in Pollers
    BY <1>11 DEF SendFails, Kinds
  <2>2. \A t \in Tokens : mails'[t] = mails[t] \/
                             (mails'[t] = mails[t] + 1 /\ a \in Listers(t))
    BY <1>11, <2>1 DEF SendFails, Listers, Typed, TypeOK
  <2> QED
    BY <1>11, <2>2, PaidEnds DEF SendFails
<1> QED
  BY <1>1, <1>2, <1>3, <1>4, <1>5, <1>6, <1>8, <1>9, <1>10, <1>11, PaidSend, PaidMark, PaidStart
  DEF Next, Step

\* Through failing sends, crashes and deadlocks, a token is mailed at most once per
\* worker and once more for each fault that undid a mark.
THEOREM RetriesArePaidFor == Spec => []MailsArePaidFor
<1>1. Init => Locking /\ Paid
  <2> SUFFICES ASSUME Init, NEW t \in Tokens PROVE PaidFor(t)
    BY LockingInit DEF Paid
  <2>1. /\ rows[t].status = "absent" /\ ~IsMailable(rows[t]) /\ mails[t] = 0 /\ aborts = 0
        /\ \A p \in Pollers : pc[p] = "idle" /\ todo[p] = {} /\ lock[t] # p
    BY RowsAbsent, TasksAssumption, NoTaskIsNone DEF Init, IsMailable
  <2>2. Mailers(t) = {} /\ Listers(t) = {}
    BY <2>1 DEF Mailers, Listers
  <2>3. Cardinality({}) = 0 /\ Cardinality(Pollers) \in Nat
    BY FiniteAssumption, FS_EmptySet, FS_CardinalityType
  <2> QED
    BY <2>1, <2>2, <2>3 DEF PaidFor
<1>2. Locking /\ Paid /\ [Next]_vars => (Locking /\ Paid)'
  BY LockingNext, PaidNext
<1>3. Locking /\ Paid => MailsArePaidFor
  <2> SUFFICES ASSUME Locking, NEW t \in Tokens, PaidFor(t)
               PROVE  mails[t] <= Cardinality(Pollers) + aborts
    BY DEF Paid, MailsArePaidFor
  <2>1. Mailers(t) \subseteq Pollers /\ Listers(t) \subseteq Pollers
    BY DEF Mailers, Listers
  <2>2. /\ Cardinality(Mailers(t)) \in Nat /\ Cardinality(Listers(t)) \in Nat
        /\ Cardinality(Pollers) \in Nat /\ Cardinality(Mailers(t)) <= Cardinality(Pollers)
        /\ mails[t] \in Nat /\ aborts \in Nat
    BY <2>1, CountedPollers DEF Locking, Typed, TypeOK
  <2> QED
    BY <2>2 DEF PaidFor
<1> QED
  BY <1>1, <1>2, <1>3, PTL DEF Spec
=============================================================================
