---------------------------- MODULE Erasure_proofs ----------------------------
(***************************************************************************)
(* Proofs about Erasure, for every number of users, requests, erasures,    *)
(* items and faults: the type invariant, that no erasure is stuck in       *)
(* processing, that an account is erased only together with an answer, and *)
(* that an answer is final.                                                *)
(***************************************************************************)
EXTENDS Erasure, TLAPS

\* The phases of a request that works on a user, and of the poll on a request.
OfUser  == {"insert", "issue", "file", "reread", "change"}
Erasing == {"privacy", "organizations", "tokens", "user", "anonymise", "close"}

Known(u) == rows[UserId(u)] # NoUser

\* A request that works on a user knows who it is, and that the user is
\* registered; it writes an erased address back only where one was committed.
WorksOnUser(a) ==
    /\ pc[a] \in OfUser => a \in Webs /\ subject[a] \in Users
    /\ pc[a] \in OfUser \ {"insert"} => Known(subject[a])
    /\ pc[a] \in {"reread", "change"} =>
          want[a] # NoUser /\ (want[a].email = "erased" => Answered(subject[a]))

\* The poll has the request in hand in processing, uncommitted,
Processes(a) ==
    pc[a] \in Erasing =>
        /\ a \in Pollers /\ subject[a] \in Users /\ cur[a] \in Erasures
        /\ Known(subject[a])
        /\ pc[a] = "anonymise" => want[a] = ErasedUser
        /\ lock[ErasureId(cur[a])] = a
        /\ work[ErasureId(cur[a])] = [subject |-> subject[a], status |-> "processing"]

\* and what it has listed and not reached is still as it was listed.
Polls(a) ==
    /\ pc[a] = "next" => a \in Pollers
    /\ a \in Pollers => \A e \in todo[a] :
          lock[ErasureId(e)] = None /\ rows[ErasureId(e)].status = "pending"

\* Only who has filed or taken up a request has a lock on one.
OwnsNothing(a) ==
    pc[a] \in OfUser \cup {"idle"} => \A e \in Erasures : lock[ErasureId(e)] # a

InOrder(a) == WorksOnUser(a) /\ Processes(a) /\ Polls(a) /\ OwnsNothing(a)

\* Tokens and requests belong to users who are registered, and no registered
\* user is deleted.
Registered ==
    /\ \A u \in tokens : Known(u)
    /\ \A u \in Users : Known(u) => work[UserId(u)] # NoUser
    /\ \A e \in Erasures : \A r \in {rows[ErasureId(e)], work[ErasureId(e)]} :
          r.status # "absent" => r.subject \in Users /\ Known(r.subject)

\* Requests that are still to be filed have no row.
Unfiled ==
    \A e \in Erasures : e > filed =>
        /\ lock[ErasureId(e)] = None
        /\ rows[ErasureId(e)].status = "absent" /\ work[ErasureId(e)].status = "absent"

\* A web request writes only the row it files, the poll only pending ones.
Owned ==
    \A e \in Erasures :
        /\ lock[ErasureId(e)] \in Webs =>
              rows[ErasureId(e)].status = "absent" /\ work[ErasureId(e)].status = "pending"
        /\ lock[ErasureId(e)] \in Pollers => rows[ErasureId(e)].status = "pending"
        /\ lock[ErasureId(e)] = None => work[ErasureId(e)] = rows[ErasureId(e)]

\* No request is in processing but the one in hand.
ProcessingIsInHand ==
    /\ NoCommittedProcessing
    /\ \A e \in Erasures : work[ErasureId(e)].status = "processing" =>
          \E a \in Pollers : pc[a] \in Erasing /\ cur[a] = e

\* The poll has erased user u and not committed it: it is about to complete the
\* request, or has done so.
ErasedInHand(u) ==
    \E a \in Pollers :
        /\ lock[UserId(u)] = a
        /\ \/ pc[a] = "close" /\ subject[a] = u
           \/ \E e \in Erasures :
                 /\ lock[ErasureId(e)] = a
                 /\ work[ErasureId(e)] = [subject |-> u, status |-> "completed"]

\* An erased address, in any version of the row, comes with an answered request.
ErasedIsAnswered ==
    /\ ErasedOnlyByCompletion
    /\ \A u \in Users : work[UserId(u)].email = "erased" => Answered(u) \/ ErasedInHand(u)

IInv ==
    /\ TypeOK /\ Registered /\ Unfiled /\ Owned /\ ProcessingIsInHand /\ ErasedIsAnswered
    /\ \A a \in Tasks : InOrder(a)
-------------------------------------------------------------------------------
(* The tables.                                                               *)

\* Rows of different tables have different ids.
LEMMA IdsDiffer ==
    /\ \A u \in Users : UserId(u) \in RowIds
    /\ \A e \in Erasures : ErasureId(e) \in RowIds
    /\ \A i \in Items : ItemId(i) \in RowIds
    /\ \A u \in Users, v \in Users : UserId(u) = UserId(v) => u = v
    /\ \A e \in Erasures, f \in Erasures : ErasureId(e) = ErasureId(f) => e = f
    /\ \A u, e : UserId(u) # ErasureId(e)
    /\ \A u, i : UserId(u) # ItemId(i)
    /\ \A e, i : ErasureId(e) # ItemId(i)
    /\ \A u : UserId(u)[1] = "user" /\ UserId(u)[2] = u
    /\ \A e : ErasureId(e)[1] = "erasure"
    /\ \A i : ItemId(i)[1] = "item"
<1>1. \A u : UserId(u)[1] = "user" /\ UserId(u)[2] = u
  BY DEF UserId
<1>2. \A e : ErasureId(e)[1] = "erasure" /\ ErasureId(e)[2] = e
  BY DEF ErasureId
<1>3. \A i : ItemId(i)[1] = "item"
  BY DEF ItemId
<1>4. "user" # "erasure" /\ "user" # "item" /\ "erasure" # "item"
  OBVIOUS
<1>5. /\ \A u, e : UserId(u) # ErasureId(e)
      /\ \A u, i : UserId(u) # ItemId(i)
      /\ \A e, i : ErasureId(e) # ItemId(i)
  BY <1>1, <1>2, <1>3, <1>4
<1>6. /\ \A u \in Users, v \in Users : UserId(u) = UserId(v) => u = v
      /\ \A e \in Erasures, f \in Erasures : ErasureId(e) = ErasureId(f) => e = f
  BY <1>1, <1>2
<1>7. /\ \A u \in Users : UserId(u) \in RowIds
      /\ \A e \in Erasures : ErasureId(e) \in RowIds
      /\ \A i \in Items : ItemId(i) \in RowIds
  BY RowIdsAssumption
<1> QED
  BY <1>1, <1>2, <1>3, <1>5, <1>6, <1>7

\* The part of TypeOK that is about the tables, and the rest.
TablesTyped ==
    /\ \A table \in {rows, work} :
         /\ DOMAIN table = RowIds
         /\ \A u \in Users : table[UserId(u)] \in UserRow \cup {NoUser}
         /\ \A e \in Erasures : table[ErasureId(e)] \in ErasureRow
         /\ \A i \in Items : table[ItemId(i)] \in ItemRow
    /\ lock \in [RowIds -> Tasks \cup {None}]

LocalsTyped ==
    /\ tokens \subseteq Users /\ running \subseteq Pollers
    /\ filed \in 0 .. MaxErasures /\ stored \in 0 .. MaxItems
    /\ changes \in 0 .. MaxChanges /\ aborts \in Nat
    /\ pc \in [Tasks -> Phase] /\ subject \in [Tasks -> Users \cup {None}]
    /\ todo \in [Tasks -> SUBSET Erasures]
    /\ cur \in [Tasks -> Erasures \cup {None}]
    /\ want \in [Tasks -> UserRow \cup {NoUser}]
    /\ seen \in [Tasks -> UserRow \cup {NoUser}]
    /\ known \in [Tasks -> SUBSET Items]

\* The type invariant in its parts.
LEMMA TypeParts ==
    /\ TypeOK <=> TablesTyped /\ LocalsTyped
    /\ TypeOK' <=> TablesTyped' /\ LocalsTyped'
  BY DEF TypeOK, TablesTyped, LocalsTyped

\* The flush of a user row.
LEMMA WrittenUser ==
    ASSUME TablesTyped, NEW a \in Tasks, NEW u \in Users, NEW r \in UserRow,
           WriteRow(a, UserId(u), r)
    PROVE  /\ TablesTyped' /\ rows' = rows
           /\ work'[UserId(u)] = r /\ lock'[UserId(u)] = a
           /\ \A v \in Users \ {u} : /\ work'[UserId(v)] = work[UserId(v)]
                                     /\ lock'[UserId(v)] = lock[UserId(v)]
           /\ \A e \in Erasures : /\ work'[ErasureId(e)] = work[ErasureId(e)]
                                  /\ lock'[ErasureId(e)] = lock[ErasureId(e)]
<1>1. /\ rows' = rows
      /\ work' = [work EXCEPT ![UserId(u)] = r] /\ lock' = [lock EXCEPT ![UserId(u)] = a]
  BY DEF WriteRow
<1>2. DOMAIN work = RowIds /\ UserId(u) \in RowIds
  BY IdsDiffer DEF TablesTyped
<1>3. /\ DOMAIN work' = RowIds /\ work'[UserId(u)] = r /\ lock'[UserId(u)] = a
      /\ lock' \in [RowIds -> Tasks \cup {None}]
      /\ \A k \in RowIds : k # UserId(u) => work'[k] = work[k] /\ lock'[k] = lock[k]
  BY <1>1, <1>2 DEF TablesTyped
<1>4. \A v \in Users \ {u} : /\ work'[UserId(v)] = work[UserId(v)]
                             /\ lock'[UserId(v)] = lock[UserId(v)]
  BY <1>3, IdsDiffer
<1>5. \A e \in Erasures : /\ work'[ErasureId(e)] = work[ErasureId(e)]
                          /\ lock'[ErasureId(e)] = lock[ErasureId(e)]
  BY <1>3, IdsDiffer
<1>6. \A i \in Items : work'[ItemId(i)] = work[ItemId(i)]
  BY <1>3, IdsDiffer
<1>7. TablesTyped'
  BY <1>1, <1>3, <1>4, <1>5, <1>6 DEF TablesTyped
<1> QED
  BY <1>1, <1>3, <1>4, <1>5, <1>7

\* The flush of a request.
LEMMA WrittenErasure ==
    ASSUME TablesTyped, NEW a \in Tasks, NEW e \in Erasures, NEW r \in ErasureRow,
           WriteRow(a, ErasureId(e), r)
    PROVE  /\ TablesTyped' /\ rows' = rows
           /\ work'[ErasureId(e)] = r /\ lock'[ErasureId(e)] = a
           /\ \A f \in Erasures \ {e} : /\ work'[ErasureId(f)] = work[ErasureId(f)]
                                        /\ lock'[ErasureId(f)] = lock[ErasureId(f)]
           /\ \A u \in Users : /\ work'[UserId(u)] = work[UserId(u)]
                               /\ lock'[UserId(u)] = lock[UserId(u)]
<1>1. /\ rows' = rows
      /\ work' = [work EXCEPT ![ErasureId(e)] = r] /\ lock' = [lock EXCEPT ![ErasureId(e)] = a]
  BY DEF WriteRow
<1>2. DOMAIN work = RowIds /\ ErasureId(e) \in RowIds
  BY IdsDiffer DEF TablesTyped
<1>3. /\ DOMAIN work' = RowIds /\ work'[ErasureId(e)] = r /\ lock'[ErasureId(e)] = a
      /\ lock' \in [RowIds -> Tasks \cup {None}]
      /\ \A k \in RowIds : k # ErasureId(e) => work'[k] = work[k] /\ lock'[k] = lock[k]
  BY <1>1, <1>2 DEF TablesTyped
<1>4. \A f \in Erasures \ {e} : /\ work'[ErasureId(f)] = work[ErasureId(f)]
                                /\ lock'[ErasureId(f)] = lock[ErasureId(f)]
  BY <1>3, IdsDiffer
<1>5. \A u \in Users : /\ work'[UserId(u)] = work[UserId(u)]
                       /\ lock'[UserId(u)] = lock[UserId(u)]
  BY <1>3, IdsDiffer
<1>6. \A i \in Items : work'[ItemId(i)] = work[ItemId(i)]
  BY <1>3, IdsDiffer
<1>7. TablesTyped'
  BY <1>1, <1>3, <1>4, <1>5, <1>6 DEF TablesTyped
<1> QED
  BY <1>1, <1>3, <1>4, <1>5, <1>7

\* Users and erasures do not change.
ItemsOnly ==
    /\ rows' = rows
    /\ \A u \in Users : /\ work'[UserId(u)] = work[UserId(u)]
                        /\ lock'[UserId(u)] = lock[UserId(u)]
    /\ \A e \in Erasures : /\ work'[ErasureId(e)] = work[ErasureId(e)]
                           /\ lock'[ErasureId(e)] = lock[ErasureId(e)]

\* The flush of an item.
LEMMA WrittenItem ==
    ASSUME TablesTyped, NEW a \in Tasks, NEW i \in Items, NEW r \in ItemRow,
           WriteRow(a, ItemId(i), r)
    PROVE  TablesTyped' /\ ItemsOnly
<1>1. /\ rows' = rows
      /\ work' = [work EXCEPT ![ItemId(i)] = r] /\ lock' = [lock EXCEPT ![ItemId(i)] = a]
  BY DEF WriteRow
<1>2. DOMAIN work = RowIds /\ ItemId(i) \in RowIds
  BY IdsDiffer DEF TablesTyped
<1>3. /\ DOMAIN work' = RowIds
      /\ lock' \in [RowIds -> Tasks \cup {None}]
      /\ \A k \in RowIds : k # ItemId(i) => work'[k] = work[k] /\ lock'[k] = lock[k]
      /\ \A k \in RowIds : work'[k] = work[k] \/ work'[k] = r
  BY <1>1, <1>2 DEF TablesTyped
<1>4. ItemsOnly
  BY <1>1, <1>3, IdsDiffer DEF ItemsOnly
<1>5. \A j \in Items : work'[ItemId(j)] \in ItemRow
  BY <1>3, IdsDiffer DEF TablesTyped
<1>6. TablesTyped'
  BY <1>1, <1>3, <1>4, <1>5 DEF TablesTyped, ItemsOnly
<1> QED
  BY <1>4, <1>6

\* The deletion of items.
LEMMA DeletedItems ==
    ASSUME TablesTyped, NEW a \in Tasks, NEW u, NEW kind, DeleteItems(a, u, kind)
    PROVE  TablesTyped' /\ ItemsOnly
<1> DEFINE gone == {k \in RowIds : k[1] = "item"
                       /\ Visible(a, k) = [subject |-> u, kind |-> kind]}
<1>1. /\ rows' = rows
      /\ work' = [k \in RowIds |-> IF k \in gone THEN AbsentItem ELSE work[k]]
      /\ lock' = [k \in RowIds |-> IF k \in gone THEN a ELSE lock[k]]
  BY DEF DeleteItems
<1>2. \A k \in gone : k[1] = "item"
  OBVIOUS
<1> HIDE DEF gone
<1>3. /\ DOMAIN work' = RowIds
      /\ lock' \in [RowIds -> Tasks \cup {None}]
      /\ \A k \in RowIds : k[1] # "item" => work'[k] = work[k] /\ lock'[k] = lock[k]
      /\ \A k \in RowIds : work'[k] = work[k] \/ work'[k] = AbsentItem
  BY <1>1, <1>2 DEF TablesTyped
<1>4. ItemsOnly
  BY <1>1, <1>3, IdsDiffer DEF ItemsOnly
<1>5. \A j \in Items : work'[ItemId(j)] \in ItemRow
  BY <1>3, IdsDiffer DEF TablesTyped, AbsentItem, ItemRow
<1>6. TablesTyped'
  BY <1>1, <1>3, <1>4, <1>5 DEF TablesTyped, ItemsOnly
<1> QED
  BY <1>4, <1>6

\* Only rows of users are waited for: the locks on erasures are not handed on.
LEMMA Released ==
    ASSUME TablesTyped, NEW a \in Tasks, ReleaseLocks(Waits, a)
    PROVE  /\ lock' \in [RowIds -> Tasks \cup {None}]
           /\ \A k \in RowIds : lock[k] # a => lock'[k] = lock[k]
           /\ \A e \in Erasures : lock[ErasureId(e)] = a => lock'[ErasureId(e)] = None
<1> DEFINE wanted == {k \in RowIds : lock[k] = a /\ Waiters(Waits, k) # {}}
<1>1. PICK heir \in [wanted -> Tasks] :
         lock' = [k \in RowIds |-> IF lock[k] # a THEN lock[k]
                                   ELSE IF k \in wanted THEN heir[k] ELSE None]
  BY DEF ReleaseLocks
<1>2. \A e \in Erasures, b \in Tasks : Waits[b] # ErasureId(e)
  BY IdsDiffer, NoneAssumption DEF Waits
<1>3. \A e \in Erasures : ErasureId(e) \notin wanted
  BY <1>2 DEF Waiters
<1> HIDE DEF wanted
<1> QED
  BY <1>1, <1>3, IdsDiffer DEF TablesTyped

\* Commit and rollback.
LEMMA Committed ==
    ASSUME TablesTyped, NEW a \in Tasks, CommitRows(Waits, a)
    PROVE  /\ TablesTyped' /\ work' = work
           /\ \A k \in RowIds : lock[k] = a => rows'[k] = work[k]
           /\ \A k \in RowIds : lock[k] # a => rows'[k] = rows[k] /\ lock'[k] = lock[k]
           /\ \A e \in Erasures : lock[ErasureId(e)] = a => lock'[ErasureId(e)] = None
<1>1. ReleaseLocks(Waits, a) /\ work' = work
  BY DEF CommitRows
<1>2. rows' = [k \in RowIds |-> IF lock[k] = a THEN work[k] ELSE rows[k]]
  BY DEF CommitRows, Visible
<1>3. TablesTyped'
  BY <1>1, <1>2, Released, IdsDiffer DEF TablesTyped
<1> QED
  BY <1>1, <1>2, <1>3, Released

\* A rollback undoes what the task wrote and gives up its locks.
LEMMA RolledBack ==
    ASSUME TablesTyped, NEW a \in Tasks, RollbackRows(Waits, a)
    PROVE  /\ TablesTyped' /\ rows' = rows
           /\ \A k \in RowIds : lock[k] = a => work'[k] = rows[k]
           /\ \A k \in RowIds : lock[k] # a => work'[k] = work[k] /\ lock'[k] = lock[k]
           /\ \A e \in Erasures : lock[ErasureId(e)] = a => lock'[ErasureId(e)] = None
<1>1. ReleaseLocks(Waits, a) /\ rows' = rows
  BY DEF RollbackRows
<1>2. work' = [k \in RowIds |-> IF lock[k] = a THEN rows[k] ELSE work[k]]
  BY DEF RollbackRows
<1>3. TablesTyped'
  BY <1>1, <1>2, Released, IdsDiffer DEF TablesTyped
<1> QED
  BY <1>1, <1>2, <1>3, Released
-------------------------------------------------------------------------------
(* The locals.                                                               *)

\* What the other tasks have in hand stays as it is.
OthersStay(a) ==
    \A b \in Tasks \ {a} :
        /\ pc'[b] = pc[b] /\ subject'[b] = subject[b] /\ todo'[b] = todo[b]
        /\ cur'[b] = cur[b] /\ want'[b] = want[b]

\* The task that ends works on nothing any more.
LEMMA Ended ==
    ASSUME LocalsTyped, NEW a \in Tasks, EndTask(a)
    PROVE  /\ pc' \in [Tasks -> Phase] /\ subject' \in [Tasks -> Users \cup {None}]
           /\ todo' \in [Tasks -> SUBSET Erasures]
           /\ cur' \in [Tasks -> Erasures \cup {None}]
           /\ want' \in [Tasks -> UserRow \cup {NoUser}]
           /\ seen' \in [Tasks -> UserRow \cup {NoUser}]
           /\ known' \in [Tasks -> SUBSET Items]
           /\ OthersStay(a) /\ pc'[a] = "idle" /\ todo'[a] = {}
  BY DEF LocalsTyped, EndTask, Goto, Phase, OthersStay

\* The steps that do not touch the tables.
LEMMA LocalsQuiet ==
    ASSUME IInv, NEW a \in Tasks,
           \/ IssueToken(a) \/ RereadUser(a) \/ ReadUser(a) \/ StartPoll(a)
           \/ \E u \in Users : \/ Register(a, u) \/ Login(a, u)
                               \/ RequestErasure(a, u) \/ ChangePassword(a, u)
    PROVE  LocalsTyped' /\ OthersStay(a) /\ ItemsOnly /\ TablesTyped'
<1> USE TypeParts DEF IInv, Goto, Phase, OthersStay, ItemsOnly, tables
<1>0. LocalsTyped /\ TablesTyped /\ WorksOnUser(a) /\ Processes(a)
  BY DEF InOrder
<1>1. CASE IssueToken(a)
  <2>1. subject[a] \in Users
    BY <1>0, <1>1 DEF WorksOnUser, IssueToken, OfUser
  <2> QED
    BY <1>0, <1>1, <2>1, Ended DEF IssueToken, LocalsTyped, TablesTyped, counts
<1>2. CASE RereadUser(a)
  <2>1. rows[UserId(subject[a])] \in UserRow \cup {NoUser}
    BY <1>0, <1>2 DEF WorksOnUser, RereadUser, OfUser, TablesTyped
  <2> QED
    BY <1>0, <1>2, <2>1 DEF RereadUser, LocalsTyped, TablesTyped, counts, env
<1>3. CASE ReadUser(a)
  <2>1. Visible(a, UserId(subject[a])) \in UserRow \cup {NoUser}
    BY <1>0, <1>3 DEF Processes, ReadUser, Erasing, TablesTyped, Visible
  <2>2. ErasedUser \in UserRow
    BY DEF ErasedUser, UserRow
  <2> QED
    BY <1>0, <1>3, <2>1, <2>2 DEF ReadUser, LocalsTyped, TablesTyped, counts, env
<1>4. CASE StartPoll(a)
  BY <1>0, <1>4 DEF StartPoll, LocalsTyped, TablesTyped, counts, env
<1>5. CASE \E u \in Users : Register(a, u) \/ Login(a, u) \/ RequestErasure(a, u)
  BY <1>0, <1>5 DEF Register, Login, RequestErasure, LocalsTyped, TablesTyped, counts, env
<1>6. CASE \E u \in Users : ChangePassword(a, u)
  <2>1. \A u \in Users : rows[UserId(u)] \in UserRow \cup {NoUser}
    BY <1>0 DEF TablesTyped
  <2> QED
    BY <1>0, <1>6, <2>1, BoundsAssumption DEF ChangePassword, LocalsTyped, TablesTyped, env
<1> QED
  BY <1>1, <1>2, <1>3, <1>4, <1>5, <1>6
--------------------------------------------------------------------------------
(* The inductive invariant, one lemma per group of actions.                  *)

\* What a step of a must leave alone for the others to go on as before.
LEMMA OthersInOrder ==
    ASSUME IInv, NEW a \in Tasks, OthersStay(a),
           \A u \in Users : (Known(u) => Known(u)') /\ (Answered(u) => Answered(u)'),
           \A b \in Tasks \ {a}, e \in Erasures :
               /\ lock'[ErasureId(e)] = b <=> lock[ErasureId(e)] = b
               /\ lock[ErasureId(e)] = b => work'[ErasureId(e)] = work[ErasureId(e)]
               /\ e \in todo[b] /\ b \in Pollers =>
                     lock'[ErasureId(e)] = None /\ rows'[ErasureId(e)] = rows[ErasureId(e)]
    PROVE  \A b \in Tasks \ {a} : InOrder(b)'
<1> SUFFICES ASSUME NEW b \in Tasks \ {a} PROVE InOrder(b)'
  OBVIOUS
<1>1. InOrder(b) /\ LocalsTyped
  BY TypeParts DEF IInv
<1>2. WorksOnUser(b)'
  BY <1>1 DEF InOrder, WorksOnUser, OfUser, OthersStay
<1>3. Processes(b)'
  BY <1>1 DEF InOrder, Processes, OthersStay
<1>4. Polls(b)'
  BY <1>1 DEF InOrder, Polls, OthersStay, LocalsTyped
<1>5. OwnsNothing(b)'
  BY <1>1 DEF InOrder, OwnsNothing, OthersStay
<1> QED
  BY <1>2, <1>3, <1>4, <1>5 DEF InOrder

\* A step that leaves users and erasures alone and keeps a request in hand.
LEMMA InvQuiet ==
    ASSUME IInv, NEW a \in Tasks, ItemsOnly, OthersStay(a), TablesTyped', LocalsTyped',
           filed' = filed, \A u \in tokens' : Known(u),
           pc[a] \in Erasing => pc'[a] \in Erasing /\ cur'[a] = cur[a] /\ subject'[a] = subject[a],
           pc[a] = "close" => pc'[a] = "close",
           InOrder(a)'
    PROVE  IInv'
<1> USE DEF ItemsOnly
<1>1. /\ TablesTyped /\ LocalsTyped /\ Registered /\ Unfiled /\ Owned /\ ProcessingIsInHand
      /\ ErasedIsAnswered
  BY TypeParts DEF IInv
<1>2. \A u \in Users : Known(u)' = Known(u) /\ Answered(u)' = Answered(u)
  BY DEF Known, Answered
<1>3. \A b \in Tasks : InOrder(b)'
  <2>1. \A b \in Pollers : \A e \in todo[b] : e \in Erasures /\ lock[ErasureId(e)] = None
    BY <1>1, TasksAssumption DEF IInv, InOrder, Polls, LocalsTyped
  <2> QED
    BY <1>2, <2>1, OthersInOrder
<1>4. Registered'
  BY <1>1, <1>2 DEF Registered, Known, LocalsTyped
<1>5. Unfiled' /\ Owned'
  BY <1>1 DEF Unfiled, Owned
<1>6. ProcessingIsInHand'
  BY <1>1, TasksAssumption DEF ProcessingIsInHand, NoCommittedProcessing, ErasureStatus, OthersStay
<1>7. ErasedIsAnswered'
  <2>1. ErasedOnlyByCompletion'
    BY <1>1 DEF ErasedIsAnswered, ErasedOnlyByCompletion, Answered
  <2>2. \A u \in Users : ErasedInHand(u) => ErasedInHand(u)'
    BY TasksAssumption DEF ErasedInHand, OthersStay, Erasing
  <2> QED
    BY <1>1, <1>2, <2>1, <2>2 DEF ErasedIsAnswered
<1> QED
  BY <1>3, <1>4, <1>5, <1>6, <1>7, TypeParts DEF IInv

\* What a subject does before anything is written.
LEMMA InvStarts ==
    ASSUME IInv, NEW a \in Tasks, NEW u \in Users,
           Register(a, u) \/ Login(a, u) \/ RequestErasure(a, u) \/ ChangePassword(a, u)
    PROVE  IInv'
<1>1. TablesTyped /\ LocalsTyped /\ Registered /\ ErasedIsAnswered /\ InOrder(a)
  BY TypeParts DEF IInv
<1>2. /\ a \in Webs /\ pc[a] = "idle" /\ subject'[a] = u /\ UNCHANGED <<rows, env, filed>>
      /\ pc'[a] \in OfUser
      /\ pc'[a] # "insert" => Known(u)
      /\ pc'[a] \in {"reread", "change"} => want'[a] = rows[UserId(u)]
  <2> USE <1>1 DEF LocalsTyped, Goto, OfUser, Known, env, counts, tables
  <2>1. CASE Register(a, u)
    BY <2>1 DEF Register
  <2>2. CASE Login(a, u)
    BY <2>2 DEF Login, FoundByEmail, NoUser
  <2>3. CASE RequestErasure(a, u)
    BY <2>3 DEF RequestErasure, IsAuthenticated, Registered
  <2>4. CASE ChangePassword(a, u)
    BY <2>4 DEF ChangePassword, IsAuthenticated, Registered
  <2> QED
    BY <2>1, <2>2, <2>3, <2>4
<1>3. LocalsTyped' /\ OthersStay(a) /\ ItemsOnly /\ TablesTyped'
  BY LocalsQuiet
<1>4. a \notin Pollers /\ pc'[a] \notin Erasing \cup {"next", "idle"} /\ pc[a] \notin Erasing
  BY <1>2, TasksAssumption DEF OfUser, Erasing
<1>5. InOrder(a)'
  <2>1. WorksOnUser(a)'
    BY <1>1, <1>2 DEF WorksOnUser, Known, Answered, ErasedIsAnswered, ErasedOnlyByCompletion
  <2> QED
    BY <1>1, <1>2, <1>3, <1>4, <2>1 DEF InOrder, Processes, Polls, OwnsNothing, ItemsOnly
<1> QED
  BY <1>1, <1>2, <1>3, <1>4, <1>5, InvQuiet DEF Registered, env, Erasing
\* The other steps that only read.
LEMMA InvReads ==
    ASSUME IInv, NEW a \in Tasks,
           IssueToken(a) \/ RereadUser(a) \/ ReadUser(a) \/ StartPoll(a)
    PROVE  IInv'
<1>1. TablesTyped /\ LocalsTyped /\ Registered /\ Owned /\ ErasedIsAnswered /\ InOrder(a)
  BY TypeParts DEF IInv
<1>2. LocalsTyped' /\ OthersStay(a) /\ ItemsOnly /\ TablesTyped'
  BY LocalsQuiet
<1>3. CASE IssueToken(a)
  <2>1. /\ pc[a] = "issue" /\ pc'[a] = "idle" /\ filed' = filed /\ UNCHANGED tables
        /\ tokens' = tokens \cup {subject[a]}
        /\ a \in Webs /\ Known(subject[a])
    BY <1>1, <1>3, Ended DEF IssueToken, counts, InOrder, WorksOnUser, OfUser
  <2>2. \A e \in Erasures : lock[ErasureId(e)] # a
    BY <1>1, <2>1 DEF InOrder, OwnsNothing, OfUser
  <2>3. InOrder(a)'
    BY <1>1, <2>1, <2>2, TasksAssumption DEF InOrder, WorksOnUser, Processes, Polls, OwnsNothing,
                      OfUser, Erasing, tables
  <2> QED
    BY <1>1, <1>2, <2>1, <2>3, InvQuiet DEF Registered, Erasing
<1>4. CASE RereadUser(a)
  <2>1. /\ pc[a] = "reread" /\ pc'[a] = "change" /\ filed' = filed
        /\ UNCHANGED <<tables, tokens, subject, want>>
    BY <1>1, <1>4 DEF RereadUser, Goto, counts, env, LocalsTyped
  <2>2. WorksOnUser(a)' /\ OwnsNothing(a)'
    BY <1>1, <2>1 DEF InOrder, WorksOnUser, OwnsNothing, OfUser, Known, Answered, tables
  <2>3. Processes(a)' /\ Polls(a)'
    BY <1>1, <2>1, TasksAssumption DEF InOrder, WorksOnUser, Processes, Polls, OfUser, Erasing
  <2> QED
    BY <1>1, <1>2, <2>1, <2>2, <2>3, InvQuiet DEF Erasing, Registered, InOrder
<1>5. CASE ReadUser(a)
  <2>1. /\ pc[a] = "user" /\ pc'[a] = "anonymise" /\ filed' = filed
        /\ UNCHANGED <<tables, tokens, subject, cur, todo>>
        /\ want'[a] = ErasedUser
    BY <1>1, <1>5 DEF ReadUser, Goto, counts, env, LocalsTyped
  <2>2. WorksOnUser(a)' /\ OwnsNothing(a)'
    BY <2>1 DEF WorksOnUser, OwnsNothing, OfUser
  <2>3. Processes(a)' /\ Polls(a)'
    BY <1>1, <2>1 DEF InOrder, Processes, Polls, Erasing, Known, tables
  <2> QED
    BY <1>1, <1>2, <2>1, <2>2, <2>3, InvQuiet DEF Erasing, Registered, InOrder
<1>6. CASE StartPoll(a)
  <2>1. /\ pc[a] = "idle" /\ pc'[a] = "next" /\ filed' = filed
        /\ UNCHANGED <<tables, tokens>>
        /\ a \in Pollers /\ a \notin Webs
        /\ \A e \in todo'[a] : e \in Erasures /\ rows[ErasureId(e)].status = "pending"
    BY <1>1, <1>6, TasksAssumption
    DEF StartPoll, Goto, counts, env, LocalsTyped, IsPage, IsPending
  <2>2. \A e \in todo'[a] : lock[ErasureId(e)] = None
    <3>1. \A e \in Erasures : lock[ErasureId(e)] # a
      BY <1>1, <2>1 DEF InOrder, OwnsNothing
    <3>2. \A e \in Erasures : lock[ErasureId(e)] \in Webs \cup Pollers \cup {None}
      BY <1>1, IdsDiffer, TasksAssumption DEF TablesTyped
    <3> QED
      BY <1>1, <2>1, <3>1, <3>2, OneWorker DEF Owned
  <2>3. InOrder(a)'
    BY <2>1, <2>2 DEF InOrder, WorksOnUser, Processes, Polls, OwnsNothing, OfUser, Erasing, tables
  <2> QED
    BY <1>1, <1>2, <2>1, <2>3, InvQuiet DEF Erasing, Registered
<1> QED
  BY <1>3, <1>4, <1>5, <1>6

\* The steps that change nothing of the tasks.
LEMMA InvStill ==
    ASSUME IInv, UNCHANGED <<tables, filed, pc, local>>, tokens' \subseteq tokens, LocalsTyped'
    PROVE  IInv'
<1> USE DEF tables, local
<1>1. \A a \in Tasks : InOrder(a)'
  BY DEF IInv, InOrder, WorksOnUser, Processes, Polls, OwnsNothing, Known, Answered
<1>2. Registered' /\ Unfiled' /\ Owned'
  BY DEF IInv, Registered, Unfiled, Owned, Known
<1>3. ProcessingIsInHand'
  BY DEF IInv, ProcessingIsInHand, NoCommittedProcessing, ErasureStatus
<1>4. ErasedIsAnswered'
  BY DEF IInv, ErasedIsAnswered, ErasedOnlyByCompletion, Answered, ErasedInHand
<1>5. TablesTyped'
  BY TypeParts DEF IInv, TablesTyped
<1> QED
  BY <1>1, <1>2, <1>3, <1>4, <1>5, TypeParts DEF IInv

\* A worker starts, a token expires, nothing happens.
LEMMA InvWorld ==
    ASSUME IInv,
           (\E a \in Pollers : StartWorker(a)) \/ (\E u \in Users : Expire(u)) \/ UNCHANGED vars
    PROVE  IInv'
<1>1. LocalsTyped
  BY TypeParts DEF IInv
<1>2. CASE \E a \in Pollers : StartWorker(a)
  BY <1>1, <1>2, InvStill DEF StartWorker, LocalsTyped, counts, local
<1>3. CASE \E u \in Users : Expire(u)
  BY <1>1, <1>3, InvStill DEF Expire, LocalsTyped, counts, local
<1>4. CASE UNCHANGED vars
  BY <1>1, <1>4, InvStill DEF vars, LocalsTyped, counts, local, env
<1> QED
  BY <1>2, <1>3, <1>4
\* The steps that write items: what somebody leaves behind,
LEMMA InvItem ==
    ASSUME IInv, NEW a \in Tasks, NEW u \in Users, NEW kind \in {"token", "invitation", "export"},
           LeaveItem(a, u, kind)
    PROVE  IInv'
<1>1. TablesTyped /\ LocalsTyped /\ Registered /\ InOrder(a)
  BY TypeParts DEF IInv
<1>2. /\ a \in Webs /\ pc[a] = "idle" /\ pc'[a] = "commit" /\ filed' = filed /\ tokens' = tokens
      /\ OthersStay(a)
  BY <1>1 DEF LeaveItem, Goto, env, OthersStay, LocalsTyped
<1>3. LocalsTyped'
  BY <1>1, BoundsAssumption DEF LeaveItem, Goto, env, LocalsTyped, Phase
<1>4. stored + 1 \in Items /\ [subject |-> u, kind |-> kind] \in ItemRow
  BY <1>1, BoundsAssumption DEF LeaveItem, LocalsTyped, Items, ItemRow
<1>5. TablesTyped' /\ ItemsOnly
  BY <1>1, <1>4, WrittenItem DEF LeaveItem
<1>6. InOrder(a)'
  BY <1>2, TasksAssumption DEF InOrder, WorksOnUser, Processes, Polls, OwnsNothing, OfUser, Erasing
<1> QED
  BY <1>1, <1>2, <1>3, <1>5, <1>6, InvQuiet DEF Registered, Erasing

\* and what the erasers delete.
LEMMA InvErasers ==
    ASSUME IInv, NEW a \in Tasks, ErasePrivacy(a) \/ EraseInvitations(a) \/ DeleteTokens(a)
    PROVE  IInv'
<1>1. TablesTyped /\ LocalsTyped /\ Registered /\ InOrder(a)
  BY TypeParts DEF IInv
<1>2. /\ pc[a] \in Erasing /\ pc'[a] \in Erasing /\ pc'[a] # "anonymise" /\ pc[a] # "close"
      /\ UNCHANGED <<env, counts, local>> /\ OthersStay(a)
  BY <1>1 DEF ErasePrivacy, EraseInvitations, DeleteTokens, Goto, OthersStay, LocalsTyped,
              Erasing, local
<1>3. LocalsTyped'
  BY <1>1 DEF ErasePrivacy, EraseInvitations, DeleteTokens, Goto, LocalsTyped, Phase,
              env, counts, local
<1>4. TablesTyped' /\ ItemsOnly
  <2>1. CASE UNCHANGED tables
    BY <1>1, <2>1 DEF tables, TablesTyped, ItemsOnly
  <2>2. CASE \E kind \in {"export", "invitation", "token"} : DeleteItems(a, subject[a], kind)
    BY <1>1, <2>2, DeletedItems
  <2> QED
    BY <2>1, <2>2 DEF ErasePrivacy, EraseInvitations, DeleteTokens
<1>5. InOrder(a)'
  <2>1. WorksOnUser(a)' /\ OwnsNothing(a)'
    BY <1>2 DEF WorksOnUser, OwnsNothing, OfUser, Erasing
  <2>2. Processes(a)' /\ Polls(a)'
    BY <1>1, <1>2, <1>4
    DEF InOrder, Processes, Polls, Known, ItemsOnly, local, LocalsTyped, Erasing
  <2> QED
    BY <2>1, <2>2 DEF InOrder
<1> QED
  BY <1>1, <1>2, <1>3, <1>4, <1>5, InvQuiet DEF Registered, env, counts, local
\* The flush of a user row; an erased address is written only where it was
\* committed before, or by the poll that is about to complete the request.
LEMMA InvUserFlush ==
    ASSUME IInv, NEW a \in Tasks, NEW u \in Users, NEW r \in UserRow,
           WriteRow(a, UserId(u), r), OthersStay(a), LocalsTyped',
           filed' = filed, tokens' = tokens,
           pc[a] \in Erasing => pc'[a] \in Erasing /\ cur'[a] = cur[a] /\ subject'[a] = subject[a],
           pc[a] # "close",
           InOrder(a)',
           r.email = "erased" => Answered(u) \/ (a \in Pollers /\ pc'[a] = "close" /\ subject'[a] = u)
    PROVE  IInv'
<1>1. /\ TablesTyped /\ LocalsTyped /\ Registered /\ Unfiled /\ Owned /\ ProcessingIsInHand
      /\ ErasedIsAnswered
  BY TypeParts DEF IInv
<1>2. /\ TablesTyped' /\ rows' = rows
      /\ work'[UserId(u)] = r /\ lock'[UserId(u)] = a
      /\ \A v \in Users \ {u} : /\ work'[UserId(v)] = work[UserId(v)]
                                /\ lock'[UserId(v)] = lock[UserId(v)]
      /\ \A e \in Erasures : /\ work'[ErasureId(e)] = work[ErasureId(e)]
                             /\ lock'[ErasureId(e)] = lock[ErasureId(e)]
  BY <1>1, WrittenUser
<1>3. \A v \in Users : Known(v)' = Known(v) /\ Answered(v)' = Answered(v)
  BY <1>2 DEF Known, Answered
<1>4. \A b \in Tasks : InOrder(b)'
  <2>1. \A b \in Pollers : \A e \in todo[b] : e \in Erasures /\ lock[ErasureId(e)] = None
    BY <1>1, TasksAssumption DEF IInv, InOrder, Polls, LocalsTyped
  <2> QED
    BY <1>2, <1>3, <2>1, OthersInOrder
<1>5. Registered'
  <2>1. r # NoUser
    BY DEF UserRow, NoUser
  <2> QED
    BY <1>1, <1>2, <1>3, <2>1 DEF Registered, Known, LocalsTyped
<1>6. Unfiled' /\ Owned'
  BY <1>1, <1>2 DEF Unfiled, Owned
<1>7. ProcessingIsInHand'
  BY <1>1, <1>2, TasksAssumption
  DEF ProcessingIsInHand, NoCommittedProcessing, ErasureStatus, OthersStay
<1>8. ErasedIsAnswered'
  <2>1. ErasedOnlyByCompletion'
    BY <1>1, <1>2 DEF ErasedIsAnswered, ErasedOnlyByCompletion, Answered
  <2>2. \A v \in Users \ {u} : ErasedInHand(v) => ErasedInHand(v)'
    BY <1>2, TasksAssumption DEF ErasedInHand, OthersStay
  <2>3. r.email = "erased" => Answered(u) \/ ErasedInHand(u)'
    BY <1>2 DEF ErasedInHand
  <2> QED
    BY <1>1, <1>2, <1>3, <2>1, <2>2, <2>3 DEF ErasedIsAnswered
<1> QED
  BY <1>2, <1>4, <1>5, <1>6, <1>7, <1>8, TypeParts DEF IInv

\* A registration inserts the row.
LEMMA InvInsert ==
    ASSUME IInv, NEW a \in Tasks, InsertUser(a), rows[UserId(subject[a])] = NoUser
    PROVE  IInv'
<1>1. TablesTyped /\ LocalsTyped /\ InOrder(a)
  BY TypeParts DEF IInv
<1>2. /\ pc[a] = "insert" /\ pc'[a] = "commit" /\ UNCHANGED <<env, counts, local>>
      /\ a \in Webs /\ a \notin Pollers /\ subject[a] \in Users
      /\ WriteRow(a, UserId(subject[a]), [email |-> "own", password |-> "known"])
  BY <1>1, TasksAssumption DEF InsertUser, Goto, LocalsTyped, InOrder, WorksOnUser, OfUser
<1>3. [email |-> "own", password |-> "known"] \in UserRow
  BY DEF UserRow
<1>4. LocalsTyped' /\ OthersStay(a)
  BY <1>1, <1>2 DEF InsertUser, Goto, LocalsTyped, Phase, OthersStay, env, counts, local
<1>5. InOrder(a)'
  BY <1>2 DEF InOrder, WorksOnUser, Processes, Polls, OwnsNothing, OfUser, Erasing
<1> QED
  BY <1>2, <1>3, <1>4, <1>5, InvUserFlush DEF Erasing, env, counts

\* What save() writes over a row that is there is a row.
LEMMA Merged ==
    ASSUME NEW base \in UserRow, NEW new \in UserRow, NEW read
    PROVE  /\ Merge(base, read, new) \in UserRow
           /\ Merge(base, read, new).email = "erased" =>
                 new.email = "erased" \/ base.email = "erased"
  BY DEF Merge, UserRow

\* The password change saves its row.
LEMMA InvSaveChange ==
    ASSUME IInv, NEW a \in Tasks, SaveChange(a)
    PROVE  IInv'
<1>1. TablesTyped /\ LocalsTyped /\ Registered /\ ErasedIsAnswered /\ InOrder(a)
  BY TypeParts DEF IInv
<1> DEFINE u == subject[a]
           r == Merge(work[UserId(u)], seen[a], want[a])
<1>2. /\ pc[a] = "change" /\ pc'[a] = "commit" /\ UNCHANGED <<env, counts, local>>
      /\ a \in Webs /\ a \notin Pollers /\ u \in Users /\ Known(u)
      /\ WriteRow(a, UserId(u), r) /\ lock[UserId(u)] \in {None, a}
      /\ want[a] # NoUser /\ (want[a].email = "erased" => Answered(u))
  BY <1>1, TasksAssumption
  DEF SaveChange, Goto, LocalsTyped, InOrder, WorksOnUser, OfUser, MayWrite
<1>3. work[UserId(u)] \in UserRow /\ want[a] \in UserRow
  BY <1>1, <1>2 DEF TablesTyped, LocalsTyped, Registered
<1>4. LocalsTyped' /\ OthersStay(a)
  BY <1>1, <1>2 DEF SaveChange, Goto, LocalsTyped, Phase, OthersStay, env, counts, local
<1>5. InOrder(a)'
  BY <1>2 DEF InOrder, WorksOnUser, Processes, Polls, OwnsNothing, OfUser, Erasing
<1>6. work[UserId(u)].email = "erased" => Answered(u)
  BY <1>1, <1>2, NoTaskIsNone, TasksAssumption DEF ErasedIsAnswered, ErasedInHand
<1> QED
  <2>1. r \in UserRow /\ (r.email = "erased" => Answered(u))
    BY <1>2, <1>3, <1>6, Merged
  <2> QED
    BY <1>2, <1>4, <1>5, <2>1, InvUserFlush DEF Erasing, env, counts

\* The poll anonymises the user.
LEMMA InvAnonymise ==
    ASSUME IInv, NEW a \in Tasks, AnonymiseUser(a)
    PROVE  IInv'
<1>1. TablesTyped /\ LocalsTyped /\ Registered /\ InOrder(a)
  BY TypeParts DEF IInv
<1> DEFINE u == subject[a]
           r == Merge(work[UserId(u)], seen[a], want[a])
<1>2. /\ pc[a] = "anonymise" /\ pc'[a] = "close" /\ UNCHANGED <<env, counts, local>>
      /\ a \in Pollers /\ u \in Users /\ Known(u)
      /\ WriteRow(a, UserId(u), r) /\ want[a] = ErasedUser
  BY <1>1 DEF AnonymiseUser, Goto, LocalsTyped, InOrder, Processes, Erasing
<1>3. work[UserId(u)] \in UserRow /\ want[a] \in UserRow
  BY <1>1, <1>2 DEF TablesTyped, Registered, ErasedUser, UserRow
<1>4. LocalsTyped' /\ OthersStay(a)
  BY <1>1, <1>2 DEF AnonymiseUser, Goto, LocalsTyped, Phase, OthersStay, env, counts, local
<1>5. /\ rows' = rows
      /\ \A e \in Erasures : /\ work'[ErasureId(e)] = work[ErasureId(e)]
                             /\ lock'[ErasureId(e)] = lock[ErasureId(e)]
  BY <1>1, <1>2, <1>3, Merged, WrittenUser
<1>6. InOrder(a)'
  <2>1. WorksOnUser(a)' /\ OwnsNothing(a)'
    BY <1>2 DEF WorksOnUser, OwnsNothing, OfUser
  <2>2. Processes(a)' /\ Polls(a)'
    BY <1>1, <1>2, <1>5 DEF InOrder, Processes, Polls, Known, local, LocalsTyped, Erasing
  <2> QED
    BY <2>1, <2>2 DEF InOrder
<1> QED
  <2>1. r \in UserRow
    BY <1>3, Merged
  <2> QED
    BY <1>2, <1>4, <1>6, <2>1, InvUserFlush DEF Erasing, env, counts, local
\* The flush of an erasure request: the one that a web request files, or the one
\* that the poll takes up or has in hand.
LEMMA InvErasureFlush ==
    ASSUME IInv, NEW a \in Tasks, NEW e \in Erasures, NEW r \in ErasureRow,
           WriteRow(a, ErasureId(e), r), lock[ErasureId(e)] \in {None, a},
           OthersStay(a), LocalsTyped', tokens' = tokens, filed <= filed', e <= filed',
           r.subject \in Users, Known(r.subject),
           \/ a \in Webs /\ rows[ErasureId(e)].status = "absent" /\ r.status = "pending"
           \/ a \in Pollers /\ rows[ErasureId(e)].status = "pending",
           r.status = "processing" => pc'[a] \in Erasing /\ cur'[a] = e,
           pc[a] \in Erasing => cur[a] = e,
           pc[a] = "close" => r = [subject |-> subject[a], status |-> "completed"],
           work[ErasureId(e)].status # "completed",
           InOrder(a)'
    PROVE  IInv'
<1>1. /\ TablesTyped /\ LocalsTyped /\ Registered /\ Unfiled /\ Owned /\ ProcessingIsInHand
      /\ ErasedIsAnswered
  BY TypeParts DEF IInv
<1>2. /\ TablesTyped' /\ rows' = rows
      /\ work'[ErasureId(e)] = r /\ lock'[ErasureId(e)] = a
      /\ \A f \in Erasures \ {e} : /\ work'[ErasureId(f)] = work[ErasureId(f)]
                                   /\ lock'[ErasureId(f)] = lock[ErasureId(f)]
      /\ \A u \in Users : /\ work'[UserId(u)] = work[UserId(u)]
                          /\ lock'[UserId(u)] = lock[UserId(u)]
  BY <1>1, WrittenErasure
<1>3. \A u \in Users : Known(u)' = Known(u) /\ Answered(u)' = Answered(u)
  BY <1>2 DEF Known, Answered
<1>4. \A b \in Tasks : InOrder(b)'
  <2>1. \A b \in Pollers : \A f \in todo[b] :
          f \in Erasures /\ lock[ErasureId(f)] = None /\ rows[ErasureId(f)].status = "pending"
    BY <1>1, TasksAssumption DEF IInv, InOrder, Polls, LocalsTyped
  <2>2. \A b \in Pollers \ {a} : e \notin todo[b]
    BY <2>1, OneWorker
  <2>3. \A b \in Tasks \ {a} : lock[ErasureId(e)] # b
    BY NoTaskIsNone
  <2>4. \A b \in Tasks \ {a}, f \in Erasures :
          /\ lock'[ErasureId(f)] = b <=> lock[ErasureId(f)] = b
          /\ lock[ErasureId(f)] = b => work'[ErasureId(f)] = work[ErasureId(f)]
          /\ f \in todo[b] /\ b \in Pollers =>
                lock'[ErasureId(f)] = None /\ rows'[ErasureId(f)] = rows[ErasureId(f)]
    BY <1>2, <2>1, <2>2, <2>3
  <2> QED
    BY <1>3, <2>4, OthersInOrder
<1>5. Registered'
  BY <1>1, <1>2, <1>3 DEF Registered, Known, LocalsTyped
<1>6. Unfiled'
  BY <1>1, <1>2 DEF Unfiled, LocalsTyped, Erasures
<1>7. Owned'
  BY <1>1, <1>2, TasksAssumption, NoTaskIsNone DEF Owned
<1>8. ProcessingIsInHand'
  <2>1. \A f \in Erasures \ {e} : work'[ErasureId(f)].status = "processing" =>
          \E b \in Pollers : pc'[b] \in Erasing /\ cur'[b] = f
    BY <1>1, <1>2, TasksAssumption DEF ProcessingIsInHand, OthersStay
  <2>2. work'[ErasureId(e)].status = "processing" =>
          \E b \in Pollers : pc'[b] \in Erasing /\ cur'[b] = e
    BY <1>2, TasksAssumption
  <2>3. NoCommittedProcessing'
    BY <1>1, <1>2 DEF ProcessingIsInHand, NoCommittedProcessing, ErasureStatus
  <2> QED
    BY <2>1, <2>2, <2>3 DEF ProcessingIsInHand
<1>9. ErasedIsAnswered'
  <2>1. ErasedOnlyByCompletion'
    BY <1>1, <1>2 DEF ErasedIsAnswered, ErasedOnlyByCompletion, Answered
  <2>2. ASSUME NEW u \in Users, ErasedInHand(u) PROVE ErasedInHand(u)'
    <3>1. PICK b \in Pollers :
            /\ lock[UserId(u)] = b
            /\ \/ pc[b] = "close" /\ subject[b] = u
               \/ \E f \in Erasures :
                     /\ lock[ErasureId(f)] = b
                     /\ work[ErasureId(f)] = [subject |-> u, status |-> "completed"]
      BY <2>2 DEF ErasedInHand
    <3>2. lock'[UserId(u)] = b
      BY <1>2, <3>1
    <3>3. CASE \E f \in Erasures :
                 /\ lock[ErasureId(f)] = b
                 /\ work[ErasureId(f)] = [subject |-> u, status |-> "completed"]
      BY <1>2, <3>2, <3>3 DEF ErasedInHand
    <3>4. CASE b = a /\ pc[a] = "close" /\ subject[a] = u
      BY <1>2, <3>2, <3>4 DEF ErasedInHand
    <3>5. CASE b # a /\ pc[b] = "close" /\ subject[b] = u
      BY <3>2, <3>5, TasksAssumption DEF ErasedInHand, OthersStay
    <3> QED
      BY <3>1, <3>3, <3>4, <3>5
  <2> QED
    BY <1>1, <1>2, <1>3, <2>1, <2>2 DEF ErasedIsAnswered
<1> QED
  BY <1>2, <1>4, <1>5, <1>6, <1>7, <1>8, <1>9, TypeParts DEF IInv
\* A request is filed.
LEMMA InvFile ==
    ASSUME IInv, NEW a \in Tasks, FileErasure(a)
    PROVE  IInv'
<1>1. TablesTyped /\ LocalsTyped /\ Unfiled /\ InOrder(a)
  BY TypeParts DEF IInv
<1> DEFINE e == filed + 1
           r == [subject |-> subject[a], status |-> "pending"]
<1>2. /\ pc[a] = "file" /\ pc'[a] = "commit" /\ tokens' = tokens /\ filed' = e /\ filed < MaxErasures
      /\ a \in Webs /\ a \notin Pollers /\ subject[a] \in Users /\ Known(subject[a])
      /\ WriteRow(a, ErasureId(e), r) /\ UNCHANGED local
  BY <1>1, TasksAssumption
  DEF FileErasure, Goto, LocalsTyped, InOrder, WorksOnUser, OfUser, env
<1>3. e \in Erasures /\ e > filed /\ filed \in Nat /\ r \in ErasureRow
  BY <1>1, <1>2, BoundsAssumption DEF LocalsTyped, Erasures, ErasureRow, Status
<1>4. LocalsTyped' /\ OthersStay(a)
  BY <1>1, <1>2, BoundsAssumption
  DEF FileErasure, Goto, LocalsTyped, Phase, OthersStay, env, local
<1>5. InOrder(a)'
  BY <1>2 DEF InOrder, WorksOnUser, Processes, Polls, OwnsNothing, OfUser, Erasing
<1>6. /\ lock[ErasureId(e)] = None /\ rows[ErasureId(e)].status = "absent"
      /\ work[ErasureId(e)].status = "absent"
  BY <1>1, <1>3 DEF Unfiled
<1>7. filed <= filed' /\ e <= filed'
  BY <1>2, <1>3
<1> QED
  BY <1>2, <1>3, <1>4, <1>5, <1>6, <1>7, InvErasureFlush DEF Erasing

\* A request with another status.
LEMMA StatusSaved ==
    ASSUME NEW row \in ErasureRow, NEW s \in Status
    PROVE  /\ [row EXCEPT !.status = s] \in ErasureRow
           /\ [row EXCEPT !.status = s] = [subject |-> row.subject, status |-> s]
  BY DEF ErasureRow

\* The poll takes a request up.
LEMMA InvProcess ==
    ASSUME IInv, NEW a \in Tasks, ProcessOne(a)
    PROVE  IInv'
<1>1. TablesTyped /\ LocalsTyped /\ Registered /\ Owned /\ InOrder(a)
  BY TypeParts DEF IInv
<1>2. PICK e \in todo[a] :
        /\ todo' = [todo EXCEPT ![a] = @ \ {e}]
        /\ cur' = [cur EXCEPT ![a] = e]
        /\ subject' = [subject EXCEPT ![a] = rows[ErasureId(e)].subject]
        /\ SaveStatus(a, e, "processing")
  BY DEF ProcessOne
<1> DEFINE row == rows[ErasureId(e)]
           r == [subject |-> row.subject, status |-> "processing"]
<1>3. /\ pc[a] = "next" /\ pc'[a] = "privacy" /\ UNCHANGED <<env, counts, want, seen, known>>
      /\ a \in Pollers /\ e \in Erasures
      /\ lock[ErasureId(e)] = None /\ row.status = "pending"
  BY <1>1, <1>2 DEF ProcessOne, Goto, LocalsTyped, InOrder, Polls
<1>4. row \in ErasureRow /\ row.subject \in Users /\ Known(row.subject) /\ work[ErasureId(e)] = row
  BY <1>1, <1>3 DEF TablesTyped, Registered, Owned
<1>5. WriteRow(a, ErasureId(e), r) /\ r \in ErasureRow
  BY <1>2, <1>3, <1>4, StatusSaved, NoTaskIsNone DEF SaveStatus, Visible, Status
<1>6. LocalsTyped' /\ OthersStay(a)
  BY <1>1, <1>2, <1>3, <1>4 DEF ProcessOne, Goto, LocalsTyped, Phase, OthersStay, env, counts
<1>7. /\ rows' = rows /\ work'[ErasureId(e)] = r /\ lock'[ErasureId(e)] = a
      /\ \A f \in Erasures \ {e} : lock'[ErasureId(f)] = lock[ErasureId(f)]
  BY <1>1, <1>3, <1>5, WrittenErasure
<1>8. InOrder(a)'
  <2>1. todo'[a] = todo[a] \ {e} /\ cur'[a] = e /\ subject'[a] = row.subject
    BY <1>1, <1>2 DEF LocalsTyped
  <2>2. WorksOnUser(a)' /\ OwnsNothing(a)'
    BY <1>3 DEF WorksOnUser, OwnsNothing, OfUser
  <2>3. Processes(a)'
    BY <1>3, <1>4, <1>7, <2>1 DEF Processes, Known
  <2>4. Polls(a)'
    BY <1>1, <1>3, <1>7, <2>1 DEF InOrder, Polls, LocalsTyped
  <2> QED
    BY <2>2, <2>3, <2>4 DEF InOrder
<1>9. pc'[a] \in Erasing /\ cur'[a] = e /\ pc[a] \notin Erasing /\ pc[a] # "close"
  BY <1>1, <1>2, <1>3 DEF Erasing, LocalsTyped
<1>10. e <= filed /\ filed' = filed /\ tokens' = tokens /\ filed \in Nat
  BY <1>1, <1>3 DEF IInv, Unfiled, LocalsTyped, Erasures, counts, env
<1> QED
  BY <1>3, <1>4, <1>5, <1>6, <1>8, <1>9, <1>10, InvErasureFlush

\* The poll answers the request in hand, with success or failure.
LEMMA InvAnswer ==
    ASSUME IInv, NEW a \in Tasks, CompleteErasure(a) \/ EraserRaises(a)
    PROVE  IInv'
<1>1. TablesTyped /\ LocalsTyped /\ Registered /\ Owned /\ InOrder(a)
  BY TypeParts DEF IInv
<1> DEFINE e == cur[a]
           s == IF pc[a] = "close" THEN "completed" ELSE "failed"
           r == [subject |-> subject[a], status |-> s]
<1>2. /\ pc[a] \in Erasing /\ SaveStatus(a, e, s) /\ NextRequest(a)
      /\ UNCHANGED <<env, filed, stored, changes>> /\ aborts' \in Nat
  BY <1>1 DEF CompleteErasure, EraserRaises, Erasing, LocalsTyped, counts
<1>3. /\ a \in Pollers /\ e \in Erasures /\ subject[a] \in Users /\ Known(subject[a])
      /\ lock[ErasureId(e)] = a
      /\ work[ErasureId(e)] = [subject |-> subject[a], status |-> "processing"]
      /\ rows[ErasureId(e)].status = "pending"
  BY <1>1, <1>2 DEF InOrder, Processes, Owned
<1>4. WriteRow(a, ErasureId(e), r) /\ r \in ErasureRow
  <2>1. work[ErasureId(e)] \in ErasureRow /\ s \in Status
    BY <1>1, <1>3 DEF TablesTyped, Status
  <2>2. [work[ErasureId(e)] EXCEPT !.status = s] = r /\ r \in ErasureRow
    BY <1>3, <2>1, StatusSaved
  <2> QED
    BY <1>2, <1>3, <2>2 DEF SaveStatus, Visible
<1>5. LocalsTyped' /\ OthersStay(a) /\ pc'[a] = "next" /\ todo' = todo
  BY <1>1, <1>2 DEF NextRequest, Goto, LocalsTyped, Phase, OthersStay, env
<1>6. /\ rows' = rows
      /\ \A f \in Erasures \ {e} : lock'[ErasureId(f)] = lock[ErasureId(f)]
  BY <1>1, <1>3, <1>4, WrittenErasure
<1>7. InOrder(a)'
  <2>1. Polls(a)'
    BY <1>1, <1>3, <1>5, <1>6, NoTaskIsNone DEF InOrder, Polls, LocalsTyped
  <2> QED
    BY <1>5, <2>1 DEF InOrder, WorksOnUser, Processes, OwnsNothing, OfUser, Erasing
<1>8. e <= filed /\ filed' = filed /\ tokens' = tokens /\ filed \in Nat
  BY <1>1, <1>2, <1>3, NoTaskIsNone DEF IInv, Unfiled, LocalsTyped, Erasures, env
<1> HIDE DEF e
<1> QED
  BY <1>2, <1>3, <1>4, <1>5, <1>7, <1>8, InvErasureFlush DEF e
\* Nobody holds the lock on a request that was answered.
LEMMA AnswersUnlocked ==
    ASSUME TablesTyped, Owned, NEW e \in Erasures,
           rows[ErasureId(e)].status \in {"completed", "failed"}
    PROVE  lock[ErasureId(e)] = None
<1>1. lock[ErasureId(e)] \in Webs \cup Pollers \cup {None}
  BY IdsDiffer, TasksAssumption DEF TablesTyped
<1> QED
  BY <1>1 DEF Owned

\* The commit of a request, or of a poll at the end of its list: not while a
\* request is in hand, so nothing in processing is committed.
LEMMA InvCommit ==
    ASSUME IInv, NEW a \in Tasks, Commit(a)
    PROVE  IInv'
<1>1. /\ TablesTyped /\ LocalsTyped /\ Registered /\ Unfiled /\ Owned /\ ProcessingIsInHand
      /\ ErasedIsAnswered /\ \A b \in Tasks : InOrder(b)
  BY TypeParts DEF IInv
<1>2. /\ pc[a] \notin Erasing /\ CommitRows(Waits, a) /\ EndTask(a) /\ UNCHANGED <<env, counts>>
  BY DEF Commit, Erasing
<1>3. /\ TablesTyped' /\ work' = work
      /\ \A k \in RowIds : lock[k] = a => rows'[k] = work[k]
      /\ \A k \in RowIds : lock[k] # a => rows'[k] = rows[k] /\ lock'[k] = lock[k]
      /\ \A e \in Erasures : lock[ErasureId(e)] = a => lock'[ErasureId(e)] = None
  BY <1>1, <1>2, Committed
<1>4. LocalsTyped' /\ OthersStay(a) /\ pc'[a] = "idle" /\ todo'[a] = {}
  BY <1>1, <1>2, Ended DEF LocalsTyped, env, counts
<1>5. \A u \in Users : UserId(u) \in RowIds /\ (Known(u) => Known(u)')
  BY <1>1, <1>3, IdsDiffer DEF Known, Registered
<1>6. \A u \in Users : Answered(u) => Answered(u)'
  <2> SUFFICES ASSUME NEW e \in Erasures, NEW u \in Users,
                      rows[ErasureId(e)] = [subject |-> u, status |-> "completed"]
               PROVE  rows'[ErasureId(e)] = rows[ErasureId(e)]
    BY DEF Answered
  <2>1. lock[ErasureId(e)] = None
    BY <1>1, AnswersUnlocked
  <2> QED
    BY <1>3, <2>1, IdsDiffer, NoTaskIsNone
<1>7. \A e \in Erasures : ErasureId(e) \in RowIds
  BY IdsDiffer
<1>8. \A b \in Tasks : InOrder(b)'
  <2>1. InOrder(a)'
    BY <1>3, <1>4, <1>7, NoTaskIsNone
    DEF InOrder, WorksOnUser, Processes, Polls, OwnsNothing, OfUser, Erasing
  <2>2. \A b \in Pollers : \A e \in todo[b] : e \in Erasures /\ lock[ErasureId(e)] = None
    BY <1>1, TasksAssumption DEF InOrder, Polls, LocalsTyped
  <2>3. \A b \in Tasks \ {a}, e \in Erasures :
          /\ lock'[ErasureId(e)] = b <=> lock[ErasureId(e)] = b
          /\ lock[ErasureId(e)] = b => work'[ErasureId(e)] = work[ErasureId(e)]
          /\ e \in todo[b] /\ b \in Pollers =>
                lock'[ErasureId(e)] = None /\ rows'[ErasureId(e)] = rows[ErasureId(e)]
    BY <1>3, <1>7, <2>2, NoTaskIsNone
  <2> QED
    BY <1>4, <1>5, <1>6, <2>1, <2>3, OthersInOrder
<1>9. Registered'
  <2>1. (\A u \in tokens : Known(u))'
    BY <1>1, <1>2, <1>5 DEF Registered, env, LocalsTyped
  <2>2. (\A u \in Users : Known(u) => work[UserId(u)] # NoUser)'
    BY <1>1, <1>3, <1>5 DEF Registered, Known
  <2>3. (\A e \in Erasures : \A r \in {rows[ErasureId(e)], work[ErasureId(e)]} :
          r.status # "absent" => r.subject \in Users /\ Known(r.subject))'
    BY <1>1, <1>3, <1>5, <1>7 DEF Registered
  <2> QED
    BY <2>1, <2>2, <2>3 DEF Registered
<1>10. Unfiled' /\ Owned'
  <2>1. Unfiled'
    BY <1>1, <1>2, <1>3, <1>7, NoTaskIsNone DEF Unfiled, counts
  <2>2. Owned'
    BY <1>1, <1>3, <1>7, NoTaskIsNone, TasksAssumption DEF Owned
  <2> QED
    BY <2>1, <2>2
<1>11. ProcessingIsInHand'
  <2>1. \A e \in Erasures : work[ErasureId(e)].status = "processing" => lock[ErasureId(e)] # a
    <3> SUFFICES ASSUME NEW e \in Erasures, work[ErasureId(e)].status = "processing"
                 PROVE  lock[ErasureId(e)] # a
      OBVIOUS
    <3>1. PICK b \in Pollers : pc[b] \in Erasing /\ cur[b] = e
      BY <1>1 DEF ProcessingIsInHand
    <3>2. lock[ErasureId(e)] = b
      BY <1>1, <3>1, TasksAssumption DEF InOrder, Processes
    <3> QED
      BY <1>2, <3>1, <3>2
  <2>2. NoCommittedProcessing'
    BY <1>1, <1>3, <1>7, <2>1 DEF ProcessingIsInHand, NoCommittedProcessing, ErasureStatus
  <2>3. \A b \in Pollers : pc[b] \in Erasing => b # a /\ pc'[b] = pc[b] /\ cur'[b] = cur[b]
    BY <1>2, <1>4, TasksAssumption DEF OthersStay
  <2> QED
    BY <1>1, <1>3, <2>2, <2>3 DEF ProcessingIsInHand
<1>12. ErasedIsAnswered'
  <2>1. ASSUME NEW u \in Users, ErasedInHand(u)
        PROVE  IF lock[UserId(u)] = a THEN Answered(u)' ELSE ErasedInHand(u)'
    <3>1. PICK b \in Pollers :
            /\ lock[UserId(u)] = b
            /\ \/ pc[b] = "close" /\ subject[b] = u
               \/ \E e \in Erasures :
                     /\ lock[ErasureId(e)] = b
                     /\ work[ErasureId(e)] = [subject |-> u, status |-> "completed"]
      BY <2>1 DEF ErasedInHand
    <3>2. CASE b = a
      <4>1. \E e \in Erasures : rows'[ErasureId(e)] = [subject |-> u, status |-> "completed"]
        BY <1>2, <1>3, <1>7, <3>1, <3>2 DEF Erasing
      <4> QED
        BY <3>1, <3>2, <4>1 DEF Answered
    <3>3. CASE b # a
      <4>1. lock'[UserId(u)] = b /\ pc'[b] = pc[b] /\ subject'[b] = subject[b]
        BY <1>3, <1>4, <1>5, <3>1, <3>3, TasksAssumption DEF OthersStay
      <4>2. \A e \in Erasures : lock[ErasureId(e)] = b => lock'[ErasureId(e)] = b
        BY <1>3, <1>7, <3>3
      <4>3. ErasedInHand(u)'
        BY <1>3, <3>1, <4>1, <4>2 DEF ErasedInHand
      <4> QED
        BY <3>1, <3>3, <4>3
    <3> QED
      BY <3>2, <3>3
  <2>2. ErasedOnlyByCompletion'
    <3> SUFFICES ASSUME NEW u \in Users, rows'[UserId(u)].email = "erased" PROVE Answered(u)'
      BY DEF ErasedOnlyByCompletion, Answered
    <3>1. CASE lock[UserId(u)] = a
      <4>1. work[UserId(u)].email = "erased"
        BY <1>3, <1>5, <3>1
      <4> QED
        BY <1>1, <1>6, <2>1, <3>1, <4>1 DEF ErasedIsAnswered
    <3>2. CASE lock[UserId(u)] # a
      <4>1. rows[UserId(u)].email = "erased"
        BY <1>3, <1>5, <3>2
      <4>2. Answered(u)
        BY <1>1, <4>1 DEF ErasedIsAnswered, ErasedOnlyByCompletion, Answered
      <4> QED
        BY <1>6, <4>2
    <3> QED
      BY <3>1, <3>2
  <2> QED
    BY <1>1, <1>3, <1>6, <2>1, <2>2 DEF ErasedIsAnswered
<1> QED
  BY <1>3, <1>4, <1>8, <1>9, <1>10, <1>11, <1>12, TypeParts DEF IInv
\* A rollback takes back what its task wrote and nothing else.
LEMMA InvRollback ==
    ASSUME IInv, NEW a \in Tasks, RollbackRows(Waits, a), EndTask(a),
           UNCHANGED <<tokens, filed, stored, changes>>, running' \subseteq running, aborts' \in Nat
    PROVE  IInv'
<1>1. /\ TablesTyped /\ LocalsTyped /\ Registered /\ Unfiled /\ Owned /\ ProcessingIsInHand
      /\ ErasedIsAnswered /\ \A b \in Tasks : InOrder(b)
  BY TypeParts DEF IInv
<1>2. /\ TablesTyped' /\ rows' = rows
      /\ \A k \in RowIds : lock[k] = a => work'[k] = rows[k]
      /\ \A k \in RowIds : lock[k] # a => work'[k] = work[k] /\ lock'[k] = lock[k]
      /\ \A e \in Erasures : lock[ErasureId(e)] = a => lock'[ErasureId(e)] = None
  BY <1>1, RolledBack
<1>3. LocalsTyped' /\ OthersStay(a) /\ pc'[a] = "idle" /\ todo'[a] = {}
  BY <1>1, Ended DEF LocalsTyped
<1>4. \A u \in Users : /\ UserId(u) \in RowIds
                       /\ Known(u)' = Known(u) /\ Answered(u)' = Answered(u)
  BY <1>2, IdsDiffer DEF Known, Answered
<1>5. \A e \in Erasures : ErasureId(e) \in RowIds
  BY IdsDiffer
<1>6. \A b \in Tasks : InOrder(b)'
  <2>1. InOrder(a)'
    BY <1>2, <1>3, <1>5, NoTaskIsNone
    DEF InOrder, WorksOnUser, Processes, Polls, OwnsNothing, OfUser, Erasing
  <2>2. \A b \in Pollers : \A e \in todo[b] : e \in Erasures /\ lock[ErasureId(e)] = None
    BY <1>1, TasksAssumption DEF InOrder, Polls, LocalsTyped
  <2>3. \A b \in Tasks \ {a}, e \in Erasures :
          /\ lock'[ErasureId(e)] = b <=> lock[ErasureId(e)] = b
          /\ lock[ErasureId(e)] = b => work'[ErasureId(e)] = work[ErasureId(e)]
          /\ e \in todo[b] /\ b \in Pollers =>
                lock'[ErasureId(e)] = None /\ rows'[ErasureId(e)] = rows[ErasureId(e)]
    BY <1>2, <1>5, <2>2, NoTaskIsNone
  <2> QED
    BY <1>3, <1>4, <2>1, <2>3, OthersInOrder
<1>7. Registered'
  <2>1. (\A u \in tokens : Known(u))'
    BY <1>1, <1>4 DEF Registered, LocalsTyped
  <2>2. (\A u \in Users : Known(u) => work[UserId(u)] # NoUser)'
    BY <1>1, <1>2, <1>4 DEF Registered, Known
  <2>3. (\A e \in Erasures : \A r \in {rows[ErasureId(e)], work[ErasureId(e)]} :
          r.status # "absent" => r.subject \in Users /\ Known(r.subject))'
    BY <1>1, <1>2, <1>4, <1>5 DEF Registered
  <2> QED
    BY <2>1, <2>2, <2>3 DEF Registered
<1>8. Unfiled'
  BY <1>1, <1>2, <1>5, NoTaskIsNone DEF Unfiled
<1>9. Owned'
  BY <1>1, <1>2, <1>5, NoTaskIsNone, TasksAssumption DEF Owned
<1>10. ProcessingIsInHand'
  <2>1. NoCommittedProcessing'
    BY <1>1, <1>2 DEF ProcessingIsInHand, NoCommittedProcessing, ErasureStatus
  <2>2. ASSUME NEW e \in Erasures, work'[ErasureId(e)].status = "processing"
        PROVE  \E b \in Pollers : pc'[b] \in Erasing /\ cur'[b] = e
    <3>1. lock[ErasureId(e)] # a /\ work[ErasureId(e)].status = "processing"
      BY <1>1, <1>2, <1>5, <2>2 DEF ProcessingIsInHand, NoCommittedProcessing, ErasureStatus
    <3>2. PICK b \in Pollers : pc[b] \in Erasing /\ cur[b] = e
      BY <1>1, <3>1 DEF ProcessingIsInHand
    <3>3. lock[ErasureId(e)] = b
      BY <1>1, <3>2, TasksAssumption DEF InOrder, Processes
    <3> QED
      BY <1>3, <3>1, <3>2, <3>3, TasksAssumption DEF OthersStay
  <2> QED
    BY <2>1, <2>2 DEF ProcessingIsInHand
<1>11. ErasedIsAnswered'
  <2>1. ASSUME NEW u \in Users, ErasedInHand(u), lock[UserId(u)] # a
        PROVE  ErasedInHand(u)'
    <3>1. PICK b \in Pollers :
            /\ lock[UserId(u)] = b
            /\ \/ pc[b] = "close" /\ subject[b] = u
               \/ \E e \in Erasures :
                     /\ lock[ErasureId(e)] = b
                     /\ work[ErasureId(e)] = [subject |-> u, status |-> "completed"]
      BY <2>1 DEF ErasedInHand
    <3>2. lock'[UserId(u)] = b /\ pc'[b] = pc[b] /\ subject'[b] = subject[b]
      BY <1>2, <1>3, <1>4, <2>1, <3>1, TasksAssumption DEF OthersStay
    <3>3. \A e \in Erasures : lock[ErasureId(e)] = b =>
            lock'[ErasureId(e)] = b /\ work'[ErasureId(e)] = work[ErasureId(e)]
      BY <1>2, <1>5, <2>1, <3>1
    <3> QED
      BY <3>1, <3>2, <3>3 DEF ErasedInHand
  <2>2. ErasedOnlyByCompletion'
    BY <1>1, <1>2 DEF ErasedIsAnswered, ErasedOnlyByCompletion, Answered
  <2>3. \A u \in Users : rows[UserId(u)].email = "erased" => Answered(u)
    BY <1>1 DEF ErasedIsAnswered, ErasedOnlyByCompletion, Answered
  <2>4. ASSUME NEW u \in Users, work'[UserId(u)].email = "erased"
        PROVE  Answered(u)' \/ ErasedInHand(u)'
    <3>1. CASE lock[UserId(u)] = a
      BY <1>2, <1>4, <2>3, <2>4, <3>1
    <3>2. CASE lock[UserId(u)] # a
      BY <1>1, <1>2, <1>4, <2>1, <2>4, <3>2 DEF ErasedIsAnswered
    <3> QED
      BY <3>1, <3>2
  <2> QED
    BY <2>2, <2>4 DEF ErasedIsAnswered
<1> QED
  BY <1>2, <1>3, <1>6, <1>7, <1>8, <1>9, <1>10, <1>11, TypeParts DEF IInv

\* What takes a whole transaction back: a crash, the stop of the worker, a
\* registration that the unique columns refuse.
LEMMA InvFaults ==
    ASSUME IInv, NEW a \in Tasks,
           \/ Abort(a) \/ StopWorker(a)
           \/ InsertUser(a) /\ rows[UserId(subject[a])] # NoUser
    PROVE  IInv'
<1>1. aborts \in Nat
  BY DEF IInv, TypeOK
<1>2. CASE Abort(a)
  BY <1>1, <1>2, InvRollback DEF Abort, env
<1>3. CASE StopWorker(a)
  BY <1>1, <1>3, InvRollback DEF StopWorker
<1>4. CASE InsertUser(a) /\ rows[UserId(subject[a])] # NoUser
  BY <1>1, <1>4, InvRollback DEF InsertUser, env, counts
<1> QED
  BY <1>2, <1>3, <1>4
-------------------------------------------------------------------------------
(* The theorems.                                                             *)

\* Nothing is stored and nobody works.
LEMMA InvInit == Init => IInv
<1> SUFFICES ASSUME Init PROVE IInv
  OBVIOUS
<1>1. \A table \in {rows, work} :
        /\ DOMAIN table = RowIds
        /\ \A u \in Users : table[UserId(u)] = NoUser
        /\ \A e \in Erasures : table[ErasureId(e)] = AbsentErasure
        /\ \A i \in Items : table[ItemId(i)] = AbsentItem
  BY IdsDiffer DEF Init
<1>2. TablesTyped
  <2>1. AbsentErasure \in ErasureRow /\ AbsentItem \in ItemRow
    BY DEF AbsentErasure, AbsentItem, ErasureRow, ItemRow, Status
  <2>2. lock \in [RowIds -> Tasks \cup {None}]
    BY DEF Init
  <2> QED
    BY <1>1, <2>1, <2>2 DEF TablesTyped
<1>3. LocalsTyped
  BY BoundsAssumption DEF Init, LocalsTyped, Phase
<1>4. Registered /\ Unfiled /\ Owned
  <2>1. AbsentErasure.status = "absent"
    BY DEF AbsentErasure
  <2>2. \A e \in Erasures : lock[ErasureId(e)] = None
    BY IdsDiffer DEF Init
  <2>3. tokens = {} /\ rows = work
    BY DEF Init
  <2> QED
    BY <1>1, <2>1, <2>2, <2>3, NoTaskIsNone, TasksAssumption DEF Registered, Unfiled, Owned, Known
<1>5. ProcessingIsInHand
  BY <1>1 DEF ProcessingIsInHand, NoCommittedProcessing, ErasureStatus, AbsentErasure
<1>6. ErasedIsAnswered
  BY <1>1 DEF ErasedIsAnswered, ErasedOnlyByCompletion, NoUser
<1>7. \A a \in Tasks : InOrder(a)
  BY IdsDiffer, NoTaskIsNone
  DEF Init, InOrder, WorksOnUser, Processes, Polls, OwnsNothing, OfUser, Erasing
<1> QED
  BY <1>2, <1>3, <1>4, <1>5, <1>6, <1>7, TypeParts DEF IInv

\* Every step keeps the invariant, the erasers' flushes and the commits included.
LEMMA InvNext == IInv /\ [Next]_vars => IInv'
<1> SUFFICES ASSUME IInv, [Next]_vars PROVE IInv'
  OBVIOUS
<1>1. CASE \E a \in Tasks : Step(a)
  <2> SUFFICES ASSUME NEW a \in Tasks, Step(a) PROVE IInv'
    BY <1>1
  <2>1. CASE InsertUser(a)
    BY <2>1, InvInsert, InvFaults
  <2>2. CASE IssueToken(a) \/ RereadUser(a) \/ ReadUser(a)
    BY <2>2, InvReads
  <2>3. CASE FileErasure(a) \/ ProcessOne(a) \/ CompleteErasure(a)
    BY <2>3, InvFile, InvProcess, InvAnswer
  <2>4. CASE SaveChange(a) \/ AnonymiseUser(a)
    BY <2>4, InvSaveChange, InvAnonymise
  <2>5. CASE ErasePrivacy(a) \/ EraseInvitations(a) \/ DeleteTokens(a)
    BY <2>5, InvErasers
  <2>6. CASE Commit(a)
    BY <2>6, InvCommit
  <2> QED
    BY <2>1, <2>2, <2>3, <2>4, <2>5, <2>6 DEF Step
<1>2. CASE \E a \in Tasks : StartPoll(a) \/ EraserRaises(a) \/ Abort(a)
  BY <1>2, InvReads, InvAnswer, InvFaults
<1>3. CASE \E a \in Pollers : StartWorker(a) \/ StopWorker(a)
  BY <1>3, InvWorld, InvFaults, TasksAssumption
<1>4. CASE \E u \in Users : Expire(u)
  BY <1>4, InvWorld
<1>5. CASE \E a \in Tasks, u \in Users :
             Register(a, u) \/ Login(a, u) \/ RequestErasure(a, u) \/ ChangePassword(a, u)
  BY <1>5, InvStarts
<1>6. CASE \E a \in Tasks, u \in Users, kind \in {"token", "invitation", "export"} :
             LeaveItem(a, u, kind)
  BY <1>6, InvItem
<1>7. CASE UNCHANGED vars
  BY <1>7, InvWorld
<1> QED
  BY <1>1, <1>2, <1>3, <1>4, <1>5, <1>6, <1>7 DEF Next

\* The inductive invariant holds throughout.
LEMMA Invariant == Spec => []IInv
<1>1. Init => IInv
  BY InvInit
<1>2. IInv /\ [Next]_vars => IInv'
  BY InvNext
<1> QED
  BY <1>1, <1>2, PTL DEF Spec
\* Every version of every row, every lock and every local is what the code makes
\* it: in particular a poll writes a whole user row over a whole user row.
THEOREM TypeCorrect == Spec => []TypeOK
<1>1. IInv => TypeOK
  BY DEF IInv
<1> QED
  BY <1>1, Invariant, PTL

\* Whatever eraser fails and whenever the worker crashes, is stopped or loses its
\* database, no erasure request is stored as processing: it stays pending, and
\* listed, or it is answered.
THEOREM NeverStuckInProcessing == Spec => []NoCommittedProcessing
<1>1. IInv => NoCommittedProcessing
  BY DEF IInv, ProcessingIsInHand
<1> QED
  BY <1>1, Invariant, PTL

\* The anonymised user row and the completed request reach the database in one
\* commit, and a password change that read the row before or after does not bring
\* one without the other.
THEOREM ErasedOnlyWithAnswer == Spec => []ErasedOnlyByCompletion
<1>1. IInv => ErasedOnlyByCompletion
  BY DEF IInv, ErasedIsAnswered
<1> QED
  BY <1>1, Invariant, PTL

\* What a step writes to a request that is answered: nothing.
LEMMA AnswerStays ==
    ASSUME IInv, [Next]_vars, NEW e \in Erasures, ErasureStatus(e) \in {"completed", "failed"}
    PROVE  rows'[ErasureId(e)] = rows[ErasureId(e)]
<1>1. TablesTyped /\ Owned
  BY TypeParts DEF IInv
<1>2. lock[ErasureId(e)] = None /\ ErasureId(e) \in RowIds
  BY <1>1, AnswersUnlocked, IdsDiffer DEF ErasureStatus
<1>3. CASE \E a \in Tasks : CommitRows(Waits, a)
  BY <1>1, <1>2, <1>3, Committed, NoTaskIsNone
<1>4. CASE rows' = rows
  BY <1>4
<1>5. ASSUME NEW a \in Tasks, Step(a)
      PROVE  CommitRows(Waits, a) \/ rows' = rows
  <2>1. CASE InsertUser(a) \/ IssueToken(a) \/ FileErasure(a)
    BY <2>1 DEF InsertUser, IssueToken, FileErasure, WriteRow, RollbackRows, tables
  <2>2. CASE RereadUser(a) \/ SaveChange(a)
    BY <2>2 DEF RereadUser, SaveChange, WriteRow, tables
  <2>3. CASE ProcessOne(a) \/ ErasePrivacy(a) \/ EraseInvitations(a) \/ DeleteTokens(a)
    BY <2>3 DEF ProcessOne, ErasePrivacy, EraseInvitations, DeleteTokens, SaveStatus,
                DeleteItems, WriteRow, tables
  <2>4. CASE ReadUser(a) \/ AnonymiseUser(a) \/ CompleteErasure(a)
    BY <2>4 DEF ReadUser, AnonymiseUser, CompleteErasure, SaveStatus, WriteRow, tables
  <2>5. CASE Commit(a)
    BY <2>5 DEF Commit
  <2> QED
    BY <1>5, <2>1, <2>2, <2>3, <2>4, <2>5 DEF Step
<1>6. ASSUME NEW a \in Tasks, StartPoll(a) \/ EraserRaises(a) \/ Abort(a)
      PROVE  rows' = rows
  BY <1>6 DEF StartPoll, EraserRaises, Abort, SaveStatus, WriteRow, RollbackRows, tables
<1>7. ASSUME NEW a \in Pollers, StartWorker(a) \/ StopWorker(a)
      PROVE  rows' = rows
  BY <1>7 DEF StartWorker, StopWorker, RollbackRows, tables
<1>8. ASSUME NEW a \in Tasks, NEW u \in Users,
             Register(a, u) \/ Login(a, u) \/ RequestErasure(a, u) \/ ChangePassword(a, u)
      PROVE  rows' = rows
  BY <1>8 DEF Register, Login, RequestErasure, ChangePassword, WriteRow, tables
<1>9. ASSUME NEW a \in Tasks, NEW u \in Users, NEW kind, LeaveItem(a, u, kind)
      PROVE  rows' = rows
  BY <1>9 DEF LeaveItem, WriteRow, tables
<1>10. ASSUME NEW u \in Users, Expire(u)
       PROVE  rows' = rows
  BY <1>10 DEF Expire, tables
<1>11. Next => (\E a \in Tasks : CommitRows(Waits, a)) \/ rows' = rows
  BY <1>5, <1>6, <1>7, <1>8, <1>9, <1>10 DEF Next
<1> QED
  BY <1>3, <1>4, <1>11 DEF vars, tables

\* A request that was answered is never taken up again, by no later poll and no
\* retry: an erasure that failed half-way is reported once and stays reported.
THEOREM AnsweredOnce == Spec => AnswerIsFinal
<1>1. IInv /\ [Next]_vars =>
        [\A e \in Erasures : ErasureStatus(e) \in {"completed", "failed"}
           => UNCHANGED ErasureStatus(e)]_vars
  BY AnswerStays DEF ErasureStatus
<1> QED
  BY <1>1, Invariant, PTL DEF Spec, AnswerIsFinal
=============================================================================
