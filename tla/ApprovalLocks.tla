--------------------------- MODULE ApprovalLocks ---------------------------
(***************************************************************************)
(* The approval gate statement by statement: the transactions that open,   *)
(* resolve and reopen approvals (api/approvals.py) and those that move a   *)
(* task on a board with block_status_changes_with_pending_approval         *)
(* (api/tasks.py), interleaved at every query, under PostgreSQL's READ     *)
(* COMMITTED isolation and row locks.                                      *)
(*                                                                         *)
(* What a transaction writes is visible to the others from its commit on,  *)
(* so one step both writes and commits; the locks are taken earlier.       *)
(***************************************************************************)
EXTENDS Naturals, FiniteSets

CONSTANTS
  Task,      \* task ids, numbered in the order PostgreSQL sorts them
  Approval,  \* approval ids
  Txn,       \* transactions that run at the same time
  Free,      \* the owner of an unlocked task row
  Nil        \* no approval

ASSUME LocksAssumption == Task \subseteq Nat /\ Free \notin Txn /\ Nil \notin Approval

Status == {"inbox", "in_progress"}
Verdict == {"pending", "approved", "rejected"}

VARIABLES
  status,    \* committed tasks.status
  approval,  \* committed approvals rows and their links
  lock,      \* owner of the lock on each task row
  txn        \* what each running transaction has read and wants

vars == <<status, approval, lock, txn>>

NoApproval == [status |-> "none", links |-> {}]
Idle == [op |-> "none", pc |-> "idle", approval |-> Nil, tasks |-> {},
         left |-> {}, from |-> "none", to |-> "none"]

PendingOn(t) == {a \in Approval : approval[a].status = "pending" /\ t \in approval[a].links}

(* Approving and rejecting need no lock; becoming pending does, unless the  *)
(* row loaded was pending already.                                          *)
Opens(r) == r.op \in {"create", "update"} /\ r.to = "pending" /\ r.from # "pending"
Guarded(r) == r.op = "move" \/ Opens(r)
Links(r) == r.op = "create" /\ ~Opens(r)

(* What a transaction holds in memory once it has read what it works on.    *)
Begin(op, a, T, from, to) ==
  LET At(pc, left) == [op |-> op, pc |-> pc, approval |-> a, tasks |-> T,
                       left |-> left, from |-> from, to |-> to]
  IN IF Guarded(At("lock", T)) THEN At("lock", T)
     ELSE IF op = "create" THEN At("link", T) ELSE At("commit", {})

Init ==
  /\ status = [t \in Task |-> "inbox"]
  /\ approval = [a \in Approval |-> NoApproval]
  /\ lock = [t \in Task |-> Free]
  /\ txn = [x \in Txn |-> Idle]

BeginCreate(x, a, verdict, T) ==
  /\ txn[x] = Idle
  /\ approval[a] = NoApproval
  /\ \A y \in Txn : txn[y].approval # a
  /\ txn' = [txn EXCEPT ![x] = Begin("create", a, T, "none", verdict)]
  /\ UNCHANGED <<status, approval, lock>>

(* update_approval loads the row, and keeps its status as prior_status.     *)
BeginUpdate(x, a, verdict) ==
  /\ txn[x] = Idle
  /\ approval[a].status # "none"
  /\ txn' = [txn EXCEPT ![x] = Begin("update", a, approval[a].links,
                                          approval[a].status, verdict)]
  /\ UNCHANGED <<status, approval, lock>>

(* A PATCH that asks for a status other than the one it loaded.             *)
BeginMove(x, t, to) ==
  /\ txn[x] = Idle
  /\ to # status[t]
  /\ txn' = [txn EXCEPT ![x] = Begin("move", Nil, {t}, status[t], to)]
  /\ UNCHANGED <<status, approval, lock>>

(* SELECT ... ORDER BY id FOR UPDATE, or the autoflushed UPDATE of a move.  *)
(* Only one transaction holds such a lock on a row; FOR UPDATE waits for    *)
(* the rows that others have linked to as well, an UPDATE does not.         *)
Linked(y) == IF Links(txn[y]) THEN txn[y].tasks \ txn[y].left ELSE {}
NextInAnyOrder(T) == T   \* variant
NextToLock(T) == {t \in T : \A u \in T : t <= u}

LockRow(x, t) ==
  /\ txn[x].pc = "lock" /\ t \in txn[x].left
  /\ t \in NextToLock(txn[x].left)
  /\ lock[t] = Free
  /\ txn[x].op # "move" => \A y \in Txn : t \notin Linked(y)
  /\ lock' = [lock EXCEPT ![t] = x]
  /\ txn' = [txn EXCEPT ![x].left = @ \ {t}]
  /\ UNCHANGED <<status, approval>>

Release(x) == [t \in Task |-> IF lock[t] = x THEN Free ELSE lock[t]]

ClearOwnIgnored(r) ==   \* variant
  r.op = "create" \/ \A t \in r.tasks : PendingOn(t) \subseteq {r.approval}
ClearToCommit(r) == \A t \in r.tasks : PendingOn(t) \subseteq {r.approval}

(* pending_approval_conflicts_by_task, once every row is locked.            *)
Check(x) ==
  /\ txn[x].pc = "lock" /\ txn[x].left = {}
  /\ IF ClearToCommit(txn[x])
     THEN txn' = [txn EXCEPT ![x].pc = "commit"] /\ lock' = lock
     ELSE txn' = [txn EXCEPT ![x] = Idle] /\ lock' = Release(x)   \* 409
  /\ UNCHANGED <<status, approval>>

Finish(x) == txn' = [txn EXCEPT ![x] = Idle] /\ lock' = Release(x)

(* An approval created resolved inserts its row and its links with no       *)
(* SELECT before.  Each foreign key takes a key-share lock on its task, in  *)
(* the order of the payload, whichever that is; it waits for a SELECT FOR   *)
(* UPDATE, not for an UPDATE.  (A pending one links rows it has locked.)    *)
LinkRow(x, t) ==
  /\ txn[x].pc = "link" /\ t \in txn[x].left
  /\ lock[t] # Free => txn[lock[t]].op = "move"
  /\ txn' = [txn EXCEPT ![x].left = @ \ {t}]
  /\ UNCHANGED <<status, approval, lock>>

CommitCreate(x) ==
  /\ txn[x].op = "create"
  /\ \/ txn[x].pc = "commit"
     \/ txn[x].pc = "link" /\ txn[x].left = {}
  /\ approval' = [approval EXCEPT ![txn[x].approval] =
                    [status |-> txn[x].to, links |-> txn[x].tasks]]
  /\ Finish(x)
  /\ UNCHANGED status

(* The ORM writes the status only when it differs from the one loaded.      *)
Written(r, now) == IF r.to # r.from THEN r.to ELSE now

CommitUpdate(x) ==
  /\ txn[x].pc = "commit" /\ txn[x].op = "update"
  /\ approval' = [approval EXCEPT ![txn[x].approval].status = Written(txn[x], @)]
  /\ Finish(x)
  /\ UNCHANGED status

CommitMove(x) ==
  /\ txn[x].pc = "commit" /\ txn[x].op = "move"
  /\ status' = [t \in Task |-> IF t \in txn[x].tasks THEN txn[x].to ELSE status[t]]
  /\ Finish(x)
  /\ UNCHANGED approval

(* The connection is lost, the process stops or PostgreSQL ends a deadlock: *)
(* the transaction rolls back.                                              *)
Abort(x) ==
  /\ txn[x] # Idle
  /\ Finish(x)
  /\ UNCHANGED <<status, approval>>

Step(x) ==
  \/ \E a \in Approval, v \in Verdict, T \in SUBSET Task : BeginCreate(x, a, v, T)
  \/ \E a \in Approval, v \in Verdict : BeginUpdate(x, a, v)
  \/ \E t \in Task, to \in Status : BeginMove(x, t, to)
  \/ \E t \in Task : LockRow(x, t) \/ LinkRow(x, t)
  \/ Check(x)
  \/ CommitCreate(x) \/ CommitUpdate(x) \/ CommitMove(x)
  \/ Abort(x)

Next == \E x \in Txn : Step(x)

Spec == Init /\ [][Next]_vars

-----------------------------------------------------------------------------
(* Properties *)

Record == [op : {"none", "create", "update", "move"}, pc : {"idle", "lock", "link", "commit"},
           approval : Approval \cup {Nil}, tasks : SUBSET Task, left : SUBSET Task,
           from : Status \cup Verdict \cup {"none"}, to : Status \cup Verdict \cup {"none"}]

\* Rows, locks and the memory of transactions hold values of their types.
TypeOK ==
  /\ status \in [Task -> Status]
  /\ approval \in [Approval -> [status : Verdict \cup {"none"}, links : SUBSET Task]]
  /\ lock \in [Task -> Txn \cup {Free}]
  /\ txn \in [Txn -> Record]

\* "Each task can have only one pending approval.", although the conflict check
\* and the insert are separate statements and approvals reopen.
OnePendingPerTask == \A t \in Task : \A a, b \in PendingOn(t) : a = b

\* What the locks guarantee at every step (the inductive invariant): a guarded
\* transaction owns the rows it has locked, one that passed the check still finds
\* what it found, and the approval it works on is still the one it loaded.
TxnInv(x) ==
  LET r == txn[x]
  IN /\ r.pc = "idle" <=> r.op = "none"
     /\ Guarded(r) => \A t \in r.tasks \ r.left : lock[t] = x
     /\ r.pc \notin {"lock", "link"} => r.left = {}
     /\ r.pc = "link" <=> Links(r)
     /\ r.pc = "commit" /\ Guarded(r) => ClearToCommit(r)
     /\ r.op \in {"none", "move"} => r.approval = Nil
     /\ r.op = "move" => r.to \in Status /\ \E t \in Task : r.tasks = {t}
     /\ r.op \in {"create", "update"} => r.approval \in Approval /\ r.to \in Verdict
     /\ r.op = "create" => r.from = "none" /\ approval[r.approval].status = "none"
     /\ r.op = "update" => /\ approval[r.approval].status # "none"
                           /\ approval[r.approval].links = r.tasks

GateInv ==
  /\ TypeOK
  /\ OnePendingPerTask
  /\ \A x \in Txn : TxnInv(x)
  /\ \A x, y \in Txn :
       txn[x].op = "create" /\ txn[y].approval = txn[x].approval => x = y

\* lock_tasks_for_approval sorts the ids so that transactions which lock rows wait
\* upwards only: one that waits for a row of another which itself waits, waits for
\* a lower row.  So no circle of them, of any length, blocks for good.  Circles do
\* form through an approval created resolved, whose links lock tasks in the order
\* of its payload; PostgreSQL ends them by aborting one of the transactions.
NoWaitCycle ==
  \A x, y \in Txn : \A t \in NextToLock(txn[x].left), u \in NextToLock(txn[y].left) :
    txn[x].pc = "lock" /\ txn[y].pc = "lock" /\ lock[t] = y => t < u

\* The statements implement the promise: a commit that changes a task's status
\* finds it with no pending approval, one that opens an approval finds no other.
Promise == INSTANCE ApprovalPromise WITH
  status <- status, pending <- [t \in Task |-> PendingOn(t)]
PromiseKept == Promise!Spec
=============================================================================
