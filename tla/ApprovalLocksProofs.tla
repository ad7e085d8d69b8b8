------------------------ MODULE ApprovalLocksProofs ------------------------
(***************************************************************************)
(* Proofs about ApprovalLocks for any number of tasks, approvals and       *)
(* transactions: the locks keep at most one approval pending on a task,    *)
(* and the statements implement ApprovalPromise.                           *)
(***************************************************************************)
EXTENDS ApprovalLocks, TLAPS

\* The initial database and idle transactions satisfy the invariant.
LEMMA GateInvInit == Init => GateInv
BY LocksAssumption DEF Init, GateInv, TypeOK, OnePendingPerTask, TxnInv, PendingOn, NoApproval,
   Idle, Record, Guarded, Opens, Links, Status, Verdict

\* The fields of a transaction that has just begun.
LEMMA BeginFields ==
  ASSUME NEW op \in {"create", "update", "move"}, NEW a \in Approval \cup {Nil},
         NEW T \in SUBSET Task, NEW from \in Status \cup Verdict \cup {"none"},
         NEW to \in Status \cup Verdict
  PROVE  LET b == Begin(op, a, T, from, to)
         IN /\ b \in Record
            /\ b.op = op /\ b.approval = a /\ b.tasks = T /\ b.from = from /\ b.to = to
            /\ \/ Guarded(b) /\ ~Links(b) /\ b.pc = "lock" /\ b.left = T
               \/ ~Guarded(b) /\ Links(b) /\ b.pc = "link" /\ b.left = T
               \/ ~Guarded(b) /\ ~Links(b) /\ b.pc = "commit" /\ b.left = {}
<1> DEFINE r == [op |-> op, pc |-> "commit", approval |-> a, tasks |-> T,
                 left |-> {}, from |-> from, to |-> to]
           q == [op |-> op, pc |-> "lock", approval |-> a, tasks |-> T,
                 left |-> T, from |-> from, to |-> to]
           n == [op |-> op, pc |-> "link", approval |-> a, tasks |-> T,
                 left |-> T, from |-> from, to |-> to]
<1>1. r \in Record /\ q \in Record /\ n \in Record
  BY DEF Record
<1>2. /\ Guarded(q) <=> op = "move" \/ Opens(q)
      /\ Guarded(n) <=> op = "move" \/ Opens(q)
      /\ Guarded(r) <=> op = "move" \/ Opens(q)
      /\ Links(q) <=> op = "create" /\ ~Opens(q)
      /\ Links(n) <=> op = "create" /\ ~Opens(q)
      /\ Links(r) <=> op = "create" /\ ~Opens(q)
  BY DEF Guarded, Opens, Links
<1>3. Begin(op, a, T, from, to) =
        IF Guarded(q) THEN q ELSE IF op = "create" THEN n ELSE r
  BY DEF Begin
<1>4. QED
  <2> HIDE DEF Begin
  <2>1. CASE Guarded(q)
    <3>1. ~Links(q)
      BY <1>2, <2>1
    <3>2. QED BY <1>1, <1>3, <2>1, <3>1
  <2>2. CASE ~Guarded(q) /\ op = "create"
    <3>1. Links(n) /\ ~Guarded(n)
      BY <1>2, <2>2
    <3>2. QED BY <1>1, <1>3, <2>2, <3>1
  <2>3. CASE ~Guarded(q) /\ op # "create"
    <3>1. ~Links(r) /\ ~Guarded(r)
      BY <1>2, <2>3
    <3>2. QED BY <1>1, <1>3, <2>3, <3>1
  <2>4. QED BY <2>1, <2>2, <2>3

\* Starting a transaction reads, and takes no lock yet.
LEMMA BeginKeepsInv ==
  ASSUME GateInv, NEW x \in Txn, txn[x] = Idle,
         NEW op \in {"create", "update", "move"}, NEW a \in Approval \cup {Nil},
         NEW T \in SUBSET Task, NEW from \in Status \cup Verdict \cup {"none"},
         NEW to \in Status \cup Verdict,
         op = "move" => a = Nil /\ to \in Status /\ \E t \in Task : T = {t},
         op \in {"create", "update"} => a \in Approval /\ to \in Verdict,
         op = "create" => /\ from = "none" /\ approval[a].status = "none"
                          /\ \A y \in Txn : txn[y].approval # a,
         op = "update" => approval[a].status # "none" /\ approval[a].links = T,
         txn' = [txn EXCEPT ![x] = Begin(op, a, T, from, to)],
         UNCHANGED <<status, approval, lock>>
  PROVE  GateInv'
<1> DEFINE b == Begin(op, a, T, from, to)
<1>1. /\ b \in Record
      /\ b.op = op /\ b.approval = a /\ b.tasks = T /\ b.from = from /\ b.to = to
      /\ \/ Guarded(b) /\ ~Links(b) /\ b.pc = "lock" /\ b.left = T
         \/ ~Guarded(b) /\ Links(b) /\ b.pc = "link" /\ b.left = T
         \/ ~Guarded(b) /\ ~Links(b) /\ b.pc = "commit" /\ b.left = {}
  <2>1. /\ op \in {"create", "update", "move"} /\ a \in Approval \cup {Nil}
        /\ T \in SUBSET Task /\ from \in Status \cup Verdict \cup {"none"}
        /\ to \in Status \cup Verdict
    OBVIOUS
  <2>2. QED BY ONLY <2>1, BeginFields, ZenonT(60)
<1> HIDE DEF b
<1>2. txn' = [txn EXCEPT ![x] = b]
  BY DEF b
<1>3. txn'[x] = b /\ \A y \in Txn : y # x => txn'[y] = txn[y]
  BY <1>2 DEF GateInv, TypeOK
<1>4. TypeOK'
  BY <1>1, <1>2 DEF GateInv, TypeOK
<1>5. OnePendingPerTask'
  BY DEF GateInv, OnePendingPerTask, PendingOn
<1>6. ASSUME NEW y \in Txn PROVE TxnInv(y)'
  <2>1. CASE y = x
    BY <2>1, <1>1, <1>3 DEF TxnInv
  <2>2. CASE y # x
    BY <2>2, <1>3 DEF GateInv, TxnInv, ClearToCommit, PendingOn
  <2>3. QED BY <2>1, <2>2
<1>7. ASSUME NEW y \in Txn, NEW z \in Txn,
             txn'[y].op = "create", txn'[z].approval = txn'[y].approval
      PROVE  y = z
  <2>1. CASE y = x
    BY <1>1, <1>3, <1>7, <2>1
  <2>2. CASE y # x /\ z = x
    <3>1. /\ approval[txn[y].approval].status = "none"
          /\ txn[y].approval \in Approval /\ txn[y].approval = a
      BY <1>1, <1>3, <1>7, <2>2 DEF GateInv, TxnInv
    <3>2. op \notin {"create", "update", "move"}
      BY <3>1, LocksAssumption
    <3>3. QED BY <3>2
  <2>3. CASE y # x /\ z # x
    BY <1>3, <1>7, <2>3 DEF GateInv
  <2>4. QED BY <2>1, <2>2, <2>3
<1>8. QED
  BY <1>4, <1>5, <1>6, <1>7 DEF GateInv

\* Locking one more row takes it from nobody.
LEMMA LockRowKeepsInv ==
  ASSUME GateInv, NEW x \in Txn, NEW t \in Task, LockRow(x, t)
  PROVE  GateInv'
<1>1. /\ txn'[x].op = txn[x].op /\ txn'[x].approval = txn[x].approval
      /\ txn'[x].tasks = txn[x].tasks /\ txn'[x].left = txn[x].left \ {t}
      /\ txn'[x].from = txn[x].from /\ txn'[x].to = txn[x].to
      /\ txn'[x].pc = "lock" /\ txn[x].pc = "lock"
      /\ txn'[x] \in Record
      /\ \A y \in Txn : y # x => txn'[y] = txn[y]
  BY DEF LockRow, GateInv, TypeOK, Record
<1>2. /\ lock'[t] = x /\ lock[t] = Free
      /\ \A u \in Task : u # t => lock'[u] = lock[u]
      /\ UNCHANGED <<status, approval>>
  BY DEF LockRow, GateInv, TypeOK
<1>3. TypeOK'
  <2>1. txn' \in [Txn -> Record]
    BY <1>1 DEF LockRow, GateInv, TypeOK
  <2>2. lock' \in [Task -> Txn \cup {Free}]
    BY DEF LockRow, GateInv, TypeOK
  <2>3. QED BY <2>1, <2>2, <1>2 DEF GateInv, TypeOK
<1>4. OnePendingPerTask'
  BY <1>2 DEF GateInv, OnePendingPerTask, PendingOn
<1>5. ASSUME NEW y \in Txn PROVE TxnInv(y)'
  <2>1. CASE y = x
    <3>1. (Guarded(txn[x])' <=> Guarded(txn[x])) /\ (Links(txn[x])' <=> Links(txn[x]))
      BY <1>1 DEF Guarded, Opens, Links
    <3>2. Guarded(txn[x])' => \A u \in txn'[x].tasks \ txn'[x].left : lock'[u] = x
      BY <3>1, <1>1, <1>2 DEF GateInv, TypeOK, Record, TxnInv
    <3>3. QED BY <2>1, <3>1, <3>2, <1>1, <1>2 DEF GateInv, TxnInv
  <2>2. CASE y # x
    <3>1. Guarded(txn[y]) => \A u \in txn[y].tasks \ txn[y].left : lock'[u] = y
      <4>1. SUFFICES ASSUME Guarded(txn[y]), NEW u \in txn[y].tasks \ txn[y].left
                     PROVE  lock'[u] = y
        OBVIOUS
      <4>2. lock[u] = y /\ u \in Task
        BY <4>1 DEF GateInv, TypeOK, Record, TxnInv
      <4>3. QED BY <4>2, <1>2, LocksAssumption
    <3>2. txn'[y] = txn[y]
      BY <1>1, <2>2
    <3>3. QED BY <3>1, <3>2, <1>2 DEF GateInv, TxnInv, ClearToCommit, PendingOn
  <2>3. QED BY <2>1, <2>2
<1>6. \A y, z \in Txn :
        txn'[y].op = "create" /\ txn'[z].approval = txn'[y].approval => y = z
  BY <1>1 DEF GateInv
<1>7. QED
  BY <1>3, <1>4, <1>5, <1>6 DEF GateInv

\* Linking one more row takes no lock that anybody relies on.
LEMMA LinkRowKeepsInv ==
  ASSUME GateInv, NEW x \in Txn, NEW t \in Task, LinkRow(x, t)
  PROVE  GateInv'
<1>1. /\ txn'[x].op = txn[x].op /\ txn'[x].approval = txn[x].approval
      /\ txn'[x].tasks = txn[x].tasks
      /\ txn'[x].from = txn[x].from /\ txn'[x].to = txn[x].to
      /\ txn'[x].pc = "link" /\ txn[x].pc = "link"
      /\ txn'[x] \in Record
      /\ \A y \in Txn : y # x => txn'[y] = txn[y]
      /\ UNCHANGED <<status, approval, lock>>
  BY DEF LinkRow, GateInv, TypeOK, Record
<1>2. TypeOK'
  BY <1>1 DEF LinkRow, GateInv, TypeOK
<1>3. OnePendingPerTask'
  BY <1>1 DEF GateInv, OnePendingPerTask, PendingOn
<1>4. ASSUME NEW y \in Txn PROVE TxnInv(y)'
  <2>1. CASE y = x
    <3>1. Links(txn[x]) /\ Links(txn[x])' /\ ~Guarded(txn[x])'
      BY <1>1 DEF GateInv, TxnInv, Links, Guarded, Opens
    <3>2. QED BY <2>1, <3>1, <1>1 DEF GateInv, TxnInv
  <2>2. CASE y # x
    BY <2>2, <1>1 DEF GateInv, TxnInv, ClearToCommit, PendingOn
  <2>3. QED BY <2>1, <2>2
<1>5. \A y, z \in Txn :
        txn'[y].op = "create" /\ txn'[z].approval = txn'[y].approval => y = z
  BY <1>1 DEF GateInv
<1>6. QED
  BY <1>2, <1>3, <1>4, <1>5 DEF GateInv

\* A transaction that ends gives up its own locks and nobody else's.
LEMMA FinishFacts ==
  ASSUME TypeOK, NEW x \in Txn, Finish(x)
  PROVE  /\ txn'[x] = Idle
         /\ \A y \in Txn : y # x => txn'[y] = txn[y]
         /\ \A y \in Txn, t \in Task : y # x /\ lock[t] = y => lock'[t] = y
         /\ txn' \in [Txn -> Record] /\ lock' \in [Task -> Txn \cup {Free}]
BY DEF Finish, Release, TypeOK, Record, Idle

\* A transaction that ends without writing disturbs nobody.
LEMMA EndKeepsInv ==
  ASSUME GateInv, NEW x \in Txn, Finish(x), UNCHANGED <<status, approval>>
  PROVE  GateInv'
<1>1. /\ txn'[x] = Idle
      /\ \A y \in Txn : y # x => txn'[y] = txn[y]
      /\ \A y \in Txn, t \in Task : y # x /\ lock[t] = y => lock'[t] = y
      /\ txn' \in [Txn -> Record] /\ lock' \in [Task -> Txn \cup {Free}]
  BY FinishFacts DEF GateInv
<1>2. TypeOK'
  BY <1>1 DEF GateInv, TypeOK
<1>3. OnePendingPerTask'
  BY DEF GateInv, OnePendingPerTask, PendingOn
<1>4. ASSUME NEW y \in Txn PROVE TxnInv(y)'
  <2>1. CASE y = x
    BY <2>1, <1>1 DEF TxnInv, Idle, Guarded, Opens, Links
  <2>2. CASE y # x
    <3>1. \A u \in txn[y].tasks : u \in Task
      BY DEF GateInv, TypeOK, Record
    <3>2. QED
      BY <2>2, <3>1, <1>1 DEF GateInv, TxnInv, ClearToCommit, PendingOn
  <2>3. QED BY <2>1, <2>2
<1>5. ASSUME NEW y \in Txn, NEW z \in Txn,
             txn'[y].op = "create", txn'[z].approval = txn'[y].approval
      PROVE  y = z
  <2>1. y # x
    BY <1>1, <1>5 DEF Idle
  <2>2. CASE z = x
    <3>1. txn[y].approval = Nil /\ txn[y].op = "create"
      BY <1>1, <1>5, <2>1, <2>2 DEF Idle
    <3>2. txn[y].approval \in Approval
      BY <3>1 DEF GateInv, TxnInv
    <3>3. QED BY <3>1, <3>2, LocksAssumption
  <2>3. CASE z # x
    BY <1>1, <1>5, <2>1, <2>3 DEF GateInv
  <2>4. QED BY <2>2, <2>3
<1>6. QED
  BY <1>2, <1>3, <1>4, <1>5 DEF GateInv

\* The conflict check either ends the transaction or records what it found.
LEMMA CheckKeepsInv ==
  ASSUME GateInv, NEW x \in Txn, Check(x)
  PROVE  GateInv'
<1>1. CASE ~ClearToCommit(txn[x])
  BY <1>1, EndKeepsInv DEF Check, Finish
<1>2. CASE ClearToCommit(txn[x])
  <2>1. /\ txn'[x].op = txn[x].op /\ txn'[x].approval = txn[x].approval
        /\ txn'[x].tasks = txn[x].tasks /\ txn'[x].left = {} /\ txn[x].left = {}
        /\ txn'[x].from = txn[x].from /\ txn'[x].to = txn[x].to
        /\ txn'[x].pc = "commit" /\ txn[x].pc = "lock"
        /\ txn'[x] \in Record
        /\ \A y \in Txn : y # x => txn'[y] = txn[y]
        /\ UNCHANGED <<status, approval, lock>>
    BY <1>2 DEF Check, GateInv, TypeOK, Record
  <2>2. TypeOK'
    BY <1>2, <2>1 DEF Check, GateInv, TypeOK
  <2>3. OnePendingPerTask'
    BY <2>1 DEF GateInv, OnePendingPerTask, PendingOn
  <2>4. ASSUME NEW y \in Txn PROVE TxnInv(y)'
    <3>1. CASE y = x
      <4>1. ClearToCommit(txn[x])'
        BY <1>2, <2>1 DEF ClearToCommit, PendingOn
      <4>2. (Guarded(txn[x])' <=> Guarded(txn[x])) /\ (Links(txn[x])' <=> Links(txn[x]))
        BY <2>1 DEF Guarded, Opens, Links
      <4>3. QED BY <3>1, <4>1, <4>2, <2>1 DEF GateInv, TxnInv
    <3>2. CASE y # x
      BY <3>2, <2>1 DEF GateInv, TxnInv, ClearToCommit, PendingOn
    <3>3. QED BY <3>1, <3>2
  <2>5. \A y, z \in Txn :
          txn'[y].op = "create" /\ txn'[z].approval = txn'[y].approval => y = z
    BY <2>1 DEF GateInv
  <2>6. QED BY <2>2, <2>3, <2>4, <2>5 DEF GateInv
<1>3. QED BY <1>1, <1>2

\* Two guarded transactions past their checks own different rows.
LEMMA GuardedDisjoint ==
  ASSUME GateInv, NEW x \in Txn, NEW y \in Txn, x # y,
         txn[x].pc = "commit", txn[y].pc = "commit",
         Guarded(txn[x]), Guarded(txn[y])
  PROVE  txn[x].tasks \cap txn[y].tasks = {}
BY DEF GateInv, TxnInv

\* A commit that writes one approval: either it opens it, past the check, or the
\* approval is no more pending than before.
LEMMA WriteKeepsInv ==
  ASSUME GateInv, NEW x \in Txn, Finish(x), UNCHANGED status,
         txn[x].op \in {"create", "update"}, Opens(txn[x]) => txn[x].pc = "commit",
         NEW v \in Verdict,
         \/ Opens(txn[x])
         \/ v # "pending"
         \/ txn[x].op = "update" /\ approval[txn[x].approval].status = "pending",
         approval' = [approval EXCEPT ![txn[x].approval] =
                        [status |-> v, links |-> txn[x].tasks]]
  PROVE  GateInv'
<1> DEFINE a == txn[x].approval
           T == txn[x].tasks
<1>1. /\ txn'[x] = Idle
      /\ \A y \in Txn : y # x => txn'[y] = txn[y]
      /\ \A y \in Txn, t \in Task : y # x /\ lock[t] = y => lock'[t] = y
      /\ txn' \in [Txn -> Record] /\ lock' \in [Task -> Txn \cup {Free}]
  BY FinishFacts DEF GateInv
<1>2. a \in Approval /\ T \in SUBSET Task
  BY DEF GateInv, TxnInv, TypeOK, Record
<1>3. /\ approval'[a].status = v /\ approval'[a].links = T
      /\ \A c \in Approval : c # a => approval'[c] = approval[c]
  BY <1>2 DEF GateInv, TypeOK
<1>4. TypeOK'
  <2>1. approval' \in [Approval -> [status : Verdict \cup {"none"}, links : SUBSET Task]]
    BY <1>2 DEF GateInv, TypeOK
  <2>2. QED BY <2>1, <1>1 DEF GateInv, TypeOK
<1>5. ASSUME NEW t \in Task
      PROVE  \/ PendingOn(t)' \subseteq PendingOn(t)
             \/ Opens(txn[x]) /\ t \in T /\ PendingOn(t)' \subseteq {a}
  <2>1. CASE v = "pending" /\ Opens(txn[x]) /\ t \in T
    <3>1. ClearToCommit(txn[x])
      BY <2>1 DEF GateInv, TxnInv, Guarded
    <3>2. PendingOn(t) \subseteq {a}
      BY <2>1, <3>1 DEF ClearToCommit
    <3>3. QED BY <2>1, <3>2, <1>3 DEF PendingOn
  <2>2. CASE t \notin T
    BY <2>2, <1>3 DEF PendingOn
  <2>3. CASE v # "pending"
    BY <2>3, <1>3 DEF PendingOn
  <2>4. CASE txn[x].op = "update" /\ approval[a].status = "pending"
    <3>1. approval[a].links = T
      BY <2>4 DEF GateInv, TxnInv
    <3>2. QED BY <2>4, <3>1, <1>3 DEF PendingOn
  <2>5. QED BY <2>1, <2>2, <2>3, <2>4
<1>6. OnePendingPerTask'
  BY <1>5 DEF GateInv, OnePendingPerTask
<1>7. ASSUME NEW y \in Txn PROVE TxnInv(y)'
  <2>1. CASE y = x
    BY <2>1, <1>1 DEF TxnInv, Idle, Guarded, Opens, Links
  <2>2. CASE y # x
    <3>1. txn'[y] = txn[y] /\ txn[y].tasks \in SUBSET Task
      BY <2>2, <1>1 DEF GateInv, TypeOK, Record
    <3>2. ASSUME txn[y].pc = "commit", Guarded(txn[y])
          PROVE  ClearToCommit(txn[y])'
      <4>1. ClearToCommit(txn[y])
        BY <3>2 DEF GateInv, TxnInv
      <4>2. Opens(txn[x]) => T \cap txn[y].tasks = {}
        BY <2>2, <3>2, GuardedDisjoint DEF Guarded
      <4>3. \A t \in txn[y].tasks : PendingOn(t)' \subseteq PendingOn(t)
        BY <3>1, <4>2, <1>5
      <4>4. QED BY <3>1, <4>1, <4>3 DEF ClearToCommit
    <3>3. ASSUME txn[y].op = "create" PROVE approval'[txn[y].approval].status = "none"
      <4>1. txn[y].approval \in Approval /\ approval[txn[y].approval].status = "none"
        BY <3>3 DEF GateInv, TxnInv
      <4>2. txn[y].approval # a
        BY <2>2, <3>3 DEF GateInv
      <4>3. QED BY <4>1, <4>2, <1>3
    <3>4. ASSUME txn[y].op = "update"
          PROVE  /\ approval'[txn[y].approval].status # "none"
                 /\ approval'[txn[y].approval].links = txn[y].tasks
      <4>1. /\ txn[y].approval \in Approval
            /\ approval[txn[y].approval].status # "none"
            /\ approval[txn[y].approval].links = txn[y].tasks
        BY <3>4 DEF GateInv, TxnInv
      <4>2. CASE txn[y].approval # a
        BY <4>1, <4>2, <1>3
      <4>3. CASE txn[y].approval = a
        <5>1. approval[a].links = T
          BY <4>1, <4>3 DEF GateInv, TxnInv
        <5>2. v # "none"
          BY DEF Verdict
        <5>3. QED BY <4>1, <4>3, <5>1, <5>2, <1>3
      <4>4. QED BY <4>2, <4>3
    <3>5. Guarded(txn[y]) => \A t \in txn[y].tasks \ txn[y].left : lock'[t] = y
      BY <2>2, <3>1, <1>1 DEF GateInv, TxnInv
    <3>6. QED BY <3>1, <3>2, <3>3, <3>4, <3>5 DEF GateInv, TxnInv
  <2>3. QED BY <2>1, <2>2
<1>8. ASSUME NEW y \in Txn, NEW z \in Txn,
             txn'[y].op = "create", txn'[z].approval = txn'[y].approval
      PROVE  y = z
  <2>1. y # x
    BY <1>1, <1>8 DEF Idle
  <2>2. CASE z = x
    <3>1. txn[y].approval = Nil /\ txn[y].op = "create"
      BY <1>1, <1>8, <2>1, <2>2 DEF Idle
    <3>2. txn[y].approval \in Approval
      BY <3>1 DEF GateInv, TxnInv
    <3>3. QED BY <3>1, <3>2, LocksAssumption
  <2>3. CASE z # x
    BY <1>1, <1>8, <2>1, <2>3 DEF GateInv
  <2>4. QED BY <2>2, <2>3
<1>9. QED
  BY <1>4, <1>6, <1>7, <1>8 DEF GateInv

\* What the commit of a create or an update writes.
LEMMA CommitWrites ==
  ASSUME GateInv, NEW x \in Txn, CommitCreate(x) \/ CommitUpdate(x)
  PROVE  /\ txn[x].op \in {"create", "update"} /\ (Opens(txn[x]) => txn[x].pc = "commit")
         /\ txn[x].approval \in Approval
         /\ Finish(x) /\ UNCHANGED status
         /\ \E v \in Verdict :
              /\ \/ Opens(txn[x])
                 \/ v # "pending"
                 \/ /\ txn[x].op = "update"
                    /\ approval[txn[x].approval].status = "pending"
              /\ approval' = [approval EXCEPT ![txn[x].approval] =
                                [status |-> v, links |-> txn[x].tasks]]
<1>1. CASE CommitCreate(x)
  BY <1>1 DEF CommitCreate, GateInv, TxnInv, Opens, Links
<1>2. CASE CommitUpdate(x)
  <2> DEFINE a == txn[x].approval
             v == Written(txn[x], approval[a].status)
  <2>1. /\ txn[x].pc = "commit" /\ txn[x].op = "update" /\ a \in Approval
        /\ txn[x].to \in Verdict
        /\ approval[a].status # "none" /\ approval[a].links = txn[x].tasks
        /\ approval[a] \in [status : Verdict \cup {"none"}, links : SUBSET Task]
    BY <1>2 DEF CommitUpdate, GateInv, TxnInv, TypeOK
  <2>2. v \in Verdict
    BY <2>1 DEF Written
  <2>3. [approval[a] EXCEPT !.status = v] = [status |-> v, links |-> txn[x].tasks]
    BY <2>1
  <2>4. approval' = [approval EXCEPT ![a] = [status |-> v, links |-> txn[x].tasks]]
    BY <1>2, <2>3 DEF CommitUpdate
  <2>5. Opens(txn[x]) \/ v # "pending" \/ approval[a].status = "pending"
    BY <2>1 DEF Opens, Written
  <2>6. Finish(x) /\ UNCHANGED status
    BY <1>2 DEF CommitUpdate
  <2>7. QED BY <2>1, <2>2, <2>4, <2>5, <2>6
<1>3. QED BY <1>1, <1>2

\* The commit of a move leaves the approvals alone.
LEMMA MoveKeepsInv ==
  ASSUME GateInv, NEW x \in Txn, CommitMove(x)
  PROVE  GateInv'
<1>1. /\ txn'[x] = Idle
      /\ \A y \in Txn : y # x => txn'[y] = txn[y]
      /\ \A y \in Txn, t \in Task : y # x /\ lock[t] = y => lock'[t] = y
      /\ txn' \in [Txn -> Record] /\ lock' \in [Task -> Txn \cup {Free}]
      /\ UNCHANGED approval
  BY FinishFacts DEF GateInv, CommitMove
<1>2. TypeOK'
  <2>1. txn[x].to \in Status
    BY DEF CommitMove, GateInv, TxnInv
  <2>2. status' \in [Task -> Status]
    BY <2>1 DEF CommitMove, GateInv, TypeOK
  <2>3. QED BY <2>2, <1>1 DEF GateInv, TypeOK
<1>3. OnePendingPerTask'
  BY <1>1 DEF GateInv, OnePendingPerTask, PendingOn
<1>4. ASSUME NEW y \in Txn PROVE TxnInv(y)'
  <2>1. CASE y = x
    BY <2>1, <1>1 DEF TxnInv, Idle, Guarded, Opens, Links
  <2>2. CASE y # x
    <3>1. \A u \in txn[y].tasks : u \in Task
      BY DEF GateInv, TypeOK, Record
    <3>2. QED
      BY <2>2, <3>1, <1>1 DEF GateInv, TxnInv, ClearToCommit, PendingOn
  <2>3. QED BY <2>1, <2>2
<1>5. ASSUME NEW y \in Txn, NEW z \in Txn,
             txn'[y].op = "create", txn'[z].approval = txn'[y].approval
      PROVE  y = z
  <2>1. y # x
    BY <1>1, <1>5 DEF Idle
  <2>2. CASE z = x
    <3>1. txn[y].approval = Nil /\ txn[y].op = "create"
      BY <1>1, <1>5, <2>1, <2>2 DEF Idle
    <3>2. txn[y].approval \in Approval
      BY <3>1 DEF GateInv, TxnInv
    <3>3. QED BY <3>1, <3>2, LocksAssumption
  <2>3. CASE z # x
    BY <1>1, <1>5, <2>1, <2>3 DEF GateInv
  <2>4. QED BY <2>2, <2>3
<1>6. QED
  BY <1>2, <1>3, <1>4, <1>5 DEF GateInv

\* Every step of a transaction preserves the invariant.
LEMMA StepKeepsInv ==
  ASSUME GateInv, NEW x \in Txn, Step(x)
  PROVE  GateInv'
<1>1. ASSUME NEW a \in Approval, NEW v \in Verdict, NEW T \in SUBSET Task,
             BeginCreate(x, a, v, T)
      PROVE  GateInv'
  <2>1. approval[a].status = "none"
    BY <1>1 DEF BeginCreate, NoApproval
  <2>2. QED BY <1>1, <2>1, BeginKeepsInv DEF BeginCreate
<1>2. ASSUME NEW a \in Approval, NEW v \in Verdict, BeginUpdate(x, a, v)
      PROVE  GateInv'
  <2>1. approval[a].links \in SUBSET Task /\ approval[a].status \in Verdict
    BY <1>2 DEF BeginUpdate, GateInv, TypeOK
  <2>2. QED BY <1>2, <2>1, BeginKeepsInv DEF BeginUpdate
<1>3. ASSUME NEW t \in Task, NEW to \in Status, BeginMove(x, t, to)
      PROVE  GateInv'
  <2>1. {t} \in SUBSET Task /\ status[t] \in Status
    BY DEF GateInv, TypeOK
  <2>2. QED BY <1>3, <2>1, BeginKeepsInv DEF BeginMove
<1>4. ASSUME NEW t \in Task, LockRow(x, t) \/ LinkRow(x, t) PROVE GateInv'
  BY <1>4, LockRowKeepsInv, LinkRowKeepsInv
<1>5. CASE Check(x)
  BY <1>5, CheckKeepsInv
<1>6. CASE CommitCreate(x) \/ CommitUpdate(x)
  BY <1>6, CommitWrites, WriteKeepsInv
<1>7. CASE CommitMove(x)
  BY <1>7, MoveKeepsInv
<1>8. CASE Abort(x)
  BY <1>8, EndKeepsInv DEF Abort
<1>9. QED
  BY <1>1, <1>2, <1>3, <1>4, <1>5, <1>6, <1>7, <1>8 DEF Step

\* Every step, and every stutter, preserves the invariant.
LEMMA NextKeepsInv == GateInv /\ [Next]_vars => GateInv'
<1>1. ASSUME GateInv, Next PROVE GateInv'
  BY <1>1, StepKeepsInv DEF Next
<1>2. ASSUME GateInv, UNCHANGED vars PROVE GateInv'
  BY <1>2 DEF vars, GateInv, TypeOK, OnePendingPerTask, TxnInv, PendingOn, ClearToCommit
<1>3. QED BY <1>1, <1>2

\* What the row locks guarantee holds in every state of every run of the gate's
\* transactions (create_approval, update_approval and the PATCH of a status).
THEOREM GateInvariant == Spec => []GateInv
BY GateInvInit, NextKeepsInv, PTL DEF Spec

\* "Each task can have only one pending approval.", in every state of every run.
THEOREM OnePending == Spec => []OnePendingPerTask
<1>1. GateInv => OnePendingPerTask
  BY DEF GateInv
<1>2. QED BY <1>1, GateInvariant, PTL

-----------------------------------------------------------------------------
(* No circular wait of transactions that lock rows *)

\* A transaction holds no row before it has begun, nor one that comes after a
\* row it still has to lock.
LockedInOrder ==
  \A x \in Txn, t \in Task :
    lock[t] = x => txn[x] # Idle /\ \A u \in txn[x].left : t < u

\* The order of lock_tasks_for_approval, kept by every step.
LEMMA StepKeepsOrder ==
  ASSUME GateInv, LockedInOrder, NEW y \in Txn, Step(y)
  PROVE  LockedInOrder'
<1> SUFFICES ASSUME NEW x \in Txn, NEW t \in Task, lock'[t] = x
             PROVE  txn'[x] # Idle /\ \A u \in txn'[x].left : t < u
  BY DEF LockedInOrder
<1> USE DEF GateInv, TypeOK
<1>1. ASSUME NEW b, txn[y] = Idle, txn' = [txn EXCEPT ![y] = b], UNCHANGED lock
      PROVE  txn'[x] # Idle /\ \A u \in txn'[x].left : t < u
  BY <1>1 DEF LockedInOrder
<1>2. ASSUME NEW u \in Task, LockRow(y, u)
      PROVE  txn'[x] # Idle /\ \A v \in txn'[x].left : t < v
  <2>1. x # y => txn'[x] = txn[x] /\ lock[t] = x
    BY <1>2 DEF LockRow
  <2>2. CASE x = y
    <3>1. txn[y] \in Record
      OBVIOUS
    <3>2. txn'[y].left = txn[y].left \ {u} /\ txn'[y].pc = "lock"
      BY <1>2, <3>1 DEF LockRow, Record
    <3>3. txn'[y] # Idle
      BY <3>2 DEF Idle
    <3>4. txn[y].left \subseteq Task /\ \A v \in txn[y].left : u <= v
      BY <1>2, <3>1 DEF LockRow, NextToLock, Record
    <3>5. t # u => lock[t] = y
      BY <1>2, <2>2 DEF LockRow
    <3>6. t = u => \A v \in txn[y].left \ {u} : u < v
      BY <3>4, LocksAssumption
    <3>7. QED BY <2>2, <3>2, <3>3, <3>5, <3>6 DEF LockedInOrder
  <2>3. QED BY <2>1, <2>2 DEF LockedInOrder
<1>3. ASSUME Finish(y) PROVE txn'[x] # Idle /\ \A u \in txn'[x].left : t < u
  <2>1. x # y /\ lock[t] = x
    BY <1>3, LocksAssumption DEF Finish, Release
  <2>2. QED BY <1>3, <2>1 DEF Finish, LockedInOrder
<1>4. CASE Check(y)
  <2>1. CASE ClearToCommit(txn[y])
    <3>1. lock' = lock /\ txn' = [txn EXCEPT ![y].pc = "commit"]
      BY <1>4, <2>1 DEF Check
    <3>2. txn'[x].left = txn[x].left /\ (x # y => txn'[x] = txn[x])
      BY <3>1 DEF Record
    <3>3. txn'[y].pc = "commit"
      BY <3>1 DEF Record
    <3>4. QED BY <3>1, <3>2, <3>3 DEF LockedInOrder, Idle
  <2>2. CASE ~ClearToCommit(txn[y])
    BY <1>3, <1>4, <2>2 DEF Check, Finish
  <2>3. QED BY <2>1, <2>2
<1>5. CASE \/ \E a \in Approval, v \in Verdict, T \in SUBSET Task : BeginCreate(y, a, v, T)
           \/ \E a \in Approval, v \in Verdict : BeginUpdate(y, a, v)
           \/ \E u \in Task, to \in Status : BeginMove(y, u, to)
  BY <1>1, <1>5 DEF BeginCreate, BeginUpdate, BeginMove
<1>6. CASE CommitCreate(y) \/ CommitUpdate(y) \/ CommitMove(y) \/ Abort(y)
  BY <1>3, <1>6 DEF CommitCreate, CommitUpdate, CommitMove, Abort
<1>7. ASSUME NEW u \in Task, LinkRow(y, u)
      PROVE  txn'[x] # Idle /\ \A v \in txn'[x].left : t < v
  <2>1. lock[t] = x /\ (x # y => txn'[x] = txn[x])
    BY <1>7 DEF LinkRow
  <2>2. txn'[y].left = txn[y].left \ {u} /\ txn'[y].pc = "link"
    BY <1>7 DEF LinkRow, Record
  <2>3. QED BY <2>1, <2>2 DEF LockedInOrder, Idle
<1>8. QED BY <1>2, <1>4, <1>5, <1>6, <1>7 DEF Step

\* "Acquire row locks for task ids in deterministic order": a transaction that waits
\* for a row has every row it holds below it, so those that lock rows wait upwards.
THEOREM NoCircularWait == Spec => []NoWaitCycle
<1>1. Init => LockedInOrder
  BY LocksAssumption DEF Init, LockedInOrder
<1>2. GateInv /\ LockedInOrder /\ [Next]_vars => LockedInOrder'
  <2>1. ASSUME GateInv, LockedInOrder, UNCHANGED vars PROVE LockedInOrder'
    BY <2>1 DEF vars, LockedInOrder
  <2>2. QED BY <2>1, StepKeepsOrder DEF Next
<1>3. GateInv /\ LockedInOrder => NoWaitCycle
  <2> SUFFICES ASSUME GateInv, LockedInOrder, NEW x \in Txn, NEW y \in Txn,
                      NEW t \in NextToLock(txn[x].left), lock[t] = y,
                      NEW u \in NextToLock(txn[y].left)
               PROVE  t < u
    BY DEF NoWaitCycle
  <2>1. t \in Task /\ u \in txn[y].left
    BY DEF NextToLock, GateInv, TypeOK, Record
  <2>2. QED BY <2>1 DEF LockedInOrder
<1>4. QED BY <1>1, <1>2, <1>3, GateInvariant, PTL DEF Spec

-----------------------------------------------------------------------------
(* Refinement *)

\* The database starts with no approval and every task in a status of the board.
LEMMA PromiseInit == Init => Promise!Init
BY DEF Init, Promise!Init, PendingOn, NoApproval, Status

\* A step that changes neither statuses nor approvals is a stutter.
LEMMA SilentStep ==
  ASSUME UNCHANGED <<status, approval>>
  PROVE  UNCHANGED Promise!vars
BY DEF Promise!vars, PendingOn

\* A commit that writes an approval opens it on tasks with none, resolves it or
\* changes nothing.
LEMMA WriteImplements ==
  ASSUME GateInv, NEW x \in Txn, CommitCreate(x) \/ CommitUpdate(x)
  PROVE  [Promise!Next]_(Promise!vars)
<1> DEFINE a == txn[x].approval
           T == txn[x].tasks
<1>1. PICK v \in Verdict :
        /\ \/ Opens(txn[x])
           \/ v # "pending"
           \/ txn[x].op = "update" /\ approval[a].status = "pending"
        /\ approval' = [approval EXCEPT ![a] = [status |-> v, links |-> T]]
  BY CommitWrites
<1>2. /\ txn[x].op \in {"create", "update"} /\ (Opens(txn[x]) => txn[x].pc = "commit")
      /\ a \in Approval /\ T \in SUBSET Task /\ UNCHANGED status
  BY CommitWrites DEF GateInv, TypeOK, Record
<1>3. /\ approval'[a].status = v /\ approval'[a].links = T
      /\ \A c \in Approval : c # a => approval'[c] = approval[c]
  BY <1>1, <1>2 DEF GateInv, TypeOK
<1>4. /\ approval[a].status # "none" => approval[a].links = T
      /\ \A t \in Task : approval[a].status = "none" => a \notin PendingOn(t)
  BY <1>2 DEF GateInv, TxnInv, PendingOn
<1>5. CASE v = "pending" /\ approval[a].status = "pending"
  <2>1. \A t \in Task : PendingOn(t)' = PendingOn(t)
    BY <1>3, <1>4, <1>5 DEF PendingOn
  <2>2. QED BY <2>1, <1>2 DEF Promise!vars
<1>6. CASE v = "pending" /\ approval[a].status # "pending"
  <2>1. \A t \in T : PendingOn(t) = {}
    <3>1. ClearToCommit(txn[x])
      BY <1>1, <1>2, <1>6 DEF GateInv, TxnInv, Guarded
    <3>2. QED BY <3>1, <1>6 DEF ClearToCommit, PendingOn
  <2>2. \A t \in Task : PendingOn(t)' = IF t \in T THEN {a} ELSE PendingOn(t)
    <3>1. \A t \in T : PendingOn(t)' = {a}
      BY <1>2, <1>3, <1>6, <2>1 DEF PendingOn
    <3>2. \A t \in Task \ T : PendingOn(t)' = PendingOn(t)
      BY <1>2, <1>3, <1>4, <1>6 DEF PendingOn
    <3>3. QED BY <3>1, <3>2
  <2>3. Promise!Open(a, T)
    BY <2>1, <2>2, <1>2 DEF Promise!Open
  <2>4. QED BY <2>3, <1>2 DEF Promise!Next
<1>7. CASE v # "pending"
  <2>1. \A t \in Task : PendingOn(t)' = PendingOn(t) \ {a}
    BY <1>2, <1>3, <1>7 DEF PendingOn
  <2>2. Promise!Resolve(a)
    BY <2>1, <1>2 DEF Promise!Resolve
  <2>3. QED BY <2>2, <1>2 DEF Promise!Next
<1>8. QED BY <1>5, <1>6, <1>7

\* A commit that changes a status finds no approval pending on the task.
LEMMA MoveImplements ==
  ASSUME GateInv, NEW x \in Txn, CommitMove(x)
  PROVE  [Promise!Next]_(Promise!vars)
<1>1. PICK t \in Task : txn[x].tasks = {t}
  BY DEF CommitMove, GateInv, TxnInv
<1>2. txn[x].approval = Nil /\ txn[x].to \in Status
  BY DEF CommitMove, GateInv, TxnInv
<1>3. PendingOn(t) = {}
  <2>1. ClearToCommit(txn[x])
    BY DEF CommitMove, GateInv, TxnInv, Guarded
  <2>2. QED BY <1>1, <1>2, <2>1, LocksAssumption DEF ClearToCommit, PendingOn
<1>4. status' = [status EXCEPT ![t] = txn[x].to]
  BY <1>1 DEF CommitMove, GateInv, TypeOK
<1>5. \A u \in Task : PendingOn(u)' = PendingOn(u)
  BY DEF CommitMove, PendingOn
<1>6. Promise!Move(t, txn[x].to)
  BY <1>3, <1>4, <1>5 DEF Promise!Move
<1>7. QED BY <1>2, <1>6 DEF Promise!Next

\* Every step of the transactions is a step of the promise or a stutter.
LEMMA StepImplements ==
  GateInv /\ [Next]_vars => [Promise!Next]_(Promise!vars)
<1>1. ASSUME GateInv, NEW x \in Txn, Step(x)
      PROVE  [Promise!Next]_(Promise!vars)
  <2>1. CASE CommitCreate(x) \/ CommitUpdate(x)
    BY <1>1, <2>1, WriteImplements
  <2>2. CASE CommitMove(x)
    BY <1>1, <2>2, MoveImplements
  <2>3. CASE UNCHANGED <<status, approval>>
    BY <2>3, SilentStep
  <2>4. QED
    BY <1>1, <2>1, <2>2, <2>3
       DEF Step, BeginCreate, BeginUpdate, BeginMove, LockRow, LinkRow, Check, Abort
<1>2. ASSUME UNCHANGED vars PROVE UNCHANGED Promise!vars
  BY <1>2, SilentStep DEF vars
<1>3. QED BY <1>1, <1>2 DEF Next

\* However the statements of the transactions interleave, the database behaves as
\* ApprovalPromise does.
THEOREM PromiseIsKept == Spec => PromiseKept
BY GateInvariant, PromiseInit, StepImplements, PTL DEF Spec, PromiseKept, Promise!Spec

=============================================================================
