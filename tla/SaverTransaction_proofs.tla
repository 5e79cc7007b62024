------------------------ MODULE SaverTransaction_proofs ------------------------
(***************************************************************************)
(* Proofs about SaverTransaction: transactions are stored whole or not at  *)
(* all, and a caller that gets no exception has its writes stored, for     *)
(* every set of tasks and every length of a transaction.                   *)
(*                                                                         *)
(* The argument: whoever holds the lock awaits the last statement of the   *)
(* queue, so the statements of a body reach an empty queue, and a write or *)
(* a commit of a transaction is never behind another task's statement.  A  *)
(* transaction that is given up has its rollback right behind it.          *)
(***************************************************************************)
EXTENDS SaverTransaction, TLAPS

\* The writes of t in a set of writes.
NoneOf(s, t) == \A i \in 1..Writes : <<t, i>> \notin s
AllOf(s, t) == \A i \in 1..Writes : <<t, i>> \in s
UpTo(s, t, n) == \A i \in 1..Writes : <<t, i>> \in s <=> i <= n

\* The statement a task awaits.
OpOf(p) == CASE p = "put" -> "write" [] p = "put_commit" -> "commit" [] OTHER -> p

Does(t, op) == [task |-> t, op |-> op]
AtHead(t, op) == queue # <<>> /\ queue[1] = Does(t, op)

\* Only the holder of the lock awaits a statement, the last one of the queue.
LockOK == \A t \in Task : pc[t] \in Awaiting <=> lock = t

KindOK == \A t \in Task :
  /\ t \in Putter => pc[t] \notin {"begin", "write", "commit", "rollback"} /\ step[t] = 0
  /\ t \notin Putter => pc[t] \notin {"put", "put_commit"}

AwaitOK == \A t \in Task : pc[t] \in Awaiting =>
  IF answer[t] = "none"
  THEN queue # <<>> /\ queue[Len(queue)] = Does(t, OpOf(pc[t]))
  ELSE queue = <<>>

\* What a body executes found the queue empty.
ShortOK == \A t \in Task : pc[t] \in {"write", "commit", "put_commit"} => Len(queue) <= 1

HeadOK == \A i \in DOMAIN queue :
  queue[i].task \notin Putter /\ queue[i].op \in {"write", "commit"} => i = 1

\* A task that has not begun has done nothing.
FreshOK == \A t \in Task : pc[t] \in {"idle", "begin"} =>
  /\ \A i \in DOMAIN queue : queue[i].task = t => pc[t] # "idle" /\ queue[i].op \in {"begin"}
  /\ step[t] = 0 /\ NoneOf(pending, t) /\ NoneOf(stored, t)

\* A transaction that is over, or is being rolled back, leaves no writes but in
\* front of its rollback.
RollsBack(t) ==
  \/ AtHead(t, "rollback")
  \/ Len(queue) >= 2 /\ queue[1].task = t /\ queue[2] = Does(t, "rollback")

RollbackOK == \A t \in Task \ Putter :
  pc[t] \notin {"write", "commit"} /\ (~NoneOf(pending, t) \/ AtHead(t, "write"))
    => RollsBack(t)

DataOK == \A t \in Task \ Putter :
  /\ NoneOf(stored, t) \/ AllOf(stored, t)
  /\ pc[t] = "write" => /\ step[t] < Writes
                        /\ answer[t] = "none" => UpTo(pending, t, step[t])
                        /\ answer[t] = "ok" => UpTo(pending, t, step[t] + 1)
  /\ AtHead(t, "write") => step[t] < Writes
  /\ AtHead(t, "commit") => AllOf(pending, t)
  /\ pc[t] = "commit" /\ answer[t] = "ok" => AllOf(stored, t) /\ NoneOf(pending, t)
  /\ pc[t] = "done" => AllOf(stored, t)

PutterOK == \A t \in Putter :
  /\ \A i \in 1..Writes : <<t, i>> \in pending \cup stored => i = 1
  /\ pc[t] = "put" /\ answer[t] = "ok" => <<t, 1>> \in pending
  /\ pc[t] = "put_commit" /\ answer[t] = "none" => <<t, 1>> \in pending
  /\ pc[t] = "put_commit" /\ answer[t] = "ok" => <<t, 1>> \in stored
  /\ pc[t] = "done" => <<t, 1>> \in stored

QueueOK == LockOK /\ KindOK /\ AwaitOK /\ ShortOK /\ HeadOK

IInv == TypeOK /\ QueueOK /\ FreshOK /\ RollbackOK /\ DataOK /\ PutterOK

-----------------------------------------------------------------------------
LEMMA InitOK == Init => IInv
<1> SUFFICES ASSUME Init PROVE IInv
  OBVIOUS
<1>1. TypeOK
  <2>1. 0 \in 0..Writes /\ <<>> \in Seq(Statement)
    BY SaverConstants
  <2> QED  BY <2>1 DEF Init, TypeOK
<1>2. QueueOK
  BY SaverConstants DEF Init, QueueOK, LockOK, KindOK, AwaitOK, ShortOK, HeadOK, Awaiting
<1>3. FreshOK
  BY DEF Init, FreshOK, NoneOf
<1>4. RollbackOK
  BY DEF Init, RollbackOK, NoneOf, AtHead
<1>5. DataOK
  BY DEF Init, DataOK, NoneOf, AtHead
<1>6. PutterOK
  BY SaverConstants DEF Init, PutterOK
<1> QED  BY <1>1, <1>2, <1>3, <1>4, <1>5, <1>6 DEF IInv

\* Of the tasks only the holder of the lock awaits anything.
LEMMA OneAwaits ==
  ASSUME LockOK, NEW t \in Task, NEW u \in Task, pc[t] \in Awaiting, pc[u] \in Awaiting
  PROVE  t = u
BY DEF LockOK

(***************************************************************************)
(* A task leaves the lock.                                                 *)
(***************************************************************************)
LEMMA LeaveOK ==
  ASSUME IInv, NEW t \in Task, NEW result \in {"done", "raised"},
         Leave(t, result), UNCHANGED <<open, pending, stored>>,
         pc[t] \in Awaiting,
         result = "raised" => pc[t] \notin {"write", "commit"},
         result = "done" => answer[t] = "ok" /\ pc[t] \in {"commit", "put_commit"}
  PROVE  IInv'
<1> USE DEF IInv, QueueOK
<1>1. /\ pc \in [Task -> {"idle"} \cup Awaiting \cup Ended]
      /\ pc' = [pc EXCEPT ![t] = result] /\ lock = t /\ lock' = Free
      /\ UNCHANGED <<step, queue, answer, open, pending, stored>>
      /\ \A u \in Task \ {t} : pc[u] \notin Awaiting /\ pc'[u] = pc[u]
      /\ pc'[t] = result /\ result \notin Awaiting
  BY DEF TypeOK, Leave, LockOK, Awaiting
<1>2. TypeOK'
  BY <1>1 DEF TypeOK, Ended
<1>3. LockOK' /\ KindOK' /\ AwaitOK' /\ ShortOK' /\ HeadOK'
  BY <1>1, SaverConstants DEF LockOK, KindOK, AwaitOK, ShortOK, HeadOK, Awaiting
<1>4. FreshOK'
  BY <1>1 DEF FreshOK, NoneOf
<1>5. RollbackOK'
  <2> SUFFICES ASSUME NEW u \in Task \ Putter, pc'[u] \notin {"write", "commit"},
                      ~NoneOf(pending, u) \/ AtHead(u, "write")
               PROVE  RollsBack(u)
    BY <1>1 DEF RollbackOK, RollsBack, NoneOf, AtHead
  <2>1. CASE u # t \/ pc[u] \notin {"write", "commit"}
    BY <1>1, <2>1 DEF RollbackOK
  <2>2. CASE u = t /\ pc[u] \in {"write", "commit"}
    <3>1. answer[t] = "ok" /\ pc[t] = "commit"
      BY <2>2
    <3>2. queue = <<>>
      BY <3>1 DEF AwaitOK
    <3>3. NoneOf(pending, t)
      BY <3>1, <2>2 DEF DataOK
    <3> QED  BY <2>2, <3>2, <3>3 DEF AtHead
  <2> QED  BY <2>1, <2>2
<1>6. DataOK'
  BY <1>1 DEF DataOK, NoneOf, AllOf, UpTo, AtHead, KindOK
<1>7. PutterOK'
  BY <1>1, SaverConstants DEF PutterOK, KindOK
<1> QED  BY <1>2, <1>3, <1>4, <1>5, <1>6, <1>7

\* What a statement does to the queue.
LEMMA AppendFacts ==
  ASSUME queue \in Seq(Statement), NEW e \in Statement, queue' = Append(queue, e)
  PROVE  /\ queue' \in Seq(Statement) /\ queue' # <<>>
         /\ Len(queue) \in Nat /\ DOMAIN queue = 1..Len(queue)
         /\ (Len(queue) = 0 <=> queue = <<>>)
         /\ Len(queue') = Len(queue) + 1 /\ DOMAIN queue' = 1..Len(queue')
         /\ \A i \in 1..Len(queue) : queue'[i] = queue[i]
         /\ queue'[Len(queue')] = e
OBVIOUS

(***************************************************************************)
(* A task executes a statement.                                            *)
(***************************************************************************)
LEMMA ExecuteOK ==
  ASSUME TypeOK, LockOK, KindOK, NEW t \in Task, NEW p \in Awaiting,
         lock \in {Free, t}, lock' = t,
         pc' = [pc EXCEPT ![t] = p], Execute(t, OpOf(p)),
         t \in Putter <=> p \in {"put", "put_commit"},
         step' \in [Task -> 0..Writes], \A u \in Putter : step'[u] = step[u],
         UNCHANGED <<open, pending, stored>>
  PROVE  /\ TypeOK' /\ LockOK' /\ KindOK' /\ AwaitOK'
         /\ Len(queue) \in Nat /\ DOMAIN queue = 1..Len(queue)
         /\ (Len(queue) = 0 <=> queue = <<>>) /\ queue' # <<>>
         /\ Len(queue') = Len(queue) + 1 /\ DOMAIN queue' = 1..Len(queue')
         /\ \A i \in 1..Len(queue) : queue'[i] = queue[i]
         /\ queue'[Len(queue')] = Does(t, OpOf(p))
         /\ pc'[t] = p /\ answer'[t] = "none"
         /\ \A u \in Task \ {t} : /\ pc'[u] = pc[u] /\ answer'[u] = answer[u]
                                  /\ pc[u] \notin Awaiting
<1>1. OpOf(p) \in {"begin", "write", "commit", "rollback"}
  BY DEF OpOf, Awaiting
<1>2. Does(t, OpOf(p)) \in Statement
  BY <1>1 DEF Does, Statement
<1>3. queue' = Append(queue, Does(t, OpOf(p))) /\ queue \in Seq(Statement)
  BY DEF Execute, Does, TypeOK
<1>4. /\ queue' \in Seq(Statement) /\ Len(queue') = Len(queue) + 1
      /\ Len(queue) \in Nat /\ DOMAIN queue = 1..Len(queue)
      /\ (Len(queue) = 0 <=> queue = <<>>) /\ queue' # <<>>
      /\ DOMAIN queue' = 1..Len(queue')
      /\ \A i \in 1..Len(queue) : queue'[i] = queue[i]
      /\ queue'[Len(queue')] = Does(t, OpOf(p))
  BY <1>2, <1>3, AppendFacts
<1>5. /\ pc \in [Task -> {"idle"} \cup Awaiting \cup Ended]
      /\ pc' \in [Task -> {"idle"} \cup Awaiting \cup Ended]
      /\ answer' \in [Task -> {"none", "ok", "error"}]
      /\ pc'[t] = p /\ answer'[t] = "none"
      /\ \A u \in Task \ {t} : pc'[u] = pc[u] /\ answer'[u] = answer[u]
  BY DEF TypeOK, Execute
<1>6. \A u \in Task \ {t} : pc[u] \notin Awaiting
  BY SaverConstants DEF LockOK
<1>7. TypeOK'
  BY <1>4, <1>5 DEF TypeOK
<1>8. LockOK'
  BY <1>5, <1>6 DEF LockOK
<1>9. KindOK'
  BY <1>5, SaverConstants DEF KindOK, Awaiting
<1>10. AwaitOK'
  BY <1>4, <1>5, <1>6 DEF AwaitOK
<1> QED  BY <1>4, <1>5, <1>6, <1>7, <1>8, <1>9, <1>10

\* BEGIN IMMEDIATE, behind whatever is in the queue.
LEMMA EnterOK ==
  ASSUME IInv, NEW t \in Task, Enter(t)
  PROVE  IInv'
<1> USE DEF IInv, QueueOK
<1>1. /\ pc[t] = "idle" /\ t \notin Putter /\ lock = Free /\ lock' = t
      /\ pc' = [pc EXCEPT ![t] = "begin"] /\ Execute(t, OpOf("begin"))
      /\ UNCHANGED <<step, open, pending, stored>> /\ "begin" \in Awaiting
      /\ step' \in [Task -> 0..Writes]
  BY DEF Enter, OpOf, Awaiting, TypeOK
<1>2. /\ TypeOK' /\ LockOK' /\ KindOK' /\ AwaitOK'
      /\ Len(queue) \in Nat /\ DOMAIN queue = 1..Len(queue)
      /\ (Len(queue) = 0 <=> queue = <<>>) /\ queue' # <<>>
      /\ Len(queue') = Len(queue) + 1 /\ DOMAIN queue' = 1..Len(queue')
      /\ \A i \in 1..Len(queue) : queue'[i] = queue[i]
      /\ queue'[Len(queue')] = Does(t, "begin")
      /\ pc'[t] = "begin" /\ answer'[t] = "none"
      /\ \A u \in Task \ {t} : /\ pc'[u] = pc[u] /\ answer'[u] = answer[u]
                               /\ pc[u] \notin Awaiting
  BY <1>1, ExecuteOK DEF OpOf
<1>3. Does(t, "begin").task = t /\ Does(t, "begin").op = "begin"
  BY DEF Does
<1>4. ShortOK'
  BY <1>2 DEF ShortOK, Awaiting
<1>5. HeadOK'
  BY <1>2, <1>3 DEF HeadOK
<1>6. FreshOK'
  BY <1>1, <1>2, <1>3 DEF FreshOK, NoneOf
<1>7. \A u \in Task : \A op \in {"write", "commit", "rollback"} :
         AtHead(u, op)' <=> AtHead(u, op)
  BY <1>2, <1>3 DEF AtHead, Does
<1>8. \A u \in Task : RollsBack(u) => RollsBack(u)'
  BY <1>2, <1>3, <1>7 DEF RollsBack
<1>9. RollbackOK'
  BY <1>1, <1>2, <1>7, <1>8 DEF RollbackOK, NoneOf
<1>10. DataOK'
  BY <1>1, <1>2, <1>7 DEF DataOK, NoneOf, AllOf, UpTo
<1>11. PutterOK'
  BY <1>1, <1>2, SaverConstants DEF PutterOK
<1> QED  BY <1>2, <1>4, <1>5, <1>6, <1>9, <1>10, <1>11

\* aput_writes, behind whatever is in the queue.
LEMMA PutOK ==
  ASSUME IInv, NEW t \in Task, Put(t)
  PROVE  IInv'
<1> USE DEF IInv, QueueOK
<1>1. /\ pc[t] = "idle" /\ t \in Putter /\ lock = Free /\ lock' = t
      /\ pc' = [pc EXCEPT ![t] = "put"] /\ Execute(t, OpOf("put"))
      /\ UNCHANGED <<step, open, pending, stored>> /\ "put" \in Awaiting
      /\ step' \in [Task -> 0..Writes] /\ OpOf("put") = "write"
  BY DEF Put, OpOf, Awaiting, TypeOK
<1>2. /\ TypeOK' /\ LockOK' /\ KindOK' /\ AwaitOK'
      /\ Len(queue) \in Nat /\ DOMAIN queue = 1..Len(queue)
      /\ (Len(queue) = 0 <=> queue = <<>>) /\ queue' # <<>>
      /\ Len(queue') = Len(queue) + 1 /\ DOMAIN queue' = 1..Len(queue')
      /\ \A i \in 1..Len(queue) : queue'[i] = queue[i]
      /\ queue'[Len(queue')] = Does(t, "write")
      /\ pc'[t] = "put" /\ answer'[t] = "none"
      /\ \A u \in Task \ {t} : /\ pc'[u] = pc[u] /\ answer'[u] = answer[u]
                               /\ pc[u] \notin Awaiting
  BY <1>1, ExecuteOK
<1>3. Does(t, "write").task = t /\ Does(t, "write").op = "write"
  BY DEF Does
<1>4. ShortOK'
  BY <1>2 DEF ShortOK, Awaiting
<1>5. HeadOK'
  BY <1>1, <1>2, <1>3 DEF HeadOK
<1>6. FreshOK'
  BY <1>1, <1>2, <1>3 DEF FreshOK, NoneOf
<1>7. \A u \in Task \ Putter : \A op \in {"write", "commit", "rollback"} :
         AtHead(u, op)' <=> AtHead(u, op)
  BY <1>1, <1>2, <1>3 DEF AtHead, Does
<1>8. \A u \in Task \ Putter : RollsBack(u) => RollsBack(u)'
  BY <1>2, <1>3, <1>7 DEF RollsBack
<1>9. RollbackOK'
  BY <1>1, <1>2, <1>7, <1>8 DEF RollbackOK, NoneOf
<1>10. DataOK'
  BY <1>1, <1>2, <1>7 DEF DataOK, NoneOf, AllOf, UpTo
<1>11. PutterOK'
  BY <1>1, <1>2, SaverConstants DEF PutterOK
<1> QED  BY <1>2, <1>4, <1>5, <1>6, <1>9, <1>10, <1>11

\* What a task has in the open transaction when it awaits its next statement.
Ready(t, p) ==
  /\ p = "write" => step'[t] < Writes /\ UpTo(pending, t, step'[t])
  /\ p = "commit" => AllOf(pending, t)
  /\ p = "put_commit" => <<t, 1>> \in pending

\* Where a task goes on to.
NextAwaited == {"write", "commit", "put_commit"}

\* A task may count the statement that was answered.
Counts(t) ==
  /\ step' \in [Task -> 0..Writes]
  /\ \A u \in Task \ {t} : step'[u] = step[u]
  /\ t \in Putter => step'[t] = 0

\* Whoever was answered goes on: the queue is empty, and nobody else has writes
\* in the open transaction that it still needs.
LEMMA GoesOnOK ==
  ASSUME IInv, NEW t \in Task, pc[t] \in Awaiting, answer[t] # "none",
         NEW p \in NextAwaited,
         pc' = [pc EXCEPT ![t] = p], Execute(t, OpOf(p)),
         t \in Putter <=> p \in {"put", "put_commit"},
         UNCHANGED <<lock, open, pending, stored>>, Counts(t), Ready(t, p)
  PROVE  IInv'
<1> USE DEF IInv, QueueOK
<1>1. /\ lock = t /\ lock' = t /\ queue = <<>> /\ p \in Awaiting
      /\ step' \in [Task -> 0..Writes] /\ \A u \in Putter : step'[u] = step[u]
  BY SaverConstants DEF NextAwaited, Counts, LockOK, AwaitOK, KindOK, Awaiting
<1>2. /\ TypeOK' /\ LockOK' /\ KindOK' /\ AwaitOK'
      /\ Len(queue) \in Nat /\ DOMAIN queue = 1..Len(queue)
      /\ (Len(queue) = 0 <=> queue = <<>>) /\ queue' # <<>>
      /\ Len(queue') = Len(queue) + 1 /\ DOMAIN queue' = 1..Len(queue')
      /\ \A i \in 1..Len(queue) : queue'[i] = queue[i]
      /\ queue'[Len(queue')] = Does(t, OpOf(p))
      /\ pc'[t] = p /\ answer'[t] = "none"
      /\ \A u \in Task \ {t} : /\ pc'[u] = pc[u] /\ answer'[u] = answer[u]
                               /\ pc[u] \notin Awaiting
  BY <1>1, ExecuteOK
<1>3. Len(queue') = 1 /\ DOMAIN queue' = 1..1 /\ queue'[1] = Does(t, OpOf(p))
  <2>1. Len(queue) = 0
    BY <1>1, <1>2
  <2>2. Len(queue') = 1
    BY <2>1, <1>2
  <2>3. DOMAIN queue' = 1..1
    BY <2>2, <1>2
  <2>4. queue'[1] = Does(t, OpOf(p))
    BY <2>2, <1>2
  <2> QED  BY <2>2, <2>3, <2>4
<1>4. /\ Does(t, OpOf(p)).task = t /\ Does(t, OpOf(p)).op = OpOf(p)
      /\ OpOf(p) = IF p = "write" THEN "write" ELSE "commit"
  BY DEF Does, OpOf, NextAwaited
<1>5. ShortOK' /\ HeadOK'
  <2>1. ShortOK'
    BY <1>3 DEF ShortOK
  <2>2. HeadOK'
    BY <1>3 DEF HeadOK
  <2> QED  BY <2>1, <2>2
<1>6. FreshOK'
  <2>1. \A u \in Task \ {t} : pc[u] # "begin"
    BY <1>2 DEF Awaiting
  <2>2. \A u \in Task : pc'[u] \in {"idle", "begin"} => u # t /\ pc[u] = "idle"
    BY <1>2, <2>1 DEF NextAwaited
  <2>3. \A u \in Task \ {t} : \A i \in DOMAIN queue' : queue'[i].task # u
    BY <1>3, <1>4
  <2> QED  BY <2>2, <2>3 DEF Counts, FreshOK, NoneOf
<1>7. \A u \in Task : /\ AtHead(u, "write")' => u = t /\ p = "write"
                      /\ AtHead(u, "commit")' => u = t /\ p \in {"commit", "put_commit"}
  <2> SUFFICES ASSUME NEW u \in Task, NEW op \in {"write", "commit"}, AtHead(u, op)'
               PROVE  u = t /\ op = OpOf(p)
    BY <1>4 DEF NextAwaited
  <2>1. Does(u, op) = Does(t, OpOf(p))
    BY <1>3 DEF AtHead
  <2>2. Does(u, op).task = u /\ Does(u, op).op = op
    BY DEF Does
  <2> QED  BY <2>1, <2>2, <1>4
<1>8. \A u \in Task \ Putter : u # t => NoneOf(pending, u)
  <2> SUFFICES ASSUME NEW u \in Task \ Putter, u # t PROVE NoneOf(pending, u)
    OBVIOUS
  <2>1. pc[u] \notin {"write", "commit"}
    BY <1>2 DEF Awaiting
  <2>2. Len(queue) = 0
    BY <1>1, <1>2
  <2>3. ~RollsBack(u)
    BY <1>1, <2>2 DEF RollsBack, AtHead
  <2> QED  BY <2>1, <2>3 DEF RollbackOK
<1>9. RollbackOK'
  <2>1. t \notin Putter => p \in {"write", "commit"}
    BY DEF NextAwaited
  <2> QED  BY <1>2, <1>7, <1>8, <2>1 DEF RollbackOK, NoneOf
<1>10. DataOK'
  BY <1>2, <1>7, <1>8 DEF NextAwaited, Counts, Ready, DataOK, NoneOf, AllOf, UpTo, Awaiting
<1>11. PutterOK'
  BY <1>2, SaverConstants DEF Ready, PutterOK, Awaiting
<1> QED  BY <1>2, <1>5, <1>6, <1>9, <1>10, <1>11

\* A rollback follows at most one statement, one of the same task.
LEMMA AbortOK ==
  ASSUME IInv, NEW t \in Task, pc[t] \in {"write", "commit"}, Abort(t),
         UNCHANGED <<open, pending, stored>>
  PROVE  IInv'
<1> USE DEF IInv, QueueOK
<1>1. /\ pc' = [pc EXCEPT ![t] = "rollback"] /\ Execute(t, OpOf("rollback"))
      /\ UNCHANGED <<step, lock, open, pending, stored>>
      /\ OpOf("rollback") = "rollback" /\ step' \in [Task -> 0..Writes]
      /\ "rollback" \in Awaiting /\ pc[t] \in Awaiting
  BY DEF Abort, OpOf, Awaiting, TypeOK
<1>2. lock = t /\ lock' = t /\ t \notin Putter
  BY <1>1 DEF LockOK, KindOK
<1>3. /\ TypeOK' /\ LockOK' /\ KindOK' /\ AwaitOK'
      /\ Len(queue) \in Nat /\ DOMAIN queue = 1..Len(queue)
      /\ (Len(queue) = 0 <=> queue = <<>>) /\ queue' # <<>>
      /\ Len(queue') = Len(queue) + 1 /\ DOMAIN queue' = 1..Len(queue')
      /\ \A i \in 1..Len(queue) : queue'[i] = queue[i]
      /\ queue'[Len(queue')] = Does(t, "rollback")
      /\ pc'[t] = "rollback" /\ answer'[t] = "none"
      /\ \A u \in Task \ {t} : /\ pc'[u] = pc[u] /\ answer'[u] = answer[u]
                               /\ pc[u] \notin Awaiting
  BY <1>1, <1>2, ExecuteOK
<1>4. /\ Does(t, "rollback").task = t /\ Does(t, "rollback").op = "rollback"
      /\ \A u, op : Does(u, op).task = u
  BY DEF Does
<1>5. Len(queue) <= 1 /\ (Len(queue) = 1 => queue[1].task = t)
  <2>1. Len(queue) <= 1
    BY DEF ShortOK
  <2>2. queue # <<>> => queue[Len(queue)] = Does(t, OpOf(pc[t]))
    BY <1>1 DEF AwaitOK
  <2>3. queue # <<>> => queue[Len(queue)].task = t
    BY <2>2, <1>4
  <2> QED  BY <2>1, <2>3, <1>3
<1>6. ShortOK'
  BY <1>3 DEF ShortOK, Awaiting
<1>7. HeadOK'
  BY <1>3, <1>4 DEF HeadOK
<1>8. FreshOK'
  BY <1>1, <1>3, <1>4 DEF FreshOK, NoneOf
<1>9. \A u \in Task : \A op \in {"write", "commit"} : AtHead(u, op)' => AtHead(u, op)
  BY <1>3 DEF AtHead, Does
<1>10. RollsBack(t)'
  BY <1>3, <1>5 DEF RollsBack, AtHead
<1>11. \A u \in Task \ Putter : u # t => /\ pc[u] \notin {"write", "commit"}
                                        /\ ~RollsBack(u)
  <2> SUFFICES ASSUME NEW u \in Task \ Putter, u # t
               PROVE  pc[u] \notin {"write", "commit"} /\ ~RollsBack(u)
    OBVIOUS
  <2>1. pc[u] \notin {"write", "commit"}
    BY <1>3 DEF Awaiting
  <2>2. ~AtHead(u, "rollback")
    <3> SUFFICES ASSUME AtHead(u, "rollback") PROVE FALSE
      OBVIOUS
    <3>1. Len(queue) = 1
      BY <1>3, <1>5 DEF AtHead
    <3> QED  BY <3>1, <1>5, <1>4 DEF AtHead
  <2> QED  BY <2>1, <2>2, <1>3, <1>5 DEF RollsBack
<1>12. RollbackOK'
  BY <1>1, <1>3, <1>9, <1>10, <1>11 DEF RollbackOK, NoneOf
<1>13. DataOK'
  BY <1>1, <1>3, <1>9 DEF DataOK, NoneOf, AllOf, UpTo
<1>14. PutterOK'
  BY <1>1, <1>2, <1>3, SaverConstants DEF PutterOK
<1> QED  BY <1>3, <1>6, <1>7, <1>8, <1>12, <1>13, <1>14

-----------------------------------------------------------------------------
(***************************************************************************)
(* The connection's thread executes the oldest statement.                  *)
(***************************************************************************)
Oldest == Head(queue).task
OldestOp == Head(queue).op

\* What it does to the queue, and to the answers.
LEMMA ServeQueue ==
  ASSUME TypeOK, Serve
  PROVE  /\ queue # <<>> /\ Len(queue) \in Nat \ {0} /\ queue' \in Seq(Statement)
         /\ Len(queue') = Len(queue) - 1
         /\ DOMAIN queue = 1..Len(queue) /\ DOMAIN queue' = 1..Len(queue')
         /\ (queue' = <<>> <=> Len(queue) = 1)
         /\ \A i \in 1..Len(queue') : queue'[i] = queue[i + 1]
         /\ queue[1].task = Oldest /\ queue[1].op = OldestOp
         /\ queue[1] \in Statement /\ UNCHANGED <<pc, step, lock>>
<1>1. queue \in Seq(Statement) /\ queue # <<>> /\ queue' = Tail(queue)
      /\ UNCHANGED <<pc, step, lock>>
  BY DEF Serve, TypeOK
<1>2. Len(queue) \in Nat \ {0} /\ DOMAIN queue = 1..Len(queue)
  BY <1>1
<1>3. queue' \in Seq(Statement) /\ Len(queue') = Len(queue) - 1
  BY <1>1, <1>2
<1>4. /\ DOMAIN queue' = 1..Len(queue')
      /\ \A i \in 1..Len(queue') : queue'[i] = queue[i + 1]
  BY <1>1, <1>2, <1>3
<1>5. queue' = <<>> <=> Len(queue) = 1
  <2>1. queue' = <<>> <=> Len(queue') = 0
    BY <1>3
  <2> QED  BY <2>1, <1>2, <1>3
<1>6. Head(queue) = queue[1] /\ queue[1] \in Statement
  BY <1>1, <1>2
<1> QED  BY <1>1, <1>2, <1>3, <1>4, <1>5, <1>6 DEF Oldest, OldestOp

LEMMA ServeAnswer ==
  ASSUME TypeOK, Serve
  PROVE  /\ answer' \in [Task -> {"none", "ok", "error"}]
         /\ \A u \in Task :
              IF u = Oldest /\ ~\E i \in 2..Len(queue) : queue[i].task = u
              THEN answer'[u] \in {"ok", "error"}
              ELSE answer'[u] = answer[u]
<1>1. answer \in [Task -> {"none", "ok", "error"}] /\ Oldest \in Task
  BY ServeQueue DEF TypeOK, Statement
<1>2. \E result \in {"ok", "error"} : answer' = Answered(Oldest, result)
  BY DEF Serve, Oldest
<1>3. PICK result \in {"ok", "error"} : answer' = Answered(Oldest, result)
  BY <1>2
<1> QED  BY <1>1, <1>3 DEF Answered

\* What it does to the writes, by what it executes.
LEMMA ServeWrites ==
  ASSUME TypeOK, Serve
  PROVE  \/ UNCHANGED <<pending, stored>> /\ OldestOp # "rollback"
            /\ \A u \in Task : answer'[u] = "ok" /\ answer[u] # "ok" => OldestOp = "begin"
         \/ OldestOp = "write" /\ UNCHANGED stored
            /\ pending' = pending \cup {<<Oldest, step[Oldest] + 1>>}
         \/ OldestOp = "commit" /\ stored' = stored \cup pending /\ pending' = {}
         \/ OldestOp = "rollback" /\ UNCHANGED stored /\ pending' = {}
<1>1. answer \in [Task -> {"none", "ok", "error"}]
  BY DEF TypeOK
<1>2. Oldest \in Task
  BY ServeQueue DEF TypeOK, Statement
<1> QED  BY <1>1, <1>2 DEF Serve, Oldest, OldestOp, Answered

\* The statements behind the oldest one are neither writes nor commits of a
\* transaction, and a task that awaits one of these awaits the oldest statement.
LEMMA OnlyOldest ==
  ASSUME IInv, Serve
  PROVE  /\ \A u \in Task \ Putter : ~AtHead(u, "write")' /\ ~AtHead(u, "commit")'
         /\ \A u \in Task : pc[u] \in {"write", "commit", "put_commit"} =>
              /\ Len(queue) = 1 /\ answer[u] = "none"
              /\ Oldest = u /\ OldestOp = OpOf(pc[u])
              /\ answer'[u] \in {"ok", "error"}
         /\ \A u \in Task : pc[u] = "put" /\ answer'[u] = "ok" =>
              /\ answer[u] = "none" /\ Oldest = u /\ OldestOp = "write"
<1> USE DEF IInv, QueueOK
<1>1. /\ queue # <<>> /\ Len(queue) \in Nat \ {0} /\ queue' \in Seq(Statement)
      /\ Len(queue') = Len(queue) - 1
      /\ DOMAIN queue = 1..Len(queue) /\ DOMAIN queue' = 1..Len(queue')
      /\ (queue' = <<>> <=> Len(queue) = 1)
      /\ \A i \in 1..Len(queue') : queue'[i] = queue[i + 1]
      /\ queue[1].task = Oldest /\ queue[1].op = OldestOp
  BY ServeQueue
<1>2. \A u \in Task :
        IF u = Oldest /\ ~\E i \in 2..Len(queue) : queue[i].task = u
        THEN answer'[u] \in {"ok", "error"}
        ELSE answer'[u] = answer[u]
  BY ServeAnswer
<1>3. \A u, op : Does(u, op).task = u /\ Does(u, op).op = op
  BY DEF Does
<1>4. \A u \in Task \ Putter : ~AtHead(u, "write")' /\ ~AtHead(u, "commit")'
  <2> SUFFICES ASSUME NEW u \in Task \ Putter, NEW op \in {"write", "commit"},
                      AtHead(u, op)'
               PROVE  FALSE
    OBVIOUS
  <2>1. queue' # <<>> /\ queue'[1] = Does(u, op)
    BY DEF AtHead
  <2>2. Len(queue) >= 2
    BY <1>1, <2>1
  <2>3. queue[2] = Does(u, op) /\ 2 \in DOMAIN queue
    BY <1>1, <2>1, <2>2
  <2>4. queue[2].task = u /\ queue[2].op = op
    BY <1>3, <2>3
  <2> QED  BY <2>3, <2>4 DEF HeadOK
<1>5. ASSUME NEW u \in Task, pc[u] \in Awaiting
      PROVE  answer[u] = "none" /\ queue[Len(queue)] = Does(u, OpOf(pc[u]))
  BY <1>1, <1>5 DEF AwaitOK
<1>6. ASSUME NEW u \in Task, pc[u] \in {"write", "commit", "put_commit"}
      PROVE  /\ Len(queue) = 1 /\ answer[u] = "none"
             /\ Oldest = u /\ OldestOp = OpOf(pc[u])
             /\ answer'[u] \in {"ok", "error"}
  <2>1. Len(queue) = 1
    BY <1>1, <1>6 DEF ShortOK
  <2>2. answer[u] = "none" /\ queue[1] = Does(u, OpOf(pc[u]))
    BY <1>5, <1>6, <2>1 DEF Awaiting
  <2>3. Oldest = u /\ OldestOp = OpOf(pc[u])
    BY <1>1, <1>3, <2>2
  <2>4. answer'[u] \in {"ok", "error"}
    BY <1>2, <2>1, <2>3
  <2> QED  BY <2>1, <2>2, <2>3, <2>4
<1>7. ASSUME NEW u \in Task, pc[u] = "put", answer'[u] = "ok"
      PROVE  answer[u] = "none" /\ Oldest = u /\ OldestOp = "write"
  <2>1. answer[u] = "none" /\ queue[Len(queue)] = Does(u, "write")
    BY <1>5, <1>7 DEF Awaiting, OpOf
  <2>2. u = Oldest /\ ~\E i \in 2..Len(queue) : queue[i].task = u
    BY <1>2, <1>7, <2>1
  <2>3. Len(queue) = 1
    BY <1>1, <1>3, <2>1, <2>2
  <2> QED  BY <1>1, <1>3, <2>1, <2>2, <2>3
<1> QED  BY <1>4, <1>6, <1>7

\* A write comes from a body that is not over, or is the one of a putter.
LEMMA WriteCounted ==
  ASSUME IInv, Serve, OldestOp = "write"
  PROVE  /\ Oldest \in Task /\ step[Oldest] + 1 \in 1..Writes
         /\ Oldest \in Putter => step[Oldest] + 1 = 1
<1> USE DEF IInv, QueueOK
<1>1. /\ queue # <<>> /\ queue[1].task = Oldest /\ queue[1].op = "write"
      /\ queue[1] \in Statement
  BY ServeQueue
<1>2. Oldest \in Task
  BY <1>1 DEF Statement
<1>3. AtHead(Oldest, "write")
  BY <1>1 DEF AtHead, Does, Statement
<1>4. step[Oldest] \in 0..Writes
  BY <1>2 DEF TypeOK
<1>5. CASE Oldest \in Putter
  BY <1>2, <1>5, SaverConstants DEF KindOK
<1>6. CASE Oldest \notin Putter
  <2>1. step[Oldest] < Writes
    BY <1>2, <1>3, <1>6 DEF DataOK
  <2> QED  BY <1>2, <1>4, <1>6, <2>1, SaverConstants
<1> QED  BY <1>5, <1>6

LEMMA ServeOK ==
  ASSUME IInv, Serve
  PROVE  IInv'
<1> USE DEF IInv, QueueOK
<1>1. /\ queue # <<>> /\ Len(queue) \in Nat \ {0} /\ queue' \in Seq(Statement)
      /\ Len(queue') = Len(queue) - 1
      /\ DOMAIN queue = 1..Len(queue) /\ DOMAIN queue' = 1..Len(queue')
      /\ (queue' = <<>> <=> Len(queue) = 1)
      /\ \A i \in 1..Len(queue') : queue'[i] = queue[i + 1]
      /\ queue[1].task = Oldest /\ queue[1].op = OldestOp
      /\ queue[1] \in Statement /\ UNCHANGED <<pc, step, lock>>
  BY ServeQueue
<1>2. /\ answer' \in [Task -> {"none", "ok", "error"}]
      /\ \A u \in Task :
           IF u = Oldest /\ ~\E i \in 2..Len(queue) : queue[i].task = u
           THEN answer'[u] \in {"ok", "error"}
           ELSE answer'[u] = answer[u]
  BY ServeAnswer
<1>3. \/ UNCHANGED <<pending, stored>> /\ OldestOp # "rollback"
         /\ \A u \in Task : answer'[u] = "ok" /\ answer[u] # "ok" => OldestOp = "begin"
      \/ OldestOp = "write" /\ UNCHANGED stored
         /\ pending' = pending \cup {<<Oldest, step[Oldest] + 1>>}
      \/ OldestOp = "commit" /\ stored' = stored \cup pending /\ pending' = {}
      \/ OldestOp = "rollback" /\ UNCHANGED stored /\ pending' = {}
  BY ServeWrites
<1>4. /\ \A u \in Task \ Putter : ~AtHead(u, "write")' /\ ~AtHead(u, "commit")'
      /\ \A u \in Task : pc[u] \in {"write", "commit", "put_commit"} =>
           /\ Len(queue) = 1 /\ answer[u] = "none"
           /\ Oldest = u /\ OldestOp = OpOf(pc[u])
           /\ answer'[u] \in {"ok", "error"}
      /\ \A u \in Task : pc[u] = "put" /\ answer'[u] = "ok" =>
           answer[u] = "none" /\ Oldest = u /\ OldestOp = "write"
  BY OnlyOldest
<1>5. OldestOp = "write" =>
        /\ Oldest \in Task /\ step[Oldest] + 1 \in 1..Writes
        /\ Oldest \in Putter => step[Oldest] + 1 = 1
  BY WriteCounted
<1>6. Oldest \in Task /\ \A op : AtHead(Oldest, op) <=> OldestOp = op
  BY <1>1 DEF AtHead, Does, Statement
<1>7. \A u \in Task, op \in {"write", "commit", "rollback"} : AtHead(u, op) => u = Oldest
  BY <1>1 DEF AtHead, Does
<1>8. TypeOK'
  <2>1. open' \in BOOLEAN
    BY DEF Serve, TypeOK
  <2>2. pending' \subseteq Write /\ stored' \subseteq Write
    BY <1>3, <1>5 DEF TypeOK, Write
  <2> QED  BY <1>1, <1>2, <2>1, <2>2 DEF TypeOK
<1>9. LockOK' /\ KindOK'
  BY <1>1 DEF LockOK, KindOK
<1>10. AwaitOK'
  <2> SUFFICES ASSUME NEW u \in Task, pc[u] \in Awaiting
               PROVE  IF answer'[u] = "none"
                      THEN queue' # <<>> /\ queue'[Len(queue')] = Does(u, OpOf(pc[u]))
                      ELSE queue' = <<>>
    BY <1>1 DEF AwaitOK
  <2>1. answer[u] = "none" /\ queue[Len(queue)] = Does(u, OpOf(pc[u]))
    BY <1>1 DEF AwaitOK
  <2>2. queue[Len(queue)].task = u
    BY <2>1 DEF Does
  <2>3. CASE Len(queue) = 1
    BY <1>1, <1>2, <2>2, <2>3
  <2>4. CASE Len(queue) # 1
    <3>1. answer'[u] = "none"
      BY <1>1, <1>2, <2>1, <2>2, <2>4
    <3>2. queue'[Len(queue')] = queue[Len(queue)]
      BY <1>1, <2>4
    <3> QED  BY <1>1, <2>1, <2>4, <3>1, <3>2
  <2> QED  BY <2>3, <2>4
<1>11. ShortOK'
  BY <1>1 DEF ShortOK
<1>12. HeadOK'
  BY <1>1 DEF HeadOK
<1>13. ASSUME NEW u \in Task, pc[u] \in {"idle", "begin"}
       PROVE  /\ \A i \in DOMAIN queue' : queue'[i].task = u =>
                    pc[u] # "idle" /\ queue'[i].op \in {"begin"}
              /\ step[u] = 0 /\ NoneOf(pending, u)' /\ NoneOf(stored, u)'
  <2>1. /\ \A i \in DOMAIN queue : queue[i].task = u =>
              pc[u] # "idle" /\ queue[i].op \in {"begin"}
        /\ step[u] = 0 /\ NoneOf(pending, u) /\ NoneOf(stored, u)
    BY <1>13 DEF FreshOK
  <2>2. \A i \in DOMAIN queue' : queue'[i].task = u =>
          pc[u] # "idle" /\ queue'[i].op \in {"begin"}
    BY <1>1, <2>1
  <2>3. OldestOp = "write" => Oldest # u
    BY <1>1, <2>1
  <2> QED  BY <1>3, <2>1, <2>2, <2>3 DEF NoneOf
<1>14. FreshOK'
  BY <1>1, <1>13 DEF FreshOK
<1>15. RollbackOK'
  <2> SUFFICES ASSUME NEW u \in Task \ Putter, pc[u] \notin {"write", "commit"},
                      ~NoneOf(pending, u)'
               PROVE  RollsBack(u)'
    BY <1>1, <1>4 DEF RollbackOK
  <2>1. OldestOp \notin {"commit", "rollback"} \/ (UNCHANGED pending /\ OldestOp # "rollback")
    BY <1>3 DEF NoneOf
  <2>2. ~NoneOf(pending, u) \/ AtHead(u, "write")
    BY <1>3, <1>6 DEF NoneOf
  <2>3. RollsBack(u)
    BY <2>2 DEF RollbackOK
  <2>4. OldestOp # "rollback"
    BY <2>1
  <2>5. Len(queue) >= 2 /\ queue[2] = Does(u, "rollback")
    BY <2>3, <2>4, <1>6, <1>7 DEF RollsBack
  <2>6. AtHead(u, "rollback")'
    BY <1>1, <2>5 DEF AtHead
  <2> QED  BY <2>6 DEF RollsBack
<1>16. DataOK'
  <2> SUFFICES ASSUME NEW u \in Task \ Putter
               PROVE  /\ NoneOf(stored, u)' \/ AllOf(stored, u)'
                      /\ pc[u] = "write" =>
                           /\ step[u] < Writes
                           /\ answer'[u] = "none" => UpTo(pending, u, step[u])'
                           /\ answer'[u] = "ok" => UpTo(pending, u, step[u] + 1)'
                      /\ pc[u] = "commit" /\ answer'[u] = "ok" =>
                           AllOf(stored, u)' /\ NoneOf(pending, u)'
                      /\ pc[u] = "done" => AllOf(stored, u)'
    BY <1>1, <1>4 DEF DataOK
  <2>1. AllOf(stored, u) => AllOf(stored, u)'
    BY <1>3 DEF AllOf
  <2>2. OldestOp = "commit" => NoneOf(pending, u) \/ AllOf(pending, u)
    <3> SUFFICES ASSUME OldestOp = "commit", ~NoneOf(pending, u) PROVE AllOf(pending, u)
      OBVIOUS
    <3>1. CASE Oldest = u
      BY <1>6, <3>1 DEF DataOK
    <3>2. CASE Oldest # u
      <4>1. pc[u] \notin {"write", "commit"}
        BY <1>4, <3>2
      <4>2. RollsBack(u)
        BY <4>1 DEF RollbackOK
      <4> QED  BY <1>1, <1>7, <3>2, <4>2 DEF RollsBack
    <3> QED  BY <3>1, <3>2
  <2>3. NoneOf(stored, u)' \/ AllOf(stored, u)'
    <3>1. NoneOf(stored, u) \/ AllOf(stored, u)
      BY DEF DataOK
    <3> QED  BY <1>3, <2>2, <3>1 DEF NoneOf, AllOf
  <2>4. ASSUME pc[u] = "write"
        PROVE  /\ step[u] < Writes
               /\ answer'[u] # "none"
               /\ answer'[u] = "ok" => UpTo(pending, u, step[u] + 1)'
    <3>1. /\ answer[u] = "none" /\ Oldest = u /\ OldestOp = "write"
          /\ answer'[u] \in {"ok", "error"}
      BY <1>4, <2>4 DEF OpOf
    <3>2. step[u] < Writes /\ UpTo(pending, u, step[u]) /\ step[u] \in 0..Writes
      BY <2>4, <3>1 DEF DataOK, TypeOK
    <3>3. answer'[u] = "ok" => pending' = pending \cup {<<u, step[u] + 1>>}
      BY <1>3, <3>1
    <3> QED  BY <3>1, <3>2, <3>3, <1>1, SaverConstants DEF UpTo
  <2>5. ASSUME pc[u] = "commit", answer'[u] = "ok"
        PROVE  AllOf(stored, u)' /\ NoneOf(pending, u)'
    <3>1. answer[u] = "none" /\ Oldest = u /\ OldestOp = "commit"
      BY <1>4, <2>5 DEF OpOf
    <3>2. stored' = stored \cup pending /\ pending' = {}
      BY <1>3, <2>5, <3>1
    <3>3. AllOf(pending, u)
      BY <1>6, <3>1 DEF DataOK
    <3> QED  BY <3>2, <3>3 DEF AllOf, NoneOf
  <2>6. pc[u] = "done" => AllOf(stored, u)'
    BY <2>1 DEF DataOK
  <2> QED  BY <2>3, <2>4, <2>5, <2>6
<1>17. PutterOK'
  <2> SUFFICES ASSUME NEW u \in Putter
               PROVE  /\ \A i \in 1..Writes : <<u, i>> \in pending' \cup stored' => i = 1
                      /\ pc[u] = "put" /\ answer'[u] = "ok" => <<u, 1>> \in pending'
                      /\ pc[u] = "put_commit" => answer'[u] # "none"
                      /\ pc[u] = "put_commit" /\ answer'[u] = "ok" => <<u, 1>> \in stored'
                      /\ pc[u] = "done" => <<u, 1>> \in stored'
    BY <1>1 DEF PutterOK
  <2>1. u \in Task /\ step[u] = 0
    BY SaverConstants DEF KindOK
  <2>2. \A i \in 1..Writes : <<u, i>> \in pending' \cup stored' => i = 1
    <3>1. \A i \in 1..Writes : <<u, i>> \in pending \cup stored => i = 1
      BY DEF PutterOK
    <3> QED  BY <1>3, <1>5, <3>1
  <2>3. pc[u] = "put" /\ answer'[u] = "ok" => <<u, 1>> \in pending'
    <3> SUFFICES ASSUME pc[u] = "put", answer'[u] = "ok" PROVE <<u, 1>> \in pending'
      OBVIOUS
    <3>1. answer[u] = "none" /\ Oldest = u /\ OldestOp = "write"
      BY <1>4, <2>1
    <3>2. pending' = pending \cup {<<u, step[u] + 1>>}
      BY <1>3, <2>1, <3>1
    <3> QED  BY <2>1, <3>2
  <2>4. pc[u] = "put_commit" => /\ answer'[u] # "none"
                                /\ answer'[u] = "ok" => <<u, 1>> \in stored'
    <3> SUFFICES ASSUME pc[u] = "put_commit"
                 PROVE  /\ answer'[u] # "none"
                        /\ answer'[u] = "ok" => <<u, 1>> \in stored'
      OBVIOUS
    <3>1. /\ answer[u] = "none" /\ Oldest = u /\ OldestOp = "commit"
          /\ answer'[u] \in {"ok", "error"}
      BY <1>4, <2>1 DEF OpOf
    <3>2. <<u, 1>> \in pending
      BY <3>1 DEF PutterOK
    <3>3. answer'[u] = "ok" => stored' = stored \cup pending
      BY <1>3, <2>1, <3>1
    <3> QED  BY <3>1, <3>2, <3>3
  <2>5. pc[u] = "done" => <<u, 1>> \in stored'
    BY <1>3 DEF PutterOK
  <2> QED  BY <2>2, <2>3, <2>4, <2>5
<1> QED  BY <1>8, <1>9, <1>10, <1>11, <1>12, <1>14, <1>15, <1>16, <1>17

-----------------------------------------------------------------------------
(***************************************************************************)
(* The answers a task goes on with.                                        *)
(***************************************************************************)
\* A BEGIN is answered: the body has written nothing yet.
LEMMA BegunOK ==
  ASSUME IInv, NEW t \in Task, Begun(t)
  PROVE  IInv'
<1> USE DEF IInv, QueueOK
<1>1. /\ pc[t] = "begin" /\ pc[t] \in Awaiting /\ answer[t] # "none"
      /\ t \notin Putter /\ UNCHANGED <<open, pending, stored>>
  BY DEF Begun, Awaiting, KindOK
<1>2. CASE answer[t] = "ok"
  <2>1. /\ pc' = [pc EXCEPT ![t] = "write"] /\ Execute(t, OpOf("write"))
        /\ UNCHANGED <<step, lock>> /\ "write" \in NextAwaited
    BY <1>2 DEF Begun, OpOf, NextAwaited
  <2>2. Counts(t)
    BY <1>1, <2>1 DEF Counts, TypeOK
  <2>3. step[t] = 0 /\ UpTo(pending, t, 0)
    BY <1>1, SaverConstants DEF FreshOK, NoneOf, UpTo
  <2>4. Ready(t, "write")
    BY <2>1, <2>3, SaverConstants DEF Ready
  <2> QED  BY <1>1, <2>1, <2>2, <2>4, GoesOnOK
<1>3. CASE answer[t] # "ok"
  <2>1. Leave(t, "raised")
    BY <1>3 DEF Begun
  <2> QED  BY <1>1, <2>1, LeaveOK
<1> QED  BY <1>2, <1>3

\* A statement of the body is answered.
LEMMA WroteOK ==
  ASSUME IInv, NEW t \in Task, Wrote(t)
  PROVE  IInv'
<1> USE DEF IInv, QueueOK
<1>1. /\ pc[t] = "write" /\ pc[t] \in Awaiting /\ answer[t] \in {"ok", "error"}
      /\ t \notin Putter /\ UNCHANGED <<open, pending, stored>>
      /\ step \in [Task -> 0..Writes] /\ step[t] < Writes
  BY DEF Wrote, Awaiting, KindOK, TypeOK, DataOK
<1>2. CASE answer[t] = "error"
  BY <1>1, <1>2, AbortOK DEF Wrote
<1>3. CASE answer[t] = "ok"
  <2>1. /\ step' = [step EXCEPT ![t] = @ + 1] /\ UNCHANGED lock
        /\ UpTo(pending, t, step[t] + 1)
    BY <1>1, <1>3 DEF Wrote, DataOK
  <2>2. step[t] + 1 \in 0..Writes /\ step'[t] = step[t] + 1
    BY <1>1, <2>1, SaverConstants
  <2>3. Counts(t)
    BY <1>1, <2>1, <2>2 DEF Counts
  <2>4. CASE BodyOver(t)
    <3>1. /\ pc' = [pc EXCEPT ![t] = "commit"] /\ Execute(t, OpOf("commit"))
          /\ "commit" \in NextAwaited
      BY <1>1, <1>3, <2>4 DEF Wrote, OpOf, NextAwaited
    <3>2. AllOf(pending, t)
      BY <1>1, <2>1, <2>4, SaverConstants DEF BodyOver, UpTo, AllOf
    <3>3. Ready(t, "commit")
      BY <3>2 DEF Ready
    <3> QED  BY <1>1, <2>1, <2>3, <3>1, <3>3, GoesOnOK
  <2>5. CASE ~BodyOver(t)
    <3>1. /\ pc' = [pc EXCEPT ![t] = "write"] /\ Execute(t, OpOf("write"))
          /\ "write" \in NextAwaited
      BY <1>1, <1>3, <2>5 DEF Wrote, OpOf, NextAwaited, TypeOK
    <3>2. step'[t] < Writes
      BY <1>1, <2>2, <2>5, SaverConstants DEF BodyOver
    <3>3. Ready(t, "write")
      BY <2>1, <2>2, <3>2 DEF Ready
    <3> QED  BY <1>1, <2>1, <2>3, <3>1, <3>3, GoesOnOK
  <2> QED  BY <2>4, <2>5
<1> QED  BY <1>1, <1>2, <1>3

\* The writes of aput_writes are answered.
LEMMA PutCommitOK ==
  ASSUME IInv, NEW t \in Task, PutCommit(t)
  PROVE  IInv'
<1> USE DEF IInv, QueueOK
<1>1. /\ pc[t] = "put" /\ pc[t] \in Awaiting /\ answer[t] # "none"
      /\ t \in Putter /\ UNCHANGED <<open, pending, stored>>
  BY DEF PutCommit, Awaiting, KindOK
<1>2. CASE answer[t] = "ok"
  <2>1. /\ pc' = [pc EXCEPT ![t] = "put_commit"] /\ Execute(t, OpOf("put_commit"))
        /\ UNCHANGED <<step, lock>> /\ "put_commit" \in NextAwaited
    BY <1>2 DEF PutCommit, OpOf, NextAwaited
  <2>2. Counts(t)
    BY <1>1, <2>1 DEF Counts, TypeOK, KindOK
  <2>3. <<t, 1>> \in pending
    BY <1>1, <1>2 DEF PutterOK
  <2>4. Ready(t, "put_commit")
    BY <2>3 DEF Ready
  <2> QED  BY <1>1, <2>1, <2>2, <2>4, GoesOnOK
<1>3. CASE answer[t] # "ok"
  <2>1. Leave(t, "raised")
    BY <1>3 DEF PutCommit
  <2> QED  BY <1>1, <2>1, LeaveOK
<1> QED  BY <1>2, <1>3

\* Every other way a task ends what it awaits: the answer of its commit or of its
\* rollback, and a cancellation.
LEMMA EndsOK ==
  ASSUME IInv, NEW t \in Task,
         Committed(t) \/ RolledBack(t) \/ PutDone(t) \/ Cancel(t)
  PROVE  IInv'
<1>1. UNCHANGED <<open, pending, stored>> /\ pc[t] \in Awaiting
  BY DEF Committed, RolledBack, PutDone, Cancel, Awaiting
<1>2. CASE Committed(t)
  <2>1. CASE Commits(t)
    BY <1>1, <1>2, <2>1, LeaveOK DEF Committed, Commits
  <2>2. CASE ~Commits(t)
    BY <1>1, <1>2, <2>2, AbortOK DEF Committed
  <2> QED  BY <2>1, <2>2
<1>3. CASE RolledBack(t)
  BY <1>1, <1>3, LeaveOK DEF RolledBack
<1>4. CASE PutDone(t)
  <2>1. CASE answer[t] = "ok"
    BY <1>1, <1>4, <2>1, LeaveOK DEF PutDone
  <2>2. CASE answer[t] # "ok"
    BY <1>1, <1>4, <2>2, LeaveOK DEF PutDone
  <2> QED  BY <2>1, <2>2
<1>5. CASE Cancel(t)
  <2>1. CASE pc[t] \in {"write", "commit"}
    BY <1>1, <1>5, <2>1, AbortOK DEF Cancel
  <2>2. CASE pc[t] \notin {"write", "commit"}
    BY <1>1, <1>5, <2>2, LeaveOK DEF Cancel
  <2> QED  BY <2>1, <2>2
<1> QED  BY <1>2, <1>3, <1>4, <1>5

LEMMA StutterOK == IInv /\ UNCHANGED vars => IInv'
BY DEF vars, IInv, TypeOK, QueueOK, LockOK, KindOK, AwaitOK, ShortOK, HeadOK, FreshOK,
       RollbackOK, RollsBack, DataOK, PutterOK, NoneOf, AllOf, UpTo, AtHead

LEMMA NextOK == IInv /\ [Next]_vars => IInv'
<1> SUFFICES ASSUME IInv, [Next]_vars PROVE IInv'
  OBVIOUS
<1>1. CASE Serve
  BY <1>1, ServeOK
<1>2. ASSUME NEW t \in Task, Enter(t) PROVE IInv'
  BY <1>2, EnterOK
<1>3. ASSUME NEW t \in Task, Begun(t) PROVE IInv'
  BY <1>3, BegunOK
<1>4. ASSUME NEW t \in Task, Wrote(t) PROVE IInv'
  BY <1>4, WroteOK
<1>5. ASSUME NEW t \in Task, Committed(t) \/ RolledBack(t) \/ PutDone(t) \/ Cancel(t)
      PROVE  IInv'
  BY <1>5, EndsOK
<1>6. ASSUME NEW t \in Task, Put(t) PROVE IInv'
  BY <1>6, PutOK
<1>7. ASSUME NEW t \in Task, PutCommit(t) PROVE IInv'
  BY <1>7, PutCommitOK
<1>8. CASE UNCHANGED vars
  BY <1>8, StutterOK
<1> QED  BY <1>1, <1>2, <1>3, <1>4, <1>5, <1>6, <1>7, <1>8 DEF Next

LEMMA Inductive == Spec => []IInv
BY InitOK, NextOK, PTL DEF Spec

-----------------------------------------------------------------------------
\* Every variable of the transaction model keeps its type.
THEOREM SaverTypeCorrect == Spec => []TypeOK
<1>1. IInv => TypeOK
  BY DEF IInv
<1> QED  BY Inductive, <1>1, PTL

\* transaction_locked stores the writes of a body all or not at all, however many
\* tasks share the connection and however long the body is: also when a task is
\* cancelled at any await, a statement fails, or aput_writes commits in between.
THEOREM TransactionsWhole == Spec => []AllOrNothing
<1>1. ASSUME IInv PROVE AllOrNothing
  <2> SUFFICES ASSUME NEW t \in Task \ Putter
               PROVE  StoredOf(t) = {} \/ StoredOf(t) = {t} \X (1..Writes)
    BY DEF AllOrNothing
  <2>1. stored \subseteq Write
    BY <1>1 DEF IInv, TypeOK
  <2>2. CASE NoneOf(stored, t)
    BY <2>1, <2>2 DEF NoneOf, StoredOf, Write
  <2>3. CASE AllOf(stored, t)
    BY <2>1, <2>3 DEF AllOf, StoredOf, Write
  <2> QED  BY <1>1, <2>2, <2>3 DEF IInv, DataOK
<1> QED  BY Inductive, <1>1, PTL

\* A caller of transaction_locked or aput_writes that gets no exception finds its
\* writes in the database.
THEOREM DoneAlwaysStored == Spec => []DoneIsStored
<1>1. ASSUME IInv PROVE DoneIsStored
  <2> SUFFICES ASSUME NEW t \in Task, pc[t] = "done"
               PROVE  StoredOf(t) = IF t \in Putter THEN {<<t, 1>>}
                                    ELSE {t} \X (1..Writes)
    BY DEF DoneIsStored
  <2>1. stored \subseteq Write
    BY <1>1 DEF IInv, TypeOK
  <2>2. CASE t \in Putter
    <3>1. /\ <<t, 1>> \in stored
          /\ \A i \in 1..Writes : <<t, i>> \in stored => i = 1
      BY <1>1, <2>2 DEF IInv, PutterOK
    <3> QED  BY <2>1, <2>2, <3>1 DEF StoredOf, Write
  <2>3. CASE t \notin Putter
    <3>1. AllOf(stored, t)
      BY <1>1, <2>3 DEF IInv, DataOK
    <3> QED  BY <2>1, <2>3, <3>1 DEF AllOf, StoredOf, Write
  <2> QED  BY <2>2, <2>3
<1> QED  BY Inductive, <1>1, PTL
=============================================================================
