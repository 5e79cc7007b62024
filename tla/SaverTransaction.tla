--------------------------- MODULE SaverTransaction ---------------------------
(***************************************************************************)
(* How the saver runs one transaction: transaction_locked and              *)
(* _rollback_safely of src/rag_agent/runtime/agent_server_checkpointer.py, *)
(* entered under the saver's asyncio lock.                                 *)
(*                                                                         *)
(* The connection is external (aiosqlite): a statement goes into a queue   *)
(* that one thread works off in order, and the task awaits its result.     *)
(* Cancelling the task abandons the await, never the statement.  The base  *)
(* saver's aput_writes, which writes and commits without transaction_      *)
(* locked, shares the lock and the connection.                             *)
(*                                                                         *)
(* SQLite rolls back whatever happens; any write or commit may fail.       *)
(***************************************************************************)
EXTENDS Integers, Sequences, FiniteSets

CONSTANTS
  Task,     \* coroutines that use the saver once each
  Putter,   \* the ones that call aput_writes; the others run a transaction
  Writes    \* how many statements the body of a transaction has

Free == "free"                      \* nobody holds the lock

ASSUME SaverConstants ==
  /\ Putter \subseteq Task /\ Free \notin Task
  /\ Writes \in Nat \ {0}

VARIABLES
  pc,       \* what each task does
  step,     \* how many statements of its body a task has had executed
  lock,     \* the task that holds the saver's lock
  queue,    \* statements the connection's thread has not executed yet
  answer,   \* the result each task awaits: none yet, ok or an error
  open,     \* whether a transaction is open on the connection
  pending,  \* writes of the open transaction
  stored    \* writes that are committed

vars == <<pc, step, lock, queue, answer, open, pending, stored>>

Write == Task \X (1..Writes)
Statement == [task : Task, op : {"begin", "write", "commit", "rollback"}]

\* Where a task awaits a statement, and how it may end.
Awaiting == {"begin", "write", "commit", "rollback", "put", "put_commit"}
Ended    == {"done", "raised"}

Init ==
  /\ pc = [t \in Task |-> "idle"]
  /\ step = [t \in Task |-> 0]
  /\ lock = Free /\ queue = <<>>
  /\ answer = [t \in Task |-> "none"]
  /\ open = FALSE /\ pending = {} /\ stored = {}

\* Task t awaits statement op.
Execute(t, op) ==
  /\ queue' = Append(queue, [task |-> t, op |-> op])
  /\ answer' = [answer EXCEPT ![t] = "none"]

\* Task t leaves the lock with a result.
Leave(t, result) ==
  /\ pc' = [pc EXCEPT ![t] = result]
  /\ lock' = Free
  /\ UNCHANGED <<step, queue, answer>>

-----------------------------------------------------------------------------
\* The answers once the oldest statement, one of t's, has the given result: nobody
\* awaits it any more if t has put another one into the queue since.
Answered(t, result) ==
  IF \E i \in 2..Len(queue) : queue[i].task = t THEN answer
  ELSE [answer EXCEPT ![t] = result]

\* The connection's thread executes the oldest statement.  A BEGIN inside an
\* open transaction is an error.  A write opens a transaction if none is open,
\* even when it fails itself.
Serve ==
  /\ queue # <<>>
  /\ LET t  == Head(queue).task
         op == Head(queue).op
     IN  \/ /\ op = "begin" /\ ~open
            /\ open' = TRUE /\ answer' = Answered(t, "ok")
            /\ UNCHANGED <<pending, stored>>
         \/ /\ op = "begin" /\ open
            /\ answer' = Answered(t, "error")
            /\ UNCHANGED <<open, pending, stored>>
         \/ /\ op = "write"
            /\ open' = TRUE
            /\ pending' = pending \cup {<<t, step[t] + 1>>}
            /\ answer' = Answered(t, "ok")
            /\ UNCHANGED stored
         \/ /\ op = "commit"
            /\ open' = FALSE /\ stored' = stored \cup pending /\ pending' = {}
            /\ answer' = Answered(t, "ok")
         \/ /\ op \in {"write", "commit"}
            /\ open' \in {open, op = "write" \/ open}
            /\ answer' = Answered(t, "error")
            /\ UNCHANGED <<pending, stored>>
         \/ /\ op = "rollback"
            /\ open' = FALSE /\ pending' = {}
            /\ answer' = Answered(t, "ok")
            /\ UNCHANGED stored
  /\ queue' = Tail(queue)
  /\ UNCHANGED <<pc, step, lock>>

-----------------------------------------------------------------------------
\* async with lock, transaction_locked(): BEGIN IMMEDIATE, outside the try.
Enter(t) ==
  /\ pc[t] = "idle" /\ lock = Free /\ t \notin Putter
  /\ lock' = t
  /\ pc' = [pc EXCEPT ![t] = "begin"] /\ Execute(t, "begin")
  /\ UNCHANGED <<step, open, pending, stored>>

\* The BEGIN is answered: the body runs, or the task raises as it is.
Begun(t) ==
  /\ pc[t] = "begin" /\ answer[t] # "none"
  /\ IF answer[t] = "ok"
     THEN pc' = [pc EXCEPT ![t] = "write"] /\ Execute(t, "write") /\ UNCHANGED <<step, lock>>
     ELSE Leave(t, "raised")
  /\ UNCHANGED <<open, pending, stored>>

\* Roll the transaction back, as both except clauses do.  The first definition is
\* a faulty one that raises without it.
RaiseOnly(t) == Leave(t, "raised")

Abort(t) ==
  /\ pc' = [pc EXCEPT ![t] = "rollback"] /\ Execute(t, "rollback")
  /\ UNCHANGED <<step, lock>>

\* The body of t ends with the statement that was just answered.  The first
\* definition is a faulty one that takes one statement too many.
BodyOverLate(t) == step[t] >= Writes

BodyOver(t) == step[t] + 1 >= Writes

\* A statement of the body is answered: the next one, the commit, or a rollback.
Wrote(t) ==
  /\ pc[t] = "write" /\ answer[t] # "none"
  /\ IF answer[t] = "error" THEN Abort(t)
     ELSE /\ step' = [step EXCEPT ![t] = @ + 1]
          /\ IF BodyOver(t)
             THEN pc' = [pc EXCEPT ![t] = "commit"] /\ Execute(t, "commit")
             ELSE UNCHANGED pc /\ Execute(t, "write")
          /\ UNCHANGED lock
  /\ UNCHANGED <<open, pending, stored>>

\* The commit of t succeeded.  The first definition is a faulty one that does not
\* let its exception out.
CommitsAnyway(t) == answer[t] # "none"

Commits(t) == answer[t] = "ok"

Committed(t) ==
  /\ pc[t] = "commit" /\ answer[t] # "none"
  /\ IF Commits(t) THEN Leave(t, "done") ELSE Abort(t)
  /\ UNCHANGED <<open, pending, stored>>

RolledBack(t) ==
  /\ pc[t] = "rollback" /\ answer[t] # "none"
  /\ Leave(t, "raised")
  /\ UNCHANGED <<open, pending, stored>>

-----------------------------------------------------------------------------
\* The base saver's aput_writes: its writes and a commit under the lock, and no
\* rollback when they fail.
Put(t) ==
  /\ pc[t] = "idle" /\ lock = Free /\ t \in Putter
  /\ lock' = t
  /\ pc' = [pc EXCEPT ![t] = "put"] /\ Execute(t, "write")
  /\ UNCHANGED <<step, open, pending, stored>>

PutCommit(t) ==
  /\ pc[t] = "put" /\ answer[t] # "none"
  /\ IF answer[t] = "ok"
     THEN pc' = [pc EXCEPT ![t] = "put_commit"] /\ Execute(t, "commit") /\ UNCHANGED <<step, lock>>
     ELSE Leave(t, "raised")
  /\ UNCHANGED <<open, pending, stored>>

PutDone(t) ==
  /\ pc[t] = "put_commit" /\ answer[t] # "none"
  /\ Leave(t, IF answer[t] = "ok" THEN "done" ELSE "raised")
  /\ UNCHANGED <<open, pending, stored>>

\* The task is cancelled while it awaits a statement, before or after it is
\* answered.  The body and the commit roll back; a BEGIN does not, a rollback
\* swallows the cancellation, and the base saver has no handler.
Cancel(t) ==
  /\ pc[t] \in Awaiting
  /\ IF pc[t] \in {"write", "commit"} THEN Abort(t) ELSE Leave(t, "raised")
  /\ UNCHANGED <<open, pending, stored>>

Next ==
  \/ Serve
  \/ \E t \in Task : \/ Enter(t) \/ Begun(t) \/ Wrote(t) \/ Committed(t) \/ RolledBack(t)
                     \/ Cancel(t) \/ Put(t) \/ PutCommit(t) \/ PutDone(t)

Spec == Init /\ [][Next]_vars

-----------------------------------------------------------------------------
TypeOK ==
  /\ pc \in [Task -> {"idle"} \cup Awaiting \cup Ended]
  /\ step \in [Task -> 0..Writes]
  /\ lock \in Task \cup {Free}
  /\ queue \in Seq(Statement)
  /\ answer \in [Task -> {"none", "ok", "error"}]
  /\ open \in BOOLEAN
  /\ pending \subseteq Write /\ stored \subseteq Write

StoredOf(t) == {w \in stored : w[1] = t}

\* A transaction is stored as a whole or not at all, whoever is cancelled where
\* and whichever statement fails, and although the commit of a later caller
\* commits whatever the connection has open.
AllOrNothing ==
  \A t \in Task \ Putter : StoredOf(t) \in {{}, {t} \X (1..Writes)}

\* A caller that got no exception has its writes stored.
DoneIsStored ==
  \A t \in Task : pc[t] = "done" =>
     StoredOf(t) = IF t \in Putter THEN {<<t, 1>>} ELSE {t} \X (1..Writes)

\* What the docstring of transaction_locked promises: it always recovers the
\* connection, so that no transaction stays open when nobody uses it.  Where
\* every caller uses transaction_locked.
ConnectionRecovered == lock = Free /\ queue = <<>> => ~open
=============================================================================
