------------------------- MODULE StoreWorker_proofs -------------------------
(***************************************************************************)
(* Proofs about StoreWorker: type correctness, that a resolved request     *)
(* holds its commit, and that the reports implement ReportedCommands.      *)
(*                                                                         *)
(* The argument follows a command: it waits, untouched, in the queue; it   *)
(* runs as the job, pending and unanswered; only what has opened its       *)
(* transaction can still commit without the worker, and the page has then  *)
(* reported neither success nor failure; and while the page may still      *)
(* read the receipt, the receipt is the commit.                            *)
(***************************************************************************)
EXTENDS StoreWorker, TLAPS

Took(op) == committed[op] # None \/ op \in needless
Untouched(op) == ~Took(op) /\ op # transaction
Unanswered(op) == \A k \in 1..Len(replies) : replies[k].op # op

\* What the page has not posted has had no effect, and what it has posted is
\* one of the three commands.
PostedOnce ==
    \A op \in Operations :
        /\ request[op] = "unused" => Untouched(op) /\ Unanswered(op)
        /\ request[op] \in {"unused", "unchanged"} \/ method[op] \in Methods

\* A command in the queue waits there once, untouched.
QueueWaits ==
    /\ \A i \in 1..Len(queue) :
        /\ request[queue[i]] = "pending"
        /\ Untouched(queue[i]) /\ Unanswered(queue[i])
        /\ queue[i] # job.op
    /\ \A i, j \in 1..Len(queue) : i # j => queue[i] # queue[j]

\* The command the worker executes is pending and unanswered.
JobRuns ==
    job.op # None =>
        /\ request[job.op] = "pending"
        /\ Unanswered(job.op)
        /\ job.phase = "preparing" => Untouched(job.op)
        /\ job.phase = "committed" => committed[job.op] # None

\* A reply of success follows a commit, whose revision it carries, or a
\* command that asked for nothing.
RepliesTrue ==
    \A k \in 1..Len(replies) :
        replies[k].ok =>
            /\ Took(replies[k].op)
            /\ committed[replies[k].op] # None =>
                   replies[k].revision = committed[replies[k].op]

\* While a transaction is open, the page has reported neither success nor
\* failure of its command, which has had no effect.
OpenIsUnreported ==
    transaction # None =>
        /\ ~Took(transaction)
        /\ request[transaction] \in
               {"pending", "recovering", "unconfirmed", "forgotten"}

\* Until the request resolves, the receipt is the commit; it is cleared only
\* afterwards.
ReceiptsHeld ==
    \A op \in Operations :
        /\ receipts[op] = committed[op] \/ request[op] = "resolved"
        /\ op \in clearing => request[op] = "resolved"

\* The page proceeds only with commands that took effect, and holds a revision
\* at least as new as their commit.
FoundTrue ==
    \A op \in Operations :
        request[op] \in {"observing", "confirming", "acknowledging",
                         "resolved"} =>
            /\ Took(op)
            /\ committed[op] # None =>
                   result[op] \in Nat /\ result[op] >= committed[op]

IInv ==
    /\ TypeOK
    /\ PostedOnce
    /\ QueueWaits
    /\ JobRuns
    /\ RepliesTrue
    /\ OpenIsUnreported
    /\ ReceiptsHeld
    /\ FoundTrue

-----------------------------------------------------------------------------
(* Each action keeps the invariant.  Two lemmas treat what several of them *)
(* share: the job is answered, and one request moves on.                   *)

\* A reply answers its own command and no other.
LEMMA OneAnswer ==
    ASSUME replies \in Seq(Replies),
           NEW op \in Operations, NEW ok \in BOOLEAN,
           NEW revision \in Nat \cup {None},
           Answers(op, ok, revision)
    PROVE  /\ replies' \in Seq(Replies)
           /\ \A other : Unanswered(other) /\ other # op => Unanswered(other)'
           /\ \A k \in 1..Len(replies') :
                  \/ k \in 1..Len(replies) /\ replies'[k] = replies[k]
                  \/ replies'[k] = [op |-> op, ok |-> ok, revision |-> revision]
<1> DEFINE r == [op |-> op, ok |-> ok, revision |-> revision]
<1>1. r \in Replies
  BY DEF Replies
<1>2. replies' = Append(replies, r)
  BY DEF Answers
<1>3. \A k \in 1..Len(replies') :
          \/ k \in 1..Len(replies) /\ replies'[k] = replies[k]
          \/ replies'[k] = r
  BY <1>1, <1>2
<1> QED BY <1>1, <1>2, <1>3 DEF Unanswered

\* The job ends with a reply, which is true.
LEMMA AnswerKeeps ==
    ASSUME IInv,
           NEW ok \in BOOLEAN, NEW revision \in Nat \cup {None},
           job.op # None,
           Answers(job.op, ok, revision),
           job' = NoJob,
           needless' = needless \/ /\ needless' = needless \cup {job.op}
                                   /\ job.phase = "preparing",
           ok => /\ committed[job.op] # None \/ job.op \in needless'
                 /\ committed[job.op] # None => revision = committed[job.op],
           UNCHANGED <<database, worker, spawned, matching, queue, page>>
    PROVE  IInv'
<1> USE DEF IInv, database, page
<1>1. /\ job.op \in Operations
      /\ replies \in Seq(Replies)
  BY DEF TypeOK, Jobs
<1>2. /\ replies' \in Seq(Replies)
      /\ \A other : Unanswered(other) /\ other # job.op => Unanswered(other)'
      /\ \A k \in 1..Len(replies') :
             \/ k \in 1..Len(replies) /\ replies'[k] = replies[k]
             \/ replies'[k] = [op |-> job.op, ok |-> ok, revision |-> revision]
  BY <1>1, OneAnswer
<1>3. TypeOK'
  BY <1>1, <1>2 DEF TypeOK, NoJob, Jobs
<1>4. PostedOnce'
  BY <1>2 DEF PostedOnce, JobRuns, Untouched, Took
<1>5. QueueWaits'
  BY <1>1, <1>2, NoneIsNothing DEF QueueWaits, TypeOK, NoJob, Untouched, Took
<1>6. JobRuns'
  BY DEF JobRuns, NoJob
<1>7. RepliesTrue'
  BY <1>2 DEF RepliesTrue, Took
<1>8. OpenIsUnreported'
  BY DEF OpenIsUnreported, JobRuns, Untouched, Took
<1>9. ReceiptsHeld' /\ FoundTrue'
  BY DEF ReceiptsHeld, FoundTrue, Took
<1> QED BY <1>3, <1>4, <1>5, <1>6, <1>7, <1>8, <1>9

\* A request of which the page has learnt something moves on.
LEMMA MoveKeeps ==
    ASSUME IInv,
           NEW op \in Operations,
           NEW to \in {"recovering", "confirming", "acknowledging"}
                          \cup Settled,
           request[op] \in {"observing", "recovering", "confirming",
                            "acknowledging"},
           request' = [request EXCEPT ![op] = to],
           result' \in [Operations -> Nat \cup {None}],
           receipts' \in [Operations -> Nat \cup {None}],
           clearing' \subseteq Operations,
           \A o \in Operations : o # op =>
               /\ result'[o] = result[o]
               /\ receipts'[o] = receipts[o]
               /\ o \in clearing' => o \in clearing,
           receipts'[op] = receipts[op] \/ to = "resolved",
           op \in clearing' => to = "resolved",
           op = transaction => to \in {"recovering", "unconfirmed"},
           to \in {"confirming", "acknowledging", "resolved"} =>
               /\ Took(op)
               /\ committed[op] # None =>
                      result'[op] \in Nat /\ result'[op] >= committed[op],
           UNCHANGED <<project, transaction, fresh, committed, thread, method,
                       sentTo, needless>>
    PROVE  IInv'
<1> USE DEF IInv, thread
<1>1. /\ request \in [Operations -> {"unused"} \cup Unsettled \cup Settled]
      /\ \A o \in Operations : request'[o] = IF o = op THEN to ELSE request[o]
  BY DEF TypeOK
<1>2. TypeOK'
  <2>1. request' \in [Operations -> {"unused"} \cup Unsettled \cup Settled]
    BY <1>1 DEF Unsettled
  <2>2. UNCHANGED <<project, transaction, fresh, committed, worker, spawned,
                    matching, queue, job, replies, method, sentTo, needless>>
    OBVIOUS
  <2> QED BY <2>1, <2>2 DEF TypeOK
<1>3. PostedOnce'
  BY <1>1 DEF PostedOnce, Untouched, Unanswered, Took, Settled
<1>4. QueueWaits'
  BY <1>1 DEF QueueWaits, TypeOK, Untouched, Unanswered, Took
<1>5. JobRuns'
  BY <1>1 DEF JobRuns, TypeOK, Jobs, Untouched, Unanswered, Took
<1>6. RepliesTrue'
  BY DEF RepliesTrue, Took
<1>7. OpenIsUnreported'
  BY <1>1 DEF OpenIsUnreported, TypeOK, Took
<1>8. ReceiptsHeld'
  BY <1>1 DEF ReceiptsHeld, Settled
<1>9. FoundTrue'
  BY <1>1 DEF FoundTrue, Took, Settled
<1> QED BY <1>2, <1>3, <1>4, <1>5, <1>6, <1>7, <1>8, <1>9

\* A new command joins the queue untouched: its request was unused.
LEMMA RequestKeeps ==
    ASSUME IInv, NEW op \in Operations, NEW m \in Methods, Request(op, m)
    PROVE  IInv'
<1>1. TypeOK'
  BY DEF IInv, Request, EngageWorker, database, TypeOK, Unsettled
<1>2. PostedOnce'
  BY DEF IInv, Request, database, PostedOnce, Untouched, Took, Unanswered,
    TypeOK
<1>3. QueueWaits'
  <2>1. /\ Len(queue') = Len(queue) + 1
        /\ queue'[Len(queue) + 1] = op
        /\ \A i \in 1..Len(queue) : queue'[i] = queue[i]
    BY DEF IInv, TypeOK, Request
  <2>2. /\ op # job.op /\ Untouched(op) /\ Unanswered(op)
        /\ \A i \in 1..Len(queue) : queue[i] # op
    BY NoneIsNothing DEF IInv, Request, PostedOnce, JobRuns, QueueWaits
  <2>3. /\ request'[op] = "pending"
        /\ \A o : o # op => request'[o] = request[o] \/ o \notin Operations
    BY DEF IInv, TypeOK, Request
  <2>4. \A i \in 1..Len(queue) : queue[i] \in Operations
    BY DEF IInv, TypeOK
  <2>5. \A i \in 1..Len(queue') :
            \/ i \in 1..Len(queue) /\ queue'[i] = queue[i]
            \/ i = Len(queue) + 1 /\ queue'[i] = op
    BY <2>1 DEF IInv, TypeOK
  <2> QED BY <2>2, <2>3, <2>4, <2>5
      DEF IInv, Request, database, QueueWaits, Untouched, Took, Unanswered
<1>4. JobRuns'
  BY DEF IInv, Request, database, JobRuns, Untouched, Took, Unanswered
<1>5. RepliesTrue'
  BY DEF IInv, Request, database, RepliesTrue, Took
<1>6. OpenIsUnreported'
  BY DEF IInv, Request, database, OpenIsUnreported, Took
<1>7. ReceiptsHeld'
  BY DEF IInv, Request, database, ReceiptsHeld
<1>8. FoundTrue'
  BY DEF IInv, Request, database, FoundTrue, Took
<1> QED BY <1>1, <1>2, <1>3, <1>4, <1>5, <1>6, <1>7, <1>8 DEF IInv

\* A command that cannot be posted leaves no trace but its report.
LEMMA PostFailsKeeps ==
    ASSUME IInv, NEW op \in Operations, PostFails(op)
    PROVE  IInv'
<1>1. TypeOK'
  BY DEF IInv, PostFails, EngageWorker, database, TypeOK, Settled
<1>2. PostedOnce'
  BY DEF IInv, PostFails, database, PostedOnce, Untouched, Took, Unanswered
<1>3. QueueWaits'
  BY DEF IInv, PostFails, database, QueueWaits, Untouched, Took, Unanswered
<1>4. JobRuns'
  BY DEF IInv, PostFails, database, JobRuns, Untouched, Took, Unanswered
<1>5. RepliesTrue'
  BY DEF IInv, PostFails, database, RepliesTrue, Took
<1>6. OpenIsUnreported'
  BY DEF IInv, PostFails, database, OpenIsUnreported, Took
<1>7. ReceiptsHeld'
  BY DEF IInv, PostFails, database, ReceiptsHeld
<1>8. FoundTrue'
  BY DEF IInv, PostFails, database, FoundTrue, Took
<1> QED BY <1>1, <1>2, <1>3, <1>4, <1>5, <1>6, <1>7, <1>8 DEF IInv

\* What waited in the queue becomes the job, still untouched.
LEMMA TakeKeeps ==
    ASSUME IInv, Take
    PROVE  IInv'
<1>1. TypeOK'
  BY NoneIsNothing DEF IInv, Take, page, TypeOK, Jobs
<1>2. PostedOnce'
  BY DEF IInv, Take, page, PostedOnce, Untouched, Took, Unanswered
<1>3. QueueWaits'
  BY DEF IInv, Take, page, QueueWaits, Untouched, Took, Unanswered
<1>4. JobRuns'
  BY DEF IInv, Take, page, QueueWaits, JobRuns, Took, Untouched, Unanswered
<1>5. RepliesTrue'
  BY DEF IInv, Take, RepliesTrue, Took
<1>6. OpenIsUnreported'
  BY DEF IInv, Take, page, OpenIsUnreported, Took
<1>7. ReceiptsHeld'
  BY DEF IInv, Take, page, ReceiptsHeld
<1>8. FoundTrue'
  BY DEF IInv, Take, page, FoundTrue, Took
<1> QED BY <1>1, <1>2, <1>3, <1>4, <1>5, <1>6, <1>7, <1>8 DEF IInv

\* A worker of another build refuses what it takes.
LEMMA TakeForeignKeeps ==
    ASSUME IInv, TakeForeign
    PROVE  IInv'
<1>1. TypeOK'
  BY DEF IInv, TakeForeign, Answers, database, page, TypeOK, Replies
<1>2. PostedOnce'
  <2>1. /\ Head(queue) \in Operations
        /\ replies \in Seq(Replies)
        /\ request[Head(queue)] = "pending"
    BY DEF IInv, TypeOK, QueueWaits, TakeForeign
  <2>2. \A other :
            Unanswered(other) /\ other # Head(queue) => Unanswered(other)'
    BY <2>1, OneAnswer DEF TakeForeign
  <2> QED BY <2>1, <2>2 DEF IInv, PostedOnce, TakeForeign, database, page,
      Untouched, Took
<1>3. QueueWaits'
  BY DEF IInv, TakeForeign, Answers, database, page, QueueWaits, Untouched,
    Took, Unanswered
<1>4. JobRuns'
  BY DEF IInv, TakeForeign, Answers, database, page, QueueWaits, JobRuns,
    Took, Untouched, Unanswered, Settled
<1>5. RepliesTrue'
  BY DEF IInv, TakeForeign, Answers, database, RepliesTrue, Took
<1>6. OpenIsUnreported'
  BY DEF IInv, TakeForeign, database, page, OpenIsUnreported, Took
<1>7. ReceiptsHeld'
  BY DEF IInv, TakeForeign, database, page, ReceiptsHeld
<1>8. FoundTrue'
  BY DEF IInv, TakeForeign, database, page, FoundTrue, Took
<1> QED BY <1>1, <1>2, <1>3, <1>4, <1>5, <1>6, <1>7, <1>8 DEF IInv

\* A refusal is a reply without success.
LEMMA RefuseKeeps ==
    ASSUME IInv, Refuse
    PROVE  IInv'
<1>1. job.op # None
  BY DEF Refuse, IInv, TypeOK
<1> QED BY <1>1, AnswerKeeps DEF Refuse

\* A command that asks for nothing is answered as done.
LEMMA FindNeedlessKeeps ==
    ASSUME IInv, FindNeedless
    PROVE  IInv'
<1>1. /\ job.op # None
      /\ project \in Nat
      /\ job.op \in needless'
      /\ committed[job.op] = None
  BY DEF FindNeedless, IInv, TypeOK, JobRuns, Untouched, Took
<1> QED BY <1>1, AnswerKeeps DEF FindNeedless

\* The transaction is that of the job, which is unreported.
LEMMA OpenTransactionKeeps ==
    ASSUME IInv, OpenTransaction
    PROVE  IInv'
<1>1. TypeOK'
  BY DEF IInv, OpenTransaction, page, TypeOK, Jobs
<1>2. PostedOnce'
  BY DEF IInv, OpenTransaction, page, PostedOnce, JobRuns, Took, Untouched,
    Unanswered
<1>3. QueueWaits'
  BY DEF IInv, OpenTransaction, page, QueueWaits, Untouched, Took,
    Unanswered
<1>4. JobRuns'
  BY DEF IInv, OpenTransaction, page, JobRuns, Unanswered
<1>5. RepliesTrue'
  BY DEF IInv, OpenTransaction, RepliesTrue, Took
<1>6. OpenIsUnreported'
  BY DEF IInv, OpenTransaction, page, JobRuns, OpenIsUnreported, Took,
    Untouched
<1>7. ReceiptsHeld'
  BY DEF IInv, OpenTransaction, page, ReceiptsHeld
<1>8. FoundTrue'
  BY DEF IInv, OpenTransaction, page, FoundTrue, Took
<1> QED BY <1>1, <1>2, <1>3, <1>4, <1>5, <1>6, <1>7, <1>8 DEF IInv

\* Only a commit is answered with success.
LEMMA ReplyKeeps ==
    ASSUME IInv, Reply
    PROVE  IInv'
<1>1. job.op # None /\ job.op \in Operations
  BY DEF Reply, IInv, TypeOK, Jobs
<1>2. CASE job.phase = "committed" /\ \E ok \in BOOLEAN :
               Answers(job.op, ok, committed[job.op])
  <2>1. PICK ok \in BOOLEAN : Answers(job.op, ok, committed[job.op])
    BY <1>2
  <2>2. committed[job.op] \in Nat /\ committed' = committed
    BY <1>1, <1>2 DEF IInv, TypeOK, JobRuns, Reply, database
  <2>3. /\ job' = NoJob /\ needless' = needless
        /\ UNCHANGED <<database, worker, spawned, matching, queue, page>>
    BY DEF Reply
  <2> QED BY <1>1, <2>1, <2>2, <2>3, NoneIsNothing, AnswerKeeps
<1>3. CASE Answers(job.op, FALSE, None)
  BY <1>1, <1>3, AnswerKeeps DEF Reply
<1> QED BY <1>2, <1>3 DEF Reply

\* What commits is an operation, at a revision.
LEMMA CommitRevision ==
    ASSUME IInv, Commit
    PROVE  /\ transaction \in Operations
           /\ Revisions(method[transaction]) \subseteq Nat
<1>1. /\ transaction \in Operations
      /\ method[transaction] \in Methods
  BY DEF Commit, IInv, TypeOK, OpenIsUnreported, PostedOnce
<1> QED BY <1>1, RevisionBound DEF IInv, TypeOK, Methods, Revisions

\* A commit is that of an unreported command, and leaves its receipt.
LEMMA CommitKeeps ==
    ASSUME IInv, Commit
    PROVE  IInv'
<1>1. TypeOK'
  <2>1. job' \in Jobs /\ (job'.op = None <=> job'.phase = "idle")
    BY CommitRevision, NoneIsNothing DEF Commit, JobBecomes, IInv, TypeOK, Jobs
  <2> QED BY CommitRevision, <2>1 DEF Commit, IInv, TypeOK, page
<1>2. PostedOnce'
  BY NoneIsNothing DEF IInv, Commit, page, PostedOnce, Untouched, Took,
    Unanswered
<1>3. QueueWaits'
  <2>1. job'.op = job.op
    BY DEF IInv, TypeOK, Jobs, Commit, JobBecomes
  <2>2. \A i \in 1..Len(queue) : queue[i] \in Operations
    BY DEF IInv, TypeOK
  <2> QED BY <2>1, <2>2, NoneIsNothing
      DEF IInv, Commit, TypeOK, QueueWaits, OpenIsUnreported, Untouched,
          Unanswered, Took, page
<1>4. JobRuns'
  BY NoneIsNothing DEF IInv, Commit, JobBecomes, Revisions, page, JobRuns,
    Untouched, Took, Unanswered, TypeOK, OpenIsUnreported, PostedOnce,
    Methods
<1>5. RepliesTrue'
  BY DEF IInv, Commit, RepliesTrue, Took, OpenIsUnreported
<1>6. OpenIsUnreported'
  BY DEF Commit, OpenIsUnreported
<1>7. ReceiptsHeld'
  BY DEF IInv, Commit, page, ReceiptsHeld, TypeOK
<1>8. FoundTrue'
  BY DEF IInv, Commit, page, FoundTrue, Took, OpenIsUnreported
<1> QED BY <1>1, <1>2, <1>3, <1>4, <1>5, <1>6, <1>7, <1>8 DEF IInv

\* A transaction that aborts leaves nothing.
LEMMA AbortKeeps ==
    ASSUME IInv, Abort
    PROVE  IInv'
<1>1. TypeOK'
  BY DEF IInv, Abort, JobBecomes, page, TypeOK, Jobs
<1>2. PostedOnce'
  BY NoneIsNothing DEF IInv, Abort, page, PostedOnce, Untouched, Took,
    Unanswered
<1>3. QueueWaits'
  <2>1. job'.op = job.op
    BY DEF IInv, TypeOK, Jobs, Abort, JobBecomes
  <2>2. \A i \in 1..Len(queue) : queue[i] \in Operations
    BY DEF IInv, TypeOK
  <2> QED BY <2>1, <2>2, NoneIsNothing
      DEF IInv, Abort, TypeOK, QueueWaits, OpenIsUnreported, Untouched,
          Unanswered, Took, page
<1>4. JobRuns'
  BY DEF IInv, Abort, JobBecomes, page, JobRuns, Untouched, Took, Unanswered
<1>5. RepliesTrue'
  BY DEF IInv, Abort, RepliesTrue, Took
<1>6. OpenIsUnreported'
  BY DEF Abort, OpenIsUnreported
<1>7. ReceiptsHeld'
  BY DEF IInv, Abort, page, ReceiptsHeld
<1>8. FoundTrue'
  BY DEF IInv, Abort, page, FoundTrue, Took
<1> QED BY <1>1, <1>2, <1>3, <1>4, <1>5, <1>6, <1>7, <1>8 DEF IInv

\* Another tab changes the project only.
LEMMA OtherTabKeeps ==
    ASSUME IInv, OtherTab
    PROVE  IInv'
<1>1. TypeOK'
  BY DEF IInv, OtherTab, thread, page, TypeOK
<1>2. PostedOnce'
  BY DEF IInv, OtherTab, thread, page, PostedOnce, Untouched, Took,
    Unanswered
<1>3. QueueWaits'
  BY DEF IInv, OtherTab, thread, page, QueueWaits, Untouched, Took,
    Unanswered
<1>4. JobRuns'
  BY DEF IInv, OtherTab, thread, page, JobRuns, Untouched, Took, Unanswered
<1>5. RepliesTrue'
  BY DEF IInv, OtherTab, thread, RepliesTrue, Took
<1>6. OpenIsUnreported'
  BY DEF OtherTab, OpenIsUnreported
<1>7. ReceiptsHeld'
  BY DEF IInv, OtherTab, page, ReceiptsHeld
<1>8. FoundTrue'
  BY DEF IInv, OtherTab, page, FoundTrue, Took
<1> QED BY <1>1, <1>2, <1>3, <1>4, <1>5, <1>6, <1>7, <1>8 DEF IInv

\* A reply moves its request to where its truth permits.
LEMMA ReceiveKeeps ==
    ASSUME IInv, Receive
    PROVE  IInv'
<1> DEFINE op == Head(replies).op
<1>1. /\ replies \in Seq(Replies) /\ replies # <<>>
      /\ Head(replies) = replies[1] /\ Head(replies) \in Replies
      /\ op \in Operations
      /\ request[op] = "pending"
  <2>1. replies \in Seq(Replies) /\ replies # <<>>
    BY DEF Receive, IInv, TypeOK
  <2>2. Head(replies) = replies[1] /\ Head(replies) \in Replies
    BY <2>1
  <2> QED BY <2>1, <2>2 DEF Receive, Replies
<1>2. /\ replies' \in Seq(Replies)
      /\ Len(replies') = Len(replies) - 1
      /\ \A k \in 1..Len(replies') : replies'[k] = replies[k + 1]
  BY <1>1 DEF Receive
<1>3. \A other : Unanswered(other) => Unanswered(other)' /\ other # op
  BY <1>1, <1>2 DEF Unanswered
<1>4. PICK to \in {"recovering", "observing", "resolved"} :
          /\ request' = [request EXCEPT ![op] = to]
          /\ to # "recovering" =>
                 /\ Head(replies).ok
                 /\ result' = [result EXCEPT ![op] = Head(replies).revision]
          /\ to = "recovering" => result' = result
          /\ \/ clearing' = clearing
             \/ to = "resolved" /\ clearing' = clearing \cup {op}
  BY DEF Receive
<1> HIDE DEF op
<1>5. to # "recovering" =>
          /\ Took(op)
          /\ committed[op] # None => Head(replies).revision = committed[op]
  BY <1>1, <1>4 DEF IInv, RepliesTrue, op
<1>6. \A o \in Operations : request'[o] = IF o = op THEN to ELSE request[o]
  BY <1>4 DEF IInv, TypeOK
<1>7. TypeOK'
  <2>1. request' \in [Operations -> {"unused"} \cup Unsettled \cup Settled]
    BY <1>4 DEF IInv, TypeOK, Unsettled, Settled
  <2>2. result' \in [Operations -> Nat \cup {None}]
    BY <1>1, <1>4 DEF IInv, TypeOK, Replies
  <2> QED BY <1>1, <1>2, <1>4, <2>1, <2>2 DEF IInv, TypeOK, Receive, database
<1>8. PostedOnce'
  BY <1>1, <1>3, <1>4, <1>6 DEF IInv, PostedOnce, Receive, database, Untouched,
      Took
<1>9. QueueWaits'
  <2>1. \A i \in 1..Len(queue) : queue[i] \in Operations
    BY DEF IInv, TypeOK
  <2> QED BY <1>3, <1>6, <2>1
      DEF IInv, QueueWaits, Receive, database, Untouched, Took
<1>10. JobRuns'
  BY <1>3, <1>6 DEF IInv, TypeOK, Jobs, JobRuns, Receive, database, Untouched,
      Took
<1>11. RepliesTrue'
  BY <1>1, <1>2 DEF IInv, RepliesTrue, Receive, database, Took
<1>12. OpenIsUnreported'
  BY <1>4, <1>5, <1>6 DEF IInv, TypeOK, OpenIsUnreported, Receive, database,
      Took
<1>13. ReceiptsHeld'
  BY <1>1, <1>4, <1>6 DEF IInv, ReceiptsHeld, Receive, database
<1>14. FoundTrue'
  <2> SUFFICES ASSUME NEW o \in Operations,
                      request'[o] \in {"observing", "confirming",
                                       "acknowledging", "resolved"}
               PROVE  /\ Took(o)'
                      /\ committed'[o] # None =>
                             result'[o] \in Nat /\ result'[o] >= committed'[o]
    BY DEF FoundTrue
  <2>1. CASE o = op
    BY <1>4, <1>5, <1>6, <2>1 DEF IInv, TypeOK, Receive, database, Took
  <2>2. CASE o # op
    BY <1>4, <1>6, <2>2 DEF IInv, TypeOK, FoundTrue, Receive, database, Took
  <2> QED BY <2>1, <2>2
<1> QED BY <1>7, <1>8, <1>9, <1>10, <1>11, <1>12, <1>13, <1>14 DEF IInv

\* The loss of the worker makes every pending request recover.
LEMMA LostKeeps ==
    ASSUME IInv, Lost
    PROVE  IInv'
<1>1. TypeOK'
  BY DEF IInv, Lost, StopWorker, RecoverPending, NoJob, database, TypeOK,
    Jobs, Unsettled
<1>2. PostedOnce'
  BY DEF IInv, Lost, StopWorker, RecoverPending, database, PostedOnce,
    Untouched, Took, Unanswered
<1>3. QueueWaits'
  BY DEF Lost, StopWorker, QueueWaits
<1>4. JobRuns'
  BY DEF Lost, StopWorker, NoJob, JobRuns
<1>5. RepliesTrue'
  BY DEF Lost, StopWorker, RepliesTrue
<1>6. OpenIsUnreported'
  BY DEF IInv, Lost, RecoverPending, database, OpenIsUnreported, Took,
    TypeOK
<1>7. ReceiptsHeld'
  BY DEF IInv, Lost, RecoverPending, database, ReceiptsHeld
<1>8. FoundTrue'
  BY DEF IInv, Lost, RecoverPending, database, FoundTrue, Took
<1> QED BY <1>1, <1>2, <1>3, <1>4, <1>5, <1>6, <1>7, <1>8 DEF IInv

\* An observed project was brought by a command that took effect.
LEMMA ObserveKeeps ==
    ASSUME IInv, NEW op \in Operations, Observe(op)
    PROVE  IInv'
<1>1. request[op] = "observing" /\ op # transaction
  BY NoneIsNothing DEF Observe, Becomes, IInv, OpenIsUnreported
<1>2. /\ Took(op)
      /\ committed[op] # None =>
             result[op] \in Nat /\ result[op] >= committed[op]
  BY <1>1 DEF IInv, FoundTrue
<1>3. /\ result \in [Operations -> Nat \cup {None}]
      /\ receipts \in [Operations -> Nat \cup {None}]
      /\ clearing \subseteq Operations
  BY DEF IInv, TypeOK
<1>4. CASE /\ Becomes(op, "observing", "resolved")
           /\ clearing' = clearing \cup {op}
  BY <1>1, <1>2, <1>3, <1>4, MoveKeeps
      DEF Observe, Becomes, Settled, database
<1>5. CASE Becomes(op, "observing", "recovering") /\ UNCHANGED clearing
  <2>1. op \notin clearing
    BY <1>1 DEF IInv, ReceiptsHeld
  <2> QED BY <1>1, <1>2, <1>3, <1>5, <2>1, MoveKeeps
      DEF Observe, Becomes, database
<1> QED BY <1>4, <1>5 DEF Observe

\* The receipt that the recovery reads is the commit, or its absence.
LEMMA ReadReceiptKeeps ==
    ASSUME IInv, NEW op \in Operations, ReadReceipt(op)
    PROVE  IInv'
<1>1. request[op] = "recovering" /\ op # transaction
  BY NoneIsNothing DEF ReadReceipt
<1>2. receipts[op] = committed[op] /\ op \notin clearing
  BY <1>1 DEF IInv, ReceiptsHeld
<1>3. /\ result \in [Operations -> Nat \cup {None}]
      /\ receipts \in [Operations -> Nat \cup {None}]
      /\ committed \in [Operations -> Nat \cup {None}]
      /\ clearing \subseteq Operations
  BY DEF IInv, TypeOK
<1>4. PICK to \in {"unchanged", "acknowledging", "confirming"} :
          /\ request' = [request EXCEPT ![op] = to]
          /\ receipts[op] = None => to = "unchanged"
  BY DEF ReadReceipt
<1>5. /\ result' = [result EXCEPT ![op] = committed[op]]
      /\ to # "unchanged" => committed[op] \in Nat /\ Took(op)
  BY <1>2, <1>3, <1>4 DEF ReadReceipt, Took
<1>6. /\ result' \in [Operations -> Nat \cup {None}]
      /\ \A o \in Operations : o # op => result'[o] = result[o]
      /\ to # "unchanged" => result'[op] \in Nat /\ result'[op] >= committed[op]
  BY <1>3, <1>5
<1>7. to \in {"recovering", "confirming", "acknowledging"} \cup Settled
  BY DEF Settled
<1> QED BY <1>1, <1>2, <1>3, <1>4, <1>5, <1>6, <1>7, MoveKeeps
    DEF ReadReceipt, database

\* The project that is read holds the commit, or nothing is claimed.
LEMMA ReadProjectKeeps ==
    ASSUME IInv, NEW op \in Operations, ReadProject(op)
    PROVE  IInv'
<1>1. request[op] = "confirming" /\ op # transaction /\ op \notin clearing
  BY NoneIsNothing DEF ReadProject, IInv, ReceiptsHeld
<1>2. /\ Took(op)
      /\ committed[op] # None =>
             result[op] \in Nat /\ result[op] >= committed[op]
  BY <1>1 DEF IInv, FoundTrue
<1>3. /\ result \in [Operations -> Nat \cup {None}]
      /\ receipts \in [Operations -> Nat \cup {None}]
      /\ committed \in [Operations -> Nat \cup {None}]
      /\ clearing \subseteq Operations
      /\ project \in Nat \cup {None}
  BY DEF IInv, TypeOK
<1>4. CASE ProjectHolds(op)
  <2>1. /\ project \in Nat
        /\ committed[op] # None => project >= committed[op]
    BY <1>2, <1>3, <1>4 DEF ProjectHolds
  <2> QED BY <1>1, <1>2, <1>3, <1>4, <2>1, MoveKeeps
      DEF ReadProject, Becomes, database
<1>5. CASE ~ProjectHolds(op)
  BY <1>1, <1>3, <1>5, MoveKeeps DEF ReadProject, Becomes, Settled, database
<1> QED BY <1>4, <1>5

\* A recovery that fails claims nothing.
LEMMA RecoveryFailsKeeps ==
    ASSUME IInv, NEW op \in Operations, RecoveryFails(op)
    PROVE  IInv'
<1>1. op \notin clearing
  BY DEF RecoveryFails, Becomes, IInv, ReceiptsHeld
<1>2. /\ result \in [Operations -> Nat \cup {None}]
      /\ receipts \in [Operations -> Nat \cup {None}]
      /\ clearing \subseteq Operations
  BY DEF IInv, TypeOK
<1> QED BY <1>1, <1>2, MoveKeeps DEF RecoveryFails, Becomes, Settled, database

\* A receipt is cleared when its request resolves.
LEMMA AcknowledgeKeeps ==
    ASSUME IInv, NEW op \in Operations, Acknowledge(op)
    PROVE  IInv'
<1>1. request[op] = "acknowledging" /\ op # transaction
  BY NoneIsNothing DEF Acknowledge, Becomes, IInv, OpenIsUnreported
<1>2. /\ Took(op)
      /\ committed[op] # None =>
             result[op] \in Nat /\ result[op] >= committed[op]
  BY <1>1 DEF IInv, FoundTrue
<1>3. /\ result \in [Operations -> Nat \cup {None}]
      /\ receipts \in [Operations -> Nat \cup {None}]
      /\ clearing \subseteq Operations
  BY DEF IInv, TypeOK
<1>4. /\ receipts' \in [Operations -> Nat \cup {None}]
      /\ \A o \in Operations : o # op => receipts'[o] = receipts[o]
  BY <1>3 DEF Acknowledge, Clears
<1> QED BY <1>1, <1>2, <1>3, <1>4, MoveKeeps DEF Acknowledge, Becomes, Settled

\* The receipts cleared later are those of resolved requests.
LEMMA ClearReceiptKeeps ==
    ASSUME IInv, NEW op \in Operations, ClearReceipt(op)
    PROVE  IInv'
<1>1. TypeOK'
  BY DEF IInv, ClearReceipt, Clears, thread, TypeOK
<1>2. PostedOnce'
  BY DEF IInv, ClearReceipt, thread, PostedOnce, Untouched, Took, Unanswered
<1>3. QueueWaits'
  BY DEF IInv, ClearReceipt, thread, QueueWaits, Untouched, Took, Unanswered
<1>4. JobRuns'
  BY DEF IInv, ClearReceipt, thread, JobRuns, Untouched, Took, Unanswered
<1>5. RepliesTrue'
  BY DEF IInv, ClearReceipt, thread, RepliesTrue, Took
<1>6. OpenIsUnreported'
  BY DEF IInv, ClearReceipt, OpenIsUnreported, Took
<1>7. ReceiptsHeld'
  BY DEF IInv, ClearReceipt, Clears, ReceiptsHeld, TypeOK
<1>8. FoundTrue'
  BY DEF IInv, ClearReceipt, FoundTrue, Took
<1> QED BY <1>1, <1>2, <1>3, <1>4, <1>5, <1>6, <1>7, <1>8 DEF IInv

\* Closing the page ends what is unsettled and claims nothing.
LEMMA CloseKeeps ==
    ASSUME IInv, Close
    PROVE  IInv'
<1>1. TypeOK'
  BY DEF IInv, Close, StopWorker, NoJob, database, TypeOK, Jobs, Settled
<1>2. PostedOnce'
  BY DEF IInv, Close, StopWorker, database, PostedOnce, Untouched, Took,
    Unanswered, Unsettled
<1>3. QueueWaits'
  BY DEF Close, StopWorker, QueueWaits
<1>4. JobRuns'
  BY DEF Close, StopWorker, NoJob, JobRuns
<1>5. RepliesTrue'
  BY DEF Close, StopWorker, RepliesTrue
<1>6. OpenIsUnreported'
  BY DEF IInv, Close, database, OpenIsUnreported, Took, TypeOK
<1>7. ReceiptsHeld'
  BY DEF IInv, Close, database, ReceiptsHeld, Unsettled
<1>8. FoundTrue'
  BY DEF IInv, Close, database, FoundTrue, Took
<1> QED BY <1>1, <1>2, <1>3, <1>4, <1>5, <1>6, <1>7, <1>8 DEF IInv

\* Initially nothing was asked and nothing was done.
LEMMA InvInit == Init => IInv
<1> SUFFICES ASSUME Init PROVE IInv
  OBVIOUS
<1> USE DEF Init, NoJob
<1>1. TypeOK
  BY DEF TypeOK, Jobs
<1>2. Len(queue) = 0 /\ Len(replies) = 0
  OBVIOUS
<1>3. PostedOnce /\ QueueWaits /\ JobRuns /\ RepliesTrue
  BY <1>2, NoneIsNothing DEF PostedOnce, QueueWaits, JobRuns, RepliesTrue,
      Took, Untouched, Unanswered
<1>4. OpenIsUnreported /\ ReceiptsHeld /\ FoundTrue
  BY DEF OpenIsUnreported, ReceiptsHeld, FoundTrue
<1> QED BY <1>1, <1>3, <1>4 DEF IInv

\* Every step keeps the invariant.
LEMMA InvNext == IInv /\ [Next]_vars => IInv'
<1> SUFFICES ASSUME IInv, [Next]_vars PROVE IInv'
  OBVIOUS
<1>1. CASE UNCHANGED vars
  BY <1>1 DEF vars, database, thread, page, IInv, TypeOK, PostedOnce,
      QueueWaits, JobRuns, RepliesTrue, OpenIsUnreported, ReceiptsHeld,
      FoundTrue, Took, Untouched, Unanswered
<1>2. ASSUME NEW op \in Operations, NEW m \in Methods, Request(op, m)
      PROVE  IInv'
  BY <1>2, RequestKeeps
<1>3. ASSUME NEW op \in Operations, PostFails(op)
      PROVE  IInv'
  BY <1>3, PostFailsKeeps
<1>4. ASSUME NEW op \in Operations,
             Observe(op) \/ Recover(op) \/ Acknowledge(op) \/ ClearReceipt(op)
      PROVE  IInv'
  BY <1>4, ObserveKeeps, ReadReceiptKeeps, ReadProjectKeeps,
     RecoveryFailsKeeps, AcknowledgeKeeps, ClearReceiptKeeps DEF Recover
<1>5. CASE \/ Take \/ TakeForeign \/ Refuse \/ FindNeedless
           \/ OpenTransaction \/ Reply
  BY <1>5, TakeKeeps, TakeForeignKeeps, RefuseKeeps, FindNeedlessKeeps,
     OpenTransactionKeeps, ReplyKeeps
<1>6. CASE Commit \/ Abort \/ OtherTab \/ Receive \/ Lost \/ Close
  BY <1>6, CommitKeeps, AbortKeeps, OtherTabKeeps, ReceiveKeeps, LostKeeps,
     CloseKeeps
<1> QED BY <1>1, <1>2, <1>3, <1>4, <1>5, <1>6
    DEF Next, Deadline, WorkerFails, ForeignReply
-----------------------------------------------------------------------------
(* The invariant holds, and with it what the runs check.                   *)

\* The invariant holds in every state.
LEMMA Invariant == Spec => []IInv
<1> QED BY InvInit, InvNext, PTL DEF Spec

\* Every variable keeps its shape, for any number of operations and any bound
\* on the revisions.
THEOREM TypeCorrect == Spec => []TypeOK
<1>1. IInv => TypeOK
  BY DEF IInv
<1> QED BY Invariant, <1>1, PTL

\* A request that committed resolves with a project at least as new as its
\* commit, whether its reply arrived (requestStoreWorker) or the receipt was
\* read (recoverWorkerOperation).
THEOREM ResultsHoldCommits == Spec => []ResultHoldsCommit
<1>1. IInv => ResultHoldsCommit
  BY DEF IInv, FoundTrue, ResultHoldsCommit
<1> QED BY Invariant, <1>1, PTL
-----------------------------------------------------------------------------
(* The reports implement ReportedCommands.                                 *)

\* What the page tells of the states a request passes through.
Told(r) == IF r \in DOMAIN Outcome THEN Outcome[r] ELSE "none"

\* What each settled request tells its caller.
LEMMA ToldOf ==
    /\ Told("resolved") = "done"
    /\ Told("unchanged") = "unchanged"
    /\ Told("unconfirmed") = "unconfirmed"
    /\ \A r \in {"unused", "forgotten"} \cup Unsettled : Told(r) = "none"
BY DEF Told, Outcome, Unsettled

\* A step that moves no request to another report, and records nothing, is a
\* stutter.
LEMMA NoReport ==
    ASSUME UNCHANGED <<committed, needless>>,
           \A op \in Operations : Told(request'[op]) = Told(request[op])
    PROVE  UNCHANGED Reports!vars
BY DEF Reports!vars, Told

\* A step that moves one request, and records nothing, is a report of it or,
\* when it reports nothing, a stutter.
LEMMA OneReport ==
    ASSUME TypeOK, NEW op \in Operations,
           NEW to \in {"unused"} \cup Unsettled \cup Settled,
           request' = [request EXCEPT ![op] = to],
           UNCHANGED <<committed, needless>>,
           Told(request[op]) = "none",
           to = "resolved" => Took(op),
           to = "unchanged" => committed[op] = None
    PROVE  [Reports!Next]_(Reports!vars)
<1>1. CASE Told(to) = "none"
  <2>1. \A o \in Operations : Told(request'[o]) = Told(request[o])
    BY <1>1 DEF TypeOK
  <2> QED BY <2>1, NoReport
<1>2. CASE Told(to) # "none"
  <2>1. to \in {"resolved", "unchanged", "unconfirmed"}
    BY <1>2, ToldOf DEF Settled
  <2>2. Told(to) = "done" => op \in {o \in Operations : committed[o] # None}
                                 \cup needless
    BY <2>1, ToldOf DEF Took
  <2>3. Told(to) = "unchanged" =>
            op \notin {o \in Operations : committed[o] # None}
    BY <2>1, ToldOf
  <2>4. [o \in Operations |-> Told(request'[o])] =
            [[o \in Operations |-> Told(request[o])] EXCEPT ![op] = Told(to)]
    BY DEF TypeOK
  <2>5. Reports!Report(op, Told(to))
    BY <2>2, <2>3, <2>4 DEF Reports!Report, Told
  <2> QED BY <2>1, <2>5, ToldOf DEF Reports!Next
<1> QED BY <1>1, <1>2

\* Every step of the worker and the page is a step of ReportedCommands.
LEMMA StepReports ==
    ASSUME IInv, [Next]_vars
    PROVE  [Reports!Next]_(Reports!vars)
<1> USE DEF IInv
<1>1. ASSUME UNCHANGED <<request, committed, needless>>
      PROVE  UNCHANGED Reports!vars
  BY <1>1, NoReport
<1>2. CASE UNCHANGED vars
  BY <1>1, <1>2 DEF vars, database, page
<1>3. CASE \/ Take \/ TakeForeign \/ Refuse \/ OpenTransaction \/ Reply
           \/ Abort \/ OtherTab \/ \E op \in Operations : ClearReceipt(op)
  BY <1>1, <1>3 DEF Take, TakeForeign, Refuse, OpenTransaction, Reply, Abort,
                    OtherTab, ClearReceipt, database, page
<1>4. ASSUME NEW op \in Operations, NEW m \in Methods, Request(op, m)
      PROVE  [Reports!Next]_(Reports!vars)
  <2>1. "pending" \in Unsettled /\ Told(request[op]) = "none"
    BY <1>4, ToldOf DEF Request, Unsettled
  <2> QED BY <1>4, <2>1, OneReport DEF Request, database
<1>5. ASSUME NEW op \in Operations, PostFails(op)
      PROVE  [Reports!Next]_(Reports!vars)
  <2>1. "unchanged" \in Settled /\ Told(request[op]) = "none"
    BY <1>5, ToldOf DEF PostFails, Settled
  <2>2. committed[op] = None
    BY <1>5 DEF PostFails, PostedOnce, Untouched, Took
  <2> QED BY <1>5, <2>1, <2>2, OneReport DEF PostFails, database
<1>6. CASE FindNeedless
  <2>1. /\ job.op \in Operations
        /\ ~Took(job.op)
        /\ Told(request[job.op]) = "none"
    BY <1>6, ToldOf DEF FindNeedless, TypeOK, Jobs, JobRuns, Untouched,
        Unsettled
  <2>2. Reports!FindNeedless(job.op)
    BY <1>6, <2>1 DEF FindNeedless, database, page, Reports!FindNeedless,
                      Reports!Open, Told, Took
  <2> QED BY <2>1, <2>2 DEF Reports!Next
<1>7. CASE Commit
  <2>1. /\ transaction \in Operations
        /\ ~Took(transaction)
        /\ Told(request[transaction]) \in {"none", "unconfirmed"}
    BY <1>7, ToldOf DEF Commit, TypeOK, OpenIsUnreported, Unsettled
  <2>2. PICK op \in Operations : op = transaction
    BY <2>1
  <2>3. PICK revision \in Nat : committed' = [committed EXCEPT ![op] = revision]
    BY <1>7, <2>2, CommitRevision DEF Commit
  <2>4. {o \in Operations : committed'[o] # None} =
            {o \in Operations : committed[o] # None} \cup {op}
    BY <2>3, NoneIsNothing DEF TypeOK
  <2>5. Reports!Open(op)
    BY <2>1, <2>2 DEF Reports!Open, Told, Took
  <2>6. request' = request /\ needless' = needless
    BY <1>7 DEF Commit, page
  <2>7. Reports!Change(op)
    BY <2>4, <2>5, <2>6 DEF Reports!Change
  <2> QED BY <2>7 DEF Reports!Next
<1>8. CASE Receive
  <2> DEFINE op == Head(replies).op
  <2>1. /\ replies \in Seq(Replies) /\ replies # <<>>
        /\ Head(replies) = replies[1] /\ Head(replies) \in Replies
    <3>1. replies \in Seq(Replies) /\ replies # <<>>
      BY <1>8 DEF Receive, TypeOK
    <3> QED BY <3>1
  <2>2. op \in Operations /\ Told(request[op]) = "none"
    BY <1>8, <2>1, ToldOf DEF Receive, Replies, Unsettled
  <2>3. PICK to \in {"recovering", "observing", "resolved"} :
            /\ request' = [request EXCEPT ![op] = to]
            /\ to # "recovering" => Head(replies).ok
    BY <1>8 DEF Receive
  <2>4. to # "recovering" => Took(op)
    BY <2>1, <2>3 DEF RepliesTrue
  <2>5. to \in {"unused"} \cup Unsettled \cup Settled
    BY DEF Unsettled, Settled
  <2> QED BY <1>8, <2>2, <2>3, <2>4, <2>5, OneReport DEF Receive, database
<1>9. CASE Lost \/ Close
  <2>1. \A op \in Operations : Told(request'[op]) = Told(request[op])
    BY <1>9, ToldOf DEF Lost, RecoverPending, Close, Unsettled
  <2> QED BY <1>9, <2>1, NoReport DEF Lost, Close, database
<1>10. ASSUME NEW op \in Operations,
              Observe(op) \/ Recover(op) \/ Acknowledge(op)
       PROVE  [Reports!Next]_(Reports!vars)
  <2>1. PICK to \in {"recovering", "confirming", "acknowledging", "resolved",
                     "unchanged", "unconfirmed"} :
            /\ request' = [request EXCEPT ![op] = to]
            /\ request[op] \in {"observing", "recovering", "confirming",
                                "acknowledging"}
            /\ to = "resolved" => request[op] \in {"observing", "acknowledging"}
            /\ to = "unchanged" =>
                   receipts[op] = None /\ request[op] = "recovering"
    BY <1>10 DEF Observe, Recover, ReadReceipt, ReadProject, RecoveryFails,
                 Acknowledge, Becomes
  <2>2. Told(request[op]) = "none"
    BY <2>1, ToldOf DEF Unsettled
  <2>3. /\ to = "resolved" => Took(op)
        /\ to = "unchanged" => committed[op] = None
    BY <2>1 DEF FoundTrue, ReceiptsHeld
  <2>4. to \in {"unused"} \cup Unsettled \cup Settled
    BY <2>1 DEF Unsettled, Settled
  <2>5. UNCHANGED <<committed, needless>>
    BY <1>10 DEF Observe, Recover, ReadReceipt, ReadProject, RecoveryFails,
                 Acknowledge, database
  <2> QED BY <2>1, <2>2, <2>3, <2>4, <2>5, OneReport
<1> QED BY <1>2, <1>3, <1>4, <1>5, <1>6, <1>7, <1>8, <1>9, <1>10
    DEF Next, Deadline, WorkerFails, ForeignReply

\* A command reported as leaving the project unchanged has not committed and
\* never will, and one reported as done has: for any number of operations, and
\* whenever the worker is lost, requestStoreWorker and recoverWorkerOperation
\* implement ReportedCommands.
THEOREM ReportsImplement == Spec => ReportsAreTrue
<1>1. Init => Reports!Init
  <2> SUFFICES ASSUME Init PROVE Reports!Init
    OBVIOUS
  <2>1. {op \in Operations : committed[op] # None} = {}
    BY DEF Init
  <2>2. [op \in Operations |-> Told(request[op])] =
            [op \in Operations |-> "none"]
    BY ToldOf DEF Init
  <2> QED BY <2>1, <2>2 DEF Init, Reports!Init, Told
<1>2. IInv /\ [Next]_vars => [Reports!Next]_(Reports!vars)
  BY StepReports
<1> QED BY <1>1, <1>2, Invariant, PTL DEF Spec, ReportsAreTrue, Reports!Spec
=============================================================================
