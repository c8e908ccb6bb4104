------------------------------ MODULE Cascade -------------------------------
(***************************************************************************)
(* The Cascade mempool of cascade.rs: clients submit transactions to an    *)
(* unbounded channel, worker tasks batch them on the tips of the flow      *)
(* graph, one broadcaster task inserts each batch into the graph and sends *)
(* it to the other validators, and handlers insert the batches those send. *)
(*                                                                         *)
(* A step of a task runs from one lock or await to the next.  A worker     *)
(* holds the receiver's mutex for its whole collection loop, so a          *)
(* collection is one step.  Metrics and signatures are left out.           *)
(*                                                                         *)
(* What travels is a submission: one successful call of submit_transaction *)
(* and the Transaction object it sends.  Nothing in the mempool compares   *)
(* transactions, so whether two submissions are of the same one makes no   *)
(* difference to it, and the model does not say.                           *)
(***************************************************************************)
EXTENDS Integers, FiniteSets, Sequences, SequencesExt

CONSTANTS
  Batches, MaxParents, MaxAdds,   \* of the flow graph
  Submissions,          \* the calls of submit_transaction that clients make
  Size,                 \* submission -> size_bytes of its transaction
  Workers,
  MaxTransactions,      \* max_transactions_per_batch
  MaxBytes,             \* max_batch_size_bytes
  MaxPending,           \* max_pending_transactions
  MaxRetries,           \* MAX_BROADCAST_RETRIES
  BuildMayFail          \* may sign or TransactionBatch::new return an error?

ASSUME GraphAssumption == Batches \subseteq Int /\ MaxParents \in Nat /\ MaxAdds \in Nat
ASSUME SizeAssumption == Size \in [Submissions -> Nat \ {0}]
ASSUME LimitsAssumption ==
  /\ MaxTransactions \in Nat /\ MaxBytes \in Nat /\ MaxPending \in Nat
  /\ MaxRetries \in Nat /\ BuildMayFail \in BOOLEAN

VARIABLES
  prev, vertices, roots, tips, clock,   \* the flow graph
  called,       \* the calls that passed the capacity check
  checked,      \* those of them between the check and the send
  queue,        \* the transaction channel
  putBack,      \* state.pending_transactions
  worker,       \* worker -> its task
  content,      \* local batch -> its transactions
  outbox,       \* the batch channel
  broadcaster,  \* the broadcaster task
  settled,      \* batches whose broadcast ended: [batch, success]
  incoming      \* batches some handler found missing and is about to add

Graph == INSTANCE FlowGraph

graphVars == <<prev, vertices, roots, tips, clock>>
txVars == <<called, checked, queue, putBack>>
batchVars == <<content, outbox>>
netVars == <<broadcaster, settled, incoming>>
vars == <<graphVars, txVars, worker, batchVars, netVars>>

Idle == [pc |-> "idle", txs |-> << >>, parents |-> {}]
NotSending == [pc |-> "recv"]
Bytes(list) == FoldLeft(LAMBDA sum, tx : sum + Size[tx], 0, list)
Batched == UNION {ToSet(content[b]) : b \in DOMAIN content}
InHands == UNION {ToSet(worker[w].txs) : w \in Workers}
Sent == ToSet(queue) \cup ToSet(putBack) \cup InHands \cup Batched

-----------------------------------------------------------------------------
Init ==
  /\ Graph!Init
  /\ called = {} /\ checked = {} /\ queue = << >> /\ putBack = << >>
  /\ worker = [w \in Workers |-> Idle]
  /\ content = << >> /\ outbox = << >>
  /\ broadcaster = NotSending
  /\ settled = {}
  /\ incoming = {}

(* submit_transaction: the capacity check releases the state before the     *)
(* send.  A call is made once; that its transaction was submitted before,   *)
(* by another call, stops nothing.                                          *)
Full == Len(putBack) >= MaxPending

CheckCapacity(tx) ==
  /\ tx \notin called
  /\ ~Full
  /\ called' = called \cup {tx}
  /\ checked' = checked \cup {tx}
  /\ UNCHANGED <<graphVars, queue, putBack, worker, batchVars, netVars>>

Submit(tx) ==
  /\ tx \in checked
  /\ checked' = checked \ {tx}
  /\ queue' = Append(queue, tx)
  /\ UNCHANGED <<graphVars, called, putBack, worker, batchVars, netVars>>

(* The collection loop of worker_create_batch takes the longest prefix of   *)
(* the channel within both limits.                                          *)
Fits(n) ==
  /\ n =< Len(queue) /\ n =< MaxTransactions
  /\ Bytes(SubSeq(queue, 1, n)) =< MaxBytes
Taken == CHOOSE n \in 0..Len(queue) : Fits(n) /\ ~Fits(n + 1)

(* The transaction after them is received too when there is still room for  *)
(* it in both loop conditions but not for its size; it is put back, not     *)
(* into the channel but into pending_transactions.                          *)
Overflows(n) ==
  n < Len(queue) /\ n < MaxTransactions /\ Bytes(SubSeq(queue, 1, n)) < MaxBytes

(* Mutant: the transaction that is put back stays in the channel. *)
CollectKeeps(w) ==
  /\ worker[w].pc = "idle"
  /\ queue # << >>
  /\ LET n == Taken
     IN  /\ queue' = SubSeq(queue, n + 1, Len(queue))
         /\ putBack' = IF Overflows(n) THEN <<queue[n + 1]>> \o putBack ELSE putBack
         /\ worker' = IF n = 0 THEN worker
                      ELSE [worker EXCEPT ![w] = [pc |-> "collected", parents |-> {},
                                                  txs |-> SubSeq(queue, 1, n)]]
  /\ UNCHANGED <<graphVars, called, checked, batchVars, netVars>>

(* Mutant: the transaction that does not fit is not put back. *)
CollectDrops(w) ==
  /\ worker[w].pc = "idle"
  /\ queue # << >>
  /\ LET n == Taken
         gone == IF Overflows(n) THEN n + 1 ELSE n
     IN  /\ queue' = SubSeq(queue, gone + 1, Len(queue))
         /\ worker' = IF n = 0 THEN worker
                      ELSE [worker EXCEPT ![w] = [pc |-> "collected", parents |-> {},
                                                  txs |-> SubSeq(queue, 1, n)]]
  /\ UNCHANGED <<graphVars, called, checked, putBack, batchVars, netVars>>

(* Mutant: a worker waits until the channel fills a batch. *)
CollectFullOnly(w) ==
  /\ worker[w].pc = "idle"
  /\ Len(queue) >= MaxTransactions
  /\ LET n == Taken
         gone == IF Overflows(n) THEN n + 1 ELSE n
     IN  /\ queue' = SubSeq(queue, gone + 1, Len(queue))
         /\ putBack' = IF Overflows(n) THEN <<queue[n + 1]>> \o putBack ELSE putBack
         /\ worker' = IF n = 0 THEN worker
                      ELSE [worker EXCEPT ![w] = [pc |-> "collected", parents |-> {},
                                                  txs |-> SubSeq(queue, 1, n)]]
  /\ UNCHANGED <<graphVars, called, checked, batchVars, netVars>>

(* interval.tick: worker_create_batch up to the release of the receiver.    *)
Collect(w) ==
  /\ worker[w].pc = "idle"
  /\ queue # << >>
  /\ LET n == Taken
         gone == IF Overflows(n) THEN n + 1 ELSE n
     IN  /\ queue' = SubSeq(queue, gone + 1, Len(queue))
         /\ putBack' = IF Overflows(n) THEN <<queue[n + 1]>> \o putBack ELSE putBack
         /\ worker' = IF n = 0 THEN worker
                      ELSE [worker EXCEPT ![w] = [pc |-> "collected", parents |-> {},
                                                  txs |-> SubSeq(queue, 1, n)]]
  /\ UNCHANGED <<graphVars, called, checked, batchVars, netVars>>

(* Mutant: parents may be any batches ever authored. *)
ReadAuthored(w) ==
  /\ worker[w].pc = "collected"
  /\ \E ps \in SUBSET Graph!Authored :
       /\ Cardinality(ps) =< MaxParents
       /\ worker' = [worker EXCEPT ![w].pc = "build", ![w].parents = ps]
  /\ UNCHANGED <<graphVars, txVars, batchVars, netVars>>

(* get_latest_batch_ids under the graph's read lock: up to MaxParents tips. *)
ReadTips(w) ==
  /\ worker[w].pc = "collected"
  /\ \E ps \in SUBSET tips :
       /\ Cardinality(ps) = MaxParents \/ (ps = tips /\ Cardinality(ps) < MaxParents)
       /\ worker' = [worker EXCEPT ![w].pc = "build", ![w].parents = ps]
  /\ UNCHANGED <<graphVars, txVars, batchVars, netVars>>

(* Sign, build and send the batch to the broadcaster. *)
Build(w) ==
  /\ worker[w].pc = "build"
  /\ \E b \in Batches \ Graph!Authored :
       /\ prev' = [x \in Graph!Authored \cup {b} |->
                     IF x = b THEN worker[w].parents ELSE prev[x]]
       /\ content' = [x \in DOMAIN content \cup {b} |->
                        IF x = b THEN worker[w].txs ELSE content[x]]
       /\ outbox' = Append(outbox, b)
  /\ worker' = [worker EXCEPT ![w] = Idle]
  /\ UNCHANGED <<vertices, roots, tips, clock, txVars, netVars>>

(* sign or TransactionBatch::new fails: the transactions are dropped.       *)
BuildFails(w) ==
  /\ BuildMayFail
  /\ worker[w].pc = "build"
  /\ worker' = [worker EXCEPT ![w] = Idle]
  /\ UNCHANGED <<graphVars, txVars, batchVars, netVars>>

(* A worker looks at its shutdown channel only between two creations.       *)
Shutdown(w) ==
  /\ worker[w].pc = "idle"
  /\ worker' = [worker EXCEPT ![w].pc = "stopped"]
  /\ UNCHANGED <<graphVars, txVars, batchVars, netVars>>

-----------------------------------------------------------------------------
(* The broadcaster receives the next batch and inserts it under the graph's *)
(* write lock.  When add_batch refuses it, as a duplicate or because it     *)
(* does not validate, the batch is logged and dropped.                      *)
InsertOwn ==
  /\ broadcaster.pc = "recv"
  /\ outbox # << >>
  /\ outbox' = Tail(outbox)
  /\ \/ UNCHANGED <<graphVars, broadcaster>>
     \/ /\ ~Graph!ContainsBatch(Head(outbox))
        /\ Graph!AddBatch(Head(outbox))
        /\ broadcaster' = [pc |-> "send", batch |-> Head(outbox), retries |-> 0]
  /\ UNCHANGED <<txVars, worker, content, settled, incoming>>

BroadcastSucceeds ==
  /\ broadcaster.pc = "send"
  /\ broadcaster' = NotSending
  /\ settled' = settled \cup {[batch |-> broadcaster.batch, success |-> TRUE]}
  /\ UNCHANGED <<graphVars, txVars, worker, batchVars, incoming>>

(* Mutant: the retry counter starts again instead of giving up. *)
BroadcastFailsForever ==
  /\ broadcaster.pc = "send"
  /\ broadcaster' = [broadcaster EXCEPT !.retries = (@ + 1) % MaxRetries]
  /\ UNCHANGED <<graphVars, txVars, worker, batchVars, settled, incoming>>

(* broadcast_batch fails: back off and retry, or give up. *)
BroadcastFails ==
  /\ broadcaster.pc = "send"
  /\ IF broadcaster.retries + 1 < MaxRetries
     THEN /\ broadcaster' = [broadcaster EXCEPT !.retries = @ + 1]
          /\ UNCHANGED settled
     ELSE /\ broadcaster' = NotSending
          /\ settled' = settled \cup {[batch |-> broadcaster.batch, success |-> FALSE]}
  /\ UNCHANGED <<graphVars, txVars, worker, batchVars, incoming>>

-----------------------------------------------------------------------------
(* Another validator authors a batch on batches it knows. *)
AuthorRemote(b) ==
  /\ Graph!Author(b)
  /\ UNCHANGED <<txVars, worker, batchVars, netVars>>

(* A batch of this node can come back only once it has been sent. *)
Deliverable(b) ==
  b \in DOMAIN content =>
    [batch |-> b, success |-> TRUE] \in settled

(* handle_incoming_batch looks the batch up under the read lock ... *)
Receive(b) ==
  /\ b \in Graph!Authored
  /\ Deliverable(b)
  /\ ~Graph!ContainsBatch(b)
  /\ incoming' = incoming \cup {b}
  /\ UNCHANGED <<graphVars, txVars, worker, batchVars, broadcaster, settled>>

(* ... and adds it under the write lock; a handler that comes second gets   *)
(* an error from add_batch.                                                 *)
InsertIncoming(b) ==
  /\ b \in incoming
  /\ incoming' = incoming \ {b}
  /\ IF Graph!ContainsBatch(b) THEN UNCHANGED graphVars ELSE Graph!AddBatch(b)
  /\ UNCHANGED <<txVars, worker, batchVars, broadcaster, settled>>

-----------------------------------------------------------------------------
WorkerStep(w) == Collect(w) \/ ReadTips(w) \/ Build(w)
Broadcast == InsertOwn \/ BroadcastSucceeds \/ BroadcastFails

Next ==
  \/ \E tx \in Submissions : CheckCapacity(tx) \/ Submit(tx)
  \/ \E w \in Workers : WorkerStep(w) \/ BuildFails(w) \/ Shutdown(w)
  \/ Broadcast
  \/ \E b \in Batches : AuthorRemote(b) \/ Receive(b) \/ InsertIncoming(b)

(* The interval of a running worker keeps ticking and tokio runs each task  *)
(* that can go on.  Nothing makes a client submit, a build fail, a node     *)
(* stop, or another validator send.                                         *)
Fairness == (\A w \in Workers : WF_vars(WorkerStep(w))) /\ WF_vars(Broadcast)
Spec == Init /\ [][Next]_vars /\ Fairness

-----------------------------------------------------------------------------
TypeOK ==
  /\ Graph!TypeOK
  /\ checked \subseteq called /\ called \subseteq Submissions
  /\ queue \in Seq(called) /\ putBack \in Seq(called)
  /\ \A w \in Workers : worker[w].pc \in {"idle", "collected", "build", "stopped"}
  /\ DOMAIN content \subseteq Graph!Authored
  /\ outbox \in Seq(DOMAIN content)
  /\ incoming \subseteq Graph!Authored

(* Every place a submission can be in, and what it holds.                   *)
Places ==
  {<<"queue">>, <<"putBack">>} \cup {<<"worker", w>> : w \in Workers}
    \cup {<<"batch", b>> : b \in DOMAIN content}
HeldAt(p) ==
  CASE p[1] = "queue" -> queue
    [] p[1] = "putBack" -> putBack
    [] p[1] = "worker" -> worker[p[2]].txs
    [] p[1] = "batch" -> content[p[2]]

(* Safety: concurrent workers never multiply what was submitted: whatever   *)
(* was sent to the channel is in one place, once.  (A transaction that is   *)
(* submitted twice is batched twice: the field "Recently created batches    *)
(* (for deduplication)", cascade.rs:118, is read by nothing.)               *)
NoTxTwice ==
  /\ \A p \in Places : IsInjective(HeldAt(p))
  /\ \A p, q \in Places : p # q => ToSet(HeldAt(p)) \cap ToSet(HeldAt(q)) = {}

(* Action property: a submission that was sent stays somewhere in the       *)
(* mempool or in a batch that was built; only a worker whose build fails    *)
(* loses any, and then only those it collected.                             *)
NoTxLost ==
  [][\A tx \in Sent \ Sent' :
       \E w \in Workers : tx \in ToSet(worker[w].txs) /\ BuildFails(w)]_vars

(* Safety: a batch respects both limits and is never empty. *)
BatchesWithinLimits ==
  \A b \in DOMAIN content :
    Len(content[b]) \in 1..MaxTransactions /\ Bytes(content[b]) =< MaxBytes

(* Safety: a batch of this node is inserted after its parents, also when it *)
(* waits in the channel behind others: the broadcaster never leaves an own  *)
(* batch unlinked.                                                          *)
OwnBatchesLinked ==
  /\ \A i \in DOMAIN outbox : prev[outbox[i]] \subseteq Graph!Present
  /\ \A b \in DOMAIN content \cap Graph!Present : Graph!Linked(b)

(* Liveness: a submission in the channel is batched and its batch inserted  *)
(* into the graph or refused by it, or it is put back, or lost in a failed  *)
(* build, while a worker runs and batch identifiers last.                   *)
InGraph(tx) == \E b \in DOMAIN content \cap Graph!Present : tx \in ToSet(content[b])
Refused(tx) ==
  \E b \in DOMAIN content \ Graph!Present :
    b \notin ToSet(outbox) /\ tx \in ToSet(content[b])
IsPutBack(tx) == tx \in ToSet(putBack)
AllStopped == \A w \in Workers : worker[w].pc = "stopped"
BoundReached == Graph!Authored = Batches \/ clock = MaxAdds
QueuedSettles ==
  \A tx \in Submissions :
    tx \in ToSet(queue) ~>
      InGraph(tx) \/ Refused(tx) \/ IsPutBack(tx) \/ tx \notin Sent \/ AllStopped \/ BoundReached

(* Liveness: the broadcast of an inserted batch ends, within the retries.   *)
IsSettled(b) == \E r \in settled : r.batch = b
BroadcastEnds ==
  \A b \in Batches : broadcaster.pc = "send" /\ broadcaster.batch = b ~> IsSettled(b)

(* Safety: two workers that drain one channel and put back beside it batch  *)
(* no submission twice and keep both limits.                                *)
BatchesSound == TypeOK /\ NoTxTwice /\ BatchesWithinLimits
=============================================================================
