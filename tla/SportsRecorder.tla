---------------------------- MODULE SportsRecorder ----------------------------
(***************************************************************************)
(* One recording session of the sports-data recorder.  Each worker keeps a *)
(* WebSocket subscription for a shard of tokens and puts what it receives  *)
(* on a queue bounded in items and bytes; the main coroutine takes batches *)
(* off it and a thread appends them to segments, which only a manifest     *)
(* makes readable; a refresher follows the catalog and launches workers.   *)
(*                                                                         *)
(* The coroutines share one thread: they interleave at awaits only.  A     *)
(* record is known by its stream (worker and connection attempt) and its   *)
(* sequence number; of its normalized rows the model keeps the tokens they *)
(* are about and, in the kind, what they do to those tokens' books.  What   *)
(* is appended and committed is represented by the books it replays to.     *)
(***************************************************************************)
EXTENDS Integers, Sequences, FiniteSets, SequencesExt

CONSTANTS
  Tokens,         \* CLOB tokens the catalog may admit
  MaxWorkers,     \* bound: workers launched in the session, the first catalog's among them
  MaxAttempts,    \* bound: connections of a worker
  ShardSize,      \* tokens per connection
  QueueMessages,  \* queue_messages
  QueueBytes,     \* queue_bytes, in the unit of Size
  Catalogs,       \* bound: what a refresh may find in the catalog
  MaxEvents,      \* bound: refreshes, reconnections and well-formed messages, taken together
  BatchSize,      \* items a batch may hold
  Faults          \* subset of {"lost", "budget"}

ASSUME BoundsAssumption ==
  /\ {MaxWorkers, MaxAttempts, QueueMessages, BatchSize} \subseteq Nat \ {0} /\ MaxEvents \in Nat
  /\ Cardinality(Tokens) <= MaxWorkers * ShardSize
ASSUME ShardAssumption  == ShardSize \in Nat \ {0} /\ IsFiniteSet(Tokens) /\ Catalogs \subseteq SUBSET Tokens
(* The queue holds one shard-wide control event at least.                  *)
ASSUME QueueAssumption  == QueueBytes \in Nat /\ QueueBytes > ShardSize

VARIABLES
  active, resolved,            \* active_tokens and resolved_tokens
  events,                      \* refreshes, reconnections and well-formed messages so far
  workers,                     \* worker coroutines
  admission,                   \* FIFO of the workers waiting to enqueue
  queue, pressure,             \* the queue and pressure_bytes
  phase, outcome,              \* main coroutine
  appended, committed,         \* replay of each stream: of all rows, of those in manifests
  accepted                     \* history variable: records enqueued in each stream

control  == <<active, resolved>>
channel  == <<admission, queue, pressure>>
main     == <<phase, outcome>>
evidence == <<appended, committed>>
vars == <<control, events, workers, channel, main, evidence, accepted>>

Workers == 1..MaxWorkers
Streams == Workers \X (0..MaxAttempts - 1)

MessageKinds == {"book", "price_change", "market_resolved"}
(* Records whose rows reset the books of their tokens; "lost" stands for a   *)
(* message too large for the queue and for one that cannot be parsed.      *)
ResetKinds   == {"session_start", "subscription_removed", "lost", "closing"}
Kinds        == MessageKinds \cup ResetKinds \cup {"subscription"}

Size(item) == 1 + Cardinality(item.tokens)

(* The bytes of the first n items, for every n.                            *)
Sums(items) ==
  LET sum[n \in 0..Len(items)] == IF n = 0 THEN 0 ELSE sum[n - 1] + Size(items[n])
  IN  sum

Bytes(items) == Sums(items)[Len(items)]

(* missed is not in the code's row: the tokens of which a message was       *)
(* received, but not recorded, since the record before.                    *)
NoItem == [stream |-> <<0, 0>>, seq |-> 0, kind |-> "none", tokens |-> {}, missed |-> {}]

Unborn ==
  [pc |-> "unborn", tokens |-> {}, subscribed |-> {}, retired |-> {}, attempt |-> 0, seq |-> 0,
   item |-> NoItem, missed |-> {}]

Ended == [Unborn EXCEPT !.pc = "done"]

(* A stream replayed up to some record: the next sequence number, the      *)
(* tokens with an initialized book, those whose book lacks messages, and   *)
(* whether the record that closes the stream is there.                     *)
NoReplay == [next |-> 0, books |-> {}, behind |-> {}, closed |-> FALSE]

(* The stop event is not set. *)
Running == phase \in {"record", "stopping"}

Live == {w \in Workers : workers[w].pc \notin {"unborn", "done"}}

(* shards(): as few groups as the shard size allows, each token a condition *)
(* of its own.                                                             *)
Sharding(S) ==
  CHOOSE P \in SUBSET (SUBSET S) :
    /\ UNION P = S /\ {} \notin P
    /\ \A g \in P : Cardinality(g) <= ShardSize
    /\ \A g, h \in P : g # h => g \cap h = {}
    /\ Cardinality(P) = (Cardinality(S) + ShardSize - 1) \div ShardSize

(* launch(): one new worker for each group, numbered on from the last.     *)
Launched(old, new) ==
  LET groups == SetToSeq(Sharding(new))
      born   == Cardinality({w \in Workers : old[w].pc # "unborn"})
  IN  [w \in Workers |-> IF w - born \in DOMAIN groups
                         THEN [Unborn EXCEPT !.pc = "asleep", !.tokens = groups[w - born]]
                         ELSE old[w]]

Init ==
  /\ active = Tokens /\ resolved = {}
  /\ events = 0
  /\ workers = Launched([w \in Workers |-> Unborn], active)
  /\ admission = << >> /\ queue = << >> /\ pressure = 0
  /\ phase = "record" /\ outcome = "none"
  /\ appended = [s \in Streams |-> NoReplay] /\ committed = appended
  /\ accepted = [s \in Streams |-> 0]

-----------------------------------------------------------------------------
(* The queue.                                                              *)

Fits(item) == Len(queue) < QueueMessages /\ pressure + Size(item) <= QueueBytes

(* How a worker goes on when its record is on the queue.                   *)
AfterPut(worker, item) ==
  LET next == [worker EXCEPT !.seq = @ + 1, !.item = NoItem, !.missed = {}]
  IN CASE item.kind = "session_start" -> [next EXCEPT !.pc = "connecting"]
       [] item.kind \in MessageKinds \cup {"subscription"} -> [next EXCEPT !.pc = "open"]
       [] item.kind = "subscription_removed" ->
            [next EXCEPT !.pc = "open",
                         !.subscribed = @ \ item.tokens,
                         !.tokens = @ \ item.tokens,
                         !.retired = @ \cup item.tokens]
       [] item.kind = "lost" -> [next EXCEPT !.pc = "closing"]
       [] item.kind = "closing" ->
            IF ~Running \/ worker.tokens \cap active = {}
            THEN Ended
            ELSE [next EXCEPT !.pc = "asleep", !.attempt = @ + 1, !.seq = 0, !.subscribed = {}]

(* put_nowait and its accounting, and what the worker does up to its next   *)
(* await: a resolution takes the tokens out of the active ones.            *)
Enqueue(w, worker, item) ==
  /\ queue' = Append(queue, item)
  /\ pressure' = pressure + Size(item)
  /\ accepted' = [accepted EXCEPT ![item.stream] = @ + 1]
  /\ workers' = [workers EXCEPT ![w] = AfterPut(worker, item)]
  /\ LET over == IF item.kind = "market_resolved" THEN item.tokens ELSE {}
     IN  resolved' = resolved \cup over /\ active' = active \ over

(* enqueue(): behind the workers that wait already, or at once if there is  *)
(* room.                                                                   *)
Offer(w, worker, item) ==
  IF admission = << >> /\ Fits(item)
  THEN Enqueue(w, worker, item) /\ UNCHANGED admission
  ELSE /\ admission' = Append(admission, w)
       /\ workers' = [workers EXCEPT ![w] = [worker EXCEPT !.pc = "blocked", !.item = item]]
       /\ UNCHANGED <<control, queue, pressure, accepted>>

Admit ==
  /\ admission # << >>
  /\ LET w == Head(admission) IN
       /\ Fits(workers[w].item)
       /\ Enqueue(w, workers[w], workers[w].item)
  /\ admission' = Tail(admission)
  /\ UNCHANGED <<events, main, evidence>>

-----------------------------------------------------------------------------
(* A worker.                                                               *)

Record(worker, w, kind, tokens) ==
  [stream |-> <<w, worker.attempt>>, seq |-> worker.seq, kind |-> kind, tokens |-> tokens,
   missed |-> worker.missed]

Emit(w, kind, tokens) == Offer(w, workers[w], Record(workers[w], w, kind, tokens))

(* The top of the reconnect loop, after the start delay or the pause        *)
(* between two connections.                                                *)
Connect(w) ==
  LET subscribed == workers[w].tokens \cap active
      worker == [workers[w] EXCEPT !.subscribed = subscribed]
  IN
  /\ Running /\ workers[w].pc = "asleep"
  /\ workers[w].attempt < MaxAttempts
  /\ workers[w].attempt = 0 \/ events < MaxEvents
  /\ events' = IF workers[w].attempt = 0 THEN events ELSE events + 1
  /\ IF subscribed = {}
     THEN /\ workers' = [workers EXCEPT ![w] = Ended]
          /\ UNCHANGED <<control, channel, accepted>>
     ELSE Offer(w, worker, Record(worker, w, "session_start", subscribed))
  /\ UNCHANGED <<main, evidence>>

Subscribe(w) ==
  /\ workers[w].pc = "connecting"
  /\ Emit(w, "subscription", {})
  /\ UNCHANGED <<events, main, evidence>>

(* The connection cannot be opened, or it breaks, is silent for too long or *)
(* ends at the deadline: then its receiving task is awaited first.          *)
Disconnect(w) ==
  /\ \/ /\ workers[w].pc = "connecting"
        /\ workers' = [workers EXCEPT ![w].pc = "closing"]
     \/ /\ workers[w].pc = "open"
        /\ workers' = [workers EXCEPT ![w].pc = "gathering"]
  /\ UNCHANGED <<control, events, channel, main, evidence, accepted>>

Removed(w) == workers[w].subscribed \ active

(* Each round of the receive loop looks for removed tokens first; when none *)
(* is left, the worker does no more than leave the connection.             *)
Unsubscribe(w) ==
  /\ workers[w].pc = "open" /\ Removed(w) # {}
  /\ Emit(w, "subscription_removed", Removed(w))
  /\ UNCHANGED <<events, main, evidence>>

CanReceive(w) ==
  /\ workers[w].pc = "open" /\ workers[w].subscribed # {} /\ Removed(w) = {}

(* Rows about a token this worker has unsubscribed are dropped.            *)
Receive(w) ==
  /\ CanReceive(w) /\ events < MaxEvents
  /\ \E kind \in MessageKinds, t \in workers[w].subscribed \cup workers[w].retired :
       LET late   == t \in workers[w].retired
           worker == [workers[w] EXCEPT !.missed = IF late THEN {t} ELSE {}]
       IN  Offer(w, worker, Record(worker, w, kind, IF late THEN {} ELSE {t}))
  /\ events' = events + 1
  /\ UNCHANGED <<main, evidence>>

(* Mutant of ResetAfterLoss: the tokens of the lost message are not known.  *)
ResetNothing(w) == {}

(* A message that is lost resets everything its connection has subscribed. *)
ResetAfterLoss(w) == workers[w].subscribed

(* A message that cannot be parsed is kept as raw bytes; one too large for  *)
(* the queue is dropped.  Either ends the connection.                       *)
ReceiveInvalid(w) ==
  LET worker == [workers[w] EXCEPT !.missed = workers[w].subscribed]
  IN
  /\ CanReceive(w) /\ "lost" \in Faults
  /\ Offer(w, worker, Record(worker, w, "lost", ResetAfterLoss(w)))
  /\ UNCHANGED <<events, main, evidence>>

(* The finally block: every connection ends in a record that resets it.    *)
Close(w) ==
  /\ workers[w].pc \in {"gathering", "closing"}
  /\ Emit(w, "closing", workers[w].subscribed)
  /\ UNCHANGED <<events, main, evidence>>

(* Mutant of Cancelled: the workers are left to end by themselves.         *)
LeftAlone(worker) == worker

(* task.cancel(): a pause ends the worker; anything else leads to the       *)
(* finally block, and a second exception there ends it without a record.    *)
Cancelled(worker) ==
  CASE worker.pc \in {"unborn", "done"} -> worker
    [] \/ worker.pc \in {"asleep", "gathering"}
       \/ worker.pc = "blocked" /\ worker.item.kind = "closing"
         -> Ended
    [] OTHER -> [worker EXCEPT !.pc = "closing", !.item = NoItem,
                               !.missed = @ \cup worker.item.tokens]

-----------------------------------------------------------------------------
(* The refresher.                                                          *)

(* Mutant of Admitted: a token may be admitted although it has resolved.   *)
AdmittedByCatalog(latest) == latest

(* Mutant of NewTokens: only what was never recorded is launched.          *)
NeverSeen(latest) == {}

Admitted(latest) == latest \ resolved

NewTokens(latest) == latest \ active

(* refresh_loop() once the catalog is read.  Crawling and reading it runs    *)
(* in threads while workers go on, so that it may be of any age.           *)
ApplyCatalog ==
  /\ Running /\ events < MaxEvents
  /\ \E catalog \in Catalogs :
       LET latest == Admitted(catalog)
           new    == NewTokens(latest)
       IN  /\ Cardinality(Sharding(new)) <= Cardinality({w \in Workers : workers[w].pc = "unborn"})
           /\ active' = latest
           /\ workers' = Launched(workers, new)
  /\ events' = events + 1
  /\ UNCHANGED <<resolved, channel, main, evidence, accepted>>

-----------------------------------------------------------------------------
(* The main coroutine and the thread that appends for it.                  *)

(* The items dequeue_batch takes, and the queue without them.              *)
Batch == SubSeq(queue, 1, IF Len(queue) < BatchSize THEN Len(queue) ELSE BatchSize)

TakeBatch ==
  /\ phase \in {"record", "drain"} /\ queue # << >>
  /\ queue' = SubSeq(queue, Len(Batch) + 1, Len(queue))
  /\ pressure' = pressure - Bytes(Batch)

(* Book.apply for the rows of one record, in the order of the stream.      *)
Replay(replay, item) ==
  LET missed == IF item.seq = replay.next THEN item.missed ELSE Tokens
      books  == CASE item.kind = "book" -> replay.books \cup item.tokens
                  [] item.kind \in ResetKinds \cup {"market_resolved"} -> replay.books \ item.tokens
                  [] OTHER -> replay.books
      healed == IF item.kind = "book" THEN item.tokens ELSE {}
  IN  [next |-> item.seq + 1, books |-> books,
       behind |-> ((replay.behind \cup missed) \ healed) \cap books,
       closed |-> item.kind = "closing"]

(* The replays once the first n items are appended, for every n.           *)
Replayed(replays, items) ==
  LET after[n \in 0..Len(items)] ==
        IF n = 0 THEN replays
        ELSE [after[n - 1] EXCEPT ![items[n].stream] = Replay(@, items[n])]
  IN  after

(* What may be committed once the first n items of the batch are appended:  *)
(* the first row of another hour commits the rows before it.               *)
Committable(n) ==
  {committed} \cup {Replayed(appended, Batch)[first - 1] : first \in 1..n}

(* consume_batch() in its thread, which nobody else looks at.              *)
Consume ==
  /\ TakeBatch
  /\ appended' = Replayed(appended, Batch)[Len(Batch)]
  /\ committed' \in Committable(Len(Batch))
  /\ UNCHANGED <<control, events, workers, admission, main, accepted>>

Rotate ==
  /\ phase = "record" /\ committed # appended
  /\ committed' = appended
  /\ UNCHANGED <<control, events, workers, channel, main, appended, accepted>>

(* BudgetStop in the thread: the rest of the batch is gone.  While          *)
(* recording it leads to the drain, in the drain it ends the session.       *)
AppendFails ==
  /\ "budget" \in Faults /\ TakeBatch
  /\ \E n \in 0..Len(Batch) :
       /\ appended' = Replayed(appended, Batch)[n]
       /\ committed' \in Committable(n)
  /\ outcome' = "budget_stop"
  /\ IF phase = "record"
     THEN phase' = "stopping" /\ UNCHANGED <<workers, admission>>
     ELSE /\ phase' = "ended" /\ admission' = << >>
          /\ workers' = [w \in Workers |-> Ended]
  /\ UNCHANGED <<control, events, accepted>>

(* The deadline, a rotation that fails or finds too little room left, or a  *)
(* failed append.  The finally block cancels every worker at once; what a *)
(* worker had received but not yet enqueued is lost.                       *)
Stop ==
  /\ \/ phase = "record" /\ outcome' = "duration_complete"
     \/ phase = "record" /\ "budget" \in Faults /\ outcome' = "budget_stop"
     \/ phase = "stopping" /\ UNCHANGED outcome
  /\ phase' = "drain"
  /\ workers' = [w \in Workers |-> Cancelled(workers[w])]
  /\ admission' = << >>
  /\ UNCHANGED <<control, events, queue, pressure, evidence, accepted>>

(* Mutant of Drained: what the workers still have to say is not awaited.   *)
QueueEmpty == queue = << >>

(* Workers that have ended and an empty queue end the drain.               *)
Drained == QueueEmpty /\ Live = {}

(* The last manifest and the session's summary.                            *)
Finish ==
  /\ phase = "drain" /\ Drained /\ phase' = "ended"
  /\ \/ committed' = appended /\ UNCHANGED <<appended, outcome>>
     \/ "budget" \in Faults /\ outcome' = "budget_stop" /\ UNCHANGED evidence
  /\ UNCHANGED <<control, events, workers, channel, accepted>>

-----------------------------------------------------------------------------
Worker(w) ==
  \/ Connect(w) \/ Subscribe(w) \/ Disconnect(w) \/ Unsubscribe(w) \/ Receive(w)
  \/ ReceiveInvalid(w) \/ Close(w)

Main == Consume \/ Rotate \/ AppendFails \/ Stop \/ Finish

Next ==
  \/ \E w \in Workers : Worker(w)
  \/ Admit \/ ApplyCatalog \/ Main

Spec == Init /\ [][Next]_vars

(* The event loop runs every coroutine that can go on, the deadline comes,  *)
(* and the drain has to do no more than empty the queue.                    *)
FairSpec ==
  /\ Spec /\ WF_vars(Admit) /\ WF_vars(Main) /\ WF_vars(Stop)
  /\ \A w \in Workers : WF_vars(Close(w))

-----------------------------------------------------------------------------
(* Properties.                                                             *)

Items ==
  [stream: Streams, seq: Nat, kind: Kinds, tokens: SUBSET Tokens, missed: SUBSET Tokens]

Replays == [next: Nat, books: SUBSET Tokens, behind: SUBSET Tokens, closed: BOOLEAN]

WorkerStates ==
  [pc: {"unborn", "asleep", "connecting", "open", "blocked", "gathering", "closing", "done"},
   tokens: SUBSET Tokens, subscribed: SUBSET Tokens, retired: SUBSET Tokens,
   attempt: 0..MaxAttempts, seq: Nat, item: Items \cup {NoItem}, missed: SUBSET Tokens]

(* Every variable has its type, and the queue's account is right: the bytes *)
(* of what is queued, never more than the limit, though several workers     *)
(* wait for room and batches leave the queue between their attempts.        *)
TypeOK ==
  /\ active \subseteq Tokens /\ resolved \subseteq Tokens
  /\ events \in 0..MaxEvents
  /\ workers \in [Workers -> WorkerStates]
  /\ admission \in Seq(Workers) /\ IsInjective(admission)
  /\ \A w \in Workers : workers[w].pc = "blocked" <=> \E i \in DOMAIN admission : admission[i] = w
  /\ queue \in Seq(Items) /\ Len(queue) <= QueueMessages
  /\ pressure = Bytes(queue) /\ pressure <= QueueBytes
  /\ phase \in {"record", "stopping", "drain", "ended"}
  /\ outcome \in {"none", "duration_complete", "budget_stop"}
  /\ {appended, committed} \subseteq [Streams -> Replays] /\ accepted \in [Streams -> Nat]

(* Whoever replays the committed records of a connection and finds a book   *)
(* initialized has every message of that token since the snapshot: there is *)
(* no hole in the manifests, and a message that was dropped, could not be   *)
(* parsed or was on its way when the worker was cancelled has reset it.     *)
ReplayIsHonest == \A s \in Streams : committed[s].behind = {}

(* The same for a session in which no append has failed.                   *)
ReplayIsHonestWithinBudget == outcome # "budget_stop" => ReplayIsHonest

(* The drain loses nothing: when a session completes its duration, every    *)
(* record a worker has put on the queue is committed.                       *)
AcceptedIsCommitted ==
  phase = "ended" /\ outcome = "duration_complete" =>
    \A s \in Streams : committed[s].next = accepted[s]

(* Every token the catalog admits has a worker, however tokens leave and    *)
(* return while workers pause, reconnect or wait for room.                  *)
NoTokenForgotten ==
  Running => \A t \in active : \E w \in Live : t \in workers[w].tokens

(* A resolved token is never admitted again, although the catalog a refresh *)
(* has read may be older than the resolution.                               *)
ResolvedStaysOut == active \cap resolved = {}

(* A session ends: neither the workers that wait for room nor the drain     *)
(* that waits for the workers holds it up.                                  *)
SessionEnds == <>(phase = "ended")

(* What is committed can be replayed: without a hole that is not marked,    *)
(* and to the last record accepted before the session's end.                *)
CommittedIsWhole == ReplayIsHonestWithinBudget /\ AcceptedIsCommitted

(* What the session should follow it follows, within the room it has.       *)
TokensAreFollowed == TypeOK /\ NoTokenForgotten
=============================================================================
