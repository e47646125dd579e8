----------------------------- MODULE LogPipeline -----------------------------
(***************************************************************************)
(* The way of a log record to a remote collector: the lines channel of     *)
(* tracing_appender (logging/mod.rs), its worker thread, the appender the  *)
(* worker writes to (logging/http.rs, or KafkaLogAppender of kafka/mod.rs) *)
(* and the sender thread behind the HTTP appender.  Threads that log, the  *)
(* worker, the sender, and the drop of the handle's guard interleave.      *)
(*                                                                         *)
(* Lines are alike until the appender accepts them; from then on a record  *)
(* is known by its number.                                                 *)
(***************************************************************************)
EXTENDS Naturals, Sequences

CONSTANTS
  Lines,       \* LoggingBufferConfig::lines
  Queue,       \* LoggingHttpConfig::queue, librdkafka's queue.buffering.max.messages
  MaxBatch,    \* LoggingHttpConfig::max_batch_size
  Configs,     \* the settings an instance is made with
  MaxRecords   \* bound on the records logged

ConfigType == [dest : {"http", "kafka"}, lossy : BOOLEAN, back_pressure : BOOLEAN,
               ignore_flush : BOOLEAN, periodic_flush : BOOLEAN, debug : BOOLEAN,
               answers : BOOLEAN]

ASSUME LogAssumption ==
  /\ Lines \in Nat \ {0} /\ Queue \in Nat \ {0} /\ MaxBatch \in Nat \ {0}
  /\ MaxRecords \in Nat
  /\ Configs \subseteq ConfigType

VARIABLES
  cfg,       \* the settings; answers: requests end, by a reply or a timeout
  logged,    \* records logged so far
  blocked,   \* threads that log and wait for room in the channel
  channel,   \* NonBlocking's channel: lines and at most one "shutdown"
  guard,     \* the WorkerGuard of Handle::buf_guards
  worker,    \* where the worker thread is
  token,     \* HttpLogAppender::token was cancelled
  accepted,  \* number of records the appender accepted
  queue,     \* its queue: numbers of records, and Flush
  thread,    \* where the sender thread is; "broker": librdkafka's threads
  buffered,  \* http_logger_task's buffer
  sent       \* records whose request was made and has ended

produced == <<logged, blocked, channel>>
sender   == <<thread, buffered, sent>>
vars     == <<cfg, produced, guard, worker, token, accepted, queue, sender>>

Flush    == 0
Sending  == {"sending", "sending_chunk"}
Loggers  == {"app", "sender"}
-----------------------------------------------------------------------------
(* Of the two appenders HttpLogAppender starts a thread of its own.        *)
make_writer(dest) == IF dest = "http" THEN "start" ELSE "broker"

Init ==
  /\ cfg \in Configs
  /\ logged = 0 /\ blocked = {} /\ channel = <<>>
  /\ guard = "held" /\ worker = "recv" /\ token = FALSE
  /\ accepted = 0 /\ queue = <<>>
  /\ thread = make_writer(cfg.dest)
  /\ buffered = <<>> /\ sent = <<>>

HasRoom == worker # "gone" /\ Len(channel) < Lines

(* NonBlocking::write: a full channel drops the line or blocks the thread; *)
(* without a worker lines are dropped.  The sender thread logs about its   *)
(* own requests when debug is set: in them, and while it waits, where its  *)
(* runtime runs what keeps the connections.                                *)
Log(p) ==
  /\ logged < MaxRecords /\ p \notin blocked
  /\ p = "sender" => cfg.debug /\ thread \in {"select"} \cup Sending
  /\ logged' = logged + 1
  /\ \/ /\ HasRoom
        /\ channel' = Append(channel, "line") /\ UNCHANGED blocked
     \/ /\ ~HasRoom /\ (cfg.lossy \/ worker = "gone")
        /\ UNCHANGED <<channel, blocked>>
     \/ /\ ~HasRoom /\ ~cfg.lossy /\ worker # "gone"
        /\ blocked' = blocked \cup {p} /\ UNCHANGED channel
  /\ UNCHANGED <<cfg, guard, worker, token, accepted, queue, sender>>

Unblock(p) ==
  /\ p \in blocked
  /\ blocked' = blocked \ {p}
  /\ \/ HasRoom /\ channel' = Append(channel, "line")
     \/ worker = "gone" /\ UNCHANGED channel
  /\ UNCHANGED <<cfg, logged, guard, worker, token, accepted, queue, sender>>

(* Drop for Handle drops its buf_guards.  A guard puts a shutdown behind   *)
(* the lines, or gives up when the channel stays full for 100 ms; then it  *)
(* waits for the worker for a second, which changes nothing else.          *)
DropGuard ==
  /\ guard = "held"
  /\ guard' = "dropping"
  /\ UNCHANGED <<cfg, produced, worker, token, accepted, queue, sender>>

GuardTells ==
  /\ guard = "dropping" /\ HasRoom
  /\ guard' = "told" /\ channel' = Append(channel, "shutdown")
  /\ UNCHANGED <<cfg, logged, blocked, worker, token, accepted, queue, sender>>

GuardGivesUp ==
  /\ guard = "dropping" /\ ~HasRoom
  /\ guard' = "gave_up"
  /\ UNCHANGED <<cfg, produced, worker, token, accepted, queue, sender>>

-----------------------------------------------------------------------------
(* try_send, and rdkafka's send: fail when the queue is full, or closed    *)
(* because the sender thread could not start.                              *)
Accepting == Len(queue) < Queue /\ thread # "failed"

(* Mutant: errors are returned whatever back_pressure says.                *)
Fails_Always == TRUE
Fails == IF cfg.dest = "http" THEN cfg.back_pressure ELSE TRUE

(* Mutant: the record waits for room in the queue.                         *)
write_Waits(ok) ==
  \/ /\ Accepting
     /\ accepted' = accepted + 1 /\ queue' = Append(queue, accepted + 1)
     /\ ok
  \/ /\ thread = "failed"
     /\ UNCHANGED <<accepted, queue>>
     /\ ok = ~Fails

(* rdkafka refuses a record for other reasons too, such as its size.       *)
MayRefuse == ~Accepting \/ cfg.dest = "kafka"

(* Write for HttpLogAppender and KafkaLogAppender; `ok` is what they say.  *)
(* Without back pressure a record that does not fit is dropped.            *)
write(ok) ==
  \/ /\ Accepting
     /\ accepted' = accepted + 1 /\ queue' = Append(queue, accepted + 1)
     /\ ok
  \/ /\ MayRefuse
     /\ UNCHANGED <<accepted, queue>>
     /\ ok = ~Fails

(* KafkaLogAppender::flush holds the worker until the queue is empty, or   *)
(* flush_timeout has passed.                                               *)
KafkaFlush(ok) == UNCHANGED queue /\ ok = (queue = <<>>)

(* The HTTP appender queues a Flush.                                       *)
flush(ok) ==
  /\ UNCHANGED accepted
  /\ \/ /\ cfg.dest = "http" /\ Accepting
        /\ queue' = Append(queue, Flush) /\ ok
     \/ /\ cfg.dest = "http" /\ ~Accepting
        /\ UNCHANGED queue /\ ok = ~Fails
     \/ cfg.dest = "kafka" /\ KafkaFlush(ok)

(* External: tracing_appender's Worker::work().  It blocks for a line,     *)
(* takes what else there is, and flushes; an error ends the round at once. *)
(* While it is "flushing" it reads nothing.                                *)
WorkerWrites ==
  /\ worker \in {"recv", "more"} /\ channel # <<>> /\ Head(channel) = "line"
  /\ channel' = Tail(channel)
  /\ \E ok \in BOOLEAN : write(ok) /\ worker' = IF ok THEN "more" ELSE "recv"
  /\ UNCHANGED <<cfg, logged, blocked, guard, token, sender>>

WorkerReadsShutdown ==
  /\ worker \in {"recv", "more"} /\ channel # <<>> /\ Head(channel) = "shutdown"
  /\ channel' = Tail(channel)
  /\ worker' = "last"
  /\ UNCHANGED <<cfg, logged, blocked, guard, token, accepted, queue, sender>>

WorkerFindsNoMore ==
  /\ worker = "more" /\ channel = <<>>
  /\ worker' = "flushing"
  /\ UNCHANGED <<cfg, produced, guard, token, accepted, queue, sender>>

(* After the shutdown the worker ends, and drops the appender: only when   *)
(* this flush does not fail.                                               *)
WorkerFlushes ==
  /\ worker \in {"flushing", "last"}
  /\ \E ok \in BOOLEAN :
       flush(ok) /\ worker' = IF ok /\ worker = "last" THEN "closing" ELSE "recv"
  /\ UNCHANGED <<cfg, produced, guard, token, sender>>

(* Drop for HttpLogAppender: cancel the token, then join the thread.       *)
AppenderCancels ==
  /\ worker = "closing" /\ cfg.dest = "http" /\ ~token
  /\ token' = TRUE
  /\ UNCHANGED <<cfg, produced, guard, worker, accepted, queue, sender>>

(* The appender is gone, and the worker with it: the lines behind the      *)
(* shutdown are lost.  rdkafka's producer forgets what it has not sent.    *)
WorkerEnds ==
  /\ worker = "closing"
  /\ cfg.dest = "http" => token /\ thread \in {"done", "failed"}
  /\ worker' = "gone" /\ channel' = <<>> /\ queue' = <<>>
  /\ UNCHANGED <<cfg, logged, blocked, guard, token, accepted, sender>>

-----------------------------------------------------------------------------
(* The sender thread.  Its runtime is built; if that fails the receiver is *)
(* dropped with what is in the queue.                                      *)
http_logger_thread ==
  /\ thread = "start"
  /\ \/ thread' = "select" /\ UNCHANGED queue
     \/ thread' = "failed" /\ queue' = <<>>
  /\ UNCHANGED <<cfg, produced, guard, worker, token, accepted, buffered, sent>>

(* tokio::select! takes any branch that is ready.                          *)
Selecting == thread = "select" /\ "sender" \notin blocked

Cancelled ==
  /\ Selecting /\ token
  /\ thread' = "slurp"
  /\ UNCHANGED <<cfg, produced, guard, worker, token, accepted, queue, buffered, sent>>

PeriodicFlush ==
  /\ Selecting /\ cfg.periodic_flush /\ buffered # <<>>
  /\ thread' = "sending"
  /\ UNCHANGED <<cfg, produced, guard, worker, token, accepted, queue, buffered, sent>>

ReceivesFlush ==
  /\ Selecting /\ queue # <<>> /\ Head(queue) = Flush
  /\ queue' = Tail(queue)
  /\ thread' = IF ~cfg.ignore_flush /\ buffered # <<>> THEN "sending" ELSE "select"
  /\ UNCHANGED <<cfg, produced, guard, worker, token, accepted, buffered, sent>>

(* Mutant: the buffer may grow beyond a batch.                             *)
ReceivesMessage_Late ==
  /\ Selecting /\ queue # <<>> /\ Head(queue) # Flush
  /\ queue' = Tail(queue)
  /\ buffered' = Append(buffered, Head(queue))
  /\ thread' = IF Len(buffered') > MaxBatch THEN "sending" ELSE "select"
  /\ UNCHANGED <<cfg, produced, guard, worker, token, accepted, sent>>

ReceivesMessage ==
  /\ Selecting /\ queue # <<>> /\ Head(queue) # Flush
  /\ queue' = Tail(queue)
  /\ buffered' = Append(buffered, Head(queue))
  /\ thread' = IF Len(buffered') >= MaxBatch THEN "sending" ELSE "select"
  /\ UNCHANGED <<cfg, produced, guard, worker, token, accepted, sent>>

(* Mutant: the buffer is not cleared.                                      *)
SendEnds_NotCleared ==
  /\ thread = "sending" /\ "sender" \notin blocked
  /\ sent' = sent \o buffered
  /\ thread' = "select"
  /\ UNCHANGED <<cfg, produced, guard, worker, token, accepted, queue, buffered>>

(* send_logs is over, with a reply or an error, which is only printed: the *)
(* buffer is cleared.                                                      *)
SendEnds ==
  /\ thread = "sending" /\ "sender" \notin blocked
  /\ sent' = sent \o buffered /\ buffered' = <<>>
  /\ thread' = "select"
  /\ UNCHANGED <<cfg, produced, guard, worker, token, accepted, queue>>

(* Slurping leftovers: Flush is passed over.                               *)
Slurp ==
  /\ thread = "slurp" /\ queue # <<>>
  /\ queue' = Tail(queue)
  /\ buffered' = IF Head(queue) = Flush THEN buffered ELSE Append(buffered, Head(queue))
  /\ UNCHANGED <<cfg, produced, guard, worker, token, accepted, thread, sent>>

(* buffered.chunks(max_batch_size); the thread ends after the last chunk.  *)
Chunk == SubSeq(buffered, 1, IF Len(buffered) < MaxBatch THEN Len(buffered) ELSE MaxBatch)

NextChunk ==
  /\ thread = "slurp" /\ queue = <<>>
  /\ thread' = IF buffered = <<>> THEN "done" ELSE "sending_chunk"
  /\ UNCHANGED <<cfg, produced, guard, worker, token, accepted, queue, buffered, sent>>

ChunkEnds ==
  /\ thread = "sending_chunk" /\ "sender" \notin blocked
  /\ sent' = sent \o Chunk
  /\ buffered' = SubSeq(buffered, Len(Chunk) + 1, Len(buffered))
  /\ thread' = "slurp"
  /\ UNCHANGED <<cfg, produced, guard, worker, token, accepted, queue>>

(* A sequence without its i-th entry.                                      *)
Without(q, i) == [j \in 1..Len(q) - 1 |-> q[IF j < i THEN j ELSE j + 1]]

(* External: librdkafka delivers, or gives up a record after its timeout,  *)
(* which LogProducerContext::delivery only prints.  Records have no key    *)
(* and no partition, and idempotence may be off: any record that is queued *)
(* may be the next.  What a broker gets twice by a retry is not followed.  *)
BrokerTakes ==
  /\ thread = "broker"
  /\ \E i \in 1..Len(queue) :
       /\ sent' = Append(sent, queue[i])
       /\ queue' = Without(queue, i)
  /\ UNCHANGED <<cfg, produced, guard, worker, token, accepted, thread, buffered>>

-----------------------------------------------------------------------------
Guard   == DropGuard \/ GuardTells \/ GuardGivesUp
Worker  == WorkerWrites \/ WorkerReadsShutdown \/ WorkerFindsNoMore
           \/ WorkerFlushes \/ AppenderCancels \/ WorkerEnds
Remote  == SendEnds \/ ChunkEnds \/ BrokerTakes
Sender  == http_logger_thread \/ ReceivesFlush \/ ReceivesMessage \/ Slurp \/ NextChunk

Next ==
  \/ \E p \in Loggers : Log(p) \/ Unblock(p)
  \/ Guard \/ Worker \/ Remote \/ Sender
  \/ Cancelled \/ PeriodicFlush

(* Threads are scheduled, and a channel with room lets a blocked thread go *)
(* on; the branches of select! are polled in random order, so a ready one  *)
(* is not passed over for ever.  Requests end only where the settings say  *)
(* that they do.                                                           *)
Fairness ==
  /\ \A p \in Loggers : WF_vars(Unblock(p))
  /\ WF_vars(Worker) /\ WF_vars(Sender)
  /\ WF_vars(Cancelled) /\ WF_vars(PeriodicFlush)
  /\ WF_vars(cfg.answers /\ Remote)

Spec     == Init /\ [][Next]_vars
FairSpec == Spec /\ Fairness
-----------------------------------------------------------------------------
PlacesOK ==
  /\ cfg \in Configs /\ logged \in Nat /\ blocked \subseteq Loggers
  /\ guard \in {"held", "dropping", "told", "gave_up"}
  /\ worker \in {"recv", "more", "flushing", "last", "closing", "gone"}
  /\ token \in BOOLEAN /\ accepted \in Nat
  /\ thread \in {"start", "select", "slurp", "done", "failed", "broker"} \cup Sending
  /\ thread \in {"slurp", "sending_chunk", "done"} => token

ChannelOK == channel \in Seq({"line", "shutdown"}) /\ Len(channel) <= Lines

QueueOK == queue \in Seq(Nat) /\ Len(queue) <= Queue

BufferOK ==
  /\ buffered \in Seq(Nat) /\ sent \in Seq(Nat)
  /\ thread = "select" => Len(buffered) < MaxBatch
  /\ thread = "sending" => Len(buffered) <= MaxBatch

(* Channel and queue keep their bounds; a buffer that has reached a batch  *)
(* is being sent, before anything is added to it; and the sender drains    *)
(* only after the token was cancelled.                                     *)
TypeOK == PlacesOK /\ ChannelOK /\ QueueOK /\ BufferOK

(* A thread that logs is not held up for ever by a remote end that hangs,  *)
(* as long as the handle lives: Kafka's flush holds up the worker, and     *)
(* with it whoever finds the channel full, for flush_timeout at most; only *)
(* in the drop of the appender, which joins the sender, nobody reads on.   *)
RemoteBlocksNobody ==
  ("app" \in blocked) ~> ("app" \notin blocked \/ worker = "closing")

(* "Unwritten logs will be flushed when dropping this object" (handle.rs): *)
(* the shutdown of the guard ends the worker and the appender, with every  *)
(* accepted record sent.  It takes requests that end, an appender without  *)
(* back pressure (its last flush may fail else, and the shutdown is lost   *)
(* with it), and a sender that is not itself blocked by a full channel.    *)
ShutdownFlushes ==
  (/\ guard = "told" /\ cfg.answers
   /\ cfg.dest = "http" /\ ~cfg.back_pressure
   /\ ~(cfg.debug /\ ~cfg.lossy))
    ~> (worker = "gone" /\ (thread = "failed" \/ Len(sent) = accepted))

(* Either appender delivers each record it accepted once, the HTTP one in  *)
(* order and in bounded batches, and ends when nothing is left, whatever   *)
(* flushes, ticks, full batches and the shutdown interleave; with periodic *)
(* flushes, and once it is told to end, everything is delivered.           *)
Pressed == /\ cfg.answers
           /\ \/ cfg.dest = "kafka"
              \/ (cfg.periodic_flush \/ token) /\ ~(cfg.debug /\ ~cfg.lossy)
Ordered == cfg.dest = "http"
Open    == IF cfg.dest = "http" THEN thread \notin {"done", "failed"} ELSE worker # "gone"
Stream == INSTANCE LogStream WITH open <- Open, pressed <- Pressed, ordered <- Ordered
ImplementsStream == Stream!FairSpec
StreamSpec       == Stream!Spec
=============================================================================
