------------------------------ MODULE Dispatch ------------------------------
(***************************************************************************)
(* The JSON-RPC dispatcher of src/src/main.rs: one reader (run inline by   *)
(* run()), a bounded request channel, a pool of workers that share its     *)
(* receiver behind a mutex, a bounded response channel, one writer, and    *)
(* the pool cleanup task that run() joins last.                            *)
(*                                                                         *)
(* A request line stands for its own response: handle_line returns exactly *)
(* one value for every line (rpc.rs), so what the dispatcher can get wrong *)
(* is where the line is.  Blank lines and the ticks of the cleanup task    *)
(* change none of the state below and are stuttering steps.                *)
(***************************************************************************)
EXTENDS Naturals, Sequences, FiniteSets

CONSTANTS Requests,       \* request lines the host may write (all distinct)
          Slow,           \* those whose handler may never return
          Workers,        \* the worker tasks (WORKER_POOL_SIZE of them)
          ReqCap,         \* REQUEST_QUEUE_CAPACITY
          RespCap,        \* RESPONSE_QUEUE_CAPACITY
          StdoutMayFail,  \* whether the host may close the plugin's stdout
          None            \* "no request" and "no worker"

ASSUME DispatchAssumption ==
    /\ Slow \subseteq Requests
    /\ IsFiniteSet(Workers) /\ Workers # {}
    /\ ReqCap \in Nat \ {0}
    /\ RespCap \in Nat \ {0}
    /\ StdoutMayFail \in BOOLEAN
    /\ None \notin Requests \cup Workers

VARIABLES
    accepted,      \* lines read from stdin so far (history)
    main,          \* where run() is: reading, sending, joining, or exited
    line,          \* the line the reader is about to send
    reqQ,          \* the request channel
    rxLock,        \* the worker holding the mutex on the receiver
    phase,         \* phase[w]: where worker w is
    job,           \* job[w]: the request w is handling or whose response it sends
    respQ,         \* the response channel
    writer,        \* where the writer is
    body,          \* the response the writer is writing
    stdout,        \* response lines that reached the host, in order
    stdoutFailed,  \* a write to stdout failed
    cleanup        \* whether the pool cleanup task still runs

vars == <<accepted, main, line, reqQ, rxLock, phase, job, respQ, writer,
          body, stdout, stdoutFailed, cleanup>>

mainVars   == <<accepted, main, line>>
workerVars == <<rxLock, phase, job>>
writerVars == <<writer, body, stdout, stdoutFailed>>

MainStates   == {"read", "send", "joinWorkers", "joinWriter", "joinCleanup", "exited"}
WorkerStates == {"idle", "recv", "handle", "send", "done"}
WriterStates == {"recv", "write", "done"}

\* run_reader has returned: req_tx is dropped and shutdown_tx has sent true.
InputClosed == main \notin {"read", "send"}

\* Mutant: run() forgets to drop its own resp_tx.
ResponsesHeldOpen == FALSE

\* Every clone of resp_tx is dropped: run() drops its own before it reads.
ResponsesClosed == \A w \in Workers : phase[w] = "done"

Init ==
    /\ accepted = {}
    /\ main = "read"
    /\ line = None
    /\ reqQ = <<>>
    /\ rxLock = None
    /\ phase = [w \in Workers |-> "idle"]
    /\ job = [w \in Workers |-> None]
    /\ respQ = <<>>
    /\ writer = "recv"
    /\ body = None
    /\ stdout = <<>>
    /\ stdoutFailed = FALSE
    /\ cleanup = "running"
-----------------------------------------------------------------------------
(* The reader.                                                             *)

ReadLine(r) ==
    /\ main = "read"
    /\ r \notin accepted
    /\ accepted' = accepted \cup {r}
    /\ line' = r
    /\ main' = "send"
    /\ UNCHANGED <<reqQ, workerVars, respQ, writerVars, cleanup>>

\* End of file, or a read error: both leave the loop.
StdinEnds ==
    /\ main = "read"
    /\ main' = "joinWorkers"
    /\ UNCHANGED <<accepted, line, reqQ, workerVars, respQ, writerVars, cleanup>>

\* Mutant: an unbounded request channel.
SendUnbounded ==
    /\ main = "send"
    /\ reqQ' = Append(reqQ, line)
    /\ line' = None
    /\ main' = "read"
    /\ UNCHANGED <<accepted, workerVars, respQ, writerVars, cleanup>>

\* The bounded send blocks while the channel is full.  It cannot fail: run()
\* keeps its own Arc of the receiver until it returns, whatever the workers do.
SendRequest ==
    /\ main = "send"
    /\ Len(reqQ) < ReqCap
    /\ reqQ' = Append(reqQ, line)
    /\ line' = None
    /\ main' = "read"
    /\ UNCHANGED <<accepted, workerVars, respQ, writerVars, cleanup>>
-----------------------------------------------------------------------------
(* A worker.                                                               *)

LockReceiver(w) ==
    /\ phase[w] = "idle"
    /\ rxLock = None
    /\ rxLock' = w
    /\ phase' = [phase EXCEPT ![w] = "recv"]
    /\ UNCHANGED <<mainVars, reqQ, job, respQ, writerVars, cleanup>>

\* Mutant: the mutex guard lives on while the line is handled.
ReceiveKeepingLock(w) ==
    /\ phase[w] = "recv"
    /\ reqQ # <<>>
    /\ job' = [job EXCEPT ![w] = Head(reqQ)]
    /\ reqQ' = Tail(reqQ)
    /\ phase' = [phase EXCEPT ![w] = "handle"]
    /\ UNCHANGED <<mainVars, rxLock, respQ, writerVars, cleanup>>

\* recv() yields a line; the guard on the mutex is dropped with the block.
Receive(w) ==
    /\ phase[w] = "recv"
    /\ reqQ # <<>>
    /\ job' = [job EXCEPT ![w] = Head(reqQ)]
    /\ reqQ' = Tail(reqQ)
    /\ rxLock' = None
    /\ phase' = [phase EXCEPT ![w] = "handle"]
    /\ UNCHANGED <<mainVars, respQ, writerVars, cleanup>>

\* recv() yields None once the sender is dropped and the channel is drained.
ReceiveClosed(w) ==
    /\ phase[w] = "recv"
    /\ reqQ = <<>>
    /\ InputClosed
    /\ rxLock' = None
    /\ phase' = [phase EXCEPT ![w] = "done"]
    /\ UNCHANGED <<mainVars, reqQ, job, respQ, writerVars, cleanup>>

Handle(w) ==
    /\ phase[w] = "handle"
    /\ phase' = [phase EXCEPT ![w] = "send"]
    /\ UNCHANGED <<mainVars, reqQ, rxLock, job, respQ, writerVars, cleanup>>

\* Mutant: try_send, which drops the response when the channel is full.
SendOrDrop(w) ==
    /\ phase[w] = "send"
    /\ writer # "done"
    /\ respQ' = IF Len(respQ) < RespCap THEN Append(respQ, job[w]) ELSE respQ
    /\ job' = [job EXCEPT ![w] = None]
    /\ phase' = [phase EXCEPT ![w] = "idle"]
    /\ UNCHANGED <<mainVars, reqQ, rxLock, writerVars, cleanup>>

\* Mutant: the worker sends again what it has moved out.
SendAgain(w) ==
    /\ phase[w] = "send"
    /\ writer # "done"
    /\ Len(respQ) < RespCap
    /\ respQ' = Append(respQ, job[w])
    /\ job' = [job EXCEPT ![w] = None]
    /\ UNCHANGED <<mainVars, reqQ, rxLock, phase, writerVars, cleanup>>

SendResponse(w) ==
    /\ phase[w] = "send"
    /\ writer # "done"
    /\ Len(respQ) < RespCap
    /\ respQ' = Append(respQ, job[w])
    /\ job' = [job EXCEPT ![w] = None]
    /\ phase' = [phase EXCEPT ![w] = "idle"]
    /\ UNCHANGED <<mainVars, reqQ, rxLock, writerVars, cleanup>>

\* The writer dropped the receiver: the worker ends and the response is lost.
SendResponseFails(w) ==
    /\ phase[w] = "send"
    /\ writer = "done"
    /\ job' = [job EXCEPT ![w] = None]
    /\ phase' = [phase EXCEPT ![w] = "done"]
    /\ UNCHANGED <<mainVars, reqQ, rxLock, respQ, writerVars, cleanup>>
-----------------------------------------------------------------------------
(* The writer.                                                             *)

ReceiveResponse ==
    /\ writer = "recv"
    /\ respQ # <<>>
    /\ body' = Head(respQ)
    /\ respQ' = Tail(respQ)
    /\ writer' = "write"
    /\ UNCHANGED <<mainVars, reqQ, workerVars, stdout, stdoutFailed, cleanup>>

WriteBody ==
    /\ writer = "write"
    /\ ~stdoutFailed
    /\ stdout' = Append(stdout, body)
    /\ body' = None
    /\ writer' = "recv"
    /\ UNCHANGED <<mainVars, reqQ, workerVars, respQ, stdoutFailed, cleanup>>

\* write_all reports the failure: the loop ends and the receiver is dropped
\* with everything still queued in it.
WriteFails ==
    /\ StdoutMayFail
    /\ writer = "write"
    /\ stdoutFailed' = TRUE
    /\ body' = None
    /\ respQ' = <<>>
    /\ writer' = "done"
    /\ UNCHANGED <<mainVars, reqQ, workerVars, stdout, cleanup>>

\* write_all only filled tokio's buffer and flush reports the failure, whose
\* result run_writer discards: the response is lost and the loop goes on.
FlushFails ==
    /\ StdoutMayFail
    /\ writer = "write"
    /\ stdoutFailed' = TRUE
    /\ body' = None
    /\ writer' = "recv"
    /\ UNCHANGED <<mainVars, reqQ, workerVars, respQ, stdout, cleanup>>

WriterCloses ==
    /\ writer = "recv"
    /\ respQ = <<>>
    /\ ResponsesClosed
    /\ writer' = "done"
    /\ UNCHANGED <<mainVars, reqQ, workerVars, respQ, body, stdout, stdoutFailed, cleanup>>
-----------------------------------------------------------------------------
(* The cleanup task and the joins that end run().                          *)

CleanupStops ==
    /\ cleanup = "running"
    /\ InputClosed
    /\ cleanup' = "done"
    /\ UNCHANGED <<mainVars, reqQ, workerVars, respQ, writerVars>>

\* Mutant: run() returns without joining the writer.
JoinWorkersOnly ==
    /\ main = "joinWorkers"
    /\ \A w \in Workers : phase[w] = "done"
    /\ main' = "exited"
    /\ UNCHANGED <<accepted, line, reqQ, workerVars, respQ, writerVars, cleanup>>

JoinWorkers ==
    /\ main = "joinWorkers"
    /\ \A w \in Workers : phase[w] = "done"
    /\ main' = "joinWriter"
    /\ UNCHANGED <<accepted, line, reqQ, workerVars, respQ, writerVars, cleanup>>

JoinWriter ==
    /\ main = "joinWriter"
    /\ writer = "done"
    /\ main' = "joinCleanup"
    /\ UNCHANGED <<accepted, line, reqQ, workerVars, respQ, writerVars, cleanup>>

JoinCleanup ==
    /\ main = "joinCleanup"
    /\ cleanup = "done"
    /\ main' = "exited"
    /\ UNCHANGED <<accepted, line, reqQ, workerVars, respQ, writerVars, cleanup>>
-----------------------------------------------------------------------------
Reader == (\E r \in Requests : ReadLine(r)) \/ StdinEnds \/ SendRequest

Worker(w) ==
    \/ LockReceiver(w)
    \/ Receive(w)
    \/ ReceiveClosed(w)
    \/ Handle(w)
    \/ SendResponse(w)
    \/ SendResponseFails(w)

Writer == ReceiveResponse \/ WriteBody \/ WriteFails \/ FlushFails \/ WriterCloses

Shutdown == CleanupStops \/ JoinWorkers \/ JoinWriter \/ JoinCleanup

Next == Reader \/ (\E w \in Workers : Worker(w)) \/ Writer \/ Shutdown

(***************************************************************************)
(* Tasks that can run are polled again (weak fairness).  The mutex and the *)
(* channel permits of tokio queue their waiters first come first served,   *)
(* hence strong fairness where workers compete.  Nothing makes the host    *)
(* write a line or close stdin, and a slow handler may never return; that  *)
(* the writer makes progress says that the host reads its end of stdout.   *)
(***************************************************************************)
Fairness ==
    /\ WF_vars(SendRequest)
    /\ \A w \in Workers :
         /\ SF_vars(LockReceiver(w))
         /\ WF_vars(Receive(w) \/ ReceiveClosed(w))
         /\ WF_vars(job[w] \notin Slow /\ Handle(w))
         /\ SF_vars(SendResponse(w))
         /\ WF_vars(SendResponseFails(w))
    /\ WF_vars(Writer)
    /\ WF_vars(Shutdown)

Spec == Init /\ [][Next]_vars

FairSpec == Spec /\ Fairness
-----------------------------------------------------------------------------
(* Where a request can be.                                                 *)

Elements(s) == {s[i] : i \in 1 .. Len(s)}

NoRepeats(s) == \A i, j \in 1 .. Len(s) : s[i] = s[j] => i = j

Reading  == {line} \ {None}
Queued   == Elements(reqQ)
Handling == {job[w] : w \in Workers} \ {None}
Replying == Elements(respQ)
Writing  == {body} \ {None}
Written  == Elements(stdout)

Stage == <<Reading, Queued, Handling, Replying, Writing, Written>>

\* Every request the dispatcher still accounts for.
Held == Reading \cup Queued \cup Handling \cup Replying \cup Writing \cup Written
-----------------------------------------------------------------------------
(* Properties.                                                             *)

\* Every variable has its type: lines are requests, a queue holds requests.
TypeOK ==
    /\ accepted \subseteq Requests
    /\ main \in MainStates
    /\ line \in Requests \cup {None}
    /\ reqQ \in Seq(Requests)
    /\ rxLock \in Workers \cup {None}
    /\ phase \in [Workers -> WorkerStates]
    /\ job \in [Workers -> Requests \cup {None}]
    /\ respQ \in Seq(Requests)
    /\ writer \in WriterStates
    /\ body \in Requests \cup {None}
    /\ stdout \in Seq(Requests)
    /\ stdoutFailed \in BOOLEAN
    /\ cleanup \in {"running", "done"}

\* The payloads queued or active in the dispatcher never exceed the two
\* capacities, one per worker, one for the reader and one for the writer: the
\* "at most 134" of the comment on REQUEST_QUEUE_CAPACITY.
PayloadBound ==
    Cardinality(Reading) + Len(reqQ) + Cardinality({w \in Workers : job[w] # None})
        + Len(respQ) + Cardinality(Writing)
      <= ReqCap + RespCap + Cardinality(Workers) + 2

\* A request that was read is in exactly one place between stdin and stdout:
\* no two workers take the same line, no response is sent twice, and as long
\* as no write failed none is dropped on the way, not even during shutdown.
ExactlyOnce ==
    /\ NoRepeats(reqQ) /\ NoRepeats(respQ) /\ NoRepeats(stdout)
    /\ \A v, w \in Workers : job[v] = job[w] /\ job[v] # None => v = w
    /\ \A i, j \in 1 .. 6 : i # j => Stage[i] \cap Stage[j] = {}
    /\ Held \subseteq accepted
    /\ ~stdoutFailed => accepted \subseteq Held

\* How the control state of the tasks fits together.  A worker ends only when
\* stdin ended and the request channel is empty, the writer only after every
\* worker did, unless stdout failed; run() is past a join only if the task it
\* joined ended.  With the two invariants above it is inductive.
ControlInv ==
    /\ line # None <=> main = "send"
    /\ \A w \in Workers : rxLock = w <=> phase[w] = "recv"
    /\ \A w \in Workers : job[w] # None <=> phase[w] \in {"handle", "send"}
    /\ body # None <=> writer = "write"
    /\ Len(reqQ) <= ReqCap /\ Len(respQ) <= RespCap
    /\ \A w \in Workers :
         phase[w] = "done" => stdoutFailed \/ (InputClosed /\ reqQ = <<>>)
    /\ writer = "done" => stdoutFailed \/ (ResponsesClosed /\ respQ = <<>>)
    /\ main \in {"joinWriter", "joinCleanup", "exited"} => ResponsesClosed
    /\ main \in {"joinCleanup", "exited"} => writer = "done"

\* run() joins workers, writer and cleanup in an order that drains both
\* channels: the process ends only after every request it read was answered,
\* unless a write to stdout failed.
DrainedBeforeExit ==
    main = "exited" /\ ~stdoutFailed => Written = accepted

\* A slow query does not block a ping on another connection (the promise of
\* the header of main.rs), as long as slow ones do not take every worker.
Responsive ==
    Cardinality(Slow) < Cardinality(Workers) =>
        \A r \in Requests \ Slow : r \in accepted ~> (stdoutFailed \/ r \in Written)

\* Closing stdin ends the process when no handler hangs: run() returns.
ExitsAfterEof ==
    InputClosed /\ accepted \cap Slow = {} ~> main = "exited"

\* The dispatcher implements the service the host sees.
Service == INSTANCE RequestService WITH
    answered <- Written,
    open     <- ~InputClosed,
    broken   <- stdoutFailed,
    exited   <- (main = "exited")

ImplementsService == Service!Spec

=============================================================================
