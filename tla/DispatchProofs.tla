--------------------------- MODULE DispatchProofs ---------------------------
(***************************************************************************)
(* Proofs about Dispatch, for every set of requests and workers and every  *)
(* channel capacity: the safety invariants that TLC checks on a small      *)
(* instance, and that the dispatcher implements RequestService.            *)
(***************************************************************************)
EXTENDS Dispatch, FiniteSetTheorems, TLAPS

\* What the bounded channels do to the set of requests they hold: a send adds
\* the new element and creates no repetition when it was not there.
LEMMA AppendElements ==
    ASSUME NEW S, NEW q \in Seq(S), NEW x \in S
    PROVE  /\ Elements(Append(q, x)) = Elements(q) \cup {x}
           /\ NoRepeats(q) /\ x \notin Elements(q) => NoRepeats(Append(q, x))
<1>1. /\ Len(Append(q, x)) = Len(q) + 1
      /\ Len(q) \in Nat
      /\ \A i \in 1 .. Len(q) : Append(q, x)[i] = q[i]
      /\ Append(q, x)[Len(q) + 1] = x
  OBVIOUS
<1>2. 1 .. Len(q) + 1 = (1 .. Len(q)) \cup {Len(q) + 1}
  BY <1>1
<1>3. Elements(Append(q, x)) = Elements(q) \cup {x}
  BY <1>1, <1>2 DEF Elements
<1>4. ASSUME NoRepeats(q), x \notin Elements(q)
      PROVE  NoRepeats(Append(q, x))
  BY <1>1, <1>2, <1>4 DEF NoRepeats, Elements
<1>5. QED
  BY <1>3, <1>4

\* A receive takes the head out of the set and repeats nothing.
LEMMA TailElements ==
    ASSUME NEW S, NEW q \in Seq(S), q # <<>>, NoRepeats(q)
    PROVE  /\ Head(q) \in Elements(q)
           /\ Elements(Tail(q)) = Elements(q) \ {Head(q)}
           /\ NoRepeats(Tail(q))
<1>1. /\ Len(q) \in Nat \ {0}
      /\ Head(q) = q[1]
      /\ Len(Tail(q)) = Len(q) - 1
      /\ \A i \in 1 .. Len(q) - 1 : Tail(q)[i] = q[i + 1]
  OBVIOUS
<1>2. Head(q) \in Elements(q)
  BY <1>1 DEF Elements
<1>3. Elements(Tail(q)) \subseteq Elements(q) \ {Head(q)}
  BY <1>1 DEF Elements, NoRepeats
<1>4. ASSUME NEW e \in Elements(q) \ {Head(q)}
      PROVE  e \in Elements(Tail(q))
  <2>1. PICK i \in 1 .. Len(q) : e = q[i]
    BY DEF Elements
  <2>2. i # 1
    BY <1>1, <2>1
  <2>3. i - 1 \in 1 .. Len(Tail(q)) /\ Tail(q)[i - 1] = e
    BY <1>1, <2>1, <2>2
  <2>4. QED
    BY <2>3 DEF Elements
<1>5. NoRepeats(Tail(q))
  BY <1>1 DEF NoRepeats
<1>6. QED
  BY <1>2, <1>3, <1>4, <1>5

-----------------------------------------------------------------------------
(* Types and control state.                                                *)

TypedControl == TypeOK /\ ControlInv

LEMMA InitTypedControl == Init => TypedControl
<1>1. SUFFICES ASSUME Init
               PROVE  TypeOK /\ ControlInv
  BY DEF TypedControl
<1>2. TypeOK
  <2>1. <<>> \in Seq(Requests)
    OBVIOUS
  <2>2. /\ [w \in Workers |-> "idle"] \in [Workers -> WorkerStates]
        /\ [w \in Workers |-> None] \in [Workers -> Requests \cup {None}]
    BY DEF WorkerStates
  <2>3. QED
    BY <1>1, <2>1, <2>2, Zenon DEF Init, TypeOK, MainStates, WriterStates
<1>3. Len(<<>>) <= ReqCap /\ Len(<<>>) <= RespCap
  BY DispatchAssumption
<1>4. \A w \in Workers : None # w
  BY DispatchAssumption
<1>5. ControlInv
  BY <1>1, <1>3, <1>4 DEF Init, ControlInv
<1>6. QED
  BY <1>2, <1>5

\* The steps of the reader.
LEMMA ReaderTypedControl ==
    TypedControl /\ Reader => TypedControl'
<1> USE DispatchAssumption DEF TypedControl, TypeOK, MainStates, WorkerStates, WriterStates,
        workerVars, writerVars
<1>1. ASSUME TypedControl, NEW r \in Requests, ReadLine(r)
      PROVE  TypedControl'
  BY <1>1 DEF ReadLine, ControlInv, InputClosed, ResponsesClosed
<1>2. ASSUME TypedControl, StdinEnds
      PROVE  TypedControl'
  BY <1>2 DEF StdinEnds, ControlInv, InputClosed, ResponsesClosed
<1>3. ASSUME TypedControl, SendRequest
      PROVE  TypedControl'
  <2>1. line \in Requests
    BY <1>3 DEF SendRequest, ControlInv
  <2>2. reqQ' \in Seq(Requests) /\ Len(reqQ') = Len(reqQ) + 1
    BY <1>3, <2>1 DEF SendRequest
  <2>3. TypeOK'
    BY <1>3, <2>2 DEF SendRequest
  <2>4. ControlInv'
    BY <1>3, <2>2 DEF SendRequest, ControlInv, InputClosed, ResponsesClosed
  <2>5. QED
    BY <2>3, <2>4
<1>4. QED
  BY <1>1, <1>2, <1>3 DEF Reader

\* The steps of a worker.
LEMMA WorkerTypedControl ==
    ASSUME NEW w \in Workers, TypedControl, Worker(w)
    PROVE  TypedControl'
<1> USE DispatchAssumption DEF TypedControl, TypeOK, MainStates, WorkerStates, WriterStates,
        mainVars, writerVars
<1>1. CASE LockReceiver(w)
  BY <1>1 DEF LockReceiver, ControlInv, InputClosed, ResponsesClosed
<1>2. CASE Receive(w)
  <2>1. Head(reqQ) \in Requests /\ Tail(reqQ) \in Seq(Requests) /\ Len(Tail(reqQ)) = Len(reqQ) - 1
    BY <1>2 DEF Receive
  <2>2. TypeOK'
    BY <1>2, <2>1 DEF Receive
  <2>3. ControlInv'
    BY <1>2, <2>1 DEF Receive, ControlInv, InputClosed, ResponsesClosed
  <2>4. QED
    BY <2>2, <2>3
<1>3. CASE ReceiveClosed(w)
  BY <1>3 DEF ReceiveClosed, ControlInv, InputClosed, ResponsesClosed
<1>4. CASE Handle(w)
  BY <1>4 DEF Handle, ControlInv, InputClosed, ResponsesClosed
<1>5. CASE SendResponse(w)
  <2>1. job[w] \in Requests
    BY <1>5 DEF SendResponse, ControlInv
  <2>2. respQ' \in Seq(Requests) /\ Len(respQ') = Len(respQ) + 1
    BY <1>5, <2>1 DEF SendResponse
  <2>3. TypeOK'
    BY <1>5, <2>2 DEF SendResponse
  <2>4. ControlInv'
    BY <1>5, <2>2 DEF SendResponse, ControlInv, InputClosed, ResponsesClosed
  <2>5. QED
    BY <2>3, <2>4
<1>6. CASE SendResponseFails(w)
  BY <1>6 DEF SendResponseFails, ControlInv, InputClosed, ResponsesClosed
<1>7. QED
  BY <1>1, <1>2, <1>3, <1>4, <1>5, <1>6 DEF Worker

\* The steps of the writer.
LEMMA WriterTypedControl ==
    TypedControl /\ Writer => TypedControl'
<1> USE DispatchAssumption DEF TypedControl, TypeOK, MainStates, WorkerStates, WriterStates,
        mainVars, workerVars
<1>1. ASSUME TypedControl, ReceiveResponse
      PROVE  TypedControl'
  <2>1. Head(respQ) \in Requests /\ Tail(respQ) \in Seq(Requests) /\ Len(Tail(respQ)) = Len(respQ) - 1
    BY <1>1 DEF ReceiveResponse
  <2>2. TypeOK'
    BY <1>1, <2>1 DEF ReceiveResponse
  <2>3. ControlInv'
    BY <1>1, <2>1 DEF ReceiveResponse, ControlInv, InputClosed, ResponsesClosed
  <2>4. QED
    BY <2>2, <2>3
<1>2. ASSUME TypedControl, WriteBody
      PROVE  TypedControl'
  <2>1. body \in Requests
    BY <1>2 DEF WriteBody, ControlInv
  <2>2. stdout' \in Seq(Requests)
    BY <1>2, <2>1 DEF WriteBody
  <2>3. QED
    BY <1>2, <2>2 DEF WriteBody, ControlInv, InputClosed, ResponsesClosed
<1>3. ASSUME TypedControl, WriteFails
      PROVE  TypedControl'
  BY <1>3 DEF WriteFails, ControlInv, InputClosed, ResponsesClosed
<1>4. ASSUME TypedControl, FlushFails
      PROVE  TypedControl'
  BY <1>4 DEF FlushFails, ControlInv, InputClosed, ResponsesClosed
<1>5. ASSUME TypedControl, WriterCloses
      PROVE  TypedControl'
  BY <1>5 DEF WriterCloses, ControlInv, InputClosed, ResponsesClosed
<1>6. QED
  BY <1>1, <1>2, <1>3, <1>4, <1>5 DEF Writer

\* The steps that end the process.
LEMMA ShutdownTypedControl ==
    TypedControl /\ Shutdown => TypedControl'
<1> USE DEF TypedControl, TypeOK, MainStates, WorkerStates, WriterStates, ControlInv,
        InputClosed, ResponsesClosed, mainVars, workerVars, writerVars
<1>1. ASSUME TypedControl, CleanupStops
      PROVE  TypedControl'
  BY <1>1 DEF CleanupStops
<1>2. ASSUME TypedControl, JoinWorkers
      PROVE  TypedControl'
  BY <1>2 DEF JoinWorkers
<1>3. ASSUME TypedControl, JoinWriter
      PROVE  TypedControl'
  BY <1>3 DEF JoinWriter
<1>4. ASSUME TypedControl, JoinCleanup
      PROVE  TypedControl'
  BY <1>4 DEF JoinCleanup
<1>5. QED
  BY <1>1, <1>2, <1>3, <1>4 DEF Shutdown

LEMMA TypedControlStep ==
    TypedControl /\ [Next]_vars => TypedControl'
<1>1. TypedControl /\ UNCHANGED vars => TypedControl'
  BY DEF TypedControl, TypeOK, ControlInv, InputClosed, ResponsesClosed, vars
<1>2. QED
  BY <1>1, ReaderTypedControl, WorkerTypedControl, WriterTypedControl, ShutdownTypedControl DEF Next

\* Every variable of the dispatcher keeps its type.
THEOREM TypeCorrect == Spec => []TypeOK
<1>1. Spec => []TypedControl
  BY InitTypedControl, TypedControlStep, PTL DEF Spec
<1>2. TypedControl => TypeOK
  BY DEF TypedControl
<1>3. QED
  BY <1>1, <1>2, PTL

\* Tasks end in order: no worker before stdin ended, no writer before the
\* workers, unless stdout failed; run() is past a join only afterwards.
THEOREM ControlCorrect == Spec => []ControlInv
<1>1. Spec => []TypedControl
  BY InitTypedControl, TypedControlStep, PTL DEF Spec
<1>2. TypedControl => ControlInv
  BY DEF TypedControl
<1>3. QED
  BY <1>1, <1>2, PTL

-----------------------------------------------------------------------------
(* Every accepted request is in exactly one stage.                         *)

StagesApart ==
    /\ Reading \cap (Queued \cup Handling \cup Replying \cup Writing \cup Written) = {}
    /\ Queued \cap (Handling \cup Replying \cup Writing \cup Written) = {}
    /\ Handling \cap (Replying \cup Writing \cup Written) = {}
    /\ Replying \cap (Writing \cup Written) = {}
    /\ Writing \cap Written = {}

OneEach ==
    /\ NoRepeats(reqQ) /\ NoRepeats(respQ) /\ NoRepeats(stdout)
    /\ \A v, w \in Workers : job[v] = job[w] /\ job[v] # None => v = w

Accounted ==
    /\ Held \subseteq accepted
    /\ ~stdoutFailed => accepted \subseteq Held

\* ExactlyOnce with its disjointness spelled out, the form that is proved.
Placed == OneEach /\ StagesApart /\ Accounted

LEMMA PlacedIsExactlyOnce == Placed => ExactlyOnce
<1>1. /\ Stage[1] = Reading /\ Stage[2] = Queued /\ Stage[3] = Handling
      /\ Stage[4] = Replying /\ Stage[5] = Writing /\ Stage[6] = Written
  BY DEF Stage
<1>2. 1 .. 6 = {1, 2, 3, 4, 5, 6}
  OBVIOUS
<1>3. StagesApart => \A i, j \in 1 .. 6 : i # j => Stage[i] \cap Stage[j] = {}
  BY <1>1, <1>2 DEF StagesApart
<1>4. QED
  BY <1>3 DEF Placed, OneEach, Accounted, ExactlyOnce

LEMMA InitPlaced == Init => Placed
<1>1. ASSUME Init
      PROVE  Held = {} /\ OneEach /\ accepted = {}
  BY <1>1 DEF Init, Held, Reading, Queued, Handling, Replying, Writing, Written, Elements,
      OneEach, NoRepeats
<1>2. QED
  BY <1>1 DEF Placed, StagesApart, Accounted, Held

\* The reader moves a fresh line into Reading, then into the request channel.
LEMMA ReaderPlaced ==
    TypedControl /\ Placed /\ Reader => Placed'
<1> USE DEF Placed
<1>1. ASSUME TypedControl, Placed, NEW r \in Requests, ReadLine(r)
      PROVE  Placed'
  <2>1. /\ Queued' = Queued /\ Handling' = Handling /\ Replying' = Replying
        /\ Writing' = Writing /\ Written' = Written
    BY <1>1 DEF ReadLine, Queued, Handling, Replying, Writing, Written, workerVars, writerVars
  <2>2. Reading = {} /\ Reading' = {r}
    BY <1>1, DispatchAssumption DEF ReadLine, TypedControl, ControlInv, Reading
  <2>3. r \notin accepted /\ accepted' = accepted \cup {r} /\ stdoutFailed' = stdoutFailed
    BY <1>1 DEF ReadLine, writerVars
  <2>4. OneEach'
    BY <1>1 DEF OneEach, ReadLine, workerVars, writerVars
  <2>5. StagesApart'
    BY <1>1, <2>1, <2>2, <2>3 DEF StagesApart, Accounted, Held
  <2>6. Accounted'
    BY <1>1, <2>1, <2>2, <2>3 DEF Accounted, Held
  <2>7. QED
    BY <2>4, <2>5, <2>6
<1>2. ASSUME Placed, StdinEnds
      PROVE  Placed'
  BY <1>2 DEF StdinEnds, workerVars, writerVars, OneEach, StagesApart, Accounted, Held,
      Reading, Queued, Handling, Replying, Writing, Written
<1>3. ASSUME TypedControl, Placed, SendRequest
      PROVE  Placed'
  <2>1. line \in Requests /\ line # None
    BY <1>3 DEF SendRequest, TypedControl, TypeOK, ControlInv
  <2>2. /\ Handling' = Handling /\ Replying' = Replying /\ Writing' = Writing
        /\ Written' = Written /\ accepted' = accepted /\ stdoutFailed' = stdoutFailed
    BY <1>3 DEF SendRequest, Handling, Replying, Writing, Written, workerVars, writerVars
  <2>3. Reading = {line} /\ Reading' = {}
    BY <1>3, <2>1 DEF SendRequest, Reading
  <2>4. line \notin Elements(reqQ)
    BY <1>3, <2>3 DEF StagesApart, Queued
  <2>5. Queued' = Queued \cup {line} /\ NoRepeats(reqQ')
    BY <1>3, <2>1, <2>4, AppendElements
    DEF SendRequest, TypedControl, TypeOK, OneEach, Queued
  <2>6. OneEach'
    BY <1>3, <2>5 DEF OneEach, SendRequest, workerVars, writerVars
  <2>7. StagesApart'
    BY <1>3, <2>2, <2>3, <2>5 DEF StagesApart
  <2>8. Accounted'
    BY <1>3, <2>2, <2>3, <2>5 DEF Accounted, Held
  <2>9. QED
    BY <2>6, <2>7, <2>8
<1>4. QED
  BY <1>1, <1>2, <1>3 DEF Reader

\* A worker moves a request out of the channel, and its response into the other.
LEMMA WorkerPlaced ==
    ASSUME NEW w \in Workers, TypedControl, Placed, Worker(w)
    PROVE  Placed'
<1> USE DEF Placed
<1>1. CASE LockReceiver(w) \/ ReceiveClosed(w) \/ Handle(w)
  <2>1. /\ accepted' = accepted /\ line' = line /\ reqQ' = reqQ /\ job' = job
        /\ respQ' = respQ /\ body' = body /\ stdout' = stdout /\ stdoutFailed' = stdoutFailed
    BY <1>1 DEF LockReceiver, ReceiveClosed, Handle, mainVars, writerVars
  <2>2. QED
    BY <2>1 DEF OneEach, StagesApart, Accounted, Held,
        Reading, Queued, Handling, Replying, Writing, Written
<1>2. CASE Receive(w)
  <2>1. /\ Reading' = Reading /\ Replying' = Replying /\ Writing' = Writing
        /\ Written' = Written /\ accepted' = accepted /\ stdoutFailed' = stdoutFailed
    BY <1>2 DEF Receive, Reading, Replying, Writing, Written, mainVars, writerVars
  <2>2. /\ Head(reqQ) \in Queued
        /\ Queued' = Queued \ {Head(reqQ)}
        /\ NoRepeats(reqQ')
    BY <1>2, TailElements DEF Receive, TypedControl, TypeOK, OneEach, Queued
  <2>3. Head(reqQ) \in Requests /\ Head(reqQ) # None
    BY <1>2, DispatchAssumption DEF Receive, TypedControl, TypeOK
  <2>4. job[w] = None
    BY <1>2 DEF Receive, TypedControl, ControlInv
  <2>5. job' = [job EXCEPT ![w] = Head(reqQ)] /\ job \in [Workers -> Requests \cup {None}]
    BY <1>2 DEF Receive, TypedControl, TypeOK
  <2>6. Handling' = Handling \cup {Head(reqQ)}
    BY <2>3, <2>4, <2>5 DEF Handling
  <2>7. \A v \in Workers : job[v] # Head(reqQ)
    BY <2>2, <2>3 DEF StagesApart, Handling
  <2>8. OneEach'
    BY <1>2, <2>2, <2>5, <2>7 DEF OneEach, Receive, writerVars
  <2>9. StagesApart'
    BY <2>1, <2>2, <2>6 DEF StagesApart
  <2>10. Accounted'
    BY <2>1, <2>2, <2>6 DEF Accounted, Held
  <2>11. QED
    BY <2>8, <2>9, <2>10
<1>3. CASE SendResponse(w)
  <2>1. /\ Reading' = Reading /\ Queued' = Queued /\ Writing' = Writing
        /\ Written' = Written /\ accepted' = accepted /\ stdoutFailed' = stdoutFailed
    BY <1>3 DEF SendResponse, Reading, Queued, Writing, Written, mainVars, writerVars
  <2>2. job[w] \in Requests /\ job[w] # None /\ job[w] \in Handling
    BY <1>3 DEF SendResponse, TypedControl, TypeOK, ControlInv, Handling
  <2>3. job[w] \notin Elements(respQ)
    BY <2>2 DEF StagesApart, Replying
  <2>4. Replying' = Replying \cup {job[w]} /\ NoRepeats(respQ')
    BY <1>3, <2>2, <2>3, AppendElements
    DEF SendResponse, TypedControl, TypeOK, OneEach, Replying
  <2>5. job' = [job EXCEPT ![w] = None] /\ job \in [Workers -> Requests \cup {None}]
    BY <1>3 DEF SendResponse, TypedControl, TypeOK
  <2>6. Handling' = Handling \ {job[w]}
    BY <2>2, <2>5 DEF Handling, OneEach
  <2>7. OneEach'
    BY <1>3, <2>4, <2>5 DEF OneEach, SendResponse, mainVars, writerVars
  <2>8. StagesApart'
    BY <2>1, <2>2, <2>4, <2>6 DEF StagesApart
  <2>9. Accounted'
    BY <2>1, <2>2, <2>4, <2>6 DEF Accounted, Held
  <2>10. QED
    BY <2>7, <2>8, <2>9
<1>4. CASE SendResponseFails(w)
  <2>1. /\ Reading' = Reading /\ Queued' = Queued /\ Replying' = Replying /\ Writing' = Writing
        /\ Written' = Written /\ accepted' = accepted /\ stdoutFailed' = stdoutFailed
    BY <1>4 DEF SendResponseFails, Reading, Queued, Replying, Writing, Written, mainVars, writerVars
  <2>2. job' = [job EXCEPT ![w] = None] /\ job \in [Workers -> Requests \cup {None}]
    BY <1>4 DEF SendResponseFails, TypedControl, TypeOK
  <2>3. Handling' \subseteq Handling
    BY <2>2 DEF Handling
  <2>4. stdoutFailed
    BY <1>4 DEF SendResponseFails, TypedControl, ControlInv, ResponsesClosed
  <2>5. OneEach'
    BY <1>4, <2>2 DEF OneEach, SendResponseFails, mainVars, writerVars
  <2>6. StagesApart'
    BY <2>1, <2>3 DEF StagesApart
  <2>7. Accounted'
    BY <2>1, <2>3, <2>4 DEF Accounted, Held
  <2>8. QED
    BY <2>5, <2>6, <2>7
<1>5. QED
  BY <1>1, <1>2, <1>3, <1>4 DEF Worker

\* The writer moves a response to stdout; it loses one only when stdout fails.
LEMMA WriterPlaced ==
    TypedControl /\ Placed /\ Writer => Placed'
<1> USE DEF Placed
<1>1. ASSUME TypedControl, Placed, ReceiveResponse
      PROVE  Placed'
  <2>1. /\ Reading' = Reading /\ Queued' = Queued /\ Handling' = Handling
        /\ Written' = Written /\ accepted' = accepted /\ stdoutFailed' = stdoutFailed
    BY <1>1 DEF ReceiveResponse, Reading, Queued, Handling, Written, mainVars, workerVars
  <2>2. /\ Head(respQ) \in Replying
        /\ Replying' = Replying \ {Head(respQ)}
        /\ NoRepeats(respQ')
    BY <1>1, TailElements DEF ReceiveResponse, TypedControl, TypeOK, OneEach, Replying
  <2>3. Head(respQ) \in Requests /\ Head(respQ) # None
    BY <1>1, DispatchAssumption DEF ReceiveResponse, TypedControl, TypeOK
  <2>4. Writing = {} /\ Writing' = {Head(respQ)}
    BY <1>1, <2>3 DEF ReceiveResponse, TypedControl, ControlInv, Writing
  <2>5. OneEach'
    BY <1>1, <2>2 DEF OneEach, ReceiveResponse, mainVars, workerVars
  <2>6. StagesApart'
    BY <1>1, <2>1, <2>2, <2>4 DEF StagesApart
  <2>7. Accounted'
    BY <1>1, <2>1, <2>2, <2>4 DEF Accounted, Held
  <2>8. QED
    BY <2>5, <2>6, <2>7
<1>2. ASSUME TypedControl, Placed, WriteBody
      PROVE  Placed'
  <2>1. /\ Reading' = Reading /\ Queued' = Queued /\ Handling' = Handling
        /\ Replying' = Replying /\ accepted' = accepted /\ stdoutFailed' = stdoutFailed
    BY <1>2 DEF WriteBody, Reading, Queued, Handling, Replying, mainVars, workerVars
  <2>2. body \in Requests /\ Writing = {body} /\ Writing' = {}
    BY <1>2 DEF WriteBody, TypedControl, TypeOK, ControlInv, Writing
  <2>3. body \notin Elements(stdout)
    BY <1>2, <2>2 DEF StagesApart, Written
  <2>4. Written' = Written \cup {body} /\ NoRepeats(stdout')
    BY <1>2, <2>2, <2>3, AppendElements DEF WriteBody, TypedControl, TypeOK, OneEach, Written
  <2>5. OneEach'
    BY <1>2, <2>4 DEF OneEach, WriteBody, mainVars, workerVars
  <2>6. StagesApart'
    BY <1>2, <2>1, <2>2, <2>4 DEF StagesApart
  <2>7. Accounted'
    BY <1>2, <2>1, <2>2, <2>4 DEF Accounted, Held
  <2>8. QED
    BY <2>5, <2>6, <2>7
<1>3. ASSUME Placed, WriteFails \/ FlushFails
      PROVE  Placed'
  <2>1. /\ Reading' = Reading /\ Queued' = Queued /\ Handling' = Handling
        /\ Written' = Written /\ accepted' = accepted /\ stdoutFailed' = TRUE
    BY <1>3 DEF WriteFails, FlushFails, Reading, Queued, Handling, Written, mainVars, workerVars
  <2>2. Replying' \subseteq Replying /\ NoRepeats(respQ')
    BY <1>3 DEF WriteFails, FlushFails, Replying, Elements, NoRepeats, OneEach
  <2>3. Writing' = {}
    BY <1>3 DEF WriteFails, FlushFails, Writing
  <2>4. OneEach'
    BY <1>3, <2>2 DEF OneEach, WriteFails, FlushFails, mainVars, workerVars
  <2>5. StagesApart'
    BY <1>3, <2>1, <2>2, <2>3 DEF StagesApart
  <2>6. Accounted'
    BY <1>3, <2>1, <2>2, <2>3 DEF Accounted, Held
  <2>7. QED
    BY <2>4, <2>5, <2>6
<1>4. ASSUME Placed, WriterCloses
      PROVE  Placed'
  BY <1>4 DEF WriterCloses, mainVars, workerVars, OneEach, StagesApart, Accounted, Held,
      Reading, Queued, Handling, Replying, Writing, Written
<1>5. QED
  BY <1>1, <1>2, <1>3, <1>4 DEF Writer

\* The joins move nothing.
LEMMA ShutdownPlaced ==
    Placed /\ (Shutdown \/ UNCHANGED vars) => Placed'
<1>1. Shutdown \/ UNCHANGED vars =>
        /\ accepted' = accepted /\ line' = line /\ reqQ' = reqQ /\ job' = job
        /\ respQ' = respQ /\ body' = body /\ stdout' = stdout /\ stdoutFailed' = stdoutFailed
  BY DEF Shutdown, CleanupStops, JoinWorkers, JoinWriter, JoinCleanup,
      mainVars, workerVars, writerVars, vars
<1>2. QED
  BY <1>1 DEF Placed, OneEach, StagesApart, Accounted, Held,
      Reading, Queued, Handling, Replying, Writing, Written

\* The inductive invariant: types and control state are needed to know that a
\* stage is empty before a request enters it.
DispatchInv == TypedControl /\ Placed

LEMMA DispatchInvariant == Spec => []DispatchInv
<1>1. Init => DispatchInv
  BY InitTypedControl, InitPlaced DEF DispatchInv
<1>2. DispatchInv /\ [Next]_vars => DispatchInv'
  BY TypedControlStep, ReaderPlaced, WorkerPlaced, WriterPlaced, ShutdownPlaced
  DEF DispatchInv, Next
<1>3. QED
  BY <1>1, <1>2, PTL DEF Spec

\* A request that was read is in exactly one place between stdin and stdout.
THEOREM RequestsExactlyOnce == Spec => []ExactlyOnce
<1>1. DispatchInv => ExactlyOnce
  BY PlacedIsExactlyOnce DEF DispatchInv
<1>2. QED
  BY <1>1, DispatchInvariant, PTL

-----------------------------------------------------------------------------
(* What follows from the inductive invariant.                              *)

\* When run() has returned and stdout never failed, nothing is left inside.
LEMMA ExitIsDrained == DispatchInv => DrainedBeforeExit
<1>1. SUFFICES ASSUME DispatchInv, main = "exited", ~stdoutFailed
               PROVE  Written = accepted
  BY DEF DrainedBeforeExit
<1> USE DEF DispatchInv, TypedControl, ControlInv, ResponsesClosed
<1>2. Reading = {}
  BY <1>1 DEF Reading
<1>3. Queued = {}
  <2>1. PICK w \in Workers : phase[w] = "done"
    BY <1>1, DispatchAssumption
  <2>2. reqQ = <<>>
    BY <1>1, <2>1
  <2>3. QED
    BY <2>2 DEF Queued, Elements
<1>4. Handling = {}
  BY <1>1 DEF Handling
<1>5. Replying = {}
  BY <1>1 DEF Replying, Elements
<1>6. Writing = {}
  BY <1>1 DEF Writing
<1>7. QED
  BY <1>1, <1>2, <1>3, <1>4, <1>5, <1>6 DEF Placed, Accounted, Held

\* run() drains both channels before the process ends.
THEOREM DrainsBeforeExit == Spec => []DrainedBeforeExit
BY ExitIsDrained, DispatchInvariant, PTL

\* A set with at most one element.
LEMMA AtMostOne ==
    ASSUME NEW x, NEW y
    PROVE  Cardinality({x} \ {y}) \in {0, 1}
<1>1. CASE x = y
  BY <1>1, FS_EmptySet
<1>2. CASE x # y
  <2>1. {x} \ {y} = {x}
    BY <1>2
  <2>2. QED
    BY <2>1, FS_Singleton
<1>3. QED
  BY <1>1, <1>2

\* The two channels, one payload per worker, one for the reader, one for the
\* writer: 134 with the constants of main.rs.
THEOREM PayloadsBounded == Spec => []PayloadBound
<1>1. ASSUME TypedControl
      PROVE  PayloadBound
  <2>1. Cardinality(Reading) \in {0, 1} /\ Cardinality(Writing) \in {0, 1}
    BY AtMostOne DEF Reading, Writing
  <2>2. /\ Cardinality({w \in Workers : job[w] # None}) \in Nat
        /\ Cardinality(Workers) \in Nat
        /\ Cardinality({w \in Workers : job[w] # None}) <= Cardinality(Workers)
    BY DispatchAssumption, FS_Subset, FS_CardinalityType
  <2>3. /\ Len(reqQ) \in Nat /\ Len(respQ) \in Nat
        /\ Len(reqQ) <= ReqCap /\ Len(respQ) <= RespCap
    BY <1>1 DEF TypedControl, TypeOK, ControlInv
  <2>4. QED
    BY <2>1, <2>2, <2>3, DispatchAssumption DEF PayloadBound
<1>2. DispatchInv => PayloadBound
  BY <1>1 DEF DispatchInv
<1>3. QED
  BY <1>2, DispatchInvariant, PTL
-----------------------------------------------------------------------------
(* The dispatcher implements RequestService.                               *)

LEMMA InitImplements == Init => Service!Init
BY DEF Init, Service!Init, Written, Elements, InputClosed

LEMMA ReaderImplements ==
    DispatchInv /\ Reader => Service!Next \/ UNCHANGED Service!vars
<1>1. ASSUME NEW r \in Requests, ReadLine(r)
      PROVE  Service!Accept(r)
  BY <1>1 DEF ReadLine, Service!Accept, Written, InputClosed, workerVars, writerVars
<1>2. ASSUME StdinEnds
      PROVE  Service!EndOfInput
  BY <1>2 DEF StdinEnds, Service!EndOfInput, Written, InputClosed, workerVars, writerVars
<1>3. ASSUME SendRequest
      PROVE  UNCHANGED Service!vars
  BY <1>3 DEF SendRequest, Service!vars, Written, InputClosed, workerVars, writerVars
<1>4. QED
  BY <1>1, <1>2, <1>3 DEF Reader, Service!Next

LEMMA WorkerImplements ==
    ASSUME NEW w \in Workers, Worker(w)
    PROVE  UNCHANGED Service!vars
BY DEF Worker, LockReceiver, Receive, ReceiveClosed, Handle, SendResponse, SendResponseFails,
    Service!vars, Written, InputClosed, mainVars, writerVars

LEMMA WriterImplements ==
    DispatchInv /\ Writer => Service!Next \/ UNCHANGED Service!vars
<1>1. ASSUME DispatchInv, WriteBody
      PROVE  Service!Next
  <2>1. body \in Requests /\ Writing = {body}
    BY <1>1 DEF DispatchInv, TypedControl, TypeOK, ControlInv, WriteBody, Writing
  <2>2. Written' = Written \cup {body}
    BY <1>1, <2>1, AppendElements DEF WriteBody, DispatchInv, TypedControl, TypeOK, Written
  <2>3. body \in accepted \ Written
    BY <1>1, <2>1 DEF DispatchInv, Placed, StagesApart, Accounted, Held
  <2>4. main # "exited"
    BY <1>1 DEF DispatchInv, TypedControl, ControlInv, WriteBody
  <2>5. Service!Answer(body)
    BY <1>1, <2>2, <2>3, <2>4 DEF Service!Answer, WriteBody, InputClosed, mainVars
  <2>6. QED
    BY <2>1, <2>5 DEF Service!Next
<1>2. ASSUME DispatchInv, WriteFails \/ FlushFails
      PROVE  Service!Next \/ UNCHANGED Service!vars
  <2>1. Written' = Written /\ UNCHANGED mainVars /\ stdoutFailed' = TRUE
    BY <1>2 DEF WriteFails, FlushFails, Written
  <2>2. main # "exited"
    BY <1>2 DEF DispatchInv, TypedControl, ControlInv, WriteFails, FlushFails
  <2>3. CASE ~stdoutFailed
    BY <2>1, <2>2, <2>3 DEF Service!Next, Service!Break, InputClosed, mainVars
  <2>4. CASE stdoutFailed
    <3>1. stdoutFailed' = stdoutFailed
      BY <1>2, <2>1, <2>4 DEF DispatchInv, TypedControl, TypeOK
    <3>2. QED
      BY <2>1, <3>1 DEF Service!vars, InputClosed, mainVars
  <2>5. QED
    BY <2>3, <2>4
<1>3. ASSUME ReceiveResponse \/ WriterCloses
      PROVE  UNCHANGED Service!vars
  BY <1>3 DEF ReceiveResponse, WriterCloses, Service!vars, Written, InputClosed, mainVars
<1>4. QED
  BY <1>1, <1>2, <1>3 DEF Writer

LEMMA ShutdownImplements ==
    DispatchInv /\ DispatchInv' /\ Shutdown => Service!Next \/ UNCHANGED Service!vars
<1>1. ASSUME CleanupStops \/ JoinWorkers \/ JoinWriter
      PROVE  UNCHANGED Service!vars
  BY <1>1 DEF CleanupStops, JoinWorkers, JoinWriter, Service!vars, Written, InputClosed,
      mainVars, workerVars, writerVars
<1>2. ASSUME DispatchInv, DispatchInv', JoinCleanup
      PROVE  Service!Exit
  <2>1. /\ accepted' = accepted /\ Written' = Written /\ stdoutFailed' = stdoutFailed
        /\ main = "joinCleanup" /\ main' = "exited"
    BY <1>2 DEF JoinCleanup, Written, writerVars
  <2>2. DrainedBeforeExit'
    BY <1>2, ExitIsDrained, PTL
  <2>3. stdoutFailed \/ Written = accepted
    BY <2>1, <2>2 DEF DrainedBeforeExit
  <2>4. QED
    BY <2>1, <2>3 DEF Service!Exit, InputClosed
<1>3. QED
  BY <1>1, <1>2 DEF Shutdown, Service!Next

\* Every step of the dispatcher is a step of the service or invisible to the
\* host: each request is answered once, and the process ends with none owed.
THEOREM DispatchImplementsService == Spec => ImplementsService
<1>1. DispatchInv /\ DispatchInv' /\ [Next]_vars => [Service!Next]_(Service!vars)
  <2>1. UNCHANGED vars => UNCHANGED Service!vars
    BY DEF vars, Service!vars, Written, InputClosed
  <2>2. QED
    BY <2>1, ReaderImplements, WorkerImplements, WriterImplements, ShutdownImplements DEF Next
<1>2. QED
  BY <1>1, InitImplements, DispatchInvariant, PTL DEF Spec, ImplementsService, Service!Spec

=============================================================================
