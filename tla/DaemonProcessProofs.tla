------------------------ MODULE DaemonProcessProofs ------------------------
(***************************************************************************)
(* Proofs about DaemonProcess, for a pool of any size.                     *)
(***************************************************************************)
EXTENDS DaemonProcess, TLAPS

Early == {"parse", "lookup", "store", "local", "remote", "connect"}

\* Nobody waits for the operation, and no thread is in its handler.
NotStarted(op) ==
    /\ op \notin armed \cup ready
    /\ \A t \in Threads : Operation(t) # op

\* An operation is in one place at a time: armed, ready, or with one thread.
OnePlace ==
    /\ armed \cap ready = {}
    /\ \A t \in Threads : Operation(t) \notin armed \cup ready
    /\ \A t, u \in Threads :
          Operation(t) \in Operations /\ Operation(t) = Operation(u) => t = u

\* main() starts an operation that is not under way.
StartedOnce ==
    /\ pc \in Early => \A op \in Operations : NotStarted(op)
    /\ pc \in {"bus", "expose"} => program = "daemon" /\ NotStarted("store")
    /\ pc = "shell" => program = "helper" /\ NotStarted("shell")

\* Mir is tried while there are attempts left.
AttemptsOK == pc \in {"parse", "lookup", "store", "local"} => attempts \in 1..5

\* The Token's thread is there between the start of a daemon and the end of
\* its main().
TokenOK ==
    /\ pc \in StartUp \/ program = "helper" => thread[TokenThread] = "none"
    /\ pc \in {"exit", "joining"} => thread[TokenThread] \in {"none", "ended"}
    /\ pc = "unexpose" => program = "daemon"

\* A status is known when main() has returned, and a daemon that succeeds has
\* stopped the io_service before.
StatusOK ==
    /\ pc \notin {"exit", "joining", "end"} => status = Null
    /\ pc = "unexpose" \/ (program = "daemon" /\ status = "success") => runtime = "stopped"

IInv == TypeOK /\ OnePlace /\ StartedOnce /\ AttemptsOK /\ TokenOK /\ StatusOK

-----------------------------------------------------------------------------
\* A process begins with the inductive invariant.
LEMMA InitOK == Init => IInv
BY ProcessAssumption
   DEF Init, IInv, TypeOK, OnePlace, StartedOnce, NotStarted, AttemptsOK, TokenOK, StatusOK,
       Operation, Operations, StartUp, Early, Threads

\* Where nothing changes about the operations, they stay in one place.
LEMMA SamePlace ==
    ASSUME OnePlace, UNCHANGED <<program, thread, armed, ready>>
    PROVE  /\ OnePlace'
           /\ \A op : NotStarted(op) => NotStarted(op)'
BY DEF OnePlace, NotStarted, Operation, Asker

\* The steps of main() up to the agents: they go on or leave with a failure.
LEMMA StartOK ==
    ASSUME IInv,
           ParseOptions \/ LookUpFactories \/ CreateStore \/ CreateLocalAgent \/ ConnectToMir
    PROVE  IInv'
<1>1. /\ pc \in {"parse", "lookup", "store", "local"}
      /\ pc' \in {"lookup", "store", "local", "remote", "exit", "end"}
      /\ UNCHANGED <<program, options, signal, runtime, thread, armed, ready>>
  BY DEF ParseOptions, LookUpFactories, CreateStore, CreateLocalAgent, ConnectToMir,
         Goto, Throw, Terminate, operations
<1>2. /\ pc' = "exit" => status' = "failure"
      /\ pc' = "end" => status' = "aborted"
      /\ pc' \notin {"exit", "end"} => status' = status
  BY DEF ParseOptions, LookUpFactories, CreateStore, CreateLocalAgent, ConnectToMir,
         Goto, Throw, Terminate
<1>3. attempts' \in 0..5 /\ (pc' \in {"lookup", "store", "local"} => attempts' \in 1..5)
  BY DEF IInv, TypeOK, AttemptsOK, ParseOptions, LookUpFactories, CreateStore,
         CreateLocalAgent, ConnectToMir, Goto, Throw, Terminate
<1>4. TypeOK'
  BY <1>1, <1>2, <1>3 DEF IInv, TypeOK, StartUp
<1>5. OnePlace' /\ \A op : NotStarted(op) => NotStarted(op)'
  BY <1>1, SamePlace DEF IInv
<1>6. StartedOnce'
  BY <1>1, <1>5 DEF IInv, StartedOnce, Early
<1>7. AttemptsOK'
  BY <1>1, <1>3 DEF AttemptsOK
<1>8. TokenOK'
  BY <1>1 DEF IInv, TokenOK, StartUp
<1>9. StatusOK'
  BY ProcessAssumption, <1>1, <1>2 DEF IInv, StatusOK
<1> QED
  BY <1>4, <1>5, <1>6, <1>7, <1>8, <1>9 DEF IInv

\* An operation that no thread has any more is armed, while the threads take up
\* no other.
LEMMA ArmOK ==
    ASSUME OnePlace, armed \subseteq Operations, ready \subseteq Operations,
           NEW op \in Operations, op \notin armed \cup ready,
           armed' = armed \cup {op}, ready' = ready,
           \A t \in Threads : Operation(t)' \in Operations =>
               Operation(t)' = Operation(t) /\ Operation(t) # op
    PROVE  OnePlace'
<1>1. (armed \cap ready)' = {}
  BY DEF OnePlace
<1>2. ASSUME NEW t \in Threads
      PROVE  Operation(t)' \notin armed' \cup ready'
  <2>1. CASE Operation(t)' \in Operations
    BY <2>1 DEF OnePlace
  <2>2. CASE Operation(t)' \notin Operations
    BY <2>2
  <2> QED
    BY <2>1, <2>2
<1>3. ASSUME NEW t \in Threads, NEW u \in Threads,
             Operation(t)' \in Operations, Operation(t)' = Operation(u)'
      PROVE  t = u
  BY <1>3 DEF OnePlace
<1> QED
  BY <1>1, <1>2, <1>3 DEF OnePlace

-----------------------------------------------------------------------------
(* The other steps, one lemma each.                                        *)

\* SetUpRemoteAgent keeps it: the workers that are started are at rest.
LEMMA SetUpOK ==
    ASSUME IInv, SetUpRemoteAgent
    PROVE  IInv'
<1>1. TypeOK'
  BY DEF IInv, TypeOK, StartUp, SetUpRemoteAgent, ConstructRuntime, Goto, Throw,
         Terminate, operations
<1>2. OnePlace'
  BY DEF IInv, TypeOK, OnePlace, Operation, Asker, Operations, SetUpRemoteAgent,
         ConstructRuntime, operations
<1>3. StartedOnce'
  BY DEF IInv, StartedOnce, NotStarted, Early, Operation, Asker, Operations,
         SetUpRemoteAgent, ConstructRuntime, Goto, Throw, Terminate, operations
<1>4. AttemptsOK'
  BY DEF IInv, AttemptsOK, SetUpRemoteAgent, Goto, Throw, Terminate
<1>5. TokenOK'
  BY ProcessAssumption DEF IInv, TokenOK, StartUp, Threads, SetUpRemoteAgent,
                           ConstructRuntime, Goto, Throw, Terminate
<1>6. StatusOK'
  BY ProcessAssumption DEF IInv, StatusOK, SetUpRemoteAgent, Goto, Throw, Terminate
<1> QED
  BY <1>1, <1>2, <1>3, <1>4, <1>5, <1>6 DEF IInv

\* CreateRemoteAgent keeps it: its operation was not under way.
LEMMA CreateRemoteOK ==
    ASSUME IInv, CreateRemoteAgent
    PROVE  IInv'
<1>1. TypeOK'
  BY DEF IInv, TypeOK, StartUp, Operations, CreateRemoteAgent, Goto, Throw, Terminate
<1>2. OnePlace'
  <2>1. CASE armed' = armed \cup {"remote"}
    <3>1. "remote" \in Operations /\ NotStarted("remote")
      BY DEF IInv, StartedOnce, Early, Operations, CreateRemoteAgent
    <3>2. \A t \in Threads : Operation(t)' \in Operations => Operation(t)' = Operation(t)
      BY DEF CreateRemoteAgent, Operation, Asker
    <3> QED
      BY <2>1, <3>1, <3>2, ArmOK DEF IInv, TypeOK, NotStarted, CreateRemoteAgent
  <2>2. CASE UNCHANGED <<thread, armed>>
    BY <2>2, SamePlace DEF IInv, CreateRemoteAgent
  <2> QED
    BY <2>1, <2>2 DEF CreateRemoteAgent
<1>3. StartedOnce'
  BY DEF IInv, TypeOK, StartedOnce, NotStarted, Early, Operation, Asker, Operations,
         CreateRemoteAgent, Goto, Throw, Terminate
<1>4. AttemptsOK'
  BY DEF IInv, AttemptsOK, CreateRemoteAgent, Goto, Throw, Terminate
<1>5. TokenOK'
  BY DEF IInv, TokenOK, StartUp, CreateRemoteAgent, Goto, Throw, Terminate
<1>6. StatusOK'
  BY ProcessAssumption DEF IInv, StatusOK, CreateRemoteAgent, Goto, Throw, Terminate
<1> QED
  BY <1>1, <1>2, <1>3, <1>4, <1>5, <1>6 DEF IInv

\* ConnectStoreBus keeps it.
LEMMA StoreBusOK ==
    ASSUME IInv, ConnectStoreBus
    PROVE  IInv'
<1>1. TypeOK'
  BY DEF IInv, TypeOK, StartUp, ConnectStoreBus, ConstructRuntime, Goto, Throw, Terminate,
         operations
<1>2. OnePlace'
  BY DEF IInv, TypeOK, OnePlace, Operation, Asker, Operations, ConnectStoreBus,
         ConstructRuntime, operations
<1>3. StartedOnce'
  BY DEF IInv, StartedOnce, NotStarted, Early, Operation, Asker, ConnectStoreBus,
         ConstructRuntime, Goto, Throw, operations
<1>4. AttemptsOK'
  BY DEF IInv, AttemptsOK, ConnectStoreBus, Goto, Throw, Terminate
<1>5. TokenOK'
  BY ProcessAssumption DEF IInv, TokenOK, StartUp, Threads, ConnectStoreBus,
                           ConstructRuntime, Goto, Throw, Terminate
<1>6. StatusOK'
  BY ProcessAssumption DEF IInv, StatusOK, ConnectStoreBus, Goto, Throw, Terminate
<1> QED
  BY <1>1, <1>2, <1>3, <1>4, <1>5, <1>6 DEF IInv

\* ExposeStore keeps it: the Token's thread starts at rest.
LEMMA ExposeOK ==
    ASSUME IInv, ExposeStore
    PROVE  IInv'
<1>1. TypeOK'
  BY DEF IInv, TypeOK, Operations, ExposeStore, Goto, Terminate
<1>2. OnePlace'
  <2>1. CASE armed' = armed \cup {"store"}
    <3>1. "store" \in Operations /\ NotStarted("store")
      BY DEF IInv, StartedOnce, Operations, ExposeStore
    <3>2. \A t \in Threads : Operation(t)' \in Operations => Operation(t)' = Operation(t)
      BY DEF IInv, TypeOK, ExposeStore, Operation, Asker, Operations, Threads
    <3> QED
      BY <2>1, <3>1, <3>2, ArmOK DEF IInv, TypeOK, NotStarted, ExposeStore
  <2>2. CASE UNCHANGED <<thread, armed>>
    BY <2>2, SamePlace DEF IInv, ExposeStore
  <2> QED
    BY <2>1, <2>2 DEF ExposeStore
<1>3. StartedOnce'
  BY DEF IInv, StartedOnce, Early, ExposeStore, Goto, Terminate
<1>4. AttemptsOK'
  BY DEF IInv, AttemptsOK, ExposeStore, Goto, Terminate
<1>5. TokenOK'
  BY DEF IInv, TokenOK, StartedOnce, StartUp, ExposeStore, Goto
<1>6. StatusOK'
  BY ProcessAssumption DEF IInv, StatusOK, ExposeStore, Goto, Terminate
<1> QED
  BY <1>1, <1>2, <1>3, <1>4, <1>5, <1>6 DEF IInv

\* StartShell keeps it.
LEMMA ShellOK ==
    ASSUME IInv, StartShell
    PROVE  IInv'
<1>1. TypeOK'
  BY DEF IInv, TypeOK, Operations, StartShell, Goto, Terminate
<1>2. OnePlace'
  <2>1. CASE armed' = armed \cup {"shell"}
    <3>1. "shell" \in Operations /\ NotStarted("shell")
      BY DEF IInv, StartedOnce, Operations, StartShell
    <3>2. \A t \in Threads : Operation(t)' \in Operations => Operation(t)' = Operation(t)
      BY DEF StartShell, Operation, Asker
    <3> QED
      BY <2>1, <3>1, <3>2, ArmOK DEF IInv, TypeOK, NotStarted, StartShell
  <2>2. CASE UNCHANGED <<thread, armed>>
    BY <2>2, SamePlace DEF IInv, StartShell
  <2> QED
    BY <2>1, <2>2 DEF StartShell
<1>3. StartedOnce'
  BY DEF IInv, StartedOnce, Early, StartShell, Goto, Terminate
<1>4. AttemptsOK'
  BY DEF IInv, AttemptsOK, StartShell, Goto, Terminate
<1>5. TokenOK'
  BY DEF IInv, TokenOK, StartUp, StartShell, Goto, Terminate
<1>6. StatusOK'
  BY ProcessAssumption DEF IInv, StatusOK, StartShell, Goto, Terminate
<1> QED
  BY <1>1, <1>2, <1>3, <1>4, <1>5, <1>6 DEF IInv

\* TakeSignal keeps it.
LEMMA TakeSignalOK ==
    ASSUME IInv, TakeSignal
    PROVE  IInv'
<1>1. TypeOK'
  BY DEF IInv, TypeOK, TakeSignal, Goto, operations
<1>2. OnePlace'
  BY DEF IInv, OnePlace, Operation, Asker, TakeSignal, operations
<1>3. StartedOnce'
  BY DEF IInv, StartedOnce, Early, TakeSignal, Goto
<1>4. AttemptsOK'
  BY DEF IInv, AttemptsOK, TakeSignal, Goto
<1>5. TokenOK'
  BY DEF IInv, TokenOK, StartUp, TakeSignal, Goto
<1>6. StatusOK'
  BY ProcessAssumption DEF IInv, StatusOK, TakeSignal, Goto
<1> QED
  BY <1>1, <1>2, <1>3, <1>4, <1>5, <1>6 DEF IInv

\* Unwind keeps it: it only takes operations away.
LEMMA UnwindOK ==
    ASSUME IInv, Unwind
    PROVE  IInv'
<1>1. TypeOK'
  BY DEF IInv, TypeOK, Unwind, Goto, operations
<1>2. OnePlace'
  BY DEF IInv, OnePlace, Operation, Asker, Unwind, operations
<1>3. StartedOnce'
  BY DEF IInv, StartedOnce, Early, Unwind, Goto
<1>4. AttemptsOK'
  BY DEF IInv, AttemptsOK, Unwind, Goto
<1>5. TokenOK'
  BY DEF IInv, TokenOK, TypeOK, StartUp, Unwind, Goto
<1>6. StatusOK'
  BY ProcessAssumption DEF IInv, StatusOK, Unwind, Goto
<1> QED
  BY <1>1, <1>2, <1>3, <1>4, <1>5, <1>6 DEF IInv

\* JoinTokenThread keeps it: the thread has ended.
LEMMA JoinTokenOK ==
    ASSUME IInv, JoinTokenThread
    PROVE  IInv'
<1>1. TypeOK'
  BY DEF IInv, TypeOK, JoinTokenThread, operations
<1>2. OnePlace'
  BY DEF IInv, OnePlace, Operation, Asker, JoinTokenThread, operations
<1>3. StartedOnce'
  BY DEF IInv, StartedOnce, Early, JoinTokenThread
<1>4. AttemptsOK'
  BY DEF IInv, AttemptsOK, JoinTokenThread
<1>5. TokenOK'
  BY DEF IInv, TokenOK, StartUp, JoinTokenThread
<1>6. StatusOK'
  BY ProcessAssumption DEF IInv, StatusOK, JoinTokenThread
<1> QED
  BY <1>1, <1>2, <1>3, <1>4, <1>5, <1>6 DEF IInv

\* StopService keeps it.
LEMMA StopOK ==
    ASSUME IInv, StopService
    PROVE  IInv'
<1>1. TypeOK'
  BY DEF IInv, TypeOK, StopService, Goto, operations
<1>2. OnePlace'
  BY DEF IInv, OnePlace, Operation, Asker, StopService, operations
<1>3. StartedOnce'
  BY DEF IInv, StartedOnce, Early, StopService, Goto
<1>4. AttemptsOK'
  BY DEF IInv, AttemptsOK, StopService, Goto
<1>5. TokenOK'
  BY DEF IInv, TokenOK, StartUp, StopService, Goto
<1>6. StatusOK'
  BY ProcessAssumption DEF IInv, StatusOK, StopService, Goto
<1> QED
  BY <1>1, <1>2, <1>3, <1>4, <1>5, <1>6 DEF IInv

\* JoinWorkers keeps it: no thread is left.
LEMMA JoinOK ==
    ASSUME IInv, JoinWorkers
    PROVE  IInv'
<1>1. TypeOK'
  BY DEF IInv, TypeOK, JoinWorkers, Goto, operations
<1>2. OnePlace'
  BY DEF IInv, OnePlace, Operation, Asker, JoinWorkers, operations
<1>3. StartedOnce'
  BY DEF IInv, StartedOnce, Early, JoinWorkers, Goto
<1>4. AttemptsOK'
  BY DEF IInv, AttemptsOK, JoinWorkers, Goto
<1>5. TokenOK'
  BY DEF IInv, TokenOK, StartUp, JoinWorkers, Goto
<1>6. StatusOK'
  BY ProcessAssumption DEF IInv, StatusOK, TokenOK, Threads, JoinWorkers, Goto
<1> QED
  BY <1>1, <1>2, <1>3, <1>4, <1>5, <1>6 DEF IInv

\* Input keeps it: what was armed becomes ready.
LEMMA InputOK ==
    ASSUME IInv, NEW op \in Operations, Input(op)
    PROVE  IInv'
<1>1. TypeOK'
  BY DEF IInv, TypeOK, Input, main
<1>2. OnePlace'
  BY DEF IInv, OnePlace, Operation, Asker, Input
<1>3. StartedOnce'
  BY DEF IInv, StartedOnce, NotStarted, Operation, Asker, Input, main
<1>4. AttemptsOK'
  BY ProcessAssumption DEF IInv, AttemptsOK, Input, main
<1>5. TokenOK'
  BY DEF IInv, TokenOK, Input, main
<1>6. StatusOK'
  BY ProcessAssumption DEF IInv, StatusOK, Input, main
<1> QED
  BY <1>1, <1>2, <1>3, <1>4, <1>5, <1>6 DEF IInv

\* Dispatch keeps it: what was ready is with one thread.
LEMMA DispatchOK ==
    ASSUME IInv, NEW op \in Operations, NEW t \in Threads, Dispatch(op, t)
    PROVE  IInv'
<1>1. TypeOK'
  BY DEF IInv, TypeOK, Dispatch, main
<1>2. OnePlace'
  BY DEF IInv, OnePlace, Operation, Asker, Operations, Dispatch
<1>3. StartedOnce'
  BY DEF IInv, StartedOnce, NotStarted, Operation, Asker, Operations, Dispatch, main
<1>4. AttemptsOK'
  BY ProcessAssumption DEF IInv, AttemptsOK, Dispatch, main
<1>5. TokenOK'
  BY DEF IInv, TokenOK, Dispatch, main
<1>6. StatusOK'
  BY ProcessAssumption DEF IInv, StatusOK, Dispatch, main
<1> QED
  BY <1>1, <1>2, <1>3, <1>4, <1>5, <1>6 DEF IInv

\* Restart keeps it: the thread gives up what it arms.
LEMMA RestartOK ==
    ASSUME IInv, NEW t \in Threads, Restart(t)
    PROVE  IInv'
<1>1. TypeOK'
  <2>1. armed' \in SUBSET Operations
    BY DEF IInv, TypeOK, Restart
  <2>2. thread' \in [Threads -> {"none", "idle", "asking", "ended"} \cup Operations]
    BY DEF IInv, TypeOK, Restart
  <2> QED
    BY <2>1, <2>2 DEF IInv, TypeOK, Restart, main
<1>2. OnePlace'
  <2>1. thread[t] = Operation(t)
    BY DEF Restart, Operation, Operations
  <2>2. \A u \in Threads : Operation(u)' \in Operations =>
            Operation(u)' = Operation(u) /\ u # t
    BY DEF IInv, TypeOK, Restart, Operation, Asker, Operations
  <2>3. \A u \in Threads \ {t} : Operation(u) # thread[t]
    BY <2>1 DEF IInv, OnePlace, Restart
  <2> QED
    BY <2>1, <2>2, <2>3, ArmOK DEF IInv, TypeOK, OnePlace, Restart
<1>3. StartedOnce'
  BY DEF IInv, StartedOnce, NotStarted, Operation, Asker, Operations, Restart, main
<1>4. AttemptsOK'
  BY ProcessAssumption DEF IInv, AttemptsOK, Restart, main
<1>5. TokenOK'
  BY DEF IInv, TokenOK, Operations, Restart, main
<1>6. StatusOK'
  BY ProcessAssumption DEF IInv, StatusOK, Restart, main
<1> QED
  BY <1>1, <1>2, <1>3, <1>4, <1>5, <1>6 DEF IInv

\* Ask keeps it: to ask is to be in the handler of the operation that asks.
LEMMA AskOK ==
    ASSUME IInv, NEW t \in Threads, Ask(t)
    PROVE  IInv'
<1>1. TypeOK'
  BY DEF IInv, TypeOK, Ask, main, operations
<1>2. OnePlace'
  BY DEF IInv, OnePlace, Operation, Asker, Ask, Asks, operations
<1>3. StartedOnce'
  BY DEF IInv, StartedOnce, NotStarted, Operation, Asker, Ask, Asks, main, operations
<1>4. AttemptsOK'
  BY DEF IInv, AttemptsOK, Ask, main
<1>5. TokenOK'
  BY DEF IInv, TokenOK, Asker, Ask, Asks, main
<1>6. StatusOK'
  BY ProcessAssumption DEF IInv, StatusOK, Ask, main
<1> QED
  BY <1>1, <1>2, <1>3, <1>4, <1>5, <1>6 DEF IInv

\* Answer keeps it: the thread gives up what it arms.
LEMMA AnswerOK ==
    ASSUME IInv, NEW t \in Threads, Answer(t)
    PROVE  IInv'
<1>1. TypeOK'
  BY DEF IInv, TypeOK, Operations, Asker, Answer, main
<1>2. OnePlace'
  BY DEF IInv, TypeOK, OnePlace, Operation, Asker, Operations, Answer
<1>3. StartedOnce'
  BY DEF IInv, StartedOnce, NotStarted, Operation, Asker, Operations, Answer, main
<1>4. AttemptsOK'
  BY ProcessAssumption DEF IInv, AttemptsOK, Answer, main
<1>5. TokenOK'
  BY DEF IInv, TokenOK, Answer, main
<1>6. StatusOK'
  BY ProcessAssumption DEF IInv, StatusOK, Answer, main
<1> QED
  BY <1>1, <1>2, <1>3, <1>4, <1>5, <1>6 DEF IInv

\* HandlerThrows keeps it: the thread gives up its operation, or the process ends.
LEMMA ThrowsOK ==
    ASSUME IInv, NEW t \in Threads, HandlerThrows(t)
    PROVE  IInv'
<1>1. TypeOK'
  BY DEF IInv, TypeOK, HandlerThrows, Terminate, operations
<1>2. OnePlace'
  <2>1. CASE armed' = armed
    BY <2>1 DEF IInv, TypeOK, OnePlace, Operation, Asker, Operations, HandlerThrows
  <2>2. CASE t # TokenThread /\ thread[t] = "store"
    <3>1. Operation(t) = "store" /\ "store" \in Operations
      BY <2>2 DEF Operation, Operations
    <3>2. \A u \in Threads : Operation(u)' \in Operations =>
              Operation(u)' = Operation(u) /\ u # t
      BY <2>2 DEF IInv, TypeOK, HandlerThrows, Operation, Asker, Operations
    <3>3. \A u \in Threads \ {t} : Operation(u) # "store"
      BY <3>1 DEF IInv, OnePlace
    <3>4. armed' = armed \cup {"store"} /\ ready' = ready
      BY <2>2 DEF HandlerThrows
    <3> QED
      BY <3>1, <3>2, <3>3, <3>4, ArmOK DEF IInv, TypeOK, OnePlace
  <2> QED
    BY <2>1, <2>2 DEF HandlerThrows
<1>3. StartedOnce'
  BY DEF IInv, TypeOK, StartedOnce, NotStarted, Early, Operation, Asker, Operations,
         HandlerThrows, Terminate, operations
<1>4. AttemptsOK'
  BY DEF IInv, AttemptsOK, HandlerThrows, Terminate
<1>5. TokenOK'
  BY DEF IInv, TokenOK, TypeOK, StartUp, Threads, HandlerThrows, Terminate
<1>6. StatusOK'
  BY ProcessAssumption DEF IInv, StatusOK, HandlerThrows, Terminate
<1> QED
  BY <1>1, <1>2, <1>3, <1>4, <1>5, <1>6 DEF IInv

\* RunReturns keeps it.
LEMMA ReturnsOK ==
    ASSUME IInv, NEW t \in Threads, RunReturns(t)
    PROVE  IInv'
<1>1. TypeOK'
  BY DEF IInv, TypeOK, RunReturns, main, operations
<1>2. OnePlace'
  BY DEF IInv, TypeOK, OnePlace, Operation, Asker, Operations, RunReturns, operations
<1>3. StartedOnce'
  BY DEF IInv, StartedOnce, NotStarted, Operation, Asker, Operations, RunReturns, main,
         operations
<1>4. AttemptsOK'
  BY DEF IInv, AttemptsOK, RunReturns, main
<1>5. TokenOK'
  BY DEF IInv, TokenOK, RunReturns, main
<1>6. StatusOK'
  BY ProcessAssumption DEF IInv, StatusOK, RunReturns, main
<1> QED
  BY <1>1, <1>2, <1>3, <1>4, <1>5, <1>6 DEF IInv

\* Signal keeps it.
LEMMA SignalOK ==
    ASSUME IInv, Signal
    PROVE  IInv'
<1>1. TypeOK'
  BY DEF IInv, TypeOK, Signal, operations
<1>2. OnePlace'
  BY DEF IInv, OnePlace, Operation, Asker, Signal, operations
<1>3. StartedOnce'
  BY DEF IInv, StartedOnce, NotStarted, Early, Operation, Asker, Signal, operations
<1>4. AttemptsOK'
  BY DEF IInv, AttemptsOK, Signal
<1>5. TokenOK'
  BY DEF IInv, TokenOK, StartUp, Signal
<1>6. StatusOK'
  BY ProcessAssumption DEF IInv, StatusOK, Signal
<1> QED
  BY <1>1, <1>2, <1>3, <1>4, <1>5, <1>6 DEF IInv

-----------------------------------------------------------------------------
\* Every step keeps the inductive invariant.
LEMMA NextOK == IInv /\ [Next]_vars => IInv'
<1> SUFFICES ASSUME IInv, [Next]_vars PROVE IInv'
  OBVIOUS
<1>1. CASE MainStep
  BY <1>1, StartOK, SetUpOK, CreateRemoteOK, StoreBusOK, ExposeOK, ShellOK, TakeSignalOK,
     UnwindOK, JoinTokenOK, StopOK, JoinOK DEF MainStep
<1>2. ASSUME NEW op \in Operations, Input(op) PROVE IInv'
  BY <1>2, InputOK
<1>3. ASSUME NEW op \in Operations, NEW t \in Threads, Dispatch(op, t) PROVE IInv'
  BY <1>3, DispatchOK
<1>4. ASSUME NEW t \in Threads, HandlerStep(t) \/ Answer(t) \/ RunReturns(t) PROVE IInv'
  BY <1>4, RestartOK, AskOK, ThrowsOK, AnswerOK, ReturnsOK DEF HandlerStep
<1>5. CASE Signal
  BY <1>5, SignalOK
<1>6. CASE UNCHANGED vars
  BY <1>6 DEF IInv, TypeOK, OnePlace, StartedOnce, NotStarted, AttemptsOK, TokenOK,
              StatusOK,
              Operation, Asker, vars, main, operations
<1> QED
  BY <1>1, <1>2, <1>3, <1>4, <1>5, <1>6 DEF Next

\* The inductive invariant holds throughout.
THEOREM ProcessInvariant == Spec => []IInv
<1>1. Init => IInv
  BY InitOK
<1>2. IInv /\ [Next]_vars => IInv'
  BY NextOK
<1> QED
  BY <1>1, <1>2, PTL DEF Spec

\* Through every failure of the start, signal and handler the variables keep
\* their types; in particular the attempts to connect to Mir do not underflow.
THEOREM ProcessTypeOK == Spec => []TypeOK
<1>1. IInv => TypeOK
  BY DEF IInv
<1> QED
  BY <1>1, ProcessInvariant, PTL

\* However many threads serve the Runtime, at most one of them asks: the read
\* that leads to the next question is started after the answer
\* (Skeleton::on_read_finished, Shell::read_finished).
THEOREM AtMostOnePrompt == Spec => []OnePromptAtATime
<1>1. IInv => OnePromptAtATime
  BY DEF IInv, TypeOK, OnePlace, OnePromptAtATime, Operation, Asker, Operations
<1> QED
  BY <1>1, ProcessInvariant, PTL

\* No thread of a daemon takes up a handler once main() has returned: the
\* io_service was stopped by Token::~Token, and nothing restarts it.
THEOREM DaemonStaysQuiet == Spec => DaemonIsQuietAfterMain
<1> DEFINE Step == program = "daemon" /\ status = "success" =>
                      \A t \in Threads : thread[t] = "idle" => thread'[t] \in {"idle", "ended"}
<1>1. ASSUME IInv, [Next]_vars PROVE [Step]_vars
  <2> SUFFICES ASSUME program = "daemon", status = "success",
                      NEW t \in Threads, thread[t] = "idle"
               PROVE  thread'[t] \in {"idle", "ended"}
    OBVIOUS
  <2>1. runtime = "stopped" /\ pc \in {"exit", "joining", "end"}
    BY <1>1, ProcessAssumption DEF IInv, StatusOK
  <2>2. CASE MainStep \/ Signal
    BY <2>1, <2>2 DEF MainStep, ParseOptions, LookUpFactories, CreateStore,
         CreateLocalAgent, ConnectToMir, SetUpRemoteAgent, CreateRemoteAgent,
         ConnectStoreBus, ExposeStore, StartShell, TakeSignal, Unwind, JoinTokenThread,
         StopService, JoinWorkers, Signal
  <2>3. ASSUME NEW op \in Operations, NEW u \in Threads, Dispatch(op, u)
        PROVE  FALSE
    BY <2>1, <2>3 DEF Dispatch
  <2>4. ASSUME NEW u \in Threads, Restart(u) \/ Ask(u) \/ Answer(u) \/ RunReturns(u)
        PROVE  thread'[t] \in {"idle", "ended"}
    BY <1>1, <2>4 DEF IInv, TypeOK, Restart, Ask, Asks, Asker, Answer, RunReturns
  <2>5. ASSUME NEW u \in Threads, HandlerThrows(u)
        PROVE  thread'[t] \in {"idle", "ended"}
    BY <1>1, <2>5 DEF IInv, TypeOK, HandlerThrows
  <2>6. ASSUME NEW op \in Operations, Input(op)
        PROVE  thread'[t] \in {"idle", "ended"}
    BY <2>6 DEF Input
  <2>7. CASE UNCHANGED vars
    BY <2>7 DEF vars
  <2> QED
    BY <1>1, <2>2, <2>3, <2>4, <2>5, <2>6, <2>7 DEF Next, HandlerStep
<1>2. IInv /\ [Next]_vars => [Step]_vars
  BY <1>1
<1> QED
  BY <1>2, ProcessInvariant, PTL DEF Spec, DaemonIsQuietAfterMain

\* No failure before the store is exposed aborts the daemon: the Token's thread,
\* the only one whose exceptions do, does not exist before.
THEOREM FailuresOfTheStartAreReported == Spec => StartUpFailureIsReported
<1> DEFINE Step == program = "daemon" /\ status # "aborted" /\ status' = "aborted" =>
                       pc \in {"expose", "run", "unwind", "unexpose"}
<1>1. ASSUME IInv, [Next]_vars PROVE [Step]_vars
  <2> SUFFICES ASSUME program = "daemon", status # "aborted", status' = "aborted"
               PROVE  pc \in {"expose", "run", "unwind", "unexpose"}
    OBVIOUS
  <2>1. CASE ParseOptions \/ LookUpFactories \/ CreateStore \/ CreateLocalAgent \/ ConnectToMir
    BY <2>1 DEF ParseOptions, LookUpFactories, CreateStore, CreateLocalAgent,
                ConnectToMir, Goto,
                Throw
  <2>2. CASE SetUpRemoteAgent \/ CreateRemoteAgent \/ ConnectStoreBus
    BY <2>2 DEF SetUpRemoteAgent, CreateRemoteAgent, ConnectStoreBus, Goto, Throw
  <2>3. CASE ExposeStore \/ StartShell
    BY <1>1, <2>3 DEF IInv, StartedOnce, ExposeStore, StartShell
  <2>4. CASE \/ TakeSignal \/ Unwind \/ JoinTokenThread \/ StopService \/ JoinWorkers
    BY <2>4 DEF TakeSignal, Unwind, JoinTokenThread, StopService, JoinWorkers, Goto
  <2>5. ASSUME NEW t \in Threads, HandlerThrows(t)
        PROVE  pc \in {"expose", "run", "unwind", "unexpose"}
    <3>1. t = TokenThread
      BY <2>5 DEF HandlerThrows
    <3>2. pc # "end" /\ thread[TokenThread] \notin {"none", "ended"}
      BY <2>5, <3>1 DEF HandlerThrows, Operations
    <3> QED
      BY <1>1, <3>2 DEF IInv, TypeOK, TokenOK, StartUp
  <2>6. CASE Signal
    BY <2>6 DEF Signal
  <2>7. ASSUME NEW t \in Threads, Restart(t) \/ Ask(t) \/ Answer(t) \/ RunReturns(t)
        PROVE  FALSE
    BY <2>7 DEF Restart, Ask, Answer, RunReturns, main
  <2>8. ASSUME NEW op \in Operations, Input(op) \/ \E t \in Threads : Dispatch(op, t)
        PROVE  FALSE
    BY <2>8 DEF Input, Dispatch, main
  <2>9. CASE UNCHANGED vars
    BY <2>9 DEF vars, main
  <2> QED
    BY <1>1, <2>1, <2>2, <2>3, <2>4, <2>5, <2>6, <2>7, <2>8, <2>9 DEF Next, MainStep,
                                                                      HandlerStep
<1>2. IInv /\ [Next]_vars => [Step]_vars
  BY <1>1
<1> QED
  BY <1>2, ProcessInvariant, PTL DEF Spec, StartUpFailureIsReported
=============================================================================
