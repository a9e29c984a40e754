--------------------------- MODULE DaemonProcess ---------------------------
(***************************************************************************)
(* The two executables of the repository, from their command line to their *)
(* end: the trust-store daemon (daemon_skeleton_main.cpp, Daemon::Skeleton *)
(* of daemon.cpp) and the trusted helper's (daemon_stub_main.cpp,          *)
(* Daemon::Stub).  The main thread sets the process up, waits for a signal *)
(* in Runtime::run and returns; exit() then destroys the static objects,   *)
(* among them the Runtime, in the reverse order of their construction.     *)
(* The handlers of the process run on the Runtime's pool (runtime.cpp)     *)
(* and, in the daemon, on the thread of the Token that exposes the store   *)
(* (expose.cpp), which runs the very io_service of the Runtime, through    *)
(* the executor of its bus (bus_factory.cpp).                              *)
(*                                                                         *)
(* A handler belongs to an operation that is started once at a time: it is *)
(* armed, becomes ready when its input arrives, and is armed again by the  *)
(* handler.  "remote" is the read, accept or bus watch of the remote       *)
(* agent, "store" the bus of the exposed store, "shell" the read of stdin. *)
(*                                                                         *)
(* External: asio (an idle thread of run() takes a ready handler; run()    *)
(* returns when stopped, or when there is no work), the bus (one message   *)
(* of a connection at a time; an exception of a handler leaves run(), and  *)
(* the connection goes on), signals, Mir, the user, and the daemon that a  *)
(* helper waits for.                                                       *)
(***************************************************************************)
EXTENDS Naturals

CONSTANTS
    Pool,        \* the Runtime's workers, concurrency_hint many
    TokenThread, \* the thread of the Token
    Null

ASSUME ProcessAssumption ==
    /\ TokenThread \notin Pool
    /\ Null \notin {"success", "failure", "aborted", "killed"}

VARIABLES
    program,     \* "daemon" or "helper"
    options,     \* its command line
    pc,          \* where main() is
    attempts,    \* connection_attempts of the factory of the MirAgent
    status,      \* how the process ends, Null until that is known
    signal,      \* SIGTERM or SIGINT: "none", "pending" or "taken" by run()
    runtime,     \* Runtime::instance(): "none", "up", or its io_service "stopped"
    thread,      \* what each thread does: "none", "idle" in run(), a handler, "asking", "ended"
    armed,       \* operations that wait for their input
    ready        \* operations whose handler waits for a thread

main == <<pc, attempts, status>>
operations == <<armed, ready>>
vars == <<program, options, main, signal, runtime, thread, operations>>

Threads == Pool \cup {TokenThread}
Operations == {"remote", "store", "shell"}

Locals == {"MirAgent", "TerminalAgent", "TheAlwaysDenyingLocalAgent"}

\* known_remote_agent_factories() of the two programs.
Remotes ==
    [daemon |-> {"UnixDomainSocketRemoteAgent", "DBusRemoteAgent", "SessionServiceDBusRemoteAgent"},
     helper |-> {"UnixDomainSocketRemoteAgent", "DBusRemoteAgent"}]

\* Whether the required options are there, the names of the agents, and the
\* unrecognized options that name an end point, a bus or Mir's socket.
Options ==
    [valid  : BOOLEAN,
     local  : Locals \cup {"unknown"},
     remote : Remotes.daemon \cup {"unknown"},
     dict   : SUBSET {"trusted-mir-socket", "endpoint", "bus"}]

StartUp == {"parse", "lookup", "store", "local", "remote", "connect", "bus", "expose", "shell"}

Init ==
    /\ program \in {"daemon", "helper"}
    /\ options \in Options
    /\ pc = "parse"
    /\ attempts = 5
    /\ status = Null
    /\ signal = "none"
    /\ runtime = "none"
    /\ thread = [t \in Threads |-> "none"]
    /\ armed = {}
    /\ ready = {}

-----------------------------------------------------------------------------
(* Configuration::from_command_line.                                       *)

Goto(next) == pc' = next /\ UNCHANGED status

Terminate == pc' = "end" /\ status' = "aborted"

\* Mutant: the daemon's main() catches what the helper's does.
CatchBoostOnly(kind) ==
    IF kind = "boost"
    THEN pc' = "exit" /\ status' = "failure"
    ELSE Terminate

\* An exception out of from_command_line.  The daemon's main() catches
\* std::exception, the helper's only boost::exception.
Throw(kind) ==
    IF program = "daemon" \/ kind = "boost"
    THEN pc' = "exit" /\ status' = "failure"
    ELSE Terminate

ParseOptions ==
    /\ pc = "parse"
    /\ IF options.valid THEN Goto("lookup") ELSE Throw("std")
    /\ UNCHANGED <<program, options, attempts, signal, runtime, thread, operations>>

LookUpFactories ==
    /\ pc = "lookup"
    /\ IF program = "daemon"
       THEN IF options.local \in Locals /\ options.remote \in Remotes.daemon
            THEN Goto("store") ELSE Throw("std")
       ELSE IF options.remote \in Remotes.helper
            THEN Goto("remote") ELSE Throw("std")
    /\ UNCHANGED <<program, options, attempts, signal, runtime, thread, operations>>

\* create_default_store
CreateStore ==
    /\ pc = "store"
    /\ Goto("local") \/ Throw("std")
    /\ UNCHANGED <<program, options, attempts, signal, runtime, thread, operations>>

CreateLocalAgent ==
    /\ pc = "local"
    /\ options.local # "MirAgent"
    /\ Goto("remote")
    /\ UNCHANGED <<program, options, attempts, signal, runtime, thread, operations>>

\* Mutant: the count is compared before it is decremented.
TryMirOnceMore ==
    /\ pc = "local"
    /\ options.local = "MirAgent"
    /\ attempts' = attempts - 1
    /\ IF attempts = 0 THEN Throw("std") ELSE Goto("local")
    /\ UNCHANGED <<program, options, signal, runtime, thread, operations>>

\* The factory of the MirAgent: an InvalidMirConnection has it try again after
\* a second, up to five times in all; any other exception is passed on.
ConnectToMir ==
    /\ pc = "local"
    /\ options.local = "MirAgent"
    /\ IF "trusted-mir-socket" \in options.dict
       THEN \/ Goto("remote") /\ UNCHANGED attempts
            \/ /\ attempts' = attempts - 1
               /\ IF attempts' = 0 THEN Throw("std") ELSE Goto("local")
            \/ Throw("std") /\ UNCHANGED attempts
       ELSE Throw("std") /\ UNCHANGED attempts
    /\ UNCHANGED <<program, options, signal, runtime, thread, operations>>

\* Runtime::Runtime: signals are trapped for the threads to come, the workers
\* started.  Later calls of instance() find it there.
ConstructRuntime ==
    /\ runtime' = "up"
    /\ thread' = IF runtime = "none"
                 THEN [t \in Threads |-> IF t \in Pool THEN "idle" ELSE thread[t]]
                 ELSE thread

UsesSocket == options.remote = "UnixDomainSocketRemoteAgent"

\* A remote agent's factory up to Runtime::instance(): without the option it
\* needs, or when it cannot connect to the bus, it throws before.
SetUpRemoteAgent ==
    /\ pc = "remote"
    /\ \/ /\ (IF UsesSocket THEN "endpoint" ELSE "bus") \in options.dict
          /\ Goto("connect")
          /\ ConstructRuntime
       \/ /\ UsesSocket => "endpoint" \notin options.dict
          /\ Throw("std")
          /\ UNCHANGED <<runtime, thread>>
    /\ UNCHANGED <<program, options, attempts, signal, operations>>

\* The rest of it: connect to the end point and read, bind the end point and
\* accept, or take the names and objects on the bus.
CreateRemoteAgent ==
    /\ pc = "connect"
    /\ \/ /\ armed' = armed \cup {"remote"}
          /\ Goto(IF program = "daemon" THEN "bus" ELSE "shell")
       \/ /\ Throw(IF program = "helper" /\ UsesSocket THEN "boost" ELSE "std")
          /\ UNCHANGED armed
    /\ UNCHANGED <<program, options, attempts, signal, runtime, thread, ready>>

\* BusFactory::bus_for_type, for the bus of the store.
ConnectStoreBus ==
    /\ pc = "bus"
    /\ \/ Goto("expose") /\ ConstructRuntime
       \/ Throw("std") /\ UNCHANGED <<runtime, thread>>
    /\ UNCHANGED <<program, options, attempts, signal, operations>>

-----------------------------------------------------------------------------
(* Skeleton::main and Stub::main.  They run outside of the try block.      *)

ExposeStore ==
    /\ pc = "expose"
    /\ \/ /\ Goto("run")
          /\ thread' = [thread EXCEPT ![TokenThread] = "idle"]
          /\ armed' = armed \cup {"store"}
       \/ Terminate /\ UNCHANGED <<thread, armed>>
    /\ UNCHANGED <<program, options, attempts, signal, runtime, ready>>

StartShell ==
    /\ pc = "shell"
    /\ \/ Goto("run") /\ armed' = armed \cup {"shell"}
       \/ Terminate /\ UNCHANGED armed
    /\ UNCHANGED <<program, options, attempts, signal, runtime, thread, ready>>

\* Runtime::run returns once the signal's slot has called stop().
TakeSignal ==
    /\ pc = "run"
    /\ signal = "pending"
    /\ signal' = "taken"
    /\ Goto("unwind")
    /\ UNCHANGED <<program, options, attempts, runtime, thread, operations>>

\* Mutant: the bus of the store has an io_service of its own, which is stopped.
UnwindTokenOnly ==
    /\ pc = "unwind"
    /\ IF program = "daemon"
       THEN /\ thread[TokenThread] = "idle"
            /\ thread' = [thread EXCEPT ![TokenThread] = "ended"]
            /\ armed' = armed \ {"store"}
            /\ ready' = ready \ {"store"}
            /\ Goto("unexpose")
       ELSE /\ pc' = "exit" /\ status' = "success"
            /\ UNCHANGED <<thread, operations>>
    /\ UNCHANGED <<program, options, attempts, signal, runtime>>

\* Token::~Token takes the handlers of the store away and stops its bus, and
\* with it the io_service.  A pending read keeps the Shell alive.
Unwind ==
    /\ pc = "unwind"
    /\ IF program = "daemon"
       THEN /\ armed' = armed \ {"store"}
            /\ ready' = ready \ {"store"}
            /\ runtime' = "stopped"
            /\ Goto("unexpose")
       ELSE /\ pc' = "exit" /\ status' = "success"
            /\ UNCHANGED <<runtime, operations>>
    /\ UNCHANGED <<program, options, attempts, signal, thread>>

\* The Token's thread is joined, and main() returns.
JoinTokenThread ==
    /\ pc = "unexpose"
    /\ thread[TokenThread] = "ended"
    /\ pc' = "exit" /\ status' = "success"
    /\ UNCHANGED <<program, options, attempts, signal, runtime, thread, operations>>

\* Mutant: the workers are joined without stopping the service.
JoinOnly ==
    /\ pc = "exit"
    /\ Goto("joining")
    /\ UNCHANGED <<program, options, attempts, signal, runtime, thread, operations>>

\* Runtime::~Runtime, of the static instance, if there is one: exit() runs it after
\* main() has returned and the statics that are younger are destroyed.
StopService ==
    /\ pc = "exit"
    /\ runtime' = IF runtime = "none" THEN "none" ELSE "stopped"
    /\ Goto("joining")
    /\ UNCHANGED <<program, options, attempts, signal, thread, operations>>

JoinWorkers ==
    /\ pc = "joining"
    /\ \A t \in Pool : thread[t] \in {"none", "ended"}
    /\ Goto("end")
    /\ UNCHANGED <<program, options, attempts, signal, runtime, thread, operations>>

-----------------------------------------------------------------------------
(* Handlers.                                                               *)

Input(op) ==
    /\ pc # "end"
    /\ op \in armed
    /\ armed' = armed \ {op}
    /\ ready' = ready \cup {op}
    /\ UNCHANGED <<program, options, main, signal, runtime, thread>>

Dispatch(op, t) ==
    /\ pc # "end"
    /\ runtime = "up"
    /\ thread[t] = "idle"
    /\ op \in ready
    /\ ready' = ready \ {op}
    /\ thread' = [thread EXCEPT ![t] = op]
    /\ UNCHANGED <<program, options, main, signal, runtime, armed>>

\* The handler that asks somebody: the remote agent of a daemon its user, the
\* shell of the helper a daemon.
Asker == IF program = "daemon" THEN "remote" ELSE "shell"

Asks(op) == op = Asker /\ ~(program = "daemon" /\ options.local = "TheAlwaysDenyingLocalAgent")

\* Skeleton::on_read_finished, Stub::on_new_session, Shell::read_finished and the
\* handlers of a query of the exposed store: their exceptions reach run().  The
\* handlers of the remote agents on the bus catch what they call.
MayThrow(op) == op \in {"shell", "store"} \/ (op = "remote" /\ UsesSocket)

Operation(t) == IF thread[t] = "asking" THEN Asker ELSE thread[t]

\* The handler asks nobody, because there is no request, as at the end of file or
\* for an error, or because the agents answer it, and starts its operation again.
Restart(t) ==
    /\ pc # "end"
    /\ thread[t] \in Operations
    /\ thread' = [thread EXCEPT ![t] = "idle"]
    /\ armed' = armed \cup {thread[t]}
    /\ UNCHANGED <<program, options, main, signal, runtime, ready>>

\* Mutant: the next read is started before the request is processed.
ReadAndAsk(t) ==
    /\ pc # "end"
    /\ Asks(thread[t])
    /\ thread' = [thread EXCEPT ![t] = "asking"]
    /\ armed' = armed \cup {thread[t]}
    /\ UNCHANGED <<program, options, main, signal, runtime, ready>>

Ask(t) ==
    /\ pc # "end"
    /\ Asks(thread[t])
    /\ thread' = [thread EXCEPT ![t] = "asking"]
    /\ UNCHANGED <<program, options, main, signal, runtime, operations>>

Answer(t) ==
    /\ pc # "end"
    /\ thread[t] = "asking"
    /\ thread' = [thread EXCEPT ![t] = "idle"]
    /\ armed' = armed \cup {Asker}
    /\ UNCHANGED <<program, options, main, signal, runtime, ready>>

\* execute_and_never_throw() swallows what leaves a handler of the pool.  A read or
\* an accept is not started again then; the bus of the store goes on.  The Token's
\* thread has no such loop.
HandlerThrows(t) ==
    /\ pc # "end"
    /\ thread[t] \in Operations \cup {"asking"}
    /\ MayThrow(Operation(t))
    /\ IF t = TokenThread
       THEN Terminate /\ UNCHANGED <<thread, armed>>
       ELSE /\ thread' = [thread EXCEPT ![t] = "idle"]
            /\ armed' = IF thread[t] = "store" THEN armed \cup {"store"} ELSE armed
            /\ UNCHANGED <<pc, status>>
    /\ UNCHANGED <<program, options, attempts, signal, runtime, ready>>

\* Mutant: no work is introduced to keep the io_service alive.
NotKeptAlive == FALSE

\* Runtime::keep_alive
KeptAlive == runtime = "up"

RunReturns(t) ==
    /\ pc # "end"
    /\ thread[t] = "idle"
    /\ runtime = "stopped"
       \/ (~KeptAlive /\ armed \cup ready = {} /\ \A u \in Threads : thread[u] \notin Operations \cup {"asking"})
    /\ thread' = [thread EXCEPT ![t] = "ended"]
    /\ UNCHANGED <<program, options, main, signal, runtime, operations>>

-----------------------------------------------------------------------------
\* Before the Runtime traps it, the signal has its default action.
Signal ==
    /\ pc # "end"
    /\ signal = "none"
    /\ signal' = "pending"
    /\ IF runtime = "none"
       THEN pc' = "end" /\ status' = "killed"
       ELSE UNCHANGED <<pc, status>>
    /\ UNCHANGED <<program, options, attempts, runtime, thread, operations>>

MainStep ==
    \/ ParseOptions \/ LookUpFactories \/ CreateStore \/ CreateLocalAgent \/ ConnectToMir
    \/ SetUpRemoteAgent \/ CreateRemoteAgent \/ ConnectStoreBus \/ ExposeStore \/ StartShell
    \/ TakeSignal \/ Unwind \/ JoinTokenThread \/ StopService \/ JoinWorkers

HandlerStep(t) == Restart(t) \/ Ask(t) \/ HandlerThrows(t)

Next ==
    \/ MainStep
    \/ \E op \in Operations : Input(op)
    \/ \E op \in Operations, t \in Threads : Dispatch(op, t)
    \/ \E t \in Threads : HandlerStep(t) \/ Answer(t) \/ RunReturns(t)
    \/ Signal

\* The threads are scheduled and a ready handler gets one that is idle.
\* Nothing is assumed of signals, of input, and of who is asked.
Spec ==
    /\ Init /\ [][Next]_vars
    /\ WF_vars(MainStep)
    /\ \A op \in Operations : WF_vars(\E t \in Threads : Dispatch(op, t))
    /\ \A t \in Threads : WF_vars(HandlerStep(t)) /\ WF_vars(RunReturns(t))

-----------------------------------------------------------------------------
(* Properties.                                                             *)

TypeOK ==
    /\ program \in {"daemon", "helper"}
    /\ options \in Options
    /\ pc \in StartUp \cup {"run", "unwind", "unexpose", "exit", "joining", "end"}
    /\ attempts \in 0..5
    /\ status \in {Null, "success", "failure", "aborted", "killed"}
    /\ signal \in {"none", "pending", "taken"}
    /\ runtime \in {"none", "up", "stopped"}
    /\ thread \in [Threads -> {"none", "idle", "asking", "ended"} \cup Operations]
    /\ armed \in SUBSET Operations
    /\ ready \in SUBSET Operations

\* The user of a daemon is never asked by two threads at once, although any of
\* them may take any handler: the next request is read after the answer.
OnePromptAtATime ==
    \A t, u \in Threads : thread[t] = "asking" /\ thread[u] = "asking" => t = u

\* Once a daemon has returned from main(), no handler is started any more,
\* although the Runtime is stopped and joined only by a static destructor that
\* runs later: ~Token stopped the io_service for all threads.
DaemonIsQuietAfterMain ==
    [][program = "daemon" /\ status = "success" =>
          \A t \in Threads : thread[t] = "idle" => thread'[t] \in {"idle", "ended"}]_vars

\* Whatever goes wrong before the store is exposed, the daemon reports it with
\* its exit status instead of being aborted.
StartUpFailureIsReported ==
    [][program = "daemon" /\ status # "aborted" /\ status' = "aborted" =>
          pc \in {"expose", "run", "unwind", "unexpose"}]_vars

\* A handler whose input has come is run, however long the user or a daemon
\* takes to answer another: the store is served while a prompt is shown.
HandlersAreRun ==
    \A op \in Operations :
        op \in ready /\ pc = "run" ~> op \notin ready \/ pc # "run"

\* A process comes up or gives up, also when Mir never accepts a connection;
\* and once main() is done or a signal has arrived, the process ends, provided
\* that who is asked does answer: a worker that waits for an answer is joined.
ProcessEnds ==
    /\ pc \in StartUp ~> pc \notin StartUp
    /\ (\A t \in Threads : []<>(thread[t] # "asking" \/ pc = "end")) =>
          (status # Null \/ signal # "none" ~> pc = "end")
=============================================================================
