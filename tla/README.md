# Trust-store: TLA+ models, checks and proofs

Trust-store is the service of Ubuntu Touch that remembers which applications the
user has allowed to use which features (location, camera, microphone, ...) of a
*trusted helper*.  This directory holds TLA+ models of its core, TLC configurations
that check them on small instances, and TLAPS proofs.  Paths below are relative to
the repository; `trust/` stands for `src/core/trust/` and its parts.

1. [The system](#1-the-system)
2. [Modules](#2-modules)
3. [Runs](#3-runs)
4. [Proofs](#4-proofs)
5. [Disagreements between code and documentation](#5-disagreements-between-code-and-documentation)
6. [Observations](#6-observations)
7. [What is not modelled](#7-what-is-not-modelled)
8. [Plan](#8-plan)

How to run: `tlc -config X.cfg Module` for the pairs in section 3, `tlapm M.tla` for
each of the eight modules `M` whose name ends in `Proofs`.

## 1. The system

A trusted helper (a location service, say) receives a request from an application
and asks *send(parameters)* of a **remote agent**.  The request travels to the
trust-store **daemon** of the user, over a Unix domain socket or over the bus.  There
it passes a chain of **agents**; the last but one looks into the **store** and, if the
store has no answer, a **local agent** prompts the user.  The answer is stored and
travels back.  Settings applications reach the same store **over the bus**.

| Component | State | Operations | Hard because of |
|---|---|---|---|
| SQLite store (`impl/sqlite3/store.cpp`) | a database file with one table and a schema version; prepared statements with bindings that survive `reset`; query objects with a status and a running `SELECT` | constructor and `upgrade()`, `add`, `reset`, `remove_application`, `query`; per query `for_*`, `all`, `execute`, `next`, `current`, `erase`, `status` | crashes between the steps of `upgrade()`; statements that fail and poison the next call; results that are copies of rows deleted meanwhile; reused row ids; integer widths |
| Cached agent, `process_trust_request` (`cached_agent.cpp`, `request.cpp`) | none of its own; the store, the wallclock | look up, prompt, stamp, add | calls overlap each other and other clients of the store without a lock; the clock can be set; `add` can fail after the user answered |
| Daemon and its agents (`daemon.cpp`, `app_id_formatting_trust_agent.cpp`, `white_listing_agent.cpp`, `privilege_escalation_prevention_agent.cpp`) | the chain | strip the version off the id, white list, cached agent | the order of the chain decides which checks are made; ids must neither lose decisions nor share them |
| Socket agent (`remote/posix.cpp`, `runtime.cpp`) | registry of sessions, one per user; two byte streams per session; the skeleton's request | accept, register, send (write, read, check), skeleton: read, look up, ask, answer | several threads on a session; daemons that die, reconnect, throw; pids that change hands during a prompt |
| Bus agent and registry (`remote/dbus.cpp`, `dbus/agent_registry.h`, `dbus/agent.cpp`) | the helper's registry of agents; the daemon's exported skeletons; the helper's bus name | announce, register, look up, ask | announcements, replies and name changes overtake each other; helper and daemons restart; time-outs |
| Store over the bus (`expose.cpp`, `resolve.cpp`) | the daemon's table of queries by path; the clients' proxies | every method of Store and Query, remotely | clients give up after a second, the daemon does not know; handlers that throw; clients and daemon that end |
| Processes and runtime (`daemon.cpp`, `daemon_*_main.cpp`, `runtime.cpp`, `dbus/bus_factory.cpp`) | the command line; the runtime's pool and the thread of the Token, all on one io_service; the operations that are armed or ready; the end of the process | parse, make the agents, connect to Mir, expose the store, run, stop; the helper's shell | any step can fail, before or after threads were started; a signal at any moment; handlers that block for as long as a user takes, or throw |
| Preseed tool (`preseed.cpp`) | the parsed and stamped requests | parse all, add one by one | runs next to a daemon on the same database; can fail half way |
| Local agents (`mir/agent.cpp`, `terminal_agent.h`) | a prompt session, a child process, a context on the stack that Mir's thread uses | create a session for the application or an ancestor, hand out a descriptor, exec, wait, translate | the end of the session races start and end of the child; cleanup on every exception |
| Prompt and application information (`mir/prompt_main.cpp`, `mir/click_desktop_entry_app_info_resolver.cpp`, `xdg.cpp`) | the window of the provider; the desktop entries of the user and of the system | find the entry, show it, exit with the button's status | everything the user did has to survive as an exit status; entries are searched by the beginning of their names |

What makes each of them correct is stated as the properties in section 3.

## 2. Modules

| Module | Models | Notes |
|---|---|---|
| `RequestsTable` | the table `requests` and what the prepared statements compute | pure operators: integer conversions, choice of row ids, `SELECT`, `bind_text` |
| `TrustStore` | `sqlite::Store` and `sqlite::Query` | one action per operation, with its failures; `Crash` and `Close` end the process at any point, also inside `upgrade()` |
| `RequestStore` | the promises of `include/core/trust/store.h` | the abstract specification that `TrustStore` implements (`ImplementsRequestStore`) |
| `CachedAgent` | `CachedAgent`, `process_trust_request`, the preseed tool, on a shared store | the steps of a call are separate actions; other clients and the tool add, remove and reset between them |
| `DaemonAgents` | the chain of agents in the daemon | extends `CachedAgent` with the formatting and white listing agents in front of it |
| `PosixRemoteAgent` | Stub, Session registry and Skeleton over a socket | composes helper threads, sockets, daemons and applications |
| `DBusRemoteAgent` | helper registry, daemons, announcements and withdrawals, `Stub::send` over the bus | composes helper, daemons and bus |
| `RemoteStore` | `expose.cpp` with `resolve.cpp` | composes clients, bus and daemon; the store itself either carries out a call or throws |
| `DesktopEntries` | the search for the desktop entry of an application | pure operators |
| `LocalAgents` | Mir agent, terminal agent, trust-prompt | extends `DesktopEntries`; composes the calling thread, Mir's thread, the provider and the user |
| `DaemonProcess` | both executables with `Runtime`, the Token's thread, the agent factories and the shell | composes the main thread, the threads that run handlers, and signals; what the handlers do is in the other modules |
| `TrustStoreProofs`, `CachedAgentProofs`, `DaemonAgentsProofs`, `PosixRemoteAgentProofs`, `DBusRemoteAgentProofs`, `RemoteStoreProofs`, `LocalAgentsProofs`, `DaemonProcessProofs` | | theorems about the module each is named after, section 4; `DaemonAgentsProofs` extends `CachedAgentProofs` |
| `MC*` | | instances for TLC |

`PROJECT.json` maps every definition to the lines it translates.  State keeps the
names of the code (`sessions`, `request`, `insert_statement`'s binding as
`insert_from`, ...).  A C++ exception is an action of its own or a `thrown` outcome;
what destructors do while the stack unwinds is part of it.  A comment `Mutant:` marks
a variant of the definition below it, with a plausible mistake; it is not part of the
model, and every property is shown to notice one.  Variables under "Not in the code"
are history for the properties; no guard reads them.

**What is assumed of external software.**

* SQLite: stated at the head of `TrustStore`.  Any step may fail and then changes no
  row; `reset` reports the failure of the last step; a sorter copies the results of
  `SELECT ... ORDER BY` at the first step; an id is one more than the largest in use.
* The bus: messages between two parties stay in order; a call without a receiver, or
  whose receiver goes, is answered with an error; replies that come too late are
  dropped; a handler thread dispatches one message at a time.
* Mir: callbacks come one at a time; `mir_prompt_session_release_sync` stops a session
  and returns when its callback is done.
* The system: a pid comes back with another start time; the peer of a local socket is
  told reliably who it is, or not at all.

**How the actions correspond to the code**, where it is not one to one:

* `TrustStore`: operations of `Store` are atomic because they hold `guard`.  Those of
  `Query` do not hold it, but each makes one or two SQLite calls on statements of its
  own, and SQLite serializes them; `erase()` makes two (delete, then step) and is one
  action, with an outcome for the failure of either.
* `CachedAgent`: the lookup is one action, because only its `execute()` touches shared
  state.  The user's answer, its stamp and its insertion are three.  Clients that fail to
  remove or to reset change nothing, which is a stuttering step.
* `DaemonAgents`: formatting and white listing keep no state and happen in the step
  that starts a call.  An id is the sequence of its parts between underscores, because
  the regular expression of the formatting agent works on those.
* `PosixRemoteAgent`: the content of an answer is *the process the user was asked
  about*.  `Serialized` is a property of the helper, not of the stub, and says that
  it has one request per user under way at a time; see the finding on `Session::lock`.
  The skeleton's handler is four steps: it reads the request, verifies the start time if its
  daemon was told to (`Verify`), resolves the application id, and answers; a pid can change
  hands between any two.  A daemon that ends before its connection is accepted is
  registered all the same.
* `RemoteStore`: methods whose handlers and callers behave alike share a name.
* `LocalAgents`: calls share no state, so one call is modelled, again and again.  A
  directory is the sequence of its files; of ids, only which begins with which matters.
* `DBusRemoteAgent`: the factory creates the watcher of the name, the constructor makes
  the first announcement and then connects to the watcher: three actions (`Create`,
  `Start`, `Watch`), because the helper can appear between any two.
  `unregister_agent_for_user` is a call (`Withdraw`), its reply, and what its own thread
  does after it (`Withdrawn`).  No program of the repository calls it; the synchronous
  `register_agent_for_user` differs from the other only in who waits.  The helper's queue is
  kept as one queue per daemon (`inbox`): the bus orders the messages of one sender only,
  so that the helper may take up the calls of different daemons in any order.
* `DaemonProcess`: an operation is what asio or the bus runs one handler of at a time
  (a pending read or accept, a bus connection, the shell's read of stdin); the content of
  messages is left out.  `main()` ends in `exit`; what follows is the destruction of the
  static `Runtime`, which stops its io_service and joins its workers.  Other statics are not
  modelled (section 6).  An exception of a
  handler of the exposed store is swallowed on the pool and ends the daemon on the thread
  of the Token; in `RemoteStore` these are `HandlerThrows` and `Crash`.

## 3. Runs

Deadlock is checked except in `DBusRemoteAgent`, where helper and daemons may all be
gone for good within the bounds, and in `DaemonProcess`, where the process ends.

| Run | Module, configuration | Shows |
|---|---|---|
| `store` | `MCTrustStore`, `TrustStore.cfg` | an opened store has table and version, wherever an earlier start crashed (`OpenedStoreIsUpgraded`); a running query delivers what its narrowing says, newest first, no row twice, while other operations change the table (`ResultsMatchNarrowing`, `ResultsNewestFirst`); while its statement runs or is done, its status agrees with it (`ResultsAreReported`; after `all()` or a failed step it does not, see section 6); the promises of `store.h` hold across failed calls, crashes and restarts (`ImplementsRequestStore`, a refinement) |
| `daemon_agents` | `MCDaemonAgents`, `DaemonAgents.cfg` | answers and rows are what the user said about that application and feature (`AnswersAreTheUsers`, `RowsAreTheUsers`); a known answer is not asked for again (`KnownAnswerIsNotAskedFor`), also after an upgrade of the application (`DecisionsOutliveUpgrades`); on return the store has an answer (`StoreIsUpToDateOnReturn`); access comes from the user or the white list (`GrantedOnlyByUserOrList`); of several answers to one question, given to overlapping calls, by another client and by the preseed tool, one that was given after another had been stamped is never passed over for it, in whatever order they are stored, unless the clock was set back between the stamps (`MostRecentAnswerIsTaken`) |
| `posix` | `PosixRemoteAgent`, `PosixRemoteAgent.cfg` | an answer is about the very process that asked, although the skeleton knows only a pid (`AnswerIsAboutTheAsker`); sessions lead to daemons of their user across reconnections (`SessionsLeadToTheirUser`); no answer is left over on a connection for the next request (`NothingIsLeftOver`); `send()` ends at whatever moment a daemon dies or reconnects, unless the handler that had its request threw (`SendEndsUnlessItsSkeletonThrew`) |
| `dbus_agent` | `MCDBusRemoteAgent`, `DBusRemoteAgent.cfg` | an answer comes from a daemon of the user (`AnswerIsFromTheUsersDaemon`); a registered agent is exported as long as its daemon lives and got its replies in time (`RegisteredAgentIsExported`); an agent that was withdrawn is not asked (`WithdrawnAgentIsNotAsked`); a daemon is registered in the end with whatever helper stays, unless its announcement was refused, missed, lost or late (`DaemonIsReachedInTheEnd`) |
| `remote_store` | `MCRemoteStore`, `RemoteStore.cfg` | what returned without an exception was carried out (`SuccessIsReal`); a client works on its own query (`QueryIsTheClientsOwn`); queries are released with their client (`QueriesAreReleased`) |
| `daemon_process` | `DaemonProcess`, `DaemonProcess.cfg` | the user is never asked by two threads at once (`OnePromptAtATime`); a daemon starts no handler once `main()` has returned, although its workers are joined later (`DaemonIsQuietAfterMain`); a start that fails is reported by the exit status (`StartUpFailureIsReported`); handlers run while a prompt is shown (`HandlersAreRun`); the process comes up or gives up, and ends when it is told to (`ProcessEnds`) |
| `local_agents` | `MCLocalAgents`, `LocalAgents.cfg` | the context outlives the session (`CallbackContextIsAlive`); no provider outlives its call, also when the wait returned because it was only stopped (`ProviderEndsWithCall`); the Mir agent grants only when `trust-prompt` exited with success, neither agent grants what the user refused, a provider that was killed or crashed gives no answer, and one that could not be executed denies (`AnswerIsTheUsers`; whiptail's escape key is not covered, see section 6); the prompt shows the entry of the application, unless another's id begins with its own and the user's directory has no file named exactly after it (`ShownEntryIsTheApps`); every call ends (`CallEnds`) |
| `store_reused_id`, `daemon_other_user`, `posix_unserialized`, `posix_silence`, `local_agents_stop` | | the violations of section 5 |

**Bounds, and why they are enough.**

* `store`: row ids up to 2, so that an id is freed and taken again; two requests that
  differ in everything; one query, which is enough for one that is overtaken by `add`,
  `remove_application` and `reset`; queries have no state in common.  The widths of
  integers are 2 and 3 bits for the code's 32 and 64; `PlainIds` and `NarrowFeatures`
  hold for these clients.  The theorem of section 4 has no bound.
* `daemon_agents`: two overlapping calls and one client beside them; two rows; three
  moments at which answers are given or stamped (`MaxTime` counts both); two versions of
  one application, and a white-listed one; a second feature and a second application of the
  package, about which other clients decide; a preseed tool with two requests, which can
  end after the first; a clock that can be set forward by one.  Three moments have an
  answer given, stamped and overtaken by a client's in every order, or a client's decision
  after both stamps of the preseed tool.  The theorem has no such bound, and lets the clock
  be set back too (`MaxSetBacks` is 0 here).
* `posix`: two senders for two users, or for the same one after each other; two
  connections, so that a daemon reconnects; one of the daemons verifies start times; one pid
  that changes hands twice.
* `dbus_agent`: two daemons of two users and two lives of the helper.  The first daemon
  starts at any time after the first helper did, so that its first announcement can fail,
  be under way, or be registered when the second helper comes; it may withdraw itself.
  The second daemon starts in the second life of the helper (`Since`).  Three paths each
  are one more than they need.
* `remote_store`: two clients, two lives of the daemon, two queries in each, two calls
  in the daemon's queue: a call that was given up and the next one of the same client.
* `local_agents`: requests with any pid up to 4, also 0 and 1, so that the search passes two
  ancestors; two ids of which
  one begins with the other; the user's directory missing, empty, or with up to two files.
* `daemon_process`: a pool of two, which is the code's `concurrency_hint`, and the thread of
  the Token; all combinations of agents, options and failures.  The operations of a
  process are three at most, so that three threads are enough to run all at once.

**Fairness.**  `PosixRemoteAgent!FairSpec` has weak fairness of each sender's steps, of
each skeleton's steps and of accepting a connection: these are threads and handlers of
the runtime that the system schedules, and an agent that is asked answers (its faults
are a separate constant; see `posix_silence`).  Nothing is assumed of daemons that die
or connect.  `LocalAgents!Spec` has weak fairness of the calling thread, of Mir's
callback, and of the user, who answers or closes the prompt in the end; that the
session stops is not assumed.  `DBusRemoteAgent!FairSpec` has it of the constructors and
of the event loops of daemons and helper, that is, of what asio does with a message that
is there (the helper's loop serves every daemon's calls in the end); not of processes that
start or end, of time-outs, or of `send()`.
`DaemonProcess!Spec` has it of the main thread, of the dispatch of a ready handler to an
idle thread (per operation, as asio's queue is first in first out) and of the handlers'
own steps, but not of signals and inputs; that whoever is asked answers is a premise of
`ProcessEnds`, and `HandlersAreRun` does without it.

## 4. Proofs

TLAPS checks the following for all values of the constants that the modules' `ASSUME`s
admit: any requests, ids, features, intervals, integer widths, table sizes, numbers of
queries, clients, daemons, connections and processes.  A premise that a theorem needs
beyond them is an `ASSUME` of the theorem; the instances of section 3 satisfy each of them.
An invariant that a proof needs was checked with TLC on the instance of the run first.

**`TrustStoreProofs`**, from `SpanAssumption` (widths are even) and `StoreAssumption`
(types; `Null` is none of the values):

* `StoreInvariant`: `IInv` is an invariant.  It is the conjunction of `TableOK` (types of
  rows and bindings), `FileOK` (an opened store is upgraded, and a crash inside the upgrade
  finds the table created) and `QueriesOK` (each query: its type, agreement of status and
  results while the statement runs or is done, and results that match, are ordered and
  distinct).  None of the three results properties is inductive by
  itself: that `next()` keeps the order of the results needs the type of the results,
  and that narrowing keeps them matching needs to know that a narrowing only succeeds on
  a statement that has none left.
* `StoreTypeOK`, `StoreOpenedIsUpgraded`, `StoreResults` (`ResultsMatchNarrowing`,
  `ResultsNewestFirst`, `ResultsAreReported`) and its corollaries follow from it.  Nothing is
  claimed of the status of a query that was reset or whose step failed: it is stale then
  (section 6).
* `StoreImplements`: for clients that use no empty id (`PlainIds`) and only features that
  fit into a signed 32 bit integer (`NarrowFeatures`), every step of `TrustStore` is a step of
  `RequestStore` or a stutter.  The argument is by operation, on lemmas that a feature and
  a request come back as they went in (`FeatureReadBack`, `RequestReadBack`).  Both
  premises are needed, as section 6 explains.

**`CachedAgentProofs`** and **`DaemonAgentsProofs`**, from `CachedAgentAssumption` (types; the
preseed tool reads no empty id, because it reads a word) and `ChainAssumption` (labels are
sequences of parts; what the formatting agent leaves of them, unless it is on the white
list, is among the cached agent's keys).  Everything is proved twice: of the cached agent by
itself, and of the chain, where every step is one of the cached agent or changes nothing
of it but a call that the white list answered (`ChainStepIsAgentStep`, `ListedKeepsInv`).

* `CachedAgentTypeOK`, `DaemonTypeOK`.
* `CachedAgentAnswers`, `CachedAgentAsksOnce`, `DaemonAnswers` with the corollaries `DaemonRows`,
  `DaemonAsksOnce` and `DaemonUpToDate`.  The invariant `Inv` adds to the types that rows, parsed
  requests and answers under way were *given* (`RowsGiven`, `SeedsGiven`, `CallGiven`), and that a
  call which began with an answer in the store still has one, unless one was removed
  (`CallUpToDate`).  `AnswersAreTheUsers` alone is not inductive: a lookup returns what is in the
  table, so it needs `RowsAreTheUsers`, and that needs what is on its way into the table,
  also from the preseed tool.
* `CachedAgentMostRecent`, `DaemonMostRecent`: an action property, about answers given after
  another was stamped.  `OrderInv` says of every stamp, in a row, in a call about to insert or
  in the preseed tool's memory, that it lies in the past of the clock (`Past`) and that
  any two of one epoch are ordered as the moments at which they were taken (`StampsInOrder`),
  and of an answer under way that it was given before now (`AnswersInPast`).  That the row
  with the latest stamp comes first in the listing (`ListingHead`) is not enough: without
  `OrderInv` nothing ties the value of a stamp to the moment the user answered.  That the
  answer given last is taken is not a theorem: see section 6.
* `GrantsAreTheUsersOrListed`, `DecisionsSurvive`: `ChainInv` says which key a call of the cached agent
  has, and why; the rest are lemmas about `Format` (`FormatKeepsApplication`, `SameId`).

`PlainKeys` (no empty id, features that fit into a signed 32 bit integer) is the premise of all
of them but the types: an empty id is stored under the id bound last, and a wide feature
comes back as another (section 6).  `DecisionsSurvive` also has `ShortIds`: labels have at most
package, application and version, and what is stored has no version; with more parts the
greedy expression leaves some, and the preseed tool can store a versioned id.

**`PosixRemoteAgentProofs`**, from `PosixAssumption`:

* `PosixTypeOK`, `SessionsOfTheirUsers`: from `BaseInv`, the types with what runs under a pid
  (`ProcessesOK`), when a skeleton has a request (`SkeletonsOK`), what a `send()` has got hold of
  (`SendsOK`), and that sessions are connected (`SessionsOK`).
* `AnswersAboutTheAsker`, `NoAnswerLeftOver`: under the premise `Serialized`, that the helper has one
  request per user under way.  `SerialInv` adds that no two calls use a session
  (`OneAtATime`) and that every connection is quiet or carries one message (`Line`): that of a
  sender that waits for it, about a process that ran under the pid since.  Neither
  property is inductive without it: the answer that `send()` reads is about its process only
  because nothing older can be in front of it, and that needs to hold of the request on
  its way, at the skeleton, and on its way back, also when the daemon dies.  Without the
  premise the first fails: see `posix_unserialized`.

**`DBusRemoteAgentProofs`**, from `DBusAssumption`; no theorem has another premise:

* `DBusTypeOK`, `AnswersFromTheUsersDaemon`: from `BaseInv`, that agents are registered only with a
  helper that has its handlers, each for its own user (`RegistryOK`), and whose agent a
  caller holds (`CallersOK`).
* `RegisteredAgentsExported`, `WithdrawnAgentsNotAsked`: from `Inv`, which says of each daemon
  (`DaemonOK`) that its announcements have distinct paths and at most one reply each
  (`Once`, `Counted`), that a skeleton is held while its announcement is under way (`Held`),
  that the registered path is the one whose success the daemon hears of last, or, when it
  has heard of all, its current one (`Kept`), and that the call to unregister is its last
  (`Leaves`).  `RegisteredAgentIsExported` alone is not inductive: a reply replaces the current
  skeleton, which is safe only if another success for the registered path is still to
  come.  The lemmas are about the two queues: what a call, a reply, a notice, the errors
  at the end of the helper do to each part.

**`RemoteStoreProofs`**, from `RemoteStoreAssumption`; no theorem has another premise:

* `RemoteStoreTypeOK` and, as an action property, `SuccessesAreReal`: from `TypeInv`, the types with
  what waits for the daemon (`InboxOK`, `AwaitedOK`: a call is waited for by the client that made
  it, and has no reply yet) and that a reply without an error stands for a call that was
  carried out (`ClientsOK`).
* `QueriesAreTheClientsOwn`, `QueriesNotKept`: from `Inv`, which adds that a path below the counter has
  one holder, a client with the `Query` or with the reply that brings it (`HandlesGiven`,
  `OneHolder`), and what the calls under way to remove a query are about (`RemovesOK`, `Removed`).
  Without these a removal that comes late could take another client's query.

**`LocalAgentsProofs`**, from `LocalAgentsAssumption` (`MaxPid \in Nat`, and data
directories of the right type) and `DesktopEntriesAssumption`:

* `LocalAgentsInvariant`: `IInv` is the type invariant with, among others, where the
  context lives and no session without it, that a provider is there only while it is in
  the context or about to be assigned to it, unless its session stopped too early,
  that what is waited for was started and not reaped, and that the state of the
  provider agrees with what the user did.  `CallbackContextIsAlive` alone is not
  inductive: it needs to know which steps of the call have a context; and
  `AnswerIsTheUsers` needs to know how a provider can have ended.
* `LocalAgentsTypeOK`, `ContextOutlivesSession`, `NoProviderIsLeft` and
  `AnswersFollowTheUser` follow from it, the last with lemmas about the translation of
  exit states (`TranslateExits`).  Of whiptail the theorem says only that what the user refused
  is not granted.
* `PromptShowsItsApp`: for any ids, any relation between them and any data directories,
  with the lemma `ResolveOK` about what the search returns.  Another's entry is shown only if
  the user's directory has no file named exactly after the id; an entry of its own that
  bears a version does not prevent it (section 6).

**`DaemonProcessProofs`**, from `ProcessAssumption`, for a pool of any size:

* `ProcessInvariant`: `IInv` is the type invariant with `OnePlace` (an operation is armed,
  ready, or with one thread), `StartedOnce` (`main()` starts only what is not under way
  yet), `AttemptsOK` (Mir is tried while attempts are left), `TokenOK` (when the Token's
  thread exists) and `StatusOK` (there is no status before `main()` has returned, and a
  daemon that succeeds has its io_service stopped by then).
  `OnePromptAtATime` alone is not inductive: that a thread which begins to ask is the
  only one needs that no second handler of the operation was ready or running before,
  and that needs that `main()` did not start the operation twice.
* `ProcessTypeOK`, `AtMostOnePrompt` and, as action properties, `DaemonStaysQuiet` and
  `FailuresOfTheStartAreReported` follow from it.  `DaemonStaysQuiet` is about handlers that
  begin after `main()`; those that are running go on until the workers are joined.

**Only model-checked**: the liveness properties `SendEnds`,
`SendEndsUnlessItsSkeletonThrew`, `CallEnds`, `DaemonIsReachedInTheEnd`,
`HandlersAreRun` and `ProcessEnds`: TLAPS does not support liveness under fairness.  All
invariants and action properties of the passing runs are proved.  The violations of
section 5 are counterexamples, which TLC shows.

## 5. Disagreements between code and documentation

Each is a run in which TLC shows the violation; `PROJECT.json` quotes the texts.

* `store_reused_id`: `erase()` deletes by a row id copied at `execute()`.  Ids are reused, so
  the row that goes can be a newer request that the query never showed
  (`trust/impl/sqlite3/store.cpp:643`).
* `daemon_other_user`: the daemon gives its remote agent the formatting agent, not the
  `PrivilegeEscalationPreventionAgent` built around it, so that requests of other users
  are processed (`trust/daemon.cpp:329`).
* `posix_unserialized`: nothing locks `Session::lock`; two threads that send for one user
  can read each other's answer (`trust/remote/posix.cpp:155`).
* `posix_silence`: when the skeleton's agent throws (the user's provider was killed, for
  one), nothing is answered and `send()` waits forever (`trust/remote/posix.cpp:302`).
* `local_agents_stop`: a session that stops before the provider's process is assigned to
  the context kills nothing, and the provider can still grant (`trust/mir/agent.cpp:312`).

## 6. Observations

Behaviour of the code that is worth knowing, beyond section 5.  The first group disagrees
with a text of the repository, which is quoted; the comments of the
properties and their hazards in `PROJECT.json` say which of these cases are excepted.

* `all()`, or a step that fails, takes a query's results away and leaves its status at
  `has_more_results`; `current()` then builds a request out of no row (`store.cpp:598-602`,
  `:649-675`).  `store.h:106` and `:122` have the status say whether there is a result.
* An empty application id is not bound, and bindings survive: `add` stores the request
  under the id bound last (`store.cpp:146`).  A feature wider than 32 bits is stored modulo
  2^32 but looked up with all 64, and never found again (`store.cpp:788`).  With either among
  the inputs TLC refutes `ImplementsRequestStore`.
* An answer is stamped when its call adds it, not when it is given: of two answers to
  overlapping calls, the one given first can be stamped last, and is taken from then on
  (`cached_agent.cpp:86`).  The comment at line 59 has "we take the most recent one as the most
  appropriate".
* An error on a dead session removes whatever session is registered for the user, also
  that of a daemon which has reconnected since (`posix.cpp:223`); line 216 takes these errors
  for "indications for the peer having gone away".
* Every exit status but failure grants, so that Escape in whiptail, which exits with 255,
  does (`terminal_agent.h:88`, and the same test in `mir/agent.cpp:206`).  `mir/agent.h:203` has
  a translator "that only returns Answer::granted if the prompt provider child process exits
  cleanly with status success"; `trust-prompt` has no third status, so that the Mir agent keeps
  to it.
* The prompt can show the name and icon of another application whose id begins with the
  id of the one that asks (`click_desktop_entry_app_info_resolver.cpp:52`), though
  `mir/agent.h:157` has "resolve maps app_id to a localized application name".
* The remote `reset()` hides that it failed (`resolve.cpp:222`); `store.h:71` has an exception
  for that.
* The predicate of the white list is a static that is younger than the `Runtime`, so that
  `exit()` destroys it before the workers are joined; a request that a worker still handles
  uses it (`daemon.cpp:318`).  `runtime.h:48` relies on "automatic cleanup of static instances".
* `runtime.h:43` says "Do not execute in parallel, serialize accesses" of `concurrency_hint`,
  which is 2; with the thread of the Token, three threads run handlers in parallel.
  `HandlersAreRun` depends on it: with one thread a prompt would hold up everything else.

No text of the repository speaks about the others.

* After a failed statement, the next call on it throws the old error and does nothing.
* When `add` fails, the user's answer is lost and the caller sees an exception (`request.cpp:63`).
* An answer given after the clock was set back can be passed over for an older one
  (`cached_agent.cpp:59`, `:86`).
* When a peer's credentials cannot be read, the helper accepts no further connection
  (`posix.cpp:205`).
* Closing the window of the prompt grants access (`prompt_main.cpp:55`), also when its
  contents did not load: `trust-prompt` exits with success then.
* The Mir agent asks Mir for a session of whatever pid the request has (`agent.cpp:266`);
  only its ancestors are checked to be ordinary processes.
* A provider that cannot be executed denies, without anybody having been asked.
* A whiptail that is stopped makes the terminal agent's call throw and stays behind.
* Without `~/.local/share/applications` the search for the desktop entry throws, also when
  the system has an entry, and the call fails.
* When `FD_CLOEXEC` cannot be cleared, the descriptor stays open (`agent.cpp:84`).
* Releasing a session can signal the pid of a provider already reaped (`agent.cpp:189`).
* The helper owns its name before its handlers are installed (`daemon.cpp:388`): the
  announcement of a daemon that is quick is refused, and not repeated until the helper
  starts again.  A name that appears between the first announcement and the connection
  to the watcher is missed (`remote/dbus.cpp:68`).  `DaemonIsReachedInTheEnd` excludes
  these daemons, and TLC finds a counterexample without each exclusion.
* A reply to an announcement that comes too late leaves an agent registered that is no
  longer exported (`agent_registry.h:209`).
* The registry is asked twice, with the lock released in between (`remote/dbus.cpp:39-42`).
* Paths of queries restart from zero with the daemon (`expose.cpp:191`): a `Query` from before
  leads to another client's.  Queries of clients that ended are kept (`expose.cpp:288`).
* Handlers of a query that throw send no reply (`expose.cpp:233`); on the thread of the Token
  (`expose.cpp:107`) the exception ends the daemon.
* On a signal the process joins its workers: one that waits for an answer to a prompt or a
  send keeps it from ending (`runtime.cpp:74`); hence the premise of `ProcessEnds`.
* The Token's thread runs handlers of the whole runtime without
  `execute_and_never_throw` (`expose.cpp:107`): an exception that a worker of the pool would
  swallow aborts the daemon there.  `main()` of the helper catches only
  `boost::exception`: most failures of its start abort it (`daemon_stub_main.cpp`).
* The helper's `main()` stops nothing before it returns: its handlers are started and run
  while static objects are destroyed, until the `Runtime` is (`daemon.cpp:556`).
* A line that makes the shell's agent throw is the last line the shell reads, and of
  several lines that arrive at once it handles one (`daemon.cpp:520-532`).
* The handlers of the bus agent and of the Token hold a raw `this` and can run while
  `main()` destroys it; those of the socket agent share ownership.
* The preseed tool does not strip versions from ids, as the daemon does: what is preseeded
  under a versioned id is not found.  Run again after a failure, it stamps all of its
  requests anew, so that they prevail over what the user decided in between.

## 7. What is not modelled

* The syntax of command lines; that parsing fails, and which options are missing, is.
* The per-user agent over the bus (`dbus/agent.cpp`), one call to a fixed object without a
  registry; a second daemon of the same user on the bus, which the code does not foresee:
  the last to announce itself is asked.
* The lifetimes of C++ objects, except the context of the Mir agent and the exported
  skeletons: see the observation about raw pointers.
* The layout of the prompt and the texts in it (`prompt_main.qml`, `i18n.cpp`), the codecs
  (`dbus/codec.h`): wording and type-directed conversion without control of their own.
* `xdg.cpp` beyond the data directories: nothing uses the rest.
* `mir/not_supported.cpp`, the stand-in of the Mir agent on systems without Mir: it throws.
* `reporter`s, which log.

## 8. Plan

Done: the store and its abstract specification; cached agent, chain and preseed tool;
socket agent; local agents with the prompt and the search for desktop entries; bus agent
with registration and withdrawal; store over the bus; both processes from start to end;
proofs of all invariants and action properties that the passing runs check.  Still to do:

1. Weaken the premises of the proofs: `ShortIds` to what the formatting agent and the preseed
   tool need of ids, and `Serialized` to the one user concerned.
2. Compose: `RemoteStore` over `TrustStore` in one module, so that a client's `Query` is
   shown to implement `RequestStore` for clients that do not survive the daemon.
