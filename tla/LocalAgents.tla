---------------------------- MODULE LocalAgents ----------------------------
(***************************************************************************)
(* The local agents, which prompt the user: mir::Agent (mir/agent.cpp) and *)
(* TerminalAgent (terminal_agent.h).  A call starts a prompt provider in a *)
(* child process and translates the way it ends into an answer.  The Mir   *)
(* agent shows the provider within a prompt session of the requesting      *)
(* application; Mir reports the end of the session on a thread of its own, *)
(* and the callback kills the provider through a context that lives on the *)
(* stack of the call.  The provider of the Mir agent is the repository's   *)
(* own trust-prompt (mir/prompt_main.cpp, prompt_main.qml), that of the    *)
(* terminal agent is whiptail.                                             *)
(*                                                                         *)
(* Calls share no state, so one call is modelled.  Mir, the processes and  *)
(* the user are external.  What the code relies on: Mir delivers callbacks *)
(* one at a time, and releasing a session stops it and returns when the    *)
(* callback is done.  ChildProcess::invalid() is the process 1, which may  *)
(* not be signalled.                                                       *)
(***************************************************************************)
EXTENDS DesktopEntries

CONSTANTS
    MaxPid,    \* bound: pids are 0..MaxPid; parents have smaller ones
    Datas      \* bound: the data directories that are considered

ASSUME LocalAgentsAssumption ==
    /\ MaxPid \in Nat
    /\ Datas \subseteq Data

VARIABLES
    pc,         \* where the call is
    id,         \* the id of the requesting application
    pid,        \* the process Mir is asked about
    data,       \* the data directories
    apps,       \* the processes that have a Mir session
    session,    \* the prompt session
    stopping,   \* a callback for its end is due
    context,    \* cb_context: gone, or which process it holds
    fd,         \* the provider's pre-authenticated descriptor in this process
    child,      \* the provider
    prompt,     \* trust-prompt: none, starting, shown, or blind without its contents;
                \* failed if the provider, of either agent, was never executed
    entry,      \* whose desktop entry it shows
    outcome,    \* of the call
    \* Not in the code, for the properties:
    choice,     \* what the user did
    missed      \* the session's end was handled too early to reach the provider

mir == <<apps, session, stopping>>
call == <<id, data>>
user == <<prompt, entry, choice>>
vars == <<pc, call, pid, mir, context, fd, child, user, outcome, missed>>

Init ==
    /\ pc = "idle"
    /\ id \in Ids
    /\ data \in Datas
    /\ pid = 0
    /\ apps \in SUBSET (2..MaxPid)
    /\ session = "none"
    /\ stopping = FALSE
    /\ context = "gone"
    /\ fd = "none"
    /\ child = "none"
    /\ prompt = "none"
    /\ entry = Null
    /\ choice = "none"
    /\ outcome = "none"
    /\ missed = FALSE

-----------------------------------------------------------------------------
(* mir::Agent::authenticate_request_with_parameters.                       *)

NoPrompt == prompt' = "none" /\ entry' = Null /\ choice' = "none"

\* The context starts with an invalid process; the pid of the request goes to Mir
\* as it is.
Authenticate(p) ==
    /\ pc \in {"idle", "done"}
    /\ pc' = "create"
    /\ pid' = p
    /\ context' = "invalid"
    /\ fd' = "none"
    /\ child' = "none"
    /\ NoPrompt
    /\ outcome' = "none"
    /\ missed' = FALSE
    /\ UNCHANGED <<call, mir>>

\* An exception unwinds the stack from the destructor of Scope on.
Throw(at) ==
    /\ pc = at
    /\ pc' = "close"
    /\ outcome' = "thrown"
    /\ UNCHANGED <<call, pid, apps, stopping, context, child, user, missed>>

\* A session that could not be created for lack of an application session is
\* kept until the next one replaces it.
CreateSession ==
    /\ pc = "create"
    /\ IF pid \in apps
       THEN session' = "started" /\ pc' = "fd"
       ELSE session' = "error" /\ pc' = "parent"
    /\ UNCHANGED <<call, pid, apps, stopping, context, fd, child, user, outcome, missed>>

\* A null session, or any other error.
CreateSessionThrows ==
    /\ Throw("create")
    /\ session' \in {"none", "error"}
    /\ UNCHANGED fd

\* Mutant: the parent of the requesting process is taken every time.
FindParentAgain ==
    /\ pc = "parent"
    /\ pc' = "create"
    /\ UNCHANGED <<call, pid, mir, context, fd, child, user, outcome, missed>>

FindParent ==
    /\ pc = "parent"
    /\ \E p \in 0..pid - 1 : p > 1 /\ pid' = p
    /\ pc' = "create"
    /\ UNCHANGED <<call, mir, context, fd, child, user, outcome, missed>>

\* The parent is init or the kernel, or the process is gone.
FindParentThrows == Throw("parent") /\ UNCHANGED <<session, fd>>

NewFd ==
    /\ pc = "fd"
    /\ pc' = "exec"
    /\ fd' = "open"
    /\ UNCHANGED <<call, pid, mir, context, child, user, outcome, missed>>

\* Mir has none; or FD_CLOEXEC cannot be cleared, and the descriptor is lost.
NewFdThrows ==
    /\ Throw("fd")
    /\ fd' \in {"none", "lost"}
    /\ UNCHANGED session

\* app_info_resolver->resolve() and exec_prompt_provider_with_arguments().
Exec ==
    /\ pc = "exec"
    /\ Resolve(data, id) # Null
    /\ pc' = "assign"
    /\ entry' = Resolve(data, id)
    /\ prompt' = "starting"
    /\ child' = "running"
    /\ UNCHANGED <<call, pid, mir, context, fd, choice, outcome, missed>>

\* There is no entry, or it has no name or no icon that is a file with an
\* absolute path, or the provider cannot be started.
ExecThrows == Throw("exec") /\ UNCHANGED <<session, fd>>

\* The assignment to cb_context.prompt_provider_process.
Assign ==
    /\ pc = "assign"
    /\ pc' = "wait"
    /\ context' = "child"
    /\ UNCHANGED <<call, pid, mir, fd, child, user, outcome, missed>>

\* Mutant: the result of the wait is handed on as it is.
TranslateNothing(result) == result

\* translator_only_accepting_exit_status_success.
Translate(result) ==
    CASE result \in {"killed", "stopped"} -> "thrown"
      [] result = "failure"              -> "denied"
      [] OTHER                           -> "granted"

\* wait_for(untraced) also returns when the process is stopped by a signal.
\* The terminal agent has nothing to clean up.
WaitFor ==
    /\ pc = "wait"
    /\ child # "running"
    /\ pc' = IF context = "gone" THEN "done" ELSE "close"
    /\ outcome' = Translate(child)
    /\ child' = IF child = "stopped" THEN child ELSE "reaped"
    /\ UNCHANGED <<call, pid, mir, context, fd, user, missed>>

\* ~Scope, then ~PromptSessionVirtualTable, then the context.
CloseFd ==
    /\ pc = "close"
    /\ pc' = "release"
    /\ fd' = IF fd = "open" THEN "closed" ELSE fd
    /\ UNCHANGED <<call, pid, mir, context, child, user, outcome, missed>>

\* Mutant: the context goes before the session.
ReleaseAfterContext ==
    /\ pc = "release"
    /\ IF context = "gone"
       THEN /\ ~stopping
            /\ session' = "none"
            /\ pc' = "destroy"
            /\ UNCHANGED <<stopping, context>>
       ELSE /\ context' = "gone"
            /\ stopping' = (stopping \/ session = "started")
            /\ session' = IF session = "started" THEN "stopped" ELSE session
            /\ UNCHANGED pc
    /\ UNCHANGED <<call, pid, apps, fd, child, user, outcome, missed>>

\* mir_prompt_session_release_sync.
Release ==
    /\ pc = "release"
    /\ IF session = "started"
       THEN /\ session' = "stopped"
            /\ stopping' = TRUE
            /\ UNCHANGED pc
       ELSE /\ ~stopping
            /\ session' = "none"
            /\ pc' = "destroy"
            /\ UNCHANGED stopping
    /\ UNCHANGED <<call, pid, apps, context, fd, child, user, outcome, missed>>

Destroy ==
    /\ pc = "destroy"
    /\ pc' = "done"
    /\ context' = "gone"
    /\ UNCHANGED <<call, pid, mir, fd, child, user, outcome, missed>>

-----------------------------------------------------------------------------
(* TerminalAgent: whiptail in a child process, no session and no context.  *)

TerminalAuthenticate ==
    /\ pc \in {"idle", "done"}
    /\ pc' = "wait"
    /\ fd' = "none"
    /\ child' = "running"
    /\ NoPrompt
    /\ outcome' = "none"
    /\ missed' = FALSE
    /\ UNCHANGED <<call, pid, mir, context>>

TerminalThrows ==
    /\ pc \in {"idle", "done"}
    /\ pc' = "done"
    /\ fd' = "none"
    /\ child' = "none"
    /\ NoPrompt
    /\ outcome' = "thrown"
    /\ missed' = FALSE
    /\ UNCHANGED <<call, pid, mir, context>>

-----------------------------------------------------------------------------
(* The surroundings.                                                       *)

Ends(how) ==
    /\ child' = how
    /\ UNCHANGED <<pc, call, pid, mir, context, fd, entry, outcome, missed>>

\* execve fails in the forked child, which exits with failure: the parent sees a
\* provider that ended.
ExecFails ==
    /\ child = "running"
    /\ prompt \in {"none", "starting"}
    /\ prompt' = "failed"
    /\ UNCHANGED choice
    /\ Ends("failure")

\* prompt_main() of trust-prompt up to app.exec().  Without a root object there
\* is only an empty window.
PromptStarts ==
    /\ child = "running"
    /\ prompt = "starting"
    /\ prompt' \in {"shown", "blind"}
    /\ UNCHANGED choice
    /\ Ends(child)

\* It is left by an exception, or Qt gives up.
PromptAborts ==
    /\ child = "running"
    /\ prompt = "starting"
    /\ UNCHANGED <<prompt, choice>>
    /\ Ends("killed")

\* Mutant: the button has an exit status of its own.
QuitsWithTwo(button) == IF button = "allow" THEN "success" ELSE "other"

\* quit(int) of prompt_main.qml, and SignalTrap::quit.
Quits(button) == IF button = "allow" THEN "success" ELSE "failure"

PressButton(button) ==
    /\ child = "running"
    /\ prompt = "shown"
    /\ choice' = button
    /\ UNCHANGED prompt
    /\ Ends(Quits(button))

\* The last window is closed: app.exec() returns 0.
CloseWindow ==
    /\ child = "running"
    /\ prompt \in {"shown", "blind"}
    /\ choice' = "closed"
    /\ UNCHANGED prompt
    /\ Ends("success")

\* whiptail: a button, or the escape key, with an exit status of its own.
AnswerWhiptail ==
    /\ child = "running"
    /\ prompt = "none"
    /\ \E answer \in {<<"allow", "success">>, <<"disallow", "failure">>, <<"escaped", "other">>} :
          choice' = answer[1] /\ Ends(answer[2])
    /\ UNCHANGED prompt

\* The provider is stopped by a signal from somewhere else.
StopProvider ==
    /\ child = "running"
    /\ UNCHANGED <<prompt, choice>>
    /\ Ends("stopped")

\* The application goes away, the user leaves the session...
SessionStops ==
    /\ session = "started"
    /\ session' = "stopped"
    /\ stopping' = TRUE
    /\ UNCHANGED <<pc, call, pid, apps, context, fd, child, user, outcome, missed>>

\* Mutant: the callback sends SIGTERM, which a stopped process does not take.
OnStateChangedTerm ==
    /\ stopping
    /\ stopping' = FALSE
    /\ child' = IF context = "child" /\ child = "running" THEN "killed" ELSE child
    /\ missed' = (missed \/ (context = "invalid" /\ child \in {"none", "running", "stopped"}))
    /\ UNCHANGED <<pc, call, pid, apps, session, context, fd, user, outcome>>

\* on_trust_session_changed_state.  SIGKILL reaches the provider only through
\* the context, which the call assigns without a lock: the callback finds the
\* old or the new process there.  A reaped child has no process any more.
OnStateChanged ==
    /\ stopping
    /\ stopping' = FALSE
    /\ child' = IF context = "child" /\ child \in {"running", "stopped"} THEN "killed" ELSE child
    /\ missed' = (missed \/ (context = "invalid" /\ child \in {"none", "running", "stopped"}))
    /\ UNCHANGED <<pc, call, pid, apps, session, context, fd, user, outcome>>

Step ==
    \/ CreateSession \/ CreateSessionThrows
    \/ FindParent \/ FindParentThrows
    \/ NewFd \/ NewFdThrows
    \/ Exec \/ ExecThrows
    \/ Assign \/ WaitFor
    \/ CloseFd \/ Release \/ Destroy

Provider ==
    \/ ExecFails
    \/ PromptStarts \/ PromptAborts
    \/ \E button \in {"allow", "disallow"} : PressButton(button)
    \/ CloseWindow \/ AnswerWhiptail

Next ==
    \/ \E p \in 0..MaxPid : Authenticate(p)
    \/ TerminalAuthenticate \/ TerminalThrows
    \/ Step
    \/ Provider \/ StopProvider
    \/ SessionStops
    \/ OnStateChanged

\* The calling thread and Mir's thread are scheduled, and the user answers.
Spec ==
    /\ Init /\ [][Next]_vars
    /\ WF_vars(Step)
    /\ WF_vars(OnStateChanged)
    /\ WF_vars(Provider)

-----------------------------------------------------------------------------
(* Properties.                                                             *)

TypeOK ==
    /\ pc \in {"idle", "create", "parent", "fd", "exec", "assign", "wait",
              "close", "release", "destroy", "done"}
    /\ id \in Ids
    /\ data \in Datas
    /\ pid \in 0..MaxPid
    /\ apps \subseteq 2..MaxPid
    /\ session \in {"none", "error", "started", "stopped"}
    /\ stopping \in BOOLEAN
    /\ context \in {"gone", "invalid", "child"}
    /\ fd \in {"none", "open", "lost", "closed"}
    /\ child \in {"none", "running", "success", "failure", "other", "stopped", "killed", "reaped"}
    /\ prompt \in {"none", "starting", "shown", "blind", "failed"}
    /\ entry \in Ids \cup {Null}
    /\ choice \in {"none", "allow", "disallow", "closed", "escaped"}
    /\ outcome \in {"none", "granted", "denied", "thrown"}
    /\ missed \in BOOLEAN

\* The callback uses a pointer to a local variable of the call: as long as Mir
\* can call it, that variable is there.
CallbackContextIsAlive ==
    stopping \/ session = "started" => context # "gone"

\* A call of the Mir agent leaves no provider behind, although wait_for() also
\* returns when the provider is stopped by a signal: releasing the session has
\* the callback kill it before the call ends.  Excluded is a session whose end
\* was handled before the provider was assigned, see NoGrantAfterStop.  The
\* terminal agent has no session, and leaves a stopped whiptail behind.
ProviderEndsWithCall ==
    pc = "destroy" /\ ~missed => child \notin {"running", "stopped"}

\* Access is denied only if the user said so or the provider could not be
\* executed.  It is never granted against the user, nor for a provider that
\* crashed, was killed, or was not seen; and the Mir agent grants only when
\* trust-prompt exited with success, because the user allowed it or closed the
\* window.  The same is not claimed of whiptail, whose escape key is a grant for
\* the terminal agent, which tests for the exit status failure alone.
AnswerIsTheUsers ==
    /\ outcome = "denied" => choice = "disallow" \/ prompt = "failed"
    /\ outcome = "granted" => choice \notin {"none", "disallow"}
    /\ outcome = "granted" /\ prompt # "none" => choice \in {"allow", "closed"}

\* A prompt shows the name and icon of the application that asks.  The one way
\* to another's is an id that begins with this one's, when no file of the user's
\* directory is named exactly after this one: an entry of its own that bears a
\* version, or lies in another directory, does not prevent it.
ShownEntryIsTheApps ==
    entry # Null /\ entry # id => <<id, entry>> \in Longer /\ ~HasExact(data, id)

\* Every call ends, whenever the session stops, once the provider does.
CallEnds == pc \notin {"idle", "done"} ~> pc = "done"

\* agent.cpp on the callback: "We hereby ensure that we never return
\* Answer::granted unless the prompt provider cleanly exited prior to the trust
\* session stopping."
NoGrantAfterStop == missed => outcome # "granted"
=============================================================================
