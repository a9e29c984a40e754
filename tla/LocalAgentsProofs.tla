------------------------- MODULE LocalAgentsProofs -------------------------
(***************************************************************************)
(* Proofs about LocalAgents: for processes and ancestors of any number.    *)
(***************************************************************************)
EXTENDS LocalAgents, TLAPS, WellFoundedInduction

\* While a call of the Mir agent is under way its context is there; once the
\* session has been released, and without a context, there is no session.
ContextOK ==
    /\ pc \in {"create", "parent", "fd", "exec", "assign", "close", "release", "destroy"} =>
          context # "gone"
    /\ pc \in {"idle", "done"} => context = "gone"
    /\ context = "gone" \/ pc = "destroy" => session = "none" /\ ~stopping

\* The callback has still to come for a provider that is there, or about to be
\* started, unless it came too early.
ProviderOK ==
    /\ pc \in {"create", "parent", "fd", "exec"} => child = "none" /\ context = "invalid"
    /\ context = "child" => child # "none"
    /\ \/ pc \in {"fd", "exec"}
       \/ context # "gone" /\ child \in {"running", "stopped"}
       => session = "started" \/ stopping \/ missed

\* What a call waits for is its own child, which nobody has reaped.
ChildOK == pc \in {"assign", "wait"} => child \notin {"none", "reaped"}

\* How the provider ended tells what the user did, and an answer is given when
\* it has been waited for.
UserOK ==
    /\ child = "success" => choice \in {"allow", "closed"}
    /\ child = "failure" => choice = "disallow" \/ prompt = "failed"
    /\ child = "other" => choice = "escaped" /\ prompt = "none"
    /\ pc \in {"create", "parent", "fd", "exec", "assign", "wait"} => outcome = "none"
    /\ outcome \in {"granted", "denied"} => child = "reaped"
    /\ AnswerIsTheUsers

IInv == TypeOK /\ ContextOK /\ ProviderOK /\ ChildOK /\ UserOK /\ ShownEntryIsTheApps

-----------------------------------------------------------------------------
\* The translation of an exit state is an outcome.
LEMMA TranslateType ==
    ASSUME NEW result
    PROVE  Translate(result) \in {"granted", "denied", "thrown"}
BY DEF Translate

\* What the exit states of a provider are translated to.
LEMMA TranslateExits ==
    /\ Translate("success") = "granted"
    /\ Translate("failure") = "denied"
    /\ Translate("other") = "granted"
    /\ Translate("killed") = "thrown"
    /\ Translate("stopped") = "thrown"
BY DEF Translate

\* A nonempty set of numbers has a first one.
LEMMA FirstOK ==
    ASSUME NEW S \in SUBSET Nat, S # {}
    PROVE  First(S) \in S
<1> DEFINE R == OpToRel(<, Nat)
<1>1. \E i \in S : \A j \in S : ~(<<j, i>> \in R)
  <2>1. IsWellFoundedOn(R, Nat)
    BY NatLessThanWellFounded
  <2> HIDE DEF R
  <2> QED
    BY <2>1, WFMin
<1>2. \A i, j \in Nat : i < j => <<i, j>> \in R
  BY DEF OpToRel
<1>3. \E i \in S : \A j \in S : i <= j
  <2>1. PICK i \in S : \A j \in S : ~(<<j, i>> \in R)
    BY <1>1
  <2> HIDE DEF R
  <2>2. ASSUME NEW j \in S PROVE i <= j
    <3>1. i \in Nat /\ j \in Nat
      OBVIOUS
    <3>2. ~(j < i)
      BY <2>1, <1>2, <3>1
    <3> QED
      BY <3>1, <3>2
  <2> QED
    BY <2>2
<1> QED
  BY <1>3 DEF First

\* The resolver finds the entry of the application, or that of one whose id
\* begins with its id, and this only without an exact match.
LEMMA ResolveOK ==
    ASSUME NEW d \in Data, NEW i \in Ids, Resolve(d, i) # Null
    PROVE  /\ Resolve(d, i) \in Ids
           /\ Resolve(d, i) = i \/ (<<i, Resolve(d, i)>> \in Longer /\ ~HasExact(d, i))
<1>1. d.home # Null
  BY DEF Resolve
<1>2. d.home \in Seq(File)
  BY <1>1 DEF Data
<1>3. CASE HasExact(d, i)
  BY <1>1, <1>3 DEF Resolve
<1>4. CASE ~HasExact(d, i) /\ Matches(d, i) # {}
  <2> DEFINE k == First(Matches(d, i))
  <2>1. Matches(d, i) \in SUBSET Nat
    BY <1>2 DEF Matches
  <2>2. k \in Matches(d, i)
    BY <2>1, <1>4, FirstOK
  <2>3. k \in DOMAIN d.home /\ StartsWith(d.home[k], i)
    BY <2>2 DEF Matches
  <2>4. d.home[k] \in File
    BY <1>2, <2>3
  <2>5. Resolve(d, i) = d.home[k].id
    BY <1>1, <1>4 DEF Resolve
  <2> HIDE DEF k
  <2> QED
    BY <1>4, <2>3, <2>4, <2>5 DEF StartsWith, File
<1>5. CASE ~HasExact(d, i) /\ Matches(d, i) = {}
  BY <1>1, <1>5 DEF Resolve
<1> QED
  BY <1>3, <1>4, <1>5

LEMMA InitOK == Init => IInv
<1> SUFFICES ASSUME Init PROVE IInv
  OBVIOUS
<1>1. 0 \in 0..MaxPid
  BY LocalAgentsAssumption
<1>2. TypeOK
  <2>1. stopping \in BOOLEAN /\ missed \in BOOLEAN
    BY Zenon DEF Init
  <2> QED
    BY <1>1, <2>1 DEF Init, TypeOK
<1>3. ContextOK
  BY DEF Init, ContextOK
<1>4. ProviderOK
  BY DEF Init, ProviderOK
<1>5. ChildOK
  BY DEF Init, ChildOK
<1>6. UserOK
  BY DEF Init, UserOK, AnswerIsTheUsers
<1>7. ShownEntryIsTheApps
  BY DEF Init, ShownEntryIsTheApps
<1> QED
  BY <1>2, <1>3, <1>4, <1>5, <1>6, <1>7 DEF IInv

LEMMA NextOK == IInv /\ [Next]_vars => IInv'
<1> SUFFICES ASSUME IInv, [Next]_vars PROVE IInv'
  OBVIOUS
<1> USE LocalAgentsAssumption, DesktopEntriesAssumption
    DEF IInv, TypeOK, ContextOK, ProviderOK, ChildOK, UserOK, AnswerIsTheUsers,
        ShownEntryIsTheApps, mir, call, user
<1>1. CASE UNCHANGED vars
  BY <1>1 DEF vars
<1>2. ASSUME NEW p \in 0..MaxPid, Authenticate(p) PROVE IInv'
  <2>2. missed' \in BOOLEAN
    BY <1>2, Zenon DEF Authenticate
  <2>3. TypeOK'
    BY <1>2, <2>2 DEF Authenticate, NoPrompt
  <2>4. ContextOK'
    BY <1>2 DEF Authenticate
  <2>5. ProviderOK'
    BY <1>2 DEF Authenticate
  <2>6. ChildOK' /\ UserOK' /\ ShownEntryIsTheApps'
    BY <1>2 DEF Authenticate, NoPrompt
  <2> QED
    BY <2>3, <2>4, <2>5, <2>6
<1>3. CASE TerminalAuthenticate
  BY <1>3 DEF TerminalAuthenticate, NoPrompt
<1>4. CASE TerminalThrows
  BY <1>4 DEF TerminalThrows, NoPrompt
<1>5. CASE CreateSession
  BY <1>5 DEF CreateSession
<1>6. CASE CreateSessionThrows
  BY <1>6 DEF CreateSessionThrows, Throw
<1>7. CASE FindParent
  BY <1>7 DEF FindParent
<1>8. CASE FindParentThrows
  BY <1>8 DEF FindParentThrows, Throw
<1>9. CASE NewFd
  BY <1>9 DEF NewFd
<1>10. CASE NewFdThrows
  BY <1>10 DEF NewFdThrows, Throw
<1>11. CASE Exec
  <2>1. entry' \in Ids /\ ShownEntryIsTheApps'
    BY <1>11, ResolveOK DEF Exec
  <2>2. TypeOK'
    BY <1>11, <2>1 DEF Exec
  <2>3. ContextOK' /\ ProviderOK' /\ ChildOK'
    BY <1>11 DEF Exec
  <2>4. UserOK'
    BY <1>11 DEF Exec
  <2> QED
    BY <2>1, <2>2, <2>3, <2>4
<1>12. CASE ExecThrows
  BY <1>12 DEF ExecThrows, Throw
<1>13. CASE Assign
  BY <1>13 DEF Assign
<1>14. CASE WaitFor
  <2>1. UserOK'
    BY <1>14, TranslateExits DEF WaitFor
  <2> QED
    BY <1>14, <2>1, TranslateType DEF WaitFor
<1>15. CASE CloseFd
  BY <1>15 DEF CloseFd
<1>16. CASE Release
  <2>1. TypeOK'
    <3>1. CASE session = "started"
      BY <1>16, <3>1 DEF Release
    <3>2. CASE session # "started"
      BY <1>16, <3>2 DEF Release
    <3> QED
      BY <3>1, <3>2
  <2>2. ContextOK'
    BY <1>16 DEF Release
  <2>3. ProviderOK' /\ ChildOK' /\ UserOK' /\ ShownEntryIsTheApps'
    BY <1>16 DEF Release
  <2> QED
    BY <2>1, <2>2, <2>3
<1>17. CASE Destroy
  BY <1>17 DEF Destroy
<1>18. CASE Provider
  <2>6. CASE ExecFails
    BY <2>6 DEF ExecFails, Ends
  <2>1. CASE PromptStarts
    BY <2>1 DEF PromptStarts, Ends
  <2>2. CASE PromptAborts
    BY <2>2 DEF PromptAborts, Ends
  <2>3. ASSUME NEW button \in {"allow", "disallow"}, PressButton(button) PROVE IInv'
    BY <2>3 DEF PressButton, Ends, Quits
  <2>4. CASE CloseWindow
    BY <2>4 DEF CloseWindow, Ends
  <2>5. CASE AnswerWhiptail
    BY <2>5 DEF AnswerWhiptail, Ends
  <2> QED
    BY <1>18, <2>1, <2>2, <2>3, <2>4, <2>5, <2>6 DEF Provider
<1>19. CASE SessionStops
  BY <1>19 DEF SessionStops
<1>20. CASE OnStateChanged
  <2>1. stopping' \in BOOLEAN /\ missed' \in BOOLEAN
    BY <1>20, Zenon DEF OnStateChanged
  <2>2. TypeOK'
    BY <1>20, <2>1 DEF OnStateChanged
  <2>3. ContextOK' /\ ProviderOK' /\ ChildOK'
    BY <1>20 DEF OnStateChanged
  <2>4. UserOK' /\ ShownEntryIsTheApps'
    BY <1>20 DEF OnStateChanged
  <2> QED
    BY <2>2, <2>3, <2>4
<1>21. CASE StopProvider
  BY <1>21 DEF StopProvider, Ends
<1> QED
  BY <1>1, <1>2, <1>3, <1>4, <1>5, <1>6, <1>7, <1>8, <1>9, <1>10, <1>11, <1>12, <1>13,
     <1>14, <1>15, <1>16, <1>17, <1>18, <1>19, <1>20, <1>21 DEF Next, Step

\* The inductive invariant holds throughout.
THEOREM LocalAgentsInvariant == Spec => []IInv
<1>1. Init => IInv
  BY InitOK
<1>2. IInv /\ [Next]_vars => IInv'
  BY NextOK
<1> QED
  BY <1>1, <1>2, PTL DEF Spec

\* Whatever Mir, the provider and failures do, the variables keep their types:
\* the outcome of a call is an answer or an exception.
THEOREM LocalAgentsTypeOK == Spec => []TypeOK
<1>1. IInv => TypeOK
  BY DEF IInv
<1> QED
  BY <1>1, LocalAgentsInvariant, PTL

\* The context that mir::Agent hands to Mir is there as long as Mir can call
\* back, on every path out of the call.
THEOREM ContextOutlivesSession == Spec => []CallbackContextIsAlive
<1>1. IInv => CallbackContextIsAlive
  BY DEF IInv, ContextOK, TypeOK, CallbackContextIsAlive
<1> QED
  BY <1>1, LocalAgentsInvariant, PTL

\* A call of the Mir agent that ends has no provider left, running or stopped:
\* the release of its session kills what wait_for() has not seen end, unless the
\* session had ended before the provider was known to the callback.
THEOREM NoProviderIsLeft == Spec => []ProviderEndsWithCall
<1>1. IInv => ProviderEndsWithCall
  BY DEF IInv, ContextOK, ProviderOK, TypeOK, ProviderEndsWithCall
<1> QED
  BY <1>1, LocalAgentsInvariant, PTL

\* Whatever becomes of the provider and of its session, a trust-prompt that was
\* shown gives the answer of the user, and one that was killed, stopped or crashed
\* gives none; a provider that could not be executed is a denial.  Of whiptail the
\* theorem says only that what the user refused is not granted.
THEOREM AnswersFollowTheUser == Spec => []AnswerIsTheUsers
<1>1. IInv => AnswerIsTheUsers
  BY DEF IInv, UserOK
<1> QED
  BY <1>1, LocalAgentsInvariant, PTL

\* Whatever files there are in the data directories, and in whichever order,
\* the prompt shows the entry of the application that asks, or of one whose id
\* begins with its id, the latter only when no file of the user's directory is
\* named exactly after the id.
THEOREM PromptShowsItsApp == Spec => []ShownEntryIsTheApps
<1>1. IInv => ShownEntryIsTheApps
  BY DEF IInv
<1> QED
  BY <1>1, LocalAgentsInvariant, PTL
=============================================================================
