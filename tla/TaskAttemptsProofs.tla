------------------------- MODULE TaskAttemptsProofs -------------------------
(***************************************************************************)
(* Proofs about TaskAttempts, for any number of retries, runs and crashes. *)
(* The inductive invariant says where the main thread can be while the     *)
(* agent runs and while the timer is armed, and what is known of the       *)
(* session once the thread has judged it: no thread takes that back.       *)
(***************************************************************************)
EXTENDS TaskAttempts, TLAPS

(* The timer is armed only while output is read. *)
TimerIsHeard == watchdog = "armed" => pc = "reading"

Tended == {"prompt", "arm", "reading", "unwind", "reap"}

(* The agent runs only under the eyes of the main thread, or after its end *)
(* by an exception. *)
AgentIsWatched ==
    /\ agent = "running" => pc \in Tended \cup {"uncaught"}
    /\ pc \in Tended => agent # "none"
    /\ pc \in {"decide", "adopt", "push"} => agent = "exited"

(* A session that timed out is not tried again. *)
NoTimeoutYet == pc \in Running => timeouts = 0

(* What was judged a success stays one. *)
Judged ==
    /\ pushed => pc = "success"
    /\ pc \in {"adopt", "push", "success"} =>
           /\ agent = "exited" /\ exitCode = 0 /\ answer = "passed"
           /\ ledger # <<>> /\ ledger[Len(ledger)] = "success"

IInv == TypeOK /\ TimerIsHeard /\ AgentIsWatched /\ NoTimeoutYet /\ Judged

-----------------------------------------------------------------------------
LEMMA OutcomeType == TypeOK => Outcome \in Error \cup {"none"}
BY DEF TypeOK, Outcome, Error

LEMMA Retries == MaxRetries \in Nat
BY AttemptsAssumption

LEMMA InitInv == Init => IInv
<1> SUFFICES ASSUME Init PROVE IInv
  OBVIOUS
<1>1. TypeOK
  <2>1. output \subseteq {"agent", "helper"} /\ ledger \in Seq({"running", "timeout", "crashed", "success"})
    BY DEF Init
  <2>2. pc \in Ended /\ attempt \in 0..(MaxRetries + 1) /\ timeouts \in 0..(MaxRetries + 1)
    BY Retries DEF Init, Ended
  <2>3. /\ exitCode \in {-9, 0, 1} /\ answer \in {"none", "passed", "failed"}
        /\ watchdog \in {"off", "armed", "polled", "killing", "spent"} /\ timedOut \in BOOLEAN
        /\ agent \in {"none", "running", "exited"}
    BY DEF Init
  <2>5. pc \notin Running
    BY DEF Init, Running
  <2>4. openPr \in BOOLEAN /\ pushed \in BOOLEAN /\ runs \in Nat /\ crashes \in Nat /\ pc = "new"
        /\ lastError \in Error \cup {"none"}
    BY DEF Init
  <2> QED
    BY <2>1, <2>2, <2>3, <2>4, <2>5 DEF TypeOK
<1>2. TimerIsHeard /\ AgentIsWatched /\ NoTimeoutYet /\ Judged
  BY DEF Init, TimerIsHeard, AgentIsWatched, NoTimeoutYet, Judged, Running, Tended
<1> QED
  BY <1>1, <1>2 DEF IInv

LEMMA NoSessionType ==
    ASSUME NoSession
    PROVE  /\ agent' \in {"none", "running", "exited"}
           /\ output' \subseteq {"agent", "helper"}
           /\ exitCode' \in {-9, 0, 1} /\ answer' \in {"none", "passed", "failed"}
           /\ watchdog' \in {"off", "armed", "polled", "killing", "spent"} /\ timedOut' \in BOOLEAN
<1>1. output' \subseteq {"agent", "helper"}
  BY DEF NoSession
<1> QED
  BY <1>1 DEF NoSession

(* An attempt begins. *)
LEMMA BeginStep ==
    IInv /\ (\/ Start \/ ClaudeNotFound \/ OpenInvocation \/ Spawn
             \/ WritePrompt \/ StartTimer)
    => IInv'
<1> SUFFICES ASSUME IInv, \/ Start \/ ClaudeNotFound \/ OpenInvocation \/ Spawn
                          \/ WritePrompt \/ StartTimer
             PROVE  IInv'
  OBVIOUS
<1> USE AttemptsAssumption DEF IInv, TypeOK, TimerIsHeard, AgentIsWatched, NoTimeoutYet, Judged,
        Ended, Running, Tended, Error, loop, session, bounds
<1>1. CASE Start
  <2>1. TypeOK'
    <3>1. NoSession
      BY <1>1 DEF Start
    <3>2. /\ pc' = "open" /\ attempt' = 1 /\ timeouts' = 0 /\ lastError' = "none"
          /\ runs' \in Nat /\ pushed' = FALSE /\ UNCHANGED <<openPr, ledger, crashes>>
      BY <1>1 DEF Start
    <3>3. 1 \in 0..(MaxRetries + 1) /\ 0 \in 0..(MaxRetries + 1)
      BY Retries
    <3> HIDE DEF NoSession
    <3> QED
      BY <3>1, <3>2, <3>3, NoSessionType
  <2>2. (TimerIsHeard /\ AgentIsWatched /\ NoTimeoutYet /\ Judged)'
    BY <1>1 DEF Start, NoSession
  <2> QED
    BY <2>1, <2>2
<1>2. CASE ClaudeNotFound
  BY <1>2 DEF ClaudeNotFound, Goes
<1>3. CASE OpenInvocation
  BY <1>3 DEF OpenInvocation, Goes
<1>4. CASE Spawn
  BY <1>4 DEF Spawn, Goes
<1>5. CASE WritePrompt
  BY <1>5 DEF WritePrompt, Goes
<1>6. CASE StartTimer
  BY <1>6 DEF StartTimer, Goes
<1> QED
  BY <1>1, <1>2, <1>3, <1>4, <1>5, <1>6

(* A row of the ledger is closed. *)
LEMMA ClosedLedger ==
    ASSUME TypeOK, ledger # <<>>, NEW s \in {"timeout", "crashed", "success"}, CloseInvocation(s)
    PROVE  /\ ledger' \in Seq({"running", "timeout", "crashed", "success"})
           /\ ledger' # <<>>
BY DEF TypeOK, CloseInvocation

(* An attempt ends, and is judged. *)
LEMMA EndStep ==
    IInv /\ (SpawnFails \/ PromptFails \/ EndOfOutput \/ ReadFails \/ Reap \/ Unwind) => IInv'
<1> SUFFICES ASSUME IInv, \/ SpawnFails \/ PromptFails
                          \/ EndOfOutput \/ ReadFails \/ Reap \/ Unwind
             PROVE  IInv'
  OBVIOUS
<1> USE AttemptsAssumption DEF IInv, TimerIsHeard, AgentIsWatched, NoTimeoutYet, Judged,
        Ended, Running, Tended, Error, loop, session, bounds
<1>1. CASE SpawnFails
  <2>1. ledger' \in Seq({"running", "timeout", "crashed", "success"})
    BY <1>1, ClosedLedger DEF SpawnFails, Goes, TypeOK
  <2> QED
    BY <1>1, <2>1 DEF SpawnFails, Goes, TypeOK
<1>5. CASE PromptFails
  <2>1. ledger' \in Seq({"running", "timeout", "crashed", "success"})
    BY <1>5, ClosedLedger DEF PromptFails, Goes, TypeOK
  <2> QED
    BY <1>5, <2>1 DEF PromptFails, Goes, TypeOK
<1>2. CASE EndOfOutput
  BY <1>2 DEF EndOfOutput, CancelTimer, Goes, TypeOK
<1>6. CASE ReadFails
  BY <1>6 DEF ReadFails, CancelTimer, Goes, TypeOK
<1>3. CASE Reap
  BY <1>3 DEF Reap, EndAgent, Killed, Goes, TypeOK
<1>4. CASE Unwind
  <2>1. ledger' \in Seq({"running", "timeout", "crashed", "success"})
    BY <1>4, ClosedLedger DEF Unwind, Goes, TypeOK
  <2> QED
    BY <1>4, <2>1 DEF Unwind, EndAgent, Killed, Goes, TypeOK
<1> QED
  BY <1>1, <1>2, <1>3, <1>4, <1>5, <1>6

LEMMA DecideStep == IInv /\ Decide => IInv'
<1> SUFFICES ASSUME IInv, Decide PROVE IInv'
  OBVIOUS
<1> DEFINE soFar == timeouts + (IF timedOut THEN 1 ELSE 0)
           again == Outcome # "none" /\ ShouldRetry(Outcome, attempt, soFar)
<1>1. /\ pc = "decide" /\ UNCHANGED <<openPr, runs, crashes, session, pushed>>
      /\ pc' = IF Outcome = "none" THEN "adopt" ELSE IF again THEN "open" ELSE "exhausted"
      /\ lastError' = Outcome
      /\ timeouts' = soFar
      /\ attempt' = IF again THEN attempt + 1 ELSE attempt
  BY DEF Decide, Goes, bounds
<1>2. timeouts = 0 /\ soFar \in {0, 1} /\ (timedOut => soFar = 1) /\ (~ timedOut => soFar = 0)
  BY <1>1 DEF IInv, TypeOK, NoTimeoutYet, Running
<1>3. again => attempt <= MaxRetries /\ ~ timedOut
  BY <1>2 DEF ShouldRetry, TimeoutRetryLimit, Outcome
<1>4. attempt' \in 0..(MaxRetries + 1) /\ timeouts' \in 0..(MaxRetries + 1)
  BY <1>1, <1>2, <1>3, AttemptsAssumption DEF IInv, TypeOK
<1>5. /\ ledger' \in Seq({"running", "timeout", "crashed", "success"})
      /\ ledger' # <<>>
  <2>1. TypeOK /\ ledger # <<>>
    BY <1>1 DEF IInv, TypeOK, Running
  <2>2. PICK s \in {"timeout", "crashed", "success"} : CloseInvocation(s)
    BY DEF Decide
  <2> QED
    BY <2>1, <2>2, ClosedLedger
<1>6. lastError' \in Error \cup {"none"}
  BY <1>1, OutcomeType DEF IInv
<1>7. pc' \in {"adopt", "open", "exhausted"}
  BY <1>1
<1>8. TypeOK'
  BY <1>1, <1>4, <1>5, <1>6, <1>7 DEF IInv, TypeOK, session, Ended, Running
<1>9. TimerIsHeard' /\ AgentIsWatched'
  BY <1>1, <1>7 DEF IInv, TimerIsHeard, AgentIsWatched, Tended, session
<1>10. NoTimeoutYet'
  BY <1>1, <1>2, <1>3 DEF NoTimeoutYet, Running, Outcome
<1>11. Judged'
  <2>1. CASE Outcome = "none"
    <3>1. ~ timedOut /\ exitCode = 0 /\ answer = "passed" /\ ledger # <<>>
      BY <1>1, <2>1 DEF Outcome, IInv, TypeOK, Running
    <3>2. ledger' = [ledger EXCEPT ![Len(ledger)] = "success"]
      BY <3>1 DEF Decide, CloseInvocation
    <3>3. ledger'[Len(ledger')] = "success"
      BY <3>1, <3>2 DEF IInv, TypeOK
    <3> QED
      BY <1>1, <1>5, <2>1, <3>1, <3>3 DEF IInv, Judged, AgentIsWatched, session
  <2>2. CASE Outcome # "none"
    BY <1>1, <2>2 DEF IInv, Judged, session
  <2> QED
    BY <2>1, <2>2
<1> QED
  BY <1>8, <1>9, <1>10, <1>11 DEF IInv

(* The result is adopted. *)
LEMMA AdoptStep == IInv /\ (AdoptBlocked \/ Adopt \/ Push) => IInv'
<1> SUFFICES ASSUME IInv, AdoptBlocked \/ Adopt \/ Push PROVE IInv'
  OBVIOUS
<1> USE AttemptsAssumption DEF IInv, TypeOK, TimerIsHeard, AgentIsWatched, NoTimeoutYet, Judged,
        Ended, Running, Tended, Error, loop, session, bounds
<1>1. CASE AdoptBlocked
  BY <1>1 DEF AdoptBlocked, Goes
<1>2. CASE Adopt
  BY <1>2 DEF Adopt, Goes
<1>3. CASE Push
  BY <1>3 DEF Push, Goes
<1> QED
  BY <1>1, <1>2, <1>3

(* The watchdog changes nothing of an attempt that was judged a success. *)
LEMMA WatchdogStep == IInv /\ Watchdog => IInv'
<1> SUFFICES ASSUME IInv, Watchdog PROVE IInv'
  OBVIOUS
<1> USE AttemptsAssumption DEF IInv, TypeOK, TimerIsHeard, AgentIsWatched, NoTimeoutYet, Judged,
        Ended, Running, Tended, Error, loop, bounds, Elsewhere
<1>1. CASE TimeIsUp
  BY <1>1 DEF TimeIsUp
<1>2. CASE KillTree
  <2>1. CASE agent = "running"
    BY <1>2, <2>1 DEF KillTree, Killed
  <2>2. CASE agent # "running"
    <3>1. /\ watchdog' = "spent"
          /\ UNCHANGED <<pc, openPr, attempt, timeouts, lastError, agent, output, exitCode,
                         answer, timedOut, ledger, pushed, runs, crashes>>
      BY <1>2, <2>2 DEF KillTree
    <3> QED
      BY <3>1
  <2> QED
    BY <2>1, <2>2
<1>3. CASE SetTimedOut
  BY <1>3 DEF SetTimedOut
<1> QED
  BY <1>1, <1>2, <1>3 DEF Watchdog

(* Nor does the agent, which does not run any more, or what it left. *)
LEMMA AgentStep == IInv /\ Agent => IInv'
<1> SUFFICES ASSUME IInv, Agent PROVE IInv'
  OBVIOUS
<1> USE AttemptsAssumption DEF IInv, TypeOK, TimerIsHeard, AgentIsWatched, NoTimeoutYet, Judged,
        Ended, Running, Tended, Error, loop, bounds, Elsewhere
<1>1. CASE AgentPrintsAnswer
  BY <1>1 DEF AgentPrintsAnswer
<1>2. CASE AgentStartsHelper
  BY <1>2 DEF AgentStartsHelper
<1>3. CASE AgentClosesOutput
  BY <1>3 DEF AgentClosesOutput
<1>4. CASE AgentExits
  BY <1>4 DEF AgentExits
<1>5. CASE HelperExits
  BY <1>5 DEF HelperExits
<1> QED
  BY <1>1, <1>2, <1>3, <1>4, <1>5 DEF Agent

LEMMA CrashStep == IInv /\ Crash => IInv'
<1> SUFFICES ASSUME IInv, Crash PROVE IInv'
  OBVIOUS
<1>1. TypeOK'
  <2>1. NoSession /\ pc' = "killed" /\ crashes' \in Nat /\ UNCHANGED <<openPr, loop, ledger, pushed, runs>>
    BY DEF IInv, TypeOK, Crash
  <2> QED
    BY <2>1, NoSessionType DEF IInv, TypeOK, loop, Ended, Running
<1>2. (TimerIsHeard /\ AgentIsWatched /\ NoTimeoutYet)'
  BY DEF TimerIsHeard, AgentIsWatched, NoTimeoutYet, Crash, NoSession, Running, Tended
<1>3. Judged'
  BY DEF IInv, Judged, Running, Crash, NoSession, loop
<1> QED
  BY <1>1, <1>2, <1>3 DEF IInv

LEMMA Step == IInv /\ [Next]_vars => IInv'
<1> SUFFICES ASSUME IInv, [Next]_vars PROVE IInv'
  OBVIOUS
<1>1. CASE UNCHANGED vars
  BY <1>1 DEF vars, IInv, TypeOK, TimerIsHeard, AgentIsWatched, NoTimeoutYet, Judged
<1> QED
  BY <1>1, BeginStep, EndStep, DecideStep, AdoptStep, WatchdogStep, AgentStep, CrashStep
  DEF Next, Main, Timely

LEMMA Invariance == Spec => []IInv
BY InitInv, Step, PTL DEF Spec

-----------------------------------------------------------------------------
(* The variables of a C2 run keep their types; no run makes more attempts  *)
(* than it may (_run_attempts, should_retry).                              *)
THEOREM TypeCorrectness == Spec => []TypeOK
<1>1. IInv => TypeOK
  BY DEF IInv
<1> QED
  BY Invariance, <1>1, PTL

(* Success is reported, and a branch pushed, only for a session that was   *)
(* one, and is one in the ledger, whatever the timer finds and sets between*)
(* the answer, the exit and the judgement (_run_attempts, _watchdog).      *)
THEOREM SuccessesAreEarned == Spec => []SuccessIsEarned
<1>1. IInv => SuccessIsEarned
  BY DEF IInv, Judged, SuccessIsEarned
<1> QED
  BY Invariance, <1>1, PTL

(* No agent outlives its attempt, unless its run is killed or ends by an   *)
(* exception (run_session).                                                *)
THEOREM AgentsAreReaped == Spec => []AgentReaped
<1>1. IInv => AgentReaped
  BY DEF IInv, AgentIsWatched, AgentReaped, Tended
<1> QED
  BY Invariance, <1>1, PTL

=============================================================================
