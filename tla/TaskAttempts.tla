---------------------------- MODULE TaskAttempts ----------------------------
(***************************************************************************)
(* One C2 run of a task: the attempts of _run_attempts, each a headless    *)
(* agent session of run_session with its watchdog thread and its rows in   *)
(* the cost ledger, and the adoption of the result by _finalize_success.   *)
(* The run holds the lock of its worktree throughout (module PidLock); it  *)
(* may be killed and started again.                                        *)
(*                                                                         *)
(* Four threads of control meet here: the main thread, the watchdog, the   *)
(* agent's process, and the processes the agent leaves behind, which share *)
(* the agent's standard output.                                            *)
(***************************************************************************)
EXTENDS Integers, Sequences, FiniteSets

CONSTANTS
    MaxRetries,     \* of the TaskInput
    MaxRuns,        \* bound: times the run is started
    MaxCrashes      \* bound: times it is killed

ASSUME AttemptsAssumption == {MaxRetries, MaxRuns, MaxCrashes} \subseteq Nat

VARIABLES
    pc,
    openPr,         \* of the TaskInput: push the branch and open a pull request
    attempt,
    timeouts,       \* timeout_retries
    lastError,      \* "none" after a success
    agent,          \* the agent's process: "none", "running", "exited"
    output,         \* who has the agent's standard output open
    exitCode,       \* of the agent, once it has exited
    answer,         \* verify_cmd_exit_code of the last final JSON, or "none"
    watchdog,       \* "off", "armed", "polled", "killing", "spent"
    timedOut,       \* timed_out_flag
    ledger,         \* the cost ledger: the status of each invocation
    pushed,         \* has the task branch been pushed by this run
    runs, crashes

session == <<agent, output, exitCode, answer, watchdog, timedOut>>
loop    == <<attempt, timeouts, lastError>>
bounds  == <<runs, crashes>>
vars    == <<pc, openPr, attempt, timeouts, lastError, agent, output, exitCode,
             answer, watchdog, timedOut, ledger, pushed, runs, crashes>>

TimeoutRetryLimit == 1

Ended == {"new", "success", "exhausted", "blocked", "no_claude", "uncaught", "killed"}

(* Of the main thread. *)
Running ==
    {"open", "spawn", "prompt", "arm", "reading", "unwind", "reap", "decide", "adopt", "push"}

Error == {"TIMEOUT", "SESSION_CRASHED", "VERIFY_FAILED"}

NoSession ==
    /\ agent' = "none"
    /\ output' = {}
    /\ exitCode' = 0
    /\ answer' = "none"
    /\ watchdog' = "off"
    /\ timedOut' = FALSE

Init ==
    /\ pc = "new"
    /\ openPr \in BOOLEAN
    /\ attempt = 0
    /\ timeouts = 0
    /\ lastError = "none"
    /\ agent = "none"
    /\ output = {}
    /\ exitCode = 0
    /\ answer = "none"
    /\ watchdog = "off"
    /\ timedOut = FALSE
    /\ ledger = <<>>
    /\ pushed = FALSE
    /\ runs = 0
    /\ crashes = 0

-----------------------------------------------------------------------------
(* The main thread.                                                        *)

Goes(from, to) ==
    /\ pc = from
    /\ pc' = to
    /\ UNCHANGED <<openPr, bounds>>

(* execute_task, once the input is valid and the worktree locked. *)
Start ==
    /\ pc \in Ended
    /\ runs < MaxRuns
    /\ runs' = runs + 1
    /\ pc' = "open"
    /\ attempt' = 1
    /\ timeouts' = 0
    /\ lastError' = "none"
    /\ NoSession
    /\ pushed' = FALSE
    /\ UNCHANGED <<openPr, ledger, crashes>>

(* The claude command is looked up before every session. *)
ClaudeNotFound ==
    /\ Goes("open", "no_claude")
    /\ UNCHANGED <<loop, session, ledger, pushed>>

OpenInvocation ==
    /\ Goes("open", "spawn")
    /\ ledger' = Append(ledger, "running")
    /\ UNCHANGED <<loop, session, pushed>>

CloseInvocation(status) == ledger' = [ledger EXCEPT ![Len(ledger)] = status]

(* Popen.  The timer is not there yet; what an old one may still have to   *)
(* kill is gone.                                                           *)
Spawn ==
    /\ Goes("spawn", "prompt")
    /\ agent' = "running"
    /\ output' = {"agent"}
    /\ exitCode' = 0
    /\ answer' = "none"
    /\ watchdog' = "off"
    /\ timedOut' = FALSE
    /\ UNCHANGED <<loop, ledger, pushed>>

SpawnFails ==
    /\ Goes("spawn", "uncaught")
    /\ CloseInvocation("crashed")
    /\ UNCHANGED <<loop, session, pushed>>

(* The prompt is written to the agent's input; the write waits for as long *)
(* as the agent does not read.                                             *)
WritePrompt ==
    /\ Goes("prompt", "arm")
    /\ UNCHANGED <<loop, session, ledger, pushed>>

(* The agent has closed its input, or exited, before it read the prompt,   *)
(* or no thread can be started: an error nobody turns into one of C2, and  *)
(* nobody ends the agent.                                                  *)
PromptFails ==
    /\ pc \in {"prompt", "arm"}
    /\ Goes(pc, "uncaught")
    /\ CloseInvocation("crashed")
    /\ UNCHANGED <<loop, session, pushed>>

(* Mutant: the watchdog is not started. *)
StartNoTimer ==
    /\ Goes("arm", "reading")
    /\ UNCHANGED <<loop, session, ledger, pushed>>

StartTimer ==
    /\ Goes("arm", "reading")
    /\ watchdog' = "armed"
    /\ UNCHANGED <<loop, agent, output, exitCode, answer, timedOut, ledger, pushed>>

(* watchdog.cancel: a timer that has gone off already goes on. *)
CancelTimer == watchdog' = IF watchdog = "armed" THEN "off" ELSE watchdog

(* The loop over the agent's output ends when nobody has it open.          *)
EndOfOutput ==
    /\ Goes("reading", "reap")
    /\ output = {}
    /\ CancelTimer
    /\ UNCHANGED <<loop, agent, output, exitCode, answer, timedOut, ledger, pushed>>

(* A line that is no UTF-8, or an event that is not what it should be, or  *)
(* no space for the log.                                                   *)
ReadFails ==
    /\ Goes("reading", "unwind")
    /\ output # {}
    /\ CancelTimer
    /\ UNCHANGED <<loop, agent, output, exitCode, answer, timedOut, ledger, pushed>>

Killed == agent' = "exited" /\ exitCode' = -9

(* Mutant: an agent that has closed its output but does not exit is left   *)
(* running.                                                                *)
ReapWithoutKill ==
    /\ Goes("reap", "decide")
    /\ UNCHANGED <<loop, session, ledger, pushed>>

(* proc.wait(timeout=5.0): an agent that has closed its output but does    *)
(* not exit is killed.                                                     *)
EndAgent ==
    \/ agent = "exited" /\ UNCHANGED <<agent, exitCode>>
    \/ agent = "running" /\ Killed

Reap ==
    /\ Goes("reap", "decide")
    /\ EndAgent
    /\ UNCHANGED <<loop, output, answer, watchdog, timedOut, ledger, pushed>>

(* The same, on the way out of an exception, which ends the run. *)
Unwind ==
    /\ Goes("unwind", "uncaught")
    /\ EndAgent
    /\ CloseInvocation("crashed")
    /\ UNCHANGED <<loop, output, answer, watchdog, timedOut, pushed>>

(* Mutant: a good answer outweighs the exit code and the timeout.          *)
OutcomeByAnswer ==
    CASE answer = "passed" -> "none"
      [] answer # "passed" /\ timedOut -> "TIMEOUT"
      [] answer # "passed" /\ ~ timedOut /\ exitCode # 0 -> "SESSION_CRASHED"
      [] OTHER -> "VERIFY_FAILED"

Outcome ==
    CASE timedOut -> "TIMEOUT"
      [] ~ timedOut /\ exitCode # 0 -> "SESSION_CRASHED"
      [] ~ timedOut /\ exitCode = 0 /\ answer # "passed" -> "VERIFY_FAILED"
      [] OTHER -> "none"

(* Mutant: one attempt too many. *)
ShouldRetryOneMore(error, soFar, timeoutsSoFar) ==
    /\ soFar <= MaxRetries + 1
    /\ error = "TIMEOUT" => timeoutsSoFar < TimeoutRetryLimit

(* retry.py, should_retry *)
ShouldRetry(error, soFar, timeoutsSoFar) ==
    /\ soFar <= MaxRetries
    /\ error = "TIMEOUT" => timeoutsSoFar < TimeoutRetryLimit

(* The row is closed, and the attempt judged.  The timeout is counted      *)
(* before should_retry is asked.                                           *)
Decide ==
    LET soFar == timeouts + (IF timedOut THEN 1 ELSE 0)
        again == Outcome # "none" /\ ShouldRetry(Outcome, attempt, soFar)
    IN  /\ Goes("decide", IF Outcome = "none" THEN "adopt"
                          ELSE IF again THEN "open" ELSE "exhausted")
        /\ CloseInvocation(CASE timedOut -> "timeout"
                             [] ~ timedOut /\ exitCode # 0 -> "crashed"
                             [] OTHER -> "success")
        /\ lastError' = Outcome
        /\ timeouts' = soFar
        /\ attempt' = IF again THEN attempt + 1 ELSE attempt
        /\ UNCHANGED <<session, pushed>>

(* _finalize_success: the diff of the branch passes the safety gate, or    *)
(* it does not, or git cannot show it.                                     *)
AdoptBlocked ==
    /\ Goes("adopt", "blocked")
    /\ UNCHANGED <<loop, session, ledger, pushed>>

Adopt ==
    /\ Goes("adopt", IF openPr THEN "push" ELSE "success")
    /\ UNCHANGED <<loop, session, ledger, pushed>>

(* _open_pr_or_branch: neither a failed push nor a failed pull request     *)
(* changes the outcome.                                                    *)
Push ==
    /\ Goes("push", "success")
    /\ pushed' \in BOOLEAN
    /\ UNCHANGED <<loop, session, ledger>>

-----------------------------------------------------------------------------
(* The watchdog.                                                           *)

Elsewhere == UNCHANGED <<pc, openPr, loop, ledger, pushed, bounds>>

(* proc.poll *)
TimeIsUp ==
    /\ watchdog = "armed"
    /\ watchdog' = IF agent = "running" THEN "polled" ELSE "spent"
    /\ UNCHANGED <<agent, output, exitCode, answer, timedOut>>
    /\ Elsewhere

(* The agent may have exited since, and its attempt been judged. *)
SetTimedOut ==
    /\ watchdog = "polled"
    /\ watchdog' = "killing"
    /\ timedOut' = TRUE
    /\ UNCHANGED <<agent, output, exitCode, answer>>
    /\ Elsewhere

(* _kill_tree: children of an agent that has exited meanwhile are not      *)
(* found.                                                                  *)
KillTree ==
    /\ watchdog = "killing"
    /\ watchdog' = "spent"
    /\ IF agent = "running"
       THEN Killed /\ output' = {}
       ELSE UNCHANGED <<agent, exitCode, output>>
    /\ UNCHANGED <<answer, timedOut>>
    /\ Elsewhere

-----------------------------------------------------------------------------
(* external: the agent, and what it leaves behind.                         *)

AgentPrintsAnswer ==
    /\ agent = "running" /\ "agent" \in output
    /\ answer' \in {"passed", "failed"}
    /\ UNCHANGED <<agent, output, exitCode, watchdog, timedOut>>
    /\ Elsewhere

AgentStartsHelper ==
    /\ agent = "running" /\ "agent" \in output
    /\ output' = output \cup {"helper"}
    /\ UNCHANGED <<agent, exitCode, answer, watchdog, timedOut>>
    /\ Elsewhere

AgentClosesOutput ==
    /\ agent = "running" /\ "agent" \in output
    /\ output' = output \ {"agent"}
    /\ UNCHANGED <<agent, exitCode, answer, watchdog, timedOut>>
    /\ Elsewhere

AgentExits ==
    /\ agent = "running"
    /\ agent' = "exited"
    /\ exitCode' \in {0, 1}
    /\ output' = output \ {"agent"}
    /\ UNCHANGED <<answer, watchdog, timedOut>>
    /\ Elsewhere

HelperExits ==
    /\ "helper" \in output
    /\ output' = output \ {"helper"}
    /\ UNCHANGED <<agent, exitCode, answer, watchdog, timedOut>>
    /\ Elsewhere

(* kill -9 of the run.  Its agent lives on, which this module does not     *)
(* follow; the next run takes the lock of the worktree over.               *)
Crash ==
    /\ pc \in Running
    /\ crashes < MaxCrashes
    /\ crashes' = crashes + 1
    /\ pc' = "killed"
    /\ NoSession
    /\ UNCHANGED <<openPr, loop, ledger, pushed, runs>>

-----------------------------------------------------------------------------
(* The steps of the main thread that end in time, whatever the agent does; *)
(* nothing bounds the writing of the prompt, git push and gh pr create.    *)
Timely ==
    \/ ClaudeNotFound \/ OpenInvocation \/ Spawn \/ SpawnFails \/ StartTimer
    \/ EndOfOutput \/ Reap \/ Unwind \/ Decide
    \/ AdoptBlocked \/ Adopt

Main == Timely \/ WritePrompt \/ PromptFails \/ ReadFails \/ Push

Watchdog == TimeIsUp \/ SetTimedOut \/ KillTree

Agent ==
    \/ AgentPrintsAnswer \/ AgentStartsHelper \/ AgentClosesOutput
    \/ AgentExits \/ HelperExits

Next == Start \/ Main \/ Watchdog \/ Agent \/ Crash

Spec == Init /\ [][Next]_vars

(* The main thread and the timer run; nothing is assumed of the agent, of  *)
(* the prompt's way to it, or of the remote.                               *)
FairSpec == Spec /\ WF_vars(Timely) /\ WF_vars(Watchdog)

-----------------------------------------------------------------------------
TypeOK ==
    /\ pc \in Ended \cup Running
    /\ openPr \in BOOLEAN
    /\ attempt \in 0..(MaxRetries + 1)
    /\ timeouts \in 0..(MaxRetries + 1)
    /\ lastError \in Error \cup {"none"}
    /\ agent \in {"none", "running", "exited"}
    /\ output \subseteq {"agent", "helper"}
    /\ exitCode \in {-9, 0, 1}
    /\ answer \in {"none", "passed", "failed"}
    /\ watchdog \in {"off", "armed", "polled", "killing", "spent"}
    /\ timedOut \in BOOLEAN
    /\ ledger \in Seq({"running", "timeout", "crashed", "success"})
    /\ pc \in Running \ {"open"} => ledger # <<>>
    /\ pushed \in BOOLEAN
    /\ runs \in Nat /\ crashes \in Nat

(* A run that reports success, or pushes (I3 of c2-task-executor.md), does *)
(* so after a session that exited by itself with 0, said that the verify   *)
(* command passed, and is a success in the ledger, in whatever order the   *)
(* answer, the exit and the timer came.  The timer may have found the agent*)
(* running just before it exited, and set its flag after the judgement.    *)
SuccessIsEarned ==
    pc \in {"adopt", "push", "success"} \/ pushed =>
        /\ agent = "exited" /\ exitCode = 0
        /\ answer = "passed"
        /\ ledger # <<>> /\ ledger[Len(ledger)] = "success"

(* I8: when an attempt is judged, when another begins, and when the run has*)
(* ended, the agent of the last one does not run any more - unless the run *)
(* was killed, or an exception ended it: that between Popen and the timer  *)
(* leaves the agent running and the worktree unlocked.                     *)
AgentReaped ==
    pc \notin {"prompt", "arm", "reading", "unwind", "reap", "uncaught"} =>
        agent # "running"

(* What a session leaves behind may keep its output open for ever.         *)
OutputHeld == pc = "reading" /\ agent = "exited" /\ "helper" \in output

(* I7: a run ends, however its sessions behave - unless one of the three   *)
(* waits that have no time limit never ends: for an agent that does not    *)
(* read its prompt, for a process an exited agent has left behind and that *)
(* holds its output, for the remote.                                       *)
RunEnds ==
    pc \in Running ~>
        pc \in Ended \/ [](pc = "prompt") \/ []OutputHeld \/ [](pc = "push")

=============================================================================
