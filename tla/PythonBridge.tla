---------------------------- MODULE PythonBridge ----------------------------
(***************************************************************************)
(* executePythonContract (control-plane/src/python-executor.ts): one run   *)
(* of the Python contract command in a child process, with its timeout,    *)
(* the escalation to SIGKILL, the output limit, the response file and the  *)
(* temporary directory.  The child and the operating system are the        *)
(* environment: it may ignore SIGTERM, never end, or end at any moment,    *)
(* between a timer and the close event included, and the pool workers it   *)
(* starts inherit its pipes and may outlive it.                            *)
(***************************************************************************)
EXTENDS Naturals

CONSTANTS
  TimeoutEnabled   \* limits.timeoutMs > 0

ASSUME PythonBridgeAssumption == TimeoutEnabled \in BOOLEAN

VARIABLES
  stage,         \* where executePythonContract is suspended
  child,         \* the process: running, its exit observed, its pipes closed
  pipesHeld,     \* processes the child started hold its stdout and stderr
  stubborn,      \* the child ignores SIGTERM
  signals,       \* the signals it has been sent
  exit,          \* how it ended: exit code 0, another one, or a signal
  file,          \* the response file it leaves behind
  saysOom,       \* detectBridgeErrorCode finds an out-of-memory token in stderr
  timer,         \* timeoutHandle
  escalation,    \* the SIGKILL timer
  timedOut, outputLimitExceeded, stdinError,
  tempDir,       \* the directory exists
  result         \* how the call settles, Pending until it has

bridgeVars == <<stage, child, pipesHeld, stubborn, signals, exit, file, saysOom, timer, escalation,
          timedOut, outputLimitExceeded, stdinError, tempDir, result>>

flags == <<timedOut, outputLimitExceeded, stdinError>>
process == <<child, pipesHeld, stubborn, signals, exit, file, saysOom>>

BridgeOutcomes == {"response", "bridge timeout", "oom", "output_limit", "bridge", "internal"}
Pending == "pending"
Stages == {"mkdtemp", "await close", "stat", "readFile", "rm", "settled"}

BridgeInit ==
  /\ stage = "mkdtemp"
  /\ child = "none" /\ pipesHeld = FALSE
  /\ stubborn \in BOOLEAN
  /\ signals = {}
  /\ exit = "none"
  /\ file = "none"
  /\ saysOom = FALSE
  /\ timer = "off"
  /\ escalation = "off"
  /\ timedOut = FALSE /\ outputLimitExceeded = FALSE /\ stdinError = FALSE
  /\ tempDir = FALSE
  /\ result = Pending

-----------------------------------------------------------------------------
(* The call itself, from one await to the next. *)

(* mkdtemp is outside the try block: its failure is no bridge error. *)
MkdtempFails ==
  /\ stage = "mkdtemp"
  /\ stage' = "settled"
  /\ result' = "internal"
  /\ UNCHANGED <<process, timer, escalation, flags, tempDir>>

Spawn ==
  /\ stage = "mkdtemp"
  /\ stage' = "await close"
  /\ tempDir' = TRUE
  /\ child' = "running"
  /\ timer' = IF TimeoutEnabled THEN "armed" ELSE "off"
  /\ UNCHANGED <<pipesHeld, stubborn, signals, exit, file, saysOom, escalation, flags, result>>

(* No process is created: spawn throws before the timer is set, or the     *)
(* "error" event rejects and the "close" event that follows clears it.     *)
SpawnFails ==
  /\ stage = "mkdtemp"
  /\ stage' = "rm"
  /\ tempDir' = TRUE
  /\ timer' \in {"off", IF TimeoutEnabled THEN "armed" ELSE "off"}
  /\ result' = "bridge"
  /\ UNCHANGED <<process, escalation, flags>>

CloseWithoutChild ==
  /\ child = "none" /\ timer = "armed"
  /\ timer' = "cleared"
  /\ UNCHANGED <<stage, process, escalation, flags, tempDir, result>>

DetectBridgeErrorCode == IF saysOom THEN "oom" ELSE "bridge"

(* A bug: only the exit code decides. *)
CloseOnExitCode ==
  /\ stage = "await close"
  /\ child = "exited" /\ ~ pipesHeld
  /\ child' = "closed"
  /\ timer' = IF timer = "armed" THEN "cleared" ELSE timer
  /\ IF exit # "success"
       THEN stage' = "rm" /\ result' = DetectBridgeErrorCode
       ELSE stage' = "stat" /\ UNCHANGED result
  /\ UNCHANGED <<pipesHeld, stubborn, signals, exit, file, saysOom, escalation, flags, tempDir>>

(* The "close" event, once the child has exited and nobody holds its       *)
(* pipes, and the code after the promise, up to fs.stat.                   *)
Close ==
  /\ stage = "await close"
  /\ child = "exited" /\ ~ pipesHeld
  /\ child' = "closed"
  /\ timer' = IF timer = "armed" THEN "cleared" ELSE timer
  /\ LET failure == IF timedOut THEN "bridge timeout"
                    ELSE IF outputLimitExceeded THEN "output_limit"
                    ELSE DetectBridgeErrorCode
     IN IF timedOut \/ outputLimitExceeded \/ stdinError \/ exit # "success"
          THEN stage' = "rm" /\ result' = failure
          ELSE stage' = "stat" /\ UNCHANGED result
  /\ UNCHANGED <<pipesHeld, stubborn, signals, exit, file, saysOom, escalation, flags, tempDir>>

Stat ==
  /\ stage = "stat"
  /\ IF file = "none" \/ file = "too large"
       THEN /\ stage' = "rm"
            /\ result' = IF file = "none" THEN "bridge" ELSE "output_limit"
       ELSE /\ stage' = "readFile"
            /\ UNCHANGED result
  /\ UNCHANGED <<process, timer, escalation, flags, tempDir>>

ReadFile ==
  /\ stage = "readFile"
  /\ stage' = "rm"
  /\ result' = IF file = "json" THEN "response" ELSE "bridge"
  /\ UNCHANGED <<process, timer, escalation, flags, tempDir>>

(* "finally": an error of rm replaces whatever the try block returned. *)
Rm ==
  /\ stage = "rm"
  /\ stage' = "settled"
  /\ \/ tempDir' = FALSE /\ UNCHANGED result
     \/ result' = "internal" /\ UNCHANGED tempDir
  /\ UNCHANGED <<process, timer, escalation, flags>>

-----------------------------------------------------------------------------
(* Timers and stream events. *)

Alive == child = "running"
Send(signal) == signals' = IF Alive THEN signals \cup {signal} ELSE signals

(* Bugs: the promise is rejected at once, and SIGTERM never escalates. *)
TimeoutRejects ==
  /\ timer = "armed"
  /\ timer' = "fired"
  /\ timedOut' = TRUE
  /\ Send("SIGTERM")
  /\ stage' = "rm"
  /\ result' = "bridge timeout"
  /\ UNCHANGED <<child, pipesHeld, stubborn, exit, file, saysOom, escalation,
                 outputLimitExceeded, stdinError, tempDir>>

TimeoutTerminatesOnly ==
  /\ timer = "armed"
  /\ timer' = "fired"
  /\ timedOut' = TRUE
  /\ Send("SIGTERM")
  /\ UNCHANGED <<stage, child, pipesHeld, stubborn, exit, file, saysOom, escalation,
                 outputLimitExceeded, stdinError, tempDir, result>>

TimeoutFires ==
  /\ timer = "armed"
  /\ timer' = "fired"
  /\ timedOut' = TRUE
  /\ Send("SIGTERM")
  /\ escalation' = "armed"
  /\ UNCHANGED <<stage, child, pipesHeld, stubborn, exit, file, saysOom,
                 outputLimitExceeded, stdinError, tempDir, result>>

EscalationFires ==
  /\ escalation = "armed"
  /\ escalation' = "fired"
  /\ Send("SIGKILL")
  /\ UNCHANGED <<stage, child, pipesHeld, stubborn, exit, file, saysOom, timer, flags, tempDir, result>>

(* onChunk past maxOutputBytes; data already in the pipe is delivered      *)
(* after the exit too.                                                     *)
OutputOverflows ==
  /\ stage = "await close"
  /\ ~ outputLimitExceeded
  /\ outputLimitExceeded' = TRUE
  /\ Send("SIGTERM")
  /\ UNCHANGED <<stage, child, pipesHeld, stubborn, exit, file, saysOom, timer, escalation,
                 timedOut, stdinError, tempDir, result>>

StdinFails ==
  /\ stage = "await close"
  /\ ~ stdinError
  /\ stdinError' = TRUE
  /\ UNCHANGED <<stage, process, timer, escalation, timedOut, outputLimitExceeded,
                 tempDir, result>>

-----------------------------------------------------------------------------
(* The child, and what it starts. *)

WritesResponse ==
  /\ Alive
  /\ file = "none"
  /\ file' \in {"json", "not json", "too large"}
  /\ UNCHANGED <<stage, child, pipesHeld, stubborn, signals, exit, saysOom, timer, escalation,
                 flags, tempDir, result>>

Exits(how) ==
  /\ Alive
  /\ child' = "exited"
  /\ exit' = how
  /\ saysOom' \in BOOLEAN
  /\ UNCHANGED <<stage, pipesHeld, stubborn, signals, file, timer, escalation, flags, tempDir, result>>

ExitsByItself == Exits("success") \/ Exits("failure")

DiesOfSignal ==
  /\ "SIGKILL" \in signals \/ ("SIGTERM" \in signals /\ ~ stubborn)
  /\ Exits("signal")

(* SubproblemPool.submit creates the pool's processes.                     *)
StartsWorkers ==
  /\ Alive /\ ~ pipesHeld
  /\ pipesHeld' = TRUE
  /\ UNCHANGED <<stage, child, stubborn, signals, exit, file, saysOom, timer, escalation,
                 flags, tempDir, result>>

(* They end when the pool is closed; no signal to the child reaches them.  *)
WorkersEnd ==
  /\ pipesHeld
  /\ pipesHeld' = FALSE
  /\ UNCHANGED <<stage, child, stubborn, signals, exit, file, saysOom, timer, escalation,
                 flags, tempDir, result>>

BridgeNext ==
  \/ MkdtempFails \/ Spawn \/ SpawnFails \/ Close \/ CloseWithoutChild \/ Stat \/ ReadFile \/ Rm
  \/ TimeoutFires \/ EscalationFires \/ OutputOverflows \/ StdinFails
  \/ WritesResponse \/ ExitsByItself \/ DiesOfSignal \/ StartsWorkers \/ WorkersEnd

BridgeSpec == BridgeInit /\ [][BridgeNext]_bridgeVars

(* The call's own continuations and its timers run, the system delivers a  *)
(* fatal signal, and the close event follows the exit once the pipes are   *)
(* free.  Nothing is assumed of the child, which need not end by itself,   *)
(* nor of its workers, which need not end at all.                          *)
FairBridgeSpec ==
  /\ BridgeSpec
  /\ WF_bridgeVars(MkdtempFails \/ Spawn \/ SpawnFails)
  /\ WF_bridgeVars(Close) /\ WF_bridgeVars(Stat \/ ReadFile \/ Rm)
  /\ WF_bridgeVars(TimeoutFires) /\ WF_bridgeVars(EscalationFires)
  /\ WF_bridgeVars(DiesOfSignal)

-----------------------------------------------------------------------------
Timers == {"off", "armed", "fired"}

(* Every variable has its type. *)
BridgeTypeOK ==
  /\ stage \in Stages
  /\ child \in {"none", "running", "exited", "closed"}
  /\ pipesHeld \in BOOLEAN /\ stubborn \in BOOLEAN
  /\ signals \subseteq {"SIGTERM", "SIGKILL"}
  /\ exit \in {"none", "success", "failure", "signal"}
  /\ file \in {"none", "json", "not json", "too large"}
  /\ saysOom \in BOOLEAN
  /\ timer \in Timers \cup {"cleared"}
  /\ escalation \in Timers
  /\ timedOut \in BOOLEAN /\ outputLimitExceeded \in BOOLEAN /\ stdinError \in BOOLEAN
  /\ tempDir \in BOOLEAN
  /\ result \in BridgeOutcomes \cup {Pending}

(* A call that has settled leaves no Python process behind, nor a worker   *)
(* that holds its pipes, so a slot of the gate or the store that is given  *)
(* back is a solve that has ended.                                         *)
SettledMeansChildGone == stage = "settled" => child \in {"none", "closed"} /\ ~ pipesHeld

(* The response file reaches the client only from a child that ended by    *)
(* itself with exit code 0, within its time and output limits: a child     *)
(* that was being killed never has its half-written file read.             *)
ResponseIsTrustworthy ==
  result = "response" =>
    /\ exit = "success" /\ file = "json"
    /\ ~ timedOut /\ ~ outputLimitExceeded /\ ~ stdinError /\ timer # "armed"

(* No call leaks its temporary directory unless removing it failed, and    *)
(* the directory outlives the read of the response.                        *)
TempDirLifetime ==
  /\ stage \in {"await close", "stat", "readFile", "rm"} => tempDir
  /\ stage = "settled" /\ tempDir => result = "internal"

(* A call leaves neither a process nor a directory behind it.  What the    *)
(* child started keeps a call from settling, and so cannot be left behind. *)
NothingIsLeftBehind == SettledMeansChildGone /\ TempDirLifetime

(* SIGKILL is sent only to a child that was given SIGTERM first, and only  *)
(* when its time was up: the output limit alone never escalates.           *)
KillIsLastResort == "SIGKILL" \in signals => "SIGTERM" \in signals /\ timedOut

(* What the caller awaits. *)
Promise == IF stage = "settled" THEN result ELSE Pending

Abstract == INSTANCE Executor WITH promise <- Promise, Outcomes <- BridgeOutcomes

(* What a child has started lets go of its pipes, sooner or later, once it *)
(* has exited.  Nothing in the bridge sees to it: the timeout ends the     *)
(* child alone.                                                            *)
PipesAreReleased == child = "exited" ~> ~ pipesHeld

(* The bridge is the executor its callers rely on: it settles at most      *)
(* once, and with a timeout configured it does settle whatever the child   *)
(* does, even one that hangs, floods its output and ignores SIGTERM,       *)
(* provided that the processes it started do not hold its pipes forever.   *)
ImplementsExecutor == Abstract!Spec /\ (PipesAreReleased => Abstract!Settles)
=============================================================================
