-------------------------- MODULE IntegrationRunner --------------------------
(***************************************************************************)
(* The integration-test harness of tests/integration.go: NewIntegration       *)
(* starts a gateway process and a mocked backend, waits for them, and returns  *)
(* the Runner whose Close takes them down.  A test binary calls it several     *)
(* times in a row, always with the same two ports, so what one run leaves      *)
(* behind is the environment of the next.                                     *)
(*                                                                         *)
(* Time is counted in half seconds.  It passes while the harness sleeps and    *)
(* while an attempt on the ready URL is under way: http.Get has no timeout, so  *)
(* an attempt takes any time, and may never end.                              *)
(***************************************************************************)
EXTENDS Integers

CONSTANTS Runs,         \* how many times NewIntegration is called
          ReadyWait,    \* the -pucora_ready_url_wait flag, in half seconds
          StartupWait   \* the -pucora_startup_wait flag, in half seconds

ASSUME RunnerAssumption ==
  Runs \in Nat \ {0} /\ ReadyWait \in Nat /\ StartupWait \in Int

VARIABLES
  readyURL,  \* whether the -pucora_ready_url flag is set
  run,       \* the run in progress, Runs + 1 when all are over
  st,        \* control point of the harness in this run
  clock,     \* half seconds since waitForStartup was called
  wake,      \* when the current sleep ends
  tries,     \* history: attempts on the ready URL in this run
  result,    \* how each run's NewIntegration ended
  kills,     \* how often each gateway was killed by its Runner
  proc,      \* each run's gateway process
  srv        \* each run's mocked backend

vars == <<readyURL, run, st, clock, wake, tries, result, kills, proc, srv>>

RunIds == 1..Runs

Second == 2   \* half seconds

Init ==
  /\ readyURL \in BOOLEAN
  /\ run = 1 /\ st = "new" /\ clock = 0 /\ wake = 0 /\ tries = 0
  /\ result = [n \in RunIds |-> "none"]
  /\ kills = [n \in RunIds |-> 0]
  /\ proc = [n \in RunIds |-> "none"]
  /\ srv = [n \in RunIds |-> "none"]

-----------------------------------------------------------------------------
(* The processes the harness starts *)

HoldsPort(n) == proc[n] \in {"bound", "dying"}

Alive(n) == proc[n] \in {"starting", "bound"}

\* The gateway binds its port, or ends because somebody else has it.
GatewayBinds(n) ==
  /\ proc[n] = "starting"
  /\ proc' = [proc EXCEPT ![n] =
                IF \E m \in RunIds : HoldsPort(m) THEN "dead" ELSE "bound"]
  /\ UNCHANGED <<readyURL, run, st, clock, wake, tries, result, kills, srv>>

\* A kill takes effect some time after it was sent.
GatewayDies(n) ==
  /\ proc[n] = "dying"
  /\ proc' = [proc EXCEPT ![n] = "dead"]
  /\ UNCHANGED <<readyURL, run, st, clock, wake, tries, result, kills, srv>>

\* The goroutine of integration.go:257.
BackendListens(n) ==
  /\ srv[n] = "spawned"
  /\ srv' = [srv EXCEPT ![n] =
               IF \E m \in RunIds : srv[m] = "listening" THEN "closed" ELSE "listening"]
  /\ UNCHANGED <<readyURL, run, st, clock, wake, tries, result, kills, proc>>

NotKilled(p) == p

\* cmd.Process.Kill: a process that has not bound its port is gone at once.
Killed(p) == IF p = "starting" THEN "dead" ELSE IF p = "bound" THEN "dying" ELSE p

-----------------------------------------------------------------------------
(* NewIntegration *)

\* The run is over with the given result; the harness goes on to the next.
RunEnds(res) ==
  /\ result' = [result EXCEPT ![run] = res]
  /\ run' = run + 1
  /\ st' = "new" /\ clock' = 0 /\ wake' = 0 /\ tries' = 0

InProgress(point) == run \in RunIds /\ st = point

StartCmd ==
  /\ InProgress("new")
  /\ \/ /\ proc' = [proc EXCEPT ![run] = "starting"]
        /\ st' = "started"
        /\ UNCHANGED <<run, clock, wake, tries, result>>
     \/ RunEnds("nostart") /\ UNCHANGED proc
  /\ UNCHANGED <<readyURL, kills, srv>>

\* testCases fails: the gateway is killed before the error is returned.
SpecsRefused ==
  /\ InProgress("started")
  /\ proc' = [proc EXCEPT ![run] = Killed(@)]
  /\ RunEnds("specs")
  /\ UNCHANGED <<readyURL, kills, srv>>

startupWait == IF StartupWait <= 0 THEN 3 ELSE StartupWait

readyWait == IF ReadyWait < Second THEN Second ELSE ReadyWait

\* Bound: where the clock and the history of attempts stop counting, past every
\* deadline and past the attempts that any wait allows.
Horizon == readyWait + startupWait + Second

\* The backend goroutine is spawned and waitForStartup called: with a ready
\* URL it polls, and only without one it sleeps.
SpawnBackend ==
  /\ InProgress("started")
  /\ srv' = [srv EXCEPT ![run] = "spawned"]
  /\ IF readyURL THEN st' = "poll" /\ wake' = 0 /\ tries' = 1
                 ELSE st' = "sleep" /\ wake' = startupWait /\ tries' = 0
  /\ UNCHANGED <<readyURL, run, clock, result, kills, proc>>

\* Whichever gateway is on the port may answer 200.
Answers200 == \E m \in RunIds : proc[m] = "bound"

BeforeDeadlineLate == clock < readyWait + Second

BeforeDeadline == clock < readyWait

\* An attempt is under way for another half second.
GetTakesTime ==
  /\ InProgress("poll") /\ clock < Horizon
  /\ clock' = clock + 1
  /\ UNCHANGED <<readyURL, run, st, wake, tries, result, kills, proc, srv>>

PollOK ==
  /\ InProgress("poll") /\ Answers200
  /\ st' = "ready"
  /\ UNCHANGED <<readyURL, run, clock, wake, tries, result, kills, proc, srv>>

\* The deadline is set anew with every attempt.
PollAgainRenewed ==
  /\ InProgress("poll") /\ BeforeDeadline
  /\ st' = "pause" /\ clock' = 0 /\ wake' = Second
  /\ UNCHANGED <<readyURL, run, tries, result, kills, proc, srv>>

\* No connection, or an answer with another status.
PollAgain ==
  /\ InProgress("poll") /\ BeforeDeadline
  /\ st' = "pause" /\ wake' = clock + Second
  /\ UNCHANGED <<readyURL, run, clock, tries, result, kills, proc, srv>>

\* The error is returned without a Runner: nobody takes anything down.
PollGivesUp ==
  /\ InProgress("poll") /\ ~BeforeDeadline
  /\ RunEnds("notready")
  /\ UNCHANGED <<readyURL, kills, proc, srv>>

Tick ==
  /\ run \in RunIds /\ st \in {"pause", "sleep"} /\ clock < wake
  /\ clock' = clock + 1
  /\ UNCHANGED <<readyURL, run, st, wake, tries, result, kills, proc, srv>>

WakeUp ==
  /\ run \in RunIds /\ st \in {"pause", "sleep"} /\ clock = wake
  /\ IF st = "pause"
     THEN st' = "poll" /\ tries' = (IF tries < Horizon THEN tries + 1 ELSE tries)
     ELSE st' = "ready" /\ UNCHANGED tries
  /\ UNCHANGED <<readyURL, run, clock, wake, result, kills, proc, srv>>

-----------------------------------------------------------------------------
(* The Runner *)

CloseAlways(n) == TRUE

FirstClose(n) == kills[n] = 0

BackendKept(s) == s

BackendClosed(s) == "closed"

\* The checks are over and the Runner is closed: the gateway first, then the
\* backend; sync.Once lets only the first of several calls through.
Close ==
  /\ InProgress("ready") \/ InProgress("closed")
  /\ IF FirstClose(run)
     THEN /\ kills' = [kills EXCEPT ![run] = @ + 1]
          /\ proc' = [proc EXCEPT ![run] = Killed(@)]
          /\ srv' = [srv EXCEPT ![run] = BackendClosed(@)]
     ELSE UNCHANGED <<kills, proc, srv>>
  /\ st' = "closed"
  /\ UNCHANGED <<readyURL, run, clock, wake, tries, result>>

TestReturns ==
  /\ InProgress("closed")
  /\ RunEnds("ok")
  /\ UNCHANGED <<readyURL, kills, proc, srv>>

\* All the runs are over.
Over == run = Runs + 1 /\ UNCHANGED vars

AttemptEnds == PollOK \/ PollAgain \/ PollGivesUp

Harness == StartCmd \/ SpecsRefused \/ SpawnBackend \/ WakeUp \/ Close \/ TestReturns

Environment ==
  \E n \in RunIds : GatewayBinds(n) \/ GatewayDies(n) \/ BackendListens(n)

Next == Harness \/ AttemptEnds \/ GetTakesTime \/ Tick \/ Environment \/ Over

Spec == Init /\ [][Next]_vars

\* The harness and its timers go on; a killed process dies, a spawned goroutine
\* runs.  Nothing is assumed about when a gateway binds, nor that an attempt on
\* the ready URL ever ends.
FairSpec ==
  /\ Spec
  /\ WF_vars(Harness) /\ WF_vars(Tick)
  /\ \A n \in RunIds : WF_vars(GatewayDies(n)) /\ WF_vars(BackendListens(n))

-----------------------------------------------------------------------------
(* Properties *)

\* The values each piece of the harness' state can take.
TypeOK ==
  /\ readyURL \in BOOLEAN
  /\ run \in 1..(Runs + 1)
  /\ st \in {"new", "started", "poll", "pause", "sleep", "ready", "closed"}
  /\ clock \in 0..Horizon
  /\ wake \in 0..Horizon /\ tries \in 0..Horizon
  /\ result \in [RunIds -> {"none", "nostart", "specs", "notready", "ok"}]
  /\ kills \in [RunIds -> 0..1]
  /\ proc \in [RunIds -> {"none", "starting", "bound", "dying", "dead"}]
  /\ srv \in [RunIds -> {"none", "spawned", "listening", "closed"}]

\* A run that is over leaves a live gateway or an open backend behind only if
\* it ended because the ready URL did not answer in time: every other way out
\* of NewIntegration, and Close, takes down what was started
\* (integration.go:224-272, 329-335).
LeavesOnlyWhenNotReady ==
  \A n \in RunIds :
    n < run /\ (Alive(n) \/ srv[n] \in {"spawned", "listening"})
      => result[n] = "notready"

\* However long the attempts on the ready URL take, there is at most one more of
\* them than the seconds begun of the wait, which is raised to a second if it was
\* less: each one after the first was let in by a comparison with the deadline
\* that was set once, before a sleep of a second (integration.go:290-300).
AttemptsBounded == (tries - 2) * Second < readyWait

\* Waiting for the system under test comes to an end, answered or not, unless
\* one attempt on the ready URL hangs for ever: the loop itself does not go on
\* without end (integration.go:290-300).
WaitEnds ==
  \/ <>[](st = "poll")
  \/ st \in {"poll", "pause", "sleep"} ~> st \in {"ready", "new"}

\* A closed Runner frees both ports, however often Close is called
\* (integration.go:329-335).
ClosedIsFreed ==
  \A n \in RunIds :
    result[n] = "ok" ~> (proc[n] \in {"dead", "none"} /\ srv[n] = "closed")

\* The comment at integration.go:263: once the ready check is passed the
\* system under test, that is the gateway of this run, is ready.
ReadyIsOwn ==
  readyURL /\ run \in RunIds /\ st = "ready" => proc[run] = "bound"
=============================================================================
