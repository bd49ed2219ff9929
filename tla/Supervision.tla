------------------------------- MODULE Supervision -------------------------------
(***************************************************************************)
(* The processes of a station: supervisors that Task Scheduler or an       *)
(* operator starts, the writers (the scanning children) they spawn, the    *)
(* two instance locks, the sticky stop-file, and the script that stops the *)
(* station and verifies that it is down.                                   *)
(*                                                                         *)
(* Any process may be killed between any two steps.  A lock is held by the *)
(* process that took it until the operating system has buried the process, *)
(* so the locks are not variables: see HoldsWriterLock.                    *)
(*                                                                         *)
(* Abstraction.  Processes live in slots that are used again.  Of an exit  *)
(* code only "clean" and "failed" matter here; whether a run was stable    *)
(* and when a wait is over are choices.  Delays are powers of two of the   *)
(* base, so a level stands for one.                                        *)
(***************************************************************************)
EXTENDS Integers, FiniteSets

CONSTANTS
  Sups, Writers,   \* process slots (bounds)
  MaxLevel,        \* log2(backoff_cap_s / backoff_base_s)
  MaxRequests      \* bound: requests to stop, of whatever kind

Nobody == 0            \* no slot is called 0

ASSUME SupervisionAssumption ==
  /\ Nobody \notin Sups \cup Writers
  /\ MaxLevel \in Nat /\ MaxRequests \in Nat

VARIABLES
  windows,   \* children join a kill-on-close job; on POSIX there is none,
             \* and a terminal Ctrl-C reaches the children too
  latch,     \* supervisor.stop exists
  sup,       \* slot -> a supervisor process
  writer,    \* slot -> a writer process
  script,    \* where stop_palletscan.ps1 is, or what it reported
  requests   \* requests to stop so far: signals, uses of the script, and
             \* errors of a supervisor's own

supervisionVars == <<windows, latch, sup, writer, script, requests>>

NoSup    == [ at |-> "none", child |-> Nobody, level |-> 0, stop |-> FALSE, forward |-> TRUE ]
NoWriter == [ at |-> "dead", clean |-> FALSE, signalled |-> FALSE, forced |-> FALSE,
              job |-> FALSE, parent |-> Nobody ]

SupervisionInit ==
  /\ windows \in BOOLEAN
  /\ latch \in BOOLEAN
  /\ sup = [ s \in Sups |-> NoSup ]
  /\ writer = [ w \in Writers |-> NoWriter ]
  /\ script = "idle"
  /\ requests = 0

(* The locks of instance_lock.py.  A killed holder's lock may outlive it.  *)
HoldsWriterLock(w) == writer[w].at \in {"construct", "run", "drain", "buried"}
HoldsSupLock(s)    == sup[s].at \notin {"none", "lock"}

WriterLockHeld == \E w \in Writers : HoldsWriterLock(w)
SupLockHeld    == \E s \in Sups : HoldsSupLock(s)

Scanning(w) == writer[w].at \in {"construct", "run", "drain"}
Alive(w)    == Scanning(w) \/ writer[w].at = "start"

-----------------------------------------------------------------------------
(* A writer, the process and what happens to it.                           *)

Dead(r, clean) == [ r EXCEPT !.at = "dead", !.clean = clean ]
Killed(r) == [ r EXCEPT !.at = IF r.at = "start" THEN "dead" ELSE "buried",
                        !.clean = FALSE ]

(* A stop signal.  Until the handlers are installed it kills; the first    *)
(* one after that starts the drain, the handlers gone a second one kills.  *)
Signalled(r) ==
  IF r.at \in {"start", "construct"} THEN Dead(r, FALSE)
  ELSE IF r.at \in {"run", "drain"}
       THEN IF r.signalled THEN [ Dead(r, FALSE) EXCEPT !.forced = TRUE ]
            ELSE [ r EXCEPT !.at = "drain", !.signalled = TRUE ]
  ELSE r

WriterGoes(w, at) == writer' = [ writer EXCEPT ![w].at = at ]

(* Mutant: the lock is not looked at.                                      *)
TakeLock_Never(w) ==
  /\ writer[w].at = "start"
  /\ WriterGoes(w, "construct")
  /\ UNCHANGED <<latch, sup, script, requests>>

(* The instance lock, exit 4 without it.                                   *)
TakeLock(w) ==
  /\ writer[w].at = "start"
  /\ IF WriterLockHeld THEN writer' = [ writer EXCEPT ![w] = Dead(@, FALSE) ]
     ELSE WriterGoes(w, "construct")
  /\ UNCHANGED <<latch, sup, script, requests>>

(* Cameras are opened; then signal handlers and the parent watch are in.   *)
Constructed(w) ==
  /\ writer[w].at = "construct"
  /\ WriterGoes(w, "run")
  /\ UNCHANGED <<latch, sup, script, requests>>

(* A bad config, no camera, an escalation, a crash, or the end of a replay.*)
WriterEnds(w) ==
  /\ Alive(w) /\ writer[w].at # "drain"
  /\ \E clean \in BOOLEAN :
       /\ clean => writer[w].at = "run"
       /\ writer' = [ writer EXCEPT ![w] = Dead(@, clean) ]
  /\ UNCHANGED <<latch, sup, script, requests>>

Drained(w) ==
  /\ writer[w].at = "drain"
  /\ \E clean \in BOOLEAN : writer' = [ writer EXCEPT ![w] = Dead(@, clean) ]
  /\ UNCHANGED <<latch, sup, script, requests>>

(* ParentWatch: the supervisor is gone, drain.                             *)
ParentWatch(w) ==
  /\ writer[w].at = "run" /\ writer[w].parent = Nobody
  /\ WriterGoes(w, "drain")
  /\ UNCHANGED <<latch, sup, script, requests>>

(* StopFileWatch: somebody has written palletscan.stop, drain.             *)
WriterStopFile(w) ==
  /\ writer[w].at = "run"
  /\ WriterGoes(w, "drain")
  /\ UNCHANGED <<latch, sup, script, requests>>

(* The operating system releases a killed writer's lock.                   *)
LockReleased(w) ==
  /\ writer[w].at = "buried"
  /\ WriterGoes(w, "dead")
  /\ UNCHANGED <<latch, sup, script, requests>>

-----------------------------------------------------------------------------
(* The supervisor.                                                         *)

SupGoes(s, at) == sup' = [ sup EXCEPT ![s].at = at ]
Request == requests < MaxRequests /\ requests' = requests + 1

(* Mutant: only signals stop a supervisor that is running.                 *)
StopRequested_SignalOnly(s) == sup[s].stop

(* Polled: the event a signal handler sets, and the stop-file.             *)
StopRequested(s) == sup[s].stop \/ latch

(* Its process is gone: its lock, its job's members; other children are    *)
(* orphans.                                                                *)
SupGone(s) ==
  /\ sup' = [ sup EXCEPT ![s] = NoSup ]
  /\ writer' = [ w \in Writers |->
       IF writer[w].parent # s THEN writer[w]
       ELSE LET orphan == [ writer[w] EXCEPT !.parent = Nobody ]
            IN  IF Alive(w) /\ writer[w].job THEN Killed(orphan) ELSE orphan ]

(* Task Scheduler at logon or after a failure, or an operator.             *)
StartSup(s) ==
  /\ sup[s].at = "none"
  /\ SupGoes(s, "lock")
  /\ UNCHANGED <<latch, writer, script, requests>>

SupLock(s) ==
  /\ sup[s].at = "lock"
  /\ SupGoes(s, IF SupLockHeld THEN "none" ELSE "startup")
  /\ UNCHANGED <<latch, writer, script, requests>>

(* Mutant: a stop-file found at startup is stale, it is removed.           *)
Startup_Stale(s) ==
  /\ sup[s].at = "startup"
  /\ latch' = FALSE
  /\ SupGoes(s, "spawn")
  /\ UNCHANGED <<writer, script, requests>>

(* The stop-file is a latch: found at startup it is honored.               *)
Startup(s) ==
  /\ sup[s].at = "startup"
  /\ IF latch THEN SupGone(s) ELSE SupGoes(s, "spawn") /\ UNCHANGED writer
  /\ UNCHANGED <<latch, script, requests>>

Spawn(s) ==
  /\ sup[s].at = "spawn"
  /\ \E w \in Writers :
       /\ writer[w].at = "dead" /\ \A t \in Sups : sup[t].child # w
       /\ writer' = [ writer EXCEPT ![w] =
            [ NoWriter EXCEPT !.at = "start", !.job = windows, !.parent = s ] ]
       /\ sup' = [ sup EXCEPT ![s].at = "watch", ![s].child = w ]
  /\ UNCHANGED <<latch, script, requests>>

SpawnFails(s) ==
  /\ sup[s].at = "spawn"
  /\ SupGone(s)
  /\ UNCHANGED <<latch, script, requests>>

Child(s) == writer[sup[s].child]
ChildOver(s) == Child(s).at \in {"dead", "buried"}

(* A stable run starts the delays over.                                    *)
AfterFailure(s, stable) ==
  [ sup[s] EXCEPT !.at = IF stable THEN "settle" ELSE "backoff", !.child = Nobody,
                  !.level = IF stable THEN 0 ELSE @ ]

(* poll() first: the child's exit decides before a stop request does.      *)
ChildExited(s) ==
  /\ sup[s].at = "watch" /\ ChildOver(s)
  /\ \/ Child(s).clean /\ SupGone(s)
     \/ /\ ~ Child(s).clean
        /\ \E stable \in BOOLEAN : sup' = [ sup EXCEPT ![s] = AfterFailure(s, stable) ]
        /\ UNCHANGED writer
  /\ UNCHANGED <<latch, script, requests>>

(* stop_child_gracefully, on a stop request or on an error of its own.     *)
StopChild(s) ==
  /\ sup' = [ sup EXCEPT ![s].at = "grace" ]
  /\ writer' = IF sup[s].forward THEN [ writer EXCEPT ![sup[s].child] = Signalled(@) ]
               ELSE writer

SeesStop(s) ==
  /\ sup[s].at = "watch" /\ ~ ChildOver(s) /\ StopRequested(s)
  /\ StopChild(s)
  /\ UNCHANGED <<latch, script, requests>>

SupFails(s) ==
  /\ sup[s].at = "watch" /\ ~ ChildOver(s)
  /\ Request
  /\ StopChild(s)
  /\ UNCHANGED <<latch, script>>

GraceOver(s) ==
  /\ sup[s].at = "grace" /\ ChildOver(s)
  /\ SupGone(s)
  /\ UNCHANGED <<latch, script, requests>>

Kill(s) ==
  /\ sup[s].at = "grace" /\ ~ ChildOver(s)
  /\ writer' = [ writer EXCEPT ![sup[s].child] = Killed(@) ]
  /\ UNCHANGED <<latch, sup, script, requests>>

BackoffStopped(s) ==
  /\ sup[s].at \in {"backoff", "settle"} /\ StopRequested(s)
  /\ SupGone(s)
  /\ UNCHANGED <<latch, script, requests>>

(* The delay is over; the next one is twice as long unless the run was     *)
(* stable.  A stop requested since the last look is seen after the spawn.  *)
BackoffOver(s) ==
  /\ sup[s].at \in {"backoff", "settle"}
  /\ sup' = [ sup EXCEPT ![s].at = "spawn",
                         ![s].level = IF sup[s].at = "backoff" /\ @ < MaxLevel THEN @ + 1 ELSE @ ]
  /\ UNCHANGED <<latch, writer, script, requests>>

(* Killed, or its session ended.                                           *)
SupKilled(s) ==
  /\ sup[s].at # "none"
  /\ SupGone(s)
  /\ UNCHANGED <<latch, script, requests>>

(* A directed SIGTERM reaches the supervisor alone.                        *)
Sigterm(s) ==
  /\ HoldsSupLock(s) /\ Request
  /\ sup' = [ sup EXCEPT ![s].stop = TRUE, ![s].forward = TRUE ]
  /\ UNCHANGED <<latch, writer, script>>

(* Mutant: a Ctrl-C is forwarded although the child has had it.            *)
CtrlC_Forwards(s) ==
  /\ HoldsSupLock(s) /\ Request
  /\ sup' = [ sup EXCEPT ![s].stop = TRUE, ![s].forward = TRUE ]
  /\ writer' = IF ~ windows /\ sup[s].child # Nobody
               THEN [ writer EXCEPT ![sup[s].child] = Signalled(@) ] ELSE writer
  /\ UNCHANGED <<latch, script>>

(* A Ctrl-C reaches the foreground group: on POSIX the child has had it.   *)
CtrlC(s) ==
  /\ HoldsSupLock(s) /\ Request
  /\ sup' = [ sup EXCEPT ![s].stop = TRUE, ![s].forward = windows ]
  /\ writer' = IF ~ windows /\ sup[s].child # Nobody
               THEN [ writer EXCEPT ![sup[s].child] = Signalled(@) ] ELSE writer
  /\ UNCHANGED <<latch, script>>

-----------------------------------------------------------------------------
(* stop_palletscan.ps1 and start_palletscan.ps1.  A probe is of one lock.  *)

ScriptGoes(at) ==
  /\ script' = at
  /\ IF script = "idle" THEN Request ELSE UNCHANGED requests
  /\ UNCHANGED <<sup, writer>>

Reports == {"not running", "stopped", "still running"}

ProbeWriter ==
  /\ script \in {"idle", "wait", "hard wait"}
  /\ ~ WriterLockHeld
  /\ ScriptGoes(IF script = "idle" THEN "free?" ELSE IF script = "wait" THEN "wait?" ELSE "hard wait?")
  /\ UNCHANGED latch

(* Both locks were free at the first look: latch anyway and report.        *)
LatchAnyway ==
  /\ script = "free?" /\ ~ SupLockHeld
  /\ ScriptGoes("latch")
  /\ UNCHANGED latch

ReportNotRunning ==
  /\ script = "latch"
  /\ latch' = TRUE
  /\ ScriptGoes("not running")

(* Something is held, or -Hard was given.                                  *)
RequestStop ==
  /\ script \in {"idle", "free?"}
  /\ script = "free?" => SupLockHeld
  /\ latch' = TRUE
  /\ ScriptGoes("wait") \/ ScriptGoes("hard")

ProbeSup ==
  /\ script \in {"wait?", "hard wait?"}
  /\ IF SupLockHeld THEN ScriptGoes(IF script = "wait?" THEN "wait" ELSE "hard wait")
     ELSE ScriptGoes("stopped")
  /\ UNCHANGED latch

GiveUp ==
  /\ \/ script \in {"wait", "wait?"} /\ ScriptGoes("hard")
     \/ script \in {"hard wait", "hard wait?"} /\ ScriptGoes("still running")
  /\ UNCHANGED latch

(* Stop-ScheduledTask, then the holders of the locks by their pids, first  *)
(* the writer's, then a supervisor's; each of these may fail.              *)
HardStop ==
  /\ script \in {"hard", "kill supervisor"}
  /\ script' = IF script = "hard" THEN "kill writer" ELSE "hard wait"
  /\ \/ UNCHANGED <<sup, writer>>
     \/ \E s \in Sups : HoldsSupLock(s) /\ SupGone(s)
  /\ UNCHANGED <<latch, requests>>

KillHolder ==
  /\ script = "kill writer"
  /\ script' = "kill supervisor"
  /\ \/ UNCHANGED writer
     \/ writer' = [ w \in Writers |-> IF Scanning(w) THEN Killed(writer[w]) ELSE writer[w] ]
  /\ UNCHANGED <<latch, sup, requests>>

(* The start script removes the latch, the only way it goes.  The operator *)
(* starts the station again when the stop script has reported.             *)
Rearm ==
  /\ script \in Reports
  /\ latch' = FALSE
  /\ ScriptGoes("idle")

-----------------------------------------------------------------------------
WriterStep(w) == TakeLock(w) \/ Constructed(w) \/ Drained(w) \/ ParentWatch(w) \/ LockReleased(w)

SupStep(s) ==
  \/ SupLock(s) \/ Startup(s) \/ Spawn(s) \/ ChildExited(s) \/ SeesStop(s)
  \/ GraceOver(s) \/ Kill(s) \/ BackoffStopped(s) \/ BackoffOver(s)

ScriptStep ==
  \/ ProbeWriter \/ LatchAnyway \/ ReportNotRunning \/ RequestStop
  \/ ProbeSup \/ GiveUp \/ HardStop \/ KillHolder \/ Rearm

SupervisionStep ==
  \/ \E w \in Writers : WriterStep(w) \/ WriterEnds(w) \/ WriterStopFile(w)
  \/ \E s \in Sups : SupStep(s) \/ StartSup(s) \/ SpawnFails(s) \/ SupFails(s)
                     \/ SupKilled(s) \/ Sigterm(s) \/ CtrlC(s)
  \/ ScriptStep

SupervisionNext == SupervisionStep /\ UNCHANGED windows

(* Processes that are not killed run; drains end, by themselves or because *)
(* the grace period does.  Nobody need start, stop or fail.                *)
Fairness ==
  /\ \A w \in Writers : WF_supervisionVars(WriterStep(w) /\ UNCHANGED windows)
  /\ \A s \in Sups : WF_supervisionVars(SupStep(s) /\ UNCHANGED windows)

SupervisionSpec == SupervisionInit /\ [][SupervisionNext]_supervisionVars /\ Fairness

-----------------------------------------------------------------------------
SupervisionTypeOK ==
  /\ windows \in BOOLEAN
  /\ latch \in BOOLEAN
  /\ sup \in [ Sups -> [ at : {"none", "lock", "startup", "spawn", "watch", "grace",
                               "backoff", "settle"},
                         child : Writers \cup {Nobody}, level : 0 .. MaxLevel,
                         stop : BOOLEAN, forward : BOOLEAN ] ]
  /\ writer \in [ Writers -> [ at : {"dead", "start", "construct", "run", "drain", "buried"},
                               clean : BOOLEAN, signalled : BOOLEAN, forced : BOOLEAN,
                               job : BOOLEAN, parent : Sups \cup {Nobody} ] ]
  /\ script \in Reports \cup {"idle", "free?", "latch", "wait", "wait?", "hard", "kill writer", "kill supervisor",
                              "hard wait", "hard wait?"}
  /\ requests \in 0 .. MaxRequests

(* Two writers never scan into one data dir, whoever left whom behind.     *)
OneWriter == Cardinality({ w \in Writers : HoldsWriterLock(w) }) <= 1

(* "Signalling again would trip its second-signal-forces path": one stop   *)
(* request never cuts a drain short.                                       *)
OneRequestDrains ==
  requests <= 1 => \A w \in Writers : ~ writer[w].forced

(* "Never report stopped while anything still scans": where the children   *)
(* die with their supervisor, a verified stop is true and stays true until *)
(* the station is started again.                                           *)
StoppedIsTrue ==
  windows /\ script = "stopped" => \A w \in Writers : ~ Scanning(w)

(* Refuted: the same of the report the script gives when it finds both     *)
(* locks free.                                                             *)
NotRunningIsTrue ==
  windows /\ script = "not running" => \A w \in Writers : ~ Scanning(w)

(* A stop request is never lost: while the latch is there every process    *)
(* ends, whatever is started, killed or restarted meanwhile.               *)
LatchStops ==
  latch ~> (~ latch \/ \A w \in Writers : ~ Alive(w))
===================================================================================
