---------------------------- MODULE AgentProcess ----------------------------
(***************************************************************************)
(* The agent as a process and its PID file, by which later starts and the  *)
(* stop command know it (src/main.rs cmd_start_services and cmd_stop,      *)
(* src/config/mod.rs, src/tray/mod.rs).                                    *)
(*                                                                         *)
(* The file is read, checked and written without a lock.  A guard removes  *)
(* it, whatever it says by then, when the start command returns; an agent  *)
(* that a signal or the end of the tray's main thread ends does not return.*)
(* Opening the stores and running the services is one stretch of the start.*)
(***************************************************************************)
EXTENDS Naturals

CONSTANTS
  Pids,      \* process ids, which the system gives out again
  NoPid,
  Torn,      \* a file that has been emptied and not yet written
  MaxStarts  \* bound on start commands

ASSUME AgentProcessAssumption ==
  /\ NoPid \notin Pids /\ Torn \notin Pids /\ Torn # NoPid
  /\ MaxStarts \in Nat

VARIABLES
  process, \* per id: none, a stranger, or where an agent stands
  seen,    \* what an agent has read in the file
  pidFile,
  stop,    \* the stop command: where it stands and the id it has read
  starts,
  overlap, \* history: has a command begun while another was under way
  ended    \* history: how the last agent of an id ended

procVars == <<process, seen, pidFile, stop, starts, overlap, ended>>

Beginning == {"check", "stale", "write", "fill", "guarded"}
Agent     == Beginning \cup {"up", "tray"}
Idle      == [at |-> "idle", pid |-> NoPid]

ProcInit ==
  /\ process = [p \in Pids |-> "none"] /\ seen = [p \in Pids |-> NoPid]
  /\ pidFile = NoPid /\ stop = Idle
  /\ starts = 0 /\ overlap = FALSE /\ ended = [p \in Pids |-> "never ran"]

UnderWay == stop.at # "idle" \/ \E p \in Pids : process[p] \in Beginning

Becomes(p, from, to) == process[p] = from /\ process' = [process EXCEPT ![p] = to]
Ends(p, how) ==
  /\ process[p] \in Agent
  /\ process' = [process EXCEPT ![p] = "none"]
  /\ ended' = [ended EXCEPT ![p] = how]
  /\ seen' = [seen EXCEPT ![p] = NoPid]

\* kill -0: a stranger of another user cannot be seen.
SeenRunning(p) == IF process[p] = "stranger" THEN BOOLEAN ELSE {process[p] # "none"}
-----------------------------------------------------------------------------
(* cmd_start_services.                                                       *)
\* Without a file that can be read as a number nothing is checked or removed.
ReadPid(p) ==
  /\ process[p] = "none"
  /\ starts < MaxStarts /\ starts' = starts + 1
  /\ overlap' = (overlap \/ UnderWay)
  /\ process' = [process EXCEPT ![p] = IF pidFile \in Pids THEN "check" ELSE "write"]
  /\ seen' = [seen EXCEPT ![p] = IF pidFile \in Pids THEN pidFile ELSE NoPid]
  /\ UNCHANGED <<pidFile, stop, ended>>

\* Seeded fault: the answer of the check is not looked at.
NeverRefused(running) == FALSE
AlreadyRunning(running) == running

CheckPid(p) ==
  /\ process[p] = "check"
  /\ \E running \in SeenRunning(seen[p]) :
       IF AlreadyRunning(running) THEN Ends(p, "refused")
       ELSE /\ Becomes(p, "check", "stale")
            /\ seen' = [seen EXCEPT ![p] = NoPid] /\ UNCHANGED ended
  /\ UNCHANGED <<pidFile, stop, starts, overlap>>

RemoveStale(p) ==
  /\ Becomes(p, "stale", "write") /\ pidFile' = NoPid
  /\ UNCHANGED <<seen, stop, starts, overlap, ended>>

\* write_pid: the file is emptied and then filled.
EmptyFile(p) ==
  /\ Becomes(p, "write", "fill") /\ pidFile' = Torn
  /\ UNCHANGED <<seen, stop, starts, overlap, ended>>

WritePid(p) ==
  /\ Becomes(p, "fill", "guarded") /\ pidFile' = p
  /\ UNCHANGED <<seen, stop, starts, overlap, ended>>

ComeUp(p) ==
  /\ Becomes(p, "guarded", "up")
  /\ UNCHANGED <<seen, pidFile, stop, starts, overlap, ended>>

\* An error before there is a guard: no configuration, or the file itself.
FailEarly(p) ==
  /\ process[p] \in Beginning \ {"guarded"} /\ Ends(p, "failed")
  /\ UNCHANGED <<pidFile, stop, starts, overlap>>

\* The guard is dropped after an error or after Ctrl+C, when the tray's thread
\* may keep the process.
FailLate(p) ==
  /\ process[p] = "guarded" /\ Ends(p, "failed")
  /\ pidFile' = NoPid
  /\ UNCHANGED <<stop, starts, overlap>>

Interrupt(p) ==
  /\ \/ process[p] = "up" /\ Ends(p, "interrupted")
     \/ Becomes(p, "up", "tray") /\ UNCHANGED <<seen, ended>>
  /\ pidFile' = NoPid
  /\ UNCHANGED <<stop, starts, overlap>>

\* Quit in the tray's menu: SIGTERM, which nobody handles, or the return of main.
Quit(p) ==
  /\ Ends(p, "quit")
  /\ UNCHANGED <<pidFile, stop, starts, overlap>>
-----------------------------------------------------------------------------
(* cmd_stop and stop_process.  Without a number in the file nothing happens. *)
StopTo(from, to) == stop.at = from /\ stop' = [stop EXCEPT !.at = to]
StopEnds(from)   == stop.at = from /\ stop' = Idle

ReadForStop ==
  /\ stop.at = "idle" /\ pidFile \in Pids
  /\ stop' = [at |-> "check", pid |-> pidFile]
  /\ overlap' = (overlap \/ UnderWay)
  /\ UNCHANGED <<process, seen, pidFile, starts, ended>>

CheckForStop ==
  /\ stop.at = "check"
  /\ \E running \in SeenRunning(stop.pid) :
       StopTo("check", IF running THEN "terminate" ELSE "remove")
  /\ UNCHANGED <<process, seen, pidFile, starts, overlap, ended>>

\* A stranger may live on; one of another user, or nobody, is a failure.
Terminate ==
  /\ \/ StopTo("terminate", "wait") /\ Ends(stop.pid, "stopped")
     \/ /\ StopTo("terminate", "wait") /\ process[stop.pid] = "stranger"
        /\ process' \in {process, [process EXCEPT ![stop.pid] = "none"]}
        /\ UNCHANGED <<seen, ended>>
     \/ /\ StopEnds("terminate") /\ process[stop.pid] \in {"none", "stranger"}
        /\ UNCHANGED <<process, seen, ended>>
  /\ UNCHANGED <<pidFile, starts, overlap>>

\* Half a second later: whoever has the id by now.
KillHard ==
  /\ StopTo("wait", "remove")
  /\ \/ Ends(stop.pid, "stopped")
     \/ /\ process[stop.pid] = "stranger" /\ process' = [process EXCEPT ![stop.pid] = "none"]
        /\ UNCHANGED <<seen, ended>>
     \/ process[stop.pid] \in {"none", "stranger"} /\ UNCHANGED <<process, seen, ended>>
  /\ UNCHANGED <<pidFile, starts, overlap>>

RemoveForStop ==
  /\ StopEnds("remove") /\ pidFile' = NoPid
  /\ UNCHANGED <<process, seen, starts, overlap, ended>>
-----------------------------------------------------------------------------
(* The system: agents are killed or crash, other programs come and go.       *)
Killed(p) ==
  /\ Ends(p, "killed")
  /\ UNCHANGED <<pidFile, stop, starts, overlap>>

Stranger(p) ==
  /\ Becomes(p, "none", "stranger") \/ Becomes(p, "stranger", "none")
  /\ UNCHANGED <<seen, pidFile, stop, starts, overlap, ended>>

ProcNext ==
  \/ \E p \in Pids :
       \/ ReadPid(p) \/ CheckPid(p) \/ RemoveStale(p) \/ EmptyFile(p) \/ WritePid(p)
       \/ ComeUp(p) \/ FailEarly(p) \/ FailLate(p) \/ Interrupt(p) \/ Quit(p)
       \/ Killed(p) \/ Stranger(p)
  \/ ReadForStop \/ CheckForStop \/ Terminate \/ KillHard \/ RemoveForStop

ProcSpec == ProcInit /\ [][ProcNext]_procVars
-----------------------------------------------------------------------------
(* As long as start and stop commands have come one after another, an agent  *)
(* that is up is the one that the file names, however the agents before it   *)
(* ended and whoever has got their ids since: so there is only one, and stop *)
(* finds it.                                                                 *)
RunningAgentIsFound == ~overlap => \A p \in Pids : process[p] = "up" => pidFile = p

(* "Ensures the PID file is cleaned up if startup fails or process exits."   *)
(* An agent that has ended by Ctrl+C or from the tray is not in the file.    *)
PidFileCleanedUp ==
  \A p \in Pids :
    process[p] = "none" /\ ended[p] \in {"interrupted", "quit"} => pidFile # p
=============================================================================
