---------------------------- MODULE AgentControl ----------------------------
(***************************************************************************)
(* The control of the agent: the script agent.sh with its commands start,   *)
(* stop, restart, monitor and clear, run by the operator and by cron at any *)
(* time, and the start-up of main (soaagent/main.c) in each agent process   *)
(* they launch.  All that connects the two is the pid file.                 *)
(*                                                                          *)
(* The sleeps of the script order nothing: an agent may be quicker or       *)
(* slower.  A pid is given again once its process is gone, also to a        *)
(* process that is no agent.  monitor looks six times; each look is a       *)
(* command of its own here.                                                 *)
(***************************************************************************)
EXTENDS Integers, Sequences, FiniteSets

CONSTANTS
    Pids,
    NoPid,         \* no pid file, or an empty one
    Scripts,       \* invocations of agent.sh that run at the same time
    SamePidFile,   \* server:pid_file of core.conf is the script's pidfile; not as shipped
    MaxCommands,   \* bound: commands given
    MaxMishaps     \* bound: crashes, and pids given to other processes

ASSUME ControlConfig ==
    /\ NoPid \notin Pids /\ SamePidFile \in BOOLEAN
    /\ MaxCommands \in Nat /\ MaxMishaps \in Nat

VARIABLES
    at,         \* where main is in the process of a pid; none, or other for no agent
    pidfile,    \* the pid in the script's pid file
    step,       \* where a script is
    then,       \* what a script does after a stop: idle, or launch for a restart
    target,     \* processpid
    said,       \* the last report of a script
    commands, mishaps,
    before,     \* history: agents that served when the script began to stop
    disturbed,  \* history: agents during whose life another was launched, the logs were
                \* cleared, or whose pid could not be written
    astray      \* history: agents whose pid went into another file than the script's

controlVars == <<step, then, target, said, commands>>
vars == <<at, pidfile, controlVars, mishaps, before, disturbed, astray>>

Stages == <<"daemonize", "log", "signals", "pid", "write", "stub", "bind", "serving">>
Stage(p) == CHOOSE i \in 1..Len(Stages) : Stages[i] = at[p]
Agents == {p \in Pids : at[p] \notin {"none", "other"}}
Serving == {p \in Pids : at[p] = "serving"}

\* The process of p is gone, and with it what the history knows of it.
Gone(p) ==
    /\ at' = [at EXCEPT ![p] = "none"]
    /\ before' = [s \in Scripts |-> before[s] \ {p}]
    /\ disturbed' = disturbed \ {p} /\ astray' = astray \ {p}

-----------------------------------------------------------------------------
(***************************************************************************)
(* main.                                                                    *)
(***************************************************************************)

\* The second fork, log_init, the signal mask and the signal thread, invoke_stub_init.
Advance(p) ==
    /\ at[p] \in {"daemonize", "log", "signals", "stub"}
    /\ at' = [at EXCEPT ![p] = Stages[Stage(p) + 1]]
    /\ UNCHANGED <<pidfile, controlVars, mishaps, before, disturbed, astray>>

\* One of them fails, and the process exits.
Fails(p) ==
    /\ at[p] \in {"daemonize", "log", "signals", "stub"}
    /\ Gone(p)
    /\ UNCHANGED <<pidfile, controlVars, mishaps>>

\* Mutant: the pid is appended, and the script reads the first one.
OpenPidAppends(p) ==
    /\ at[p] = "pid"
    /\ at' = [at EXCEPT ![p] = IF pidfile = NoPid THEN "write" ELSE "stub"]
    /\ UNCHANGED <<pidfile, disturbed, controlVars, mishaps, before, astray>>

\* write_pid opens the file, which empties it, and then writes; main does not look at the
\* result.
OpenPid(p) ==
    /\ at[p] = "pid"
    /\ \/ /\ at' = [at EXCEPT ![p] = "write"]
          /\ pidfile' = IF SamePidFile THEN NoPid ELSE pidfile
          /\ UNCHANGED disturbed
       \/ /\ at' = [at EXCEPT ![p] = "stub"]
          /\ disturbed' = disturbed \cup {p}
          /\ UNCHANGED pidfile
    /\ UNCHANGED <<controlVars, mishaps, before, astray>>

WritePid(p) ==
    /\ at[p] = "write"
    /\ at' = [at EXCEPT ![p] = "stub"]
    /\ IF SamePidFile THEN pidfile' = p /\ UNCHANGED astray
       ELSE astray' = astray \cup {p} /\ UNCHANGED pidfile
    /\ UNCHANGED <<controlVars, mishaps, before, disturbed>>

\* Only one process can have the port; a step of the server's start-up may fail for other
\* reasons too.
Bind(p) ==
    /\ at[p] = "bind" /\ Serving = {}
    /\ at' = [at EXCEPT ![p] = "serving"]
    /\ UNCHANGED <<pidfile, controlVars, mishaps, before, disturbed, astray>>

BindFails(p) ==
    /\ at[p] = "bind"
    /\ Gone(p)
    /\ UNCHANGED <<pidfile, controlVars, mishaps>>

-----------------------------------------------------------------------------
(***************************************************************************)
(* agent.sh.                                                                *)
(***************************************************************************)
Goto(s, where) == step' = [step EXCEPT ![s] = where]

\* The pid file exists, and ps finds a process of this pid.
ProcessExists == pidfile # NoPid /\ at[pidfile] # "none"

Command(s, first, after) ==
    /\ step[s] = "idle" /\ commands < MaxCommands
    /\ commands' = commands + 1
    /\ Goto(s, first) /\ then' = [then EXCEPT ![s] = after]
    /\ said' = [said EXCEPT ![s] = "nothing"]

Start(s) ==
    /\ Command(s, "launch", "idle")
    /\ UNCHANGED <<at, pidfile, target, mishaps, before, disturbed, astray>>

Stop(s) ==
    /\ \E after \in {"idle", "launch"} : Command(s, "look", after)
    /\ before' = [before EXCEPT ![s] = Serving]
    /\ UNCHANGED <<at, pidfile, target, mishaps, disturbed, astray>>

\* monitor, which starts an agent when it finds none.
Monitor(s) ==
    /\ Command(s, IF ProcessExists THEN "idle" ELSE "launch", "idle")
    /\ UNCHANGED <<at, pidfile, target, mishaps, before, disturbed, astray>>

\* clear removes the pid file with the logs.
Clear(s) ==
    /\ Command(s, "idle", "idle")
    /\ pidfile' = NoPid
    /\ disturbed' = disturbed \cup Agents
    /\ UNCHANGED <<at, target, mishaps, before, astray>>

\* The agent runs in the foreground until its first fork, or until it cannot read its
\* configuration.
Launch(s) ==
    /\ step[s] = "launch"
    /\ Goto(s, "verify")
    /\ \/ UNCHANGED <<at, disturbed>>
       \/ \E p \in Pids :
            /\ at[p] = "none"
            /\ at' = [at EXCEPT ![p] = "daemonize"]
            /\ disturbed' = IF Agents = {} THEN disturbed ELSE disturbed \cup Agents \cup {p}
    /\ UNCHANGED <<pidfile, then, target, said, commands, mishaps, before, astray>>

Verify(s) ==
    /\ step[s] = "verify"
    /\ said' = [said EXCEPT ![s] = IF ProcessExists THEN "started" ELSE "not started"]
    /\ Goto(s, "idle")
    /\ UNCHANGED <<at, pidfile, then, target, commands, mishaps, before, disturbed, astray>>

Look(s) ==
    /\ step[s] = "look"
    /\ IF ProcessExists THEN Goto(s, "kill") /\ target' = [target EXCEPT ![s] = pidfile]
       ELSE Goto(s, "confirm") /\ UNCHANGED target
    /\ UNCHANGED <<at, pidfile, then, said, commands, mishaps, before, disturbed, astray>>

\* SIGTERM is not caught, and ends whatever process has the pid by now.
Kill(s) ==
    /\ step[s] = "kill"
    /\ Gone(target[s])
    /\ Goto(s, "confirm") /\ target' = [target EXCEPT ![s] = NoPid]
    /\ UNCHANGED <<pidfile, then, said, commands, mishaps>>

Confirm(s) ==
    /\ step[s] = "confirm"
    /\ said' = [said EXCEPT ![s] = IF ProcessExists THEN "not stopped" ELSE "stopped"]
    /\ Goto(s, then[s]) /\ then' = [then EXCEPT ![s] = "idle"]
    /\ UNCHANGED <<at, pidfile, target, commands, mishaps, before, disturbed, astray>>

-----------------------------------------------------------------------------
(***************************************************************************)
(* External: an agent crashes, another process gets its pid, and ends.      *)
(***************************************************************************)
Crash(p) ==
    /\ p \in Agents /\ mishaps < MaxMishaps
    /\ mishaps' = mishaps + 1
    /\ Gone(p)
    /\ UNCHANGED <<pidfile, controlVars>>

Foreign(p) ==
    /\ at[p] = "none" /\ mishaps < MaxMishaps
    /\ mishaps' = mishaps + 1
    /\ at' = [at EXCEPT ![p] = "other"]
    /\ UNCHANGED <<pidfile, controlVars, before, disturbed, astray>>

ForeignEnds(p) ==
    /\ at[p] = "other"
    /\ at' = [at EXCEPT ![p] = "none"]
    /\ UNCHANGED <<pidfile, controlVars, mishaps, before, disturbed, astray>>

Init ==
    /\ at = [p \in Pids |-> "none"] /\ pidfile = NoPid
    /\ step = [s \in Scripts |-> "idle"] /\ then = [s \in Scripts |-> "idle"]
    /\ target = [s \in Scripts |-> NoPid] /\ said = [s \in Scripts |-> "nothing"]
    /\ commands = 0 /\ mishaps = 0
    /\ before = [s \in Scripts |-> {}] /\ disturbed = {} /\ astray = {}

MainNext(p) == Advance(p) \/ Fails(p) \/ OpenPid(p) \/ WritePid(p) \/ Bind(p) \/ BindFails(p)

ScriptNext(s) ==
    \/ Start(s) \/ Stop(s) \/ Monitor(s) \/ Clear(s)
    \/ Launch(s) \/ Verify(s) \/ Look(s) \/ Kill(s) \/ Confirm(s)

Next ==
    \/ \E p \in Pids : MainNext(p) \/ Crash(p) \/ Foreign(p) \/ ForeignEnds(p)
    \/ \E s \in Scripts : ScriptNext(s)

Spec == Init /\ [][Next]_vars

-----------------------------------------------------------------------------
(***************************************************************************)
(* Properties.                                                              *)
(***************************************************************************)

\* When stop reports success, the agent that served when it began does not serve any more,
\* although the script knows no more than a pid that nobody removes and that another process
\* may have by now.  The exceptions are an agent that was not alone for all its life, because
\* a second one that is launched, by monitor too while the first is still starting, puts its
\* own pid into the file before it fails for the port, or clear removes the file; and an
\* agent whose pid did not get into the script's file.
StopReports ==
    \A s \in Scripts : said[s] = "stopped" =>
      before[s] \cap Serving \subseteq disturbed \cup astray

\* What the report "successfully" of stop says of an agent that nobody disturbed: it does not
\* serve any more.  This is false for agent.sh and core.conf as they are shipped, which name
\* two different pid files: the agent writes the one, and stop looks into the other.
StopSucceeds ==
    \A s \in Scripts : said[s] = "stopped" => before[s] \cap Serving \subseteq disturbed
=============================================================================
