------------------------ MODULE AgentControl_proofs ------------------------
(***************************************************************************)
(* What a stop that reports success has done, and what the scripts do as    *)
(* they are shipped, for any number of processes, of scripts that run at    *)
(* the same time, of commands and of mishaps.                               *)
(***************************************************************************)
EXTENDS AgentControl, TLAPS

Places ==
    {"none", "other", "daemonize", "log", "signals", "pid", "write", "stub", "bind", "serving"}

Typed ==
    /\ at \in [Pids -> Places] /\ pidfile \in Pids \cup {NoPid}
    /\ step \in [Scripts -> {"idle", "launch", "verify", "look", "kill", "confirm"}]
    /\ then \in [Scripts -> {"idle", "launch"}]
    /\ target \in [Scripts -> Pids \cup {NoPid}]
    /\ said \in [Scripts -> {"nothing", "started", "not started", "stopped", "not stopped"}]
    /\ before \in [Scripts -> SUBSET Pids] /\ disturbed \subseteq Pids /\ astray \subseteq Pids
    /\ \A s \in Scripts : step[s] = "kill" => target[s] \in Pids

\* The history names processes that are still the same ones: a pid that was given again is
\* not taken for the agent that had it before.
HistoryIsOfLiving ==
    /\ disturbed \subseteq Agents /\ astray \subseteq Agents
    /\ \A s \in Scripts : before[s] \subseteq Serving

\* An agent that nothing has disturbed is alone, and once it has written its pid the file
\* has it, unless it has written another file.
UndisturbedIsKnown ==
    \A p \in Agents \ disturbed :
      /\ \A q \in Agents : q = p
      /\ at[p] \in {"stub", "bind", "serving"} /\ p \notin astray => pidfile = p

IInv == Typed /\ HistoryIsOfLiving /\ UndisturbedIsKnown /\ StopReports

USE ControlConfig

\* The step of main that follows the one a process is at.
LEMMA NextStage ==
    ASSUME NEW p \in Pids, at[p] \in {"daemonize", "log", "signals", "stub"}
    PROVE  Stages[Stage(p) + 1] = CASE at[p] = "daemonize" -> "log"
                                    [] at[p] = "log" -> "signals"
                                    [] at[p] = "signals" -> "pid"
                                    [] at[p] = "stub" -> "bind"
<1> DEFINE P(i) == i \in 1..8 /\ Stages[i] = at[p]
<1>0. /\ Stages = <<"daemonize", "log", "signals", "pid", "write", "stub", "bind", "serving">>
      /\ Len(Stages) = 8 /\ Stage(p) = CHOOSE i \in 1..8 : Stages[i] = at[p]
  BY DEF Stages, Stage
<1>1. Stage(p) \in 1..8 /\ Stages[Stage(p)] = at[p]
  <2>1. \E i \in 1..8 : Stages[i] = at[p]
    <3>1. Stages[1] = "daemonize" /\ Stages[2] = "log" /\ Stages[3] = "signals"
          /\ Stages[6] = "stub"
      BY <1>0
    <3> QED
      BY <3>1
  <2> QED
    BY <1>0, <2>1
<1>2. Stage(p) = CASE at[p] = "daemonize" -> 1 [] at[p] = "log" -> 2 [] at[p] = "signals" -> 3
                   [] at[p] = "stub" -> 6
  BY <1>0, <1>1
<1> QED
  BY <1>0, <1>2

\* The initial states.
LEMMA InitIInv == Init => IInv
BY DEF Init, IInv, Typed, Places, HistoryIsOfLiving, UndisturbedIsKnown, StopReports, Agents,
       Serving

\* A process that is gone: what the history knew of it goes with it.
LEMMA GoneKeeps ==
    ASSUME IInv, NEW p \in Pids, Gone(p), UNCHANGED <<pidfile, then, said>>,
           step' \in [Scripts -> {"idle", "launch", "verify", "look", "kill", "confirm"}],
           target' \in [Scripts -> Pids \cup {NoPid}],
           \A s \in Scripts : step'[s] = "kill" => target'[s] \in Pids
    PROVE  IInv'
<1> USE DEF IInv, Agents, Serving
<1>1. Typed'
  BY DEF Typed, Places, Gone
<1>2. HistoryIsOfLiving'
  BY DEF Typed, HistoryIsOfLiving, Gone
<1>3. UndisturbedIsKnown'
  BY ZenonT(40) DEF Typed, UndisturbedIsKnown, Gone
<1>4. StopReports'
  BY DEF Typed, StopReports, Gone
<1> QED
  BY <1>1, <1>2, <1>3, <1>4

\* main, and what happens to a process from outside.
LEMMA ProcessKeeps ==
    ASSUME IInv, NEW p \in Pids,
           MainNext(p) \/ Crash(p) \/ Foreign(p) \/ ForeignEnds(p)
    PROVE  IInv'
<1> USE DEF IInv, Agents, Serving, controlVars
<1>1. CASE Advance(p)
  <2> DEFINE next == Stages[Stage(p) + 1]
  <2>1. next \in {"log", "signals", "pid", "bind"} /\ (next = "bind" => at[p] = "stub")
    BY <1>1, NextStage DEF Advance
  <2>2. /\ at' = [at EXCEPT ![p] = next] /\ at[p] \in {"daemonize", "log", "signals", "stub"}
        /\ UNCHANGED <<pidfile, step, then, target, said, before, disturbed, astray>>
    BY <1>1 DEF Advance
  <2> HIDE DEF next
  <2>3. Typed'
    BY <2>1, <2>2 DEF Typed, Places
  <2>4. HistoryIsOfLiving' /\ StopReports'
    BY <2>1, <2>2 DEF Typed, Places, HistoryIsOfLiving, StopReports
  <2>5. UndisturbedIsKnown'
    <3>1. Agents' = Agents
      BY <2>1, <2>2 DEF Typed
    <3>2. \A q \in Agents : at'[q] \in {"stub", "bind", "serving"} =>
            at[q] \in {"stub", "bind", "serving"}
      BY <2>1, <2>2 DEF Typed
    <3> QED
      BY <2>2, <3>1, <3>2 DEF UndisturbedIsKnown
  <2> QED
    BY <2>3, <2>4, <2>5
<1>2. CASE Fails(p) \/ BindFails(p) \/ Crash(p)
  BY <1>2, GoneKeeps DEF Fails, BindFails, Crash, Typed
<1>3. CASE OpenPid(p)
  <2>1. Typed'
    <3>1. at' = [at EXCEPT ![p] = "write"] \/ at' = [at EXCEPT ![p] = "stub"]
      BY <1>3 DEF OpenPid
    <3>2. at' \in [Pids -> Places]
      BY <3>1 DEF Typed, Places
    <3>3. pidfile' \in Pids \cup {NoPid} /\ disturbed' \subseteq Pids
      BY <1>3 DEF OpenPid, Typed
    <3> QED
      BY <1>3, <3>2, <3>3 DEF OpenPid, Typed
  <2>2. HistoryIsOfLiving' /\ StopReports'
    BY <1>3, ZenonT(40) DEF OpenPid, Typed, HistoryIsOfLiving, StopReports
  <2>3. UndisturbedIsKnown'
    BY <1>3, ZenonT(40) DEF OpenPid, Typed, UndisturbedIsKnown
  <2> QED
    BY <2>1, <2>2, <2>3
<1>4. CASE WritePid(p)
  <2>1. Typed'
    BY <1>4 DEF WritePid, Typed, Places
  <2>2. HistoryIsOfLiving' /\ StopReports'
    <3>1. /\ at' = [at EXCEPT ![p] = "stub"] /\ at[p] = "write"
          /\ disturbed \cup astray \subseteq disturbed' \cup astray'
          /\ astray' \subseteq astray \cup {p}
          /\ UNCHANGED <<said, before, disturbed>>
      BY <1>4 DEF WritePid
    <3>2. Serving' = Serving /\ Agents' = Agents /\ p \in Agents
      BY <3>1 DEF Typed
    <3> HIDE DEF Serving, Agents
    <3>3. HistoryIsOfLiving'
      BY <3>1, <3>2 DEF HistoryIsOfLiving
    <3>4. StopReports'
      BY <3>1, <3>2 DEF StopReports
    <3> QED
      BY <3>3, <3>4
  <2>3. UndisturbedIsKnown'
    BY <1>4 DEF WritePid, Typed, UndisturbedIsKnown
  <2> QED
    BY <2>1, <2>2, <2>3
<1>5. CASE Bind(p)
  <2>1. Typed'
    BY <1>5 DEF Bind, Typed, Places
  <2>2. HistoryIsOfLiving' /\ StopReports'
    BY <1>5 DEF Bind, Typed, HistoryIsOfLiving, StopReports
  <2>3. UndisturbedIsKnown'
    BY <1>5 DEF Bind, Typed, UndisturbedIsKnown
  <2> QED
    BY <2>1, <2>2, <2>3
<1>6. CASE Foreign(p) \/ ForeignEnds(p)
  <2>1. Typed'
    BY <1>6 DEF Foreign, ForeignEnds, Typed, Places
  <2>2. HistoryIsOfLiving' /\ StopReports'
    BY <1>6 DEF Foreign, ForeignEnds, Typed, HistoryIsOfLiving, StopReports
  <2>3. UndisturbedIsKnown'
    <3>1. Agents' = Agents /\ UNCHANGED <<pidfile, disturbed, astray>>
      BY <1>6 DEF Foreign, ForeignEnds, Typed
    <3>2. \A q \in Agents : at'[q] = at[q]
      BY <1>6 DEF Foreign, ForeignEnds, Typed
    <3> QED
      BY <3>1, <3>2 DEF UndisturbedIsKnown
  <2> QED
    BY <2>1, <2>2, <2>3
<1> QED
  BY <1>1, <1>2, <1>3, <1>4, <1>5, <1>6 DEF MainNext

\* The scripts.  Confirm is the step that counts: an agent that serves undisturbed, and wrote
\* the script's file, has its pid in it, so ps finds it and the report is not a success.
LEMMA ScriptKeeps ==
    ASSUME IInv, NEW s \in Scripts, ScriptNext(s)
    PROVE  IInv'
<1> USE DEF IInv, Agents, Serving, Goto
<1>1. CASE Start(s) \/ Monitor(s) \/ Verify(s) \/ Look(s)
  <2>1. Typed'
    BY <1>1, ZenonT(40) DEF Start, Monitor, Verify, Look, Command, Typed, ProcessExists
  <2>2. HistoryIsOfLiving' /\ UndisturbedIsKnown'
    BY <1>1 DEF Start, Monitor, Verify, Look, Command, HistoryIsOfLiving, UndisturbedIsKnown
  <2>3. StopReports'
    BY <1>1 DEF Start, Monitor, Verify, Look, Command, Typed, StopReports
  <2> QED
    BY <2>1, <2>2, <2>3
<1>2. CASE Stop(s)
  <2>1. Typed'
    BY <1>2, ZenonT(40) DEF Stop, Command, Typed
  <2>2. HistoryIsOfLiving' /\ UndisturbedIsKnown'
    BY <1>2 DEF Stop, Typed, HistoryIsOfLiving, UndisturbedIsKnown
  <2>3. StopReports'
    BY <1>2, ZenonT(40) DEF Stop, Command, Typed, StopReports
  <2> QED
    BY <2>1, <2>2, <2>3
<1>3. CASE Clear(s)
  <2>1. Typed'
    BY <1>3 DEF Clear, Command, Typed
  <2>2. HistoryIsOfLiving' /\ UndisturbedIsKnown'
    BY <1>3 DEF Clear, Typed, HistoryIsOfLiving, UndisturbedIsKnown
  <2>3. StopReports'
    BY <1>3 DEF Clear, Command, Typed, StopReports
  <2> QED
    BY <2>1, <2>2, <2>3
<1>4. CASE Launch(s)
  <2>1. Typed'
    BY <1>4 DEF Launch, Typed, Places
  <2>2. HistoryIsOfLiving'
    BY <1>4, ZenonT(40) DEF Launch, Typed, HistoryIsOfLiving
  <2>3. UndisturbedIsKnown'
    <3>1. CASE UNCHANGED <<at, disturbed>>
      BY <1>4, <3>1 DEF Launch, UndisturbedIsKnown
    <3>2. ASSUME NEW p \in Pids, at[p] = "none", at' = [at EXCEPT ![p] = "daemonize"],
                 disturbed' = IF Agents = {} THEN disturbed ELSE disturbed \cup Agents \cup {p}
          PROVE  UndisturbedIsKnown'
      <4>1. Agents' = Agents \cup {p} /\ at'[p] = "daemonize"
        BY <3>2 DEF Typed
      <4> HIDE DEF Agents
      <4>2. CASE Agents = {}
        BY <4>1, <4>2 DEF UndisturbedIsKnown
      <4>3. CASE Agents # {}
        BY <3>2, <4>1, <4>3 DEF UndisturbedIsKnown
      <4> QED
        BY <4>2, <4>3
    <3> QED
      BY <1>4, <3>1, <3>2 DEF Launch
  <2>4. StopReports'
    BY <1>4 DEF Launch, Typed, StopReports
  <2> QED
    BY <2>1, <2>2, <2>3, <2>4
<1>5. CASE Kill(s)
  BY <1>5, GoneKeeps DEF Kill, Typed
<1>6. CASE Confirm(s)
  <2>1. Typed'
    BY <1>6 DEF Confirm, Typed
  <2>2. HistoryIsOfLiving' /\ UndisturbedIsKnown'
    BY <1>6 DEF Confirm, HistoryIsOfLiving, UndisturbedIsKnown
  <2>3. ~ProcessExists => Serving \subseteq disturbed \cup astray
    <3>1. \A p \in Serving \ (disturbed \cup astray) : p \in Pids /\ pidfile = p /\ at[p] = "serving"
      BY DEF UndisturbedIsKnown
    <3> QED
      BY <3>1 DEF ProcessExists
  <2>4. StopReports'
    BY <1>6, <2>3 DEF Confirm, Typed, StopReports
  <2> QED
    BY <2>1, <2>2, <2>4
<1> QED
  BY <1>1, <1>2, <1>3, <1>4, <1>5, <1>6 DEF ScriptNext

\* When stop reports success, no agent that served when it began still serves, unless another
\* one was launched or the logs were cleared during its life, or its pid did not get into the
\* script's file: for any number of processes and scripts, and whether core.conf names the
\* script's pid file or not.
THEOREM StopReportsTruly == Spec => []StopReports
<1>1. IInv /\ [Next]_vars => IInv'
  <2> SUFFICES ASSUME IInv, [Next]_vars PROVE IInv'
    OBVIOUS
  <2>1. CASE Next
    BY <2>1, ProcessKeeps, ScriptKeeps DEF Next
  <2>2. CASE UNCHANGED vars
    BY <2>2 DEF vars, controlVars, IInv, Typed, HistoryIsOfLiving, UndisturbedIsKnown,
                StopReports, Agents, Serving
  <2> QED
    BY <2>1, <2>2
<1>2. IInv => StopReports
  BY DEF IInv
<1> QED
  BY InitIInv, <1>1, <1>2, PTL DEF Spec

-----------------------------------------------------------------------------
(***************************************************************************)
(* The scripts and core.conf as they are shipped.                           *)
(***************************************************************************)

\* A script that does not see the agents: it kills none, and it reports neither that one was
\* started nor that one could not be stopped.
Blind ==
    /\ pidfile = NoPid
    /\ \A s \in Scripts : step[s] # "kill" /\ said[s] \notin {"started", "not stopped"}

BlindInv ==
    /\ step \in [Scripts -> {"idle", "launch", "verify", "look", "kill", "confirm"}]
    /\ then \in [Scripts -> {"idle", "launch"}]
    /\ said \in [Scripts -> {"nothing", "started", "not started", "stopped", "not stopped"}]
    /\ Blind

\* Nobody writes the file that agent.sh looks into when core.conf names another one: start
\* reports a failure and stop a success whatever the agents do, and stop and restart end none.
THEOREM ScriptIsBlind ==
    ASSUME ~SamePidFile
    PROVE  Spec => []Blind
<1>1. Init => BlindInv
  BY DEF Init, BlindInv, Blind
<1>2. BlindInv /\ [Next]_vars => BlindInv'
  <2> SUFFICES ASSUME BlindInv, [Next]_vars PROVE BlindInv'
    OBVIOUS
  <2> USE DEF BlindInv, Blind
  <2>1. ASSUME NEW p \in Pids, MainNext(p) \/ Crash(p) \/ Foreign(p) \/ ForeignEnds(p)
        PROVE  BlindInv'
    <3>1. UNCHANGED <<pidfile, step, then, said>>
      BY <2>1 DEF MainNext, Advance, Fails, OpenPid, WritePid, Bind, BindFails, Crash, Foreign,
                  ForeignEnds, controlVars
    <3> QED
      BY <3>1
  <2>2. ASSUME NEW s \in Scripts, ScriptNext(s) PROVE BlindInv'
    <3> USE DEF Command, Goto, ProcessExists
    <3>1. CASE Start(s) \/ Stop(s) \/ Monitor(s) \/ Clear(s)
      BY <3>1 DEF Start, Stop, Monitor, Clear
    <3>2. CASE Launch(s)
      BY <3>2 DEF Launch
    <3>3. CASE Verify(s)
      BY <3>3 DEF Verify
    <3>4. CASE Look(s) \/ Kill(s)
      BY <3>4 DEF Look, Kill
    <3>5. CASE Confirm(s)
      BY <3>5 DEF Confirm
    <3> QED
      BY <2>2, <3>1, <3>2, <3>3, <3>4, <3>5 DEF ScriptNext
  <2>3. CASE UNCHANGED vars
    BY <2>3 DEF vars, controlVars
  <2> QED
    BY <2>1, <2>2, <2>3 DEF Next
<1>3. BlindInv => Blind
  BY DEF BlindInv
<1> QED
  BY <1>1, <1>2, <1>3, PTL DEF Spec
=============================================================================
