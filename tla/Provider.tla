------------------------------ MODULE Provider ------------------------------
(***************************************************************************)
(* The registration of a provider (soaregister: service_mgt.c, zk_handle.c, *)
(* scp.c, called from demo-demo/SoaServer.php), with the log of LogFile.    *)
(*                                                                          *)
(* The PHP thread registers once and, at the end of the module, closes the  *)
(* registry's handle and the log.  A handle has a completion thread, named  *)
(* like its session; when the session has expired this thread runs the      *)
(* watcher, which closes the handle, opens another and registers again.     *)
(* All of them work on the one zk_h.  The process may crash and be started  *)
(* again: its session then lives on until the registry lets it expire.      *)
(***************************************************************************)
EXTENDS LogFile

CONSTANTS
    Main,
    MaxSessions,  \* bound: sessions, 1..MaxSessions
    Texts,        \* contents of the services file, each of which has its own node
    Malformed,    \* a content that cannot be read or parsed
    MaxEvents,    \* bound: expiries, edits, rotations, lines logged and ends of the process
    InitMayFail   \* a handle may fail to be opened, and a request to the registry

Sessions == 1..MaxSessions
Steps == {"idle", "init", "connect", "exists", "read", "fini", "destroy", "close_log", "ended"}

\* A thread that has read the services file is at its content, which is no other step.
ASSUME ProviderConfig ==
    /\ Threads = {Main} \cup Sessions /\ Main \notin Sessions
    /\ Malformed \notin Texts /\ Texts \cap Steps = {}
    /\ MaxSessions \in Nat /\ MaxEvents \in Nat /\ InitMayFail \in BOOLEAN

VARIABLES
    phase,     \* of the PHP process: down, loaded, serving, failed, ending, aborting
    step,      \* where a thread is in the functions of service_mgt.c
    zk,        \* zk_h.zk, 0 is NULL; a handle is named like its session
    stream,    \* zh->log_file and the stream of the library: none, open, closed
    inited,    \* g_inited
    recorded,  \* zk_h.node_value, by the text it encodes, or Malformed for none
    text,      \* the services file
    session,   \* new, live, expired; closed when the handle is closed or the process gone
    mine,      \* sessions of this process
    listed,    \* the node of a text in the registry: its session, or 0
    events,    \* events so far
    ok,        \* history: the last registration has succeeded
    early,     \* history: a handle was replaced by none, or its log file by none
    met,       \* history: two threads were in these functions at a time
    misused    \* history: a closed handle or stream was used or closed again

stubVars == <<phase, step, zk, stream, inited, recorded, text, session, mine, listed, ok,
              early, met, misused>>
providerVars == <<stubVars, events>>
vars == <<providerVars, logVars>>

\* A thread does the next thing here when it is not in the middle of writing a line.
At(t, s) == phase # "down" /\ step[t] = s /\ line[t] = "out"
Goto(t, s) == step' = [step EXCEPT ![t] = s]

\* The end of init_zk_handle or register_services with an error: provider_stub_init returns
\* -1 and SoaServer shuts down; the watcher returns.
Failed(t) ==
    /\ Goto(t, "idle") /\ ok' = FALSE
    /\ phase' = IF t = Main THEN "failed" ELSE phase

\* Something happens that the model bounds.
Event == events < MaxEvents /\ events' = events + 1

Unused == {s \in Sessions : session[s] = "new"}

-----------------------------------------------------------------------------
(***************************************************************************)
(* init_zk_handle.                                                          *)
(***************************************************************************)

\* make_sure_dir and fopen: without the file the handle keeps the one it had.
OpenStream(t) ==
    /\ At(t, "init")
    /\ \/ stream' = "open" /\ Goto(t, "connect") /\ UNCHANGED <<ok, phase, early>>
       \/ /\ InitMayFail /\ UNCHANGED stream /\ early' = TRUE
          /\ Failed(t) \/ (Goto(t, "connect") /\ UNCHANGED <<ok, phase>>)
    /\ UNCHANGED <<zk, inited, recorded, text, session, mine, listed, events, met, misused,
                   logVars>>

\* Mutant: the new handle is stored only where there was none.
ConnectUnstored(t) ==
    /\ At(t, "connect") /\ Goto(t, "exists")
    /\ misused' = (misused \/ stream = "closed")
    /\ \E s \in Unused :
         /\ session' = [session EXCEPT ![s] = "live"] /\ mine' = mine \cup {s}
         /\ zk' = IF zk = 0 THEN s ELSE zk
    /\ UNCHANGED <<phase, stream, inited, recorded, text, listed, events, ok, early, met, logVars>>

\* zookeeper_init writes to the stream, and may give no handle.
Connect(t) ==
    /\ At(t, "connect")
    /\ misused' = (misused \/ stream = "closed")
    /\ \/ \E s \in Sessions :
            /\ s \in Unused /\ \A r \in Unused : s <= r
            /\ session' = [session EXCEPT ![s] = "live"] /\ mine' = mine \cup {s}
            /\ zk' = s /\ Goto(t, "exists") /\ UNCHANGED <<ok, phase>>
       \/ InitMayFail /\ zk' = 0 /\ Failed(t) /\ UNCHANGED <<session, mine>>
    /\ UNCHANGED <<stream, inited, recorded, text, listed, events, early, met, logVars>>

\* A request of t goes through on the handle that zk_h has now.
Answers == zk # 0 /\ session[zk] = "live"
Uses == misused' = (misused \/ (zk # 0 /\ session[zk] = "closed"))

Exists(t) ==
    /\ At(t, "exists") /\ Uses
    /\ \/ Answers /\ Goto(t, "read") /\ UNCHANGED <<ok, phase>>
       \/ (InitMayFail \/ ~Answers) /\ Failed(t)
    /\ UNCHANGED <<zk, stream, inited, recorded, text, session, mine, listed, events, early,
                   met, logVars>>

(***************************************************************************)
(* register_services.                                                       *)
(***************************************************************************)

\* read_content_from_file and cJSON_Parse.
ReadServices(t) ==
    /\ At(t, "read")
    /\ IF text = Malformed THEN Failed(t) ELSE Goto(t, text) /\ UNCHANGED <<ok, phase>>
    /\ UNCHANGED <<zk, stream, inited, recorded, text, session, mine, listed, events, early,
                   met, misused, logVars>>

Registered(t) ==
    /\ ok' = TRUE /\ Goto(t, "idle")
    /\ IF t = Main
       THEN phase' = "serving" /\ inited' = TRUE
       ELSE UNCHANGED <<phase, inited>>

\* Mutant: a node that is there already is good enough.
MakeNodeUnlessListed(t, x) ==
    /\ At(t, x) /\ Uses /\ Answers
    /\ listed' = IF listed[x] = 0 THEN [listed EXCEPT ![x] = zk] ELSE listed
    /\ recorded' = x /\ Registered(t)
    /\ UNCHANGED <<zk, stream, text, session, mine, events, early, met, logVars>>

\* make_sure_enode creates the nodes above, whose errors are ignored, and the ephemeral
\* node, which must not exist; node_value is kept.
MakeNode(t, x) ==
    /\ At(t, x) /\ Uses
    /\ Answers /\ listed[x] = 0
    /\ listed' = [listed EXCEPT ![x] = zk]
    /\ recorded' = x /\ Registered(t)
    /\ UNCHANGED <<zk, stream, text, session, mine, events, early, met, logVars>>

MakeNodeFails(t, x) ==
    /\ At(t, x) /\ Uses
    /\ InitMayFail \/ ~Answers \/ listed[x] # 0
    /\ Failed(t)
    /\ UNCHANGED <<zk, stream, inited, recorded, text, session, mine, listed, events, early,
                   met, logVars>>

(***************************************************************************)
(* fini_zk_handle: zookeeper_close ends the session and the completion      *)
(* thread of the handle, waiting for it unless it is the caller; then the   *)
(* log file.  Neither zk nor log_file is reset.                             *)
(***************************************************************************)
Unlist(s) == listed' = [x \in Texts |-> IF listed[x] = s THEN 0 ELSE listed[x]]

Fini(t, then) ==
    /\ (zk # 0 /\ zk # t) => step[zk] = "idle" /\ line[zk] = "out"
    /\ misused' = (misused \/ (zk # 0 /\ session[zk] = "closed") \/ stream = "closed")
    /\ IF zk = 0 THEN UNCHANGED <<session, listed>>
       ELSE session' = [session EXCEPT ![zk] = "closed"] /\ Unlist(zk)
    /\ stream' = IF stream = "none" THEN "none" ELSE "closed"
    /\ Goto(t, then)

\* my_zk_watcher_marshal, when the session of its handle has expired.
Expired(s) ==
    /\ phase # "down" /\ s \in mine /\ session[s] = "expired" /\ step[s] = "idle"
    /\ Goto(s, "fini")
    /\ met' = (met \/ \E u \in Threads \ {s} : step[u] # "idle")
    /\ UNCHANGED <<phase, zk, stream, inited, recorded, text, session, mine, listed, events,
                   ok, early, misused, logVars>>

\* Mutant: nothing is registered after the new handle was opened.
WatcherFiniOnly(s) ==
    /\ At(s, "fini") /\ Fini(s, "idle")
    /\ UNCHANGED <<phase, zk, inited, recorded, text, mine, events, ok, early, met, logVars>>

WatcherFini(s) ==
    /\ At(s, "fini") /\ Fini(s, "init")
    /\ UNCHANGED <<phase, zk, inited, recorded, text, mine, events, ok, early, met, logVars>>

(***************************************************************************)
(* The PHP thread.                                                          *)
(***************************************************************************)

\* MINIT opens the log.  When that fails the module is not loaded and nothing is registered.
LoadModule ==
    /\ phase = "down" /\ Unused # {}
    /\ OpenLog
    /\ phase' = IF status' THEN "loaded" ELSE "down"
    /\ UNCHANGED <<step, zk, stream, inited, recorded, text, session, mine, listed, events, ok,
                   early, met, misused>>

\* provider_stub_init starts from an empty zk_h.
StubInit ==
    /\ phase = "loaded" /\ At(Main, "idle")
    /\ zk' = 0 /\ stream' = "none" /\ recorded' = Malformed
    /\ Goto(Main, "init")
    /\ UNCHANGED <<phase, inited, text, session, mine, listed, events, ok, early, met, misused,
                   logVars>>

\* MSHUTDOWN: provider_stub_destroy, only after a registration that has succeeded, and close_log.
Shutdown ==
    /\ phase \in {"serving", "failed"} /\ At(Main, "idle")
    /\ phase' = IF inited THEN "ending" ELSE "aborting"
    /\ Goto(Main, IF inited THEN "destroy" ELSE "close_log")
    /\ met' = (met \/ \E s \in Sessions : step[s] # "idle")
    /\ UNCHANGED <<zk, stream, inited, recorded, text, session, mine, listed, events, ok,
                   early, misused, logVars>>

\* Mutant: the handle is left open.
DestroySkipped ==
    /\ At(Main, "destroy") /\ inited' = FALSE /\ Goto(Main, "close_log")
    /\ UNCHANGED <<phase, zk, stream, recorded, text, session, mine, listed, events, ok, early,
                   met, misused, logVars>>

Destroy ==
    /\ At(Main, "destroy") /\ Fini(Main, "close_log")
    /\ inited' = FALSE
    /\ UNCHANGED <<phase, zk, recorded, text, mine, events, ok, early, met, logVars>>

EndLog ==
    /\ At(Main, "close_log")
    /\ CloseLog(Main)
    /\ Goto(Main, "ended")
    /\ UNCHANGED <<phase, zk, stream, inited, recorded, text, session, mine, listed, events,
                   ok, early, met, misused>>

(***************************************************************************)
(* The surroundings: the registry, the operator, and the process.           *)
(***************************************************************************)
SessionExpires(s) ==
    /\ session[s] = "live"
    /\ IF s \in mine THEN Event /\ Unused # {} ELSE UNCHANGED events
    /\ session' = [session EXCEPT ![s] = IF s \in mine THEN "expired" ELSE "closed"]
    /\ Unlist(s)
    /\ UNCHANGED <<phase, step, zk, stream, inited, recorded, text, mine, ok, early, met,
                   misused, logVars>>

Edit ==
    /\ Event
    /\ text' \in (Texts \cup {Malformed}) \ {text}
    /\ UNCHANGED <<phase, step, zk, stream, inited, recorded, session, mine, listed, ok, early,
                   met, misused, logVars>>

\* The process is gone, after MSHUTDOWN or before.  Its memory is lost.
Exit ==
    /\ phase # "down" /\ Event
    /\ phase' = "down" /\ step' = [t \in Threads |-> "idle"] /\ zk' = 0 /\ stream' = "none"
    /\ inited' = FALSE /\ recorded' = Malformed /\ mine' = {}
    /\ session' = [s \in Sessions |-> IF s \in mine /\ session[s] = "expired" THEN "closed"
                                      ELSE session[s]]
    /\ ok' = FALSE /\ early' = FALSE /\ met' = FALSE /\ misused' = FALSE
    /\ status' = FALSE /\ fp' = 0 /\ inode' = -1 /\ lock' = {}
    /\ line' = [t \in Threads |-> "out"] /\ held' = [t \in Threads |-> 0]
    /\ others' = [t \in Threads |-> FALSE] /\ closed' = [f \in {} |-> ""]
    /\ badWrite' = {} /\ badClose' = {}
    /\ opened' = 0 /\ disk' = IF disk = 0 THEN 0 ELSE MaxOpens + 1
    /\ UNCHANGED <<text, listed>>

\* A thread writes a line: the PHP thread in these functions, a completion thread in the
\* watcher, which it runs for every event of its session.
Logs(t) ==
    phase # "down" /\ ((t \in mine /\ session[t] # "closed") \/ step[t] \notin {"idle", "ended"})

StartLine(t) == Logs(t) /\ Event /\ LogWrite(t) /\ UNCHANGED stubVars
ContinueLine(t) == phase # "down" /\ LineNext(t) /\ UNCHANGED providerVars
Outside == Event /\ Rotate /\ UNCHANGED stubVars

-----------------------------------------------------------------------------
Init ==
    /\ InitLog
    /\ phase = "down" /\ step = [t \in Threads |-> "idle"] /\ zk = 0 /\ stream = "none"
    /\ inited = FALSE /\ recorded = Malformed
    /\ text \in Texts /\ session = [s \in Sessions |-> "new"] /\ mine = {}
    /\ listed = [x \in Texts |-> 0] /\ events = 0
    /\ ok = FALSE /\ early = FALSE /\ met = FALSE /\ misused = FALSE

StubNext(t) ==
    \/ OpenStream(t) \/ Connect(t) \/ Exists(t) \/ ReadServices(t)
    \/ \E x \in Texts : MakeNode(t, x) \/ MakeNodeFails(t, x)

MainNext == StubInit \/ StubNext(Main) \/ Destroy \/ EndLog \/ ContinueLine(Main)

WatcherNext(s) == Expired(s) \/ WatcherFini(s) \/ StubNext(s) \/ ContinueLine(s)

Next ==
    \/ LoadModule \/ MainNext \/ Shutdown \/ Exit \/ Edit \/ Outside
    \/ \E t \in Threads : StartLine(t)
    \/ \E s \in Sessions : WatcherNext(s) \/ SessionExpires(s)

Spec == Init /\ [][Next]_vars

\* A thread that is in these functions, or has an event, goes on.
FairSpec ==
    /\ Spec
    /\ WF_vars(MainNext)
    /\ \A s \in Sessions : WF_vars(WatcherNext(s))

-----------------------------------------------------------------------------
(***************************************************************************)
(* Properties.                                                              *)
(***************************************************************************)
Idle(t) == step[t] = "idle"

TypeOKStub ==
    /\ phase \in {"down", "loaded", "serving", "failed", "ending", "aborting"}
    /\ step \in [Threads -> Steps \cup Texts]
    /\ \A s \in Sessions : ~Idle(s) => s \in mine
    /\ zk \in {0} \cup Sessions /\ stream \in {"none", "open", "closed"}
    /\ inited \in BOOLEAN /\ {recorded, text} \subseteq Texts \cup {Malformed}
    /\ session \in [Sessions -> {"new", "live", "expired", "closed"}]
    /\ mine \subseteq Sessions /\ listed \in [Texts -> {0} \cup Sessions]
    /\ {ok, early, met, misused} \subseteq BOOLEAN

\* Every variable has its type, and only the PHP thread and sessions of this process act.
TypeOK == TypeOKLog /\ TypeOKStub

\* Nothing resets zk_h after fini_zk_handle.  A closed handle, or the closed stream of the
\* library, is used or closed again only when a re-initialisation failed before it stored new
\* ones, or when two threads were in these functions at a time: at the end of the module, or
\* because the new session expired while the watcher of the old one was still at work.
HandleSafe == misused => (early \/ met)

\* A registry entry of this process belongs to the handle that provider_stub_destroy would
\* close, and when nothing is under way after a registration that has succeeded, the entry
\* that node_value names is there as long as the session lives.
Listed ==
    /\ \A x \in Texts : listed[x] \in mine => listed[x] = zk
    /\ (ok /\ (\A t \in Threads : Idle(t)) /\ phase = "serving" /\ ~met
        /\ session[zk] = "live") =>
          recorded \in Texts /\ listed[recorded] = zk

\* After a registration that has succeeded MSHUTDOWN joins the completion thread before it
\* closes the log, so that no line is lost in a closed file; without one the completion
\* thread still runs and may be writing.
EndsQuietly ==
    ((\E b \in badWrite : b[1] = "end") \/ "end" \in badClose) =>
      phase = "aborting" \/ met

\* A provider whose session expires is listed again, unless the watcher's one attempt fails,
\* or is lost with a closed handle, or the process ends.
Relisted ==
    [](phase = "serving" /\ zk # 0 /\ session[zk] = "expired" =>
         <>(~ok \/ misused \/ phase # "serving"
            \/ (recorded \in Texts /\ listed[recorded] = zk /\ zk # 0)))
=============================================================================
