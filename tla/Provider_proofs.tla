-------------------------- MODULE Provider_proofs --------------------------
(***************************************************************************)
(* Safety of the registration of a provider and of its log, for any number  *)
(* of sessions, services files, openings and events, with and without the   *)
(* lock of the log and with every failure that the constants allow.         *)
(***************************************************************************)
EXTENDS Provider, FiniteSetTheorems, TLAPS

-----------------------------------------------------------------------------
(***************************************************************************)
(* The inductive invariant, of the log.                                     *)
(***************************************************************************)
SomebodyOpens == \E t \in Threads : line[t] = "open"

\* The lock is held from the decision of prepare_log to its end, by one thread.
LockHeld ==
    /\ \A t \in lock, u \in lock : t = u
    /\ Locked => \A t \in Threads : line[t] = "open" => t \in lock

\* FILEs are numbered in the order of their openings.
FilesNumbered ==
    /\ fp <= opened /\ DOMAIN closed \subseteq 1..opened
    /\ inode = MaxOpens + 1 => disk = MaxOpens + 1

\* Only in the middle of a switch does the handle have a closed FILE; with the lock it has
\* no other then.
HandleInSwitch ==
    /\ fp \in DOMAIN closed => SomebodyOpens
    /\ Locked /\ SomebodyOpens => (fp = 0 \/ fp \in DOMAIN closed) /\ Switches

\* A handle without a FILE makes the next line switch; the lines that close_log found under
\* way are the exception.
NoFileNoticed ==
    Locked /\ fp = 0 /\ ~SomebodyOpens /\ ~Switches =>
      ~status /\ \A t \in Threads : line[t] # "out" => others[t]

\* As long as nobody has interfered, a line that has passed prepare_log has an open FILE.
LineHasFile ==
    Locked =>
      \A t \in Threads :
        /\ line[t] = "fetch" /\ ~others[t] => fp # 0 /\ fp \notin DOMAIN closed
        /\ line[t] = "write" /\ ~others[t] => held[t] # 0 /\ held[t] \notin DOMAIN closed
        /\ line[t] \in {"fetch", "write"} /\ SomebodyOpens => others[t]

LogInv ==
    /\ TypeOKLog /\ LockHeld /\ FilesNumbered /\ HandleInSwitch /\ NoFileNoticed /\ LineHasFile
    /\ SwitchIsAtomic /\ WritesToOpenFile

-----------------------------------------------------------------------------
(***************************************************************************)
(* The inductive invariant, of the registration.                            *)
(***************************************************************************)
Calm == \A t \in Threads : Idle(t)
AllClosed == \A s \in mine : session[s] = "closed"
HandleGood == stream # "closed" /\ (zk # 0 => session[zk] # "closed")

\* A process that is not there has no memory.
DownIsEmpty ==
    phase = "down" =>
      /\ Calm /\ mine = {} /\ zk = 0 /\ stream = "none" /\ ~ok
      /\ ~early /\ ~met /\ ~misused
      /\ fp = 0 /\ opened = 0 /\ closed = [f \in {} |-> ""] /\ lock = {}
      /\ badWrite = {} /\ badClose = {} /\ \A t \in Threads : line[t] = "out"

\* Which thread can be where.
StepsOfThreads ==
    /\ step[Main] # "fini"
    /\ \A s \in Sessions : step[s] \notin {"destroy", "close_log", "ended"}
    /\ phase \in {"ending", "aborting"} <=> step[Main] \in {"destroy", "close_log", "ended"}
    /\ phase = "loaded" /\ Idle(Main) => mine = {}

\* Of the sessions of this process only the one in zk_h may be alive: whoever replaces the
\* handle has closed it, and two threads never replace it at the same time.
OneSession ==
    /\ zk # 0 => zk \in mine
    /\ \A s \in mine : session[s] # "new" /\ (session[s] # "closed" => s = zk)
    /\ \A t \in Threads : step[t] = "fini" => t \in mine /\ session[t] = "expired"
    /\ \A t \in Threads : step[t] \in {"init", "connect"} => AllClosed
    /\ \A t, u \in Threads :
         step[t] \in {"init", "connect"} /\ step[u] \in {"init", "connect"} => t = u

\* The registry lists nodes of live sessions only.
ListedAlive == \A x \in Texts : listed[x] # 0 => session[listed[x]] = "live"

\* met is noticed.
AloneUnlessMet == ~met => \A t, u \in Threads : ~Idle(t) /\ ~Idle(u) => t = u

\* Unless a re-initialisation failed early or two threads met, the handle is good wherever it
\* is going to be used.
GoodWhereUsed ==
    ~early /\ ~met =>
      /\ ~misused
      /\ Calm => HandleGood
      /\ \A t \in Threads :
           /\ step[t] = "connect" => stream # "closed"
           /\ step[t] \in {"exists", "read", "fini", "destroy"} \cup Texts => HandleGood

\* A registration that has succeeded is in the registry as long as its session lives.
RegisteredIsListed ==
    ~met /\ ok /\ Calm =>
      zk # 0 /\ (session[zk] = "live" => recorded \in Texts /\ listed[recorded] = zk)

\* A line is written by a thread that can.
LinesOfThreads ==
    \A t \in Threads : line[t] # "out" =>
      (t \in mine /\ session[t] # "closed") \/ step[t] \notin {"idle", "ended"}

\* After provider_stub_destroy nothing of this process is left that could write a line.
QuietEnd ==
    /\ (\E f \in DOMAIN closed : closed[f] = "end") => step[Main] = "ended"
    /\ ~met /\ phase = "ending" /\ step[Main] \in {"close_log", "ended"} => AllClosed

StubInv ==
    /\ TypeOKStub /\ DownIsEmpty /\ StepsOfThreads /\ OneSession /\ ListedAlive
    /\ AloneUnlessMet /\ GoodWhereUsed /\ RegisteredIsListed /\ LinesOfThreads /\ QuietEnd
    /\ EndsQuietly

IInv == LogInv /\ StubInv

USE LogConfig, ProviderConfig DEF Sessions

-----------------------------------------------------------------------------
(***************************************************************************)
(* The log.                                                                 *)
(***************************************************************************)

\* A set of at most one element.
LEMMA AtMostOne ==
    ASSUME NEW S, \A x \in S, y \in S : x = y
    PROVE  Cardinality(S) <= 1
<1>1. CASE S = {}
  BY <1>1, FS_EmptySet
<1>2. CASE S # {}
  <2>1. PICK x \in S : TRUE
    BY <1>2
  <2>2. S = {x}
    BY <2>1
  <2>3. Cardinality({x}) = 1
    BY FS_Singleton, Zenon
  <2> QED
    BY <2>2, <2>3
<1> QED
  BY <1>1, <1>2

\* fclose adds the FILE to the closed ones.
LEMMA CloseFileEffect ==
    ASSUME NEW f, NEW how, CloseFile(f, how)
    PROVE  /\ DOMAIN closed' = DOMAIN closed \cup {f}
           /\ \A g \in DOMAIN closed' : closed'[g] = IF g = f THEN how ELSE closed[g]
           /\ badClose' = IF f \in DOMAIN closed THEN badClose \cup {how} ELSE badClose
BY DEF CloseFile

\* The log is as it was.
LEMMA LogStutters ==
    ASSUME LogInv, UNCHANGED logVars
    PROVE  LogInv'
BY DEF LogInv, logVars, TypeOKLog, LockHeld, FilesNumbered, HandleInSwitch, NoFileNoticed,
       LineHasFile, SwitchIsAtomic, WritesToOpenFile, SomebodyOpens, Switches

\* A line is begun.
LEMMA LogWriteKeeps ==
    ASSUME LogInv, NEW t \in Threads, LogWrite(t)
    PROVE  LogInv'
<1> USE DEF LogInv, LogWrite
<1>1. line' \in [Threads -> {"out", "prepare", "open", "fetch", "write"}]
      /\ line'[t] = "prepare" /\ line[t] = "out" /\ \A u \in Threads : u # t => line'[u] = line[u]
  BY DEF TypeOKLog
<1>2. TypeOKLog'
  BY <1>1 DEF TypeOKLog
<1>3. SomebodyOpens' = SomebodyOpens
  BY <1>1 DEF SomebodyOpens
<1>4. LockHeld' /\ FilesNumbered'
  BY <1>1 DEF LockHeld, FilesNumbered
<1>5. HandleInSwitch'
  BY <1>3 DEF HandleInSwitch, Switches
<1>6. NoFileNoticed'
  BY <1>1, <1>3 DEF NoFileNoticed, Switches
<1>7. LineHasFile'
  BY <1>1, <1>3 DEF LineHasFile
<1>8. SwitchIsAtomic' /\ WritesToOpenFile'
  BY <1>1 DEF SwitchIsAtomic, WritesToOpenFile
<1> QED
  BY <1>2, <1>4, <1>5, <1>6, <1>7, <1>8

\* The decision of prepare_log.
LEMMA PrepareKeeps ==
    ASSUME LogInv, NEW t \in Threads, Prepare(t)
    PROVE  LogInv'
<1> USE DEF LogInv, Prepare
<1>0. Locked => ~SomebodyOpens
  BY DEF LockHeld, SomebodyOpens
<1>1. CASE Switches
  <2>1. /\ line' = [line EXCEPT ![t] = "open"] /\ Touch(t)
        /\ IF fp # 0 THEN CloseFile(fp, "switch") ELSE UNCHANGED <<closed, badClose>>
        /\ lock' = IF Locked THEN {t} ELSE {}
        /\ UNCHANGED <<status, fp, inode, held, disk, opened, badWrite>>
    BY <1>1 DEF Examine
  <2>2. /\ line' \in [Threads -> {"out", "prepare", "open", "fetch", "write"}]
        /\ line'[t] = "open" /\ line[t] = "prepare"
        /\ \A u \in Threads : u # t => line'[u] = line[u]
    BY <2>1 DEF TypeOKLog
  <2>3. /\ DOMAIN closed' = DOMAIN closed \cup ({fp} \ {0})
        /\ badClose' \subseteq badClose \cup {"switch"}
        /\ fp \notin DOMAIN closed => badClose' = badClose
    <3>1. CASE fp = 0
      BY <2>1, <3>1
    <3>2. CASE fp # 0
      <4>1. CloseFile(fp, "switch")
        BY <2>1, <3>2
      <4>2. {fp} \ {0} = {fp}
        BY <3>2
      <4> QED
        BY <4>1, <4>2, CloseFileEffect
    <3> QED
      BY <3>1, <3>2
  <2>4. \A u \in Threads : others'[u] = (u # t /\ line[u] # "out")
    BY <2>1 DEF Touch
  <2>5. others' \in [Threads -> BOOLEAN]
    BY <2>1 DEF Touch
  <2>6. Cardinality(lock') <= 1
    BY <2>1, AtMostOne
  <2>7. TypeOKLog'
    BY <2>1, <2>2, <2>3, <2>5, <2>6 DEF TypeOKLog
  <2>8. SomebodyOpens'
    BY <2>2 DEF SomebodyOpens
  <2>9. LockHeld' /\ FilesNumbered'
    BY <1>0, <2>1, <2>2, <2>3 DEF LockHeld, FilesNumbered, SomebodyOpens, TypeOKLog
  <2>10. HandleInSwitch' /\ NoFileNoticed'
    BY <1>1, <2>1, <2>3, <2>8 DEF HandleInSwitch, NoFileNoticed, Switches
  <2>11. LineHasFile'
    BY <2>2, <2>4 DEF LineHasFile
  <2>12. SwitchIsAtomic'
    <3>1. Locked => fp \notin DOMAIN closed
      BY <1>0 DEF HandleInSwitch
    <3> QED
      BY <1>0, <2>1, <2>2, <2>3, <3>1 DEF SwitchIsAtomic, SomebodyOpens
  <2> QED
    BY <2>1, <2>7, <2>9, <2>10, <2>11, <2>12 DEF WritesToOpenFile
<1>2. CASE ~Switches
  <2>1. /\ line' = [line EXCEPT ![t] = "fetch"] /\ lock' = {}
        /\ UNCHANGED <<status, fp, inode, held, disk, opened, closed, others, badWrite, badClose>>
    BY <1>2 DEF Examine
  <2>2. /\ line' \in [Threads -> {"out", "prepare", "open", "fetch", "write"}]
        /\ line'[t] = "fetch" /\ line[t] = "prepare"
        /\ \A u \in Threads : u # t => line'[u] = line[u]
    BY <2>1 DEF TypeOKLog
  <2>3. TypeOKLog'
    BY <2>1, <2>2 DEF TypeOKLog
  <2>4. SomebodyOpens' = SomebodyOpens
    BY <2>2 DEF SomebodyOpens
  <2>5. LockHeld' /\ FilesNumbered'
    BY <1>0, <2>1, <2>2 DEF LockHeld, FilesNumbered, SomebodyOpens
  <2>6. HandleInSwitch'
    BY <2>1, <2>4 DEF HandleInSwitch, Switches
  <2>7. NoFileNoticed'
    BY <2>1, <2>2, <2>4 DEF NoFileNoticed, Switches
  <2>8. Locked /\ ~others[t] => fp # 0 /\ fp \notin DOMAIN closed
    BY <1>0, <1>2, <2>2 DEF HandleInSwitch, NoFileNoticed
  <2>9. LineHasFile'
    BY <1>0, <2>1, <2>2, <2>4, <2>8 DEF LineHasFile
  <2>10. SwitchIsAtomic' /\ WritesToOpenFile'
    BY <2>1, <2>2 DEF SwitchIsAtomic, WritesToOpenFile
  <2> QED
    BY <2>3, <2>5, <2>6, <2>7, <2>9, <2>10
<1> QED
  BY <1>1, <1>2

\* The end of prepare_log, with and without a new FILE.
LEMMA OpenFileKeeps ==
    ASSUME LogInv, NEW t \in Threads, OpenFile(t)
    PROVE  LogInv'
<1> USE DEF LogInv, OpenFile
<1>1. /\ line' \in [Threads -> {"out", "prepare", "open", "fetch", "write"}]
      /\ line'[t] = "fetch" /\ line[t] = "open"
      /\ \A u \in Threads : u # t => line'[u] = line[u]
      /\ others' \in [Threads -> BOOLEAN] /\ ~others'[t]
      /\ \A u \in Threads : u # t => others'[u] = others[u]
  BY DEF TypeOKLog
<1>2. SomebodyOpens /\ (Locked => ~SomebodyOpens')
  BY <1>1 DEF SomebodyOpens, LockHeld
<1>3. fp' = opened + 1 /\ opened' = opened + 1 /\ opened \in 0..MaxOpens /\ opened < MaxOpens
      /\ disk' = IF disk = 0 THEN opened + 1 ELSE disk
  BY DEF TypeOKLog
<1>4. LockHeld' /\ FilesNumbered'
  BY <1>1, <1>3 DEF LockHeld, FilesNumbered, TypeOKLog
<1>5. TypeOKLog'
  <2>1. Cardinality(lock') <= 1
    BY <1>4, AtMostOne DEF LockHeld
  <2>2. inode' \in -1..(MaxOpens + 1) /\ disk' \in 0..(MaxOpens + 1)
    BY <1>3 DEF TypeOKLog
  <2> QED
    BY <1>1, <1>3, <2>1, <2>2 DEF TypeOKLog
<1>6. fp' \notin DOMAIN closed' /\ fp' # 0
  BY <1>3 DEF FilesNumbered, TypeOKLog
<1>7. HandleInSwitch' /\ NoFileNoticed'
  BY <1>2, <1>6 DEF HandleInSwitch, NoFileNoticed
<1>8. LineHasFile'
  <2> SUFFICES ASSUME Locked, NEW u \in Threads
               PROVE  /\ line'[u] = "fetch" /\ ~others'[u] => fp' # 0 /\ fp' \notin DOMAIN closed'
                      /\ line'[u] = "write" /\ ~others'[u] =>
                           held'[u] # 0 /\ held'[u] \notin DOMAIN closed'
    BY <1>2 DEF LineHasFile
  <2> QED
    BY <1>1, <1>6 DEF LineHasFile
<1>9. SwitchIsAtomic'
  <2>1. Locked => fp = 0 \/ fp \in DOMAIN closed
    BY <1>2 DEF HandleInSwitch
  <2>2. 1..(opened + 1) \subseteq (1..opened) \cup {opened + 1}
    BY <1>3
  <2> QED
    BY <1>3, <1>6, <2>1, <2>2 DEF SwitchIsAtomic
<1> QED
  BY <1>4, <1>5, <1>7, <1>8, <1>9 DEF WritesToOpenFile

\* fopen fails: the handle is left without a FILE.
LEMMA OpenFailsKeeps ==
    ASSUME LogInv, NEW t \in Threads, OpenFails(t)
    PROVE  LogInv'
<1> USE DEF LogInv, OpenFails
<1>1. /\ line' \in [Threads -> {"out", "prepare", "open", "fetch", "write"}]
      /\ line'[t] = "out" /\ line[t] = "open"
      /\ \A u \in Threads : u # t => line'[u] = line[u]
      /\ others' \in [Threads -> BOOLEAN] /\ ~others'[t]
      /\ \A u \in Threads : u # t => others'[u] = others[u]
  BY DEF TypeOKLog
<1>2. SomebodyOpens /\ (Locked => ~SomebodyOpens')
  BY <1>1 DEF SomebodyOpens, LockHeld
<1>3. LockHeld' /\ FilesNumbered'
  BY <1>1 DEF LockHeld, FilesNumbered, TypeOKLog
<1>4. TypeOKLog'
  <2>1. Cardinality(lock') <= 1
    BY <1>3, AtMostOne DEF LockHeld
  <2>2. fp' \in 0..MaxOpens /\ lock' \subseteq Threads
    BY DEF TypeOKLog
  <2>3. status' \in BOOLEAN
    OBVIOUS
  <2>4. UNCHANGED <<inode, held, disk, opened, closed, badClose>>
    OBVIOUS
  <2> HIDE DEF OpenFails
  <2> QED
    BY <1>1, <2>1, <2>2, <2>3, <2>4 DEF TypeOKLog
<1>5. fp' \notin DOMAIN closed' /\ fp' = 0
  BY DEF FilesNumbered, TypeOKLog
<1>6. HandleInSwitch' /\ NoFileNoticed'
  BY <1>2, <1>5 DEF HandleInSwitch, NoFileNoticed, Switches
<1>7. LineHasFile'
  <2> SUFFICES ASSUME Locked, NEW u \in Threads
               PROVE  /\ line'[u] # "fetch" \/ others'[u]
                      /\ line'[u] = "write" /\ ~others'[u] =>
                           held'[u] # 0 /\ held'[u] \notin DOMAIN closed'
    BY <1>2 DEF LineHasFile
  <2> QED
    BY <1>1, <1>2 DEF LineHasFile
<1>8. SwitchIsAtomic'
  BY <1>2, <1>5 DEF SwitchIsAtomic, HandleInSwitch, TypeOKLog
<1> QED
  BY <1>3, <1>4, <1>6, <1>7, <1>8 DEF WritesToOpenFile

\* fwrite.
LEMMA FetchKeeps ==
    ASSUME LogInv, NEW t \in Threads, Fetch(t)
    PROVE  LogInv'
<1> USE DEF LogInv, Fetch
<1>1. /\ line' \in [Threads -> {"out", "prepare", "open", "fetch", "write"}]
      /\ line'[t] = "write" /\ line[t] = "fetch"
      /\ \A u \in Threads : u # t => line'[u] = line[u]
      /\ held' \in [Threads -> 0..MaxOpens] /\ held'[t] = fp
      /\ \A u \in Threads : u # t => held'[u] = held[u]
  BY DEF TypeOKLog
<1>2. SomebodyOpens' = SomebodyOpens
  BY <1>1 DEF SomebodyOpens
<1>3. TypeOKLog' /\ LockHeld' /\ FilesNumbered'
  BY <1>1 DEF TypeOKLog, LockHeld, FilesNumbered
<1>4. HandleInSwitch' /\ NoFileNoticed'
  BY <1>1, <1>2 DEF HandleInSwitch, NoFileNoticed, Switches
<1>5. LineHasFile'
  <2> SUFFICES ASSUME Locked, NEW u \in Threads
               PROVE  /\ line'[u] = "fetch" /\ ~others'[u] => fp' # 0 /\ fp' \notin DOMAIN closed'
                      /\ line'[u] = "write" /\ ~others'[u] =>
                           held'[u] # 0 /\ held'[u] \notin DOMAIN closed'
                      /\ line'[u] \in {"fetch", "write"} /\ SomebodyOpens' => others'[u]
    BY DEF LineHasFile
  <2> QED
    BY <1>1, <1>2 DEF LineHasFile
<1>6. SwitchIsAtomic' /\ WritesToOpenFile'
  BY <1>1 DEF SwitchIsAtomic, WritesToOpenFile
<1> QED
  BY <1>3, <1>4, <1>5, <1>6

\* The line goes to the FILE that was fetched.
LEMMA FwriteKeeps ==
    ASSUME LogInv, NEW t \in Threads, Fwrite(t)
    PROVE  LogInv'
<1> USE DEF LogInv, Fwrite
<1>1. /\ line' \in [Threads -> {"out", "prepare", "open", "fetch", "write"}]
      /\ line'[t] = "out" /\ line[t] = "write"
      /\ \A u \in Threads : u # t => line'[u] = line[u]
      /\ held' \in [Threads -> 0..MaxOpens]
      /\ \A u \in Threads : u # t => held'[u] = held[u]
      /\ others' \in [Threads -> BOOLEAN]
      /\ \A u \in Threads : u # t => others'[u] = others[u]
  BY DEF TypeOKLog
<1>2. SomebodyOpens' = SomebodyOpens
  BY <1>1 DEF SomebodyOpens
<1>3. TypeOKLog' /\ LockHeld' /\ FilesNumbered'
  BY <1>1 DEF TypeOKLog, LockHeld, FilesNumbered
<1>4. HandleInSwitch' /\ NoFileNoticed'
  BY <1>1, <1>2 DEF HandleInSwitch, NoFileNoticed, Switches
<1>5. LineHasFile'
  <2> SUFFICES ASSUME Locked, NEW u \in Threads
               PROVE  /\ line'[u] = "fetch" /\ ~others'[u] => fp' # 0 /\ fp' \notin DOMAIN closed'
                      /\ line'[u] = "write" /\ ~others'[u] =>
                           held'[u] # 0 /\ held'[u] \notin DOMAIN closed'
                      /\ line'[u] \in {"fetch", "write"} /\ SomebodyOpens' => others'[u]
    BY DEF LineHasFile
  <2> QED
    BY <1>1, <1>2 DEF LineHasFile
<1>6. WritesToOpenFile'
  <2>1. Locked /\ (held[t] = 0 \/ held[t] \in DOMAIN closed) => others[t]
    BY <1>1 DEF LineHasFile
  <2>2. \A b \in badWrite' : b \in badWrite \/
           ((held[t] = 0 \/ held[t] \in DOMAIN closed) /\ b[2] = others[t])
    OBVIOUS
  <2> QED
    BY <2>1, <2>2 DEF WritesToOpenFile
<1>7. SwitchIsAtomic'
  BY <1>1 DEF SwitchIsAtomic
<1> QED
  BY <1>3, <1>4, <1>5, <1>6, <1>7

\* close_log by a thread that writes no line.
LEMMA CloseLogKeeps ==
    ASSUME LogInv, NEW t \in Threads, line[t] = "out", CloseLog(t)
    PROVE  LogInv'
<1> USE DEF LogInv, CloseLog
<1>1. CASE status /\ fp # 0
  <2>1. /\ CloseFile(fp, "end") /\ fp' = 0 /\ status' = FALSE /\ Touch(t)
        /\ UNCHANGED <<inode, lock, line, held, disk, opened, badWrite>>
    BY <1>1
  <2>2. DOMAIN closed' = DOMAIN closed \cup {fp} /\ badClose' \subseteq badClose \cup {"end"}
    BY <2>1, CloseFileEffect
  <2>3. others' \in [Threads -> BOOLEAN]
        /\ \A u \in Threads : line[u] # "out" => others'[u]
    BY <2>1 DEF Touch
  <2>4. TypeOKLog'
    <3>1. fp' \in 0..MaxOpens /\ DOMAIN closed' \subseteq 1..MaxOpens
          /\ badClose' \subseteq {"switch", "end"}
      BY <1>1, <2>1, <2>2 DEF TypeOKLog
    <3>2. status' \in BOOLEAN
      BY <2>1
    <3> HIDE DEF CloseLog
    <3> QED
      BY <2>1, <2>3, <3>1, <3>2 DEF TypeOKLog
  <2>5. SomebodyOpens' = SomebodyOpens
    BY <2>1 DEF SomebodyOpens
  <2>6. LockHeld' /\ FilesNumbered'
    BY <1>1, <2>1, <2>2 DEF LockHeld, FilesNumbered, TypeOKLog
  <2>7. fp' \notin DOMAIN closed'
    BY <2>4, <2>1 DEF TypeOKLog
  <2>8. HandleInSwitch' /\ NoFileNoticed'
    BY <2>1, <2>3, <2>5, <2>7 DEF HandleInSwitch, NoFileNoticed, Switches
  <2>9. LineHasFile'
    BY <2>1, <2>3 DEF LineHasFile
  <2>10. SwitchIsAtomic'
    BY <2>1, <2>2, <2>7 DEF SwitchIsAtomic
  <2> QED
    BY <2>1, <2>4, <2>6, <2>8, <2>9, <2>10 DEF WritesToOpenFile
<1>2. CASE ~(status /\ fp # 0)
  <2>1. UNCHANGED logVars
    BY <1>2 DEF logVars
  <2> QED
    BY <2>1, LogStutters
<1> QED
  BY <1>1, <1>2

\* Midnight, or a rotation: what had to be switched before has to be switched still.
LEMMA RotateKeeps ==
    ASSUME LogInv, Rotate
    PROVE  LogInv'
<1> USE DEF LogInv, Rotate
<1>1. Switches'
  BY DEF Switches, FilesNumbered, TypeOKLog
<1>2. SomebodyOpens' = SomebodyOpens
  BY DEF SomebodyOpens
<1>3. TypeOKLog' /\ LockHeld' /\ FilesNumbered'
  BY DEF TypeOKLog, LockHeld, FilesNumbered
<1>4. HandleInSwitch' /\ NoFileNoticed'
  BY <1>1, <1>2 DEF HandleInSwitch, NoFileNoticed
<1>5. LineHasFile'
  BY <1>2 DEF LineHasFile
<1> QED
  BY <1>3, <1>4, <1>5 DEF SwitchIsAtomic, WritesToOpenFile

\* A process without FILEs and lines: the initial states, open_log, and after the end of the
\* process.
LEMMA EmptyLog ==
    ASSUME status \in BOOLEAN, fp = 0, inode = -1, lock = {}, opened = 0,
           line \in [Threads -> {"out"}], held = [t \in Threads |-> 0],
           disk \in 0..(MaxOpens + 1), closed = [f \in {} |-> ""],
           others \in [Threads -> BOOLEAN], badWrite = {}, badClose = {}
    PROVE  LogInv
<1>1. DOMAIN closed = {} /\ Switches /\ ~SomebodyOpens /\ Cardinality(lock) <= 1
  BY FS_EmptySet DEF Switches, SomebodyOpens
<1> QED
  BY <1>1 DEF LogInv, TypeOKLog, LockHeld, FilesNumbered, HandleInSwitch, NoFileNoticed,
              LineHasFile, SwitchIsAtomic, WritesToOpenFile

-----------------------------------------------------------------------------
(***************************************************************************)
(* The registration.                                                        *)
(***************************************************************************)
USE DEF Idle, Calm, AllClosed, HandleGood, Goto, At

\* The library's stream.
LEMMA OpenStreamKeeps ==
    ASSUME StubInv, NEW t \in Threads, OpenStream(t)
    PROVE  StubInv'
<1> USE DEF StubInv, OpenStream, Failed, logVars
<1>1. TypeOKStub'
  BY DEF TypeOKStub, Steps
<1>2. DownIsEmpty'
  BY DEF DownIsEmpty
<1>3. StepsOfThreads'
  BY DEF StepsOfThreads, TypeOKStub, Steps
<1>4. OneSession'
  BY DEF OneSession, TypeOKStub, Steps
<1>5. ListedAlive'
  BY DEF ListedAlive, TypeOKStub, OneSession
<1>6. AloneUnlessMet'
  BY DEF AloneUnlessMet, TypeOKStub, Steps
<1>7. GoodWhereUsed'
  BY DEF GoodWhereUsed, TypeOKStub, Steps, AloneUnlessMet, OneSession
<1>8. RegisteredIsListed'
  BY DEF RegisteredIsListed, TypeOKStub, Steps, AloneUnlessMet
<1>9. LinesOfThreads'
  BY DEF LinesOfThreads, TypeOKStub, Steps
<1>10. QuietEnd'
  BY DEF QuietEnd, TypeOKStub, Steps, AloneUnlessMet, StepsOfThreads, OneSession
<1>11. EndsQuietly'
  BY DEF EndsQuietly, TypeOKStub, StepsOfThreads, Steps
<1> QED
  BY <1>1, <1>2, <1>3, <1>4, <1>5, <1>6, <1>7, <1>8, <1>9, <1>10, <1>11

\* A new handle: its session is the only one of this process that is alive.
LEMMA ConnectKeeps ==
    ASSUME StubInv, NEW t \in Threads, Connect(t)
    PROVE  StubInv'
<1> USE DEF StubInv, Connect, Failed, Unused, logVars
<1>1. TypeOKStub'
  <2>1. CASE UNCHANGED <<session, mine>>
    BY <2>1 DEF TypeOKStub, Steps
  <2>2. CASE ~UNCHANGED <<session, mine>>
    <3>1. PICK s \in Sessions :
            /\ session' = [session EXCEPT ![s] = "live"] /\ mine' = mine \cup {s} /\ zk' = s
            /\ step' = [step EXCEPT ![t] = "exists"] /\ UNCHANGED <<ok, phase>>
      BY <2>2
    <3>2. step' \in [Threads -> Steps \cup Texts]
      BY <3>1 DEF TypeOKStub, Steps
    <3>3. {ok, early, met, misused}' \subseteq BOOLEAN
      BY <3>1 DEF TypeOKStub
    <3>4. session' \in [Sessions -> {"new", "live", "expired", "closed"}]
          /\ mine' \subseteq Sessions /\ zk' \in {0} \cup Sessions
      BY <3>1 DEF TypeOKStub
    <3>5. \A u \in Sessions : step'[u] # "idle" => u \in mine'
      BY <3>1 DEF TypeOKStub, Steps
    <3> QED
      BY <3>1, <3>2, <3>3, <3>4, <3>5 DEF TypeOKStub
  <2> QED
    BY <2>1, <2>2
<1>2. DownIsEmpty'
  BY DEF DownIsEmpty
<1>3. StepsOfThreads'
  BY DEF StepsOfThreads, TypeOKStub, Steps
<1>4. OneSession'
  <2>1. AllClosed /\ \A u \in Threads : step[u] \in {"init", "connect"} => u = t
    BY DEF OneSession
  <2>2. \A u \in Threads : step[u] # "fini"
    BY <2>1 DEF OneSession
  <2>3. step'[t] \in {"exists", "idle"} /\ \A u \in Threads : u # t => step'[u] = step[u]
    BY DEF TypeOKStub
  <2>4. \A u \in Threads : step'[u] \notin {"init", "connect", "fini"}
    BY <2>1, <2>2, <2>3
  <2>5. /\ zk' # 0 => zk' \in mine'
        /\ \A s \in mine' : session'[s] # "new" /\ (session'[s] # "closed" => s = zk')
    <3>1. CASE UNCHANGED <<session, mine>> /\ zk' = 0
      BY <2>1, <3>1 DEF OneSession
    <3>2. ASSUME NEW s \in Sessions, session' = [session EXCEPT ![s] = "live"],
                 mine' = mine \cup {s}, zk' = s
          PROVE  /\ zk' # 0 => zk' \in mine'
                 /\ \A r \in mine' : session'[r] # "new" /\ (session'[r] # "closed" => r = zk')
      BY <2>1, <3>2 DEF OneSession, TypeOKStub
    <3> QED
      BY <3>1, <3>2
  <2> HIDE DEF Connect
  <2> QED
    BY <2>4, <2>5 DEF OneSession
<1>5. ListedAlive'
  BY DEF ListedAlive, TypeOKStub, OneSession
<1>6. AloneUnlessMet'
  BY DEF AloneUnlessMet, TypeOKStub, Steps
<1>7. GoodWhereUsed'
  BY DEF GoodWhereUsed, TypeOKStub, Steps, AloneUnlessMet, OneSession
<1>8. RegisteredIsListed'
  BY DEF RegisteredIsListed, TypeOKStub, Steps, AloneUnlessMet
<1>9. LinesOfThreads'
  BY DEF LinesOfThreads, TypeOKStub, Steps
<1>10. QuietEnd'
  BY DEF QuietEnd, TypeOKStub, Steps, AloneUnlessMet, StepsOfThreads, OneSession
<1>11. EndsQuietly'
  BY DEF EndsQuietly, TypeOKStub, StepsOfThreads, Steps
<1> QED
  BY <1>1, <1>2, <1>3, <1>4, <1>5, <1>6, <1>7, <1>8, <1>9, <1>10, <1>11

\* The first request.
LEMMA ExistsKeeps ==
    ASSUME StubInv, NEW t \in Threads, Exists(t)
    PROVE  StubInv'
<1> USE DEF StubInv, Exists, Failed, Uses, Answers, logVars
<1>1. TypeOKStub'
  BY DEF TypeOKStub, Steps
<1>2. DownIsEmpty'
  BY DEF DownIsEmpty
<1>3. StepsOfThreads'
  BY DEF StepsOfThreads, TypeOKStub, Steps
<1>4. OneSession'
  BY DEF OneSession, TypeOKStub, Steps
<1>5. ListedAlive'
  BY DEF ListedAlive, TypeOKStub, OneSession
<1>6. AloneUnlessMet'
  BY DEF AloneUnlessMet, TypeOKStub, Steps
<1>7. GoodWhereUsed'
  BY DEF GoodWhereUsed, TypeOKStub, Steps, AloneUnlessMet, OneSession
<1>8. RegisteredIsListed'
  BY DEF RegisteredIsListed, TypeOKStub, Steps, AloneUnlessMet
<1>9. LinesOfThreads'
  BY DEF LinesOfThreads, TypeOKStub, Steps
<1>10. QuietEnd'
  BY DEF QuietEnd, TypeOKStub, Steps, AloneUnlessMet, StepsOfThreads, OneSession
<1>11. EndsQuietly'
  BY DEF EndsQuietly, TypeOKStub, StepsOfThreads, Steps
<1> QED
  BY <1>1, <1>2, <1>3, <1>4, <1>5, <1>6, <1>7, <1>8, <1>9, <1>10, <1>11

\* The services file.
LEMMA ReadServicesKeeps ==
    ASSUME StubInv, NEW t \in Threads, ReadServices(t)
    PROVE  StubInv'
<1> USE DEF StubInv, ReadServices, Failed, logVars
<1>1. TypeOKStub'
  BY DEF TypeOKStub, Steps
<1>2. DownIsEmpty'
  BY DEF DownIsEmpty
<1>3. StepsOfThreads'
  BY DEF StepsOfThreads, TypeOKStub, Steps
<1>4. OneSession'
  BY DEF OneSession, TypeOKStub, Steps
<1>5. ListedAlive'
  BY DEF ListedAlive, TypeOKStub, OneSession
<1>6. AloneUnlessMet'
  BY DEF AloneUnlessMet, TypeOKStub, Steps
<1>7. GoodWhereUsed'
  BY DEF GoodWhereUsed, TypeOKStub, Steps, AloneUnlessMet, OneSession
<1>8. RegisteredIsListed'
  <2>1. text # Malformed => text \in Texts /\ text # "idle"
    BY DEF TypeOKStub, Steps
  <2>2. ok' => step'[t] # "idle"
    BY <2>1 DEF TypeOKStub
  <2> QED
    BY <2>2 DEF RegisteredIsListed
<1>9. LinesOfThreads'
  BY DEF LinesOfThreads, TypeOKStub, Steps
<1>10. QuietEnd'
  BY DEF QuietEnd, TypeOKStub, Steps, AloneUnlessMet, StepsOfThreads, OneSession
<1>11. EndsQuietly'
  BY DEF EndsQuietly, TypeOKStub, StepsOfThreads, Steps
<1> QED
  BY <1>1, <1>2, <1>3, <1>4, <1>5, <1>6, <1>7, <1>8, <1>9, <1>10, <1>11

\* The node of this provider.
LEMMA MakeNodeKeeps ==
    ASSUME StubInv, NEW t \in Threads, NEW x \in Texts, MakeNode(t, x)
    PROVE  StubInv'
<1> USE DEF StubInv, MakeNode, Registered, Uses, Answers, logVars
<1>1. TypeOKStub'
  BY DEF TypeOKStub, Steps
<1>2. DownIsEmpty'
  BY DEF DownIsEmpty
<1>3. StepsOfThreads'
  BY DEF StepsOfThreads, TypeOKStub, Steps
<1>4. OneSession'
  BY DEF OneSession, TypeOKStub, Steps
<1>5. ListedAlive'
  BY DEF ListedAlive, TypeOKStub, OneSession
<1>6. AloneUnlessMet'
  BY DEF AloneUnlessMet, TypeOKStub, Steps
<1>7. GoodWhereUsed'
  BY DEF GoodWhereUsed, TypeOKStub, Steps, AloneUnlessMet, OneSession
<1>8. RegisteredIsListed'
  BY DEF RegisteredIsListed, TypeOKStub, Steps, AloneUnlessMet
<1>9. LinesOfThreads'
  BY DEF LinesOfThreads, TypeOKStub, Steps
<1>10. QuietEnd'
  BY DEF QuietEnd, TypeOKStub, Steps, AloneUnlessMet, StepsOfThreads, OneSession
<1>11. EndsQuietly'
  BY DEF EndsQuietly, TypeOKStub, StepsOfThreads, Steps
<1> QED
  BY <1>1, <1>2, <1>3, <1>4, <1>5, <1>6, <1>7, <1>8, <1>9, <1>10, <1>11

\* The node cannot be made.
LEMMA MakeNodeFailsKeeps ==
    ASSUME StubInv, NEW t \in Threads, NEW x \in Texts, MakeNodeFails(t, x)
    PROVE  StubInv'
<1> USE DEF StubInv, MakeNodeFails, Failed, Uses, Answers, logVars
<1>1. TypeOKStub'
  BY DEF TypeOKStub, Steps
<1>2. DownIsEmpty'
  BY DEF DownIsEmpty
<1>3. StepsOfThreads'
  BY DEF StepsOfThreads, TypeOKStub, Steps
<1>4. OneSession'
  BY DEF OneSession, TypeOKStub, Steps
<1>5. ListedAlive'
  BY DEF ListedAlive, TypeOKStub, OneSession
<1>6. AloneUnlessMet'
  BY DEF AloneUnlessMet, TypeOKStub, Steps
<1>7. GoodWhereUsed'
  BY DEF GoodWhereUsed, TypeOKStub, Steps, AloneUnlessMet, OneSession
<1>8. RegisteredIsListed'
  BY DEF RegisteredIsListed, TypeOKStub, Steps, AloneUnlessMet
<1>9. LinesOfThreads'
  BY DEF LinesOfThreads, TypeOKStub, Steps
<1>10. QuietEnd'
  BY DEF QuietEnd, TypeOKStub, Steps, AloneUnlessMet, StepsOfThreads, OneSession
<1>11. EndsQuietly'
  BY DEF EndsQuietly, TypeOKStub, StepsOfThreads, Steps
<1> QED
  BY <1>1, <1>2, <1>3, <1>4, <1>5, <1>6, <1>7, <1>8, <1>9, <1>10, <1>11

\* A watcher begins to replace the handle.
LEMMA ExpiredKeeps ==
    ASSUME StubInv, NEW s \in Sessions, Expired(s)
    PROVE  StubInv'
<1> USE DEF StubInv, Expired, logVars
<1>1. TypeOKStub'
  BY DEF TypeOKStub, Steps
<1>2. DownIsEmpty'
  BY DEF DownIsEmpty
<1>3. StepsOfThreads'
  BY DEF StepsOfThreads, TypeOKStub, Steps
<1>4. OneSession'
  BY DEF OneSession, TypeOKStub, Steps
<1>5. ListedAlive'
  BY DEF ListedAlive, TypeOKStub, OneSession
<1>6. AloneUnlessMet'
  BY DEF AloneUnlessMet, TypeOKStub, Steps
<1>7. GoodWhereUsed'
  BY DEF GoodWhereUsed, TypeOKStub, Steps, AloneUnlessMet, OneSession
<1>8. RegisteredIsListed'
  BY DEF RegisteredIsListed, TypeOKStub, Steps, AloneUnlessMet
<1>9. LinesOfThreads'
  BY DEF LinesOfThreads, TypeOKStub, Steps
<1>10. QuietEnd'
  BY DEF QuietEnd, TypeOKStub, Steps, AloneUnlessMet, StepsOfThreads, OneSession
<1>11. EndsQuietly'
  BY DEF EndsQuietly, TypeOKStub, StepsOfThreads, Steps
<1> QED
  BY <1>1, <1>2, <1>3, <1>4, <1>5, <1>6, <1>7, <1>8, <1>9, <1>10, <1>11

\* It closes the old one.
LEMMA WatcherFiniKeeps ==
    ASSUME StubInv, NEW s \in Sessions, WatcherFini(s)
    PROVE  StubInv'
<1> USE DEF StubInv, WatcherFini, Fini, Unlist, logVars
<1>1. TypeOKStub'
  BY DEF TypeOKStub, Steps
<1>2. DownIsEmpty'
  BY DEF DownIsEmpty
<1>3. StepsOfThreads'
  BY DEF StepsOfThreads, TypeOKStub, Steps
<1>4. OneSession'
  <2>1. s \in mine /\ s = zk /\ session[s] = "expired" /\ zk # 0
    BY DEF OneSession, TypeOKStub
  <2>2. /\ session' = [session EXCEPT ![s] = "closed"] /\ step' = [step EXCEPT ![s] = "init"]
        /\ UNCHANGED <<zk, mine>>
    BY <2>1
  <2>3. AllClosed'
    BY <2>1, <2>2 DEF OneSession, TypeOKStub
  <2>4. \A u \in Threads : step[u] \notin {"init", "connect"} /\ (step[u] = "fini" => u = s)
    BY <2>1 DEF OneSession
  <2>5. \A u \in Threads : u # s => step'[u] = step[u]
    BY <2>2 DEF TypeOKStub
  <2>6. step'[s] = "init"
    BY <2>2 DEF TypeOKStub
  <2> HIDE DEF WatcherFini
  <2> QED
    BY <2>1, <2>2, <2>3, <2>4, <2>5, <2>6 DEF OneSession
<1>5. ListedAlive'
  BY DEF ListedAlive, TypeOKStub, OneSession
<1>6. AloneUnlessMet'
  BY DEF AloneUnlessMet, TypeOKStub, Steps
<1>7. GoodWhereUsed'
  BY DEF GoodWhereUsed, TypeOKStub, Steps, AloneUnlessMet, OneSession
<1>8. RegisteredIsListed'
  BY DEF RegisteredIsListed, TypeOKStub, Steps, AloneUnlessMet
<1>9. LinesOfThreads'
  BY DEF LinesOfThreads, TypeOKStub, Steps
<1>10. QuietEnd'
  BY DEF QuietEnd, TypeOKStub, Steps, AloneUnlessMet, StepsOfThreads, OneSession
<1>11. EndsQuietly'
  BY DEF EndsQuietly, TypeOKStub, StepsOfThreads, Steps
<1> QED
  BY <1>1, <1>2, <1>3, <1>4, <1>5, <1>6, <1>7, <1>8, <1>9, <1>10, <1>11

\* The registry lets a session expire.
LEMMA SessionExpiresKeeps ==
    ASSUME StubInv, NEW s \in Sessions, SessionExpires(s)
    PROVE  StubInv'
<1> USE DEF StubInv, SessionExpires, Unlist, Event, Unused, logVars
<1>1. TypeOKStub'
  BY DEF TypeOKStub, Steps
<1>2. DownIsEmpty'
  BY DEF DownIsEmpty
<1>3. StepsOfThreads'
  BY DEF StepsOfThreads, TypeOKStub, Steps
<1>4. OneSession'
  BY DEF OneSession, TypeOKStub, Steps
<1>5. ListedAlive'
  BY DEF ListedAlive, TypeOKStub, OneSession
<1>6. AloneUnlessMet'
  BY DEF AloneUnlessMet, TypeOKStub, Steps
<1>7. GoodWhereUsed'
  BY DEF GoodWhereUsed, TypeOKStub, Steps, AloneUnlessMet, OneSession
<1>8. RegisteredIsListed'
  BY DEF RegisteredIsListed, TypeOKStub, Steps, AloneUnlessMet
<1>9. LinesOfThreads'
  BY DEF LinesOfThreads, TypeOKStub, Steps
<1>10. QuietEnd'
  BY DEF QuietEnd, TypeOKStub, Steps, AloneUnlessMet, StepsOfThreads, OneSession
<1>11. EndsQuietly'
  BY DEF EndsQuietly, TypeOKStub, StepsOfThreads, Steps
<1> QED
  BY <1>1, <1>2, <1>3, <1>4, <1>5, <1>6, <1>7, <1>8, <1>9, <1>10, <1>11

\* The PHP thread begins to register.
LEMMA StubInitKeeps ==
    ASSUME StubInv, StubInit
    PROVE  StubInv'
<1> USE DEF StubInv, StubInit, logVars
<1>1. TypeOKStub'
  BY DEF TypeOKStub, Steps
<1>2. DownIsEmpty'
  BY DEF DownIsEmpty
<1>3. StepsOfThreads'
  BY DEF StepsOfThreads, TypeOKStub, Steps
<1>4. OneSession'
  BY DEF OneSession, TypeOKStub, StepsOfThreads, Steps
<1>5. ListedAlive'
  BY DEF ListedAlive, TypeOKStub, OneSession
<1>6. AloneUnlessMet'
  BY DEF AloneUnlessMet, TypeOKStub, StepsOfThreads, Steps
<1>7. GoodWhereUsed'
  BY DEF GoodWhereUsed, TypeOKStub, Steps, AloneUnlessMet, OneSession
<1>8. RegisteredIsListed'
  BY DEF RegisteredIsListed, TypeOKStub, Steps, AloneUnlessMet
<1>9. LinesOfThreads'
  BY DEF LinesOfThreads, TypeOKStub, Steps
<1>10. QuietEnd'
  BY DEF QuietEnd, TypeOKStub, Steps, AloneUnlessMet, StepsOfThreads, OneSession
<1>11. EndsQuietly'
  BY DEF EndsQuietly, TypeOKStub, StepsOfThreads, Steps
<1> QED
  BY <1>1, <1>2, <1>3, <1>4, <1>5, <1>6, <1>7, <1>8, <1>9, <1>10, <1>11

\* The end of the module.
LEMMA ShutdownKeeps ==
    ASSUME StubInv, Shutdown
    PROVE  StubInv'
<1> USE DEF StubInv, Shutdown, logVars
<1>1. TypeOKStub'
  BY DEF TypeOKStub, Steps
<1>2. DownIsEmpty'
  BY DEF DownIsEmpty
<1>3. StepsOfThreads'
  BY DEF StepsOfThreads, TypeOKStub, Steps
<1>4. OneSession'
  BY DEF OneSession, TypeOKStub, Steps
<1>5. ListedAlive'
  BY DEF ListedAlive, TypeOKStub, OneSession
<1>6. AloneUnlessMet'
  BY DEF AloneUnlessMet, TypeOKStub, Steps
<1>7. GoodWhereUsed'
  BY DEF GoodWhereUsed, TypeOKStub, Steps, AloneUnlessMet, OneSession
<1>8. RegisteredIsListed'
  BY DEF RegisteredIsListed, TypeOKStub, Steps, AloneUnlessMet
<1>9. LinesOfThreads'
  BY DEF LinesOfThreads, TypeOKStub, Steps
<1>10. QuietEnd'
  BY DEF QuietEnd, TypeOKStub, Steps, AloneUnlessMet, StepsOfThreads, OneSession
<1>11. EndsQuietly'
  BY DEF EndsQuietly, TypeOKStub, StepsOfThreads, Steps
<1> QED
  BY <1>1, <1>2, <1>3, <1>4, <1>5, <1>6, <1>7, <1>8, <1>9, <1>10, <1>11

\* The PHP thread closes the handle.
LEMMA DestroyKeeps ==
    ASSUME StubInv, Destroy
    PROVE  StubInv'
<1> USE DEF StubInv, Destroy, Fini, Unlist, logVars
<1>1. TypeOKStub'
  BY DEF TypeOKStub, Steps
<1>2. DownIsEmpty'
  BY DEF DownIsEmpty
<1>3. StepsOfThreads'
  BY DEF StepsOfThreads, TypeOKStub, Steps
<1>4. OneSession'
  BY DEF OneSession, TypeOKStub, Steps
<1>5. ListedAlive'
  BY DEF ListedAlive, TypeOKStub, OneSession
<1>6. AloneUnlessMet'
  BY DEF AloneUnlessMet, TypeOKStub, Steps
<1>7. GoodWhereUsed'
  BY DEF GoodWhereUsed, TypeOKStub, Steps, AloneUnlessMet, OneSession
<1>8. RegisteredIsListed'
  BY DEF RegisteredIsListed, TypeOKStub, Steps, AloneUnlessMet
<1>9. LinesOfThreads'
  BY DEF LinesOfThreads, TypeOKStub, Steps
<1>10. QuietEnd'
  BY DEF QuietEnd, TypeOKStub, Steps, AloneUnlessMet, StepsOfThreads, OneSession
<1>11. EndsQuietly'
  BY DEF EndsQuietly, TypeOKStub, StepsOfThreads, Steps
<1> QED
  BY <1>1, <1>2, <1>3, <1>4, <1>5, <1>6, <1>7, <1>8, <1>9, <1>10, <1>11

\* The services file is edited.
LEMMA EditKeeps ==
    ASSUME StubInv, Edit
    PROVE  StubInv'
<1> USE DEF StubInv, Edit, Event, logVars
<1>1. TypeOKStub'
  BY DEF TypeOKStub, Steps
<1>2. DownIsEmpty'
  BY DEF DownIsEmpty
<1>3. StepsOfThreads'
  BY DEF StepsOfThreads, TypeOKStub, Steps
<1>4. OneSession'
  BY DEF OneSession, TypeOKStub, Steps
<1>5. ListedAlive'
  BY DEF ListedAlive, TypeOKStub, OneSession
<1>6. AloneUnlessMet'
  BY DEF AloneUnlessMet, TypeOKStub, Steps
<1>7. GoodWhereUsed'
  BY DEF GoodWhereUsed, TypeOKStub, Steps, AloneUnlessMet, OneSession
<1>8. RegisteredIsListed'
  BY DEF RegisteredIsListed, TypeOKStub, Steps, AloneUnlessMet
<1>9. LinesOfThreads'
  BY DEF LinesOfThreads, TypeOKStub, Steps
<1>10. QuietEnd'
  BY DEF QuietEnd, TypeOKStub, Steps, AloneUnlessMet, StepsOfThreads, OneSession
<1>11. EndsQuietly'
  BY DEF EndsQuietly, TypeOKStub, StepsOfThreads, Steps
<1> QED
  BY <1>1, <1>2, <1>3, <1>4, <1>5, <1>6, <1>7, <1>8, <1>9, <1>10, <1>11

\* After provider_stub_destroy the completion threads are silent, and in the end the PHP
\* thread too.
LEMMA NobodyWrites ==
    ASSUME StubInv, ~met, phase = "ending", step[Main] \in {"close_log", "ended"}
    PROVE  /\ \A s \in Sessions : line[s] = "out"
           /\ step[Main] = "ended" => line[Main] = "out"
<1> USE DEF StubInv
<1>1. \A s \in Sessions : step[s] = "idle" /\ (s \in mine => session[s] = "closed")
  BY DEF AloneUnlessMet, QuietEnd
<1> QED
  BY <1>1 DEF LinesOfThreads, TypeOKStub

\* close_log.
LEMMA EndLogKeeps ==
    ASSUME LogInv, StubInv, EndLog
    PROVE  StubInv'
<1> USE DEF StubInv
<1>0. /\ step[Main] = "close_log" /\ line[Main] = "out" /\ phase # "down"
      /\ step' = [step EXCEPT ![Main] = "ended"]
      /\ UNCHANGED <<phase, zk, stream, inited, recorded, text, session, mine, listed, events,
                     ok, early, met, misused>>
      /\ UNCHANGED <<inode, lock, line, held, disk, opened, badWrite>>
      /\ CloseLog(Main)
  BY DEF EndLog, CloseLog
<1>1. TypeOKStub'
  BY <1>0 DEF TypeOKStub, Steps
<1>2. DownIsEmpty'
  BY <1>0 DEF DownIsEmpty
<1>3. StepsOfThreads'
  BY <1>0 DEF StepsOfThreads, TypeOKStub, Steps
<1>4. OneSession'
  BY <1>0 DEF OneSession, TypeOKStub, Steps
<1>5. ListedAlive' /\ AloneUnlessMet'
  BY <1>0 DEF ListedAlive, AloneUnlessMet, TypeOKStub
<1>6. GoodWhereUsed'
  BY <1>0 DEF GoodWhereUsed, TypeOKStub, Steps
<1>7. RegisteredIsListed'
  BY <1>0 DEF RegisteredIsListed, TypeOKStub
<1>8. LinesOfThreads'
  BY <1>0 DEF LinesOfThreads, TypeOKStub
<1>9. QuietEnd'
  BY <1>0 DEF QuietEnd, TypeOKStub
<1>10. EndsQuietly'
  <2>1. CASE phase = "ending" /\ ~met
    <3>1. \A t \in Threads : line[t] = "out"
      BY <1>0, <2>1, NobodyWrites
    <3>2. fp \notin DOMAIN closed
      BY <3>1 DEF LogInv, HandleInSwitch, SomebodyOpens
    <3>3. badClose' = badClose
      BY <1>0, <3>2 DEF CloseLog, CloseFile
    <3> QED
      BY <1>0, <3>3 DEF EndsQuietly
  <2>2. CASE phase = "aborting" \/ met
    BY <1>0, <2>2 DEF EndsQuietly
  <2> QED
    BY <1>0, <2>1, <2>2 DEF StepsOfThreads, TypeOKStub
<1> QED
  BY <1>1, <1>2, <1>3, <1>4, <1>5, <1>6, <1>7, <1>8, <1>9, <1>10

\* The module is loaded, with a log that can be used or not.
LEMMA LoadModuleKeeps ==
    ASSUME LogInv, StubInv, LoadModule
    PROVE  LogInv' /\ StubInv'
<1> USE DEF StubInv, LoadModule, OpenLog, DownIsEmpty
<1>1. LogInv'
  <2>1. /\ fp' = 0 /\ inode' = -1 /\ lock' = {} /\ opened' = 0 /\ closed' = [f \in {} |-> ""]
        /\ badWrite' = {} /\ badClose' = {} /\ \A t \in Threads : line'[t] = "out"
        /\ UNCHANGED <<held, disk, others, line>> /\ status' \in BOOLEAN
    OBVIOUS
  <2>2. DOMAIN closed' = {} /\ Switches' /\ ~SomebodyOpens' /\ Cardinality(lock') <= 1
    BY <2>1, FS_EmptySet DEF Switches, SomebodyOpens, LogInv, TypeOKLog
  <2>3. TypeOKLog'
    BY <2>1, <2>2 DEF LogInv, TypeOKLog
  <2> HIDE DEF LoadModule
  <2> QED
    BY <2>1, <2>2, <2>3 DEF LogInv, LockHeld, FilesNumbered, HandleInSwitch, NoFileNoticed,
              LineHasFile, SwitchIsAtomic, WritesToOpenFile, TypeOKLog
<1>2. TypeOKStub' /\ DownIsEmpty'
  BY DEF TypeOKStub
<1>3. StepsOfThreads' /\ OneSession'
  BY DEF StepsOfThreads, OneSession
<1>4. ListedAlive' /\ AloneUnlessMet' /\ GoodWhereUsed' /\ RegisteredIsListed'
  BY DEF ListedAlive, AloneUnlessMet, GoodWhereUsed, RegisteredIsListed
<1>5. LinesOfThreads' /\ QuietEnd' /\ EndsQuietly'
  BY DEF LinesOfThreads, QuietEnd, EndsQuietly
<1> QED
  BY <1>1, <1>2, <1>3, <1>4, <1>5

\* The process is gone, and with it everything but the registry's view and the files.
LEMMA ExitKeeps ==
    ASSUME LogInv, StubInv, Exit
    PROVE  LogInv' /\ StubInv'
<1> USE DEF StubInv, Exit
<1>1. LogInv'
  <2>1. DOMAIN closed' = {} /\ Switches' /\ ~SomebodyOpens' /\ Cardinality(lock') <= 1
    BY FS_EmptySet DEF Switches, SomebodyOpens, LogInv, TypeOKLog
  <2>2. TypeOKLog'
    <3>1. /\ line' \in [Threads -> {"out", "prepare", "open", "fetch", "write"}]
          /\ held' \in [Threads -> 0..MaxOpens] /\ others' \in [Threads -> BOOLEAN]
      OBVIOUS
    <3>2. disk' \in 0..(MaxOpens + 1) /\ fp' \in 0..MaxOpens /\ opened' \in 0..MaxOpens
          /\ inode' \in -1..(MaxOpens + 1)
      OBVIOUS
    <3>3. status' \in BOOLEAN /\ badClose' = {} /\ lock' = {}
      OBVIOUS
    <3> HIDE DEF Exit
    <3> QED
      BY <2>1, <3>1, <3>2, <3>3 DEF TypeOKLog
  <2>3. /\ fp' = 0 /\ inode' = -1 /\ lock' = {} /\ opened' = 0
        /\ badWrite' = {} /\ badClose' = {} /\ \A t \in Threads : line'[t] = "out"
    OBVIOUS
  <2> HIDE DEF Exit
  <2> QED
    BY <2>1, <2>2, <2>3 DEF LogInv, LockHeld, FilesNumbered, HandleInSwitch, NoFileNoticed,
              LineHasFile, SwitchIsAtomic, WritesToOpenFile, TypeOKLog
<1>2. TypeOKStub'
  BY DEF TypeOKStub, Steps
<1>3. DownIsEmpty'
  BY DEF DownIsEmpty
<1>4. StepsOfThreads' /\ OneSession'
  BY DEF StepsOfThreads, OneSession
<1>5. ListedAlive'
  BY DEF ListedAlive, TypeOKStub
<1>6. AloneUnlessMet' /\ GoodWhereUsed' /\ RegisteredIsListed'
  BY DEF AloneUnlessMet, GoodWhereUsed, RegisteredIsListed
<1>7. LinesOfThreads' /\ QuietEnd' /\ EndsQuietly'
  BY DEF LinesOfThreads, QuietEnd, EndsQuietly
<1> QED
  BY <1>1, <1>2, <1>3, <1>4, <1>5, <1>6, <1>7

\* What the registration is does not depend on the log.
LEMMA StubUntouched ==
    ASSUME StubInv, UNCHANGED stubVars
    PROVE  /\ TypeOKStub' /\ StepsOfThreads' /\ OneSession' /\ ListedAlive' /\ AloneUnlessMet'
           /\ GoodWhereUsed' /\ RegisteredIsListed'
<1> USE DEF StubInv, stubVars
<1>1. TypeOKStub' /\ StepsOfThreads'
  BY DEF TypeOKStub, StepsOfThreads
<1>2. OneSession' /\ ListedAlive' /\ AloneUnlessMet'
  BY DEF OneSession, ListedAlive, AloneUnlessMet
<1>3. GoodWhereUsed' /\ RegisteredIsListed'
  BY DEF GoodWhereUsed, RegisteredIsListed
<1> QED
  BY <1>1, <1>2, <1>3

\* A line is begun by a thread that can.
LEMMA StartLineKeeps ==
    ASSUME LogInv, StubInv, NEW t \in Threads, StartLine(t)
    PROVE  LogInv' /\ StubInv'
<1> USE DEF StubInv, StartLine, stubVars
<1>1. LogInv'
  BY LogWriteKeeps
<1>2. DownIsEmpty' /\ QuietEnd' /\ EndsQuietly'
  BY DEF DownIsEmpty, QuietEnd, EndsQuietly, LogWrite, Logs
<1>3. LinesOfThreads'
  BY DEF LinesOfThreads, LogWrite, Logs, LogInv, TypeOKLog
<1> QED
  BY <1>1, <1>2, <1>3, StubUntouched

\* A line goes on.  A FILE that close_log closed is met only after close_log, when after a
\* registration that has succeeded nobody writes any more.
LEMMA ContinueLineKeeps ==
    ASSUME LogInv, StubInv, NEW t \in Threads, ContinueLine(t)
    PROVE  LogInv' /\ StubInv'
<1> USE DEF StubInv, ContinueLine
<1>0. /\ phase # "down" /\ LineNext(t)
      /\ UNCHANGED <<phase, step, mine, session, met>> /\ UNCHANGED stubVars
  BY DEF providerVars, stubVars
<1>1. LogInv'
  BY <1>0, PrepareKeeps, OpenFileKeeps, OpenFailsKeeps, FetchKeeps, FwriteKeeps DEF LineNext
<1>2. line[t] # "out" /\ \A u \in Threads : u # t => line'[u] = line[u]
  BY <1>0 DEF LineNext, Prepare, Examine, OpenFile, OpenFails, Fetch, Fwrite, LogInv, TypeOKLog
<1>3. DownIsEmpty' /\ LinesOfThreads'
  BY <1>0, <1>2 DEF DownIsEmpty, LinesOfThreads
<1>4. ASSUME NEW f \in DOMAIN closed', closed'[f] = "end"
      PROVE  f \in DOMAIN closed /\ closed[f] = "end"
  BY <1>0, <1>4 DEF LineNext, Prepare, Examine, CloseFile, OpenFile, OpenFails, Fetch, Fwrite
<1>5. QuietEnd'
  BY <1>0, <1>4 DEF QuietEnd
<1>6. EndsQuietly'
  <2>1. "end" \in badClose' => "end" \in badClose
    BY <1>0 DEF LineNext, Prepare, Examine, CloseFile, OpenFile, OpenFails, Fetch, Fwrite
  <2>2. ASSUME NEW b \in badWrite', b[1] = "end"
        PROVE  b \in badWrite \/ phase = "aborting" \/ met
    <3>1. CASE Fwrite(t) /\ b \notin badWrite
      <4>1. held[t] \in DOMAIN closed /\ closed[held[t]] = "end"
        BY <2>2, <3>1 DEF Fwrite
      <4>2. step[Main] = "ended"
        BY <4>1 DEF QuietEnd
      <4> QED
        BY <1>2, <4>2, NobodyWrites DEF StepsOfThreads, TypeOKStub
    <3>2. CASE ~Fwrite(t)
      BY <1>0, <2>2, <3>2 DEF LineNext, Prepare, OpenFile, OpenFails, Fetch
    <3> QED
      BY <3>1, <3>2
  <2> QED
    BY <1>0, <2>1, <2>2 DEF EndsQuietly
<1> QED
  BY <1>0, <1>1, <1>3, <1>5, <1>6, StubUntouched

\* Midnight, or a rotation.
LEMMA OutsideKeeps ==
    ASSUME LogInv, StubInv, Outside
    PROVE  LogInv' /\ StubInv'
<1> USE DEF StubInv, Outside, stubVars
<1>1. LogInv'
  BY RotateKeeps
<1>2. DownIsEmpty' /\ QuietEnd' /\ EndsQuietly' /\ LinesOfThreads'
  BY DEF DownIsEmpty, QuietEnd, EndsQuietly, LinesOfThreads, Rotate
<1> QED
  BY <1>1, <1>2, StubUntouched

-----------------------------------------------------------------------------
(***************************************************************************)
(* The theorems.                                                            *)
(***************************************************************************)

\* The initial states.
LEMMA InitIInv == Init => IInv
<1> SUFFICES ASSUME Init PROVE IInv
  OBVIOUS
<1> USE DEF Init, InitLog, StubInv
<1>1. LogInv
  <2>1. /\ line \in [Threads -> {"out"}] /\ others \in [Threads -> BOOLEAN]
        /\ disk \in 0..(MaxOpens + 1)
    OBVIOUS
  <2>2. status \in BOOLEAN
    OBVIOUS
  <2> QED
    BY <2>1, <2>2, EmptyLog
<1>2. TypeOKStub
  BY DEF TypeOKStub, Steps
<1>3. DownIsEmpty /\ StepsOfThreads /\ OneSession /\ ListedAlive /\ AloneUnlessMet
  BY DEF DownIsEmpty, StepsOfThreads, OneSession, ListedAlive, AloneUnlessMet
<1>4. GoodWhereUsed /\ RegisteredIsListed /\ LinesOfThreads /\ QuietEnd /\ EndsQuietly
  BY DEF GoodWhereUsed, RegisteredIsListed, LinesOfThreads, QuietEnd, EndsQuietly
<1> QED
  BY <1>1, <1>2, <1>3, <1>4 DEF IInv

\* A step of init_zk_handle and register_services, in any thread.
LEMMA StubNextKeeps ==
    ASSUME LogInv, StubInv, NEW t \in Threads, StubNext(t)
    PROVE  LogInv' /\ StubInv'
<1>1. StubInv'
  BY OpenStreamKeeps, ConnectKeeps, ExistsKeeps, ReadServicesKeeps, MakeNodeKeeps,
     MakeNodeFailsKeeps DEF StubNext
<1>2. UNCHANGED logVars
  BY DEF StubNext, OpenStream, Connect, Exists, ReadServices, MakeNode, MakeNodeFails
<1> QED
  BY <1>1, <1>2, LogStutters

\* Every step of the registration and of the log keeps the invariant.
LEMMA NextKeeps == IInv /\ [Next]_vars => IInv'
<1> SUFFICES ASSUME LogInv, StubInv, [Next]_vars PROVE LogInv' /\ StubInv'
  BY DEF IInv
<1>1. CASE LoadModule \/ Exit
  BY <1>1, LoadModuleKeeps, ExitKeeps
<1>2. CASE MainNext
  <2>1. CASE StubInit \/ Destroy
    <3>1. UNCHANGED logVars
      BY <2>1 DEF StubInit, Destroy
    <3> QED
      BY <2>1, <3>1, LogStutters, StubInitKeeps, DestroyKeeps
  <2>2. CASE EndLog
    <3>1. line[Main] = "out" /\ CloseLog(Main)
      BY <2>2 DEF EndLog
    <3> QED
      BY <2>2, <3>1, CloseLogKeeps, EndLogKeeps
  <2>3. CASE StubNext(Main) \/ ContinueLine(Main)
    BY <2>3, StubNextKeeps, ContinueLineKeeps
  <2> QED
    BY <1>2, <2>1, <2>2, <2>3 DEF MainNext
<1>3. CASE Shutdown \/ Edit
  <2>1. UNCHANGED logVars
    BY <1>3 DEF Shutdown, Edit
  <2> QED
    BY <1>3, <2>1, LogStutters, ShutdownKeeps, EditKeeps
<1>4. CASE Outside
  BY <1>4, OutsideKeeps
<1>5. ASSUME NEW t \in Threads, StartLine(t) PROVE LogInv' /\ StubInv'
  BY <1>5, StartLineKeeps
<1>6. ASSUME NEW s \in Sessions, WatcherNext(s) \/ SessionExpires(s) PROVE LogInv' /\ StubInv'
  <2>1. CASE Expired(s) \/ WatcherFini(s) \/ SessionExpires(s)
    <3>1. UNCHANGED logVars
      BY <2>1 DEF Expired, WatcherFini, SessionExpires
    <3> QED
      BY <2>1, <3>1, LogStutters, ExpiredKeeps, WatcherFiniKeeps, SessionExpiresKeeps
  <2>2. CASE StubNext(s) \/ ContinueLine(s)
    BY <2>2, StubNextKeeps, ContinueLineKeeps
  <2> QED
    BY <1>6, <2>1, <2>2 DEF WatcherNext
<1>7. CASE UNCHANGED vars
  <2>1. UNCHANGED logVars /\ UNCHANGED stubVars
    BY <1>7 DEF vars, providerVars
  <2>2. DownIsEmpty' /\ LinesOfThreads' /\ QuietEnd' /\ EndsQuietly'
    BY <2>1 DEF stubVars, logVars, StubInv, DownIsEmpty, LinesOfThreads, QuietEnd, EndsQuietly
  <2> QED
    BY <2>1, <2>2, LogStutters, StubUntouched DEF StubInv
<1> QED
  BY <1>1, <1>2, <1>3, <1>4, <1>5, <1>6, <1>7 DEF Next

\* The inductive invariant.
LEMMA InvariantHolds == Spec => []IInv
BY InitIInv, NextKeeps, PTL DEF Spec

\* Every variable keeps its type, and only the PHP thread and the completion threads of this
\* process' sessions are in the functions of service_mgt.c.
THEOREM TypeCorrect == Spec => []TypeOK
<1>1. IInv => TypeOK
  BY DEF IInv, LogInv, StubInv, TypeOK
<1> QED
  BY InvariantHolds, <1>1, PTL

\* With the lock, replacing the log's file is one step for the other threads, for any number
\* of threads, openings and rotations.
THEOREM SwitchAtomic == Spec => []SwitchIsAtomic
<1>1. IInv => SwitchIsAtomic
  BY DEF IInv, LogInv
<1> QED
  BY InvariantHolds, <1>1, PTL

\* fwrite, outside of the lock, meets a closed FILE or none only after another thread has
\* replaced or closed the file during the same line.
THEOREM WritesOpen == Spec => []WritesToOpenFile
<1>1. IInv => WritesToOpenFile
  BY DEF IInv, LogInv
<1> QED
  BY InvariantHolds, <1>1, PTL

\* zk_h is not used after fini_zk_handle, unless a re-initialisation failed before it stored
\* a new handle or stream, or two threads were in these functions at a time.
THEOREM HandleIsSafe == Spec => []HandleSafe
<1>1. IInv => HandleSafe
  BY DEF IInv, StubInv, GoodWhereUsed, HandleSafe, TypeOKStub
<1> QED
  BY InvariantHolds, <1>1, PTL

\* A registry entry of this process belongs to the handle in zk_h, whatever failed and
\* whoever met, and a registration that has succeeded is listed as long as its session lives.
THEOREM ListedTruly == Spec => []Listed
<1>1. IInv => Listed
  <2> SUFFICES ASSUME IInv PROVE Listed
    OBVIOUS
  <2> USE DEF IInv, StubInv
  <2>1. ASSUME NEW x \in Texts, listed[x] \in mine PROVE listed[x] = zk
    BY <2>1 DEF ListedAlive, OneSession, TypeOKStub
  <2> QED
    BY <2>1 DEF Listed, RegisteredIsListed
<1> QED
  BY InvariantHolds, <1>1, PTL

\* After a registration that has succeeded, MSHUTDOWN closes the log when nobody can be
\* writing any more, unless a watcher was at work at the same time.
THEOREM EndIsQuiet == Spec => []EndsQuietly
<1>1. IInv => EndsQuietly
  BY DEF IInv, StubInv
<1> QED
  BY InvariantHolds, <1>1, PTL
=============================================================================
