------------------------------ MODULE LogFile ------------------------------
(***************************************************************************)
(* The log of the PHP extension (soaregister/log.c): several threads write  *)
(* lines through one handle, whose file is replaced when the day changes    *)
(* and when the file on the disk is deleted or is not the one that is open. *)
(*                                                                          *)
(* The lock covers prepare_log and not fwrite, and close_log takes no lock. *)
(* A FILE is a number, given in the order of the openings.  A new day and a *)
(* rotation have the same effect: the file with today's name is missing, or *)
(* its inode is not the one that was noted.                                 *)
(***************************************************************************)
EXTENDS Integers, FiniteSets

CONSTANTS
    Threads,
    Locked,      \* log_lock_type is "thread" or "process"
    MaxOpens     \* bound: FILEs opened by one process

ASSUME LogConfig == Locked \in BOOLEAN /\ MaxOpens \in Nat

VARIABLES
    status,     \* g_log_h.status: the log is in use
    fp,         \* g_log_h.fp, 0 is NULL
    inode,      \* g_log_h.inode_value, of the file g_log_h.filename
    lock,       \* the thread that has g_log_h.lock, or {}
    line,       \* where a thread is in log_write
    held,       \* the FILE it passes to fwrite
    disk,       \* inode of the file with today's name, 0 when there is none
    opened,     \* FILEs opened so far
    closed,     \* FILEs closed, with what closed them: "switch" or "end"
    others,     \* history: the FILE was replaced or closed while a line is written
    badWrite,   \* history: why a FILE passed to fwrite was not open
    badClose    \* history: what closed a FILE a second time

logVars == <<status, fp, inode, lock, line, held, disk, opened, closed,
             others, badWrite, badClose>>

\* open_log; the name is too long, or a directory cannot be made.
OpenLog ==
    /\ fp' = 0 /\ inode' = -1
    /\ status' \in BOOLEAN
    /\ UNCHANGED <<lock, line, held, disk, opened, closed, others, badWrite, badClose>>

LogWrite(t) ==
    /\ line[t] = "out" /\ status
    /\ line' = [line EXCEPT ![t] = "prepare"]
    /\ UNCHANGED <<status, fp, inode, lock, held, disk, opened, closed, others, badWrite,
                   badClose>>

\* fclose.
CloseFile(f, how) ==
    /\ closed' = [g \in DOMAIN closed \cup {f} |-> IF g = f THEN how ELSE closed[g]]
    /\ badClose' = IF f \in DOMAIN closed THEN badClose \cup {how} ELSE badClose

Touch(t) == others' = [u \in Threads |-> u # t /\ line[u] # "out"]

\* The name is another one, or the file of this name is deleted or not the one that is open.
Switches == disk = 0 \/ inode # disk

\* The lock, and the decision of prepare_log; unless the file is switched the lock is
\* released at once.
Examine(t) ==
    IF Switches
    THEN /\ line' = [line EXCEPT ![t] = "open"]
         /\ Touch(t)
         /\ IF fp # 0 THEN CloseFile(fp, "switch") ELSE UNCHANGED <<closed, badClose>>
    ELSE line' = [line EXCEPT ![t] = "fetch"] /\ UNCHANGED <<closed, others, badClose>>

\* Mutant: a lock that another thread has is taken all the same.
PrepareUnlocked(t) ==
    /\ line[t] = "prepare"
    /\ Examine(t)
    /\ lock' = IF Switches THEN lock \cup {t} ELSE lock
    /\ UNCHANGED <<status, fp, inode, held, disk, opened, badWrite>>

Prepare(t) ==
    /\ line[t] = "prepare" /\ lock = {}
    /\ Examine(t)
    /\ lock' = IF Locked /\ Switches THEN {t} ELSE {}
    /\ UNCHANGED <<status, fp, inode, held, disk, opened, badWrite>>

\* fopen, the name and the inode of the new file, and the end of prepare_log.
OpenFile(t) ==
    /\ line[t] = "open" /\ opened < MaxOpens
    /\ opened' = opened + 1
    /\ fp' = opened + 1
    /\ disk' = IF disk = 0 THEN opened + 1 ELSE disk
    /\ inode' = disk'
    /\ lock' = lock \ {t}
    /\ line' = [line EXCEPT ![t] = "fetch"]
    /\ others' = [others EXCEPT ![t] = FALSE]
    /\ UNCHANGED <<status, held, closed, badWrite, badClose>>

\* Mutant: the failure of fopen is not reported to logv.
OpenFailsUnnoticed(t) ==
    /\ line[t] = "open"
    /\ fp' = 0 /\ status' = FALSE
    /\ lock' = lock \ {t}
    /\ line' = [line EXCEPT ![t] = "fetch"]
    /\ UNCHANGED <<inode, held, disk, opened, closed, others, badWrite, badClose>>

\* fopen fails: occur_error, and the line is dropped.
OpenFails(t) ==
    /\ line[t] = "open"
    /\ fp' = 0 /\ status' = FALSE
    /\ lock' = lock \ {t}
    /\ line' = [line EXCEPT ![t] = "out"]
    /\ others' = [others EXCEPT ![t] = FALSE]
    /\ UNCHANGED <<inode, held, disk, opened, closed, badWrite, badClose>>

\* The argument of fwrite is read, and then the line is written.
Fetch(t) ==
    /\ line[t] = "fetch"
    /\ held' = [held EXCEPT ![t] = fp]
    /\ line' = [line EXCEPT ![t] = "write"]
    /\ UNCHANGED <<status, fp, inode, lock, disk, opened, closed, others, badWrite, badClose>>

Fwrite(t) ==
    /\ line[t] = "write"
    /\ line' = [line EXCEPT ![t] = "out"]
    /\ held' = [held EXCEPT ![t] = 0]
    /\ others' = [others EXCEPT ![t] = FALSE]
    /\ badWrite' = badWrite \cup
         (IF held[t] = 0 THEN {<<"null", others[t]>>}
          ELSE IF held[t] \in DOMAIN closed THEN {<<closed[held[t]], others[t]>>} ELSE {})
    /\ UNCHANGED <<status, fp, inode, lock, disk, opened, closed, badClose>>

\* close_log, by thread t: nothing is done, and the log stays in use, when no file was opened.
CloseLog(t) ==
    /\ IF status /\ fp # 0
       THEN CloseFile(fp, "end") /\ fp' = 0 /\ status' = FALSE /\ Touch(t)
       ELSE UNCHANGED <<closed, badClose, fp, status, others>>
    /\ UNCHANGED <<inode, lock, line, held, disk, opened, badWrite>>

\* External: midnight, or a rotation, leaves no file with today's name or one that another
\* process has made.
Rotate ==
    /\ disk \in 1..MaxOpens
    /\ disk' \in {0, MaxOpens + 1}
    /\ UNCHANGED <<status, fp, inode, lock, line, held, opened, closed, others, badWrite,
                   badClose>>

InitLog ==
    /\ status = FALSE /\ fp = 0 /\ inode = -1 /\ lock = {}
    /\ line = [t \in Threads |-> "out"] /\ held = [t \in Threads |-> 0]
    /\ disk = 0 /\ opened = 0 /\ closed = [f \in {} |-> ""]
    /\ others = [t \in Threads |-> FALSE] /\ badWrite = {} /\ badClose = {}

LineNext(t) ==
    Prepare(t) \/ OpenFile(t) \/ OpenFails(t) \/ Fetch(t) \/ Fwrite(t)

-----------------------------------------------------------------------------
(***************************************************************************)
(* Properties.                                                              *)
(***************************************************************************)
TypeOKLog ==
    /\ status \in BOOLEAN /\ fp \in 0..MaxOpens
    /\ inode \in -1..(MaxOpens + 1) /\ lock \subseteq Threads /\ Cardinality(lock) <= 1
    /\ line \in [Threads -> {"out", "prepare", "open", "fetch", "write"}]
    /\ held \in [Threads -> 0..MaxOpens] /\ disk \in 0..(MaxOpens + 1)
    /\ opened \in 0..MaxOpens
    /\ DOMAIN closed \subseteq 1..MaxOpens /\ others \in [Threads -> BOOLEAN]
    /\ badClose \subseteq {"switch", "end"}

\* With the lock, switching the file is one step for the other threads: prepare_log closes no
\* FILE a second time and leaves none open but the one of the handle, and outside of a switch
\* the handle has an open FILE or none.
SwitchIsAtomic ==
    Locked =>
      /\ "switch" \notin badClose
      /\ (1..opened) \ DOMAIN closed \subseteq {fp}
      /\ (\A t \in Threads : line[t] # "open") => fp \notin DOMAIN closed

\* fwrite, which is outside of the lock, gets a FILE that is closed or NULL only when another
\* thread has replaced or closed the file since this thread found the log in use, or opened
\* the file itself.
WritesToOpenFile == \A b \in badWrite : Locked => b[2]
=============================================================================
