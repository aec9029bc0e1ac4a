------------------------------- MODULE Server -------------------------------
(***************************************************************************)
(* The proxy server of the agent (soaagent/server.c): the start-up of the   *)
(* workers, the accept loop with its round robin, the hand-over through a   *)
(* socket pair, and the callbacks of each worker, which forward one request *)
(* at a time with invoke_service, byte by byte as in SocketIO for the       *)
(* workers in Sockets; the others refuse every request.                     *)
(*                                                                          *)
(* A client's stream is a sequence of pieces: the header of its k-th        *)
(* message, and the body.  A body is empty, fails to decode, or is good.    *)
(* libevent is external: it reads any number of pieces before it calls      *)
(* readcb once, and writes the output when the worker is not busy.          *)
(***************************************************************************)
EXTENDS SocketIO, SequencesExt

CONSTANTS
    Clients,
    Pipelining,    \* clients that send a request before the last one is answered
    WorkerNum,     \* thread_num, the workers are 0..WorkerNum-1
    CycleMax,      \* 0xFFFF
    Scripts,       \* bound: the message sequences of each client, and their prefixes
    MaxAccepts     \* bound: connections accepted

Workers == 0..(WorkerNum - 1)

ASSUME ServerConfig ==
    /\ WorkerNum \in Nat \ {0} /\ CycleMax \in Nat
    /\ Scripts \in [Clients -> SUBSET Seq({"empty", "bad", "good"})] /\ MaxAccepts \in Nat
    /\ Pipelining \subseteq Clients /\ Sockets \subseteq Workers

VARIABLES
    phase,     \* of the main thread: prepare, launch, running, exited
    made,      \* workers prepared or launched in this phase
    counter,   \* global_cycle_counter
    conn,      \* a client's connection: none, backlog, notify, open
    owner,     \* index of the worker that got it
    pipe,      \* descriptors in a worker's socket pair
    kinds,     \* the messages a client has begun
    wire,      \* pieces written by the client, not read by libevent
    left,      \* the client has closed its end
    input,     \* the bufferevent's input
    output,    \* its output: responses [msg, ok]
    got,       \* responses the client has received
    serving,   \* the request a worker is working on, <<client, message>> or <<>>
    accepts    \* connections accepted so far

mainVars == <<phase, made, accepts, counter>>
serverVars == <<mainVars, conn, owner, pipe, kinds, wire, left, input, output, got, serving>>
vars == <<serverVars, ioVars>>

Kinds == {"empty", "bad", "good"}

-----------------------------------------------------------------------------
(***************************************************************************)
(* tcp_server_startup_with_multibase: a socket pair and an event base for   *)
(* each worker, then a thread for each; the process exits when one fails.   *)
(***************************************************************************)
Startup ==
    /\ phase \in {"prepare", "launch"}
    /\ \/ /\ made < WorkerNum - 1
          /\ made' = made + 1 /\ UNCHANGED phase
       \/ /\ made = WorkerNum - 1
          /\ made' = 0
          /\ phase' = IF phase = "prepare" THEN "launch" ELSE "running"
    /\ UNCHANGED <<accepts, counter, conn, owner, pipe, kinds, wire, left, input, output, got,
                   serving, ioVars>>

StartupFails ==
    /\ phase \in {"prepare", "launch"}
    /\ phase' = "exited"
    /\ UNCHANGED <<made, accepts, counter, conn, owner, pipe, kinds, wire, left, input, output,
                   got, serving, ioVars>>

(***************************************************************************)
(* do_accept and get_next_worker_index.                                     *)
(***************************************************************************)

NextWorker == counter % WorkerNum

AdvanceCounter == counter' = IF counter + 1 > CycleMax THEN 0 ELSE counter + 1

Accept(c) ==
    /\ phase = "running" /\ conn[c] = "backlog"
    /\ AdvanceCounter
    /\ conn' = [conn EXCEPT ![c] = "notify"]
    /\ owner' = [owner EXCEPT ![c] = NextWorker]
    /\ pipe' = [pipe EXCEPT ![NextWorker] = Append(@, c)]
    /\ accepts' = accepts + 1
    /\ UNCHANGED <<phase, made, kinds, wire, left, input, output, got, serving, ioVars>>

\* bufferevent_free: what was read and not handled, and what was not written, is lost; the
\* model forgets the client's messages with them.
FreeConnection(c) ==
    /\ conn' = [conn EXCEPT ![c] = "none"] /\ owner' = [owner EXCEPT ![c] = 0]
    /\ input' = [input EXCEPT ![c] = <<>>] /\ output' = [output EXCEPT ![c] = <<>>]
    /\ wire' = [wire EXCEPT ![c] = <<>>] /\ left' = [left EXCEPT ![c] = FALSE]
    /\ kinds' = [kinds EXCEPT ![c] = <<>>] /\ got' = [got EXCEPT ![c] = <<>>]

\* accept fails because the connection is gone, or the descriptor is greater than FD_SETSIZE.
AcceptRefused(c) ==
    /\ phase = "running" /\ conn[c] = "backlog"
    /\ FreeConnection(c)
    /\ UNCHANGED <<mainVars, pipe, serving, ioVars>>

(***************************************************************************)
(* A worker's event loop: it handles one event at a time, and none while    *)
(* invoke_service runs.                                                     *)
(***************************************************************************)
Free(w) == phase = "running" /\ serving[w] = <<>>

HandleNotify(w) ==
    /\ Free(w) /\ pipe[w] # <<>>
    /\ conn' = [conn EXCEPT ![Head(pipe[w])] = "open"]
    /\ pipe' = [pipe EXCEPT ![w] = Tail(@)]
    /\ UNCHANGED <<mainVars, owner, kinds, wire, left, input, output, got, serving,
                   ioVars>>

Serves(w, c) == Free(w) /\ conn[c] = "open" /\ owner[c] = w

\* The first message of the buffer is there as a whole.
Kind(c, piece) == kinds[c][piece[1]]
CanRead(c, buf) ==
    /\ buf # <<>>
    /\ Kind(c, Head(buf)) = "empty" \/ Len(buf) >= 2

Answer(c, k, ok) == output' = [output EXCEPT ![c] = Append(@, [msg |-> k, ok |-> ok])]

\* Mutant: a request that is refused stays in the buffer.
HandleBufferKeepsRefused(w, c, buf) ==
    /\ input' = [input EXCEPT ![c] = buf]
    /\ IF CanRead(c, buf) /\ kinds[c][Head(buf)[1]] = "good"
       THEN Answer(c, Head(buf)[1], FALSE) ELSE UNCHANGED output
    /\ UNCHANGED <<conn, serving, ioVars>>

\* Mutant: a message is taken only when something has come after it.
HandleBufferWaits(w, c, buf) ==
    LET k == Head(buf)[1] IN
    /\ input' = [input EXCEPT ![c] = IF CanRead(c, buf) /\ Len(buf) > 2
                                     THEN SubSeq(buf, 3, Len(buf)) ELSE buf]
    /\ IF CanRead(c, buf) /\ Len(buf) > 2
       THEN /\ w \in Sockets /\ StartCall(w) /\ serving' = [serving EXCEPT ![w] = <<c, k>>]
       ELSE UNCHANGED <<serving, ioVars>>
    /\ UNCHANGED <<conn, output>>

\* One message at most; an empty body is skipped without an answer.  The request is
\* forwarded, or refused at once when there is no provider or no connection for it.
HandleBuffer(w, c, buf) ==
    LET k == Head(buf)[1]
        Rest == SubSeq(buf, 3, Len(buf))
    IN
    \/ /\ ~CanRead(c, buf)
       /\ input' = [input EXCEPT ![c] = buf]
       /\ UNCHANGED <<conn, output, serving, ioVars>>
    \/ /\ CanRead(c, buf) /\ kinds[c][k] = "empty"
       /\ input' = [input EXCEPT ![c] = Tail(buf)]
       /\ UNCHANGED <<conn, output, serving, ioVars>>
    \/ /\ CanRead(c, buf) /\ kinds[c][k] = "good"
       /\ input' = [input EXCEPT ![c] = Rest]
       /\ \/ /\ w \in Sockets /\ StartCall(w) /\ serving' = [serving EXCEPT ![w] = <<c, k>>]
             /\ UNCHANGED output
          \/ Answer(c, k, FALSE) /\ UNCHANGED <<serving, ioVars>>
       /\ UNCHANGED conn

Read(w, c) ==
    /\ Serves(w, c) /\ wire[c] # <<>>
    /\ \E n \in 1..Len(wire[c]) :
         LET buf == input[c] \o SubSeq(wire[c], 1, n) IN
         /\ ~(CanRead(c, buf) /\ Kind(c, Head(buf)) = "bad")
         /\ wire' = [wire EXCEPT ![c] = SubSeq(@, n + 1, Len(@))]
         /\ HandleBuffer(w, c, buf)
    /\ UNCHANGED <<mainVars, owner, pipe, kinds, left, got>>

\* readcb frees the connection when the body does not decode.
ReadUndecodable(w, c) ==
    /\ Serves(w, c) /\ wire[c] # <<>>
    /\ \E n \in 1..Len(wire[c]) :
         LET buf == input[c] \o SubSeq(wire[c], 1, n)
         IN CanRead(c, buf) /\ Kind(c, Head(buf)) = "bad"
    /\ FreeConnection(c)
    /\ UNCHANGED <<mainVars, pipe, serving, ioVars>>

\* errorcb: the end of the stream, or a reset, with which unread data is lost.
Error(w, c) ==
    /\ Serves(w, c) /\ left[c]
    /\ FreeConnection(c)
    /\ UNCHANGED <<mainVars, pipe, serving, ioVars>>

\* invoke_service goes on, and its result is put into the output.
Invoke(w) ==
    /\ phase = "running" /\ serving[w] # <<>>
    /\ CallNext(w)
    /\ UNCHANGED serverVars

Reply(w) ==
    /\ phase = "running" /\ serving[w] # <<>>
    /\ EndCall(w)
    /\ Answer(serving[w][1], serving[w][2], at[w] = "done")
    /\ serving' = [serving EXCEPT ![w] = <<>>]
    /\ UNCHANGED <<mainVars, conn, owner, pipe, kinds, wire, left, input, got>>

Flush(w, c) ==
    /\ Serves(w, c) /\ output[c] # <<>>
    /\ got' = [got EXCEPT ![c] = Append(@, Head(output[c]))]
    /\ output' = [output EXCEPT ![c] = Tail(@)]
    /\ UNCHANGED <<mainVars, conn, owner, pipe, kinds, wire, left, input, serving,
                   ioVars>>

(***************************************************************************)
(* Clients, and providers.                                                  *)
(***************************************************************************)
Begun == accepts + Cardinality({c \in Clients : conn[c] = "backlog"})

Connect(c) ==
    /\ phase # "exited" /\ conn[c] = "none" /\ Begun < MaxAccepts
    /\ conn' = [conn EXCEPT ![c] = "backlog"]
    /\ UNCHANGED <<mainVars, owner, pipe, kinds, wire, left, input, output, got,
                   serving, ioVars>>

Alive(c) == conn[c] \in {"backlog", "notify", "open"} /\ ~left[c]

\* The last message a client has begun is not complete.
Unfinished(c) ==
    /\ kinds[c] # <<>> /\ kinds[c][Len(kinds[c])] # "empty"
    /\ LET read == {input[c][i] : i \in 1..Len(input[c])} \cup {wire[c][i] : i \in 1..Len(wire[c])}
       IN <<Len(kinds[c]), "head">> \in read /\ <<Len(kinds[c]), "body">> \notin read

SendHead(c, kind) ==
    /\ Alive(c) /\ ~Unfinished(c)
    /\ \E script \in Scripts[c] : IsPrefix(Append(kinds[c], kind), script)
    /\ c \notin Pipelining => Len(got[c]) = Len(kinds[c])
    /\ kinds' = [kinds EXCEPT ![c] = Append(@, kind)]
    /\ wire' = [wire EXCEPT ![c] = Append(@, <<Len(kinds'[c]), "head">>)]
    /\ UNCHANGED <<mainVars, conn, owner, pipe, left, input, output, got, serving,
                   ioVars>>

SendBody(c) ==
    /\ Alive(c) /\ Unfinished(c)
    /\ wire' = [wire EXCEPT ![c] = Append(@, <<Len(kinds[c]), "body">>)]
    /\ UNCHANGED <<mainVars, conn, owner, pipe, kinds, left, input, output, got,
                   serving, ioVars>>

Leave(c) ==
    /\ Alive(c)
    /\ left' = [left EXCEPT ![c] = TRUE]
    /\ UNCHANGED <<mainVars, conn, owner, pipe, kinds, wire, input, output, got,
                   serving, ioVars>>

ProviderStep(w) == ProviderNext(w) /\ UNCHANGED serverVars

-----------------------------------------------------------------------------
Init ==
    /\ InitIO
    /\ phase = "prepare" /\ made = 0 /\ counter = 0
    /\ conn = [c \in Clients |-> "none"] /\ owner = [c \in Clients |-> 0]
    /\ pipe = [w \in Workers |-> <<>>]
    /\ kinds = [c \in Clients |-> <<>>] /\ wire = [c \in Clients |-> <<>>]
    /\ left = [c \in Clients |-> FALSE]
    /\ input = [c \in Clients |-> <<>>] /\ output = [c \in Clients |-> <<>>]
    /\ got = [c \in Clients |-> <<>>]
    /\ serving = [w \in Workers |-> <<>>]
    /\ accepts = 0

MainNext == Startup \/ StartupFails \/ \E c \in Clients : Accept(c) \/ AcceptRefused(c)

WorkerNext(w) ==
    \/ HandleNotify(w)
    \/ w \in Sockets /\ (Invoke(w) \/ Reply(w))
    \/ \E c \in Clients : Read(w, c) \/ ReadUndecodable(w, c) \/ Error(w, c) \/ Flush(w, c)

ClientNext(c) ==
    \/ Connect(c) \/ SendBody(c) \/ Leave(c)
    \/ \E kind \in Kinds : SendHead(c, kind)

Next ==
    \/ MainNext
    \/ \E w \in Workers : WorkerNext(w)
    \/ \E w \in Sockets : ProviderStep(w)
    \/ \E c \in Clients : ClientNext(c)

Spec == Init /\ [][Next]_vars

\* The event loops go on.  Nothing is assumed about the order in which a worker takes its
\* events: with MaxAccepts connections the others cannot keep it busy for ever.
FairSpec ==
    /\ Spec
    /\ WF_vars(Startup \/ StartupFails)
    /\ \A c \in Clients : WF_vars(Accept(c) \/ AcceptRefused(c))
    /\ \A w \in Workers : WF_vars(WorkerNext(w))

-----------------------------------------------------------------------------
(***************************************************************************)
(* Properties.                                                              *)
(***************************************************************************)
Pieces == Nat \X {"head", "body"}
Responses == [msg : Nat, ok : BOOLEAN]

TypeOKServer ==
    /\ phase \in {"prepare", "launch", "running", "exited"} /\ made \in Workers
    /\ counter \in 0..CycleMax
    /\ conn \in [Clients -> {"none", "backlog", "notify", "open"}]
    /\ owner \in [Clients -> Workers] /\ pipe \in [Workers -> Seq(Clients)]
    /\ kinds \in [Clients -> Seq(Kinds)] /\ left \in [Clients -> BOOLEAN]
    /\ wire \in [Clients -> Seq(Pieces)] /\ input \in [Clients -> Seq(Pieces)]
    /\ output \in [Clients -> Seq(Responses)] /\ got \in [Clients -> Seq(Responses)]

\* Every variable has its type; a worker that serves is in a call, and a descriptor is in
\* the socket pair of its owner as long as it is announced and not taken.
TypeOK ==
    /\ TypeOKIO /\ TypeOKServer
    /\ \A w \in Workers : serving[w] # <<>> <=> w \in Sockets /\ at[w] # "idle"
    /\ \A c \in Clients : conn[c] = "notify" <=>
         \E i \in 1..Len(pipe[owner[c]]) : pipe[owner[c]][i] = c

Good(c) == {k \in 1..Len(kinds[c]) : kinds[c][k] = "good"}
Complete(c) == Len(kinds[c]) > 0 /\ ~Unfinished(c)
Pending(c) == Alive(c) /\ Complete(c) /\ Len(got[c]) < Cardinality(Good(c))

\* The responses carry no identifier, so the order is all a client has: what it has received
\* and what is in the output answers its good requests in the order they were sent, without
\* a gap and without a repetition, however the stream was cut and whatever was skipped.
AnsweredInOrder ==
    \A c \in Clients :
      LET all == got[c] \o output[c]
      IN \A i \in 1..Len(all) :
           /\ all[i].msg \in Good(c)
           /\ \A j \in 1..(i - 1) : all[j].msg < all[i].msg
           /\ \A k \in Good(c) : k < all[i].msg => \E j \in 1..(i - 1) : all[j].msg = k

\* A request is answered in the end, or the connection is gone, as long as no provider stops
\* in the middle of a response; a worker that repeats recv() on such a response serves none of
\* its clients.  This is for clients that wait for their answer: handle_buffer takes one
\* message per event, and the second of two that came together stays in the buffer until the
\* client sends more.
Served ==
    (\A w \in Sockets : []<>~Stalled(w)) =>
      \A c \in Clients \ Pipelining : []<>(~Pending(c) \/ phase = "exited")
=============================================================================
