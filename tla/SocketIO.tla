------------------------------ MODULE SocketIO ------------------------------
(***************************************************************************)
(* The bytes of a call: socket_send and socket_receive (soaagent/util.c)    *)
(* under send_message and receive_message (soaagent/protocol.c), for a set  *)
(* of sockets with one call at a time on each.                              *)
(*                                                                          *)
(* send() and recv() transfer any part of what they are asked for.  EINTR   *)
(* and EAGAIN, on which the code sleeps and calls again, change nothing and *)
(* are stuttering steps: a receiver with nothing to read is in its loop.    *)
(***************************************************************************)
EXTENDS Integers, FiniteSets

CONSTANTS
    Sockets,
    RequestSize,   \* bytes of a request
    HeaderSize,    \* sizeof(message_header)
    BodySizes,     \* lengths of a response's body that the provider may choose
    RetryTimes,    \* RETRY_TIMES
    MaxLeft        \* bound: bytes that earlier answers leave on a connection

ASSUME TransferConfig ==
    /\ RequestSize \in Nat \ {0} /\ HeaderSize \in Nat \ {0} /\ RetryTimes \in Nat
    /\ MaxLeft \in Nat
    /\ BodySizes \subseteq Nat /\ BodySizes # {} /\ IsFiniteSet(BodySizes)

VARIABLES
    at,       \* where the call is: idle, send, header, body, done, failed
    ready,    \* select() has returned: recv() is being repeated
    need,     \* bytes the current transfer still needs
    retry,    \* attempts left
    arrived,  \* bytes of the request the provider has
    before,   \* bytes of the answers to earlier requests that the stream brings first
    length,   \* length of the body the provider answers with
    written,  \* bytes the provider has written, the earlier answers included
    unread,   \* those the agent has not read
    shut,     \* the provider has closed its end
    spoiled   \* a failed call has put its connection back into the pool

ioVars ==
    <<at, ready, need, retry, arrived, before, length, written, unread, shut, spoiled>>

\* A socket on which nothing was read or sent in this call, with what it still carries of
\* earlier ones; it is down when the connection failed.
Wire(s, earlier, down) ==
    /\ before' = [before EXCEPT ![s] = earlier]
    /\ arrived' = [arrived EXCEPT ![s] = 0] /\ written' = [written EXCEPT ![s] = 0]
    /\ unread' = [unread EXCEPT ![s] = 0] /\ shut' = [shut EXCEPT ![s] = down]
    /\ length' = [length EXCEPT ![s] = 0]

\* invoke_service gets to its loop with a connection of the pool.  A call that failed has put
\* its own back as it was, with a late or a half-read answer to come on it, and any later
\* call may get it.  What is in the stream already, and that it is closed already, are the
\* provider's steps before the first Send.
StartCall(s) ==
    /\ at[s] = "idle"
    /\ at' = [at EXCEPT ![s] = "send"]
    /\ need' = [need EXCEPT ![s] = RequestSize]
    /\ retry' = [retry EXCEPT ![s] = RetryTimes]
    /\ \E earlier \in IF spoiled THEN 0..MaxLeft ELSE {0} : Wire(s, earlier, FALSE)
    /\ UNCHANGED <<ready, spoiled>>

Send(s) ==
    /\ at[s] = "send" /\ ~shut[s]
    /\ \E n \in 1..need[s] :
         /\ arrived' = [arrived EXCEPT ![s] = @ + n]
         /\ IF n = need[s]
            THEN /\ at' = [at EXCEPT ![s] = "header"]
                 /\ need' = [need EXCEPT ![s] = HeaderSize]
            ELSE need' = [need EXCEPT ![s] = @ - n] /\ UNCHANGED at
    /\ UNCHANGED <<ready, retry, before, length, written, unread, shut, spoiled>>

SendFails(s) ==
    /\ at[s] = "send" /\ shut[s]
    /\ at' = [at EXCEPT ![s] = "failed"]
    /\ UNCHANGED <<ready, need, retry, arrived, before, length, written, unread, shut, spoiled>>

Receiving(s) == at[s] \in {"header", "body"}

\* select(): there is something to read, an end of file included.
Select(s) ==
    /\ Receiving(s) /\ ~ready[s]
    /\ unread[s] > 0 \/ shut[s]
    /\ ready' = [ready EXCEPT ![s] = TRUE]
    /\ UNCHANGED <<at, need, retry, arrived, before, length, written, unread, shut, spoiled>>

\* Mutant: the timeout of the socket ends the loop around recv() too.
TimeoutAnywhere(s) ==
    /\ Receiving(s) /\ unread[s] = 0 /\ ~shut[s]
    /\ at' = [at EXCEPT ![s] = "failed"]
    /\ ready' = [ready EXCEPT ![s] = FALSE]
    /\ UNCHANGED <<need, retry, arrived, before, length, written, unread, shut, spoiled>>

\* Three seconds without a byte.
Timeout(s) ==
    /\ Receiving(s) /\ ~ready[s] /\ unread[s] = 0 /\ ~shut[s]
    /\ at' = [at EXCEPT ![s] = "failed"]
    /\ UNCHANGED <<ready, need, retry, arrived, before, length, written, unread, shut, spoiled>>

\* The length that the header just read announces: any, when it is made of the bytes of an
\* earlier answer, which may be those of its body.
Announced(s) == IF before[s] = 0 THEN {length[s]} ELSE BodySizes \cup {0}

\* The check sum and the identifier: an earlier answer has another identifier, and its bytes
\* from the middle on have a wrong check sum.
Results(s) == IF before[s] = 0 THEN {"done", "failed"} ELSE {"failed"}

\* The part is complete: the body follows a header that announces one, and the checks follow
\* the last part.
PartDone(s) ==
    /\ ready' = [ready EXCEPT ![s] = FALSE]
    /\ \/ \E size \in Announced(s) \ {0} :
            /\ at[s] = "header"
            /\ at' = [at EXCEPT ![s] = "body"]
            /\ need' = [need EXCEPT ![s] = size]
       \/ /\ at[s] = "header" => 0 \in Announced(s)
          /\ \E result \in Results(s) : at' = [at EXCEPT ![s] = result]
          /\ need' = [need EXCEPT ![s] = 0]

\* Mutant: a part is taken for complete after one recv().
RecvOnce(s) ==
    /\ Receiving(s) /\ ready[s]
    /\ \E n \in 1..need[s] :
         /\ n <= unread[s]
         /\ unread' = [unread EXCEPT ![s] = @ - n]
         /\ PartDone(s)
    /\ UNCHANGED <<retry, arrived, before, length, written, shut, spoiled>>

Recv(s) ==
    /\ Receiving(s) /\ ready[s]
    /\ \E n \in 1..need[s] :
         /\ n <= unread[s]
         /\ unread' = [unread EXCEPT ![s] = @ - n]
         /\ IF n = need[s] THEN PartDone(s)
            ELSE need' = [need EXCEPT ![s] = @ - n] /\ UNCHANGED <<at, ready>>
    /\ UNCHANGED <<retry, arrived, before, length, written, shut, spoiled>>

RecvShut(s) ==
    /\ Receiving(s) /\ ready[s] /\ unread[s] = 0 /\ shut[s]
    /\ at' = [at EXCEPT ![s] = "failed"]
    /\ ready' = [ready EXCEPT ![s] = FALSE]
    /\ UNCHANGED <<need, retry, arrived, before, length, written, unread, shut, spoiled>>

\* The loop of invoke_service: the request is sent again on a new socket, if it connects.
Again(s) ==
    /\ at[s] = "failed" /\ retry[s] > 0
    /\ retry' = [retry EXCEPT ![s] = @ - 1]
    /\ at' = [at EXCEPT ![s] = "send"]
    /\ need' = [need EXCEPT ![s] = RequestSize]
    /\ \E down \in BOOLEAN : Wire(s, 0, down)
    /\ UNCHANGED <<ready, spoiled>>

\* invoke_service puts the connection back, after a failure too, and returns: the socket
\* has no connection until the next call.
EndCall(s) ==
    /\ at[s] = "done" \/ (at[s] = "failed" /\ retry[s] = 0)
    /\ at' = [at EXCEPT ![s] = "idle"]
    /\ need' = [need EXCEPT ![s] = 0] /\ retry' = [retry EXCEPT ![s] = 0]
    /\ Wire(s, 0, FALSE)
    /\ spoiled' = (spoiled \/ at[s] = "failed")
    /\ UNCHANGED ready

(***************************************************************************)
(* The provider: it ends its earlier answers and answers a complete request,*)
(* byte by byte, and may stop or close at any point.                        *)
(***************************************************************************)
InCall(s) == at[s] \in {"send", "header", "body"}

Writes(s) ==
    /\ InCall(s) /\ ~shut[s]
    /\ written' = [written EXCEPT ![s] = @ + 1]
    /\ unread' = [unread EXCEPT ![s] = @ + 1]
    /\ UNCHANGED <<at, ready, need, retry, arrived, before, shut, spoiled>>

RespondLate(s) == written[s] < before[s] /\ Writes(s) /\ UNCHANGED length

Respond(s) ==
    /\ arrived[s] = RequestSize /\ written[s] >= before[s]
    /\ IF written[s] = before[s] THEN \E n \in BodySizes : length' = [length EXCEPT ![s] = n]
       ELSE written[s] < before[s] + HeaderSize + length[s] /\ UNCHANGED length
    /\ Writes(s)

Close(s) ==
    /\ InCall(s) /\ ~shut[s]
    /\ shut' = [shut EXCEPT ![s] = TRUE]
    /\ UNCHANGED <<at, ready, need, retry, arrived, before, length, written, unread, spoiled>>

-----------------------------------------------------------------------------
InitIO ==
    /\ at = [s \in Sockets |-> "idle"] /\ ready = [s \in Sockets |-> FALSE]
    /\ need = [s \in Sockets |-> 0] /\ retry = [s \in Sockets |-> 0]
    /\ arrived = [s \in Sockets |-> 0] /\ length = [s \in Sockets |-> 0]
    /\ before = [s \in Sockets |-> 0] /\ spoiled = FALSE
    /\ written = [s \in Sockets |-> 0] /\ unread = [s \in Sockets |-> 0]
    /\ shut = [s \in Sockets |-> FALSE]

\* What the thread of the call does; starting and ending it is up to the caller.
CallNext(s) ==
    \/ Send(s) \/ SendFails(s)
    \/ Select(s) \/ Timeout(s) \/ Recv(s) \/ RecvShut(s)
    \/ Again(s)

ProviderNext(s) == RespondLate(s) \/ Respond(s) \/ Close(s)

-----------------------------------------------------------------------------
(***************************************************************************)
(* Properties.                                                              *)
(***************************************************************************)

TypeOKIO ==
    /\ at \in [Sockets -> {"idle", "send", "header", "body", "done", "failed"}]
    /\ ready \in [Sockets -> BOOLEAN] /\ shut \in [Sockets -> BOOLEAN]
    /\ need \in [Sockets -> Nat] /\ arrived \in [Sockets -> 0..RequestSize]
    /\ retry \in [Sockets -> 0..RetryTimes]
    /\ before \in [Sockets -> 0..MaxLeft] /\ spoiled \in BOOLEAN
    /\ length \in [Sockets -> BodySizes \cup {0}]
    /\ written \in [Sockets -> Nat] /\ unread \in [Sockets -> Nat]

\* However the bytes are cut, receive_message takes exactly one message off the stream: a
\* call that succeeds leaves the stream at the start of the next message.
WholeMessage ==
    \A s \in Sockets : at[s] = "done" =>
      written[s] - unread[s] = HeaderSize + length[s]

\* The timeout guards the first byte of the header and of the body only.  A call that gives
\* up on an open connection has therefore read the header entirely or not at all, and the
\* body too: what is left in the stream is a whole message, a whole body or, when only the
\* check sum was wrong, nothing.  The exception is the first attempt on a connection that an
\* earlier failed call has put back with bytes to come on it: it reads those as a header, and
\* may give up in the middle of the earlier answer or of its own.
FailsBetweenParts ==
    \A s \in Sockets : at[s] = "failed" /\ ~shut[s] /\ before[s] = 0 =>
      written[s] - unread[s] \in {0, HeaderSize, HeaderSize + length[s]}

\* The caller repeats recv() on a response of which the rest does not come: nothing but the
\* provider can end this.
Stalled(s) == Receiving(s) /\ ready[s] /\ unread[s] = 0 /\ ~shut[s]
=============================================================================
