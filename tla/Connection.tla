----------------------------- MODULE Connection -----------------------------
(***************************************************************************)
(* One client connection of the server (src/src/net/server.cpp, conn.hpp)  *)
(* on the epoll loop (src/src/net/reactor.hpp).  The loop waits for an     *)
(* event the connection is registered for, on_io reads until the socket is *)
(* empty, executes every complete command, writes until the socket is full *)
(* and closes the connection if it is in state Closing.  Each read(),      *)
(* parse() and write() call is a step, so the client and the kernel act    *)
(* between them.  epoll is level-triggered.                                *)
(*                                                                         *)
(* A command is two tokens on the wire, so that it can arrive in parts; a  *)
(* reply is two tokens, so that it can leave in parts.  Commands are       *)
(* numbered in the order the client sends them, and a kind says what the   *)
(* parser and the dispatcher make of one: "ok", "bad" (an error that       *)
(* leaves the bytes in read_buf), "blank" (an error that consumes them, as *)
(* an empty inline line does) or "throws" (dispatch throws, as EXPIRE with *)
(* no number does, and nothing above it catches).  Lengths in the protocol *)
(* are not negative.                                                       *)
(*                                                                         *)
(* The process can end in two ways: "thrown", by such a command, and       *)
(* "killed", by the SIGPIPE of a write to a broken pipe, which the program *)
(* does not ignore.                                                        *)
(***************************************************************************)
EXTENDS Integers, Sequences, SequencesExt

CONSTANTS MaxCmds,     \* bound on the commands of the client
          OutCap       \* tokens the kernel's send buffer holds

ASSUME ConnectionAssumption == MaxCmds \in Nat /\ OutCap \in Nat \ {0}

Kind == {"ok", "bad", "blank", "throws"}

VARIABLES
  \* the client and the kernel
  kind,        \* kinds of the commands sent so far
  half,        \* whether only the first half of the last one was sent
  inbox,       \* received by the kernel, not read by the server
  outbox,      \* written by the server, not read by the client
  received,    \* read by the client
  fin, reset,  \* the client has closed its side, or has vanished
  \* the Conn object and its registration
  conn,        \* "none", "open", "closed"
  state,       \* ConnState
  readBuf, writeBuf, writeOffset,
  interest,    \* events registered with epoll
  \* the event loop
  pc,          \* "poll", "read", "parse", "write", "check"; "thrown", "killed"
  events,      \* the events on_io was called with
  \* history
  executed,    \* numbers of the commands dispatched
  replies      \* every token appended to write_buf

client == <<kind, half, received, fin, reset>>
loop == <<pc, events>>
history == <<executed, replies>>
vars == <<client, inbox, outbox, conn, state, readBuf, writeBuf, writeOffset,
          interest, loop, history>>

Init == /\ kind = <<>> /\ half = FALSE
        /\ inbox = <<>> /\ outbox = <<>> /\ received = <<>>
        /\ fin = FALSE /\ reset = FALSE
        /\ conn = "none" /\ state = "Reading"
        /\ readBuf = <<>> /\ writeBuf = <<>> /\ writeOffset = 0
        /\ interest = {}
        /\ pc = "poll" /\ events = {}
        /\ executed = <<>> /\ replies = <<>>

-----------------------------------------------------------------------------
(***************************************************************************)
(* The client.                                                             *)
(***************************************************************************)
Down == pc \in {"thrown", "killed"}      \* the process has ended
Talking == conn # "closed" /\ ~fin /\ ~reset /\ ~Down

ClientSends(k) ==
  /\ Talking
  /\ \/ /\ ~half /\ Len(kind) < MaxCmds
        /\ kind' = Append(kind, k) /\ half' = TRUE
        /\ inbox' = Append(inbox, <<Len(kind) + 1, 1>>)
     \/ /\ half
        /\ half' = FALSE
        /\ inbox' = Append(inbox, <<Len(kind), 2>>)
        /\ UNCHANGED kind
  /\ UNCHANGED <<outbox, received, fin, reset, conn, state, readBuf, writeBuf,
                 writeOffset, interest, loop, history>>

ClientReads ==
  /\ outbox # <<>> /\ ~reset
  /\ received' = Append(received, Head(outbox))
  /\ outbox' = Tail(outbox)
  /\ UNCHANGED <<kind, half, inbox, fin, reset, conn, state, readBuf, writeBuf,
                 writeOffset, interest, loop, history>>

\* The client closes its side, or resets the connection; a client that has
\* closed altogether resets it when replies come in.
ClientLeaves ==
  /\ conn = "open" /\ ~reset /\ ~Down
  /\ \/ ~fin /\ fin' = TRUE /\ UNCHANGED reset
     \/ reset' = TRUE /\ UNCHANGED fin
  /\ UNCHANGED <<kind, half, inbox, outbox, received, conn, state, readBuf, writeBuf,
                 writeOffset, interest, loop, history>>

-----------------------------------------------------------------------------
(***************************************************************************)
(* The server.                                                             *)
(***************************************************************************)
OnAccept == /\ pc = "poll" /\ conn = "none"
            /\ conn' = "open"
            /\ interest' = {"IN"}
            /\ UNCHANGED <<client, inbox, outbox, state, readBuf, writeBuf, writeOffset,
                           loop, history>>

Readable == inbox # <<>> \/ fin \/ reset
Writable == Len(outbox) < OutCap \/ reset
Ready == {e \in interest : (e = "IN" /\ Readable) \/ (e = "OUT" /\ Writable)}

\* epoll_wait returns the connection and on_io starts.
Poll == /\ pc = "poll" /\ conn = "open"
        /\ Ready # {}
        /\ events' = Ready
        /\ pc' = IF "IN" \in Ready THEN "read" ELSE "write"
        /\ UNCHANGED <<client, inbox, outbox, conn, state, readBuf, writeBuf,
                       writeOffset, interest, history>>

\* on_io after do_read.
AfterRead == IF "OUT" \in events THEN "write" ELSE "check"

\* One read() of do_read.
Read ==
  /\ pc = "read"
  /\ \/ /\ inbox # <<>> /\ ~reset
        /\ readBuf' = readBuf \o inbox
        /\ inbox' = <<>>
        /\ UNCHANGED <<state, pc>>
     \/ /\ reset \/ (inbox = <<>> /\ fin)
        /\ state' = "Closing"
        /\ pc' = AfterRead
        /\ UNCHANGED <<inbox, readBuf>>
     \/ /\ inbox = <<>> /\ ~fin /\ ~reset
        /\ pc' = "parse"
        /\ UNCHANGED <<inbox, readBuf, state>>
  /\ UNCHANGED <<client, outbox, conn, writeBuf, writeOffset, interest, events, history>>

Unsent == SubSeq(writeBuf, writeOffset + 1, Len(writeBuf))

Incomplete == Len(readBuf) < 2
FrontKind == kind[Head(readBuf)[1]]
Rest == SubSeq(readBuf, 3, Len(readBuf))

\* Fault: parsing goes on behind a malformed array.
AfterErrorConsumed == Rest
AfterError == IF FrontKind = "blank" THEN Rest ELSE readBuf

Reply(cmd) == <<<<cmd, 1>>, <<cmd, 2>>>>
ErrorReply == <<<<0, 1>>, <<0, 2>>>>

\* Append to write_buf.
Emit(tokens) == /\ writeBuf' = writeBuf \o tokens
                /\ replies' = replies \o tokens

\* Fault: the connection is not registered for EPOLLOUT.
SettleUnarmed(s, pending) == /\ state' = IF pending THEN "Writing" ELSE s
                             /\ UNCHANGED interest

\* The end of try_parse: output that is pending overrides the state s, be it
\* Closing.
Settle(s, pending) ==
  \/ pending /\ state' = "Writing" /\ interest' = {"IN", "OUT"}
  \/ ~pending /\ state' = s /\ UNCHANGED interest

\* One turn of try_parse.
Parse ==
  /\ pc = "parse"
  /\ \/ /\ Incomplete
        /\ Settle(state, Unsent # <<>>)
        /\ pc' = AfterRead
        /\ UNCHANGED <<readBuf, writeBuf, history>>
     \/ /\ ~Incomplete /\ FrontKind = "ok"
        /\ readBuf' = Rest
        /\ Emit(Reply(Head(readBuf)[1]))
        /\ executed' = Append(executed, Head(readBuf)[1])
        /\ UNCHANGED <<state, interest, pc>>
     \/ /\ ~Incomplete /\ FrontKind = "throws"
        /\ pc' = "thrown"
        /\ UNCHANGED <<readBuf, writeBuf, state, interest, history>>
     \/ /\ ~Incomplete /\ FrontKind \in {"bad", "blank"}
        /\ readBuf' = AfterError
        /\ Emit(ErrorReply)
        /\ Settle("Closing", TRUE)
        /\ pc' = AfterRead
        /\ UNCHANGED executed
  /\ UNCHANGED <<client, inbox, outbox, conn, writeOffset, events>>

\* Fault: write_buf is cleared after a partial write.
SentClearsAll(n) == writeBuf' = <<>> /\ writeOffset' = 0

\* write_offset moves on; the buffer is cleared once all of it is out.
Sent(n) == IF writeOffset + n = Len(writeBuf)
           THEN writeBuf' = <<>> /\ writeOffset' = 0
           ELSE writeOffset' = writeOffset + n /\ UNCHANGED writeBuf

\* Fault: EPOLLOUT stays registered.
DrainedStillArmed == state' = (IF state = "Closing" THEN state ELSE "Reading")
                     /\ UNCHANGED interest

\* The end of do_write when everything is out.
Drained == \/ state = "Closing" /\ UNCHANGED <<state, interest>>
           \/ state # "Closing" /\ state' = "Reading" /\ interest' = {"IN"}

\* A reset is reported as an error by the first call after it.  To write later,
\* do_read having met it, or behind the end of the client's stream, is EPIPE.
BrokenPipe == reset /\ (fin \/ state = "Closing")

\* One write() of do_write.
Write ==
  /\ pc = "write"
  /\ \/ /\ Unsent = <<>>
        /\ Drained
        /\ pc' = "check"
        /\ UNCHANGED <<outbox, writeBuf, writeOffset>>
     \/ /\ Unsent # <<>> /\ ~reset
        /\ \E n \in 1 .. Len(Unsent) :
             /\ Len(outbox) + n <= OutCap
             /\ outbox' = outbox \o SubSeq(Unsent, 1, n)
             /\ Sent(n)
        /\ UNCHANGED <<state, interest, pc>>
     \/ /\ Unsent # <<>> /\ ~reset /\ Len(outbox) = OutCap
        /\ pc' = "check"
        /\ UNCHANGED <<outbox, writeBuf, writeOffset, state, interest>>
     \/ /\ Unsent # <<>> /\ reset /\ ~BrokenPipe
        /\ state' = "Closing"
        /\ pc' = "check"
        /\ UNCHANGED <<outbox, writeBuf, writeOffset, interest>>
     \/ /\ Unsent # <<>> /\ BrokenPipe
        /\ pc' = "killed"
        /\ UNCHANGED <<outbox, writeBuf, writeOffset, state, interest>>
  /\ UNCHANGED <<client, inbox, conn, readBuf, events, history>>

\* Fault: a connection in state Closing is kept.
MustCloseNever == FALSE
MustClose == state = "Closing"

\* The end of on_io; close_conn destroys the Conn.
Check ==
  /\ pc = "check"
  /\ pc' = "poll" /\ events' = {}
  /\ \/ /\ MustClose
        /\ conn' = "closed"
        /\ interest' = {}
        /\ readBuf' = <<>> /\ writeBuf' = <<>> /\ writeOffset' = 0
     \/ /\ ~MustClose
        /\ UNCHANGED <<conn, interest, readBuf, writeBuf, writeOffset>>
  /\ UNCHANGED <<client, inbox, outbox, state, history>>

Server == OnAccept \/ Poll \/ Read \/ Parse \/ Write \/ Check

Next == (\E k \in Kind : ClientSends(k)) \/ ClientReads \/ ClientLeaves \/ Server

Spec == Init /\ [][Next]_vars

\* The loop runs on as long as there is something to do, and the client reads
\* its replies; it is free to stop sending.
FairSpec == Spec /\ WF_vars(Server) /\ WF_vars(ClientReads)
-----------------------------------------------------------------------------
\* Whatever the sizes of the writes, the client gets the replies byte for byte
\* in the order they were produced; while the connection is open what it has
\* not got yet is still there, and write_buf holds no byte that has been sent
\* once all of it is out (server.cpp:116,124-137).
RepliesIntact ==
  /\ writeOffset < Len(writeBuf) \/ (writeBuf = <<>> /\ writeOffset = 0)
  /\ IsPrefix(received \o outbox, replies)
  /\ conn = "open" => received \o outbox \o Unsent = replies

Fatal == {"bad", "throws"}

\* Commands are executed in the order they were sent, each once, and none is
\* executed before all correct ones sent earlier; nothing behind a "bad" one, or
\* one that throws, is executed at all (server.cpp:83-117).
ExecutedInOrder ==
  \A p \in 1 .. Len(executed) :
    /\ kind[executed[p]] = "ok"
    /\ \A c \in 1 .. executed[p] - 1 :
         /\ kind[c] \notin Fatal
         /\ kind[c] = "ok" => \E q \in 1 .. p - 1 : executed[q] = c
    /\ \A q \in 1 .. p - 1 : executed[q] < executed[p]

\* When the loop waits, EPOLLOUT is registered exactly if output is pending:
\* no reply is forgotten, and an idle connection does not keep the
\* level-triggered loop spinning (server.cpp:118-121,138-141).
InterestExact ==
  (pc = "poll" /\ conn = "open") => ("OUT" \in interest <=> Unsent # <<>>)

\* Every correct command that has arrived completely is answered in the end if
\* the client stays, no command before it was malformed and none behind it ends
\* the process before the reply is out.
Arrived(c) == /\ c \in 1 .. Len(kind)
              /\ \A d \in 1 .. c : kind[d] = "ok"
              /\ c < Len(kind) \/ ~half
Answered(c) == \E p \in 1 .. Len(received) : received[p] = <<c, 2>>

CommandsAnswered ==
  \A c \in 1 .. MaxCmds : Arrived(c) ~> (Answered(c) \/ fin \/ reset \/ pc = "thrown")

\* A connection whose client has gone is closed and its Conn freed, whatever
\* state it was in, with two exceptions: a command it has sent throws, or it has
\* reset the connection with replies left to write, and then the write after the
\* failed read kills the server (server.cpp:62-64,126).
HangupCloses ==
  (fin \/ reset) ~> \/ conn = "closed" \/ pc = "thrown"
                    \/ pc = "killed" /\ reset /\ Unsent # <<>>
=============================================================================
