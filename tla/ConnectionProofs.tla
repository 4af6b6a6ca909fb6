-------------------------- MODULE ConnectionProofs --------------------------
(***************************************************************************)
(* One connection, for any number of commands, any sizes of reads and      *)
(* writes and any send buffer: replies arrive intact and in order,         *)
(* commands are executed in order and once, and EPOLLOUT is registered     *)
(* exactly while output is pending, up to the end of the process, should a *)
(* command throw or a write meet a broken pipe.                            *)
(***************************************************************************)
EXTENDS Connection, SequenceTheorems, TLAPS

Token == Nat \X {1, 2}

Buffers == /\ inbox \in Seq(Token) /\ readBuf \in Seq(Token)
           /\ outbox \in Seq(Token) /\ received \in Seq(Token)
           /\ writeBuf \in Seq(Token) /\ replies \in Seq(Token)

Control == /\ conn \in {"none", "open", "closed"}
           /\ state \in {"Reading", "Writing", "Closing"}
           /\ interest \in SUBSET {"IN", "OUT"}
           /\ pc \in {"poll", "read", "parse", "write", "check", "thrown", "killed"}
           /\ events \in SUBSET {"IN", "OUT"}

Numbers == kind \in Seq(Kind) /\ writeOffset \in Nat /\ executed \in Seq(Nat)

TypeOK == Buffers /\ Control /\ Numbers

-----------------------------------------------------------------------------
(***************************************************************************)
(* Sequences taken apart and put together again.                           *)
(***************************************************************************)
\* The client reads one token.
LEMMA MoveHead ==
  ASSUME NEW S, NEW s \in Seq(S), NEW t \in Seq(S), t # <<>>
  PROVE  Append(s, Head(t)) \o Tail(t) = s \o t
OBVIOUS

\* What a buffer holds behind an offset.
LEMMA SuffixFacts ==
  ASSUME NEW S, NEW w \in Seq(S), NEW o \in 0 .. Len(w)
  PROVE  LET u == SubSeq(w, o + 1, Len(w))
         IN  /\ u \in Seq(S) /\ Len(u) = Len(w) - o
             /\ \A k \in 1 .. Len(w) - o : u[k] = w[o + k]
OBVIOUS

\* What is left of a buffer that grows, grows with it.
LEMMA SuffixGrows ==
  ASSUME NEW S, NEW s \in Seq(S), NEW t \in Seq(S), NEW n \in 0 .. Len(s)
  PROVE  SubSeq(s \o t, n + 1, Len(s \o t)) = SubSeq(s, n + 1, Len(s)) \o t
<1> DEFINE l == SubSeq(s \o t, n + 1, Len(s \o t))
           r == SubSeq(s, n + 1, Len(s)) \o t
<1>1. l \in Seq(S) /\ r \in Seq(S)
  OBVIOUS
<1>2. Len(l) = Len(r) /\ Len(l) = Len(s) + Len(t) - n
  OBVIOUS
<1>3. ASSUME NEW k \in 1 .. Len(s) + Len(t) - n PROVE l[k] = r[k]
  OBVIOUS
<1> HIDE DEF l, r
<1>4. l = r
  BY <1>1, <1>2, <1>3, SeqEqual
<1> QED BY <1>4 DEF l, r

\* A write takes the first n tokens of what is left.
LEMMA SuffixSplit ==
  ASSUME NEW S, NEW w \in Seq(S), NEW o \in 0 .. Len(w),
         NEW n \in 0 .. Len(w) - o
  PROVE  LET u == SubSeq(w, o + 1, Len(w))
         IN  u = SubSeq(u, 1, n) \o SubSeq(w, o + n + 1, Len(w))
<1> DEFINE u == SubSeq(w, o + 1, Len(w))
<1>0. u \in Seq(S) /\ Len(u) = Len(w) - o /\ \A k \in 1 .. Len(w) - o : u[k] = w[o + k]
  BY SuffixFacts
<1> HIDE DEF u
<1> DEFINE a == SubSeq(u, 1, n)
           b == SubSeq(w, o + n + 1, Len(w))
<1>1. a \in Seq(S) /\ Len(a) = n /\ \A k \in 1 .. n : a[k] = w[o + k]
  BY <1>0
<1>2. /\ b \in Seq(S) /\ Len(b) = Len(w) - o - n
      /\ \A k \in 1 .. Len(w) - o - n : b[k] = w[o + n + k]
  <2> DEFINE m == o + n
  <2>1. m \in 0 .. Len(w) /\ b = SubSeq(w, m + 1, Len(w)) /\ Len(w) - m = Len(w) - o - n
    OBVIOUS
  <2> HIDE DEF m, b
  <2>2. /\ b \in Seq(S) /\ Len(b) = Len(w) - m
        /\ \A k \in 1 .. Len(w) - m : b[k] = w[m + k]
    BY <2>1, SuffixFacts
  <2> QED BY <2>1, <2>2 DEF m
<1> HIDE DEF a, b
<1>3. /\ a \o b \in Seq(S) /\ Len(a \o b) = Len(w) - o
      /\ \A k \in 1 .. Len(w) - o : (a \o b)[k] = IF k <= n THEN a[k] ELSE b[k - n]
  <2>1. n + (Len(w) - o - n) = Len(w) - o
    OBVIOUS
  <2> QED BY <1>1, <1>2, <2>1, ConcatProperties
<1>4. ASSUME NEW k \in 1 .. Len(w) - o PROVE (a \o b)[k] = u[k]
  <2>0. k \in Int /\ n \in Int /\ 1 <= k
    OBVIOUS
  <2>1. CASE k <= n
    <3>1. k \in 1 .. n
      BY <2>0, <2>1
    <3>2. (a \o b)[k] = a[k]
      BY <1>3, <2>1
    <3>3. a[k] = w[o + k]
      BY <1>1, <3>1
    <3>4. u[k] = w[o + k]
      BY <1>0
    <3> QED BY <3>2, <3>3, <3>4
  <2>2. CASE k > n
    <3>1. k - n \in 1 .. Len(w) - o - n /\ o + n + (k - n) = o + k
      BY <2>2
    <3>2. (a \o b)[k] = b[k - n]
      BY <1>3, <2>2
    <3>3. b[k - n] = w[o + n + (k - n)]
      BY <1>2, <3>1
    <3> QED BY <1>0, <3>1, <3>2, <3>3
  <2>3. k <= n \/ k > n
    BY <2>0
  <2> QED BY <2>1, <2>2, <2>3, Zenon
<1>5. u = a \o b
  BY <1>0, <1>3, <1>4, SeqEqual
<1> QED BY <1>5 DEF u, a, b

\* Lengths add up under concatenation.
LEMMA LenConcat == \A s, t \in Seq(Token) : Len(s \o t) = Len(s) + Len(t)
BY ConcatProperties

\* Concatenation associates, so a write behind a partial read keeps the order.
LEMMA TokensAssociate ==
  \A r, s, t \in Seq(Token) : (r \o s) \o t = r \o (s \o t)
BY ConcatAssociative

\* What is appended leaves what was there as a prefix.
LEMMA PrefixOfConcat ==
  ASSUME NEW S, NEW s \in Seq(S), NEW t \in Seq(S)
  PROVE  IsPrefix(s, s \o t)
BY DEF IsPrefix

-----------------------------------------------------------------------------
\* A connection that is not accepted yet is well typed.
LEMMA TypeInit == Init => TypeOK
<1> SUFFICES ASSUME Init PROVE TypeOK
  OBVIOUS
<1>1. Buffers /\ Numbers
  BY EmptySeq DEF Init, Buffers, Numbers
<1>2. Control
  BY DEF Init, Control
<1> QED BY <1>1, <1>2 DEF TypeOK

\* What Parse appends and keeps.
LEMMA ParseTypes ==
  ASSUME TypeOK
  PROVE  /\ \A c \in Nat : Reply(c) \in Seq(Token) /\ Len(Reply(c)) = 2
         /\ ErrorReply \in Seq(Token) /\ Len(ErrorReply) = 2
         /\ ~Incomplete => Head(readBuf)[1] \in Nat /\ Rest \in Seq(Token)
         /\ Len(readBuf) \in Nat
<1>1. ASSUME NEW c \in Nat PROVE Reply(c) \in Seq(Token) /\ Len(Reply(c)) = 2
  <2>1. <<c, 1>> \in Token /\ <<c, 2>> \in Token
    BY DEF Token
  <2> QED BY <2>1 DEF Reply
<1>2. ErrorReply \in Seq(Token) /\ Len(ErrorReply) = 2
  <2>1. <<0, 1>> \in Token /\ <<0, 2>> \in Token
    BY DEF Token
  <2> QED BY <2>1 DEF ErrorReply
<1>3. readBuf \in Seq(Token) /\ Len(readBuf) \in Nat
  BY DEF TypeOK, Buffers
<1>4. ASSUME ~Incomplete PROVE Head(readBuf)[1] \in Nat /\ Rest \in Seq(Token)
  <2>1. Len(readBuf) >= 2
    BY <1>3, <1>4 DEF Incomplete
  <2>2. readBuf[1] \in Token /\ Head(readBuf) = readBuf[1]
    BY <1>3, <2>1
  <2>3. Head(readBuf)[1] \in Nat
    BY <2>2 DEF Token
  <2>4. Rest \in Seq(Token)
    BY <1>3, <2>1 DEF Rest
  <2> QED BY <2>3, <2>4
<1> QED BY <1>1, <1>2, <1>3, <1>4

\* What Write moves.
LEMMA UnsentFacts ==
  ASSUME TypeOK
  PROVE  /\ Unsent \in Seq(Token)
         /\ writeOffset <= Len(writeBuf) => Len(Unsent) = Len(writeBuf) - writeOffset
         /\ \A n \in 1 .. Len(Unsent) : SubSeq(Unsent, 1, n) \in Seq(Token)
<1>1. writeBuf \in Seq(Token) /\ writeOffset \in Nat /\ Len(writeBuf) \in Nat
  BY DEF TypeOK, Buffers, Numbers
<1>2. Unsent \in Seq(Token) /\ (writeOffset <= Len(writeBuf) => Len(Unsent) = Len(writeBuf) - writeOffset)
  BY <1>1 DEF Unsent
<1>3. ASSUME NEW u \in Seq(Token), NEW n \in 1 .. Len(u) PROVE SubSeq(u, 1, n) \in Seq(Token)
  OBVIOUS
<1> QED BY <1>2, <1>3

\* Every handler keeps buffers, cursors and registration well typed.
LEMMA TypeNext == TypeOK /\ [Next]_vars => TypeOK'
<1> SUFFICES ASSUME TypeOK, [Next]_vars PROVE Buffers' /\ Control' /\ Numbers'
  BY DEF TypeOK
<1>0. /\ <<>> \in Seq(Token) /\ Buffers /\ Control /\ Numbers
      /\ Len(kind) \in Nat
  BY EmptySeq DEF TypeOK, Numbers
<1>00. /\ \A s, t \in Seq(Token) : s \o t \in Seq(Token)
       /\ \A s \in Seq(Token), t \in Token : Append(s, t) \in Seq(Token)
       /\ \A s \in Seq(Nat), t \in Nat : Append(s, t) \in Seq(Nat)
       /\ \A s \in Seq(Kind), t \in Kind : Append(s, t) \in Seq(Kind)
  BY ConcatProperties, AppendProperties
<1>1. ASSUME NEW k \in Kind, ClientSends(k) PROVE Buffers' /\ Control' /\ Numbers'
  <2>1. \A c \in Nat : <<c, 1>> \in Token /\ <<c, 2>> \in Token
    BY DEF Token
  <2>2. inbox' \in Seq(Token)
    <3>1. <<Len(kind) + 1, 1>> \in Token /\ <<Len(kind), 2>> \in Token
      <4>1. Len(kind) + 1 \in Nat
        BY <1>0
      <4> QED BY <1>0, <2>1, <4>1, Zenon
    <3> QED BY <1>0, <1>00, <1>1, <3>1, Zenon DEF ClientSends, Buffers
  <2>3. Buffers' /\ Control'
    BY <1>0, <1>1, <2>2 DEF ClientSends, Buffers, Control, loop, history
  <2>4. Numbers'
    BY <1>0, <1>00, <1>1, Zenon DEF ClientSends, Numbers, history
  <2> QED BY <2>3, <2>4
<1>2. CASE ClientReads
  BY <1>0, <1>2 DEF ClientReads, loop, history, Buffers, Control, Numbers
<1>3. CASE ClientLeaves
  BY <1>0, <1>3 DEF ClientLeaves, loop, history, Buffers, Control, Numbers
<1>4. CASE OnAccept
  BY <1>0, <1>4 DEF OnAccept, client, loop, history, Buffers, Control, Numbers
<1>5. CASE Poll
  <2>1. Control'
    BY <1>0, <1>5 DEF Poll, Ready, Control
  <2> QED BY <1>0, <1>5, <2>1 DEF Poll, client, history, Buffers, Numbers
<1>6. CASE Read
  <2>1. Control'
    BY <1>0, <1>6 DEF Read, AfterRead, Control
  <2>2. Buffers'
    BY <1>0, <1>00, <1>6, Zenon DEF Read, client, history, Buffers
  <2> QED BY <1>0, <1>6, <2>1, <2>2 DEF Read, client, history, Numbers
<1>7. CASE Parse
  <2>1. Control'
    BY <1>0, <1>7 DEF Parse, Settle, AfterRead, Control
  <2>2. readBuf' \in Seq(Token) /\ executed' \in Seq(Nat)
    BY <1>0, <1>00, <1>7, ParseTypes, Zenon DEF Parse, AfterError, history, Buffers, Numbers
  <2>3. writeBuf' \in Seq(Token) /\ replies' \in Seq(Token)
    BY <1>0, <1>00, <1>7, ParseTypes, Zenon DEF Parse, Emit, history, Buffers
  <2> QED BY <1>0, <1>7, <2>1, <2>2, <2>3 DEF Parse, client, Buffers, Numbers
<1>8. CASE Write
  <2>1. Control'
    BY <1>0, <1>8 DEF Write, Drained, Control
  <2>2. outbox' \in Seq(Token)
    BY <1>0, <1>00, <1>8, UnsentFacts, Zenon DEF Write, Buffers
  <2>3. writeBuf' \in Seq(Token) /\ writeOffset' \in Nat
    <3>1. \A n \in 1 .. Len(Unsent) : 0 \in Nat /\ writeOffset + n \in Nat
      BY <1>0 DEF Numbers
    <3> QED BY <1>0, <1>8, <3>1, Zenon DEF Write, Sent, Buffers, Numbers
  <2> QED BY <1>0, <1>8, <2>1, <2>2, <2>3 DEF Write, client, history, Buffers, Numbers
<1>9. CASE Check
  <2>1. Control'
    BY <1>0, <1>9 DEF Check, Control
  <2>2. Buffers'
    BY <1>0, <1>9 DEF Check, client, history, Buffers
  <2>3. Numbers'
    BY <1>0, <1>9 DEF Check, client, history, Numbers
  <2> QED BY <2>1, <2>2, <2>3
<1>10. CASE UNCHANGED vars
  BY <1>0, <1>10 DEF vars, client, loop, history, Buffers, Control, Numbers
<1> QED
  BY <1>1, <1>2, <1>3, <1>4, <1>5, <1>6, <1>7, <1>8, <1>9, <1>10 DEF Next, Server

-----------------------------------------------------------------------------
(***************************************************************************)
(* Replies.  The ledger of tokens: what the client has read, what the      *)
(* kernel holds and what write_buf has left is everything ever appended.   *)
(***************************************************************************)
OffsetIn == writeOffset < Len(writeBuf) \/ (writeBuf = <<>> /\ writeOffset = 0)
Ledger == conn # "closed" => (received \o outbox) \o Unsent = replies
GotPrefix == IsPrefix(received \o outbox, replies)
LoopOpen == pc # "poll" => conn = "open"
Pending == writeBuf # <<>>

ReplyInv == TypeOK /\ LoopOpen /\ OffsetIn /\ GotPrefix /\ Ledger

\* Before the first read nothing has been replied and nothing received.
LEMMA ReplyInvInit == Init => ReplyInv
<1> SUFFICES ASSUME Init PROVE ReplyInv
  OBVIOUS
<1>1. TypeOK /\ LoopOpen /\ OffsetIn
  BY TypeInit DEF Init, LoopOpen, OffsetIn
<1>2. <<>> \in Seq(Token) /\ <<>> \o <<>> = <<>> /\ SubSeq(<<>>, 1, 0) = <<>>
  BY EmptySeq
<1>3. Unsent = <<>>
  BY DEF Init, Unsent
<1>4. Ledger
  BY <1>2, <1>3 DEF Init, Ledger
<1>5. GotPrefix
  BY <1>2, PrefixOfConcat DEF Init, GotPrefix
<1> QED BY <1>1, <1>4, <1>5 DEF ReplyInv

\* The ledger of an open connection gives the prefix.
LEMMA LedgerPrefix ==
  ASSUME TypeOK, conn # "closed", Ledger
  PROVE  GotPrefix
<1>1. received \o outbox \in Seq(Token) /\ Unsent \in Seq(Token)
  BY UnsentFacts, ConcatProperties DEF TypeOK, Buffers
<1> QED BY <1>1, PrefixOfConcat DEF Ledger, GotPrefix

\* LedgerPrefix in the state after a step.
LEMMA LedgerPrefixNext == (TypeOK /\ conn # "closed" /\ Ledger => GotPrefix)'
<1>1. TypeOK /\ conn # "closed" /\ Ledger => GotPrefix
  BY LedgerPrefix
<1> QED BY <1>1, PTL

\* try_parse appends the same tokens to write_buf and to the history.
LEMMA EmitStep ==
  ASSUME ReplyInv, NEW ts \in Seq(Token), Len(ts) = 2, Emit(ts), conn = "open",
         UNCHANGED <<received, outbox, conn, writeOffset>>
  PROVE  OffsetIn' /\ Ledger' /\ Pending'
<1>1. /\ writeBuf \in Seq(Token) /\ writeOffset \in Nat /\ Len(writeBuf) \in Nat
      /\ received \in Seq(Token) /\ outbox \in Seq(Token)
      /\ replies = (received \o outbox) \o Unsent
  BY DEF ReplyInv, TypeOK, Buffers, Numbers, Ledger
<1>2. writeOffset \in 0 .. Len(writeBuf)
  BY <1>1 DEF ReplyInv, OffsetIn
<1>3. writeBuf' = writeBuf \o ts /\ replies' = replies \o ts
  BY DEF Emit
<1>4. Len(writeBuf') = Len(writeBuf) + 2
  <2>1. Len(writeBuf \o ts) = Len(writeBuf) + Len(ts)
    BY <1>1, LenConcat, Zenon
  <2> QED BY <1>3, <2>1, Zenon
<1>5. OffsetIn' /\ Pending'
  BY <1>1, <1>2, <1>4 DEF OffsetIn, Pending
<1>6. Unsent' = Unsent \o ts
  BY <1>1, <1>2, <1>3, SuffixGrows DEF Unsent
<1>7. Unsent \in Seq(Token) /\ received \o outbox \in Seq(Token)
  BY <1>1, UnsentFacts, ConcatProperties DEF ReplyInv
<1>8. ((received \o outbox) \o Unsent) \o ts = (received \o outbox) \o (Unsent \o ts)
  BY <1>7, TokensAssociate
<1> QED BY <1>1, <1>3, <1>5, <1>6, <1>8 DEF Ledger

\* A write moves tokens from write_buf to the kernel.
LEMMA SentStep ==
  ASSUME ReplyInv, NEW n \in 1 .. Len(Unsent), Sent(n), conn = "open",
         outbox' = outbox \o SubSeq(Unsent, 1, n), UNCHANGED <<received, replies, conn>>
  PROVE  OffsetIn' /\ Ledger'
<1>1. /\ writeBuf \in Seq(Token) /\ writeOffset \in Nat /\ Len(writeBuf) \in Nat
      /\ received \in Seq(Token) /\ outbox \in Seq(Token)
      /\ replies = (received \o outbox) \o Unsent
  BY DEF ReplyInv, TypeOK, Buffers, Numbers, Ledger
<1>2. writeOffset \in 0 .. Len(writeBuf)
  BY <1>1 DEF ReplyInv, OffsetIn
<1>3. Unsent \in Seq(Token) /\ Len(Unsent) = Len(writeBuf) - writeOffset
  BY <1>1, <1>2, UnsentFacts DEF ReplyInv
<1>4. n \in 0 .. Len(writeBuf) - writeOffset /\ n \in Nat /\ n >= 1
  BY <1>1, <1>2, <1>3
<1> DEFINE a == SubSeq(Unsent, 1, n)
           b == SubSeq(writeBuf, writeOffset + n + 1, Len(writeBuf))
<1>5. Unsent = a \o b
  BY <1>1, <1>2, <1>4, SuffixSplit DEF Unsent
<1>6. a \in Seq(Token) /\ b \in Seq(Token)
  <2>1. a \in Seq(Token)
    BY UnsentFacts DEF ReplyInv
  <2>2. b \in Seq(Token)
    BY <1>1, <1>4
  <2> QED BY <2>1, <2>2
<1>7. Unsent' = b /\ OffsetIn'
  <2>1. CASE writeOffset + n = Len(writeBuf)
    <3>1. writeBuf' = <<>> /\ writeOffset' = 0
      BY <2>1 DEF Sent
    <3>2. b = <<>>
      BY <1>1, <2>1
    <3>3. Unsent' = <<>>
      BY <3>1 DEF Unsent
    <3> QED BY <3>1, <3>2, <3>3 DEF OffsetIn
  <2>2. CASE writeOffset + n # Len(writeBuf)
    <3>1. writeBuf' = writeBuf /\ writeOffset' = writeOffset + n
      BY <2>2 DEF Sent
    <3>2. writeOffset + n < Len(writeBuf)
      BY <1>1, <1>2, <1>4, <2>2
    <3> QED BY <3>1, <3>2 DEF Unsent, OffsetIn
  <2> QED BY <2>1, <2>2
<1> HIDE DEF a, b
<1>8. received \o outbox \in Seq(Token)
  BY <1>1, ConcatProperties
<1>9. (received \o outbox) \o (a \o b) = ((received \o outbox) \o a) \o b
  BY <1>6, <1>8, TokensAssociate, Zenon
<1>10. (received \o outbox) \o a = received \o (outbox \o a)
  BY <1>1, <1>6, TokensAssociate, Zenon
<1>11. (received \o outbox') \o Unsent' = replies
  BY <1>1, <1>5, <1>7, <1>9, <1>10 DEF a
<1> QED BY <1>7, <1>11 DEF Ledger

\* Reads, parses, partial writes and closes preserve the ledger of replies.
LEMMA ReplyInvNext == ReplyInv /\ [Next]_vars => ReplyInv'
<1> SUFFICES ASSUME ReplyInv, [Next]_vars PROVE ReplyInv'
  OBVIOUS
<1>0. TypeOK /\ TypeOK' /\ LoopOpen /\ OffsetIn /\ GotPrefix /\ Ledger
  BY TypeNext DEF ReplyInv
<1>1. CASE UNCHANGED <<received, outbox, writeBuf, writeOffset, replies, conn, pc>>
  BY <1>0, <1>1 DEF ReplyInv, LoopOpen, OffsetIn, GotPrefix, Ledger, Unsent
<1>2. ASSUME NEW k \in Kind, ClientSends(k) PROVE ReplyInv'
  BY <1>1, <1>2 DEF ClientSends, loop, history
<1>3. CASE ClientReads
  <2>1. received' \o outbox' = received \o outbox
    BY <1>0, <1>3, MoveHead DEF ClientReads, TypeOK, Buffers
  <2> QED BY <1>0, <1>3, <2>1
    DEF ClientReads, loop, history, ReplyInv, LoopOpen, OffsetIn, GotPrefix, Ledger, Unsent
<1>4. CASE ClientLeaves
  BY <1>1, <1>4 DEF ClientLeaves, loop, history
<1>5. CASE OnAccept
  BY <1>0, <1>5 DEF OnAccept, client, loop, history, ReplyInv, LoopOpen, OffsetIn,
                    GotPrefix, Ledger, Unsent
<1>6. CASE Poll
  BY <1>0, <1>6 DEF Poll, client, history, ReplyInv, LoopOpen, OffsetIn, GotPrefix,
                    Ledger, Unsent
<1>7. CASE Read
  BY <1>0, <1>7 DEF Read, client, history, ReplyInv, LoopOpen, OffsetIn, GotPrefix,
                    Ledger, Unsent
<1>8. CASE Parse
  <2>1. conn = "open" /\ UNCHANGED <<received, outbox, conn, writeOffset>>
    BY <1>0, <1>8 DEF Parse, LoopOpen, client
  <2>2. OffsetIn' /\ Ledger'
    <3>1. CASE UNCHANGED <<writeBuf, replies>>
      BY <1>0, <2>1, <3>1 DEF OffsetIn, Ledger, Unsent
    <3>2. CASE ~Incomplete /\ Emit(Reply(Head(readBuf)[1]))
      BY <1>0, <2>1, <3>2, ParseTypes, EmitStep
    <3>3. CASE Emit(ErrorReply)
      BY <1>0, <2>1, <3>3, ParseTypes, EmitStep
    <3> QED BY <1>8, <3>1, <3>2, <3>3 DEF Parse, history
  <2>3. conn' = "open"
    BY <2>1
  <2> QED BY <1>0, <2>2, <2>3, LedgerPrefixNext DEF ReplyInv, LoopOpen
<1>9. CASE Write
  <2>1. conn = "open" /\ UNCHANGED <<received, replies, conn>>
    BY <1>0, <1>9 DEF Write, LoopOpen, client, history
  <2>2. OffsetIn' /\ Ledger'
    <3>1. CASE UNCHANGED <<outbox, writeBuf, writeOffset>>
      BY <1>0, <2>1, <3>1 DEF OffsetIn, Ledger, Unsent
    <3>2. ASSUME NEW n \in 1 .. Len(Unsent), outbox' = outbox \o SubSeq(Unsent, 1, n), Sent(n)
          PROVE OffsetIn' /\ Ledger'
      BY <2>1, <3>2, SentStep
    <3> QED BY <1>9, <3>1, <3>2 DEF Write
  <2>3. conn' = "open"
    BY <2>1
  <2> QED BY <1>0, <2>2, <2>3, LedgerPrefixNext DEF ReplyInv, LoopOpen
<1>10. CASE Check
  BY <1>0, <1>10 DEF Check, client, history, ReplyInv, LoopOpen, OffsetIn, GotPrefix,
                     Ledger, Unsent
<1>11. CASE UNCHANGED vars
  BY <1>1, <1>11 DEF vars, client, loop, history
<1> QED
  BY <1>2, <1>3, <1>4, <1>5, <1>6, <1>7, <1>8, <1>9, <1>10, <1>11 DEF Next, Server

\* Whatever the sizes of reads and writes, the client gets the replies token
\* for token in the order try_parse appended them, and an open connection still
\* holds the rest (server.cpp:116,124-137).
THEOREM RepliesIntactAlways == Spec => []RepliesIntact
<1>1. ReplyInv => RepliesIntact
  BY DEF ReplyInv, RepliesIntact, OffsetIn, GotPrefix, Ledger
<1> QED BY <1>1, ReplyInvInit, ReplyInvNext, PTL DEF Spec

-----------------------------------------------------------------------------
(***************************************************************************)
(* Registration.  Within on_io the registration lags behind the output:    *)
(* try_parse may have produced replies it has not registered for yet, and  *)
(* do_write may have emptied the buffer and not taken EPOLLOUT back yet.   *)
(***************************************************************************)
Exact == "OUT" \in interest <=> Pending

Registered ==
  /\ conn = "none" => ~Pending
  /\ conn = "open" =>
       /\ pc \in {"poll", "read"} => Exact
       /\ pc = "parse" => ("OUT" \in interest => Pending)
       /\ pc = "write" => (Pending => "OUT" \in interest)
       /\ pc = "check" => (state = "Closing" \/ Exact)

InterestInv == ReplyInv /\ Registered

\* Output is pending exactly if there is something behind write_offset.
LEMMA UnsentIffPending ==
  ASSUME TypeOK, OffsetIn
  PROVE  Unsent = <<>> <=> ~Pending
<1>1. writeBuf \in Seq(Token) /\ writeOffset \in Nat /\ Len(writeBuf) \in Nat
  BY DEF TypeOK, Buffers, Numbers
<1>2. CASE writeBuf = <<>> /\ writeOffset = 0
  BY <1>2 DEF Unsent, Pending
<1>3. CASE writeOffset < Len(writeBuf)
  <2>1. Unsent \in Seq(Token) /\ Len(Unsent) > 0
    BY <1>1, <1>3, UnsentFacts
  <2>2. Unsent # <<>>
    BY <2>1
  <2>3. writeBuf # <<>>
    BY <1>1, <1>3
  <2> QED BY <2>2, <2>3 DEF Pending
<1> QED BY <1>2, <1>3 DEF OffsetIn

\* Every step keeps what epoll watches in line with the unsent output.
LEMMA InterestInvNext == InterestInv /\ [Next]_vars => InterestInv'
<1> SUFFICES ASSUME InterestInv, [Next]_vars PROVE Registered'
  BY ReplyInvNext DEF InterestInv
<1>0. ReplyInv /\ TypeOK /\ LoopOpen /\ OffsetIn /\ Registered /\ Control
  BY DEF InterestInv, ReplyInv, TypeOK
<1>1. CASE UNCHANGED <<conn, state, writeBuf, interest, pc>>
  BY <1>0, <1>1 DEF Registered, Exact, Pending
<1>2. ASSUME NEW k \in Kind, ClientSends(k) PROVE Registered'
  BY <1>1, <1>2 DEF ClientSends, loop
<1>3. CASE ClientReads
  BY <1>1, <1>3 DEF ClientReads, loop
<1>4. CASE ClientLeaves
  BY <1>1, <1>4 DEF ClientLeaves, loop
<1>5. CASE OnAccept
  BY <1>0, <1>5 DEF OnAccept, loop, Registered, Exact, Pending
<1>6. CASE Poll
  BY <1>0, <1>6 DEF Poll, Registered, Exact, Pending
<1>7. CASE Read
  BY <1>0, <1>7 DEF Read, AfterRead, LoopOpen, Registered, Exact, Pending
<1>8. CASE Parse
  <2>1. /\ conn = "open" /\ conn' = "open"
        /\ UNCHANGED <<received, outbox, conn, writeOffset>>
        /\ ("OUT" \in interest => Pending)
    BY <1>0, <1>8 DEF Parse, client, LoopOpen, Registered
  <2>2. CASE /\ Settle(state, Unsent # <<>>) /\ pc' = AfterRead /\ UNCHANGED writeBuf
    <3>1. Pending' = Pending /\ (Unsent = <<>> <=> ~Pending)
      BY <1>0, <2>2, UnsentIffPending DEF Pending
    <3>2. Exact'
      BY <2>1, <2>2, <3>1 DEF Settle, Exact
    <3> QED BY <2>1, <2>2, <3>2 DEF AfterRead, Registered, Exact
  <2>3. CASE /\ ~Incomplete /\ Emit(Reply(Head(readBuf)[1])) /\ UNCHANGED <<state, interest, pc>>
    <3>1. Pending'
      BY <1>0, <2>1, <2>3, ParseTypes, EmitStep
    <3>2. pc' = "parse"
      BY <1>8, <2>3 DEF Parse
    <3> QED BY <2>1, <3>1, <3>2 DEF Registered
  <2>4. CASE Emit(ErrorReply) /\ Settle("Closing", TRUE) /\ pc' = AfterRead
    <3>1. Pending'
      BY <1>0, <2>1, <2>4, ParseTypes, EmitStep
    <3>2. "OUT" \in interest'
      BY <2>4 DEF Settle
    <3> QED BY <2>1, <2>4, <3>1, <3>2 DEF AfterRead, Registered, Exact
  <2>5. CASE pc' = "thrown"
    BY <2>1, <2>5 DEF Registered
  <2> QED BY <1>8, <2>2, <2>3, <2>4, <2>5 DEF Parse
<1>9. CASE Write
  <2>1. conn = "open" /\ conn' = "open" /\ (Pending => "OUT" \in interest)
    BY <1>0, <1>9 DEF Write, LoopOpen, Registered
  <2>2. Unsent = <<>> <=> ~Pending
    BY <1>0, UnsentIffPending
  <2>3. CASE Unsent = <<>> /\ Drained /\ pc' = "check" /\ UNCHANGED writeBuf
    BY <2>1, <2>2, <2>3 DEF Drained, Registered, Exact, Pending
  <2>4. ASSUME NEW n, Unsent # <<>>, Sent(n), UNCHANGED <<state, interest, pc>>
        PROVE  Registered'
    <3>1. pc' = "write" /\ "OUT" \in interest'
      BY <1>9, <2>1, <2>2, <2>4 DEF Write
    <3> QED BY <2>1, <3>1 DEF Registered
  <2>5. CASE /\ Unsent # <<>> /\ pc' = "check"
             /\ UNCHANGED <<writeBuf, state, interest>>
    BY <2>1, <2>2, <2>5 DEF Registered, Exact, Pending
  <2>6. CASE state' = "Closing" /\ pc' = "check"
    BY <2>1, <2>6 DEF Registered
  <2>7. CASE pc' = "killed"
    BY <2>1, <2>7 DEF Registered
  <2> QED BY <1>9, <2>3, <2>4, <2>5, <2>6, <2>7 DEF Write
<1>10. CASE Check
  <2>1. conn = "open" /\ (state = "Closing" \/ Exact)
    BY <1>0, <1>10 DEF Check, LoopOpen, Registered
  <2> QED BY <1>10, <2>1 DEF Check, MustClose, Registered, Exact, Pending
<1>11. CASE UNCHANGED vars
  BY <1>1, <1>11 DEF vars, loop
<1> QED
  BY <1>2, <1>3, <1>4, <1>5, <1>6, <1>7, <1>8, <1>9, <1>10, <1>11 DEF Next, Server

\* When the loop waits, EPOLLOUT is registered exactly if output is pending, for
\* every interleaving with the client (server.cpp:118-121,138-141).
THEOREM InterestExactAlways == Spec => []InterestExact
<1>1. Init => InterestInv
  BY ReplyInvInit DEF Init, InterestInv, Registered, Exact, Pending
<1>2. InterestInv => InterestExact
  BY UnsentIffPending DEF InterestInv, ReplyInv, Registered, Exact, InterestExact
<1> QED BY <1>1, <1>2, InterestInvNext, PTL DEF Spec

-----------------------------------------------------------------------------
(***************************************************************************)
(* Commands.  While the connection is open there is a boundary b: the      *)
(* commands up to b have left read_buf, and what is in read_buf and then   *)
(* in the kernel's buffer are the tokens of command b + 1, b + 2 and so on *)
(* up to the last one sent, none missing and none twice.                   *)
(***************************************************************************)
\* The token at place j of a stream that has o tokens before it is one of the
\* two of its command.
Numbered(s, o) == \A j \in 1 .. Len(s) : 2 * s[j][1] - o - j \in {0, 1}

Stream(b) ==
  /\ \/ half /\ Len(readBuf) + Len(inbox) = 2 * (Len(kind) - b) - 1
     \/ ~half /\ Len(readBuf) + Len(inbox) = 2 * (Len(kind) - b)
  /\ Numbered(readBuf, 2 * b)
  /\ Numbered(inbox, 2 * b + Len(readBuf))

Dispatched(b) ==
  /\ \A p \in 1 .. Len(executed) : executed[p] <= b
  /\ \A c \in 1 .. b : /\ kind[c] \notin Fatal
                       /\ kind[c] = "ok" => \E q \in 1 .. Len(executed) : executed[q] = c

ExecKnown == \A p \in 1 .. Len(executed) : executed[p] \in 1 .. Len(kind)
Boundary == conn # "closed" => \E b \in 0 .. Len(kind) : Stream(b) /\ Dispatched(b)

OrderInv == TypeOK /\ LoopOpen /\ ExecKnown /\ ExecutedInOrder /\ Boundary

\* Before the first byte arrives nothing has been executed.
LEMMA OrderInvInit == Init => OrderInv
<1> SUFFICES ASSUME Init PROVE OrderInv
  OBVIOUS
<1>1. TypeOK /\ LoopOpen
  BY TypeInit DEF Init, LoopOpen
<1>2. ExecKnown /\ ExecutedInOrder
  BY DEF Init, ExecKnown, ExecutedInOrder
<1>3. Numbered(readBuf, 2 * 0) /\ Numbered(inbox, 2 * 0 + Len(readBuf)) /\ Dispatched(0)
  BY DEF Init, Numbered, Dispatched
<1>4. 0 \in 0 .. Len(kind) /\ Len(readBuf) + Len(inbox) = 2 * (Len(kind) - 0)
  BY DEF Init
<1>5. ~half
  BY DEF Init
<1>6. Boundary
  BY <1>3, <1>4, <1>5 DEF Boundary, Stream
<1> QED BY <1>1, <1>2, <1>6 DEF OrderInv

\* A token that fits the end of a stream extends it.
LEMMA NumberedAppend ==
  ASSUME NEW s \in Seq(Token), NEW o \in Int, NEW c \in Nat, NEW h \in {1, 2},
         Numbered(s, o), 2 * c - o - (Len(s) + 1) \in {0, 1}
  PROVE  Numbered(Append(s, <<c, h>>), o)
<1> DEFINE t == Append(s, <<c, h>>)
<1>1. Len(t) = Len(s) + 1 /\ Len(s) \in Nat
  OBVIOUS
<1>2. ASSUME NEW j \in 1 .. Len(s) PROVE t[j] = s[j]
  OBVIOUS
<1>3. t[Len(s) + 1] = <<c, h>>
  OBVIOUS
<1> HIDE DEF t
<1>4. ASSUME NEW j \in 1 .. Len(t) PROVE 2 * t[j][1] - o - j \in {0, 1}
  <2>1. CASE j \in 1 .. Len(s)
    BY <1>2, <2>1 DEF Numbered
  <2>2. CASE j = Len(s) + 1
    <3>1. t[j][1] = c
      BY <1>3, <2>2
    <3> QED BY <2>2, <3>1
  <2>3. j \in 1 .. Len(s) \/ j = Len(s) + 1
    BY <1>1
  <2> QED BY <2>1, <2>2, <2>3, Zenon
<1> QED BY <1>4 DEF Numbered, t

\* Two streams, one behind the other.
LEMMA NumberedConcat ==
  ASSUME NEW s \in Seq(Token), NEW t \in Seq(Token), NEW o \in Int,
         Numbered(s, o), Numbered(t, o + Len(s))
  PROVE  Numbered(s \o t, o)
<1> DEFINE u == s \o t
<1>1. Len(u) = Len(s) + Len(t) /\ Len(s) \in Nat /\ Len(t) \in Nat
  OBVIOUS
<1>2. ASSUME NEW j \in 1 .. Len(s) PROVE u[j] = s[j]
  OBVIOUS
<1>3. ASSUME NEW j \in 1 .. Len(t) PROVE u[Len(s) + j] = t[j]
  OBVIOUS
<1> HIDE DEF u
<1>4. ASSUME NEW j \in 1 .. Len(u) PROVE 2 * u[j][1] - o - j \in {0, 1}
  <2>1. CASE j \in 1 .. Len(s)
    BY <1>2, <2>1 DEF Numbered
  <2>2. CASE j > Len(s)
    <3> DEFINE i == j - Len(s)
    <3>1. i \in 1 .. Len(t) /\ Len(s) + i = j
      BY <1>1, <2>2
    <3>2. i \in Int /\ t[i][1] \in Int
      BY <3>1 DEF Token
    <3> HIDE DEF i
    <3>3. u[j][1] = t[i][1]
      BY <1>3, <3>1
    <3>4. 2 * t[i][1] - (o + Len(s)) - i \in {0, 1}
      BY <3>1 DEF Numbered
    <3>5. 2 * t[i][1] - (o + Len(s)) - i = 2 * t[i][1] - o - j
      BY <1>1, <3>1, <3>2
    <3> QED BY <3>3, <3>4, <3>5
  <2>3. j \in 1 .. Len(s) \/ j > Len(s)
    BY <1>1
  <2> QED BY <2>1, <2>2, <2>3, Zenon
<1> QED BY <1>4 DEF Numbered, u

\* The first command of a stream, and the stream without it.
LEMMA NumberedRest ==
  ASSUME NEW s \in Seq(Token), NEW b \in Nat, Numbered(s, 2 * b), Len(s) >= 2
  PROVE  /\ Head(s)[1] = b + 1
         /\ Numbered(SubSeq(s, 3, Len(s)), 2 * (b + 1))
         /\ Len(SubSeq(s, 3, Len(s))) = Len(s) - 2
<1> DEFINE r == SubSeq(s, 3, Len(s))
<1>1. Head(s)[1] = b + 1
  <2>1. Head(s) = s[1] /\ s[1][1] \in Nat
    BY DEF Token
  <2>2. 1 \in 1 .. Len(s)
    OBVIOUS
  <2>3. 2 * s[1][1] - 2 * b - 1 \in {0, 1}
    BY <2>2, Zenon DEF Numbered
  <2> QED BY <2>1, <2>3
<1>2. Len(r) = Len(s) - 2 /\ \A j \in 1 .. Len(s) - 2 : r[j] = s[2 + j]
  <2>1. 2 \in 0 .. Len(s) /\ 2 + 1 = 3
    OBVIOUS
  <2> QED BY <2>1, SuffixFacts
<1> HIDE DEF r
<1>3. ASSUME NEW j \in 1 .. Len(s) - 2 PROVE 2 * r[j][1] - 2 * (b + 1) - j \in {0, 1}
  <2>1. 2 + j \in 1 .. Len(s)
    OBVIOUS
  <2>2. r[j] = s[2 + j] /\ s[2 + j][1] \in Nat
    BY <1>2, <2>1 DEF Token
  <2>3. 2 * s[2 + j][1] - 2 * b - (2 + j) \in {0, 1}
    BY <2>1, Zenon DEF Numbered
  <2> QED BY <2>2, <2>3
<1> QED BY <1>1, <1>2, <1>3 DEF Numbered, r

\* The client extends the stream and leaves the boundary where it is.
LEMMA SendStep ==
  ASSUME OrderInv, TypeOK', NEW k \in Kind, ClientSends(k)
  PROVE  ExecKnown' /\ ExecutedInOrder' /\ Boundary'
<1>0. /\ kind \in Seq(Kind) /\ Len(kind) \in Nat /\ executed' = executed
      /\ readBuf' = readBuf /\ conn' = conn /\ conn # "closed"
      /\ inbox \in Seq(Token) /\ Len(inbox) \in Nat /\ Len(readBuf) \in Nat
  BY DEF OrderInv, TypeOK, Buffers, Numbers, ClientSends, Talking, history
<1>1. Len(kind') \in Nat /\ Len(kind) <= Len(kind') /\ \A c \in 1 .. Len(kind) : kind'[c] = kind[c]
  <2>1. CASE kind' = kind
    BY <1>0, <2>1
  <2>2. CASE kind' = Append(kind, k)
    BY <1>0, <2>2
  <2> QED BY <2>1, <2>2 DEF ClientSends
<1>2. ExecKnown /\ ExecKnown'
  BY <1>0, <1>1 DEF OrderInv, ExecKnown
<1>3. ExecutedInOrder'
  <2>1. ASSUME NEW p \in 1 .. Len(executed)
        PROVE  /\ kind'[executed[p]] = kind[executed[p]]
               /\ \A c \in 1 .. executed[p] - 1 : kind'[c] = kind[c]
    <3>1. executed[p] \in 1 .. Len(kind)
      BY <1>2 DEF ExecKnown
    <3>2. \A c \in 1 .. executed[p] - 1 : c \in 1 .. Len(kind)
      BY <1>0, <3>1
    <3> QED BY <1>1, <3>1, <3>2, Zenon
  <2>2. ASSUME NEW p \in 1 .. Len(executed)
        PROVE  /\ kind'[executed[p]] = "ok"
               /\ \A c \in 1 .. executed[p] - 1 :
                    /\ kind'[c] \notin Fatal
                    /\ kind'[c] = "ok" => \E q \in 1 .. p - 1 : executed[q] = c
               /\ \A q \in 1 .. p - 1 : executed[q] < executed[p]
    <3>1. /\ kind[executed[p]] = "ok"
          /\ \A c \in 1 .. executed[p] - 1 :
               /\ kind[c] \notin Fatal
               /\ kind[c] = "ok" => \E q \in 1 .. p - 1 : executed[q] = c
          /\ \A q \in 1 .. p - 1 : executed[q] < executed[p]
      BY Zenon DEF OrderInv, ExecutedInOrder
    <3>2. \A c \in 1 .. executed[p] - 1 : kind'[c] = kind[c]
      BY <2>1
    <3>3. kind'[executed[p]] = "ok"
      BY <2>1, <3>1, Zenon
    <3>4. ASSUME NEW c \in 1 .. executed[p] - 1
          PROVE  /\ kind'[c] \notin Fatal
                 /\ kind'[c] = "ok" => \E q \in 1 .. p - 1 : executed[q] = c
      <4>1. kind'[c] = kind[c]
        BY <3>2, Zenon
      <4> QED BY <3>1, <4>1, Zenon
    <3> QED BY <3>1, <3>3, <3>4, Zenon
  <2>3. executed' = executed
    BY <1>0
  <2> QED BY <2>2, <2>3 DEF ExecutedInOrder
<1>4. PICK b \in 0 .. Len(kind) : Stream(b) /\ Dispatched(b)
  BY <1>0 DEF OrderInv, Boundary
<1>5. b \in 0 .. Len(kind') /\ \A c \in 1 .. b : kind'[c] = kind[c]
  BY <1>0, <1>1
<1>6. Dispatched(b)'
  BY <1>0, <1>4, <1>5, Zenon DEF Dispatched
<1>7. Stream(b)'
  <2> DEFINE o == 2 * b + Len(readBuf)
  <2>0. /\ o \in Int /\ Numbered(inbox, o) /\ Numbered(readBuf, 2 * b)
    BY <1>0, <1>4 DEF Stream
  <2>1. CASE ~half /\ kind' = Append(kind, k) /\ half' /\ inbox' = Append(inbox, <<Len(kind) + 1, 1>>)
    <3>1. Len(readBuf) + Len(inbox) = 2 * (Len(kind) - b)
      BY <1>4, <2>1, Zenon DEF Stream
    <3>2. Len(kind') = Len(kind) + 1 /\ Len(inbox') = Len(inbox) + 1
      BY <1>0, <2>1
    <3>3. 2 * (Len(kind) + 1) - o - (Len(inbox) + 1) \in {0, 1}
      BY <1>0, <3>1
    <3> HIDE DEF o
    <3>4. Numbered(inbox', o)
      <4>1. Len(kind) + 1 \in Nat /\ 1 \in {1, 2}
        BY <1>0
      <4>2. Numbered(Append(inbox, <<Len(kind) + 1, 1>>), o)
        BY <1>0, <2>0, <3>3, <4>1, NumberedAppend, Zenon
      <4> QED BY <2>1, <4>2, Zenon
    <3>5. Len(readBuf) + Len(inbox') = 2 * (Len(kind') - b) - 1
      BY <1>0, <3>1, <3>2
    <3> QED BY <1>0, <2>0, <2>1, <3>4, <3>5, Zenon DEF Stream, o
  <2>2. CASE half /\ ~half' /\ kind' = kind /\ inbox' = Append(inbox, <<Len(kind), 2>>)
    <3>1. Len(readBuf) + Len(inbox) = 2 * (Len(kind) - b) - 1
      BY <1>4, <2>2, Zenon DEF Stream
    <3>2. Len(inbox') = Len(inbox) + 1
      BY <1>0, <2>2
    <3>3. 2 * Len(kind) - o - (Len(inbox) + 1) \in {0, 1}
      BY <1>0, <3>1
    <3> HIDE DEF o
    <3>4. Numbered(inbox', o)
      <4>1. Numbered(Append(inbox, <<Len(kind), 2>>), o)
        <5>1. 2 \in {1, 2}
          OBVIOUS
        <5> QED BY <1>0, <2>0, <3>3, <5>1, NumberedAppend, Zenon
      <4> QED BY <2>2, <4>1, Zenon
    <3>5. Len(readBuf) + Len(inbox') = 2 * (Len(kind') - b)
      BY <1>0, <2>2, <3>1, <3>2
    <3> QED BY <1>0, <2>0, <2>2, <3>4, <3>5, Zenon DEF Stream, o
  <2> QED BY <2>1, <2>2, Zenon DEF ClientSends
<1> QED BY <1>2, <1>3, <1>5, <1>6, <1>7 DEF Boundary

\* do_read moves the kernel's tokens behind the ones in read_buf.
LEMMA ReadStep ==
  ASSUME OrderInv, readBuf' = readBuf \o inbox, inbox' = <<>>,
         UNCHANGED <<kind, half, conn, executed>>
  PROVE  Boundary'
<1>0. /\ readBuf \in Seq(Token) /\ inbox \in Seq(Token)
      /\ Len(readBuf) \in Nat /\ Len(inbox) \in Nat
  BY DEF OrderInv, TypeOK, Buffers
<1>1. SUFFICES ASSUME conn # "closed", NEW b \in 0 .. Len(kind), Stream(b), Dispatched(b)
               PROVE  Stream(b)' /\ Dispatched(b)'
  BY Zenon DEF OrderInv, Boundary
<1>2. Len(readBuf') = Len(readBuf) + Len(inbox)
  BY <1>0, LenConcat, Zenon
<1>3. Len(inbox') = 0
  OBVIOUS
<1>4. Len(readBuf') + Len(inbox') = Len(readBuf) + Len(inbox)
  BY <1>0, <1>2, <1>3
<1>5. Numbered(readBuf', 2 * b)
  <2>1. 2 * b \in Int
    BY <1>0 DEF OrderInv, TypeOK, Numbers
  <2> QED BY <1>0, <1>1, <2>1, NumberedConcat, Zenon DEF Stream
<1>6. Numbered(inbox', 2 * b + Len(readBuf'))
  BY <1>3 DEF Numbered
<1>7. Stream(b)'
  BY <1>1, <1>4, <1>5, <1>6, Zenon DEF Stream
<1> QED BY <1>1, <1>7, Zenon DEF Dispatched

\* A boundary at command b in the new state witnesses Boundary.
LEMMA BoundaryMoved ==
  ASSUME NEW b, b \in 1 .. Len(kind), UNCHANGED kind, Len(kind) \in Nat, Stream(b)', Dispatched(b)'
  PROVE  Boundary'
<1>1. b \in 0 .. Len(kind')
  OBVIOUS
<1> QED BY <1>1, Zenon DEF Boundary

\* try_parse takes the first command out of read_buf: the boundary moves on.
LEMMA TakeStep ==
  ASSUME OrderInv, TypeOK', conn = "open", ~Incomplete, readBuf' = Rest,
         UNCHANGED <<kind, half, conn, inbox>>,
         \/ FrontKind = "ok" /\ executed' = Append(executed, Head(readBuf)[1])
         \/ FrontKind = "blank" /\ executed' = executed
  PROVE  ExecKnown' /\ ExecutedInOrder' /\ Boundary'
<1>0. /\ readBuf \in Seq(Token) /\ inbox \in Seq(Token) /\ executed \in Seq(Nat)
      /\ Len(readBuf) \in Nat /\ Len(inbox) \in Nat /\ Len(kind) \in Nat
      /\ Len(executed) \in Nat /\ Len(readBuf) >= 2
  BY DEF OrderInv, TypeOK, Buffers, Numbers, Incomplete
<1>1. PICK b \in 0 .. Len(kind) : Stream(b) /\ Dispatched(b)
  BY DEF OrderInv, Boundary
<1>2. b \in Nat /\ Numbered(readBuf, 2 * b)
  BY <1>0, <1>1 DEF Stream
<1>3. /\ Head(readBuf)[1] = b + 1 /\ Numbered(readBuf', 2 * (b + 1))
      /\ Len(readBuf') = Len(readBuf) - 2
  BY <1>0, <1>2, NumberedRest, Zenon DEF Rest
<1>4. b + 1 \in 1 .. Len(kind)
  <2>1. Len(readBuf) + Len(inbox) <= 2 * (Len(kind) - b)
    <3>1. \/ Len(readBuf) + Len(inbox) = 2 * (Len(kind) - b)
          \/ Len(readBuf) + Len(inbox) = 2 * (Len(kind) - b) - 1
      BY <1>1, Zenon DEF Stream
    <3> QED BY <1>0, <1>2, <3>1
  <2> QED BY <1>0, <1>2, <2>1
<1>5. Stream(b + 1)'
  <2>1. 2 * (b + 1) + Len(readBuf') = 2 * b + Len(readBuf)
    BY <1>0, <1>2, <1>3
  <2>2. Numbered(inbox', 2 * (b + 1) + Len(readBuf'))
    BY <1>1, <2>1, Zenon DEF Stream
  <2>3. /\ Len(readBuf') + Len(inbox) = Len(readBuf) + Len(inbox) - 2
        /\ 2 * (Len(kind) - (b + 1)) = 2 * (Len(kind) - b) - 2
        /\ 2 * (Len(kind) - (b + 1)) - 1 = 2 * (Len(kind) - b) - 1 - 2
    BY <1>0, <1>2, <1>3
  <2>4. \/ half' /\ Len(readBuf') + Len(inbox') = 2 * (Len(kind') - (b + 1)) - 1
        \/ ~half' /\ Len(readBuf') + Len(inbox') = 2 * (Len(kind') - (b + 1))
    <3>1. CASE half /\ Len(readBuf) + Len(inbox) = 2 * (Len(kind) - b) - 1
      <4>0. Len(readBuf) + Len(inbox) = 2 * (Len(kind) - b) - 1
        BY <3>1
      <4>1. Len(readBuf') + Len(inbox) = 2 * (Len(kind) - (b + 1)) - 1
        BY <2>3, <4>0
      <4> QED BY <3>1, <4>1, Zenon
    <3>2. CASE ~half /\ Len(readBuf) + Len(inbox) = 2 * (Len(kind) - b)
      <4>0. Len(readBuf) + Len(inbox) = 2 * (Len(kind) - b)
        BY <3>2
      <4>1. Len(readBuf') + Len(inbox) = 2 * (Len(kind) - (b + 1))
        BY <2>3, <4>0
      <4> QED BY <3>2, <4>1, Zenon
    <3> QED BY <1>1, <3>1, <3>2, Zenon DEF Stream
  <2> QED BY <1>3, <2>2, <2>4, Zenon DEF Stream
<1>6. kind[b + 1] = FrontKind
  BY <1>3 DEF FrontKind
<1>7. Dispatched(b) /\ ExecKnown /\ ExecutedInOrder
  BY <1>1 DEF OrderInv
<1>8. CASE FrontKind = "blank" /\ executed' = executed
  <2>1. ExecKnown' /\ ExecutedInOrder'
    BY <1>7, <1>8, Zenon DEF ExecKnown, ExecutedInOrder
  <2>2. Dispatched(b + 1)'
    <3>1. ASSUME NEW p \in 1 .. Len(executed) PROVE executed[p] <= b + 1
      BY <1>0, <1>2, <1>7 DEF Dispatched
    <3>2. ASSUME NEW c \in 1 .. b + 1 PROVE c \in 1 .. b \/ c = b + 1
      BY <1>2
    <3>3. kind[b + 1] \notin Fatal /\ kind[b + 1] # "ok"
      BY <1>6, <1>8 DEF Fatal
    <3> QED BY <1>7, <1>8, <3>1, <3>2, <3>3, Zenon DEF Dispatched
  <2> QED BY <1>4, <1>5, <2>1, <2>2, <1>0, BoundaryMoved
<1>9. CASE FrontKind = "ok" /\ executed' = Append(executed, b + 1)
  <2> DEFINE n == Len(executed) + 1
  <2>1. /\ Len(executed') = n /\ executed'[n] = b + 1
        /\ \A p \in 1 .. Len(executed) : executed'[p] = executed[p]
    BY <1>0, <1>2, <1>9
  <2>2. \A p \in 1 .. n : p \in 1 .. Len(executed) \/ p = n
    BY <1>0
  <2>3. n - 1 = Len(executed) /\ n \in 1 .. n /\ \A p \in 1 .. Len(executed) : p \in 1 .. n
    BY <1>0
  <2>4. \A p \in 1 .. Len(executed) : \A q \in 1 .. p - 1 : q \in 1 .. Len(executed)
    BY <1>0
  <2>5. (b + 1) - 1 = b /\ \A c \in 1 .. b + 1 : c \in 1 .. b \/ c = b + 1
    BY <1>2
  <2>6. kind[b + 1] = "ok"
    BY <1>6, <1>9
  <2>7. \A p \in 1 .. Len(executed) : executed[p] <= b + 1 /\ executed[p] < b + 1
    BY <1>0, <1>2, <1>7 DEF Dispatched
  <2>8. b + 1 <= b + 1
    BY <1>2
  <2> HIDE DEF n
  <2>9. ExecKnown'
    BY <1>4, <1>7, <2>1, <2>2, Zenon DEF ExecKnown
  <2>10. Dispatched(b + 1)'
    <3>1. \A p \in 1 .. n : executed'[p] <= b + 1
      BY <2>1, <2>2, <2>7, <2>8, Zenon
    <3>2. ASSUME NEW c \in 1 .. b + 1
          PROVE  kind[c] \notin Fatal /\ (kind[c] = "ok" => \E q \in 1 .. n : executed'[q] = c)
      <4>1. CASE c \in 1 .. b
        BY <1>7, <2>1, <2>3, <4>1, Zenon DEF Dispatched
      <4>2. CASE c = b + 1
        <5>1. kind[c] \notin Fatal
          BY <2>6, <4>2 DEF Fatal
        <5> QED BY <2>1, <2>3, <4>2, <5>1, Zenon
      <4> QED BY <2>5, <4>1, <4>2, Zenon
    <3> QED BY <2>1, <3>1, <3>2, Zenon DEF Dispatched
  <2>11. ExecutedInOrder'
    <3>1. ASSUME NEW p \in 1 .. Len(executed)
          PROVE  /\ kind[executed'[p]] = "ok"
                 /\ \A c \in 1 .. executed'[p] - 1 :
                      /\ kind[c] \notin Fatal
                      /\ kind[c] = "ok" => \E q \in 1 .. p - 1 : executed'[q] = c
                 /\ \A q \in 1 .. p - 1 : executed'[q] < executed'[p]
      <4>1. /\ kind[executed[p]] = "ok"
            /\ \A c \in 1 .. executed[p] - 1 :
                 /\ kind[c] \notin Fatal
                 /\ kind[c] = "ok" => \E q \in 1 .. p - 1 : executed[q] = c
            /\ \A q \in 1 .. p - 1 : executed[q] < executed[p]
        BY <1>7, Zenon DEF ExecutedInOrder
      <4>2. executed'[p] = executed[p] /\ \A q \in 1 .. p - 1 : executed'[q] = executed[q]
        BY <2>1, <2>4, Zenon
      <4>3. ASSUME NEW c \in 1 .. executed[p] - 1, kind[c] = "ok"
            PROVE  \E q \in 1 .. p - 1 : executed'[q] = c
        <5>1. PICK q \in 1 .. p - 1 : executed[q] = c
          BY <4>1, <4>3, Zenon
        <5> QED BY <4>2, <5>1, Zenon
      <4>4. \A q \in 1 .. p - 1 : executed'[q] < executed[p]
        BY <4>1, <4>2, Zenon
      <4> QED BY <4>1, <4>2, <4>3, <4>4, Zenon
    <3>2. /\ kind[executed'[n]] = "ok"
          /\ \A c \in 1 .. executed'[n] - 1 :
               /\ kind[c] \notin Fatal
               /\ kind[c] = "ok" => \E q \in 1 .. n - 1 : executed'[q] = c
          /\ \A q \in 1 .. n - 1 : executed'[q] < executed'[n]
      <4>1. kind[executed'[n]] = "ok"
        BY <2>1, <2>6, Zenon
      <4>2. \A c \in 1 .. b :
               /\ kind[c] \notin Fatal
               /\ kind[c] = "ok" => \E q \in 1 .. Len(executed) : executed'[q] = c
        BY <1>7, <2>1, Zenon DEF Dispatched
      <4>3. \A q \in 1 .. Len(executed) : executed'[q] < b + 1
        BY <2>1, <2>7, Zenon
      <4> QED BY <2>1, <2>3, <2>5, <4>1, <4>2, <4>3, Zenon
    <3> QED BY <2>1, <2>2, <3>1, <3>2, Zenon DEF ExecutedInOrder
  <2> QED BY <1>4, <1>5, <2>9, <2>10, <2>11, <1>0, BoundaryMoved
<1> QED BY <1>3, <1>8, <1>9

\* Every step keeps the boundary between executed and unparsed commands.
LEMMA OrderInvNext == OrderInv /\ [Next]_vars => OrderInv'
<1> SUFFICES ASSUME OrderInv, [Next]_vars PROVE OrderInv'
  OBVIOUS
<1>0. TypeOK /\ TypeOK' /\ LoopOpen /\ ExecKnown /\ ExecutedInOrder /\ Boundary
  BY TypeNext DEF OrderInv
<1>1. LoopOpen'
  BY <1>0 DEF Next, vars, Server, ClientSends, ClientReads, ClientLeaves, OnAccept, Poll, Read,
              Parse, Write, Check, loop, LoopOpen
<1>2. CASE UNCHANGED <<kind, half, conn, readBuf, inbox, executed>>
  <2>1. ExecKnown' /\ ExecutedInOrder'
    BY <1>0, <1>2 DEF ExecKnown, ExecutedInOrder
  <2>2. Boundary'
    BY <1>0, <1>2, Zenon DEF Boundary, Stream, Dispatched
  <2> QED BY <1>0, <1>1, <2>1, <2>2 DEF OrderInv
<1>3. ASSUME NEW k \in Kind, ClientSends(k) PROVE OrderInv'
  BY <1>0, <1>1, <1>3, SendStep DEF OrderInv
<1>4. CASE ClientReads
  BY <1>2, <1>4 DEF ClientReads, history
<1>5. CASE ClientLeaves
  BY <1>2, <1>5 DEF ClientLeaves, history
<1>6. CASE OnAccept
  <2>1. UNCHANGED <<kind, half, readBuf, inbox, executed>> /\ conn # "closed"
    BY <1>6 DEF OnAccept, client, history
  <2>2. ExecKnown' /\ ExecutedInOrder'
    BY <1>0, <2>1 DEF ExecKnown, ExecutedInOrder
  <2>3. Boundary'
    BY <1>0, <2>1, Zenon DEF Boundary, Stream, Dispatched
  <2> QED BY <1>0, <1>1, <2>2, <2>3 DEF OrderInv
<1>7. CASE Poll
  BY <1>2, <1>7 DEF Poll, client, history
<1>8. CASE Read
  <2>1. UNCHANGED <<kind, half, conn, executed>>
    BY <1>8 DEF Read, client, history
  <2>2. CASE readBuf' = readBuf \o inbox /\ inbox' = <<>>
    <3>1. ExecKnown' /\ ExecutedInOrder'
      BY <1>0, <2>1 DEF ExecKnown, ExecutedInOrder
    <3>2. Boundary'
      BY <2>1, <2>2, ReadStep
    <3> QED BY <1>0, <1>1, <3>1, <3>2 DEF OrderInv
  <2>3. CASE UNCHANGED <<inbox, readBuf>>
    BY <1>2, <2>1, <2>3
  <2> QED BY <1>8, <2>2, <2>3 DEF Read
<1>9. CASE Parse
  <2>1. UNCHANGED <<kind, half, conn, inbox>> /\ conn = "open"
    BY <1>0, <1>9 DEF Parse, client, LoopOpen
  <2>2. CASE UNCHANGED <<readBuf, executed>>
    BY <1>2, <2>1, <2>2
  <2>3. CASE /\ ~Incomplete /\ readBuf' = Rest
             /\ \/ FrontKind = "ok" /\ executed' = Append(executed, Head(readBuf)[1])
                \/ FrontKind = "blank" /\ executed' = executed
    <3>1. ExecKnown' /\ ExecutedInOrder' /\ Boundary'
      BY <1>0, <2>1, <2>3, TakeStep
    <3> QED BY <1>0, <1>1, <3>1 DEF OrderInv
  <2>4. /\ Incomplete => UNCHANGED <<readBuf, executed>>
        /\ ~Incomplete /\ FrontKind = "ok"
             => readBuf' = Rest /\ executed' = Append(executed, Head(readBuf)[1])
        /\ ~Incomplete /\ FrontKind = "blank" => readBuf' = Rest /\ executed' = executed
        /\ ~Incomplete /\ FrontKind # "ok" /\ FrontKind # "blank"
             => UNCHANGED <<readBuf, executed>>
    BY <1>9 DEF Parse, AfterError, history
  <2> QED BY <2>2, <2>3, <2>4
<1>10. CASE Write
  BY <1>2, <1>10 DEF Write, client, history
<1>11. CASE Check
  <2>1. UNCHANGED <<kind, half, inbox, executed>>
    BY <1>11 DEF Check, client, history
  <2>2. CASE UNCHANGED <<conn, readBuf>>
    BY <1>2, <2>1, <2>2
  <2>3. CASE conn' = "closed"
    <3>1. ExecKnown' /\ ExecutedInOrder' /\ Boundary'
      BY <1>0, <2>1, <2>3 DEF ExecKnown, ExecutedInOrder, Boundary
    <3> QED BY <1>0, <1>1, <3>1 DEF OrderInv
  <2> QED BY <1>11, <2>2, <2>3 DEF Check
<1>12. CASE UNCHANGED vars
  BY <1>2, <1>12 DEF vars, client, history
<1> QED
  BY <1>3, <1>4, <1>5, <1>6, <1>7, <1>8, <1>9, <1>10, <1>11, <1>12 DEF Next, Server

\* For any number of commands that arrive in any parts, each is executed once, in
\* the order sent, after every correct one before it and never behind a malformed
\* one (server.cpp:83-117).
THEOREM ExecutedInOrderAlways == Spec => []ExecutedInOrder
<1>1. OrderInv => ExecutedInOrder
  BY DEF OrderInv
<1> QED BY <1>1, OrderInvInit, OrderInvNext, PTL DEF Spec
=============================================================================
