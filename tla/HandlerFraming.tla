--------------------------- MODULE HandlerFraming ---------------------------
(***************************************************************************)
(* One connection of handler.c: the read loop of handler_job, which splits *)
(* what it reads into lines, answers each, and collects the body of a      *)
(* POST /secure/tx.  What a payment request then does is module Payment;   *)
(* here it is only noted as executed.                                      *)
(*                                                                         *)
(* The bytes are abstracted to tokens of length one: a newline, a request, *)
(* a header and so on.  The client sends Messages, and a read returns any  *)
(* non-empty prefix of what is under way, as TCP does.                     *)
(*                                                                         *)
(* An answer goes through write_all, which returns when the socket has     *)
(* taken it.  The socket holds SockCap answers that the client has not     *)
(* read; beyond that write() fails with EAGAIN after SO_SNDTIMEO, and      *)
(* write_all tries again, as often as it takes.                            *)
(*                                                                         *)
(* The move of the unprocessed rest to the front of the buffer (lines      *)
(* 654-662) is inside the block of line 531, so that it happens only       *)
(* while a body is collected.                                              *)
(***************************************************************************)
EXTENDS Integers, Sequences, SequencesExt, FiniteSets

CONSTANTS
  Requests,      \* valid payment requests
  Messages,      \* what the client may send at a time: sequences of tokens
  ContentLength, \* the value of each Content-Length header
  Cap,           \* sizeof(buf) - 1
  BodyCap,       \* sizeof(http_body)
  SockCap,       \* answers the socket buffers hold
  MaxMessages    \* bound: messages sent on the connection

\* "get": a line like GET /healthz that is answered at once; "junk": a line
\* that is declined (not a request, bad checksum, bad amount, risk); "ping"
\* and "tx": the request lines of the two secure routes; "auth": the header
\* with the right token.  "NUL" is what handler_job puts for a newline.
Tokens == Requests \cup DOMAIN ContentLength
            \cup {"NL", "NUL", "get", "junk", "ping", "tx", "auth"}

ASSUME FramingAssumption ==
  /\ Messages \subseteq Seq(Tokens \ {"NUL"})
  /\ Cap \in Nat \ {0} /\ BodyCap \in Nat \ {0} /\ SockCap \in Nat
  /\ MaxMessages \in Nat
  /\ \A h \in DOMAIN ContentLength : ContentLength[h] \in Nat
  /\ Requests \cap {"NL", "NUL", "get", "junk", "ping", "tx", "auth"} = {}

VARIABLES
  wire,     \* sent and not yet read
  sent,     \* number of messages sent
  buf,      \* the first `used' bytes of buf
  start,    \* the offset of `start' in buf
  pc,       \* read: before read(); scan: the loop over lines; after: line 530
  http,     \* the http_... variables
  answers,  \* answers given to write_all
  unread,   \* those the client has not read: write_all has returned unless
            \* there are more than SockCap of them
  done,     \* history: requests executed, in order
  recv,     \* history: everything read
  reads,    \* history: reads that returned data
  token     \* history: the current HTTP request has shown the token

history == <<done, recv, reads, token>>
vars == <<wire, sent, buf, start, pc, http, answers, unread, history>>

TypeOK ==
  /\ wire \in Seq(Tokens)
  /\ sent \in 0..MaxMessages
  /\ buf \in Seq(Tokens) /\ Len(buf) <= Cap
  /\ start \in 0..Cap
  /\ pc \in {"read", "scan", "after", "closed", "crashed", "killed"}
  /\ http \in [collecting : BOOLEAN, ping : BOOLEAN, tx : BOOLEAN, authz : BOOLEAN,
               length : Int, remaining : Nat, body : Seq(Tokens)]
  /\ Len(http.body) <= BodyCap
  /\ answers \in Nat
  /\ unread \in 0..SockCap + 1
  /\ done \in Seq(Requests)

Init ==
  /\ wire = <<>>
  /\ sent = 0
  /\ buf = <<>>
  /\ start = 0
  /\ pc = "read"
  /\ http = [collecting |-> FALSE, ping |-> FALSE, tx |-> FALSE, authz |-> FALSE,
             length |-> -1, remaining |-> 0, body |-> <<>>]
  /\ answers = 0
  /\ unread = 0
  /\ done = <<>>
  /\ recv = <<>>
  /\ reads = 0
  /\ token = FALSE
-----------------------------------------------------------------------------
(* The client and read() *)

Send(m) ==
  /\ sent < MaxMessages
  /\ sent' = sent + 1
  /\ wire' = wire \o m
  /\ UNCHANGED <<buf, start, pc, http, answers, unread, history>>

\* The client reads an answer; or write() fails with an error, and
\* write_all leaves the answer at that.
Receive ==
  /\ unread > 0
  /\ unread' = unread - 1
  /\ UNCHANGED <<wire, sent, buf, start, pc, http, answers, history>>

\* The client has reset the connection that an answer is written to: no
\* code of the server ignores SIGPIPE, which ends the process.
BrokenPipe ==
  /\ unread > 0 /\ pc \notin {"closed", "crashed", "killed"}
  /\ pc' = "killed"
  /\ UNCHANGED <<wire, sent, buf, start, http, answers, unread, history>>

\* Mutant: the byte for the final NUL is not kept free.
Space_OffByOne == Cap + 1 - Len(buf)

Space == Cap - Len(buf)

Read(n) ==
  /\ pc = "read" /\ n <= Space /\ n <= Len(wire)
  /\ buf' = buf \o SubSeq(wire, 1, n)
  /\ wire' = SubSeq(wire, n + 1, Len(wire))
  /\ start' = 0
  /\ pc' = "scan"
  /\ recv' = recv \o SubSeq(wire, 1, n)
  /\ reads' = reads + 1
  /\ UNCHANGED <<sent, http, answers, done, token>>

\* Nothing more comes: the client has closed, or SO_RCVTIMEO is over.
ReadEnds ==
  /\ pc = "read" /\ wire = <<>>
  /\ pc' = "closed"
  /\ UNCHANGED <<wire, sent, buf, start, http, answers, history>>

\* Mutant: a read of no bytes is tried again.
ReadFull_Again ==
  /\ pc = "read" /\ Space = 0
  /\ UNCHANGED <<wire, sent, buf, start, pc, http, answers, history>>

\* The buffer is full: a read of no bytes returns 0, as if the client had
\* closed.
ReadFull ==
  /\ pc = "read" /\ Space = 0
  /\ pc' = "closed"
  /\ UNCHANGED <<wire, sent, buf, start, http, answers, history>>
-----------------------------------------------------------------------------
(* The loop over lines *)

Newlines == {i \in (start + 1)..Len(buf) : buf[i] = "NL"}

First(S) == CHOOSE i \in S : \A j \in S : i <= j

Nl == First(Newlines)

\* The C string at `start' once the newline is a NUL: it ends at the first
\* NUL, which may be that of a line processed after an earlier read.
Line ==
  LET ends == {i \in (start + 1)..Nl : buf[i] \in {"NUL", "NL"}}
  IN  SubSeq(buf, start + 1, First(ends) - 1)

\* Mutant: the newline stays in the buffer.
LineDone_KeepNewline == buf' = buf /\ start' = Nl

LineDone == buf' = [buf EXCEPT ![Nl] = "NUL"] /\ start' = Nl

\* Where iso_parse_request_line finds a request in a text.
Found(text) == {i \in DOMAIN text : text[i] \in Requests}

\* Executing the request in a text (the first field of each name is taken)
\* and answering, or declining the text.
Execute(text) ==
  /\ done' = IF Found(text) = {} THEN done ELSE Append(done, text[First(Found(text))])
  /\ answers' = answers + 1

Answer(n) == answers' = answers + n /\ UNCHANGED done

HaveLine == pc = "scan" /\ Newlines # {}

\* An empty line ends the headers, if there are any.
EndOfHeaders ==
  LET body == http.authz /\ http.tx /\ ~http.ping
      fits == http.length >= 0 /\ http.length <= BodyCap IN
  /\ HaveLine /\ Line = <<>> /\ http.collecting
  /\ Answer(IF body /\ fits THEN 0 ELSE 1)
  /\ http' = [http EXCEPT !.collecting = FALSE, !.ping = FALSE, !.authz = FALSE,
                          !.tx = @ /\ (body => fits),
                          !.remaining = IF body /\ fits THEN http.length ELSE @]
  /\ LineDone
  /\ UNCHANGED <<wire, sent, pc, recv, reads, token>>

BlankLine ==
  /\ HaveLine /\ Line = <<>> /\ ~http.collecting
  /\ LineDone
  /\ UNCHANGED <<wire, sent, pc, http, answers, history>>

StartPing ==
  /\ HaveLine /\ Line # <<>> /\ Head(Line) = "ping"
  /\ http' = [http EXCEPT !.collecting = TRUE, !.ping = TRUE, !.tx = FALSE,
                          !.authz = FALSE, !.length = -1]
  /\ token' = FALSE
  /\ LineDone
  /\ UNCHANGED <<wire, sent, pc, answers, done, recv, reads>>

\* Mutant: the Authorization of an earlier request is kept.
StartTx_KeepAuthz ==
  /\ HaveLine /\ Line # <<>> /\ Head(Line) = "tx"
  /\ http' = [http EXCEPT !.collecting = TRUE, !.ping = FALSE, !.tx = TRUE,
                          !.length = -1, !.remaining = 0, !.body = <<>>]
  /\ token' = FALSE
  /\ LineDone
  /\ UNCHANGED <<wire, sent, pc, answers, done, recv, reads>>

StartTx ==
  /\ HaveLine /\ Line # <<>> /\ Head(Line) = "tx"
  /\ http' = [http EXCEPT !.collecting = TRUE, !.ping = FALSE, !.tx = TRUE,
                          !.authz = FALSE, !.length = -1, !.remaining = 0,
                          !.body = <<>>]
  /\ token' = FALSE
  /\ LineDone
  /\ UNCHANGED <<wire, sent, pc, answers, done, recv, reads>>

Plain == HaveLine /\ Line # <<>> /\ Head(Line) \notin {"ping", "tx"}

\* Any other line is a header while headers are collected.
Header ==
  /\ Plain /\ http.collecting
  /\ http' = [http EXCEPT
       !.authz = @ \/ Head(Line) = "auth",
       !.length = IF Head(Line) \in DOMAIN ContentLength
                  THEN ContentLength[Head(Line)] ELSE @]
  /\ token' = (token \/ Head(Line) = "auth")
  /\ LineDone
  /\ UNCHANGED <<wire, sent, pc, answers, done, recv, reads>>

\* Mutant: the loop goes back to the start of the buffer.
RequestLine_FromStart ==
  /\ Plain /\ ~http.collecting
  /\ Execute(Line)
  /\ buf' = [buf EXCEPT ![Nl] = "NUL"] /\ start' = 0
  /\ UNCHANGED <<wire, sent, pc, http, recv, reads, token>>

\* A GET route that answers at once, or a request that goes through the
\* pipeline, or is declined before it.
RequestLine ==
  /\ Plain /\ ~http.collecting
  /\ IF Head(Line) = "get" THEN Answer(1) ELSE Execute(Line)
  /\ LineDone
  /\ UNCHANGED <<wire, sent, pc, http, recv, reads, token>>

NoMoreLines ==
  /\ pc = "scan" /\ Newlines = {}
  /\ pc' = "after"
  /\ UNCHANGED <<wire, sent, buf, start, http, answers, history>>
-----------------------------------------------------------------------------
(* Collecting the body *)

Avail == Len(buf) - start
Take == IF Avail < http.remaining THEN Avail ELSE http.remaining
Fits == Len(http.body) + Take <= BodyCap
Left == IF Fits THEN http.remaining - Take ELSE 0
Body == IF Fits THEN http.body \o SubSeq(buf, start + 1, start + Take) ELSE http.body
\* The final NUL takes the place of the last byte of a body that fills http_body.
BodyText == IF Len(Body) < BodyCap THEN Body ELSE SubSeq(Body, 1, BodyCap - 1)
Rest == IF Avail > 0 THEN SubSeq(buf, start + Take + 1, Len(buf)) ELSE buf

\* No body is collected: back to read(), with buf as it is.
NoBody ==
  /\ pc = "after" /\ http.remaining = 0
  /\ pc' = "read"
  /\ UNCHANGED <<wire, sent, buf, start, http, answers, history>>

BodyComplete ==
  /\ pc = "after" /\ http.remaining > 0 /\ Left = 0 /\ http.tx
  /\ Execute(BodyText)
  /\ http' = [http EXCEPT !.tx = FALSE, !.body = <<>>, !.length = -1, !.remaining = 0]
  /\ buf' = Rest
  /\ pc' = "read"
  /\ UNCHANGED <<wire, sent, start, recv, reads, token>>

\* The rest is moved to the front by the offset it had before the body was
\* taken; when that offset is past the end, the length of the move wraps
\* around and memmove runs out of the buffer.
BodyPartial ==
  /\ pc = "after" /\ http.remaining > 0 /\ ~(Left = 0 /\ http.tx)
  /\ http' = [http EXCEPT !.body = Body, !.remaining = Left]
  /\ \/ /\ start <= Len(Rest)
        /\ buf' = IF Len(Rest) - start = Cap THEN <<>>
                  ELSE SubSeq(Rest, start + 1, Len(Rest))
        /\ pc' = "read"
     \/ /\ start > Len(Rest)
        /\ buf' = <<>>
        /\ pc' = "crashed"
  /\ UNCHANGED <<wire, sent, start, answers, history>>

Ended == pc \in {"closed", "crashed", "killed"} /\ UNCHANGED vars

Step ==
  \/ \E n \in 1..Cap + 1 : Read(n)
  \/ ReadEnds \/ ReadFull
  \/ EndOfHeaders \/ BlankLine \/ StartPing \/ StartTx \/ Header \/ RequestLine
  \/ NoMoreLines \/ NoBody \/ BodyComplete \/ BodyPartial

\* write_all has returned from the last answer.
WriteAll == unread <= SockCap

Handler == WriteAll /\ Step /\ unread' = unread + (answers' - answers)

Next == Handler \/ Ended \/ Receive \/ BrokenPipe \/ \E m \in Messages : Send(m)

Spec == Init /\ [][Next]_vars

\* The worker runs, and a read returns data, the end, or times out.
FairSpec == Spec /\ WF_vars(Handler)

\* The client also reads what it is sent, sooner or later.
ReadingSpec == FairSpec /\ WF_vars(Receive)
-----------------------------------------------------------------------------
(* Properties *)

LineRoutes == Requests \cup {"get", "junk"}

\* The stream is nothing but lines with a request or a simple GET in each.
PlainStream ==
  \A i \in DOMAIN recv :
    IF i % 2 = 1 THEN recv[i] \in LineRoutes ELSE recv[i] = "NL"

NewlinesRead == Cardinality({i \in DOMAIN recv : recv[i] = "NL"})

\* "mỗi dòng request nhận 1 dòng response" (TEST_HUONGDAN_CHUYEN_SAU.md:42):
\* on a stream of lines there is one answer per line, however the stream is
\* cut into reads.
AnswerPerLine ==
  PlainStream /\ pc = "read" => answers = NewlinesRead

\* Where requests stand among the first k tokens of the stream.
Requested(k) == {i \in 1..k : recv[i] \in Requests}

\* What arrives in one read is executed completely, in order and once: the
\* requests of the lines that were read to their end are what was executed,
\* each at its rank in the stream.
SingleReadExact ==
  PlainStream /\ pc = "read" /\ reads = 1 =>
    LET ended == Len(recv) - (IF Last(recv) = "NL" THEN 0 ELSE 1) IN
    /\ Len(done) = Cardinality(Requested(ended))
    /\ \A i \in Requested(ended) : done[Cardinality(Requested(i))] = recv[i]

\* A body is collected, and so executed, only when the token was shown among
\* the headers of the same request.
BodyNeedsToken ==
  [][http.remaining = 0 /\ http'.remaining > 0 => token]_vars

\* handler.c:127: "to avoid hanging forever": the handler returns, and so
\* gives its worker back, whatever the client has sent and however it was
\* cut, unless the process ends in the move of a body's rest or by SIGPIPE.
HandlerReturns == [](pc \notin {"crashed", "killed"}) => <>(pc = "closed")

\* The requests of a stream, in order.
RequestsIn(text) == SelectSeq(text, LAMBDA b : b \in Requests)

\* README.md:77: "can handle multiple requests per TCP connection": on a
\* stream of lines the requests are executed in the order they were sent in,
\* each once.
EachLineOnce == PlainStream => IsPrefix(done, RequestsIn(recv))
=============================================================================
