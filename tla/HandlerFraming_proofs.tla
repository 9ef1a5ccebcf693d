----------------------- MODULE HandlerFraming_proofs -----------------------
(***************************************************************************)
(* Proofs about the read loop of one connection, for any buffer sizes, any *)
(* messages and any cut of the stream into reads.                          *)
(***************************************************************************)
EXTENDS HandlerFraming, FiniteSetTheorems, WellFoundedInduction, TLAPS

HttpType ==
  [collecting : BOOLEAN, ping : BOOLEAN, tx : BOOLEAN, authz : BOOLEAN,
   length : Int, remaining : Nat, body : Seq(Tokens)]

\* While the lines and the body are worked on, `start' is in the buffer.
StartInv == pc \in {"scan", "after"} => start <= Len(buf)

\* The Authorization flag of a request stands for a token of that request.
AuthzInv == http.authz => token

\* First is the least element.
LEMMA FirstLeast ==
  ASSUME NEW S, S \subseteq Nat, S # {}
  PROVE  First(S) \in S /\ \A j \in S : First(S) <= j
<1> DEFINE R == OpToRel(<, Nat)
<1>1. IsWellFoundedOn(R, Nat)
  BY NatLessThanWellFounded
<1>2. \A x, y \in Nat : <<y, x>> \in R <=> y < x
  BY DEF OpToRel
<1> HIDE DEF R
<1>3. PICK x \in S : \A y \in S : ~(<<y, x>> \in R)
  BY <1>1, WFMin
<1>4. \A y \in S : x \in Nat /\ y \in Nat /\ ~(y < x)
  BY <1>2, <1>3
<1>5. \A y \in S : x <= y
  BY <1>4
<1>6. \E i \in S : \A j \in S : i <= j
  BY <1>5
<1>7. QED
  BY <1>6 DEF First

LEMMA NewlineFound ==
  ASSUME TypeOK, HaveLine
  PROVE  Nl \in (start + 1)..Len(buf) /\ buf[Nl] = "NL" /\ \A j \in Newlines : Nl <= j
<1>1. Newlines \subseteq Nat /\ Newlines # {}
  BY DEF TypeOK, HaveLine, Newlines
<1>2. Nl \in Newlines /\ \A j \in Newlines : Nl <= j
  BY <1>1, FirstLeast DEF Nl
<1>3. QED
  BY <1>2 DEF Newlines

\* The line is what stands between `start' and the first NUL or newline.
LEMMA LineText ==
  ASSUME TypeOK, HaveLine
  PROVE  \E e \in (start + 1)..Nl :
           /\ buf[e] \in {"NUL", "NL"}
           /\ \A i \in (start + 1)..(e - 1) : buf[i] \notin {"NUL", "NL"}
           /\ Line \in Seq(Tokens) /\ Len(Line) = e - 1 - start
           /\ \A i \in 1..(e - 1 - start) : Line[i] = buf[start + i]
<1> DEFINE ends == {i \in (start + 1)..Nl : buf[i] \in {"NUL", "NL"}}
           e == First(ends)
<1>1. /\ Nl \in (start + 1)..Len(buf) /\ buf[Nl] = "NL" /\ Nl \in Nat
      /\ start \in Nat /\ buf \in Seq(Tokens) /\ Len(buf) \in Nat
  BY NewlineFound, FramingAssumption DEF TypeOK
<1>2. ends \subseteq Nat /\ Nl \in ends
  BY <1>1
<1>3. e \in ends /\ \A j \in ends : e <= j
  <2> HIDE DEF ends
  <2>1. QED
    BY <1>2, FirstLeast
<1>4. Line = SubSeq(buf, start + 1, e - 1)
  BY DEF Line
<1> HIDE DEF e
<1>5. e \in (start + 1)..Nl /\ buf[e] \in {"NUL", "NL"} /\ e \in Nat /\ e <= Len(buf)
  BY <1>1, <1>3
<1>6. \A i \in (start + 1)..(e - 1) : buf[i] \notin {"NUL", "NL"}
  <2> SUFFICES ASSUME NEW i \in (start + 1)..(e - 1), buf[i] \in {"NUL", "NL"} PROVE FALSE
    OBVIOUS
  <2>1. i \in ends
    BY <1>1, <1>5
  <2>2. e <= i
    BY <1>3, <2>1
  <2>3. QED
    BY <1>1, <1>5, <2>2
<1>7. /\ Line \in Seq(Tokens) /\ Len(Line) = e - 1 - start
      /\ \A i \in 1..(e - 1 - start) : Line[i] = buf[start + i]
  BY <1>1, <1>4, <1>5
<1>8. QED
  BY <1>5, <1>6, <1>7

\* Putting a NUL for the newline keeps the rest of the buffer.
LEMMA LineDoneEffect ==
  ASSUME TypeOK, HaveLine, LineDone
  PROVE  /\ buf' \in Seq(Tokens) /\ Len(buf') = Len(buf)
         /\ start' = Nl /\ start' \in 0..Cap /\ start' <= Len(buf')
         /\ \A i \in 1..Len(buf) : buf'[i] = IF i = Nl THEN "NUL" ELSE buf[i]
<1>1. /\ Nl \in 1..Len(buf) /\ buf \in Seq(Tokens) /\ Len(buf) \in Nat /\ Len(buf) <= Cap
      /\ Cap \in Nat
  BY NewlineFound, FramingAssumption DEF TypeOK
<1>2. "NUL" \in Tokens
  BY DEF Tokens
<1>3. buf' = [buf EXCEPT ![Nl] = "NUL"] /\ start' = Nl
  BY DEF LineDone
<1>4. DOMAIN buf = 1..Len(buf) /\ buf \in [1..Len(buf) -> Tokens]
  BY <1>1
<1>5. buf' \in [1..Len(buf) -> Tokens]
  BY <1>2, <1>3, <1>4
<1>6. buf' \in Seq(Tokens) /\ Len(buf') = Len(buf)
  BY <1>1, <1>5
<1>7. \A i \in 1..Len(buf) : buf'[i] = IF i = Nl THEN "NUL" ELSE buf[i]
  BY <1>3, <1>4
<1>8. QED
  BY <1>1, <1>3, <1>6, <1>7

\* Only requests are executed.
LEMMA ExecuteType ==
  ASSUME TypeOK, NEW text \in Seq(Tokens), Execute(text)
  PROVE  done' \in Seq(Requests) /\ answers' = answers + 1
<1>1. CASE Found(text) = {}
  BY <1>1 DEF Execute, TypeOK
<1>2. CASE Found(text) # {}
  <2>1. Found(text) \subseteq Nat
    BY DEF Found
  <2>2. First(Found(text)) \in Found(text)
    BY <1>2, <2>1, FirstLeast
  <2>3. text[First(Found(text))] \in Requests
    BY <2>2 DEF Found
  <2>4. QED
    BY <1>2, <2>3 DEF Execute, TypeOK
<1>3. QED
  BY <1>1, <1>2
-----------------------------------------------------------------------------
(* Type correctness *)

TypeInv == TypeOK /\ StartInv

\* The steps of the loop over lines.
LineStep == EndOfHeaders \/ BlankLine \/ StartPing \/ StartTx \/ Header \/ RequestLine

LEMMA HeadOfLine ==
  ASSUME TypeOK, HaveLine
  PROVE  Line \in Seq(Tokens)
BY LineText

LEMMA TypeLine ==
  ASSUME TypeInv, LineStep, unread' \in 0..SockCap + 1
  PROVE  TypeInv'
<1> USE FramingAssumption
<1>0. TypeOK /\ HaveLine /\ LineDone
  BY DEF TypeInv, LineStep, EndOfHeaders, BlankLine, StartPing, StartTx, Header,
         RequestLine, Plain
<1>1. /\ buf' \in Seq(Tokens) /\ Len(buf') <= Cap /\ start' \in 0..Cap /\ start' <= Len(buf')
  BY <1>0, LineDoneEffect DEF TypeOK
<1>2. UNCHANGED <<wire, sent, pc>>
  BY DEF LineStep, EndOfHeaders, BlankLine, StartPing, StartTx, Header, RequestLine
<1>3. answers' \in Nat /\ done' \in Seq(Requests)
  <2>1. CASE EndOfHeaders
    BY <1>0, <2>1 DEF EndOfHeaders, Answer, TypeOK
  <2>2. CASE BlankLine \/ StartPing \/ StartTx \/ Header
    BY <1>0, <2>2 DEF BlankLine, StartPing, StartTx, Header, history, TypeOK
  <2>3. CASE RequestLine
    <3>1. CASE Head(Line) = "get"
      BY <1>0, <2>3, <3>1 DEF RequestLine, Answer, TypeOK
    <3>2. CASE Head(Line) # "get"
      BY <1>0, <2>3, <3>2, HeadOfLine, ExecuteType DEF RequestLine, TypeOK
    <3>3. QED
      BY <3>1, <3>2
  <2>4. QED
    BY <2>1, <2>2, <2>3 DEF LineStep
<1>4. http' \in HttpType /\ Len(http'.body) <= BodyCap
  <2>0. http \in HttpType /\ Len(http.body) <= BodyCap
    BY <1>0 DEF TypeOK, HttpType
  <2>1. CASE EndOfHeaders
    <3> DEFINE body == http.authz /\ http.tx /\ ~http.ping
               fits == http.length >= 0 /\ http.length <= BodyCap
               left == IF body /\ fits THEN http.length ELSE http.remaining
               tx == http.tx /\ (body => fits)
    <3>1. left \in Nat /\ tx \in BOOLEAN
      BY <2>0 DEF HttpType
    <3>2. http' = [http EXCEPT !.collecting = FALSE, !.ping = FALSE, !.authz = FALSE,
                               !.tx = tx, !.remaining = left]
      BY <2>1 DEF EndOfHeaders
    <3> HIDE DEF body, fits, left, tx
    <3>3. QED
      BY <2>0, <3>1, <3>2 DEF HttpType
  <2>2. CASE BlankLine \/ RequestLine
    BY <2>0, <2>2 DEF BlankLine, RequestLine
  <2>3. CASE StartPing
    <3> DEFINE none == -1
    <3>1. none \in Int
      OBVIOUS
    <3>2. http' = [http EXCEPT !.collecting = TRUE, !.ping = TRUE, !.tx = FALSE,
                               !.authz = FALSE, !.length = none]
      BY <2>3 DEF StartPing
    <3> HIDE DEF none
    <3>3. QED
      BY <2>0, <3>1, <3>2 DEF HttpType
  <2>4. CASE StartTx
    <3> DEFINE none == -1
               empty == <<>>
    <3>1. none \in Int /\ empty \in Seq(Tokens) /\ Len(empty) = 0
      OBVIOUS
    <3>2. http' = [http EXCEPT !.collecting = TRUE, !.ping = FALSE, !.tx = TRUE,
                               !.authz = FALSE, !.length = none, !.remaining = 0,
                               !.body = empty]
      BY <2>4 DEF StartTx
    <3> HIDE DEF none, empty
    <3>3. http' \in HttpType /\ http'.body = empty
      BY <2>0, <3>1, <3>2 DEF HttpType
    <3>4. QED
      BY <3>1, <3>3
  <2>5. CASE Header
    <3> DEFINE a == http.authz \/ Head(Line) = "auth"
               n == IF Head(Line) \in DOMAIN ContentLength
                    THEN ContentLength[Head(Line)] ELSE http.length
    <3>1. a \in BOOLEAN /\ n \in Int
      BY <2>0 DEF HttpType
    <3>2. http' = [http EXCEPT !.authz = a, !.length = n]
      BY <2>5 DEF Header
    <3> HIDE DEF a, n
    <3>3. QED
      BY <2>0, <3>1, <3>2 DEF HttpType
  <2>6. QED
    BY <2>1, <2>2, <2>3, <2>4, <2>5 DEF LineStep
<1>5. QED
  BY <1>0, <1>1, <1>2, <1>3, <1>4 DEF TypeInv, TypeOK, StartInv, HttpType

LEMMA TypeRead ==
  ASSUME TypeInv, NEW n \in 1..Cap + 1, Read(n), unread' \in 0..SockCap + 1
  PROVE  TypeInv'
<1>1. /\ buf \in Seq(Tokens) /\ wire \in Seq(Tokens) /\ n \in Nat
      /\ n <= Cap - Len(buf) /\ n <= Len(wire) /\ Cap \in Nat
  BY FramingAssumption DEF TypeInv, TypeOK, Read, Space
<1>2. /\ SubSeq(wire, 1, n) \in Seq(Tokens) /\ Len(SubSeq(wire, 1, n)) = n
      /\ SubSeq(wire, n + 1, Len(wire)) \in Seq(Tokens)
  BY <1>1
<1>3. /\ buf' \in Seq(Tokens) /\ Len(buf') = Len(buf) + n
      /\ wire' \in Seq(Tokens)
  BY <1>1, <1>2 DEF Read
<1>4. Len(buf') <= Cap /\ start' = 0 /\ start' \in 0..Cap /\ start' <= Len(buf')
  BY <1>1, <1>3 DEF Read
<1>5. QED
  BY <1>3, <1>4 DEF TypeInv, TypeOK, StartInv, Read

LEMMA TypeBody ==
  ASSUME TypeInv, BodyComplete \/ BodyPartial, unread' \in 0..SockCap + 1
  PROVE  TypeInv'
<1>0. /\ TypeOK /\ buf \in Seq(Tokens) /\ Len(buf) \in Nat /\ Len(buf) <= Cap
      /\ start \in Nat /\ start <= Len(buf) /\ Cap \in Nat /\ BodyCap \in Nat \ {0}
      /\ http \in HttpType /\ http.body \in Seq(Tokens) /\ Len(http.body) <= BodyCap
      /\ http.remaining \in Nat /\ http.remaining > 0
  BY FramingAssumption
     DEF TypeInv, TypeOK, StartInv, HttpType, BodyComplete, BodyPartial
<1>1. /\ Take \in Nat /\ Take <= http.remaining /\ start + Take <= Len(buf)
      /\ Left \in Nat
  BY <1>0 DEF Take, Avail, Left
<1>2. Body \in Seq(Tokens) /\ Len(Body) <= BodyCap
  <2>1. CASE Fits
    <3>1. /\ SubSeq(buf, start + 1, start + Take) \in Seq(Tokens)
          /\ Len(SubSeq(buf, start + 1, start + Take)) = Take
      BY <1>0, <1>1
    <3>2. Body = http.body \o SubSeq(buf, start + 1, start + Take)
      BY <2>1 DEF Body
    <3>3. Len(Body) = Len(http.body) + Take /\ Body \in Seq(Tokens)
      BY <1>0, <3>1, <3>2
    <3>4. QED
      BY <1>0, <1>1, <2>1, <3>3 DEF Fits
  <2>2. CASE ~Fits
    BY <1>0, <2>2 DEF Body
  <2>3. QED
    BY <2>1, <2>2
<1>3. BodyText \in Seq(Tokens)
  BY <1>0, <1>2 DEF BodyText
<1>4. Rest \in Seq(Tokens) /\ Len(Rest) <= Cap
  <2>1. CASE Avail > 0
    <3>1. /\ SubSeq(buf, start + Take + 1, Len(buf)) \in Seq(Tokens)
          /\ Len(SubSeq(buf, start + Take + 1, Len(buf))) = Len(buf) - (start + Take)
      BY <1>0, <1>1
    <3>2. QED
      BY <1>0, <1>1, <2>1, <3>1 DEF Rest
  <2>2. CASE ~(Avail > 0)
    BY <1>0, <2>2 DEF Rest
  <2>3. QED
    BY <2>1, <2>2
<1>5. CASE BodyComplete
  <2>1. done' \in Seq(Requests) /\ answers' \in Nat
    BY <1>0, <1>3, <1>5, ExecuteType DEF BodyComplete, TypeOK
  <2> DEFINE none == -1
             empty == <<>>
  <2>a. none \in Int /\ empty \in Seq(Tokens) /\ Len(empty) = 0
    OBVIOUS
  <2>b. http' = [http EXCEPT !.tx = FALSE, !.body = empty, !.length = none, !.remaining = 0]
    BY <1>5 DEF BodyComplete
  <2> HIDE DEF none, empty
  <2>2. http' \in HttpType /\ http'.body = empty
    BY <1>0, <2>a, <2>b DEF HttpType
  <2>3. Len(http'.body) <= BodyCap
    BY <1>0, <2>a, <2>2
  <2>4. QED
    BY <1>0, <1>4, <1>5, <2>1, <2>2, <2>3 DEF BodyComplete, TypeInv, TypeOK, StartInv, HttpType
<1>6. CASE BodyPartial
  <2>1. http' \in HttpType /\ http'.body = Body
    BY <1>0, <1>1, <1>2, <1>6 DEF BodyPartial, HttpType
  <2>2. buf' \in Seq(Tokens) /\ Len(buf') <= Cap
    <3>1. CASE buf' = <<>>
      BY <1>0, <3>1
    <3>2. CASE start <= Len(Rest) /\ buf' = SubSeq(Rest, start + 1, Len(Rest))
      <4>1. /\ SubSeq(Rest, start + 1, Len(Rest)) \in Seq(Tokens)
            /\ Len(SubSeq(Rest, start + 1, Len(Rest))) = Len(Rest) - start
        BY <1>0, <1>4, <3>2
      <4>2. QED
        BY <1>0, <1>4, <3>2, <4>1
    <3>3. QED
      BY <1>6, <3>1, <3>2 DEF BodyPartial
  <2>3. pc' \in {"read", "crashed"}
    BY <1>6 DEF BodyPartial
  <2>4. QED
    BY <1>0, <1>2, <1>6, <2>1, <2>2, <2>3
       DEF BodyPartial, TypeInv, TypeOK, StartInv, HttpType, history
<1>7. QED
  BY <1>5, <1>6

\* A step of the handler gives at most one answer to write_all.
LEMMA OneAnswerAStep ==
  ASSUME TypeOK, Step
  PROVE  answers' \in {answers, answers + 1}
<1>0. answers \in Nat
  BY DEF TypeOK
<1>1. CASE EndOfHeaders
  BY <1>0, <1>1 DEF EndOfHeaders, Answer
<1>2. CASE RequestLine \/ BodyComplete
  BY <1>0, <1>2 DEF RequestLine, BodyComplete, Execute, Answer
<1>3. CASE \/ (\E n \in 1..Cap + 1 : Read(n)) \/ ReadEnds \/ ReadFull \/ NoMoreLines
           \/ NoBody \/ BodyPartial \/ BlankLine \/ StartPing \/ StartTx \/ Header
  BY <1>3 DEF Read, ReadEnds, ReadFull, NoMoreLines, NoBody, BodyPartial, BlankLine,
              StartPing, StartTx, Header
<1>4. QED
  BY <1>1, <1>2, <1>3 DEF Step

\* So no more than one is ever beyond what the socket holds.
LEMMA UnreadBound ==
  ASSUME TypeOK, Handler
  PROVE  unread' \in 0..SockCap + 1
<1>1. answers' \in {answers, answers + 1}
  BY OneAnswerAStep DEF Handler
<1>2. /\ answers \in Nat /\ unread \in Nat /\ SockCap \in Nat /\ unread <= SockCap
      /\ unread' = unread + (answers' - answers)
  BY FramingAssumption DEF Handler, WriteAll, TypeOK
<1>3. CASE answers' = answers
  BY <1>2, <1>3
<1>4. CASE answers' = answers + 1
  <2>1. unread' = unread + 1
    BY <1>2, <1>4
  <2>2. QED
    BY <1>2, <2>1
<1>5. QED
  BY <1>1, <1>3, <1>4

LEMMA TypeStep == TypeInv /\ [Next]_vars => TypeInv'
<1> SUFFICES ASSUME TypeInv, [Next]_vars PROVE TypeInv'
  OBVIOUS
<1>0. Handler => unread' \in 0..SockCap + 1
  BY UnreadBound DEF TypeInv
<1>1. CASE Handler /\ LineStep
  BY <1>0, <1>1, TypeLine
<1>2. ASSUME Handler, NEW n \in 1..Cap + 1, Read(n) PROVE TypeInv'
  BY <1>0, <1>2, TypeRead
<1>3. CASE Handler /\ (BodyComplete \/ BodyPartial)
  BY <1>0, <1>3, TypeBody
<1>4. CASE Handler /\ (ReadEnds \/ ReadFull \/ NoMoreLines \/ NoBody)
  BY <1>0, <1>4 DEF ReadEnds, ReadFull, NoMoreLines, NoBody, TypeInv, TypeOK, StartInv, history
<1>5. ASSUME NEW m \in Messages, Send(m) PROVE TypeInv'
  <2>1. m \in Seq(Tokens)
    <3>1. m \in Seq(Tokens \ {"NUL"})
      BY FramingAssumption
    <3>2. QED
      BY <3>1
  <2>2. wire' \in Seq(Tokens) /\ sent' \in 0..MaxMessages
    BY <1>5, <2>1, FramingAssumption DEF Send, TypeInv, TypeOK
  <2>3. QED
    BY <1>5, <2>2 DEF Send, TypeInv, TypeOK, StartInv, history
<1>6. CASE Receive \/ BrokenPipe
  <2>1. unread' \in 0..SockCap + 1
    BY <1>6, FramingAssumption DEF Receive, BrokenPipe, TypeInv, TypeOK
  <2>2. QED
    BY <1>6, <2>1 DEF Receive, BrokenPipe, TypeInv, TypeOK, StartInv, history
<1>7. CASE UNCHANGED vars
  BY <1>7 DEF vars, history, TypeInv, TypeOK, StartInv
<1>8. QED
  BY <1>1, <1>2, <1>3, <1>4, <1>5, <1>6, <1>7 DEF Next, Handler, Step, Ended, LineStep

LEMMA TypeInit == Init => TypeInv
<1> SUFFICES ASSUME Init PROVE TypeInv
  OBVIOUS
<1>1. <<>> \in Seq(Tokens) /\ <<>> \in Seq(Requests) /\ Len(<<>>) = 0
  OBVIOUS
<1>2. http \in HttpType /\ http.body = <<>>
  BY <1>1 DEF Init, HttpType
<1>3. Len(http.body) <= BodyCap /\ Len(buf) <= Cap
  BY <1>1, <1>2, FramingAssumption DEF Init
<1>4. 0 \in 0..Cap /\ 0 \in 0..MaxMessages /\ 0 \in 0..SockCap + 1
  BY FramingAssumption
<1>5. QED
  BY <1>1, <1>2, <1>3, <1>4 DEF Init, TypeInv, TypeOK, StartInv, HttpType

\* The state is well typed: neither buffer is ever written past its end, the
\* byte for the final NUL stays free, and only requests are executed
\* (handler_job).
THEOREM FramingTypes == Spec => []TypeOK
<1>1. TypeInv => TypeOK
  BY DEF TypeInv
<1>2. QED
  BY <1>1, TypeInit, TypeStep, PTL DEF Spec
-----------------------------------------------------------------------------
(* The token *)

LEMMA AuthzStep == TypeInv /\ AuthzInv /\ [Next]_vars => AuthzInv'
<1> SUFFICES ASSUME TypeInv, AuthzInv, [Next]_vars, http'.authz PROVE token'
  BY DEF AuthzInv
<1>0. http \in HttpType
  BY DEF TypeInv, TypeOK, HttpType
<1>1. CASE EndOfHeaders \/ StartPing \/ StartTx
  <2>1. ~http'.authz
    BY <1>0, <1>1 DEF EndOfHeaders, StartPing, StartTx, HttpType
  <2>2. QED
    BY <2>1
<1>2. CASE Header
  <2>1. http'.authz = (http.authz \/ Head(Line) = "auth")
    BY <1>0, <1>2 DEF Header, HttpType
  <2>2. QED
    BY <1>2, <2>1 DEF Header, AuthzInv
<1>3. CASE BodyComplete \/ BodyPartial
  <2>1. http'.authz = http.authz
    BY <1>0, <1>3 DEF BodyComplete, BodyPartial, HttpType
  <2>2. QED
    BY <1>3, <2>1 DEF BodyComplete, BodyPartial, AuthzInv, history
<1>4. CASE UNCHANGED <<http, token>>
  BY <1>4 DEF AuthzInv
<1>5. CASE \/ (\E n \in 1..Cap + 1 : Read(n)) \/ (\E m \in Messages : Send(m))
           \/ ReadEnds \/ ReadFull \/ NoMoreLines \/ NoBody \/ BlankLine \/ RequestLine
           \/ Receive \/ BrokenPipe \/ UNCHANGED vars
  BY <1>4, <1>5 DEF Read, Send, ReadEnds, ReadFull, NoMoreLines, NoBody, BlankLine,
                    RequestLine, Receive, BrokenPipe, vars, history
<1>6. QED
  BY <1>1, <1>2, <1>3, <1>5 DEF Next, Handler, Step, Ended

\* Only the end of the headers starts a body, and only for a request whose
\* Authorization flag is set.
LEMMA BodyStarts ==
  ASSUME TypeInv, [Next]_vars, http.remaining = 0, http'.remaining > 0
  PROVE  http.authz
<1>0. http \in HttpType
  BY DEF TypeInv, TypeOK, HttpType
<1>1. CASE EndOfHeaders
  <2> DEFINE body == http.authz /\ http.tx /\ ~http.ping
             fits == http.length >= 0 /\ http.length <= BodyCap
  <2>1. http'.remaining = IF body /\ fits THEN http.length ELSE http.remaining
    BY <1>0, <1>1 DEF EndOfHeaders, HttpType
  <2>2. QED
    BY <2>1
<1>2. CASE StartPing \/ StartTx \/ Header
  <2>1. http'.remaining = 0
    BY <1>0, <1>2 DEF StartPing, StartTx, Header, HttpType
  <2>2. QED
    BY <2>1
<1>3. ~(BodyComplete \/ BodyPartial)
  BY DEF BodyComplete, BodyPartial
<1>4. ~UNCHANGED http
  OBVIOUS
<1>5. QED
  BY <1>1, <1>2, <1>3, <1>4
     DEF Next, Handler, Step, Ended, Read, Send, ReadEnds, ReadFull, NoMoreLines, NoBody,
         BlankLine, RequestLine, Receive, BrokenPipe, vars

\* A body is collected only for a request that has shown the token among its
\* own headers: no flag of an earlier request on the connection is left
\* (handler_job).
THEOREM TokenFirst == Spec => BodyNeedsToken
<1>1. Init => TypeInv /\ AuthzInv
  BY TypeInit DEF Init, AuthzInv
<1>2. TypeInv /\ AuthzInv /\ [Next]_vars
      => [http.remaining = 0 /\ http'.remaining > 0 => token]_vars
  BY BodyStarts DEF AuthzInv
<1>3. QED
  BY <1>1, <1>2, TypeStep, AuthzStep, PTL DEF Spec, BodyNeedsToken
-----------------------------------------------------------------------------
(* One answer a line *)

\* The newlines that have been turned into a NUL.
Terminated == {i \in 1..Len(buf) : buf[i] = "NUL"}

\* On a stream of lines the buffer is the whole stream (it is never moved),
\* with a NUL for every newline up to `start', and every NUL was answered.
PlainState ==
  /\ http.collecting = FALSE /\ http.remaining = 0
  /\ Len(buf) = Len(recv)
  /\ \A i \in 1..Len(recv) :
       buf[i] = recv[i] \/ (recv[i] = "NL" /\ buf[i] = "NUL")
  /\ answers = Cardinality(Terminated)
  /\ pc = "scan" => /\ start = 0 \/ recv[start] = "NL"
                    /\ \A i \in 1..start : buf[i] # "NL"
  /\ pc \in {"read", "after"} => \A i \in 1..Len(buf) : buf[i] # "NL"

PlainInv == recv \in Seq(Tokens) /\ (PlainStream => PlainState)

\* The tokens of a line are not control characters or secure routes.
LEMMA RouteTokens ==
  ASSUME NEW b \in LineRoutes
  PROVE  b \in Tokens /\ b \notin {"NL", "NUL", "ping", "tx"}
BY FramingAssumption DEF LineRoutes, Tokens

\* The elements of a concatenation.
LEMMA Joined ==
  ASSUME NEW a \in Seq(Tokens), NEW b \in Seq(Tokens)
  PROVE  /\ a \o b \in Seq(Tokens) /\ Len(a \o b) = Len(a) + Len(b)
         /\ \A i \in 1..Len(a) : (a \o b)[i] = a[i]
         /\ \A i \in 1..Len(b) : (a \o b)[Len(a) + i] = b[i]
<1>1. Len(a) \in Nat /\ Len(b) \in Nat /\ a \o b \in Seq(Tokens) /\ Len(a \o b) = Len(a) + Len(b)
  OBVIOUS
<1>2. \A i \in 1..Len(a) : (a \o b)[i] = a[i]
  BY <1>1
<1>3. ASSUME NEW i \in 1..Len(b) PROVE (a \o b)[Len(a) + i] = b[i]
  <2>1. Len(a) + i \in 1..(Len(a) + Len(b)) /\ Len(a) + i > Len(a) /\ Len(a) + i - Len(a) = i
    BY <1>1
  <2>2. QED
    BY <1>1, <2>1
<1>4. QED
  BY <1>1, <1>2, <1>3

LEMMA PlainRead ==
  ASSUME TypeInv, PlainInv, NEW n \in 1..Cap + 1, Read(n)
  PROVE  PlainInv'
<1>1. /\ buf \in Seq(Tokens) /\ wire \in Seq(Tokens) /\ n \in Nat /\ recv \in Seq(Tokens)
      /\ n <= Len(wire) /\ pc = "read" /\ Len(buf) \in Nat /\ Len(recv) \in Nat
  BY FramingAssumption DEF TypeInv, TypeOK, Read, PlainInv
<1> DEFINE new == SubSeq(wire, 1, n)
<1>2. new \in Seq(Tokens) /\ Len(new) = n
  BY <1>1
<1>3. recv' = recv \o new /\ buf' = buf \o new /\ start' = 0 /\ pc' = "scan"
      /\ http' = http /\ answers' = answers
  BY DEF Read
<1> HIDE DEF new
<1>4. /\ recv' \in Seq(Tokens) /\ Len(recv') = Len(recv) + n
      /\ \A i \in 1..Len(recv) : recv'[i] = recv[i]
      /\ \A i \in 1..n : recv'[Len(recv) + i] = new[i]
  BY <1>1, <1>2, <1>3, Joined
<1>5. /\ buf' \in Seq(Tokens) /\ Len(buf') = Len(buf) + n
      /\ \A i \in 1..Len(buf) : buf'[i] = buf[i]
      /\ \A i \in 1..n : buf'[Len(buf) + i] = new[i]
  BY <1>1, <1>2, <1>3, Joined
<1>6. ASSUME PlainStream' PROVE PlainState'
  <2>1. \A i \in 1..Len(recv') :
          IF i % 2 = 1 THEN recv'[i] \in LineRoutes ELSE recv'[i] = "NL"
    BY <1>4, <1>6 DEF PlainStream
  <2>2. PlainStream
    <3>1. \A i \in 1..Len(recv) : i \in 1..Len(recv') /\ recv'[i] = recv[i]
      BY <1>1, <1>4
    <3>2. QED
      BY <1>1, <2>1, <3>1 DEF PlainStream
  <2>3. PlainState
    BY <2>2 DEF PlainInv, PlainState
  <2>4. \A i \in 1..Len(recv') : recv'[i] # "NUL"
    BY <2>1, RouteTokens
  <2>5. Len(buf') = Len(recv')
    BY <1>4, <1>5, <2>3 DEF PlainState
  <2>6. \A i \in 1..Len(recv') : i \in 1..Len(recv) \/ \E j \in 1..n : i = Len(recv) + j
    <3> SUFFICES ASSUME NEW i \in 1..Len(recv'), ~(i \in 1..Len(recv))
                 PROVE  \E j \in 1..n : i = Len(recv) + j
      OBVIOUS
    <3>1. i - Len(recv) \in 1..n /\ i = Len(recv) + (i - Len(recv))
      BY <1>1, <1>4
    <3>2. QED
      BY <3>1
  <2>7. \A i \in 1..Len(recv') :
          buf'[i] = recv'[i] \/ (recv'[i] = "NL" /\ buf'[i] = "NUL")
    <3> TAKE i \in 1..Len(recv')
    <3>1. CASE i \in 1..Len(recv)
      BY <1>4, <1>5, <2>3, <3>1 DEF PlainState
    <3>2. ASSUME NEW j \in 1..n, i = Len(recv) + j PROVE buf'[i] = recv'[i]
      BY <1>4, <1>5, <2>3, <3>2 DEF PlainState
    <3>3. QED
      BY <2>6, <3>1, <3>2
  <2>8. Terminated' = Terminated
    <3>1. \A i \in 1..Len(buf') : buf'[i] = "NUL" => i \in 1..Len(buf) /\ buf[i] = "NUL"
      <4> TAKE i \in 1..Len(buf')
      <4>1. CASE i \in 1..Len(recv)
        BY <1>5, <2>3, <4>1 DEF PlainState
      <4>2. ASSUME NEW j \in 1..n, i = Len(recv) + j PROVE buf'[i] # "NUL"
        <5>1. buf'[i] = recv'[i]
          BY <1>4, <1>5, <2>3, <4>2 DEF PlainState
        <5>2. QED
          BY <2>4, <2>5, <5>1
      <4>3. QED
        BY <2>5, <2>6, <4>1, <4>2
    <3>2. \A i \in 1..Len(buf) : i \in 1..Len(buf') /\ buf'[i] = buf[i]
      BY <1>1, <1>5
    <3>3. QED
      BY <3>1, <3>2 DEF Terminated
  <2>9. QED
    BY <1>3, <2>3, <2>5, <2>7, <2>8 DEF PlainState
<1>7. QED
  BY <1>4, <1>6 DEF PlainInv, PlainState

\* On a stream of lines every step of the loop is a line of the stream, which
\* begins after `start' and is not empty.
LEMMA LineOfStream ==
  ASSUME TypeInv, PlainInv, PlainStream, LineStep
  PROVE  /\ RequestLine /\ PlainState
         /\ Nl \in (start + 1)..Len(buf) /\ buf[Nl] = "NL" /\ \A j \in Newlines : Nl <= j
         /\ Len(buf) = Len(recv) /\ Nl \in 1..Len(buf)
         /\ start + 1 \in 1..Len(recv) /\ (start + 1) % 2 = 1
         /\ recv[start + 1] \in LineRoutes /\ buf[start + 1] \notin {"NL", "NUL"}
<1>0. TypeOK /\ HaveLine /\ pc = "scan"
  BY DEF TypeInv, LineStep, EndOfHeaders, BlankLine, StartPing, StartTx, Header,
         RequestLine, Plain, HaveLine
<1>1. Len(recv) \in Nat /\ start \in Nat
  BY <1>0 DEF PlainInv, TypeOK
<1>2. PlainState
  BY DEF PlainInv, PlainState
<1>3. \A i \in 1..Len(recv) :
        IF i % 2 = 1 THEN recv[i] \in LineRoutes ELSE recv[i] = "NL"
  BY DEF PlainStream, PlainInv
<1>4. /\ Nl \in (start + 1)..Len(buf) /\ buf[Nl] = "NL" /\ \A j \in Newlines : Nl <= j
      /\ Len(buf) = Len(recv) /\ Nl \in 1..Len(buf)
  BY <1>0, <1>1, <1>2, NewlineFound DEF PlainState
<1>5. start + 1 \in 1..Len(recv) /\ (start + 1) % 2 = 1
  <2>1. CASE start = 0
    BY <1>1, <1>4, <2>1
  <2>2. CASE start # 0
    <3>1. start \in 1..Len(recv) /\ recv[start] = "NL"
      BY <1>0, <1>1, <1>2, <1>4, <2>2 DEF PlainState
    <3>2. start % 2 # 1
      BY <1>3, <3>1, RouteTokens
    <3>3. QED
      BY <1>1, <1>4, <3>2
  <2>3. QED
    BY <2>1, <2>2
<1>6. recv[start + 1] \in LineRoutes
  BY <1>3, <1>5
<1>7. buf[start + 1] \notin {"NL", "NUL", "ping", "tx"}
  BY <1>2, <1>5, <1>6, RouteTokens DEF PlainState
<1>8. PICK e \in (start + 1)..Nl :
         /\ buf[e] \in {"NUL", "NL"}
         /\ Line \in Seq(Tokens) /\ Len(Line) = e - 1 - start
         /\ \A i \in 1..(e - 1 - start) : Line[i] = buf[start + i]
  BY <1>0, LineText
<1>9. e # start + 1 /\ e - 1 - start \in Nat \ {0} /\ 1 \in 1..(e - 1 - start)
  BY <1>1, <1>4, <1>7, <1>8
<1>10. Line # <<>> /\ Head(Line) \notin {"ping", "tx"}
  <2>1. Line[1] = buf[start + 1] /\ Len(Line) # 0
    BY <1>8, <1>9
  <2>2. Line # <<>> /\ Head(Line) = Line[1]
    BY <1>8, <2>1
  <2>3. QED
    BY <1>7, <2>1, <2>2
<1>11. RequestLine
  BY <1>2, <1>10
     DEF PlainState, LineStep, EndOfHeaders, BlankLine, StartPing, StartTx, Header
<1>12. QED
  BY <1>2, <1>4, <1>5, <1>6, <1>7, <1>11

\* So every step of the loop answers one line.
LEMMA PlainLine ==
  ASSUME TypeInv, PlainInv, LineStep
  PROVE  PlainInv'
<1>0. TypeOK /\ HaveLine /\ LineDone /\ pc = "scan" /\ UNCHANGED <<recv, pc>>
  BY DEF TypeInv, LineStep, EndOfHeaders, BlankLine, StartPing, StartTx, Header,
         RequestLine, Plain, HaveLine, history
<1>1. recv' \in Seq(Tokens) /\ Len(recv) \in Nat /\ start \in Nat /\ answers \in Nat
  BY <1>0 DEF PlainInv, TypeOK
<1>2. ASSUME PlainStream' PROVE PlainState'
  <2>1. PlainStream
    BY <1>0, <1>2 DEF PlainStream
  <2>2. PlainState /\ RequestLine
    BY <2>1, LineOfStream
  <2>3. /\ Nl \in (start + 1)..Len(buf) /\ buf[Nl] = "NL" /\ \A j \in Newlines : Nl <= j
        /\ Len(buf) = Len(recv) /\ Nl \in 1..Len(buf)
    BY <2>1, LineOfStream
  <2>4. answers' = answers + 1
    BY <2>2 DEF RequestLine, Execute, Answer
  <2>5. /\ Len(buf') = Len(buf) /\ start' = Nl
         /\ \A i \in 1..Len(buf) : buf'[i] = IF i = Nl THEN "NUL" ELSE buf[i]
    BY <1>0, LineDoneEffect
  <2>6. Cardinality(Terminated') = Cardinality(Terminated) + 1
    <3>1. Terminated' = Terminated \cup {Nl} /\ Nl \notin Terminated
      BY <2>3, <2>5 DEF Terminated
    <3>2. IsFiniteSet(Terminated)
      <4>1. IsFiniteSet(1..Len(buf))
        BY <1>1, <2>3, FS_Interval
      <4>2. QED
        BY <4>1, FS_Subset DEF Terminated
    <3>3. QED
      BY <3>1, <3>2, FS_AddElement
  <2>7. answers' = Cardinality(Terminated')
    BY <2>2, <2>4, <2>6 DEF PlainState
  <2>8. recv'[start'] = "NL" /\ \A i \in 1..start' : buf'[i] # "NL"
    <3>1. recv[Nl] = "NL"
      BY <2>2, <2>3 DEF PlainState
    <3>2. \A i \in 1..Nl : i \in 1..Len(buf) /\ (i <= start \/ i = Nl \/ i \in (start + 1)..(Nl - 1))
      BY <1>1, <2>3
    <3>3. \A i \in 1..Nl : i # Nl => buf[i] # "NL"
      <4> SUFFICES ASSUME NEW i \in 1..Nl, i # Nl, buf[i] = "NL" PROVE FALSE
        OBVIOUS
      <4>1. CASE i <= start
        BY <1>0, <1>1, <2>2, <4>1 DEF PlainState
      <4>2. CASE i \in (start + 1)..(Nl - 1)
        <5>1. i \in Newlines
          BY <1>1, <2>3, <3>2, <4>2 DEF Newlines
        <5>2. QED
          BY <1>1, <2>3, <4>2, <5>1
      <4>3. QED
        BY <3>2, <4>1, <4>2
    <3>4. QED
      BY <1>0, <2>5, <3>1, <3>2, <3>3
  <2>9. http'.collecting = FALSE /\ http'.remaining = 0
    BY <2>2 DEF RequestLine, PlainState
  <2>10. \A i \in 1..Len(recv') :
           buf'[i] = recv'[i] \/ (recv'[i] = "NL" /\ buf'[i] = "NUL")
    <3>1. \A i \in 1..Len(recv) : i = Nl => recv[i] = "NL"
      BY <2>2, <2>3 DEF PlainState
    <3>2. QED
      BY <1>0, <2>2, <2>3, <2>5, <3>1 DEF PlainState
  <2>11. Len(buf') = Len(recv') /\ pc' = "scan"
    BY <1>0, <2>3, <2>5
  <2>12. QED
    BY <2>7, <2>8, <2>9, <2>10, <2>11 DEF PlainState
<1>3. QED
  BY <1>1, <1>2 DEF PlainInv, PlainState

LEMMA PlainStep == TypeInv /\ PlainInv /\ [Next]_vars => PlainInv'
<1> SUFFICES ASSUME TypeInv, PlainInv, [Next]_vars PROVE PlainInv'
  OBVIOUS
<1>1. CASE LineStep
  BY <1>1, PlainLine
<1>2. ASSUME NEW n \in 1..Cap + 1, Read(n) PROVE PlainInv'
  BY <1>2, PlainRead
<1>3. CASE BodyComplete \/ BodyPartial
  <2>1. http.remaining # 0 /\ UNCHANGED recv
    BY <1>3 DEF BodyComplete, BodyPartial, history, TypeInv, TypeOK
  <2>2. ~PlainStream
    BY <2>1 DEF PlainInv, PlainState
  <2>3. ~PlainStream'
    BY <2>1, <2>2 DEF PlainStream
  <2>4. QED
    BY <2>1, <2>3 DEF PlainInv, PlainState
<1>4. CASE NoMoreLines
  <2>1. UNCHANGED <<recv, buf, start, http, answers>> /\ pc = "scan" /\ pc' = "after"
    BY <1>4 DEF NoMoreLines, history
  <2>2. start \in Nat /\ Len(buf) \in Nat /\ Newlines = {}
    BY <1>4 DEF TypeInv, TypeOK, NoMoreLines
  <2>3. ASSUME PlainStream PROVE \A i \in 1..Len(buf) : buf[i] # "NL"
    <3> SUFFICES ASSUME NEW i \in 1..Len(buf), buf[i] = "NL" PROVE FALSE
      OBVIOUS
    <3>1. CASE i <= start
      BY <2>1, <2>2, <2>3, <3>1 DEF PlainInv, PlainState
    <3>2. CASE i > start
      <4>1. i \in Newlines
        BY <2>2, <3>2 DEF Newlines
      <4>2. QED
        BY <2>2, <4>1
    <3>3. QED
      BY <2>2, <3>1, <3>2
  <2>4. PlainStream' = PlainStream /\ Terminated' = Terminated
    BY <2>1 DEF PlainStream, Terminated
  <2>5. QED
    BY <2>1, <2>3, <2>4 DEF PlainInv, PlainState
<1>5. CASE NoBody
  <2>1. UNCHANGED <<recv, buf, start, http, answers>> /\ pc = "after" /\ pc' = "read"
    BY <1>5 DEF NoBody, history
  <2>2. PlainStream' = PlainStream /\ Terminated' = Terminated
    BY <2>1 DEF PlainStream, Terminated
  <2>3. QED
    BY <2>1, <2>2 DEF PlainInv, PlainState
<1>6. CASE ReadEnds \/ ReadFull
  <2>1. UNCHANGED <<recv, buf, start, http, answers>> /\ pc' = "closed"
    BY <1>6 DEF ReadEnds, ReadFull, history
  <2>2. PlainStream' = PlainStream /\ Terminated' = Terminated
    BY <2>1 DEF PlainStream, Terminated
  <2>3. QED
    BY <2>1, <2>2 DEF PlainInv, PlainState
<1>7. CASE (\E m \in Messages : Send(m)) \/ Receive \/ BrokenPipe \/ UNCHANGED vars
  <2>1. UNCHANGED <<recv, buf, start, http, answers>> /\ pc' \in {pc, "killed"}
    BY <1>7 DEF Send, Receive, BrokenPipe, vars, history
  <2>2. PlainStream' = PlainStream /\ Terminated' = Terminated
    BY <2>1 DEF PlainStream, Terminated
  <2>3. QED
    BY <2>1, <2>2 DEF PlainInv, PlainState
<1>8. QED
  BY <1>1, <1>2, <1>3, <1>4, <1>5, <1>6, <1>7 DEF Next, Handler, Step, Ended, LineStep

LEMMA PlainInit == Init => PlainInv
<1> SUFFICES ASSUME Init PROVE PlainInv
  OBVIOUS
<1>1. <<>> \in Seq(Tokens) /\ Len(<<>>) = 0 /\ 1..0 = {}
  OBVIOUS
<1>2. Terminated = {}
  BY <1>1 DEF Init, Terminated
<1>3. Cardinality(Terminated) = 0
  BY <1>2, FS_EmptySet
<1>4. http.collecting = FALSE /\ http.remaining = 0 /\ pc = "read" /\ answers = 0
      /\ recv = <<>> /\ buf = <<>>
  BY DEF Init
<1>5. QED
  BY <1>1, <1>3, <1>4 DEF PlainInv, PlainState

\* On a stream of lines every newline read has been answered exactly once
\* whenever the handler is back at read(), however the stream was cut and
\* however large the buffer is (handler_job).
THEOREM OneAnswerPerLine == Spec => []AnswerPerLine
<1>1. PlainInv => AnswerPerLine
  <2> SUFFICES ASSUME PlainInv, PlainStream, pc = "read" PROVE answers = NewlinesRead
    BY DEF AnswerPerLine
  <2>1. DOMAIN recv = 1..Len(recv) /\ Len(buf) = Len(recv)
    BY DEF PlainInv, PlainState
  <2>2. \A i \in 1..Len(recv) : recv[i] # "NUL"
    BY <2>1, RouteTokens DEF PlainStream
  <2>3. \A i \in 1..Len(recv) : recv[i] = "NL" <=> buf[i] = "NUL"
    BY <2>1, <2>2 DEF PlainInv, PlainState
  <2>4. {i \in DOMAIN recv : recv[i] = "NL"} = Terminated
    BY <2>1, <2>3 DEF Terminated
  <2>5. QED
    BY <2>4 DEF PlainInv, PlainState, NewlinesRead
<1>2. QED
  BY <1>1, TypeInit, TypeStep, PlainInit, PlainStep, PTL DEF Spec
-----------------------------------------------------------------------------
(* A stream that comes in one read *)

\* What was executed are the requests among the first k tokens, in order.
ExecutedUpTo(k) ==
  /\ Len(done) = Cardinality(Requested(k))
  /\ \A i \in Requested(k) : done[Cardinality(Requested(i))] = recv[i]

\* Until there is a second read, `start' is the end of a line, everything
\* before it has been executed and everything after it is as it was read.
OnceState ==
  /\ reads = 0 => recv = <<>> /\ done = <<>> /\ pc \in {"read", "closed", "killed"}
  /\ reads = 1 => /\ Len(recv) >= 1 /\ start <= Len(recv)
                  /\ start = 0 \/ recv[start] = "NL"
                  /\ ExecutedUpTo(start)
                  /\ \A i \in (start + 1)..Len(recv) : buf[i] = recv[i]

OnceInv == reads \in Nat /\ (PlainStream => OnceState)

LEMMA RequestedFinite ==
  ASSUME PlainInv, NEW k \in 0..Len(recv)
  PROVE  IsFiniteSet(Requested(k)) /\ Cardinality(Requested(k)) \in Nat
<1>1. IsFiniteSet(1..k)
  BY FS_Interval DEF PlainInv
<1>2. QED
  BY <1>1, FS_Subset, FS_CardinalityType DEF Requested

\* The first read.
LEMMA OnceRead ==
  ASSUME TypeInv, PlainInv, OnceInv, NEW n \in 1..Cap + 1, Read(n)
  PROVE  OnceInv'
<1>1. /\ wire \in Seq(Tokens) /\ buf \in Seq(Tokens) /\ recv \in Seq(Tokens)
      /\ n \in Nat \ {0} /\ n <= Len(wire) /\ reads \in Nat
  BY FramingAssumption DEF TypeInv, TypeOK, Read, PlainInv, OnceInv
<1> DEFINE new == SubSeq(wire, 1, n)
<1>2. new \in Seq(Tokens) /\ Len(new) = n
  BY <1>1
<1>3. /\ recv' = recv \o new /\ buf' = buf \o new /\ start' = 0
      /\ reads' = reads + 1 /\ done' = done
  BY DEF Read
<1> HIDE DEF new
<1>4. ASSUME reads = 0, PlainStream' PROVE OnceState'
  <2>1. PlainStream
    <3>1. \A i \in DOMAIN recv : i \in DOMAIN recv' /\ recv'[i] = recv[i]
      BY <1>1, <1>2, <1>3, Joined
    <3>2. QED
      BY <1>4, <3>1 DEF PlainStream
  <2>2. recv = <<>> /\ done = <<>> /\ buf = <<>>
    <3>1. recv = <<>> /\ done = <<>> /\ Len(buf) = Len(recv)
      BY <1>4, <2>1 DEF OnceInv, OnceState, PlainInv, PlainState
    <3>2. QED
      BY <1>1, <3>1
  <2>3. recv' = new /\ buf' = new
    BY <1>2, <1>3, <2>2
  <2>4. Requested(0)' = {}
    BY DEF Requested
  <2>5. ExecutedUpTo(0)'
    <3>1. Len(done') = 0 /\ Cardinality(Requested(0)') = 0
      BY <1>3, <2>2, <2>4, FS_EmptySet
    <3>2. QED
      BY <2>4, <3>1 DEF ExecutedUpTo
  <2>6. ExecutedUpTo(start)'
    BY <1>3, <2>5 DEF ExecutedUpTo, Requested
  <2>7. QED
    BY <1>1, <1>2, <1>3, <1>4, <2>3, <2>6 DEF OnceState
<1>5. ASSUME reads # 0 PROVE OnceState'
  <2>1. reads' # 0 /\ reads' # 1
    BY <1>1, <1>3, <1>5
  <2>2. QED
    BY <2>1 DEF OnceState
<1>6. reads' \in Nat
  BY <1>1, <1>3
<1>7. QED
  BY <1>4, <1>5, <1>6 DEF OnceInv

\* Reading on by one line: its request, if it has one, is the next executed.
LEMMA OnceLine ==
  ASSUME TypeInv, PlainInv, OnceInv, LineStep
  PROVE  OnceInv'
<1>0. /\ TypeOK /\ HaveLine /\ LineDone /\ pc = "scan" /\ UNCHANGED <<recv, pc, reads>>
      /\ recv \in Seq(Tokens) /\ buf \in Seq(Tokens) /\ start \in Nat /\ done \in Seq(Requests)
  BY DEF TypeInv, LineStep, EndOfHeaders, BlankLine, StartPing, StartTx, Header,
         RequestLine, Plain, HaveLine, history, PlainInv, TypeOK
<1>1. ASSUME PlainStream', reads = 1 PROVE OnceState'
  <2>1. PlainStream /\ PlainStream' = PlainStream
    BY <1>0, <1>1 DEF PlainStream
  <2>2. /\ RequestLine /\ Len(buf) = Len(recv) /\ Nl \in (start + 1)..Len(buf)
        /\ buf[Nl] = "NL" /\ (\A j \in Newlines : Nl <= j)
        /\ start + 1 \in 1..Len(recv) /\ (start + 1) % 2 = 1
        /\ recv[start + 1] \in LineRoutes /\ buf[start + 1] \notin {"NL", "NUL"}
    BY <2>1, LineOfStream
  <2>3. /\ Len(recv) >= 1 /\ start <= Len(recv) /\ ExecutedUpTo(start)
        /\ \A i \in (start + 1)..Len(recv) : buf[i] = recv[i]
    BY <1>1, <2>1 DEF OnceInv, OnceState
  <2>4. start + 2 \in 1..Len(recv) /\ (start + 2) % 2 # 1
    <3>1. Nl # start + 1
      BY <2>2
    <3>2. QED
      BY <1>0, <2>2, <3>1
  <2>5. recv[start + 2] = "NL" /\ buf[start + 2] = "NL"
    <3>1. recv[start + 2] = "NL"
      <4>1. start + 2 \in DOMAIN recv
        BY <1>0, <2>4
      <4>2. QED
        BY <2>1, <2>4, <4>1 DEF PlainStream
    <3>2. QED
      BY <1>0, <2>3, <2>4, <3>1
  <2>6. Nl = start + 2
    <3>1. start + 2 \in Newlines
      BY <1>0, <2>2, <2>4, <2>5 DEF Newlines
    <3>2. QED
      BY <1>0, <2>2, <3>1
  <2>7. Len(Line) = 1 /\ Line \in Seq(Tokens) /\ Line[1] = recv[start + 1]
    <3>1. PICK e \in (start + 1)..Nl :
             /\ buf[e] \in {"NUL", "NL"}
             /\ Line \in Seq(Tokens) /\ Len(Line) = e - 1 - start
             /\ \A i \in 1..(e - 1 - start) : Line[i] = buf[start + i]
      BY <1>0, LineText
    <3>2. e = start + 2
      BY <1>0, <2>2, <2>6, <3>1
    <3>3. QED
      BY <1>0, <2>2, <2>3, <3>1, <3>2
  <2> DEFINE k == start
             r == recv[k + 1]
  <2>8. Head(Line) = r /\ DOMAIN Line = {1}
    BY <2>7
  <2>9. ASSUME r \in Requests PROVE done' = Append(done, r)
    <3>1. r # "get"
      BY <2>9, FramingAssumption
    <3>2. Found(Line) = {1}
      BY <2>7, <2>8, <2>9 DEF Found
    <3>3. First(Found(Line)) = 1
      BY <3>2, FirstLeast
    <3>4. Execute(Line)
      BY <2>2, <2>8, <3>1 DEF RequestLine
    <3>5. QED
      BY <2>7, <3>2, <3>3, <3>4 DEF Execute
  <2>10. ASSUME r \notin Requests PROVE done' = done
    <3>1. Found(Line) = {}
      BY <2>7, <2>8, <2>10 DEF Found
    <3>2. QED
      BY <2>2, <3>1 DEF RequestLine, Execute, Answer
  <2>11. /\ start' = k + 2
         /\ \A i \in 1..Len(buf) : buf'[i] = IF i = Nl THEN "NUL" ELSE buf[i]
    BY <1>0, <2>6, LineDoneEffect
  <2>12. \A i \in 1..Len(recv) : Requested(i)' = Requested(i)
    BY <1>0 DEF Requested
  <2>13. "NL" \notin Requests
    BY FramingAssumption
  <2>14. /\ Requested(k + 2) = Requested(k + 1)
         /\ Requested(k + 1) = IF r \in Requests THEN Requested(k) \cup {k + 1} ELSE Requested(k)
         /\ k + 1 \notin Requested(k)
    <3>1. k \in Nat /\ recv[k + 2] = "NL"
      BY <1>0, <2>5
    <3>2. 1..(k + 2) = (1..k) \cup {k + 1, k + 2} /\ 1..(k + 1) = (1..k) \cup {k + 1}
      BY <3>1
    <3>3. QED
      BY <2>13, <3>1, <3>2 DEF Requested
  <2>15. IsFiniteSet(Requested(k)) /\ Cardinality(Requested(k)) = Len(done) /\ k \in 0..Len(recv)
    BY <1>0, <2>3, RequestedFinite DEF ExecutedUpTo
  <2>16. ASSUME NEW i \in Requested(k)
         PROVE  Cardinality(Requested(i)) \in 1..Len(done) /\ i \in 1..Len(recv)
    <3>1. i \in 1..k /\ i \in Requested(i) /\ Requested(i) \subseteq Requested(k) /\ i \in 0..Len(recv)
      BY <1>0, <2>3 DEF Requested
    <3>2. IsFiniteSet(Requested(i)) /\ Cardinality(Requested(i)) <= Cardinality(Requested(k))
      BY <2>15, <3>1, FS_Subset
    <3>3. Cardinality(Requested(i)) \in Nat /\ Cardinality(Requested(i)) # 0
      BY <3>1, <3>2, FS_CardinalityType, FS_EmptySet
    <3>4. QED
      BY <1>0, <2>3, <2>15, <3>1, <3>2, <3>3
  <2>17. ExecutedUpTo(start)'
    <3> DEFINE c(i) == Cardinality(Requested(i))
    <3>1. ASSUME r \in Requests
          PROVE  /\ Len(done') = c(k + 2)
                 /\ \A i \in Requested(k + 2) : done'[c(i)] = recv[i]
      <4>1. c(k + 1) = Len(done) + 1 /\ c(k + 2) = Len(done) + 1
        <5>1. Requested(k + 1) = Requested(k) \cup {k + 1} /\ Requested(k + 2) = Requested(k + 1)
          BY <2>14, <3>1
        <5>2. Cardinality(Requested(k) \cup {k + 1}) = Cardinality(Requested(k)) + 1
          BY <2>14, <2>15, FS_AddElement
        <5>3. QED
          BY <2>15, <5>1, <5>2
      <4>2. /\ Len(done') = Len(done) + 1 /\ done'[Len(done) + 1] = r
            /\ \A x \in 1..Len(done) : done'[x] = done[x]
        BY <1>0, <2>9, <3>1
      <4>3. ASSUME NEW i \in Requested(k) PROVE done'[c(i)] = recv[i]
        BY <2>3, <2>16, <4>2 DEF ExecutedUpTo
      <4>4. QED
        BY <2>14, <3>1, <4>1, <4>2, <4>3
    <3>2. ASSUME r \notin Requests
          PROVE  /\ Len(done') = c(k + 2)
                 /\ \A i \in Requested(k + 2) : done'[c(i)] = recv[i]
      BY <2>3, <2>10, <2>14, <3>2 DEF ExecutedUpTo
    <3>3. \A i \in Requested(k + 2) : i \in 1..Len(recv)
      BY <1>0, <2>4 DEF Requested
    <3>4. QED
      BY <1>0, <2>4, <2>11, <2>12, <3>1, <3>2, <3>3 DEF ExecutedUpTo
  <2>18. \A i \in (start' + 1)..Len(recv) : buf'[i] = recv[i]
    BY <1>0, <2>2, <2>3, <2>6, <2>11
  <2>19. start' <= Len(recv') /\ recv'[start'] = "NL"
    BY <1>0, <2>4, <2>5, <2>11
  <2>20. QED
    BY <1>0, <1>1, <2>3, <2>17, <2>18, <2>19 DEF OnceState
<1>2. ASSUME PlainStream' PROVE reads # 0
  <2>1. PlainStream
    BY <1>0, <1>2 DEF PlainStream
  <2>2. QED
    BY <1>0, <2>1 DEF OnceInv, OnceState
<1>3. QED
  BY <1>0, <1>1, <1>2 DEF OnceInv, OnceState

LEMMA OnceStep == TypeInv /\ PlainInv /\ OnceInv /\ [Next]_vars => OnceInv'
<1> SUFFICES ASSUME TypeInv, PlainInv, OnceInv, [Next]_vars PROVE OnceInv'
  OBVIOUS
<1>1. CASE LineStep
  BY <1>1, OnceLine
<1>2. ASSUME NEW n \in 1..Cap + 1, Read(n) PROVE OnceInv'
  BY <1>2, OnceRead
<1>3. CASE BodyComplete \/ BodyPartial
  <2>1. http.remaining # 0 /\ UNCHANGED <<recv, reads>>
    BY <1>3 DEF BodyComplete, BodyPartial, history, TypeInv, TypeOK
  <2>2. ~PlainStream /\ ~PlainStream'
    BY <2>1 DEF PlainInv, PlainState, PlainStream
  <2>3. QED
    BY <2>1, <2>2 DEF OnceInv, OnceState
\* The other steps change neither the stream nor what was done with it.
<1>4. ASSUME UNCHANGED <<recv, buf, start, done, reads>>,
             pc' \in {pc, "closed", "killed"} \/ pc \in {"scan", "after"}
      PROVE  OnceInv'
  <2>1. PlainStream' = PlainStream /\ \A k \in Nat : ExecutedUpTo(k)' = ExecutedUpTo(k)
    BY <1>4 DEF PlainStream, ExecutedUpTo, Requested
  <2>2. start \in Nat /\ start' = start
    BY <1>4 DEF TypeInv, TypeOK
  <2>3. ExecutedUpTo(start)' = ExecutedUpTo(start)
    BY <1>4 DEF ExecutedUpTo, Requested
  <2>4. QED
    BY <1>4, <2>1, <2>3 DEF OnceInv, OnceState
<1>5. CASE \/ (\E m \in Messages : Send(m)) \/ ReadEnds \/ ReadFull \/ NoMoreLines \/ NoBody
           \/ Receive \/ BrokenPipe \/ UNCHANGED vars
  BY <1>4, <1>5 DEF Send, ReadEnds, ReadFull, NoMoreLines, NoBody, Receive, BrokenPipe,
                    vars, history
<1>6. QED
  BY <1>1, <1>2, <1>3, <1>5 DEF Next, Handler, Step, Ended, LineStep

\* A stream of lines that comes in one read is executed completely, in order
\* and once, up to the last line that is complete, for any buffer size: the
\* loop over lines skips none and goes over none again (handler_job).  With a
\* second read this is no longer so, because `start' goes back to the front of
\* a buffer that still holds the old lines.
THEOREM OneReadIsExact == Spec => []SingleReadExact
<1>1. Init => OnceInv
  BY DEF Init, OnceInv, OnceState
<1>2. TypeInv /\ PlainInv /\ OnceInv => SingleReadExact
  <2> SUFFICES ASSUME TypeInv, PlainInv, OnceInv, PlainStream, pc = "read", reads = 1
               PROVE  ExecutedUpTo(Len(recv) - (IF Last(recv) = "NL" THEN 0 ELSE 1))
    BY DEF SingleReadExact, ExecutedUpTo
  <2>1. /\ Len(recv) \in Nat /\ Len(recv) >= 1 /\ start \in Nat /\ start <= Len(recv)
        /\ Last(recv) = recv[Len(recv)] /\ DOMAIN recv = 1..Len(recv)
        /\ start = 0 \/ recv[start] = "NL"
        /\ ExecutedUpTo(start) /\ Len(buf) = Len(recv)
        /\ \A i \in (start + 1)..Len(recv) : recv[i] # "NL"
    BY DEF PlainInv, PlainState, OnceInv, OnceState, TypeInv, TypeOK, Last
  <2>2. \A i \in 1..Len(recv) : recv[i] = "NL" <=> i % 2 # 1
    BY <2>1, RouteTokens DEF PlainStream
  <2>3. start % 2 = 0
    BY <2>1, <2>2
  <2>4. Len(recv) <= start + 1
    <3> SUFFICES ASSUME start + 2 <= Len(recv) PROVE FALSE
      BY <2>1
    <3>1. start + 2 \in (start + 1)..Len(recv) /\ start + 2 \in 1..Len(recv) /\ (start + 2) % 2 # 1
      BY <2>1, <2>3
    <3>2. QED
      BY <2>1, <2>2, <3>1
  <2>5. start = Len(recv) - (IF Last(recv) = "NL" THEN 0 ELSE 1)
    <3> DEFINE n == Len(recv)
               last == Last(recv)
    <3>0. n \in Nat /\ n >= 1 /\ start \in Nat /\ start <= n /\ n <= start + 1
      BY <2>1, <2>4
    <3>1. start = n => last = "NL"
      BY <2>1, <3>0
    <3>2. start # n => last # "NL"
      <4> SUFFICES ASSUME start # n PROVE last # "NL"
        OBVIOUS
      <4>1. n \in (start + 1)..n
        BY <3>0
      <4>2. QED
        BY <2>1, <4>1
    <3> HIDE DEF n, last
    <3>3. start = n - (IF last = "NL" THEN 0 ELSE 1)
      BY <3>0, <3>1, <3>2
    <3>4. QED
      BY <3>3 DEF n, last
  <2>6. QED
    BY <2>1, <2>5
<1>3. QED
  BY <1>1, <1>2, TypeInit, TypeStep, PlainInit, PlainStep, OnceStep, PTL DEF Spec
=============================================================================
