------------------------------ MODULE RestProofs ------------------------------
(***************************************************************************)
(* Theorems about the REST client: whose answer it reads, what it reports, *)
(* and its credentials.                                                    *)
(***************************************************************************)
EXTENDS RestClient, SequenceTheorems, TLAPS

(***************************************************************************)
(* Types.                                                                  *)
(***************************************************************************)
LEMMA Slices ==
    ASSUME NEW S, NEW s \in Seq(S), NEW m \in 0 .. Len(s)
    PROVE  /\ SubSeq(s, 1, m) \in Seq(S) /\ Len(SubSeq(s, 1, m)) = m
           /\ SubSeq(s, m + 1, Len(s)) \in Seq(S)
           /\ Len(SubSeq(s, m + 1, Len(s))) = Len(s) - m
           /\ \A j \in 1 .. m : SubSeq(s, 1, m)[j] = s[j]
           /\ \A j \in 1 .. Len(s) - m : SubSeq(s, m + 1, Len(s))[j] = s[m + j]
  OBVIOUS

LEMMA HeadTail ==
    ASSUME NEW S, NEW s \in Seq(S), s # <<>>
    PROVE  Head(s) \in S /\ Head(s) = s[1] /\ Tail(s) \in Seq(S)
  BY HeadTailProperties

LEMMA OrderOf ==
    /\ \A k \in 1 .. 6 : Order[k] \in {"version", "space", "code", "cookie", "head", "body"}
    /\ \A k \in 1 .. 6 : /\ Order[k] = "code" => k = 3
                         /\ Order[k] = "head" => k = 5
                         /\ Order[k] = "body" => k = 6
    /\ Order[3] = "code"
  BY DEF Order

LEMMA PartsOf ==
    ASSUME NEW a \in Answer
    PROVE  /\ Parts(a) \in Seq(Part) /\ Len(Parts(a)) = 6
           /\ \A k \in 1 .. 6 : /\ Parts(a)[k] \in Part /\ Parts(a)[k].of = a
                                /\ Parts(a)[k].part = Order[k]
  <1>1. \A k \in 1 .. 6 : [part |-> Order[k], of |-> a] \in Part
    BY OrderOf DEF Part
  <1>2. Parts(a) \in [1 .. 6 -> Part]
    BY <1>1 DEF Parts
  <1>. QED
    BY <1>1, <1>2 DEF Parts

LEMMA ReceivedType ==
    ASSUME TypeOK, buffer # <<>>
    PROVE  Received \in Answer
  <1>1. buffer[1] \in Part
    BY HeadTail DEF TypeOK
  <1>. QED
    BY <1>1 DEF Received, Part

LEMMA HeadRequest ==
    ASSUME TypeOK, up # <<>>
    PROVE  /\ Head(up) \in Request /\ Head(up).n \in Nat /\ Head(up).cookie \in Nat
           /\ Head(up).command \in Commands /\ Tail(up) \in Seq(Request)
  <1>1. Head(up) \in Request /\ Tail(up) \in Seq(Request)
    BY HeadTail DEF TypeOK
  <1>. QED
    BY <1>1 DEF Request

\* A new command.
LEMMA AskTypes ==
    ASSUME TypeOK, NEW name \in Commands, NEW v \in Typed,
           Ask(name, v)
    PROVE  TypeOK'
  <1>1. v \in Nat /\ atoi(v) \in Int
    BY RestAssumption DEF atoi, ToInt, strtol, LongMax
  <1>2. command.n + 1 \in 0 .. MaxCommands
    BY RestAssumption DEF Ask, TypeOK
  <1>3. command' \in [n : 0 .. MaxCommands, name : Commands, typed : Nat, id : Int]
    BY <1>1, <1>2 DEF Ask
  <1>. QED
    BY <1>3 DEF Ask, TypeOK, serverVars

LEMMA ReceiveTypes ==
    ASSUME TypeOK, Receive \/ Abort
    PROVE  TypeOK'
  <1>1. CASE send_to_server
    <2>1. [n |-> command.n, command |-> command.name, cookie |-> cookies, token |-> jwt]
            \in Request
      BY DEF TypeOK, Request
    <2>2. up' \in Seq(Request)
      BY <1>1, <2>1 DEF send_to_server, TypeOK
    <2>. QED
      BY <1>1, <2>2 DEF send_to_server, TypeOK, serverVars
  <1>2. CASE receive_from_server
    <2>1. PICK m \in 1 .. Len(down) : /\ buffer' = buffer \o SubSeq(down, 1, m)
                                      /\ down' = SubSeq(down, m + 1, Len(down))
      BY <1>2 DEF receive_from_server, Take
    <2>2. buffer' \in Seq(Part) /\ down' \in Seq(Part)
      BY <2>1, Slices, SMTT(30) DEF TypeOK
    <2>3. pc' = "respond" => buffer' # <<>>
      BY <1>2 DEF receive_from_server, IsWhole
    <2>4. pc' \in {"respond", "receive"}
      BY <1>2 DEF receive_from_server
    <2>. QED
      BY <1>2, <2>2, <2>3, <2>4 DEF receive_from_server, Take, TypeOK, serverVars
  <1>3. CASE AtEnd
    <2>1. up' \in Seq(Request) /\ lost' \in Nat
      BY <1>3 DEF AtEnd, TypeOK
    <2>. QED
      BY <1>3, <2>1 DEF AtEnd, TypeOK, serverVars
  <1>4. CASE error
    BY <1>4 DEF error, TypeOK, serverVars
  <1>5. CASE Abort
    BY <1>5 DEF Abort, TypeOK, serverVars
  <1>. QED
    BY <1>1, <1>2, <1>3, <1>4, <1>5 DEF Receive

LEMMA RespondTypes ==
    ASSUME TypeOK, Respond
    PROVE  TypeOK'
  <1>1. pc = "respond" /\ buffer # <<>>
    BY DEF Respond, deal_with_error_code, Plain, Books, login, enter_library, logout, Succeeded,
           TypeOK
  <1>2. Received.cookie \in Nat /\ Received.token \in Nat
    BY <1>1, ReceivedType DEF Answer
  <1>3. \E what \in {"success", "error", "failed"} : Show(what)
    BY DEF Respond, deal_with_error_code, Plain, Books, login, enter_library, logout
  <1>4. buffer' = <<>> /\ buffer' \in Seq(Part)
    BY <1>3, EmptySeq DEF Show
  <1>5. logged_in' \in BOOLEAN /\ cookies' \in Nat /\ jwt' \in Nat
    <2>1. CASE deal_with_error_code \/ Plain \/ Books
      BY <2>1 DEF deal_with_error_code, Plain, Books, TypeOK
    <2>2. CASE login
      BY <1>2, <2>2 DEF login, TypeOK
    <2>3. CASE enter_library
      BY <1>2, <2>3 DEF enter_library, TypeOK
    <2>4. CASE logout
      BY <2>4 DEF logout, None
    <2>. QED
      BY <2>1, <2>2, <2>3, <2>4 DEF Respond
  <1>. QED
    BY <1>3, <1>4, <1>5 DEF Show, TypeOK, serverVars

\* An answer of the server to the request r.
GivenAnswer(r, g, sized) ==
    [n |-> r.n, code |-> 200, cookie |-> IF r.command = "login" THEN g ELSE None,
     token |-> IF r.command = "enter_library" THEN r.cookie ELSE None, sized |-> sized]
Refusal(r, sized) ==
    [n |-> r.n, code |-> 400, cookie |-> None, token |-> None, sized |-> sized]

LEMMA AnswerTypes ==
    ASSUME NEW r \in Request, NEW g \in Nat, NEW sized \in BOOLEAN
    PROVE  GivenAnswer(r, g, sized) \in Answer /\ Refusal(r, sized) \in Answer
  BY DEF GivenAnswer, Refusal, Request, Answer, None

LEMMA ServerTypes ==
    ASSUME TypeOK, Serve \/ Close \/ Reset \/ Forget
    PROVE  TypeOK'
  <1>1. CASE Accept
    <2>. DEFINE r == Head(up)
    <2>1. r \in Request /\ r.n \in Nat /\ r.cookie \in Nat /\ Tail(up) \in Seq(Request)
      BY <1>1, HeadRequest DEF Accept
    <2>2. given' \in Nat /\ given' >= given
      BY <1>1 DEF Accept, TypeOK
    <2>3. sessions' \subseteq 1 .. given'
      <3>1. CASE r.command = "login"
        BY <1>1, <3>1 DEF Accept, TypeOK
      <3>2. CASE r.command # "login"
        <4>1. given' = given /\ sessions' \subseteq sessions
          BY <1>1, <3>2 DEF Accept
        <4>. QED
          BY <4>1 DEF TypeOK
      <3>. QED
        BY <3>1, <3>2
    <2>4. done' \in [1 .. MaxCommands -> Nat]
      <3>1. done' = [done EXCEPT ![r.n] = @ + 1]
        BY <1>1 DEF Accept
      <3>2. done \in [1 .. MaxCommands -> Nat]
        BY DEF TypeOK
      <3>3. ASSUME NEW m \in 1 .. MaxCommands
            PROVE  done'[m] \in Nat
        BY <3>1, <3>2
      <3>4. done' = [m \in 1 .. MaxCommands |-> done'[m]]
        BY <3>1, <3>2
      <3>. QED
        BY <3>3, <3>4
    <2>5. PICK sized \in BOOLEAN : down' = down \o Parts(GivenAnswer(r, given', sized))
      BY <1>1 DEF Accept, GivenAnswer
    <2>6. down' \in Seq(Part)
      <3>1. GivenAnswer(r, given', sized) \in Answer
        BY <2>1, <2>2, AnswerTypes
      <3>. QED
        BY <2>5, <3>1, PartsOf DEF TypeOK
    <2>. QED
      BY <1>1, <2>1, <2>2, <2>3, <2>4, <2>6 DEF Accept, TypeOK, clientVars
  <1>2. CASE Reject
    <2>1. Head(up) \in Request /\ Tail(up) \in Seq(Request)
      BY <1>2, HeadRequest DEF Reject
    <2>2. PICK sized \in BOOLEAN : down' = down \o Parts(Refusal(Head(up), sized))
      BY <1>2 DEF Reject, Refusal
    <2>3. down' \in Seq(Part)
      <3>1. 0 \in Nat
        OBVIOUS
      <3>2. Refusal(Head(up), sized) \in Answer
        BY <2>1, <3>1, AnswerTypes
      <3>. QED
        BY <2>2, <3>2, PartsOf DEF TypeOK
    <2>. QED
      BY <1>2, <2>1, <2>3 DEF Reject, TypeOK, clientVars, serverVars
  <1>3. CASE Close
    <2>1. down' \in Seq(Part)
      BY <1>3, Slices DEF Close, TypeOK
    <2>2. faults' \in 0 .. MaxFaults
      BY <1>3, RestAssumption DEF Close, TypeOK
    <2>. QED
      BY <1>3, <2>1, <2>2 DEF Close, TypeOK, clientVars, serverVars
  <1>4. CASE Reset
    <2>1. faults' \in 0 .. MaxFaults
      BY <1>4, RestAssumption DEF Reset, TypeOK
    <2>. QED
      BY <1>4, <2>1 DEF Reset, TypeOK, clientVars, serverVars
  <1>5. CASE Forget
    <2>1. faults' \in 0 .. MaxFaults
      BY <1>5, RestAssumption DEF Forget, TypeOK
    <2>. QED
      BY <1>5, <2>1 DEF Forget, TypeOK, clientVars
  <1>6. CASE EndAnswer
    BY <1>6 DEF EndAnswer, TypeOK, clientVars, serverVars
  <1>. QED
    BY <1>1, <1>2, <1>3, <1>4, <1>5, <1>6 DEF Serve

LEMMA InitTypes == Init => TypeOK
  <1>. SUFFICES ASSUME Init PROVE TypeOK
    OBVIOUS
  <1>1. command \in [n : 0 .. MaxCommands, name : Commands, typed : Nat, id : Int]
    <2>1. 0 \in 0 .. MaxCommands /\ "get_books" \in Commands
      BY RestAssumption DEF Commands, Library
    <2>. QED
      BY <2>1 DEF Init
  <1>2. done \in [1 .. MaxCommands -> Nat] /\ faults \in 0 .. MaxFaults
    BY RestAssumption DEF Init
  <1>3. buffer \in Seq(Part) /\ up \in Seq(Request) /\ down \in Seq(Part)
    BY EmptySeq DEF Init
  <1>. QED
    BY <1>1, <1>2, <1>3 DEF Init, TypeOK, None

LEMMA StepTypes == TypeOK /\ [Next]_vars => TypeOK'
  <1>. SUFFICES ASSUME TypeOK, [Next]_vars PROVE TypeOK'
    OBVIOUS
  <1>1. CASE UNCHANGED vars
    BY <1>1 DEF vars, clientVars, serverVars, TypeOK
  <1>2. ASSUME NEW name \in Commands, NEW v \in Typed, Ask(name, v)
        PROVE  TypeOK'
    BY <1>2, AskTypes
  <1>3. CASE client_exit
    BY <1>3 DEF client_exit, TypeOK, serverVars, None
  <1>4. CASE Receive \/ Abort
    BY <1>4, ReceiveTypes
  <1>5. CASE Respond
    BY <1>5, RespondTypes
  <1>6. CASE Serve \/ Close \/ Reset \/ Forget
    BY <1>6, ServerTypes
  <1>7. ASSUME NEW name \in Commands, Refuse(name) \/ IdTooLong(name)
        PROVE  TypeOK'
    BY <1>7 DEF Refuse, IdTooLong, TypeOK, serverVars
  <1>. QED
    BY <1>1, <1>2, <1>3, <1>4, <1>5, <1>6, <1>7 DEF Next

\* Every variable of client, connection and server keeps its type, and an
\* answer that is looked at is not empty (client.cpp, helpers.cpp).
THEOREM AllTyped == Spec => []TypeOK
  BY InitTypes, StepTypes, PTL DEF Spec

(***************************************************************************)
(* The answer under way.                                                   *)
(***************************************************************************)
\* Of the parts of a the first k were read, those up to n are on the way.
Cut(a, k, n) ==
    buffer = SubSeq(Parts(a), 1, k) /\ down = SubSeq(Parts(a), k + 1, n)

\* An answer to the present command that tells what the server did.
Sound(a) ==
    /\ a.n = command.n
    /\ a.code = 200 => /\ done[command.n] > 0
                       /\ command.name = "login" => a.cookie # None
                       /\ command.name = "enter_library" => a.token = cookies
    /\ a.code = 400 => done[command.n] <= lost

NoAnswer == buffer = <<>> /\ down = <<>>
OneAnswer ==
    \E a \in Answer : Sound(a) /\ \E n \in 0 .. 6 : \E k \in 0 .. n : Cut(a, k, n)
Answers == pc \in {"receive", "respond"} => NoAnswer \/ OneAnswer

Quiet == pc \in {"prompt", "send", "respond"} => down = <<>>

\* At most one request is under way, that of the present command.
Waits ==
    up # <<>> =>
        /\ pc = "receive" /\ connection = "open" /\ NoAnswer
        /\ up = <<[n |-> command.n, command |-> command.name, cookie |-> cookies,
                   token |-> jwt]>>

Pending ==
    pc \in {"send", "receive", "respond"} =>
        /\ command.n > 0
        /\ command.name = "login" => cookies = None /\ jwt = None
        /\ command.name = "enter_library" => cookies # None /\ jwt = None

\* What is under way has not been carried out more often than it was lost.
Counts ==
    /\ \A m \in 1 .. MaxCommands : m > command.n => done[m] = 0
    /\ command.n > 0 => done[command.n] <= 1 + lost
    /\ pc = "send" \/ up # <<>> => done[command.n] <= lost

Outcomes ==
    pc = "prompt" /\ outcome = "error" /\ lost = 0 /\ command.n > 0 =>
        done[command.n] = 0

RestInv ==
    /\ TypeOK /\ Credentials
    /\ Answers /\ Quiet /\ Waits /\ Pending /\ Counts /\ Outcomes

LEMMA CutParts ==
    ASSUME NEW a \in Answer, NEW n \in 0 .. 6, NEW k \in 0 .. n, Cut(a, k, n)
    PROVE  /\ Len(buffer) = k /\ Len(down) = n - k
           /\ \A j \in 1 .. k : buffer[j] = Parts(a)[j]
  <1>1. Parts(a) \in Seq(Part) /\ Len(Parts(a)) = 6
    BY PartsOf
  <1>2. k \in Nat /\ n \in Nat /\ k <= n /\ n <= 6
    OBVIOUS
  <1>3. Len(SubSeq(Parts(a), 1, k)) = k
        /\ \A j \in 1 .. k : SubSeq(Parts(a), 1, k)[j] = Parts(a)[j]
    BY <1>1, <1>2, Slices
  <1>4. Len(SubSeq(Parts(a), k + 1, n)) = n - k
    BY <1>1, <1>2, SubSeqProperties
  <1>. QED
    BY <1>3, <1>4 DEF Cut

\* A read moves the cut.
LEMMA CutMoves ==
    ASSUME NEW a \in Answer, NEW n \in 0 .. 6, NEW k \in 0 .. n, Cut(a, k, n),
           NEW m \in 1 .. Len(down)
    PROVE  /\ k + m \in 0 .. n
           /\ buffer \o SubSeq(down, 1, m) = SubSeq(Parts(a), 1, k + m)
           /\ SubSeq(down, m + 1, Len(down)) = SubSeq(Parts(a), k + m + 1, n)
  <1>1. Parts(a) \in Seq(Part) /\ Len(Parts(a)) = 6
    BY PartsOf
  <1>2. k \in Nat /\ n \in Nat /\ k <= n /\ n <= 6 /\ m \in Nat /\ 1 <= m
    OBVIOUS
  <1>3. Len(down) = n - k
    BY CutParts
  <1>4. k + m <= n
    BY <1>2, <1>3
  <1>5. SubSeq(down, 1, m) = SubSeq(Parts(a), k + 1, k + m)
    BY <1>1, <1>2, <1>4, SubSeqOfSubSeq DEF Cut
  <1>6. buffer \o SubSeq(down, 1, m) = SubSeq(Parts(a), 1, k + m)
    BY <1>1, <1>2, <1>4, <1>5, ConcatAdjacentSubSeq DEF Cut
  <1>7. SubSeq(down, m + 1, Len(down)) = SubSeq(Parts(a), k + m + 1, n)
    BY <1>1, <1>2, <1>3, <1>4, SubSeqOfSubSeq DEF Cut
  <1>. QED
    BY <1>2, <1>4, <1>6, <1>7

\* So does a connection that closes.
LEMMA CutShorter ==
    ASSUME NEW a \in Answer, NEW n \in 0 .. 6, NEW k \in 0 .. n, Cut(a, k, n),
           NEW m \in 0 .. Len(down)
    PROVE  k + m \in 0 .. 6 /\ SubSeq(down, 1, m) = SubSeq(Parts(a), k + 1, k + m)
  <1>1. Parts(a) \in Seq(Part) /\ Len(Parts(a)) = 6
    BY PartsOf
  <1>2. k \in Nat /\ n \in Nat /\ k <= n /\ n <= 6
    OBVIOUS
  <1>3. m \in Nat /\ k + m <= n
    <2>1. Len(down) = n - k
      BY CutParts
    <2>. QED
      BY <1>2, <2>1
  <1>4. SubSeq(down, 1, m) = SubSeq(Parts(a), k + 1, k + m)
    BY <1>1, <1>2, <1>3, SubSeqOfSubSeq DEF Cut
  <1>. QED
    BY <1>2, <1>3, <1>4

\* A new answer on an empty connection.
LEMMA CutNew ==
    ASSUME NEW a \in Answer
    PROVE  <<>> = SubSeq(Parts(a), 1, 0) /\ <<>> \o Parts(a) = SubSeq(Parts(a), 1, 6)
  <1>1. Parts(a) \in Seq(Part) /\ Len(Parts(a)) = 6
    BY PartsOf
  <1>. QED
    BY <1>1, SubSeqFull, SubSeqEmpty, ConcatEmptySeq

\* Once there is a body behind the header, all was read.
LEMMA WholeIsAll ==
    ASSUME NEW a \in Answer, NEW k \in 0 .. 6, IsWhole(SubSeq(Parts(a), 1, k))
    PROVE  k = 6
  <1>1. Parts(a) \in Seq(Part) /\ Len(Parts(a)) = 6
    BY PartsOf
  <1>2. PICK l \in DOMAIN SubSeq(Parts(a), 1, k) : SubSeq(Parts(a), 1, k)[l].part = "body"
    BY DEF IsWhole
  <1>3. l \in 1 .. k /\ l \in 1 .. 6 /\ Parts(a)[l].part = "body"
    <2>1. DOMAIN SubSeq(Parts(a), 1, k) = 1 .. k
      BY <1>1
    <2>2. l \in 1 .. k
      BY <1>2, <2>1
    <2>3. SubSeq(Parts(a), 1, k)[l] = Parts(a)[l]
      BY <1>1, <2>2, Slices
    <2>. QED
      BY <1>2, <2>2, <2>3
  <1>4. Order[l] = "body"
    BY <1>3, PartsOf
  <1>5. l = 6
    BY <1>3, <1>4, OrderOf
  <1>. QED
    BY <1>3, <1>5

LEMMA NothingBehind ==
    ASSUME NEW a \in Answer, NEW k \in 0 .. 6, NEW n \in 0 .. k
    PROVE  SubSeq(Parts(a), k + 1, n) = <<>>
  <1>1. Parts(a) \in Seq(Part) /\ Len(Parts(a)) = 6
    BY PartsOf
  <1>. QED
    BY <1>1, SubSeqEmpty

\* What is looked at is the answer of its first part, and if the end of the
\* header or the body is there, so is the status code.
LEMMA ReceivedSound ==
    ASSUME RestInv, pc = "respond"
    PROVE  /\ Received \in Answer /\ Sound(Received)
           /\ Has("head") \/ Has("body") => Has("code")
  <1>1. buffer # <<>> /\ buffer \in Seq(Part)
    BY DEF RestInv, TypeOK
  <1>2. PICK a \in Answer : Sound(a) /\ \E n \in 0 .. 6 : \E k \in 0 .. n : Cut(a, k, n)
    BY <1>1 DEF RestInv, Answers, NoAnswer, OneAnswer
  <1>3. PICK n \in 0 .. 6 : \E k \in 0 .. n : Cut(a, k, n)
    BY <1>2
  <1>4. PICK k \in 0 .. n : Cut(a, k, n)
    BY <1>3
  <1>5. 1 \in 1 .. k
    <2>1. Len(buffer) = k /\ Len(buffer) # 0
      BY <1>1, <1>4, CutParts, EmptySeq
    <2>. QED
      BY <2>1
  <1>6. buffer[1] = Parts(a)[1]
    BY <1>4, <1>5, CutParts
  <1>7. Received = a
    BY <1>6, PartsOf DEF Received
  <1>8. ASSUME Has("head") \/ Has("body")
        PROVE  Has("code")
    <2>1. PICK l \in DOMAIN buffer : buffer[l].part = "head" \/ buffer[l].part = "body"
      BY <1>8 DEF Has
    <2>2. Len(buffer) = k /\ DOMAIN buffer = 1 .. k
      <3>1. Len(buffer) = k
        BY <1>4, CutParts
      <3>. QED
        BY <1>1, <3>1
    <2>3. l \in 1 .. k /\ l \in 1 .. 6
      BY <2>2
    <2>4. Order[l] = "head" \/ Order[l] = "body"
      <3>1. buffer[l] = Parts(a)[l]
        BY <1>4, <2>3, CutParts
      <3>. QED
        BY <2>1, <2>3, <3>1, PartsOf
    <2>5. 3 \in 1 .. k /\ 3 \in 1 .. 6
      BY <2>3, <2>4, OrderOf
    <2>6. buffer[3].part = "code"
      <3>1. buffer[3] = Parts(a)[3]
        BY <1>4, <2>5, CutParts
      <3>. QED
        BY <2>5, <3>1, OrderOf, PartsOf
    <2>. QED
      BY <2>2, <2>5, <2>6 DEF Has
  <1>. QED
    BY <1>2, <1>7, <1>8

LEMMA DoneType ==
    ASSUME TypeOK, command.n > 0
    PROVE  command.n \in 1 .. MaxCommands /\ done[command.n] \in Nat /\ lost \in Nat
  <1>1. command.n \in 1 .. MaxCommands
    BY RestAssumption DEF TypeOK
  <1>. QED
    BY <1>1 DEF TypeOK

(***************************************************************************)
(* The steps.                                                              *)
(***************************************************************************)
\* All of the invariant but the types, which every step keeps.
Understood == Credentials /\ Answers /\ Quiet /\ Waits /\ Pending /\ Counts /\ Outcomes

\* A request waits only in pc "receive", on an open and empty connection.
LEMMA NoRequest ==
    ASSUME Waits, pc # "receive" \/ connection # "open" \/ down # <<>>
    PROVE  up = <<>>
  BY DEF Waits, NoAnswer

LEMMA SameAnswer ==
    ASSUME OneAnswer, UNCHANGED <<buffer, down, command, done, cookies, lost>>
    PROVE  OneAnswer'
  BY ZenonT(60) DEF OneAnswer, Sound, Cut

LEMMA AskUnderstood ==
    ASSUME RestInv, NEW name \in Commands, NEW v \in Typed, Ask(name, v)
    PROVE  Understood'
  <1>1. pc = "prompt" /\ pc' = "send" /\ lost' = 0 /\ command'.n = command.n + 1
        /\ command'.name = name /\ Allowed(name)
        /\ UNCHANGED <<logged_in, cookies, jwt, buffer, connection, up, down, done>>
    BY DEF Ask, serverVars
  <1>2. command.n \in Nat /\ command.n + 1 \in 1 .. MaxCommands
    BY RestAssumption DEF Ask, RestInv, TypeOK
  <1>3. Credentials'
    BY <1>1 DEF RestInv, Credentials
  <1>4. Answers' /\ Quiet' /\ Outcomes'
    BY <1>1 DEF RestInv, Answers, Quiet, Outcomes
  <1>5. up' = <<>> /\ Waits'
    BY <1>1, NoRequest DEF RestInv, Waits
  <1>6. Pending'
    BY <1>1, <1>2 DEF RestInv, Credentials, Allowed, Pending, Library, WithInt, None
  <1>7. Counts'
    BY <1>1, <1>2, <1>5 DEF RestInv, Counts
  <1>. QED
    BY <1>3, <1>4, <1>5, <1>6, <1>7 DEF Understood

LEMMA RefuseUnderstood ==
    ASSUME RestInv, NEW name \in Commands, Refuse(name)
    PROVE  Understood'
  <1>1. pc = "prompt" /\ outcome' = "refused"
        /\ UNCHANGED <<pc, command, logged_in, cookies, jwt, buffer, lost, connection,
                       up, down, done>>
    BY DEF Refuse, serverVars
  <1>2. Credentials' /\ Answers' /\ Quiet' /\ Pending' /\ Outcomes'
    BY <1>1 DEF RestInv, Credentials, Answers, Quiet, Pending, Outcomes
  <1>3. Waits' /\ Counts'
    BY <1>1 DEF RestInv, Waits, NoAnswer, Counts
  <1>. QED
    BY <1>2, <1>3 DEF Understood

\* The steps after which the client no longer runs.
LEMMA EndUnderstood ==
    ASSUME RestInv,
           client_exit \/ error \/ Abort \/ \E name \in Commands : IdTooLong(name)
    PROVE  Understood'
  <1>1. pc' \in {"exited", "aborted"}
        /\ UNCHANGED <<command, logged_in, buffer, lost, connection, up, down, done>>
    BY DEF client_exit, error, Abort, IdTooLong, serverVars
  <1>2. up' = <<>>
    <2>1. pc # "receive" \/ connection # "open"
      BY DEF client_exit, error, Abort, Succeeded, IdTooLong
    <2>. QED
      BY <1>1, <2>1, NoRequest DEF RestInv
  <1>3. Credentials'
    <2>1. pc # "exited" /\ (pc' # "exited" => UNCHANGED <<cookies, jwt>>)
      BY DEF client_exit, error, Abort, Succeeded, IdTooLong
    <2>2. jwt' # None => UNCHANGED <<cookies, jwt>>
      BY DEF client_exit, error, Abort, IdTooLong
    <2>. QED
      BY <1>1, <2>1, <2>2 DEF RestInv, Credentials
  <1>4. Answers' /\ Quiet' /\ Pending' /\ Outcomes' /\ Waits'
    BY <1>1, <1>2 DEF Answers, Quiet, Pending, Outcomes, Waits
  <1>5. Counts'
    BY <1>1, <1>2 DEF RestInv, Counts
  <1>. QED
    BY <1>3, <1>4, <1>5 DEF Understood

LEMMA SendUnderstood ==
    ASSUME RestInv, send_to_server
    PROVE  Understood'
  <1>1. pc = "send" /\ pc' = "receive" /\ buffer' = <<>>
        /\ UNCHANGED <<command, logged_in, cookies, jwt, lost, connection, down, done>>
    BY DEF send_to_server, serverVars
  <1>2. up = <<>> /\ down = <<>>
    BY <1>1, NoRequest DEF RestInv, Quiet
  <1>3. NoAnswer'
    BY <1>1, <1>2 DEF NoAnswer
  <1>4. Credentials' /\ Answers' /\ Quiet' /\ Pending' /\ Outcomes'
    BY <1>1, <1>3 DEF RestInv, Credentials, Answers, Quiet, Pending, Outcomes
  <1>5. Waits'
    <2>1. CASE connection = "open"
      <3>1. up' = <<[n |-> command.n, command |-> command.name, cookie |-> cookies,
                     token |-> jwt]>>
        BY <1>2, <2>1 DEF send_to_server
      <3>. QED
        BY <1>1, <1>3, <2>1, <3>1 DEF Waits
    <2>2. CASE connection # "open"
      BY <1>2, <2>2 DEF send_to_server, Waits
    <2>. QED
      BY <2>1, <2>2
  <1>6. Counts'
    BY <1>1 DEF RestInv, Counts
  <1>. QED
    BY <1>4, <1>5, <1>6 DEF Understood

LEMMA ReadUnderstood ==
    ASSUME RestInv, receive_from_server
    PROVE  Understood'
  <1>1. pc = "receive" /\ down # <<>> /\ pc' \in {"receive", "respond"}
        /\ (pc' = "respond" <=> IsWhole(buffer'))
        /\ UNCHANGED <<command, logged_in, cookies, jwt, lost, connection, up, done>>
    BY DEF receive_from_server, Take, serverVars
  <1>2. PICK m \in 1 .. Len(down) : /\ buffer' = buffer \o SubSeq(down, 1, m)
                                    /\ down' = SubSeq(down, m + 1, Len(down))
    BY DEF receive_from_server, Take
  <1>3. up = <<>>
    BY <1>1, NoRequest DEF RestInv
  <1>4. PICK a \in Answer : Sound(a) /\ \E n \in 0 .. 6 : \E k \in 0 .. n : Cut(a, k, n)
    BY <1>1 DEF RestInv, Answers, NoAnswer, OneAnswer
  <1>5. PICK n \in 0 .. 6 : \E k \in 0 .. n : Cut(a, k, n)
    BY <1>4
  <1>6. PICK k \in 0 .. n : Cut(a, k, n)
    BY <1>5
  <1>7. k + m \in 0 .. n /\ Cut(a, k + m, n)'
    BY <1>2, <1>6, CutMoves DEF Cut
  <1>8. Sound(a)'
    BY <1>1, <1>4 DEF Sound
  <1>9. Answers'
    BY <1>7, <1>8 DEF Answers, OneAnswer
  <1>10. Quiet'
    <2>1. SUFFICES ASSUME pc' = "respond" PROVE down' = <<>>
      BY <1>1 DEF Quiet
    <2>2. IsWhole(SubSeq(Parts(a), 1, k + m)) /\ k + m \in 0 .. 6
      BY <1>1, <1>7, <2>1 DEF Cut
    <2>3. k + m = 6
      BY <2>2, WholeIsAll
    <2>4. SubSeq(Parts(a), 6 + 1, n) = <<>>
      BY NothingBehind
    <2>. QED
      BY <1>7, <2>3, <2>4 DEF Cut
  <1>11. Credentials' /\ Pending' /\ Outcomes'
    BY <1>1 DEF RestInv, Credentials, Pending, Outcomes
  <1>12. Waits' /\ Counts'
    BY <1>1, <1>3 DEF RestInv, Waits, Counts
  <1>. QED
    BY <1>9, <1>10, <1>11, <1>12 DEF Understood

LEMMA AtEndUnderstood ==
    ASSUME RestInv, AtEnd
    PROVE  Understood'
  <1>1. pc = "receive" /\ down = <<>> /\ connection = "closed"
        /\ UNCHANGED <<command, logged_in, cookies, jwt, buffer, down, done>>
    BY DEF AtEnd, serverVars
  <1>2. up = <<>> /\ up' = <<>>
    BY <1>1, NoRequest DEF RestInv, AtEnd
  <1>3. Credentials' /\ Quiet' /\ Outcomes' /\ Waits' /\ Pending'
    <2>1. pc' \in {"send", "exited", "respond"}
      BY DEF AtEnd
    <2>. QED
      BY <1>1, <1>2, <2>1 DEF RestInv, Credentials, Quiet, Outcomes, Waits, Pending
  <1>4. Answers'
    <2>1. CASE pc' = "respond"
      <3>1. buffer # <<>> /\ lost' = lost
        BY <2>1 DEF AtEnd
      <3>2. OneAnswer
        BY <1>1, <3>1 DEF RestInv, Answers, NoAnswer
      <3>3. OneAnswer'
        BY <1>1, <3>1, <3>2, SameAnswer
      <3>. QED
        BY <3>3 DEF Answers
    <2>2. CASE pc' # "respond"
      <3>1. pc' \in {"send", "exited"}
        BY <2>2 DEF AtEnd
      <3>. QED
        BY <3>1 DEF Answers
    <2>. QED
      BY <2>1, <2>2
  <1>5. Counts'
    <2>1. command.n > 0 /\ done[command.n] \in Nat /\ lost \in Nat
      BY <1>1, DoneType DEF RestInv, Pending
    <2>2. done[command.n] <= 1 + lost
      BY <2>1 DEF RestInv, Counts
    <2>3. (pc' = "send" => lost' = lost + 1) /\ lost' \in {lost, lost + 1}
      BY DEF AtEnd
    <2>4. \A m \in 1 .. MaxCommands : m > command'.n => done'[m] = 0
      BY <1>1 DEF RestInv, Counts
    <2>5. done'[command'.n] <= 1 + lost'
      BY <1>1, <2>1, <2>2, <2>3
    <2>6. pc' = "send" => done'[command'.n] <= lost'
      BY <1>1, <2>1, <2>2, <2>3
    <2>. QED
      BY <1>2, <2>4, <2>5, <2>6 DEF Counts
  <1>. QED
    BY <1>3, <1>4, <1>5 DEF Understood

LEMMA RespondUnderstood ==
    ASSUME RestInv, Respond
    PROVE  Understood'
  <1>1. pc = "respond" /\ pc' = "prompt"
        /\ UNCHANGED <<command, lost, connection, up, down, done>>
    BY DEF Respond, deal_with_error_code, Plain, Books, login, enter_library, logout,
           Succeeded, Show, serverVars
  <1>2. Received \in Answer /\ Sound(Received) /\ Received.code \in {200, 400}
        /\ (Has("head") \/ Has("body") => get_response_code = Received.code)
    BY <1>1, ReceivedSound DEF Answer, get_response_code
  <1>3. up = <<>> /\ down = <<>>
    BY <1>1, NoRequest DEF RestInv, Quiet
  <1>4. Credentials'
    <2>1. CASE deal_with_error_code \/ Plain \/ Books
      BY <1>1, <2>1 DEF deal_with_error_code, Plain, Books, RestInv, Credentials
    <2>2. CASE login /\ Has("head")
      <3>1. Received.code = 200 /\ command.name = "login"
        BY <1>2, <2>2 DEF login, Succeeded, Failed
      <3>2. Received.cookie # None /\ jwt = None
        BY <1>1, <1>2, <3>1 DEF Sound, RestInv, Pending
      <3>. QED
        BY <1>1, <2>2, <3>2 DEF login, RestInv, Credentials
    <2>5. CASE login /\ ~Has("head")
      BY <1>1, <2>5 DEF login, RestInv, Credentials
    <2>3. CASE enter_library
      <3>1. Received.code = 200 /\ command.name = "enter_library"
        BY <1>2, <2>3 DEF enter_library, Succeeded, Failed
      <3>2. Received.token = cookies
        BY <1>2, <3>1 DEF Sound
      <3>. QED
        BY <1>1, <2>3, <3>2 DEF enter_library, RestInv, Credentials
    <2>4. CASE logout
      BY <2>4 DEF logout, Credentials
    <2>. QED
      BY <2>1, <2>2, <2>3, <2>4, <2>5 DEF Respond
  <1>5. Answers' /\ Quiet' /\ Waits' /\ Pending'
    BY <1>1, <1>3 DEF Answers, Quiet, Waits, Pending
  <1>6. Counts'
    BY <1>1, <1>3 DEF RestInv, Counts
  <1>7. Outcomes'
    <2>1. command.n > 0 /\ done[command.n] \in Nat
      BY <1>1, DoneType DEF RestInv, Pending
    <2>2. outcome' = "error" => Received.code = 400
      BY <1>2 DEF Respond, deal_with_error_code, Plain, Books, login, enter_library,
                  logout, Show, Failed
    <2>3. Received.code = 400 => done[command.n] <= lost
      BY <1>2 DEF Sound
    <2>. QED
      BY <1>1, <2>1, <2>2, <2>3 DEF Outcomes
  <1>. QED
    BY <1>4, <1>5, <1>6, <1>7 DEF Understood

\* The one request that is read, and the state it is read in.
LEMMA Requested ==
    ASSUME RestInv, up # <<>>
    PROVE  /\ pc = "receive" /\ NoAnswer /\ Tail(up) = <<>> /\ Head(up) \in Request
           /\ Head(up) = [n |-> command.n, command |-> command.name,
                          cookie |-> cookies, token |-> jwt]
           /\ command.n \in 1 .. MaxCommands /\ done[command.n] \in Nat
           /\ done[command.n] <= lost /\ lost \in Nat
  <1>1. pc = "receive" /\ NoAnswer
        /\ up = <<[n |-> command.n, command |-> command.name, cookie |-> cookies,
                   token |-> jwt]>>
    BY DEF RestInv, Waits
  <1>2. command.n > 0
    BY <1>1 DEF RestInv, Pending
  <1>3. command.n \in 1 .. MaxCommands /\ done[command.n] \in Nat /\ lost \in Nat
    BY <1>2, DoneType DEF RestInv
  <1>4. Head(up) \in Request
    BY HeadRequest DEF RestInv
  <1>5. Tail(up) = <<>>
    BY <1>1
  <1>6. Head(up) = [n |-> command.n, command |-> command.name, cookie |-> cookies,
                    token |-> jwt]
    BY <1>1
  <1>7. done[command.n] <= lost
    BY DEF RestInv, Counts
  <1>. QED
    BY <1>1, <1>3, <1>4, <1>5, <1>6, <1>7

LEMMA AcceptUnderstood ==
    ASSUME RestInv, Accept
    PROVE  Understood'
  <1>1. up # <<>>
    BY DEF Accept
  <1>2. PICK r \in Request : r = Head(up)
    BY <1>1, Requested
  <1>3. up # <<>> /\ up' = Tail(up) /\ done' = [done EXCEPT ![r.n] = @ + 1]
        /\ UNCHANGED <<pc, command, logged_in, cookies, jwt, outcome, buffer, lost,
                       connection>>
    BY <1>2 DEF Accept, clientVars
  <1>4. pc = "receive" /\ NoAnswer /\ up' = <<>>
    BY <1>3, Requested
  <1>5. r.n = command.n /\ r.command = command.name /\ r.cookie = cookies
        /\ r \in Request
    BY <1>3, <1>2, Requested
  <1>6. given \in Nat /\ given' \in Nat /\ (r.command = "login" => given' = given + 1)
    BY <1>2 DEF Accept, RestInv, TypeOK
  <1>7. PICK sized \in BOOLEAN, a \in Answer :
          a = GivenAnswer(r, given', sized) /\ down' = down \o Parts(a)
    <2>1. \E sized \in BOOLEAN : down' = down \o Parts(GivenAnswer(r, given', sized))
      <3>1. \E sized \in BOOLEAN :
              down' = down \o Parts(GivenAnswer(Head(up), given', sized))
        BY Zenon DEF Accept, GivenAnswer
      <3>. QED
        BY <1>2, <3>1
    <2>2. \A sized \in BOOLEAN : GivenAnswer(r, given', sized) \in Answer
      BY <1>5, <1>6, AnswerTypes
    <2>. QED
      BY <2>1, <2>2
  <1>8. down' = down \o Parts(a)
    BY <1>7
  <1>9. a \in Answer
    OBVIOUS
  <1>10. Cut(a, 0, 6)'
    <2>1. buffer' = SubSeq(Parts(a), 1, 0)
      BY <1>3, <1>4, <1>9, CutNew DEF NoAnswer
    <2>2. down' = SubSeq(Parts(a), 0 + 1, 6)
      BY <1>4, <1>8, <1>9, CutNew DEF NoAnswer
    <2>. QED
      BY <2>1, <2>2 DEF Cut
  <1>11. done'[command.n] = done[command.n] + 1
        /\ \A m \in 1 .. MaxCommands : m # command.n => done'[m] = done[m]
    <2>1. done \in [1 .. MaxCommands -> Nat]
      BY DEF RestInv, TypeOK
    <2>2. command.n \in 1 .. MaxCommands
      BY <1>3, Requested
    <2>. QED
      BY <1>3, <1>5, <2>1, <2>2
  <1>12. Sound(a)'
    <2>1. done'[command.n] > 0
      BY <1>3, <1>11, Requested
    <2>2. a.n = command.n /\ a.code = 200
      BY <1>5, <1>7 DEF GivenAnswer
    <2>3. command.name = "login" => a.cookie # None
      BY <1>5, <1>6, <1>7 DEF GivenAnswer, None
    <2>4. command.name = "enter_library" => a.token = cookies
      BY <1>5, <1>7 DEF GivenAnswer
    <2>. QED
      BY <1>3, <2>1, <2>2, <2>3, <2>4 DEF Sound
  <1>13. Answers'
    <2>1. 6 \in 0 .. 6 /\ 0 \in 0 .. 6
      OBVIOUS
    <2>2. OneAnswer'
      BY <1>9, <1>10, <1>12, <2>1 DEF OneAnswer
    <2>. QED
      BY <2>2 DEF Answers
  <1>14. Quiet' /\ Credentials' /\ Pending' /\ Outcomes'
    BY <1>3, <1>4 DEF Quiet, RestInv, Credentials, Pending, Outcomes
  <1>15. Waits'
    BY <1>4 DEF Waits
  <1>16. Counts'
    <2>1. \A m \in 1 .. MaxCommands : m > command.n => done'[m] = 0
      <3>1. command.n \in 1 .. MaxCommands
        BY <1>3, Requested
      <3>. QED
        BY <1>11, <3>1 DEF RestInv, Counts
    <2>2. done'[command.n] <= 1 + lost
      BY <1>3, <1>11, Requested
    <2>. QED
      BY <1>3, <1>4, <2>1, <2>2 DEF Counts
  <1>. QED
    BY <1>13, <1>14, <1>15, <1>16 DEF Understood

LEMMA RejectUnderstood ==
    ASSUME RestInv, Reject
    PROVE  Understood'
  <1>1. up # <<>>
    BY DEF Reject
  <1>2. PICK r \in Request : r = Head(up)
    BY <1>1, Requested
  <1>3. up # <<>> /\ up' = Tail(up)
        /\ UNCHANGED <<pc, command, logged_in, cookies, jwt, outcome, buffer, lost,
                       connection, done>>
    BY DEF Reject, clientVars, serverVars
  <1>4. pc = "receive" /\ NoAnswer /\ up' = <<>>
    BY <1>3, Requested
  <1>5. r.n = command.n /\ r \in Request
    BY <1>3, <1>2, Requested
  <1>6. PICK sized \in BOOLEAN, a \in Answer :
          a = Refusal(r, sized) /\ down' = down \o Parts(a)
    <2>1. \E sized \in BOOLEAN : down' = down \o Parts(Refusal(r, sized))
      <3>1. \E sized \in BOOLEAN : down' = down \o Parts(Refusal(Head(up), sized))
        BY Zenon DEF Reject, Refusal
      <3>. QED
        BY <1>2, <3>1
    <2>2. 0 \in Nat
      OBVIOUS
    <2>3. \A sized \in BOOLEAN : Refusal(r, sized) \in Answer
      BY <1>5, <2>2, AnswerTypes
    <2>. QED
      BY <2>1, <2>3
  <1>7. down' = down \o Parts(a)
    BY <1>6
  <1>8. a \in Answer
    OBVIOUS
  <1>9. Cut(a, 0, 6)'
    <2>1. buffer' = SubSeq(Parts(a), 1, 0)
      BY <1>3, <1>4, <1>8, CutNew DEF NoAnswer
    <2>2. down' = SubSeq(Parts(a), 0 + 1, 6)
      BY <1>4, <1>7, <1>8, CutNew DEF NoAnswer
    <2>. QED
      BY <2>1, <2>2 DEF Cut
  <1>10. Sound(a)'
    <2>1. done[command.n] <= lost
      BY <1>3, Requested
    <2>2. a.n = command.n /\ a.code = 400
      BY <1>5, <1>6 DEF Refusal
    <2>. QED
      BY <1>3, <2>1, <2>2 DEF Sound
  <1>11. Answers'
    <2>1. 6 \in 0 .. 6 /\ 0 \in 0 .. 6
      OBVIOUS
    <2>2. OneAnswer'
      BY <1>8, <1>9, <1>10, <2>1 DEF OneAnswer
    <2>. QED
      BY <2>2 DEF Answers
  <1>12. Quiet' /\ Credentials' /\ Pending' /\ Outcomes'
    BY <1>3, <1>4 DEF Quiet, RestInv, Credentials, Pending, Outcomes
  <1>13. Waits' /\ Counts'
    BY <1>3, <1>4 DEF RestInv, Waits, Counts
  <1>. QED
    BY <1>11, <1>12, <1>13 DEF Understood

LEMMA NetworkUnderstood ==
    ASSUME RestInv, Close \/ Reset
    PROVE  Understood'
  <1>1. up' = <<>>
        /\ UNCHANGED <<pc, command, logged_in, cookies, jwt, outcome, buffer, lost, done>>
    BY DEF Close, Reset, clientVars, serverVars
  <1>2. down = <<>> => down' = <<>>
    <2>1. CASE Close
      <3>1. PICK k \in 0 .. Len(down) : down' = SubSeq(down, 1, k)
        BY <2>1 DEF Close
      <3>2. SUFFICES ASSUME down = <<>> PROVE down' = <<>>
        OBVIOUS
      <3>3. k = 0
        BY <3>1, <3>2
      <3>. QED
        BY <3>1, <3>2, <3>3
    <2>2. CASE Reset
      BY <2>2 DEF Reset
    <2>. QED
      BY <2>1, <2>2
  <1>3. Answers'
    <2>1. SUFFICES ASSUME pc \in {"receive", "respond"} PROVE NoAnswer' \/ OneAnswer'
      BY <1>1 DEF Answers
    <2>2. CASE NoAnswer
      BY <1>1, <1>2, <2>2 DEF NoAnswer
    <2>3. CASE OneAnswer
      <3>1. PICK a \in Answer :
              Sound(a) /\ \E n \in 0 .. 6 : \E k \in 0 .. n : Cut(a, k, n)
        BY <2>3 DEF OneAnswer
      <3>2. PICK n \in 0 .. 6 : \E k \in 0 .. n : Cut(a, k, n)
        BY <3>1
      <3>3. PICK k \in 0 .. n : Cut(a, k, n)
        BY <3>2
      <3>4. k \in 0 .. 6
        OBVIOUS
      <3>5. \E o \in 0 .. 6 : k \in 0 .. o /\ Cut(a, k, o)'
        <4>1. CASE Close
          <5>1. PICK m \in 0 .. Len(down) : down' = SubSeq(down, 1, m)
            BY <4>1 DEF Close
          <5>2. k + m \in 0 .. 6 /\ down' = SubSeq(Parts(a), k + 1, k + m)
            BY <3>3, <5>1, CutShorter
          <5>3. Len(down) \in Nat
            BY DEF RestInv, TypeOK
          <5>4. k \in 0 .. k + m
            BY <5>3
          <5>. QED
            BY <1>1, <3>3, <5>2, <5>4 DEF Cut
        <4>2. CASE Reset
          <5>1. down' = SubSeq(Parts(a), k + 1, k)
            BY <3>4, <4>2, NothingBehind DEF Reset
          <5>2. k \in 0 .. k
            BY <3>4
          <5>. QED
            BY <1>1, <3>3, <3>4, <5>1, <5>2 DEF Cut
        <4>. QED
          BY <4>1, <4>2
      <3>6. Sound(a)'
        BY <1>1, <3>1 DEF Sound
      <3>. QED
        BY <3>5, <3>6 DEF OneAnswer
    <2>. QED
      BY <2>1, <2>2, <2>3 DEF RestInv, Answers
  <1>4. Quiet' /\ Credentials' /\ Pending' /\ Outcomes'
    BY <1>1, <1>2 DEF Quiet, RestInv, Credentials, Pending, Outcomes
  <1>5. Waits' /\ Counts'
    BY <1>1 DEF RestInv, Waits, Counts
  <1>. QED
    BY <1>3, <1>4, <1>5 DEF Understood

LEMMA EndAnswerUnderstood ==
    ASSUME RestInv, EndAnswer
    PROVE  Understood'
  <1>1. UNCHANGED <<pc, command, logged_in, cookies, jwt, outcome, buffer, lost, up,
                    down, done>>
    BY DEF EndAnswer, clientVars, serverVars
  <1>2. up = <<>>
    <2>1. ~NoAnswer
      BY DEF EndAnswer, NoAnswer
    <2>. QED
      BY <2>1 DEF RestInv, Waits
  <1>3. Answers'
    BY <1>1, SameAnswer DEF RestInv, Answers, NoAnswer
  <1>4. Quiet' /\ Credentials' /\ Pending' /\ Outcomes'
    BY <1>1 DEF Quiet, RestInv, Credentials, Pending, Outcomes
  <1>5. Waits' /\ Counts'
    BY <1>1, <1>2 DEF RestInv, Waits, Counts
  <1>. QED
    BY <1>3, <1>4, <1>5 DEF Understood

LEMMA StillUnderstood ==
    ASSUME RestInv, Forget \/ UNCHANGED vars
    PROVE  Understood'
  <1>1. UNCHANGED <<pc, command, logged_in, cookies, jwt, outcome, buffer, lost,
                    connection, up, down, done>>
    BY DEF Forget, vars, clientVars, serverVars
  <1>2. Answers'
    BY <1>1, SameAnswer DEF RestInv, Answers, NoAnswer
  <1>3. Quiet' /\ Credentials' /\ Pending' /\ Outcomes'
    BY <1>1 DEF Quiet, RestInv, Credentials, Pending, Outcomes
  <1>4. Waits' /\ Counts'
    BY <1>1 DEF RestInv, Waits, NoAnswer, Counts
  <1>. QED
    BY <1>2, <1>3, <1>4 DEF Understood

LEMMA InitRest == Init => RestInv
  <1>. SUFFICES ASSUME Init PROVE RestInv
    OBVIOUS
  <1>1. command.n = 0 /\ pc = "prompt" /\ outcome = "none" /\ up = <<>> /\ down = <<>>
        /\ logged_in = FALSE /\ cookies = None /\ jwt = None
        /\ \A m \in 1 .. MaxCommands : done[m] = 0
    BY DEF Init
  <1>. QED
    BY <1>1, InitTypes DEF RestInv, Credentials, Answers, Quiet, Waits, Pending, Counts,
                           Outcomes

LEMMA StepRest == RestInv /\ [Next]_vars => RestInv'
  <1>. SUFFICES ASSUME RestInv, [Next]_vars PROVE RestInv'
    OBVIOUS
  <1>1. TypeOK'
    BY StepTypes DEF RestInv
  <1>2. Understood'
    <2>1. ASSUME NEW name \in Commands, NEW v \in Typed, Ask(name, v)
          PROVE  Understood'
      BY <2>1, AskUnderstood
    <2>2. ASSUME NEW name \in Commands, Refuse(name)
          PROVE  Understood'
      BY <2>2, RefuseUnderstood
    <2>3. CASE client_exit \/ error \/ Abort \/ \E name \in Commands : IdTooLong(name)
      BY <2>3, EndUnderstood
    <2>4. CASE send_to_server
      BY <2>4, SendUnderstood
    <2>5. CASE receive_from_server
      BY <2>5, ReadUnderstood
    <2>6. CASE AtEnd
      BY <2>6, AtEndUnderstood
    <2>7. CASE Respond
      BY <2>7, RespondUnderstood
    <2>8. CASE Accept
      BY <2>8, AcceptUnderstood
    <2>9. CASE Reject
      BY <2>9, RejectUnderstood
    <2>10. CASE Close \/ Reset
      BY <2>10, NetworkUnderstood
    <2>11. CASE Forget \/ UNCHANGED vars
      BY <2>11, StillUnderstood
    <2>12. CASE EndAnswer
      BY <2>12, EndAnswerUnderstood
    <2>. QED
      BY <2>1, <2>2, <2>3, <2>4, <2>5, <2>6, <2>7, <2>8, <2>9, <2>10, <2>11, <2>12
         DEF Next, Receive, Serve
  <1>. QED
    BY <1>1, <1>2 DEF RestInv, Understood

LEMMA AlwaysRest == Spec => []RestInv
  BY InitRest, StepRest, PTL DEF Spec

(***************************************************************************)
(* The theorems.                                                           *)
(***************************************************************************)
\* The cookie says whether the client is logged in, and the token is of the
\* cookie's session (client.cpp 211-218, 268-272, 492-505).
THEOREM CredentialsAgree == Spec => []Credentials
  <1>1. RestInv => Credentials
    BY DEF RestInv
  <1>. QED
    BY <1>1, AlwaysRest, PTL

\* What is read is the answer to the present command, from its first line on
\* (helpers.cpp 73-126, client.cpp 139-161).
THEOREM AnswerIsOwn == Spec => []OwnAnswer
  <1>1. RestInv => OwnAnswer
    <2>. SUFFICES ASSUME RestInv PROVE OwnAnswer
      OBVIOUS
    <2>1. ASSUME pc \in {"receive", "respond"}, NEW j \in DOMAIN buffer
          PROVE  /\ buffer[j].of.n = command.n
                 /\ buffer[j].part = Order[j]
      <3>1. buffer # <<>>
        BY <2>1
      <3>2. PICK a \in Answer :
              Sound(a) /\ \E n \in 0 .. 6 : \E k \in 0 .. n : Cut(a, k, n)
        BY <2>1, <3>1 DEF RestInv, Answers, NoAnswer, OneAnswer
      <3>3. PICK n \in 0 .. 6 : \E k \in 0 .. n : Cut(a, k, n)
        BY <3>2
      <3>4. PICK k \in 0 .. n : Cut(a, k, n)
        BY <3>3
      <3>5. Len(buffer) = k
        BY <3>4, CutParts
      <3>6. DOMAIN buffer = 1 .. Len(buffer)
        <4>1. buffer \in Seq(Part)
          BY DEF RestInv, TypeOK
        <4>. QED
          BY <4>1
      <3>7. j \in 1 .. k /\ j \in 1 .. 6
        BY <2>1, <3>6, <3>5
      <3>8. buffer[j] = Parts(a)[j]
        BY <3>4, <3>7, CutParts
      <3>9. buffer[j].of = a /\ buffer[j].part = Order[j]
        BY <3>7, <3>8, PartsOf
      <3>10. a.n = command.n
        BY <3>2 DEF Sound
      <3>. QED
        BY <3>9, <3>10
    <2>2. pc \in {"prompt", "send"} => down = <<>>
      BY DEF RestInv, Quiet
    <2>. QED
      BY <2>1, <2>2 DEF OwnAnswer
  <1>. QED
    BY <1>1, AlwaysRest, PTL

\* What is reported as done was done, whatever was lost or sent again and
\* wherever behind the status code the answer was cut (client.cpp 139-161,
\* helpers.cpp 128-132).
THEOREM SuccessIsTrue == Spec => SuccessIsReal
  <1>. DEFINE Honest == pc = "respond" /\ Has("code") /\ outcome' = "success" /\ pc' = "prompt"
                        => command.n > 0 /\ done[command.n] > 0
  <1>1. RestInv /\ [Next]_vars => [Honest]_vars
    <2>. SUFFICES ASSUME RestInv, Next, pc = "respond", Has("code"), outcome' = "success",
                         pc' = "prompt"
                  PROVE  command.n > 0 /\ done[command.n] > 0
      OBVIOUS
    <2>1. Respond
      BY DEF Next, Ask, Refuse, IdTooLong, client_exit, Receive, send_to_server,
             receive_from_server, Take, AtEnd, error, Abort, Serve, Accept, Reject,
             EndAnswer, Close, Reset, Forget, clientVars
    <2>2. Received \in Answer /\ Sound(Received) /\ Received.code \in {200, 400}
      BY ReceivedSound DEF Answer
    <2>3. ~Failed(get_response_code)
      BY <2>1 DEF Respond, deal_with_error_code, Plain, Books, login, enter_library,
                  logout, Succeeded, Show
    <2>4. Received.code = 200
      BY <2>2, <2>3 DEF Failed, get_response_code
    <2>. QED
      BY <2>2, <2>4 DEF Sound, RestInv, Pending
  <1>2. SuccessIsReal <=> [][Honest]_vars
    BY DEF SuccessIsReal
  <1>. QED
    BY <1>1, <1>2, AlwaysRest, PTL DEF Spec

\* A command is carried out once more only for a lost answer (client.cpp 139-161).
THEOREM RepeatedOnlyIfLost == Spec => []OnceUnlessLost
  <1>1. RestInv => OnceUnlessLost
    BY DEF RestInv, Outcomes, Counts, OnceUnlessLost
  <1>. QED
    BY <1>1, AlwaysRest, PTL

\* atoi of a number of digits, of which those that fit in an int are kept.
LEMMA Converted ==
    ASSUME NEW v \in Nat
    PROVE  /\ atoi(v) \in Int /\ atoi(v) < IntRange \div 2
           /\ v < IntRange \div 2 => atoi(v) = v
  <1>1. IntRange \in Nat \ {0} /\ LongRange \in Nat /\ IntRange <= LongRange
    BY RestAssumption
  <1>2. strtol(v) \in Int /\ (v < IntRange \div 2 => strtol(v) = v)
    <2>1. LongMax \in Int /\ IntRange \div 2 \in Nat /\ IntRange \div 2 - 1 <= LongMax
      BY <1>1, SMT DEF LongMax
    <2>. QED
      BY <2>1 DEF strtol
  <1>3. ASSUME NEW l \in Int
        PROVE  /\ ToInt(l) \in Int /\ ToInt(l) < IntRange \div 2
               /\ l \in Nat /\ l < IntRange \div 2 => ToInt(l) = l
    <2>1. l % IntRange \in 0 .. IntRange - 1
          /\ (l \in Nat /\ l < IntRange => l % IntRange = l)
      BY <1>1, SMT
    <2>2. IntRange \div 2 \in Nat /\ IntRange \div 2 < IntRange
      BY <1>1, SMT
    <2>. QED
      BY <1>1, <2>1, <2>2 DEF ToInt
  <1>. QED
    BY <1>2, <1>3 DEF atoi

\* The number of the present command, whatever the state.
Number ==
    command.name \in WithInt =>
        /\ command.id \in 0 .. (IntRange \div 2) - 1
        /\ command.typed < IntRange \div 2 => command.id = command.typed

LEMMA AskNumber ==
    ASSUME NEW name \in Commands, NEW v \in Typed, Ask(name, v)
    PROVE  Number'
  <1>1. v \in Nat /\ IntRange \in Nat
    BY RestAssumption
  <1>2. CASE name \in WithInt
    <2>1. /\ command'.id = atoi(v) /\ command'.typed = v
          /\ atoi(v) >= 0
      BY <1>2 DEF Ask
    <2>2. atoi(v) \in Int /\ IntRange \div 2 \in Nat
      BY <1>1, RestAssumption, Converted
    <2>. QED
      BY <1>1, <2>1, <2>2, Converted DEF Number
  <1>3. CASE name \notin WithInt
    BY <1>3 DEF Ask, Number
  <1>. QED
    BY <1>2, <1>3

LEMMA AlwaysNumber == Spec => []Number
  <1>1. Init => Number
    BY DEF Init, Number, WithInt
  <1>2. Number /\ [Next]_vars => Number'
    <2>. SUFFICES ASSUME Number, [Next]_vars PROVE Number'
      OBVIOUS
    <2>1. ASSUME NEW name \in Commands, NEW v \in Typed, Ask(name, v)
          PROVE  Number'
      BY <2>1, AskNumber
    <2>2. (\E name \in Commands, v \in Typed : Ask(name, v)) \/ UNCHANGED command
      BY DEF Next, Refuse, IdTooLong, client_exit, Receive, send_to_server,
             receive_from_server, Take, AtEnd, error, Respond, Show, Abort,
             deal_with_error_code, Plain, Books, login, enter_library, logout, Serve,
             Accept, Reject, EndAnswer, Close, Reset, Forget, vars, clientVars
    <2>3. CASE UNCHANGED command
      BY <2>3 DEF Number
    <2>. QED
      BY <2>1, <2>2, <2>3
  <1>. QED
    BY <1>1, <1>2, PTL DEF Spec

\* The number that is sent is no negative int, and the one that was typed if
\* that fits (client.cpp 313-336).
THEOREM NumberIsSent == Spec => []SentInt
  <1>1. Number => SentInt
    BY DEF Number, SentInt
  <1>. QED
    BY <1>1, AlwaysNumber, PTL
=============================================================================
