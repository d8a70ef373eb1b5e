------------------------------ MODULE RestClient ------------------------------
(***************************************************************************)
(* tema3: the REST client (client.cpp, helpers.cpp, requests.cpp), one     *)
(* connection at a time to a server, with the server and the network as    *)
(* the client meets them: the server may close the connection at any time, *)
(* reset it, or forget its sessions.                                       *)
(*                                                                         *)
(* An answer arrives in six parts (Order), cut where the code behaves      *)
(* differently; a read takes any number of those that are there.  Whether  *)
(* its header has a Content-Length is up to the server.  A session stands  *)
(* for its cookie and for the token of its library.                        *)
(***************************************************************************)
EXTENDS Integers, Sequences

CONSTANTS
    Typed,          \* the numbers a user types
    IntRange,       \* values of an int: 2^32
    LongRange,      \* values of a long: 2^64
    MaxCommands,    \* bound: commands that are sent
    MaxFaults       \* bound: connections lost and times the sessions are forgotten

ASSUME RestAssumption ==
    /\ Typed \subseteq Nat
    /\ IntRange \in Nat \ {0} /\ LongRange \in Nat /\ IntRange <= LongRange
    /\ MaxCommands \in Nat /\ MaxFaults \in Nat

None == 0
User == {"register", "login"}
WithInt == {"get_book", "add_book", "delete_book"}
Library == {"get_books"} \cup WithInt
Commands == User \cup Library \cup {"enter_library", "logout"}
Session == Nat \ {None}

Request == [n : Nat, command : Commands, cookie : Nat, token : Nat]
Answer == [n : Nat, code : {200, 400}, cookie : Nat, token : Nat, sized : BOOLEAN]

\* The parts of an answer: up to its first space; that space and some, not all,
\* of the status code's digits; the rest of the code; the header up to within
\* the value of Set-Cookie; the rest of the header; the body.  A header that is
\* cut behind the cookie is for login as a whole one, for the others as one
\* that is cut before it.
Order == <<"version", "space", "code", "cookie", "head", "body">>
Part == [part : {"version", "space", "code", "cookie", "head", "body"}, of : Answer]

VARIABLES
    pc,             \* "prompt", "send", "receive", "respond", "exited" or "aborted"
    command,        \* the last command sent, its number, what was typed and the int of it
    logged_in, cookies, jwt,    \* struct client
    outcome,        \* what was shown last
    buffer,         \* receive_from_server: the answer so far
    connection,     \* "open", "closed" or "reset" by the server
    up, down,       \* requests and parts of answers on the connection
    sessions,       \* the server: sessions that are valid
    given,          \* sessions given so far
    done,           \* how often a command was carried out
    lost,           \* times the present command was sent again
    faults

clientVars == <<pc, command, logged_in, cookies, jwt, outcome, buffer, lost>>
serverVars == <<sessions, given, done>>
vars == <<clientVars, connection, up, down, serverVars, faults>>

Init ==
    /\ pc = "prompt" /\ outcome = "none"
    /\ command = [n |-> 0, name |-> "get_books", typed |-> 0, id |-> 0]
    /\ logged_in = FALSE /\ cookies = None /\ jwt = None
    /\ buffer = <<>> /\ up = <<>> /\ down = <<>>
    /\ connection = "open"
    /\ sessions = {} /\ given = 0 /\ done = [n \in 1 .. MaxCommands |-> 0]
    /\ lost = 0 /\ faults = 0

(***************************************************************************)
(* The commands.                                                           *)
(***************************************************************************)
atoll(v) == v % IntRange           \* mistake: kept as it is in a wider type
\* glibc's atoi, of digits: strtol, which ends at the largest long, converted
\* to int.
LongMax == LongRange \div 2 - 1
strtol(v) == IF v > LongMax THEN LongMax ELSE v
ToInt(l) == IF l % IntRange < IntRange \div 2 THEN l % IntRange
            ELSE (l % IntRange) - IntRange
atoi(v) == ToInt(strtol(v))

Allowed(name) ==
    \/ name = "register"
    \/ name = "login" /\ ~logged_in
    \/ name = "enter_library" /\ logged_in /\ jwt = None
    \/ name \in Library /\ logged_in /\ jwt # None
    \/ name = "logout" /\ logged_in

Ask(name, v) ==
    /\ pc = "prompt" /\ command.n < MaxCommands
    /\ Allowed(name)
    /\ name \in WithInt => atoi(v) >= 0
    /\ command' = [n |-> command.n + 1, name |-> name,
                   typed |-> IF name \in WithInt THEN v ELSE 0,
                   id |-> IF name \in WithInt THEN atoi(v) ELSE 0]
    /\ pc' = "send" /\ lost' = 0
    /\ UNCHANGED <<logged_in, cookies, jwt, outcome, buffer, connection, up, down,
                   serverVars, faults>>

\* Not the time for it, or a field that is not accepted: empty, too long, with a
\* space, not of digits, or a number whose int is negative.
Refuse(name) ==
    /\ pc = "prompt"
    /\ ~Allowed(name) \/ name \in User \cup WithInt
    /\ outcome' = "refused"
    /\ UNCHANGED <<pc, command, logged_in, cookies, jwt, buffer, lost, connection,
                   up, down, serverVars, faults>>

\* ask_book_id goes on with an id that is too long: there is no "id" then, and
\* to take it for a string is an exception that nobody catches.
IdTooLong(name) ==
    /\ pc = "prompt"
    /\ Allowed(name) /\ name \in {"get_book", "delete_book"}
    /\ pc' = "aborted"
    /\ UNCHANGED <<command, logged_in, cookies, jwt, outcome, buffer, lost, connection,
                   up, down, serverVars, faults>>

client_exit ==
    /\ pc = "prompt"
    /\ pc' = "exited" /\ cookies' = None /\ jwt' = None
    /\ UNCHANGED <<command, logged_in, outcome, buffer, lost, connection, up, down,
                   serverVars, faults>>

(***************************************************************************)
(* receive_certain_message.                                                *)
(***************************************************************************)
\* What is written to a connection the server has closed is lost.
send_to_server ==
    /\ pc = "send" /\ connection # "reset"
    /\ up' = IF connection = "open"
             THEN Append(up, [n |-> command.n, command |-> command.name,
                              cookie |-> cookies, token |-> jwt])
             ELSE up
    /\ pc' = "receive" /\ buffer' = <<>>
    /\ UNCHANGED <<command, logged_in, cookies, jwt, outcome, lost, connection, down,
                   serverVars, faults>>

Has(part) == \E k \in DOMAIN buffer : buffer[k].part = part
\* Without a Content-Length it is never whole: the loop reads on.
IsWhole(b) ==
    \E k, l \in DOMAIN b :
        /\ k < l
        /\ b[k].part = "head" /\ b[k].of.sized
        /\ b[l].part = "body"

\* One read: any of the parts that are there.
Take ==
    /\ pc = "receive" /\ down # <<>>
    /\ \E k \in 1 .. Len(down) :
         /\ buffer' = buffer \o SubSeq(down, 1, k)
         /\ down' = SubSeq(down, k + 1, Len(down))
    /\ UNCHANGED <<command, logged_in, cookies, jwt, outcome, lost, connection, up,
                   serverVars, faults>>

receive_header ==       \* mistake: the body is not waited for
    /\ Take
    /\ pc' = IF \E k \in DOMAIN buffer' : buffer'[k].part = "head"
             THEN "respond" ELSE "receive"
receive_or_send ==      \* mistake: sent again when the answer is not whole
    /\ Take
    /\ pc' = IF IsWhole(buffer') THEN "respond" ELSE "send"
receive_from_server ==
    /\ Take
    /\ pc' = IF IsWhole(buffer') THEN "respond" ELSE "receive"

AtEndAnswers ==         \* mistake: an empty answer is looked at
    /\ pc = "receive" /\ connection = "closed" /\ down = <<>>
    /\ pc' = "respond"
    /\ UNCHANGED <<command, logged_in, cookies, jwt, outcome, buffer, lost, connection,
                   up, down, serverVars, faults>>
AtEndWithSome ==        \* mistake: an empty answer is waited for
    /\ pc = "receive" /\ connection = "closed" /\ down = <<>>
    /\ buffer # <<>>
    /\ pc' = "respond"
    /\ UNCHANGED <<command, logged_in, cookies, jwt, outcome, buffer, lost, connection,
                   up, down, serverVars, faults>>

\* read returns 0: with an empty answer, a new connection, if there is one, and
\* once more.
AtEnd ==
    /\ pc = "receive" /\ connection = "closed" /\ down = <<>>
    /\ IF buffer = <<>>
       THEN \/ /\ pc' = "send" /\ lost' = lost + 1
               /\ connection' = "open" /\ up' = <<>>
            \/ pc' = "exited" /\ UNCHANGED <<lost, connection, up>>
       ELSE pc' = "respond" /\ UNCHANGED <<lost, connection, up>>
    /\ UNCHANGED <<command, logged_in, cookies, jwt, outcome, buffer, down, serverVars,
                   faults>>

\* write or read fails.
error ==
    /\ pc \in {"send", "receive"} /\ connection = "reset"
    /\ pc' = "exited"
    /\ UNCHANGED <<command, logged_in, cookies, jwt, outcome, buffer, lost, connection,
                   up, down, serverVars, faults>>

(***************************************************************************)
(* The answer.                                                             *)
(***************************************************************************)
FailedAbove(code) == code > 400     \* mistake: not for 400
Failed(code) == code >= 400

Received == buffer[1].of

\* atoi of the digits that are there: of a code that is cut it is below 400.
get_response_code == IF Has("code") THEN Received.code ELSE 0

Succeeded(names) ==
    pc = "respond" /\ Has("space") /\ ~Failed(get_response_code) /\ command.name \in names

\* The line that is printed; the answer is freed.
Show(what) ==
    /\ pc' = "prompt" /\ outcome' = what /\ buffer' = <<>>
    /\ UNCHANGED <<command, lost, connection, up, down, serverVars, faults>>

\* A parser's exception that nobody catches, or a pointer from a search that
\* found nothing: no space, no end of the header, no end of the cookie.
Abort ==
    /\ \/ pc = "respond" /\ ~Has("space")
       \/ pc = "respond" /\ Failed(get_response_code) /\ ~Has("body")
       \/ Succeeded({"enter_library", "get_books", "get_book"}) /\ ~Has("body")
       \/ Succeeded({"login"}) /\ Has("cookie") /\ ~Has("head")
    /\ pc' = "aborted"
    /\ UNCHANGED <<command, logged_in, cookies, jwt, outcome, buffer, lost, connection,
                   up, down, serverVars, faults>>

deal_with_error_code ==
    /\ pc = "respond" /\ Failed(get_response_code) /\ Has("head")
    /\ Show("error")
    /\ UNCHANGED <<logged_in, cookies, jwt>>

Plain ==                \* register_client, add_book, delete_book
    /\ Succeeded({"register", "add_book", "delete_book"})
    /\ Show("success")
    /\ UNCHANGED <<logged_in, cookies, jwt>>

Books ==                \* get_books, get_book
    /\ Succeeded({"get_books", "get_book"}) /\ Has("body")
    /\ Show("success")
    /\ UNCHANGED <<logged_in, cookies, jwt>>

login ==
    /\ Succeeded({"login"})
    /\ \/ /\ Has("head")
          /\ Show("success")
          /\ logged_in' = TRUE /\ cookies' = Received.cookie /\ UNCHANGED jwt
       \/ /\ ~Has("cookie")
          /\ Show("failed") /\ UNCHANGED <<logged_in, cookies, jwt>>

enter_library ==
    /\ Succeeded({"enter_library"}) /\ Has("body")
    /\ Show("success")
    /\ jwt' = Received.token /\ UNCHANGED <<logged_in, cookies>>

logout_token_kept ==    \* mistake: the token outlives its session
    /\ Succeeded({"logout"})
    /\ Show("success")
    /\ logged_in' = FALSE /\ cookies' = None /\ UNCHANGED jwt
logout ==
    /\ Succeeded({"logout"})
    /\ Show("success")
    /\ logged_in' = FALSE /\ cookies' = None /\ jwt' = None

(***************************************************************************)
(* The server and the network.                                             *)
(***************************************************************************)
Accepts(r) ==
    \/ r.command \in User
    \/ r.command \in {"enter_library", "logout"} /\ r.cookie \in sessions
    \/ r.command \in Library /\ r.token \in sessions

Parts(a) == [k \in 1 .. 6 |-> [part |-> Order[k], of |-> a]]

Accept ==
    /\ connection = "open" /\ up # <<>>
    /\ LET r == Head(up)
       IN  /\ Accepts(r)
           /\ done' = [done EXCEPT ![r.n] = @ + 1]
           /\ given' = IF r.command = "login" THEN given + 1 ELSE given
           /\ sessions' = IF r.command = "login" THEN sessions \cup {given'}
                          ELSE IF r.command = "logout" THEN sessions \ {r.cookie}
                          ELSE sessions
           /\ \E sized \in BOOLEAN :
                down' = down \o Parts([n |-> r.n, code |-> 200,
                                       cookie |-> IF r.command = "login" THEN given' ELSE None,
                                       token |-> IF r.command = "enter_library"
                                                 THEN r.cookie ELSE None,
                                       sized |-> sized])
    /\ up' = Tail(up)
    /\ UNCHANGED <<clientVars, connection, faults>>

\* A session that is not valid, a wrong password, a name taken, no such book.
Reject ==
    /\ connection = "open" /\ up # <<>>
    /\ \E sized \in BOOLEAN :
         down' = down \o Parts([n |-> Head(up).n, code |-> 400, cookie |-> None,
                                token |-> None, sized |-> sized])
    /\ up' = Tail(up)
    /\ UNCHANGED <<clientVars, connection, serverVars, faults>>

\* An answer without a Content-Length ends with its connection.
EndAnswer ==
    /\ connection = "open"
    /\ \E k \in DOMAIN (buffer \o down) : ~(buffer \o down)[k].of.sized
    /\ connection' = "closed"
    /\ UNCHANGED <<clientVars, up, down, serverVars, faults>>

\* Idle, before the request was read, before its answer or within it.
Close ==
    /\ connection = "open" /\ faults < MaxFaults
    /\ connection' = "closed" /\ up' = <<>>
    /\ \E k \in 0 .. Len(down) : down' = SubSeq(down, 1, k)
    /\ faults' = faults + 1
    /\ UNCHANGED <<clientVars, serverVars>>

Reset ==
    /\ connection # "reset" /\ faults < MaxFaults
    /\ connection' = "reset" /\ up' = <<>> /\ down' = <<>>
    /\ faults' = faults + 1
    /\ UNCHANGED <<clientVars, serverVars>>

Forget ==
    /\ sessions # {} /\ faults < MaxFaults
    /\ sessions' = {}
    /\ faults' = faults + 1
    /\ UNCHANGED <<clientVars, connection, up, down, given, done>>

Respond == deal_with_error_code \/ Plain \/ Books \/ login \/ enter_library \/ logout
Receive == send_to_server \/ receive_from_server \/ AtEnd \/ error
Serve == Accept \/ Reject \/ EndAnswer

Next ==
    \/ \E name \in Commands, v \in Typed : Ask(name, v)
    \/ \E name \in Commands : Refuse(name) \/ IdTooLong(name)
    \/ client_exit
    \/ Receive \/ Respond \/ Abort
    \/ Serve \/ Close \/ Reset \/ Forget

Spec == Init /\ [][Next]_vars

\* The client runs; the server answers what it reads, and closes the connection
\* behind an answer without a Content-Length; nobody has to type.
FairSpec == Spec /\ WF_vars(Receive) /\ WF_vars(Respond \/ Abort) /\ WF_vars(Serve)

(***************************************************************************)
(* Properties.                                                             *)
(***************************************************************************)
\* Type invariant; an answer that is looked at is never empty (139-161).
TypeOK ==
    /\ pc \in {"prompt", "send", "receive", "respond", "exited", "aborted"}
    /\ command \in [n : 0 .. MaxCommands, name : Commands, typed : Nat, id : Int]
    /\ logged_in \in BOOLEAN /\ cookies \in Nat /\ jwt \in Nat
    /\ outcome \in {"none", "refused", "success", "error", "failed"}
    /\ buffer \in Seq(Part) /\ (pc = "respond" => buffer # <<>>)
    /\ connection \in {"open", "closed", "reset"}
    /\ up \in Seq(Request) /\ down \in Seq(Part)
    /\ sessions \subseteq 1 .. given /\ given \in Nat
    /\ done \in [1 .. MaxCommands -> Nat]
    /\ lost \in Nat /\ faults \in 0 .. MaxFaults

\* Until it exits the client has a cookie exactly while it is logged in, and
\* a token only of the session of that cookie (client.cpp 211-218, 268-272,
\* 492-505).
Credentials ==
    /\ pc # "exited" => (logged_in <=> cookies # None)
    /\ jwt # None => jwt = cookies

\* What is read answers the present command, from its first line on: nothing
\* of an earlier answer is left on a connection (helpers.cpp 73-126).
OwnAnswer ==
    /\ pc \in {"receive", "respond"} =>
           \A k \in DOMAIN buffer : /\ buffer[k].of.n = command.n
                                    /\ buffer[k].part = Order[k]
    /\ pc \in {"prompt", "send"} => down = <<>>

\* A command is reported as done only if the server did it, however often it
\* was sent and wherever behind the status code its answer was cut (client.cpp
\* 139-161, helpers.cpp 128-132).  Of a refusal that is cut in its status
\* code it is not so: atoi of "40" or of nothing is below 400.
SuccessIsReal ==
    [][pc = "respond" /\ Has("code") /\ outcome' = "success" /\ pc' = "prompt" =>
           command.n > 0 /\ done[command.n] > 0]_vars

\* The server does a command once more only when an answer was lost, and what
\* it refused at the first time it has not done (client.cpp 139-161).
OnceUnlessLost ==
    command.n > 0 =>
        /\ done[command.n] <= 1 + lost
        /\ pc = "prompt" /\ outcome = "error" /\ lost = 0 => done[command.n] = 0

\* Every command comes to an end if the server does not close its connections
\* for ever, and closes the one on which it sent an answer without a
\* Content-Length: of that answer the client reads until the end of file (under
\* FairSpec; client.cpp 139-161, helpers.cpp 73-126).
CommandsEnd == pc = "send" ~> pc \in {"prompt", "exited", "aborted"}

\* What is sent for a number is a value of int that is not negative, and the
\* number itself if it fits (client.cpp 313-336).
SentInt ==
    pc = "send" /\ command.name \in WithInt =>
        /\ command.id \in 0 .. (IntRange \div 2) - 1
        /\ command.typed < IntRange \div 2 => command.id = command.typed
=============================================================================
