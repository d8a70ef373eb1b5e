# Communication networks homeworks: TLA+ models, checks and proofs

The repository holds three programs written for a communication networks
course:

| directory | program | shape |
|---|---|---|
| `tema1` | a software router (C) | one process, one loop over packets |
| `tema2` | a publish/subscribe server and its TCP subscriber (C++) | one single-threaded server, many subscriber processes |
| `tema3` | a command-line REST client (C++) | one sequential process against a remote server |

`tema2` is the core: it is the only one where several processes of the
repository's own code interact, where connections come, break and come back,
and where a promise (store and forward) has to survive all of that. It is
modelled as a whole, from the bytes of a news to the promise, model-checked, and
its safety is proved. So is the router: its loop with ARP table and
waiting packets, and, apart from it, what `forward_ip` does to one header against one
routing table. The REST client is modelled with the server and the network as it
meets them. Every safety property that a run checks is a theorem, for one of them
(`NewsInOrder`) with a condition; liveness is model-checked.

## 1. Inventory

### 1.1 The server, `tema2/server.cpp`

State (`server_data`, `headers/server.h`): `fds`, the array given to `poll`
(entry 0 the listening socket, entry 1 the UDP socket, entries 2.. the
subscribers), `nfds`, `current_size` (allocated entries), `empties` (a queue of
freed entries), `id_to_fd` and `fd_to_id`, `r_buffer_for_fd` (bytes read and
not parsed, by descriptor), `w_buffer_for_id` (news to send, by id),
`topic_subscribers[0..1]` (topic to ids, one map for each value of `sf`).

Operations: `main`'s loop (a line of stdin, `poll`, one pass over the
entries), `add_con` (accept), the UDP branch (a datagram to every queue that
is entitled to it), the visit of a subscriber's entry (peek for the end of
file, send one news, one `recv`, parse), `parse_tcp_buffer` (recursive, one
message a call), `disconnect`, and leaving with `exit`.

Hard: a descriptor or an entry freed in one pass is used again in the next one (`accept` is at
entry 0, before any other visit), while bytes of its last connection may be left; a `recv` holds parts of messages or
several messages, and parsing goes on after a message that closed the
connection; the queue of an id outlives its connections; a connection may be
reset between `poll`, peek and send.

Correct when: an id has one connection at most; every open descriptor is
watched by one entry and no entry holds a closed one; `empties` never offers an
entry in use; every id gets the news it is entitled to, in order and once, over
all its connections; nobody waits for ever while the server runs.

### 1.2 The subscriber, `tema2/subscriber.cpp`

State (`subscriber_data`): `sent_id`, `buffer_w` (commands to send),
`buffer_r` (bytes of news), the socket. Operations: `init` (connect),
`deal_with_user_commands` (`exit`, `subscribe`, `unsubscribe`), the loop (`poll`
with a timeout, end of file or error, one message sent, one `recv`,
`receive_msg` shows one news). Hard: it must notice the server's end with bytes
unread or unsent; one `recv` may complete several news or none, and
`receive_msg` takes a news apart that may not be all there (`read_data`) and puts
it together again (`place_back`).

### 1.3 How they interact

Over TCP on the loopback: `TCP_CONNECT` with the id first, then `TCP_SUB` and
`TCP_UNSUB`, news in the other direction. There is no acknowledgement: a
refusal is a `close`. Senders of news use UDP. The kernel (backlog, lowest free
descriptor, end of file, reset, SIGPIPE) is the third actor.

### 1.4 The router, `tema1/router.c`

State: `route_table` (sorted once), `arp_entries` (a list that only grows),
`messages_to_send` (packets waiting for the address of their next hop).
Operations, one packet a turn: IPv4 (checksum compared, `ttl` decremented, echo
reply or ICMP error written over the packet, longest prefix by binary search,
then forward, or save and broadcast an ARP request), ARP request for the
router (answered), any other ARP packet (learnt, the queue is filtered).
Hard: packets of one next hop must keep their order through the queue, and
none may be left in it once the address is known; arithmetic of `ttl` in 8 and
the checksum in 16 bits; a binary search over prefixes of different lengths;
`best_route_search` calls itself to route the error it has just written. Its queues (`queue.c`,
`list.c`) are lists of cells from one heap; a queue that was emptied keeps its `tail` on a freed cell.
Correct when: what waits is sent, in order, to the address learnt last; a route
that exists is found; what leaves has a valid checksum and a live `ttl`.

### 1.5 The REST client, `tema3/client.cpp`, `helpers.cpp`, `requests.cpp`, `buffer.cpp`

State: `sockfd`, `logged_in`, `cookies`, `jwt`. Operations: the nine commands,
`receive_certain_message` (send, read; on an empty answer reconnect and send
again), `receive_from_server` (headers, then `Content-Length` bytes, or all until the end of file
without that header). Hard: a
request whose answer was lost is sent again; an answer may be cut anywhere; the
session on the server may end before the client's (`logged_in`, `jwt` are stale).
Correct when: cookie and token belong to one session; every answer is read as the
answer of its own request; what is reported as done was done, if the answer's status code was read whole; a request is carried
out again only if its answer was lost; every command ends, if an answer without `Content-Length` ends with its connection.

### 1.6 The rest

Vendored nlohmann/json (`tema3/json-develop`), the router's skeleton
(`tema1/skel.c`: raw sockets) and the given test drivers (`topo.py`,
`checker.py`, `tests.py`, `test.py`, `udp_client.py`) are not modelled.

## 2. Modules

| module | models | state and actions |
|---|---|---|
| `Tcp` | the kernel as the code uses it (external) | `backlog`, the server's descriptors `sock`, what each end knows of the other (`link`, `down`), the two channels |
| `Server` | `server.cpp`, `common.cpp`, `headers/server.h` | the structure's fields under their own names and a program counter; one action per outcome of each branch of the loop |
| `Subscriber` | `subscriber.cpp` | `cstatus`, `sent_id`, `buffer_w`, `buffer_r`, and `shown`, the printed news |
| `PubSub` | the composition with the senders of news | `Next`, fairness, every property |
| `StoreForward` | what the server promises an id | abstract: `online`, `forward`, `store`, `queue` |
| `NewsReader` | what a subscriber does with the news it is sent: `Subscriber!Read` of one process | abstract: `toClient`, `buffer_r`, `shown` |
| `Framing` | `receive_msg`, `read_data`, `place_back` | the bytes `sent`, on the `wire`, in `buffer_r`, `shown` |
| `Router` | `main`, `do_arp` of `router.c`, `get_packet` of `skel.c` | `arp_entries`, `messages_to_send`, `new_q`, the frames received (`inbox`) and sent (`out`), and the hosts of its networks |
| `IpHeader` | `ip_checksum` of `skel.c`, the arithmetic of `forward_ip` | pure operators |
| `ForwardIp` | `forward_ip`, `best_route_search`, `binary_search` | `route_table`, `ip_hdr`, the search's `low` and `high`, a program counter |
| `ListQueue` | `queue.c`, `list.c` | `head`, `tail` of each queue, `element`, `next` of each cell, the cells `allocated`; auxiliary: `chain`, each queue's cells in order |
| `Fifo` | what `include/queue.h` promises | abstract: `items`, `result` |
| `RestClient` | `client.cpp`, `helpers.cpp`, and the server and network (external) | `logged_in`, `cookies`, `jwt`, the command, the answer read so far, the connection, the server's sessions |
| `MCPubSub`, `MCRouter`, `MCForwardIp` | values for TLC | |
| `PubSubProofs` | the server's invariants, checked by TLAPS | |
| `PromiseProofs` | the refinement of `StoreForward`, checked by TLAPS | |
| `NewsProofs` | `send` never blocks, who is hung up on, the order of the news, checked by TLAPS | |
| `FramingProofs` | the bytes of the news and the refinement of `NewsReader`, checked by TLAPS | |
| `RouterProofs` | the router's safety, checked by TLAPS | |
| `ForwardProofs` | search, routing and header, checked by TLAPS | |
| `QueueProofs` | the queues in memory and the refinement of `Fifo`, checked by TLAPS | |
| `RestProofs` | the REST client's safety, checked by TLAPS | |

### 2.1 The server's loop

The server is single-threaded, but the subscribers, the kernel and the senders
run between any two of its system calls. Its `while` and `for` are a program
counter `pc`:

| `pc` | the code is at | actions |
|---|---|---|
| `poll` | `getline` and `poll` (293-310) | `Exit`, `Poll` |
| `pass` | the head of the visit of entry `i` (311-366) | `PassOver`, `AddCon`, `AddConFails`, `ReceiveNews`, `PeekEof`, `PeekAlive` |
| `send` | after the peek (367-383) | `SendNews`, `NothingToSend`, `SendKillsServer` |
| `recv` | after the send (384-395) | `RecvBytes`, `RecvNothing` |
| `parse` | a call of `parse_tcp_buffer(fd, i)` (142-272) | `ParseIncomplete`, `ParseConnect`, `ParseConnectTaken`, `ParseTooEarly`, `ParseSub`, `ParseUnsub`, `ParseUnknownType` |
| `end` | `main` has returned or was killed | none |

`prevv` is the `nfds` of the start of the pass, `pollin` and `pollout` the
`revents` of the poll. An entry that `add_con` fills in a pass is not acted on in it: it held -1
at the poll, which gives no `revents`, or lies beyond `prevv`. A step holds at most one system call whose result
another process can change, so no interleaving is lost; a recursive call of
`parse_tcp_buffer` is a step of its own.

### 2.2 What is abstracted

* **Messages are cells.** A message of 12 or 53 bytes is three cells: its type,
  then the id and its terminating NUL, or the topic and `sf`. Cells keep what
  the bytes can do: `recv` may stop between them, they can be left in a buffer,
  and a shifted buffer reads a topic as part of an id. `Id` is therefore any pair of
  cells. Ids and topics are as long as the subscriber allows, so their
  terminators are found, and the exits of `parse_tcp_buffer` for a field without one
  (`has_terminator`, 169-174, 213-218, 249-254) are left out.
* **Socket buffers** hold `NewsRoom` news towards a subscriber and `CellRoom`
  cells towards the server; `POLLOUT` means that one more message fits
  (`Writable`, `ClientWritable`), as on a socket whose low-water mark is above the
  size of a message. Data sent is received at once, in order. A news is one
  element of `toClient`; how many of them one `recv` of `BUFFER_CLIENT` bytes completes
  is a choice (`RecvNews`). How the bytes of one news are put together is
  `Framing`: with the complete news of its buffer for `buffer_r` and the other ones for
  `toClient` it implements `NewsReader`, which is `Read` without the process.
* **UDP.** A datagram that the kernel drops is one that was not sent.
* **Undefined behaviour.** `msg.sf` of an unsubscribe is sent uninitialised
  (subscriber.cpp 132-143): any byte of `UnsubSf`. The server does not look at it.
* `addr_for_fd`, printing, and the sender's address in a news are left out.
* A process runs once; a restart is another process with the same id.
* `TcpServerClose` of descriptor -1 (a second `disconnect` of one entry) does
  nothing, as `close(-1)`; `disconnect` then clears the buffer of -1.
* `link` distinguishes an error that is pending (`reset`) from one that the
  peek has consumed (`dead`): sending on the latter raises SIGPIPE.

### 2.3 The router

A step of `Router` is a turn of `main`'s loop: nothing else runs in the
router between two calls of `get_packet`. `Take` is `get_packet`, the first
interface that has a frame; then one action for each way the turn can end:

| action | code |
|---|---|
| `Ignore` | not for the router, or a wrong checksum (250-274, 143-147) |
| `Forward` | `forward_ip`, the next hop's address is known (203-229) |
| `Save` | `forward_ip`, it is not: queue the packet, broadcast a request (218-227) |
| `SearchForEver` | `best_route_search` calls itself for ever: no route for the packet, its source and the router (105-111) |
| `Reply` | an ARP request for the router; nothing is learnt from it (285-299) |
| `Learn` | any other ARP frame: a new entry (300-305) |
| `FlushOne` | one packet leaves `messages_to_send`, sent or kept in `new_q` (311-326) |
| `FlushEnds` | `messages_to_send` becomes `new_q` (327) |

`Treated` and `Searched` are what `forward_ip` and `best_route_search` write over
the packet: the echo reply that keeps the addresses of the request, the ICMP
errors to the source, `ttl` as a byte. The longest prefix search is the
constant `routes` and the checksum one bit of the frame; both are the subject of
`ForwardIp`. Hosts are external: they send, answer
a request after any time or not at all (`Lossy`), announce themselves unasked, and
may do each with another hardware address than before. A packet's number and the
interface it came by are history, for the properties only.

### 2.4 The header and the search

`ForwardIp` is one call of `forward_ip`: `Drop`, `Treat`, then `Call`, `Halve`s and
`End` for `binary_search`, then `Send`, or `Return` when the entry found does not
match and `best_route_search` calls itself. A prefix is the integer the code compares,
the bytes of the address as they lie in memory on a little-endian machine: the
order of the table is not the order of the networks. `low` is the place of the
entry, `high` the difference, as in the code. The header's words other than `ttl`, protocol and
checksum count by their one's complement sum only (`others`); that is all
`ip_checksum` sees of them, and the sum does not depend on the byte order. Of the
carries, the loop of the code is two steps (`Fold`), enough for the sum of four words.

### 2.5 The REST client

`pc` is where `receive_certain_message` stands: `send`, `receive`, `respond` (the
answer is looked at), or `prompt`. An answer is six parts (`Order`), as many as the code can tell
where the connection ended: before the first space, within the status code (or before its first digit),
before the cookie, within the cookie's value, behind the header, or nowhere. A
`read` takes any number of those that are there, and the connection may end between any
two. `get_response_code` of a code that is not whole is a number below 400. `sized` says whether the
header has a `Content-Length`; without it `receive_from_server` reads until the end of file, and
`EndAnswer` is the server that ends such an answer by closing. `Abort` is what an answer that was cut
does to code that expects more: the JSON parser's exception, or a pointer from a search that found nothing
(`get_response_code` without a space, `set_cookie` without a `;`, `get_response_body` without the end of the header). A
body is cut or whole, so a cut one after a whole header may be shown as an error or abort. `IdTooLong`: `ask_book_id`
goes on with an id that was too long to be read, and the JSON library's exception ends the client. A session stands for its cookie
and for the library token that was given for it. `Accept` and `Reject` are the
server, `Close` and `Reset` the network, `Forget` a server that loses its sessions.
`int` has `IntRange` values, for TLC 16, `long` has `LongRange`, 64; `atoi` is glibc's: `strtol` stops at the largest `long`, and the conversion
to `int` wraps.

### 2.6 The queues in memory

The sequences of `Router` are lists of cells in the code. `ListQueue` keeps the pointers as they
are, with all queues over one memory: `malloc` gives any free cell, whatever it holds, and a cell
freed by one queue is soon another's (a packet moved from `messages_to_send` to `new_q` frees a
cell and takes one). `queue_deq` leaves `tail` alone, so an empty queue's `tail` may point into
another queue; `queue_enq` looks at `head` first. `chain` is auxiliary: no action reads it, but the
invariants and the mapping to `Fifo` do, so that no definition has to follow pointers recursively. What
`queue_deq` returns is read through the pointers, and must be what `Fifo` returns.

## 3. Checks

All runs are breadth-first over the whole reachable state space of the instance.
`CHECK_DEADLOCK FALSE` everywhere but in `queue`: `exit` really ends the server and then
its subscribers, and frames, commands and news are bounded.

| run | instance | checks |
|---|---|---|
| `restart` | 2 processes of one user, 2 descriptors, 2 news, one command each, room for 1 news and 6 cells | `TypeOK`, `OneConnectionPerId`, `NewsInOrder`, `SendNeverBlocks`, `KeepsPromise` |
| `reuse` | 3 processes of 2 users, 2 descriptors, an array of 3 that grows, `recv` of 4 cells, failing `realloc` | `OneConnectionPerId`, `EmptiesSound`, `DescriptorsWatchedOnce`, `LoopKnows` |
| `fair` | 2 processes of one user, one command, one news, fairness | `ConnectAnswered`, `QueueDrains`, `StopReachesSubscribers` |
| `arp` | 2 packets of the 11 kinds the router tells apart, one unasked ARP frame, 2 hardware addresses, requests lost, fairness | `TypeOK`, `NoneLeftBehind`, `InOrder`, `ToLastLearnt`, `WaitingIsSent` |
| `forward` | every table of 1 to 3 routes over addresses of 3 bits, and the full table of each length; headers with checksums up to 270 from the edges; fairness | `TypeOK`, `FindsLast`, `FindsRoute`, `SentToRoutable`, `SoundHeader`, `TurnEnds` |
| `rest` | 4 commands, 2 faults, an `int` of 16 and a `long` of 64 values, fairness | `TypeOK`, `Credentials`, `OwnAnswer`, `SuccessIsReal`, `OnceUnlessLost`, `SentInt`, `CommandsEnd` |
| `queue` | 3 queues, 3 cells, 2 elements, memory of any content | `TypeOK`, `Linked`, `Apart`, `ImplementsFifo` |
| `frame` | 5 news of 3, 4 or 7 bytes, a length of 2 bytes, `recv` of 5 | `TypeOK`, `StreamKept`, `ImplementsReader` |

`restart`. Whatever order the two processes connect, subscribe, unsubscribe,
die and return in, the id has one owner (`OneConnectionPerId`) and the news of
the user are shown by its processes in order and never twice (`NewsInOrder`);
two processes and two news are the least for a repetition over a restart or an
overtaking. Processes of one user are symmetric. With room for one news a buffer is
full after every send: `SendNeverBlocks` says that the `POLLOUT` of the old poll
still holds when the entry is visited, whatever was accepted, read and closed in between, so
that the server's only thread never waits in `send`; a subscriber asks `poll` in the same pass.
The room for 6 cells is two messages. Two processes of one user are too few for one of them to
be given an id that is not its own; where that happens the order is lost (3.2, 4.1).

`reuse`. With fewer descriptors than processes every descriptor, entry and read
buffer is used again; `INITIAL_CON_COUNT = 3`
makes the second subscriber grow the array; `BUFFER_SERVER = 4` cuts the second
message, so that buffers of closed descriptors hold parts of messages.
`EmptiesSound`: the queue of free entries never offers one twice or one in use.
`DescriptorsWatchedOnce`: open descriptors and entries correspond one to one.
`LoopKnows`: what the loop saw before its next system call still holds.

`KeepsPromise`: `StoreForward` knows no descriptors, entries, buffers or partial
messages: an id goes online and offline, its subscriptions and queue stay, news
are queued for the ids that are entitled and delivered from the head while the
id is online. Every datagram is taken in the order of arrival and queued for exactly
the ids entitled to it, once. With the mapping `online = DOMAIN id_to_fd`,
`forward = topic_subscribers[0]`, `store = topic_subscribers[1]`,
`queue = w_buffer_for_id`, `taken = published - Len(udp)`, every step of the
system is a step of it or leaves it unchanged. The mapping's topics are all cells: a
shifted buffer may subscribe to anything.

`fair`. Fairness is weak, one condition for the server's loop and one for each
subscriber's. The code justifies it: the server's `stdin` is set non-blocking
(so `getline` returns), its `poll` returns at once since the UDP socket is
always ready for writing, every `recv` of a subscriber's entry is
`MSG_DONTWAIT` or follows a POLLIN; the subscriber's `poll` has a timeout.
No fairness is assumed of typing, of the senders or of `exit`.
`ConnectAnswered`: a connection gets its id or is hung up on. `QueueDrains`: the
queue of a connected id reaches the subscriber. `StopReachesSubscribers`: when
the server is gone every subscriber leaves.

`arp`. The router never repeats an ARP request, so a packet left in
`messages_to_send` for an address it knows might stay there: `NoneLeftBehind`.
Packets of one interface and one next hop leave in the order they came
(`InOrder`), whether they waited or not, none twice, each for the
hardware address of the newest entry learnt for its next hop (`ToLastLearnt`): not always the
one it was last heard with, as the sender of a request to the router is not learnt (3.2). Two packets
and a flush for another hop are the least that can turn the kept ones around; two hardware
addresses the least for a change. The network has packets for both next hops, an echo
request, one expired, one broadcast with `ttl` 0, unroutable packets with routable and
unroutable sources, a packet for somebody else and one with a wrong checksum.
`WaitingIsSent`: fairness of the loop while a frame
is there (`get_packet` blocks only without one), and of a host that was asked.
The latter is an assumption about the network; a request that was lost excuses the
router, as it repeats none: the packet then waits until another frame of that hop comes.

`forward`. `FindsLast` and `FindsRoute` are what the binary search does
guarantee: if an address splits the table, that is, the entries not greater than it come
before the greater ones, the last one not greater is found; with prefixes of one
length every address does, in memory order too. `SentToRoutable`: the packet goes to the
first routable one of its destination, its source and the router. `SoundHeader`: the
incrementally updated checksum stays valid. `TurnEnds`: the search ends for every
table, the turn if the router's own address has a route. All tables of up to three of
the 15 routes contain every relation of two prefixes (equal, nested, apart) around a third;
the full tables have up to 8. A checksum changes by `ttl` and 256 times the
protocol, so 270 around the edges meets every carry; any value in between behaves as the middle ones
do, and for all of them `HeaderSound` is proved.

`rest`. Four commands are a login, library access, a use of it or a logout, and one more after it,
with a command sent again twice or once in two places. `SuccessIsReal`: whatever was sent
again or cut behind the status code, "success" is printed only for a command that the server
carried out; of a code that is cut it is not so (3.2). `OnceUnlessLost`: carried out once more only when an answer was lost.
`SentInt`: of the typed 1, 9, 17 and 33 the first fits in an `int` of 16 values, the second
wraps to a negative one and is refused, the third wraps to a positive one, the fourth is beyond `long` and becomes -1.
`CommandsEnd`: fairness of the client's process (`read` and `write` return when there
is something) and of a server that answers what it has read and closes behind an answer without a `Content-Length`. That is
an assumption about the server: on a connection it kept open, the client would read on for ever (3.2). Closing without cause is not fair, and
bounded by `MaxFaults`: a server that always closes keeps the client in its loop for ever.

`frame`. `recv` takes any number of bytes up to 5, so that it ends in a length, after
it, in a news, or holds the end of one and the start of two. `StreamKept`: what is in `buffer_r` and then
on the wire are the news that were not shown, byte after byte from the first one's first to the last one's last. `ImplementsReader`:
each `recv` shows the first complete news, whole, or none. Below `LenSize`
bytes the code takes from an empty deque: `defined` becomes false and nothing is
claimed any more.

`queue`. The router has three queues (`messages_to_send`, `new_q`, `arp_entries`); three cells are
the least for a first, a middle and a last one, and for a cell to go to another queue while two are in use.
`Linked`: a loop along `next`, as the one over `arp_entries`, meets a queue's cells and
stops. `Apart`: no cell is reached from two queues, and none is leaked. `ImplementsFifo`: an operation
on one queue leaves the others alone, and elements come back in order.

### 3.1 Where the code does something else than its documents say

| run | statement | what the code does |
|---|---|---|
| `v_sigpipe` | readme.txt 29: the server runs until `exit` | a subscriber that leaves with news unread resets its connection; the peek consumes the error and the next `send`, without `MSG_NOSIGNAL`, ends the server |
| `v_hangup` | readme.txt 160: when the server closes a connection | bytes left in the buffer of a closed descriptor (the entry is already -1 when it is used to clear the buffer) are parsed in front of the next connection's first message, which is then refused |
| `v_shown` | test.py 570: many messages in quick succession are received | `receive_msg` shows one news for each `recv`; the last of a burst stay in `buffer_r` |
| `v_lpm` | tema1/README: `binary_search` returns the biggest entry for which the prefix equals the masked address | with masks of different lengths it may end at an entry that does not match while another does, or not at the biggest; with `rtable0.txt` the address 192.0.1.2, a /32 of that table, is not found |

### 3.2 Known limits of the program

Met while modelling and reached by the same models. Most contradict no statement of the
repository, the others are of less weight; no run is kept for them:

* after a connection was closed, a message left in the same buffer is still
  parsed for its number: a second `TCP_CONNECT` maps an id to a descriptor
  that is closed, until the number is used again and that connection ends;
* a connection may be given the news of another user. The bytes that a refused subscriber
  leaves in the buffer of its descriptor shift what the next ones send there, until a whole
  `TCP_CONNECT` is parsed after its connection was closed; the next connection of that number is then
  sent that id's news. `NewsInOrder` fails so with two users, two descriptors, `recv` of five cells and
  six processes that come one after the other (found by TLC with that order of starts);
* news queued for an `sf = 0` user while it was connected stays in its queue
  when it leaves, and is sent when it returns;
* news is popped before `send` and the result is ignored: a news of an
  `sf = 1` user that was sent to a connection already reset is lost;
* a client that restarts before the server has seen the end of its previous
  connection is refused;
* the entries of `fds` freed by a refused, premature or unknown message are not
  given back to `empties`, and the array is doubled with free entries in it
  (server.h 17-18 says only when there is not enough space);
* a subscriber that has read fewer than four bytes of a news takes the length from an
  empty deque (subscriber.cpp 153);
* in the router, a packet without a route for itself, its source and the router's
  own address makes `best_route_search` call itself without end
  (`SearchForEver`; the runs reach it); an empty table is searched from -1;
* the sender of an ARP request to the router is answered and not learnt (router.c 285-298; tema1/README 60-61 says that
  the router "saves the addresses"): packets for it wait for another frame of it, or go to the hardware address it had before;
* `do_arp` sends a request for every packet it saves, also while one is unanswered
  (tests.py 369: for two packets at most one);
* an echo reply keeps the checksum of the request's header although its `ttl` is
  now 62; ICMP for the router itself may leave with `ttl` 0; a `ttl` of 0 wraps to 255;
* an error in the middle of a session: the client whose `logout` was carried out and its
  answer lost sends it again, is refused, and stays `logged_in` with a dead cookie;
  `register` sent again is reported as an error although the user was created;
* an answer without a `Content-Length` is read until the end of file, whatever its status code says of a body
  (helpers.cpp 100-102): on a connection that the server keeps open the command never ends;
* a refusal whose connection ends within its status code is taken for a success: of `HTTP/1.1 40` and `HTTP/1.1 `
  `atoi` makes 40 and 0, below 400 (helpers.cpp 87-125, 128-132). `register`, `add_book` and `delete_book` then print
  success (tema3/Readme 100-105 says that an error is announced), and `logout` forgets a session that is still valid. The runs
  reach it: without `Has("code")` TLC finds `SuccessIsReal` violated;
* an answer cut before its first space, or within the value of `Set-Cookie`, ends the client by a null pointer;
* `get_book` and `delete_book` end by an uncaught exception when the id is too long, which tema3/Readme
  35-38 says is ignored: `ask_book_id` does not look at what `read_field` returned (client.cpp 341-342);
* a number that does not fit in `int` is refused only when `atoi` makes it negative: 4294967297
  is sent as 1 (tema3/Readme 68-69 says that `get_int_field` returns -1 then);
* the pause before a request is 0.1 ms (`usleep(100)`), tema3/Readme says 0.1 s.

## 4. Proofs

### 4.1 Server and subscribers

`PubSubProofs.tla`, `PromiseProofs.tla` and `NewsProofs.tla`, for any finite or infinite sets of processes, descriptors,
ids and topics, any number of news and commands, any size of the array and of a
`recv`, under the assumptions `FdAssumption`, `NameAssumption`,
`BoundsAssumption`, `RoomAssumption` and `SubscriberAssumption` (types of the constants; TLC
evaluates them in every run).

| theorem | states |
|---|---|
| `OneConnection` | `Spec => []OneConnectionPerId` |
| `Typed` | `Spec => []TypeOK` |
| `DescriptorsAreWatchedOnce` | `Spec => []DescriptorsWatchedOnce` |
| `EmptiesAreSound` | `Spec => []EmptiesSound` |
| `LoopRelies` | `Spec => []LoopKnows` |
| `Promise` | `Spec => KeepsPromise`: the server implements `StoreForward` |
| `NeverBlocks` | `Spec => []SendNeverBlocks` |
| `HangUps` | `Spec /\ []RefusedAlone => HangUpHasCause` |
| `OrderedNews` | `Spec /\ []RefusedAlone => []NewsInOrder` |
| `NobodyRefused` | `OwnNames` gives `Spec => []~Refusal` |
| `OrderedNewsOfOwnNames` | `OwnNames` gives `Spec => []NewsInOrder` |

`OneConnectionPerId` is inductive by itself: only `ParseConnect` adds to the two
maps, and it takes an id nobody has; only `ForgetId` removes, from both.

The other four are proved together (`IInv`), because each needs the others. That
`empties` offers no entry in use needs the visited entry to be alive when it is
pushed (`LoopKnows`); that an entry's descriptor is open when the loop sends and
reads needs `DescriptorsWatchedOnce`; that an accepted connection takes over
a free entry needs `EmptiesSound`; that the channels keep their types needs the
descriptor in use to be one of `sock`. `LoopKnows` is the strengthening that
carries them through the program counter. There is one lemma per action, with
one step per conjunct; `DisconnectKeepsTypes`, `DisconnectKeepsTables`,
`HangUpKeeps` are shared by the actions that close a connection, and
`ChannelsOnlyKeeps` by all steps of a subscriber.

`Promise` rests on `IInv`, on `OneConnectionPerId` (the owner of an entry that
is sent to, obeyed or closed is online) and on two invariants of its own:
`NoDouble`, no subscription is in both sets, without which a news would be
queued twice, and `UdpNumbered`, the datagrams that wait are the last ones sent.
Steps are sorted by what they do to the five mapped variables: `Quiet` ones and
all steps of subscribers and senders are stutters, `Closing` ones take an id offline or
stutter, and each of the other six has the lemma that names its abstract step.

`NeverBlocks` rests on `Connections`: a process is in the backlog once or has one descriptor, and a
connection has no news before it is accepted. So an entry that is filled in a pass, whatever `revents` it is visited with,
belongs to a connection whose socket is empty. `RoomSeen` is the strengthening: every entry still ahead in the pass whose
`POLLOUT` was set has room. A send to one entry does not disturb it for another, because no two entries share a
connection. It needs a `NewsRoom` of 1 at least (`RoomAssumption`).

`HangUps` and `OrderedNews` need that a connection's bytes are its own, and that is not so in general: `disconnect`
clears the buffer of -1 (3.1, `v_hangup`; for `NewsInOrder` 3.2). Their hypothesis
`RefusedAlone` is the exact place where it goes wrong: when a `TCP_CONNECT` is refused nothing is read behind it. In a
system where every process has an id of its own (`OwnNames`) nobody is ever refused
(`NobodyRefused`) and no hypothesis is left. The other two ways of closing a connection in `parse_tcp_buffer` (too early, unknown type) are
never taken by a subscriber of this repository as long as `RefusedAlone` holds, which is part of what is proved. The
invariant `SessInv` follows a session from the process to the tables: what a
process has sent and the server has not parsed is a `TCP_CONNECT` with its id, then whole commands, the
`TCP_CONNECT` being there exactly while `fd_to_id` has no entry, which else is that id (`Sessions`); a descriptor that is
closed has an empty buffer and no id, and between two visits no buffer holds a whole message (`Descriptors`); a link ends on the
subscriber's side only when the process has gone (`Ends`).

With that, news reach only processes of the id they were queued for, and `OrderInv` orders them: what each process has shown, holds
or finds in its socket is increasing and precedes what is queued for its id; nothing is younger than the last datagram taken
from the UDP socket; and what two processes of one id have is disjoint. `Taken` bounds what
`ReceiveNews` appends, the mapping of `Promise` says what that is. All these invariants were
checked by TLC on the constants of `restart` and `reuse`, under the constraint `RefusedAlone`, before they were proved.

### 4.2 The router

`RouterProofs.tla`, for any addresses, interfaces, routes, traffic and number of frames, from
`RouterAssumption`.

| theorem | states |
|---|---|
| `Typed` | `Spec => []TypeOK` |
| `NothingLeftBehind` | `Spec => []NoneLeftBehind` |
| `OrderKept` | `Spec => []InOrder` |
| `LastLearntUsed` | `Spec => ToLastLearnt` |

The inductive invariant is `TypeOK`, `Knows`, `Coming` and `InOrder`. `NoneLeftBehind` is not
inductive: in the middle of a flush the queue still holds packets for the address just
learnt. `Knows` says what holds there: `new_q` is free of known addresses, and
`messages_to_send` of all but the last one learnt. `InOrder` needs `Coming`: every packet in an
`inbox` is younger than the ones of its interface that were taken, so that what is appended to a
queue or to `out` follows what is there. That a packet forwarded past
the queue overtakes nobody needs `NoneLeftBehind`: an address that is known has nobody waiting.
`ToLastLearnt` rests on `HasLast`, that a known address has a last entry, carried
along in `Knows`.

### 4.3 The search and the header

`ForwardProofs.tla`, for tables of any length, any addresses and any mask operation, from
`ForwardAssumption`.

| theorem | states |
|---|---|
| `Typed` | `Spec => []TypeOK`: the search never leaves the table |
| `LastFound` | `Spec => []FindsLast` |
| `RouteFound` | `Spec => []FindsRoute` |
| `RoutableOnly` | `Spec => []SentToRoutable` |
| `HeaderSound` | `Spec => []SoundHeader` |

The search invariants (`HoldsLast`, `HoldsRoute`) say that the entry looked for, if there is one, lies
in `low .. low + high`; `Halve` keeps it by the order of the table, `End` finds it
among two. With one mask the order of the prefixes is the order of the masked addresses, which is
what `RouteFound` adds. `RoutableOnly` carries `Chain`: the header's destination is one of
the `Targets`, and those before it have no route. `HeaderSound` carries
`Untreated` (the header is still the one that arrived) and the arithmetic: `FoldComplement`, a sum and
its complement fold to all ones, and `AgedValid`, lowering a word and raising the checksum by the
same amount keeps it valid, also when the 16 bits wrap.

### 4.4 The REST client

`RestProofs.tla`, for any typed numbers, any width of an `int`, any number of commands and of faults,
from `RestAssumption` (a `long` is not narrower than an `int`).

| theorem | states |
|---|---|
| `AllTyped` | `Spec => []TypeOK` |
| `CredentialsAgree` | `Spec => []Credentials` |
| `AnswerIsOwn` | `Spec => []OwnAnswer` |
| `SuccessIsTrue` | `Spec => SuccessIsReal` |
| `RepeatedOnlyIfLost` | `Spec => []OnceUnlessLost` |
| `NumberIsSent` | `Spec => []SentInt` |

They share the invariant `RestInv`. `Answers` says that at most one answer is under way, and that
its parts are cut in two: the first `k` are in `buffer`, the next up to `n` on the
connection (`Cut`). A read moves the cut (`CutMoves`), a closed connection lowers `n`
(`CutShorter`), and the loop ends with all six parts (`WholeIsAll`) or with the connection closed. `Sound` says what the
answer tells: a 200 that the command was carried out, a 400 that it was not done more often than an answer was
lost. `ReceivedSound` reads it off the buffer, which has the status code if it has any later part; that is why `SuccessIsReal`
has its condition. `Waits` says that a request on the connection is the only one, of the present command, before
any answer; so the server, which takes it, appends to an empty connection. `Counts` is the
strengthening of `OnceUnlessLost`: while a request is still to be served its command has been carried
out at most `lost` times. `Credentials` needs `Pending`: a login's answer finds no cookie and no token, and
`enter_library`'s answer carries the token of the cookie that was sent. `NumberIsSent` has an invariant of its own, `Number`: a command
leaves the prompt with what `atoi` made of the number (`Converted` is the lemma about its saturation and wrapping), and it stays so while the command is sent again.

### 4.5 The queues in memory

`QueueProofs.tla`, for any sets of queues, cells and elements, from `HeapAssumption` (`NULL` is no cell).

| theorem | states |
|---|---|
| `HeadsAllocated` | `Spec => []TypeOK` |
| `ListsWhole` | `Spec => []Linked` |
| `CellsApart` | `Spec => []Apart` |
| `QueuesAreFifo` | `Spec => ImplementsFifo` |

`TypeOK`, `Linked` and `Apart` are inductive together: writing through `tail` changes the `next` of
one cell, and `Apart` says that it is the last cell of this queue and of no other; `TypeOK` (chains are allocated)
says that the cell `malloc` gives is in no chain. Both are needed for the elements of the other queues to
stay, hence for the refinement.

### 4.6 The bytes of the news

`FramingProofs.tla`, for any lengths of news, any length field, any `recv` and any number of news, from
`FramingAssumption`: a news is longer than its length field, and `RecvNews` of the shortest news fill a `recv`. The latter
only says what `RecvNews` stands for.

| theorem | states |
|---|---|
| `BytesTyped` | `Spec => []TypeOK` |
| `NoByteMoved` | `Spec => []StreamKept` |
| `PiecesAreNews` | `Spec => ImplementsReader` |

What was sent is one long stream of bytes, but to flatten a sequence of sequences is a recursion over data, which the
prover cannot induct over. The invariant says instead that there are offsets (`Offsets`): a number for each news that is
where it starts, the next one starting where it ends; and that the stream not shown is, place by place, the bytes from the offset of the
first news not shown to the end (`Held`). The offsets exist at the start and are extended by each news sent, so no step
computes them. `StreamKept` is stated in the same local way, each byte by the one before it. `receive_msg` then finds
the length at the front of the buffer, because that is an offset, and either takes that news or puts back what it read (`ReceiveDoes`). For the
refinement, the last whole news (`LastWhole`) is read off the last byte of the buffer; a `recv` moves it forward (`CompleteGrows`),
by at most `RecvNews` (`CompletedByOne`, with the products and quotients in `Products`, `Quotient`, `LeastLength`), which
is what `NewsReader` allows. The reader's news are then taken in order by `SubSeq`.

### 4.7 Only model-checked

Liveness, which is out of the prover's reach (fairness and ENABLED): `ConnectAnswered`, `QueueDrains`,
`StopReachesSubscribers`, `WaitingIsSent`, `TurnEnds`, `CommandsEnd`. `NewsInOrder` without a condition on the ids or on what
refused processes send holds in `restart`, whose users are too few for it to fail, and not in general (3.2). The four
runs that expect a violation are about runs of the model, and have no theorem; `HangUps` says what is missing for the one of `v_hangup`.

## 5. Not modelled

* `tema3/json-develop`, vendored nlohmann/json: third-party code, 95% of the lines of the
  repository, used by the client as a parser of answers. Its outcome is a part of the
  answer that is there or not.
* The text of requests and answers (`requests.cpp`, `compute_message`), printing, and the conversion
  of a datagram's payload to text: layout, which no property is about. `buffer.cpp` is the sequence
  `buffer`.
* ICMP payloads and checksums, `create_arp`'s bytes, the parsing of the routing table.
* The test harnesses (`topo.py`, `checker.py`, `tests.py`, `test.py`, `udp_client.py`) and the raw
  sockets of `skel.c`.

## 6. What could follow

1. A weaker condition for `NewsInOrder`: the order is lost only when an id is connected under a
   descriptor that is already closed, which is rarer than a refused process that sent more than its id.
2. The safety half of `QueueDrains` for the code as it is: which news of an `sf = 1` user may be lost between
   `pop` and the reader (server.cpp 379), as a property of the channel.
