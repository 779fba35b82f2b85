--------------------------- MODULE Communication ----------------------------
(***************************************************************************)
(* com_socket_queue (communication.cpp): the client of a message queue      *)
(* server, over one ZeroMQ REQ socket for writing and one for reading.  A   *)
(* client is one thread, and each of its calls sends a request and blocks   *)
(* in recv() until the reply comes: one message at a time is under way      *)
(* between a client and the server.                                         *)
(*                                                                          *)
(* The server and the scheduler that feeds it are not in the repository:    *)
(* they are modelled by the requests the client makes and the replies       *)
(* message.h can build.  A request may be refused, its reply may be no      *)
(* JSON, and either may be lost with the server, which REQ never notices.   *)
(***************************************************************************)
EXTENDS Naturals, Sequences

CONSTANTS
    Components,     \* clients, by component name
    Peers,          \* receivers and processing elements
    MaxCalls,       \* bound on the calls of each client
    MaxSchedules    \* bound on the schedules the scheduler publishes

\* The scheduler's messages are not a client's.
ASSUME NamesAssumption == "scheduler" \notin Components

VARIABLES
    call,       \* per client, the method it is in and its argument
    wire,       \* per client, the request or reply under way
    result,     \* per client, what its last call returned
    box,        \* the server's queues: messages by <<task_id, port_name, queue>>
    calls,      \* calls made so far, by client
    published,  \* schedules published so far
    accepted,   \* messages the server has stored, ever
    handed,     \* messages the server has handed out
    got         \* messages returned to a caller

vars == <<call, wire, result, box, calls, published, accepted, handed, got>>

\* The addresses the four methods use.  (send_schedule writes under its own
\* name to "sender", where read_schedule, which reads "queue", does not look.)
DataBox(receiver)  == <<receiver, receiver, "sender">>
OwnScheduleBox(c)  == <<c, "1000", "sender">>
ScheduleBox(pe)    == <<pe, "1000", "queue">>
Boxes == {DataBox(r) : r \in Peers} \cup {ScheduleBox(r) : r \in Peers}
           \cup {OwnScheduleBox(c) : c \in Components}

Quiet == [kind |-> "quiet"]             \* nothing under way
Lost  == [kind |-> "lost"]              \* what was under way is gone
Write(b, m)    == [kind |-> "write", box |-> b, data |-> m]
Read(b)        == [kind |-> "read", box |-> b]
Reply(type, m) == [kind |-> "reply", type |-> type, data |-> m]
NoData == << >>
Idle   == [method |-> "none", peer |-> "none", data |-> NoData]

Init ==
    /\ call = [c \in Components |-> Idle]
    /\ wire = [c \in Components |-> Quiet]
    /\ result = [c \in Components |-> [method |-> "none", peer |-> "none", type |-> "none", data |-> NoData]]
    /\ box = [b \in Boxes |-> << >>]
    /\ calls = [c \in Components |-> 0]
    /\ published = 0 /\ accepted = {} /\ handed = {} /\ got = {}

Return(c, type, m) ==
    /\ call' = [call EXCEPT ![c] = Idle]
    /\ result' = [result EXCEPT ![c] = [method |-> call[c].method, peer |-> call[c].peer,
                                        type |-> type, data |-> m]]

Enter(c, method, peer) ==
    /\ call[c] = Idle /\ calls[c] < MaxCalls
    /\ calls' = [calls EXCEPT ![c] = @ + 1]
    /\ UNCHANGED <<box, published, accepted, handed, got>>

\* send_data and send_schedule: a message the schema refuses goes nowhere.
Send(c, method, peer, b, valid) ==
    LET m == [from |-> c, number |-> calls[c] + 1, box |-> b]
    IN  /\ Enter(c, method, peer)
        /\ \/ /\ valid
              /\ call' = [call EXCEPT ![c] = [method |-> method, peer |-> peer, data |-> m]]
              /\ wire' = [wire EXCEPT ![c] = Write(b, m)]
              /\ UNCHANGED result
           \/ /\ ~ valid
              /\ result' = [result EXCEPT ![c] = [method |-> method, peer |-> peer,
                                                  type |-> "false", data |-> m]]
              /\ UNCHANGED <<call, wire>>

send_data(c, receiver, valid) == Send(c, "send_data", receiver, DataBox(receiver), valid)
send_schedule(c, port, valid) == Send(c, "send_schedule", port, OwnScheduleBox(c), valid)

Ask(c, method, peer, b) ==
    /\ Enter(c, method, peer)
    /\ call' = [call EXCEPT ![c] = [method |-> method, peer |-> peer, data |-> NoData]]
    /\ wire' = [wire EXCEPT ![c] = Read(b)]
    /\ UNCHANGED result

\* Mutant: recv_data asks where the schedules are.
recv_data_as_schedule(c, sender) == Ask(c, "recv_data", sender, ScheduleBox(sender))

recv_data(c, sender)   == Ask(c, "recv_data", sender, DataBox(sender))
read_schedule(c, pe)   == Ask(c, "read_schedule", pe, ScheduleBox(pe))

Answered(c, method) == call[c].method = method /\ wire[c].kind = "reply"

\* Mutant: a reply that cannot be read makes the client send again.
send_confirmed_or_again(c) ==
    /\ Answered(c, "send_data") \/ Answered(c, "send_schedule")
    /\ \/ /\ wire[c].type = "Garbled"
          /\ wire' = [wire EXCEPT ![c] = Write(call[c].data.box, call[c].data)]
          /\ UNCHANGED <<call, result>>
       \/ /\ wire[c].type # "Garbled"
          /\ wire' = [wire EXCEPT ![c] = Quiet]
          /\ Return(c, "true", call[c].data)
    /\ UNCHANGED <<box, calls, published, accepted, handed, got>>

\* Mutant: the socket is not read to the end of the reply.
send_unconfirmed(c) ==
    /\ Answered(c, "send_data") \/ Answered(c, "send_schedule")
    /\ Return(c, "true", call[c].data)
    /\ UNCHANGED <<wire, box, calls, published, accepted, handed, got>>

\* Whatever the reply says, the call returns true.
send_confirmed(c) ==
    /\ Answered(c, "send_data") \/ Answered(c, "send_schedule")
    /\ wire' = [wire EXCEPT ![c] = Quiet]
    /\ Return(c, "true", call[c].data)
    /\ UNCHANGED <<box, calls, published, accepted, handed, got>>

\* A reply is parsed, validated for the log only, and returned; one that is
\* no JSON makes parse() throw.
Returned(c) ==
    /\ wire' = [wire EXCEPT ![c] = Quiet]
    /\ Return(c, IF wire[c].type = "Garbled" THEN "throw" ELSE wire[c].type, wire[c].data)
    /\ got' = IF wire[c].type = "Response" THEN got \cup {wire[c].data} ELSE got
    /\ UNCHANGED <<box, calls, published, accepted, handed>>

recv_data_return(c) == Answered(c, "recv_data") /\ Returned(c)

\* Mutant: the loop runs while there is a reply.
read_schedule_again_while_nonempty(c) ==
    /\ Answered(c, "read_schedule")
    /\ wire' = [wire EXCEPT ![c] = Read(ScheduleBox(call[c].peer))]
    /\ UNCHANGED <<call, result, box, calls, published, accepted, handed, got>>

\* Mutant: after an empty reply the loop asks for data instead.
read_schedule_again_elsewhere(c) ==
    /\ Answered(c, "read_schedule") /\ wire[c].type = "Empty"
    /\ wire' = [wire EXCEPT ![c] = Read(DataBox(call[c].peer))]
    /\ UNCHANGED <<call, result, box, calls, published, accepted, handed, got>>

read_schedule_return(c) ==
    /\ Answered(c, "read_schedule") /\ wire[c].type # "Empty"
    /\ Returned(c)

\* The loop of read_schedule: the same request again, a second later.
read_schedule_again(c) ==
    /\ Answered(c, "read_schedule") /\ wire[c].type = "Empty"
    /\ wire' = [wire EXCEPT ![c] = Read(ScheduleBox(call[c].peer))]
    /\ UNCHANGED <<call, result, box, calls, published, accepted, handed, got>>

-----------------------------------------------------------------------------
(* The server and the network (external). *)

enqueue(c) ==
    /\ wire[c].kind = "write"
    /\ box' = [box EXCEPT ![wire[c].box] = Append(@, wire[c].data)]
    /\ accepted' = accepted \cup {wire[c].data}
    /\ \E type \in {"Ack", "Garbled"} : wire' = [wire EXCEPT ![c] = Reply(type, NoData)]
    /\ UNCHANGED <<call, result, calls, published, handed, got>>

dequeue(c) ==
    /\ wire[c].kind = "read"
    /\ LET b == wire[c].box
       IN  IF box[b] = << >>
           THEN /\ wire' = [wire EXCEPT ![c] = Reply("Empty", NoData)]
                /\ UNCHANGED <<box, handed>>
           ELSE /\ wire' = [wire EXCEPT ![c] = Reply("Response", Head(box[b]))]
                /\ box' = [box EXCEPT ![b] = Tail(@)]
                /\ handed' = handed \cup {Head(box[b])}
    /\ UNCHANGED <<call, result, calls, published, accepted, got>>

\* The server refuses the request, or answers something that is no message.
refuse(c) ==
    /\ wire[c].kind \in {"write", "read"}
    /\ \E type \in {"Error", "Garbled"} : wire' = [wire EXCEPT ![c] = Reply(type, NoData)]
    /\ UNCHANGED <<call, result, box, calls, published, accepted, handed, got>>

\* The server goes down with the request or the reply.
lose(c) ==
    /\ wire[c].kind \in {"write", "read", "reply"}
    /\ wire' = [wire EXCEPT ![c] = Lost]
    /\ handed' = IF wire[c].kind = "reply" THEN handed \ {wire[c].data} ELSE handed
    /\ UNCHANGED <<call, result, box, calls, published, accepted, got>>

\* The scheduler keeps a schedule ready for each processing element.
publish(pe) ==
    /\ published < MaxSchedules /\ box[ScheduleBox(pe)] = << >>
    /\ published' = published + 1
    /\ box' = [box EXCEPT ![ScheduleBox(pe)] =
                 <<[from |-> "scheduler", number |-> published', box |-> ScheduleBox(pe)]>>]
    /\ UNCHANGED <<call, wire, result, calls, accepted, handed, got>>

-----------------------------------------------------------------------------
Method(c) ==
    \/ \E p \in Peers, valid \in BOOLEAN : send_data(c, p, valid) \/ send_schedule(c, p, valid)
    \/ \E p \in Peers : recv_data(c, p) \/ read_schedule(c, p)

Progress(c) ==
    \/ send_confirmed(c) \/ recv_data_return(c)
    \/ read_schedule_return(c) \/ read_schedule_again(c)

Server(c) == enqueue(c) \/ dequeue(c) \/ refuse(c)

Next ==
    \/ \E c \in Components : Method(c) \/ Progress(c) \/ Server(c) \/ lose(c)
    \/ \E pe \in Peers : publish(pe)

\* A client runs on when its reply is there; a server that is up answers, and
\* the scheduler publishes.  Nothing obliges a client to call.
Spec ==
    /\ Init /\ [][Next]_vars
    /\ \A c \in Components : WF_vars(Progress(c)) /\ WF_vars(Server(c))
    /\ \A pe \in Peers : WF_vars(publish(pe))

-----------------------------------------------------------------------------
(* Properties. *)

Methods == {"send_data", "send_schedule", "recv_data", "read_schedule"}
Types   == {"none", "true", "false", "throw", "Response", "Empty", "Error"}

\* Types; a client is blocked exactly while something of its call is under
\* way (or was lost).
TypeOK ==
    /\ \A c \in Components : call[c].method \in Methods \cup {"none"} /\ result[c].type \in Types
    /\ \A c \in Components : wire[c] = Quiet <=> call[c] = Idle
    /\ \A b \in Boxes : \A k \in DOMAIN box[b] : box[b][k].box = b

\* Nothing the server has handed out is dropped: the poll of read_schedule
\* throws away Empty replies only.
NothingDropped ==
    \A m \in handed : m \in got \/ \E c \in Components : wire[c] = Reply("Response", m)

\* What a call returns was sent to the address it asked: recv_data(s) gets
\* what send_data sent to s, read_schedule(p) a schedule for p.
OwnMail ==
    \A c \in Components : result[c].type = "Response" =>
        result[c].data.box = (IF result[c].method = "recv_data"
                              THEN DataBox(result[c].peer) ELSE ScheduleBox(result[c].peer))

\* A send that returns false has left no trace at the server.
FalseMeansUnsent ==
    \A c \in Components : result[c].type = "false" => result[c].data \notin accepted

\* No message is delivered twice: a client never repeats a write whose reply
\* it cannot read, so one handed out is in no queue any more, and no queue
\* holds one twice.
NoDuplicates ==
    \A b \in Boxes : \A j, k \in DOMAIN box[b] :
        box[b][j] \notin handed /\ (j # k => box[b][j] # box[b][k])

\* As long as its messages are not lost and schedules are published, a
\* read_schedule returns; its loop has no bound of its own.
ReadsReturn ==
    \A c \in Components :
        call[c].method = "read_schedule" ~> call[c].method # "read_schedule" \/ wire[c] = Lost

-----------------------------------------------------------------------------
(* What the documentation says and the code does not do (see README.md). *)

\* "Get confirmation from the message queue that the message has been
\* received" (communication.cpp:136, 179): true means the server has it.
TrueMeansReceived ==
    \A c \in Components : result[c].type = "true" => result[c].data \in accepted

\* "receive message from the queue, block until the message is received"
\* (communication.cpp:198): recv_data returns with a message.
RecvBlocks ==
    \A c \in Components : result[c].method = "recv_data" => result[c].type # "Empty"

\* "block until msg_queue returns a valid message" (communication.cpp:255).
ScheduleValid ==
    \A c \in Components : result[c].method = "read_schedule" => result[c].type \in {"Response", "throw"}
=============================================================================
