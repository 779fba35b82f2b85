------------------------ MODULE CommunicationProofs -------------------------
(***************************************************************************)
(* The safety properties of Communication, for every number of clients,     *)
(* receivers, calls and schedules.                                          *)
(*                                                                          *)
(* The properties speak of results and queues; the invariant adds what      *)
(* leads there.  Phase(c) says what may be on the wire at each point of a   *)
(* call: a write carries the message of the call, not yet stored; a read    *)
(* asks for the box of the call, and its answer comes from there.  Stored   *)
(* and Handed say that messages are told apart by their numbers: one a      *)
(* client sends now is newer than all it has sent.                          *)
(***************************************************************************)
EXTENDS Communication, SequenceTheorems, TLAPS

Messages == [from : Components \cup {"scheduler"}, number : Nat, box : Boxes]
Payloads == Messages \cup {NoData}
Replies  == {"Ack", "Empty", "Error", "Garbled", "Response"}
Sends    == {"send_data", "send_schedule"}
Reads    == {"recv_data", "read_schedule"}

Calls   == [method : Methods \cup {"none"}, peer : Peers \cup {"none"}, data : Payloads]
Results == [method : Methods \cup {"none"}, peer : Peers \cup {"none"}, type : Types, data : Payloads]

Typed ==
    /\ call \in [Components -> Calls]
    /\ DOMAIN wire = Components /\ wire = [c \in Components |-> wire[c]]
    /\ result \in [Components -> Results]
    /\ box \in [Boxes -> Seq(Messages)]
    /\ calls \in [Components -> Nat]
    /\ published \in Nat
    /\ accepted \subseteq Messages /\ handed \subseteq Messages /\ got \subseteq Messages

BoxAsked(method, peer) == IF method = "recv_data" THEN DataBox(peer) ELSE ScheduleBox(peer)

Writing(c) == wire[c] = Write(call[c].data.box, call[c].data) /\ call[c].data \notin accepted
Told(c)    == \E t \in {"Ack", "Error", "Garbled"} : wire[c] = Reply(t, NoData)
Asking(c)  == wire[c] = Read(BoxAsked(call[c].method, call[c].peer))
Refused(c) == \E t \in {"Empty", "Error", "Garbled"} : wire[c] = Reply(t, NoData)
Served(c)  == \E m \in Messages : /\ wire[c] = Reply("Response", m)
                                  /\ m.box = BoxAsked(call[c].method, call[c].peer)

Resting(c) == call[c] = Idle /\ wire[c] = Quiet
Sending(c) ==
    /\ call[c].method \in Sends /\ call[c].data \in Messages
    /\ call[c].data.from = c /\ call[c].data.number = calls[c]
    /\ Writing(c) \/ Told(c) \/ wire[c] = Lost
Reading(c) ==
    /\ call[c].method \in Reads /\ call[c].peer \in Peers
    /\ Asking(c) \/ Refused(c) \/ Served(c) \/ wire[c] = Lost

Phase(c) == Resting(c) \/ Sending(c) \/ Reading(c)
Phases   == \A c \in Components : Phase(c)

Known(m, p, A) == IF m.from = "scheduler" THEN m.number <= p ELSE m \in A

Accepted == \A m \in accepted : m.from \in Components /\ m.number <= calls[m.from]
Stored   == \A b \in Boxes : \A k \in DOMAIN box[b] : box[b][k].box = b /\ Known(box[b][k], published, accepted)
Handed   == \A m \in handed : Known(m, published, accepted)

\* A refused send has a number of its own: calls since have higher ones.
Unsent ==
    \A c \in Components : result[c].type = "false" =>
        /\ result[c].data \in Messages /\ result[c].data.from = c
        /\ result[c].data \notin accepted
        /\ result[c].data.number <= calls[c]
        /\ call[c] # Idle => result[c].data.number < calls[c]

IInv == /\ Typed /\ Phases /\ Accepted /\ Stored /\ Handed
        /\ Unsent /\ NothingDropped /\ OwnMail /\ NoDuplicates

-----------------------------------------------------------------------------
(* What the steps share. *)

USE DEF Quiet, Lost, Write, Read, Reply, NoData, Idle

\* A box a client writes to or asks for is one of the server's.
LEMMA AddressesAreBoxes ==
    /\ \A c \in Components : OwnScheduleBox(c) \in Boxes
    /\ \A p \in Peers : /\ DataBox(p) \in Boxes /\ ScheduleBox(p) \in Boxes
                        /\ \A method : BoxAsked(method, p) \in Boxes
BY DEF Boxes, BoxAsked

\* A client whose variables do not change keeps its phase, as long as its
\* message is not stored behind its back.
LEMMA OthersKeepPhase ==
    ASSUME NEW d \in Components, Phase(d),
           call'[d] = call[d], wire'[d] = wire[d], calls'[d] = calls[d],
           Writing(d) => call[d].data \notin accepted'
    PROVE  Phase(d)'
<1>1. CASE Resting(d)
  BY <1>1 DEF Phase, Resting
<1>2. CASE Sending(d)
  BY <1>2 DEF Phase, Sending, Writing, Told
<1>3. CASE Reading(d)
  BY <1>3 DEF Phase, Reading, Asking, Refused, Served
<1> QED
  BY <1>1, <1>2, <1>3 DEF Phase

\* One more call makes no stored message newer.
LEMMA CallsGrow ==
    ASSUME IInv, NEW c \in Components,
           calls' = [calls EXCEPT ![c] = @ + 1], accepted' = accepted
    PROVE  Accepted'
<1> SUFFICES ASSUME NEW m \in accepted PROVE m.from \in Components /\ m.number <= calls'[m.from]
  BY DEF Accepted
<1>1. m.from \in Components /\ m.number <= calls[m.from] /\ m.number \in Nat
  BY DEF IInv, Typed, Accepted, Messages
<1>2. calls[m.from] \in Nat /\ calls'[m.from] \in {calls[m.from], calls[m.from] + 1}
  BY <1>1 DEF IInv, Typed
<1> QED
  BY <1>1, <1>2

\* What is in a sequence after an Append was there before, or is the new one.
LEMMA AppendCases ==
    ASSUME NEW s \in Seq(Messages), NEW e \in Messages, NEW t, t = Append(s, e),
           NEW k \in DOMAIN t
    PROVE  \/ k \in DOMAIN s /\ t[k] = s[k]
           \/ k = Len(s) + 1 /\ t[k] = e
<1>1. /\ t \in Seq(Messages) /\ Len(t) = Len(s) + 1
      /\ \A i \in 1 .. Len(s) : t[i] = s[i]
      /\ t[Len(s) + 1] = e
  BY AppendProperties
<1>2. DOMAIN s = 1 .. Len(s) /\ Len(s) \in Nat /\ DOMAIN t = 1 .. Len(s) + 1
  BY <1>1
<1>3. k \in 1 .. Len(s) \/ k = Len(s) + 1
  BY <1>2
<1>4. CASE k \in 1 .. Len(s)
  BY <1>1, <1>2, <1>4
<1>5. CASE k = Len(s) + 1
  BY <1>1, <1>5
<1> QED
  BY <1>3, <1>4, <1>5

\* What kind of message is on the wire of a client that reads.
LEMMA ReadingKinds ==
    ASSUME NEW d \in Components
    PROVE  /\ Asking(d) => wire[d].kind = "read"
           /\ Refused(d) => wire[d].kind = "reply"
           /\ Served(d) => wire[d].kind = "reply"
<1>1. Asking(d) => wire[d].kind = "read"
  BY DEF Asking
<1>2. Refused(d) => wire[d].kind = "reply"
  BY DEF Refused
<1>3. Served(d) => wire[d].kind = "reply"
  BY DEF Served
<1> QED
  BY <1>1, <1>2, <1>3

\* A call that reads is not one that writes.
LEMMA NeverWrites ==
    ASSUME NEW d \in Components, Reading(d)
    PROVE  wire[d].kind # "write"
BY ReadingKinds DEF Reading

\* Init.
LEMMA InitSafe == Init => IInv
<1> SUFFICES ASSUME Init PROVE IInv
  OBVIOUS
<1>1. Typed
  BY DEF Init, Typed, Calls, Results, Payloads, Types
<1>2. Phases /\ Accepted /\ Stored /\ Handed /\ Unsent
  BY DEF Init, Phases, Phase, Resting, Accepted, Stored, Handed, Unsent
<1>3. NothingDropped /\ OwnMail /\ NoDuplicates
  BY DEF Init, NothingDropped, OwnMail, NoDuplicates
<1> QED
  BY <1>1, <1>2, <1>3 DEF IInv

\* send_data, send_schedule.
LEMMA SendSafe ==
    ASSUME IInv, NEW c \in Components, NEW method \in Sends, NEW peer \in Peers,
           NEW b \in Boxes, NEW valid, Send(c, method, peer, b, valid)
    PROVE  IInv'
<1> DEFINE m == [from |-> c, number |-> calls[c] + 1, box |-> b]
<1>1. m \in Messages /\ calls[c] \in Nat
  BY DEF IInv, Typed, Messages
<1>2. Resting(c) /\ calls' = [calls EXCEPT ![c] = @ + 1]
  BY DEF Send, Enter, IInv, Phases, Phase, Resting, Sending, Reading, Sends, Reads
<1>3. UNCHANGED <<box, published, accepted, handed, got>>
  BY DEF Send, Enter
<1>4. m \notin accepted
  BY <1>1 DEF IInv, Accepted
<1>5. \/ /\ call' = [call EXCEPT ![c] = [method |-> method, peer |-> peer, data |-> m]]
         /\ wire' = [wire EXCEPT ![c] = Write(b, m)]
         /\ result' = result
      \/ /\ result' = [result EXCEPT ![c] = [method |-> method, peer |-> peer,
                                             type |-> "false", data |-> m]]
         /\ call' = call /\ wire' = wire
  BY DEF Send
<1> HIDE DEF m
<1>6. Typed'
  <2>1. /\ [method |-> method, peer |-> peer, data |-> m] \in Calls
        /\ [method |-> method, peer |-> peer, type |-> "false", data |-> m] \in Results
    BY <1>1 DEF Calls, Results, Payloads, Sends, Methods, Types
  <2>2. call' \in [Components -> Calls] /\ result' \in [Components -> Results]
    BY <1>5, <2>1 DEF IInv, Typed
  <2>3. DOMAIN wire' = Components /\ wire' = [d \in Components |-> wire'[d]]
    BY <1>5 DEF IInv, Typed
  <2>4. calls' \in [Components -> Nat]
    BY <1>2 DEF IInv, Typed
  <2> QED
    BY <1>3, <2>2, <2>3, <2>4 DEF IInv, Typed
<1>7. Phases'
  <2> SUFFICES ASSUME NEW d \in Components PROVE Phase(d)'
    BY DEF Phases
  <2>1. CASE d # c
    <3>1. call'[d] = call[d] /\ wire'[d] = wire[d] /\ calls'[d] = calls[d]
      BY <1>2, <1>5, <2>1 DEF IInv, Typed
    <3>2. Phase(d) /\ (Writing(d) => call[d].data \notin accepted')
      BY <1>3 DEF IInv, Phases, Writing
    <3> QED
      BY <3>1, <3>2, OthersKeepPhase
  <2>2. CASE d = c /\ call' = call /\ wire' = wire
    BY <1>2, <2>2 DEF Phase, Resting
  <2>3. CASE d = c /\ call' = [call EXCEPT ![c] = [method |-> method, peer |-> peer, data |-> m]]
                   /\ wire' = [wire EXCEPT ![c] = Write(b, m)]
    <3>1. call'[c] = [method |-> method, peer |-> peer, data |-> m] /\ wire'[c] = Write(b, m)
      BY <2>3 DEF IInv, Typed
    <3>2. m.from = c /\ m.number = calls'[c] /\ m.box = b
      BY <1>1, <1>2 DEF m, IInv, Typed
    <3>3. Sending(c)'
      BY <1>1, <1>3, <1>4, <3>1, <3>2 DEF Sending, Writing
    <3> QED
      BY <2>3, <3>3 DEF Phase
  <2> QED
    BY <1>5, <2>1, <2>2, <2>3
<1>8. Accepted'
  BY <1>2, <1>3, CallsGrow
<1>9. Stored' /\ Handed' /\ NoDuplicates'
  BY <1>3 DEF IInv, Stored, Handed, Known, NoDuplicates
<1>10. Unsent'
  <2> SUFFICES ASSUME NEW d \in Components, result'[d].type = "false"
               PROVE  /\ result'[d].data \in Messages /\ result'[d].data.from = d
                      /\ result'[d].data \notin accepted
                      /\ result'[d].data.number <= calls'[d]
                      /\ call'[d] # Idle => result'[d].data.number < calls'[d]
    BY <1>3 DEF Unsent
  <2>1. CASE d # c
    BY <1>2, <1>5, <2>1 DEF IInv, Typed, Unsent
  <2>2. CASE d = c /\ result' = result
    BY <1>2, <2>2 DEF IInv, Typed, Unsent, Messages
  <2>3. CASE d = c /\ result' # result
    <3>1. result'[c].data = m /\ call' = call
      BY <1>5, <2>3 DEF IInv, Typed
    <3>2. m.from = c /\ m.number = calls'[c]
      BY <1>1, <1>2 DEF m, IInv, Typed
    <3> QED
      BY <1>1, <1>2, <1>4, <2>3, <3>1, <3>2 DEF Resting, Messages
  <2> QED
    BY <2>1, <2>2, <2>3
<1>11. NothingDropped'
  BY <1>2, <1>3, <1>5 DEF IInv, Typed, NothingDropped, Resting
<1>12. OwnMail'
  <2>1. \A d \in Components : result'[d].type = "Response" => result'[d] = result[d]
    BY <1>5 DEF IInv, Typed
  <2> QED
    BY <2>1 DEF IInv, OwnMail
<1> QED
  BY <1>6, <1>7, <1>8, <1>9, <1>10, <1>11, <1>12 DEF IInv

\* recv_data, read_schedule.
LEMMA AskSafe ==
    ASSUME IInv, NEW c \in Components, NEW method \in Reads, NEW peer \in Peers,
           Ask(c, method, peer, BoxAsked(method, peer))
    PROVE  IInv'
<1>1. Resting(c) /\ calls' = [calls EXCEPT ![c] = @ + 1]
  BY DEF Ask, Enter, IInv, Phases, Phase, Resting, Sending, Reading, Sends, Reads
<1>2. /\ UNCHANGED <<box, published, accepted, handed, got, result>>
      /\ call' = [call EXCEPT ![c] = [method |-> method, peer |-> peer, data |-> NoData]]
      /\ wire' = [wire EXCEPT ![c] = Read(BoxAsked(method, peer))]
  BY DEF Ask, Enter
<1>3. Typed'
  <2>1. [method |-> method, peer |-> peer, data |-> NoData] \in Calls
    BY DEF Calls, Payloads, Reads, Methods
  <2>2. call' \in [Components -> Calls] /\ calls' \in [Components -> Nat]
    BY <1>1, <1>2, <2>1 DEF IInv, Typed
  <2>3. DOMAIN wire' = Components /\ wire' = [d \in Components |-> wire'[d]]
    BY <1>2 DEF IInv, Typed
  <2> QED
    BY <1>2, <2>2, <2>3 DEF IInv, Typed
<1>4. Phases'
  <2> SUFFICES ASSUME NEW d \in Components PROVE Phase(d)'
    BY DEF Phases
  <2>1. CASE d # c
    <3>1. call'[d] = call[d] /\ wire'[d] = wire[d] /\ calls'[d] = calls[d]
      BY <1>1, <1>2, <2>1 DEF IInv, Typed
    <3>2. Phase(d) /\ (Writing(d) => call[d].data \notin accepted')
      BY <1>2 DEF IInv, Phases, Writing
    <3> QED
      BY <3>1, <3>2, OthersKeepPhase
  <2>2. CASE d = c
    <3>1. /\ call'[c] = [method |-> method, peer |-> peer, data |-> NoData]
          /\ wire'[c] = Read(BoxAsked(method, peer))
      BY <1>2 DEF IInv, Typed
    <3>2. Reading(c)'
      BY <3>1 DEF Reading, Asking, BoxAsked, DataBox, ScheduleBox
    <3> QED
      BY <2>2, <3>2 DEF Phase
  <2> QED
    BY <2>1, <2>2
<1>5. Accepted' /\ Stored' /\ Handed' /\ NoDuplicates' /\ OwnMail'
  <2>1. Accepted'
    BY <1>1, <1>2, CallsGrow
  <2>2. Stored' /\ Handed' /\ NoDuplicates'
    BY <1>2 DEF IInv, Stored, Handed, Known, NoDuplicates
  <2>3. OwnMail'
    BY <1>2 DEF IInv, OwnMail
  <2> QED
    BY <2>1, <2>2, <2>3
<1>6. Unsent'
  <2> SUFFICES ASSUME NEW d \in Components, result[d].type = "false"
               PROVE  /\ result[d].data \in Messages /\ result[d].data.from = d
                      /\ result[d].data \notin accepted
                      /\ result[d].data.number <= calls'[d]
                      /\ call'[d] # Idle => result[d].data.number < calls'[d]
    BY <1>2 DEF Unsent
  <2>1. CASE d # c
    BY <1>1, <1>2, <2>1 DEF IInv, Typed, Unsent
  <2>2. CASE d = c
    BY <1>1, <1>2, <2>2 DEF IInv, Typed, Unsent, Messages
  <2> QED
    BY <2>1, <2>2
<1>7. NothingDropped'
  BY <1>1, <1>2 DEF IInv, Typed, NothingDropped, Resting
<1> QED
  BY <1>3, <1>4, <1>5, <1>6, <1>7 DEF IInv

\* The end of a call: its message leaves the wire.
LEMMA ReturnSafe ==
    ASSUME IInv, NEW c \in Components, call[c] # Idle, NEW type \in Types, NEW m \in Payloads,
           type # "false",
           wire' = [wire EXCEPT ![c] = Quiet],
           Return(c, type, m),
           UNCHANGED <<box, calls, published, accepted, handed>>,
           got \subseteq got', got' \subseteq Messages,
           \A n \in Messages : wire[c] = Reply("Response", n) => n \in got',
           type = "Response" => /\ m \in Messages
                                /\ m.box = BoxAsked(call[c].method, call[c].peer)
    PROVE  IInv'
<1>1. /\ call' = [call EXCEPT ![c] = Idle]
      /\ result' = [result EXCEPT ![c] = [method |-> call[c].method, peer |-> call[c].peer,
                                          type |-> type, data |-> m]]
  BY DEF Return
<1>2. \A d \in Components : d # c => /\ call'[d] = call[d] /\ wire'[d] = wire[d]
                                     /\ result'[d] = result[d]
  BY <1>1 DEF IInv, Typed
<1>3. /\ call'[c] = Idle /\ wire'[c] = Quiet
      /\ result'[c] = [method |-> call[c].method, peer |-> call[c].peer, type |-> type, data |-> m]
  BY <1>1 DEF IInv, Typed
<1>4. Typed'
  <2>1. call[c] \in Calls
    BY DEF IInv, Typed
  <2>2. Idle \in Calls /\ result'[c] \in Results
    BY <1>3, <2>1 DEF Calls, Results, Payloads
  <2>3. call' \in [Components -> Calls] /\ result' \in [Components -> Results]
    BY <1>1, <1>3, <2>2 DEF IInv, Typed
  <2>4. DOMAIN wire' = Components /\ wire' = [d \in Components |-> wire'[d]]
    BY DEF IInv, Typed
  <2> QED
    BY <2>3, <2>4 DEF IInv, Typed
<1>5. Phases'
  <2> SUFFICES ASSUME NEW d \in Components PROVE Phase(d)'
    BY DEF Phases
  <2>1. CASE d # c
    <3>1. Phase(d) /\ (Writing(d) => call[d].data \notin accepted')
      BY DEF IInv, Phases, Writing
    <3> QED
      BY <1>2, <2>1, <3>1, OthersKeepPhase
  <2>2. CASE d = c
    BY <1>3, <2>2 DEF Phase, Resting
  <2> QED
    BY <2>1, <2>2
<1>6. Accepted' /\ Stored' /\ Handed' /\ NoDuplicates'
  BY DEF IInv, Accepted, Stored, Handed, Known, NoDuplicates
<1>7. Unsent'
  <2> SUFFICES ASSUME NEW d \in Components, result'[d].type = "false"
               PROVE  /\ result'[d].data \in Messages /\ result'[d].data.from = d
                      /\ result'[d].data \notin accepted
                      /\ result'[d].data.number <= calls[d]
                      /\ call'[d] # Idle => result'[d].data.number < calls[d]
    BY DEF Unsent
  <2>1. d # c
    BY <1>3
  <2> QED
    BY <1>2, <2>1 DEF IInv, Unsent
<1>8. NothingDropped'
  <2> SUFFICES ASSUME NEW n \in handed
               PROVE  n \in got' \/ \E d \in Components : wire'[d] = Reply("Response", n)
    BY DEF NothingDropped
  <2>1. CASE n \in got
    BY <2>1
  <2>2. CASE \E d \in Components : wire[d] = Reply("Response", n)
    <3>1. PICK d \in Components : wire[d] = Reply("Response", n)
      BY <2>2
    <3>2. n \in Messages
      BY DEF IInv, Typed
    <3> QED
      BY <1>2, <3>1, <3>2
  <2> QED
    BY <2>1, <2>2 DEF IInv, NothingDropped
<1>9. OwnMail'
  <2> SUFFICES ASSUME NEW d \in Components, result'[d].type = "Response"
               PROVE  result'[d].data.box = (IF result'[d].method = "recv_data"
                          THEN DataBox(result'[d].peer) ELSE ScheduleBox(result'[d].peer))
    BY DEF OwnMail
  <2>1. CASE d # c
    BY <1>2, <2>1 DEF IInv, OwnMail
  <2>2. CASE d = c
    BY <1>3, <2>2 DEF BoxAsked
  <2> QED
    BY <2>1, <2>2
<1> QED
  BY <1>4, <1>5, <1>6, <1>7, <1>8, <1>9 DEF IInv

\* The end of send_data and send_schedule: any reply will do.
LEMMA ConfirmSafe ==
    ASSUME IInv, NEW c \in Components, send_confirmed(c)
    PROVE  IInv'
<1>1. Phase(c) /\ call[c].method \in Sends /\ wire[c].kind = "reply"
  BY DEF IInv, Phases, send_confirmed, Answered, Sends
<1>2. Sending(c) /\ Told(c)
  BY <1>1 DEF Phase, Resting, Reading, Sending, Sends, Reads, Writing
<1>3. \A n \in Messages : wire[c] # Reply("Response", n)
  BY <1>2 DEF Told
<1>4. call[c] # Idle /\ call[c].data \in Payloads
  BY <1>1, <1>2 DEF Sends, Sending, Payloads
<1>5. got \subseteq Messages
  BY DEF IInv, Typed
<1>6. /\ wire' = [wire EXCEPT ![c] = Quiet] /\ Return(c, "true", call[c].data)
      /\ UNCHANGED <<box, calls, published, accepted, handed, got>>
  BY DEF send_confirmed
<1>7. "true" \in Types
  BY DEF Types
<1> QED
  BY <1>3, <1>4, <1>5, <1>6, <1>7, ReturnSafe

\* The four ways in which a call ends.
LEMMA ReturnedSafe ==
    ASSUME IInv, NEW c \in Components, call[c].method \in Reads, wire[c].kind = "reply", Returned(c)
    PROVE  IInv'
<1> DEFINE type == IF wire[c].type = "Garbled" THEN "throw" ELSE wire[c].type
<1>1. Refused(c) \/ Served(c)
  <2>1. Phase(c)
    BY DEF IInv, Phases
  <2>2. Reading(c)
    BY <2>1 DEF Phase, Resting, Sending, Sends, Reads
  <2>3. wire[c] # Lost /\ ~ Asking(c)
    BY DEF Asking
  <2> QED
    BY <2>2, <2>3 DEF Reading
<1>2. /\ type \in Types \ {"false"} /\ wire[c].data \in Payloads
      /\ wire[c].type = "Response" => wire[c].data \in Messages
      /\ type = "Response" => wire[c].data.box = BoxAsked(call[c].method, call[c].peer)
      /\ type = "Response" => wire[c].type = "Response"
  <2>1. CASE Refused(c)
    BY <2>1 DEF Refused, Types, Payloads
  <2>2. CASE Served(c)
    <3>1. PICK m \in Messages : /\ wire[c] = Reply("Response", m)
                                /\ m.box = BoxAsked(call[c].method, call[c].peer)
      BY <2>2 DEF Served
    <3>2. wire[c].type = "Response" /\ wire[c].data = m /\ type = "Response"
      BY <3>1
    <3> QED
      BY <3>1, <3>2 DEF Types, Payloads
  <2> QED
    BY <1>1, <2>1, <2>2
<1>3. /\ wire' = [wire EXCEPT ![c] = Quiet] /\ Return(c, type, wire[c].data)
      /\ got' = IF wire[c].type = "Response" THEN got \cup {wire[c].data} ELSE got
      /\ UNCHANGED <<box, calls, published, accepted, handed>>
  BY DEF Returned
<1>4. got \subseteq got' /\ got' \subseteq Messages
  BY <1>2, <1>3 DEF IInv, Typed
<1>5. \A n \in Messages : wire[c] = Reply("Response", n) => n \in got'
  BY <1>3
<1>6. call[c] # Idle
  BY DEF Reads
<1> HIDE DEF type
<1> QED
  BY <1>2, <1>3, <1>4, <1>5, <1>6, ReturnSafe

\* A step of the client or the server that only changes what is on the wire
\* of c, and carries no message away from it.
LEMMA RewireSafe ==
    ASSUME IInv, NEW c \in Components, NEW w,
           wire' = [wire EXCEPT ![c] = w], Phase(c)',
           \A n \in Messages : wire[c] # Reply("Response", n),
           UNCHANGED <<call, result, box, calls, published, accepted, handed, got>>
    PROVE  IInv'
<1>1. Typed'
  BY DEF IInv, Typed
<1>2. \A d \in Components : d # c => wire'[d] = wire[d]
  BY DEF IInv, Typed
<1>3. Phases'
  <2> SUFFICES ASSUME NEW d \in Components, d # c PROVE Phase(d)'
    BY DEF Phases
  <2>1. Phase(d) /\ (Writing(d) => call[d].data \notin accepted')
    BY DEF IInv, Phases, Writing
  <2> QED
    BY <1>2, <2>1, OthersKeepPhase
<1>4. Accepted' /\ Stored' /\ Handed' /\ NoDuplicates'
  BY DEF IInv, Accepted, Stored, Handed, Known, NoDuplicates
<1>5. Unsent' /\ OwnMail'
  BY DEF IInv, Unsent, OwnMail
<1>6. NothingDropped'
  <2>1. handed \subseteq Messages
    BY DEF IInv, Typed
  <2> QED
    BY <1>2, <2>1 DEF IInv, NothingDropped
<1> QED
  BY <1>1, <1>3, <1>4, <1>5, <1>6 DEF IInv

\* read_schedule sends its request again; nothing is stored or lost.
LEMMA AgainSafe ==
    ASSUME IInv, NEW c \in Components, read_schedule_again(c)
    PROVE  IInv'
<1>1. Phase(c) /\ call[c].method = "read_schedule" /\ wire[c].kind = "reply" /\ wire[c].type = "Empty"
  BY DEF IInv, Phases, read_schedule_again, Answered
<1>2. Reading(c) /\ \A n \in Messages : wire[c] # Reply("Response", n)
  BY <1>1 DEF Phase, Resting, Sending, Sends
<1>3. /\ wire' = [wire EXCEPT ![c] = Read(ScheduleBox(call[c].peer))]
      /\ UNCHANGED <<call, result, box, calls, published, accepted, handed, got>>
  BY DEF read_schedule_again
<1>4. wire'[c] = Read(ScheduleBox(call[c].peer))
  BY <1>3 DEF IInv, Typed
<1>5. Phase(c)'
  BY <1>1, <1>2, <1>3, <1>4 DEF Phase, Reading, Asking, BoxAsked, ScheduleBox, DataBox
<1> QED
  BY <1>2, <1>3, <1>5, RewireSafe

\* The server rejects a message without storing or removing any.
LEMMA RefuseSafe ==
    ASSUME IInv, NEW c \in Components, refuse(c)
    PROVE  IInv'
<1>1. PICK t \in {"Error", "Garbled"} : wire' = [wire EXCEPT ![c] = Reply(t, NoData)]
  BY DEF refuse
<1>2. Phase(c) /\ wire[c].kind \in {"write", "read"}
      /\ UNCHANGED <<call, result, box, calls, published, accepted, handed, got>>
  BY DEF IInv, Phases, refuse
<1>3. wire'[c] = Reply(t, NoData)
  BY <1>1 DEF IInv, Typed
<1>4. Phase(c)'
  <2>1. CASE Resting(c)
    BY <1>2, <2>1 DEF Resting
  <2>2. CASE Sending(c)
    BY <1>2, <1>3, <2>2 DEF Phase, Sending, Told
  <2>3. CASE Reading(c)
    BY <1>2, <1>3, <2>3 DEF Phase, Reading, Refused
  <2> QED
    BY <1>2, <2>1, <2>2, <2>3 DEF Phase
<1>5. \A n \in Messages : wire[c] # Reply("Response", n)
  BY <1>2
<1> QED
  BY <1>1, <1>2, <1>4, <1>5, RewireSafe

\* A request or a reply is lost: an AckMsg on its way had been stored.
LEMMA LoseSafe ==
    ASSUME IInv, NEW c \in Components, lose(c)
    PROVE  IInv'
<1>1. /\ Phase(c) /\ wire[c].kind \in {"write", "read", "reply"}
      /\ wire' = [wire EXCEPT ![c] = Lost]
      /\ handed' = IF wire[c].kind = "reply" THEN handed \ {wire[c].data} ELSE handed
      /\ UNCHANGED <<call, result, box, calls, published, accepted, got>>
  BY DEF IInv, Phases, lose
<1>2. wire'[c] = Lost /\ \A d \in Components : d # c => wire'[d] = wire[d]
  BY <1>1 DEF IInv, Typed
<1>3. handed' \subseteq handed
  BY <1>1
<1>4. Typed'
  BY <1>1, <1>3 DEF IInv, Typed
<1>5. Phases'
  <2> SUFFICES ASSUME NEW d \in Components PROVE Phase(d)'
    BY DEF Phases
  <2>1. CASE d # c
    <3>1. Phase(d) /\ (Writing(d) => call[d].data \notin accepted')
      BY <1>1 DEF IInv, Phases, Writing
    <3> QED
      BY <1>1, <1>2, <2>1, <3>1, OthersKeepPhase
  <2>2. CASE d = c
    <3>1. ~ Resting(c)
      BY <1>1 DEF Resting
    <3> QED
      BY <1>1, <1>2, <2>2, <3>1 DEF Phase, Sending, Reading
  <2> QED
    BY <2>1, <2>2
<1>6. Accepted' /\ Stored' /\ Handed' /\ NoDuplicates'
  BY <1>1, <1>3 DEF IInv, Accepted, Stored, Handed, Known, NoDuplicates
<1>7. Unsent' /\ OwnMail'
  BY <1>1 DEF IInv, Unsent, OwnMail
<1>8. NothingDropped'
  <2> SUFFICES ASSUME NEW n \in handed'
               PROVE  n \in got \/ \E d \in Components : wire'[d] = Reply("Response", n)
    BY <1>1 DEF NothingDropped
  <2>1. n \in got \/ \E d \in Components : wire[d] = Reply("Response", n)
    BY <1>3 DEF IInv, NothingDropped
  <2>2. wire[c] # Reply("Response", n)
    BY <1>1
  <2> QED
    BY <1>2, <2>1, <2>2
<1> QED
  BY <1>4, <1>5, <1>6, <1>7, <1>8 DEF IInv

\* The server stores a message: it is newer than all it has from this client.
LEMMA EnqueueSafe ==
    ASSUME IInv, NEW c \in Components, enqueue(c)
    PROVE  IInv'
<1>1. Phase(c) /\ wire[c].kind = "write"
  BY DEF IInv, Phases, enqueue
<1>2. Sending(c) /\ Writing(c)
  <2>1. ~ Resting(c)
    BY <1>1 DEF Resting
  <2>2. ~ Reading(c)
    BY <1>1, NeverWrites
  <2>3. Sending(c) /\ ~ Told(c)
    BY <1>1, <2>1, <2>2 DEF Phase, Told
  <2> QED
    BY <1>1, <2>3 DEF Sending
<1>3. PICK m \in Messages, b \in Boxes :
         /\ m = call[c].data /\ b = m.box /\ wire[c] = Write(b, m)
         /\ m.from = c /\ m.number = calls[c] /\ m \notin accepted
  BY <1>2 DEF Sending, Writing, Messages
<1>5. PICK t \in {"Ack", "Garbled"} : wire' = [wire EXCEPT ![c] = Reply(t, NoData)]
  BY DEF enqueue
<1>6. /\ box' = [box EXCEPT ![b] = Append(@, m)] /\ accepted' = accepted \cup {m}
      /\ UNCHANGED <<call, result, calls, published, handed, got>>
  BY <1>3 DEF enqueue
<1>7. c # "scheduler"
  BY NamesAssumption
<1>8. wire'[c] = Reply(t, NoData) /\ \A d \in Components : d # c => wire'[d] = wire[d]
  BY <1>5 DEF IInv, Typed
<1>9. Typed'
  <2>1. box' \in [Boxes -> Seq(Messages)]
    BY <1>3, <1>6 DEF IInv, Typed
  <2> QED
    BY <1>3, <1>5, <1>6, <2>1 DEF IInv, Typed
<1>10. \A d \in Components : (d # c /\ call[d].data \in Messages /\ call[d].data.from = d) => call[d].data # m
  BY <1>3
<1>12. Phases'
  <2> SUFFICES ASSUME NEW d \in Components PROVE Phase(d)'
    BY DEF Phases
  <2>1. CASE d # c
    <3>1. Phase(d)
      BY DEF IInv, Phases
    <3>2. Writing(d) => call[d].data \notin accepted'
      <4>1. Writing(d) => ~ Resting(d) /\ ~ Reading(d)
        BY NeverWrites DEF Resting, Writing
      <4> QED
        BY <1>6, <1>10, <2>1, <3>1, <4>1 DEF Phase, Sending, Writing
    <3> QED
      BY <1>6, <1>8, <2>1, <3>1, <3>2, OthersKeepPhase
  <2>2. CASE d = c
    BY <1>2, <1>6, <1>8, <2>2 DEF Phase, Sending, Told
  <2> QED
    BY <2>1, <2>2
<1>13. Accepted'
  BY <1>3, <1>6 DEF IInv, Typed, Accepted
<1>14. \A n \in Messages : Known(n, published, accepted) => Known(n, published', accepted')
  BY <1>6 DEF Known
<1>15. Known(m, published', accepted') /\ ~ Known(m, published, accepted)
  BY <1>3, <1>6, <1>7 DEF Known
<1>16. Handed' /\ m \notin handed
  BY <1>6, <1>14, <1>15 DEF IInv, Typed, Handed
<1>17. box[b] \in Seq(Messages) /\ box'[b] = Append(box[b], m)
       /\ \A a \in Boxes : a # b => box'[a] = box[a]
  BY <1>6 DEF IInv, Typed
<1>18. \A k \in DOMAIN box'[b] : \/ k \in DOMAIN box[b] /\ box'[b][k] = box[b][k]
                                 \/ k = Len(box[b]) + 1 /\ box'[b][k] = m
  <2>1. box[b] \in Seq(Messages) /\ m \in Messages /\ box'[b] = Append(box[b], m)
    BY <1>3, <1>17
  <2> QED
    BY <2>1, AppendCases
<1>19. \A k \in DOMAIN box[b] : box[b][k] \in Messages /\ box[b][k].box = b /\ Known(box[b][k], published, accepted)
  BY <1>17 DEF IInv, Stored
<1>20. Stored'
  <2> SUFFICES ASSUME NEW a \in Boxes, NEW k \in DOMAIN box'[a]
               PROVE  box'[a][k].box = a /\ Known(box'[a][k], published', accepted')
    BY DEF Stored
  <2>1. CASE a = b
    BY <1>3, <1>14, <1>15, <1>18, <1>19, <2>1
  <2>2. CASE a # b
    <3>1. k \in DOMAIN box[a] /\ box'[a][k] = box[a][k] /\ box[a][k] \in Messages
      BY <1>17, <2>2 DEF IInv, Typed
    <3> QED
      BY <1>14, <3>1 DEF IInv, Stored
  <2> QED
    BY <2>1, <2>2
<1>21. NoDuplicates'
  <2> SUFFICES ASSUME NEW a \in Boxes, NEW j \in DOMAIN box'[a], NEW k \in DOMAIN box'[a]
               PROVE  box'[a][j] \notin handed /\ (j # k => box'[a][j] # box'[a][k])
    BY <1>6 DEF NoDuplicates
  <2>1. CASE a # b
    BY <1>17, <2>1 DEF IInv, NoDuplicates
  <2>2. CASE a = b
    <3>1. \A i \in DOMAIN box[b] : box[b][i] # m /\ box[b][i] \notin handed
      BY <1>15, <1>19 DEF IInv, NoDuplicates
    <3>2. \A i, n \in DOMAIN box[b] : i # n => box[b][i] # box[b][n]
      BY DEF IInv, NoDuplicates
    <3> QED
      BY <1>16, <1>18, <2>2, <3>1, <3>2
  <2> QED
    BY <2>1, <2>2
<1>22. Unsent'
  <2> SUFFICES ASSUME NEW d \in Components, result[d].type = "false"
               PROVE  /\ result[d].data \in Messages /\ result[d].data.from = d
                      /\ result[d].data \notin accepted'
                      /\ result[d].data.number <= calls[d]
                      /\ call[d] # Idle => result[d].data.number < calls[d]
    BY <1>6 DEF Unsent
  <2>1. /\ result[d].data \in Messages /\ result[d].data.from = d
        /\ result[d].data \notin accepted
        /\ result[d].data.number <= calls[d]
        /\ call[d] # Idle => result[d].data.number < calls[d]
    BY DEF IInv, Unsent
  <2>2. result[d].data # m
    <3>1. CASE d = c
      <4>1. call[c] # Idle
        BY <1>2 DEF Sending, Sends
      <4> QED
        BY <1>3, <2>1, <3>1, <4>1 DEF Messages, IInv, Typed
    <3>2. CASE d # c
      BY <1>3, <2>1, <3>2
    <3> QED
      BY <3>1, <3>2
  <2> QED
    BY <1>6, <2>1, <2>2
<1>23. NothingDropped'
  <2>1. \A n : wire[c] # Reply("Response", n)
    BY <1>1
  <2> QED
    BY <1>6, <1>8, <2>1 DEF IInv, NothingDropped
<1>24. OwnMail'
  BY <1>6 DEF IInv, OwnMail
<1> QED
  BY <1>9, <1>12, <1>13, <1>16, <1>20, <1>21, <1>22, <1>23, <1>24 DEF IInv

\* The server hands out the oldest message of a box, or says it is empty.
LEMMA DequeueSafe ==
    ASSUME IInv, NEW c \in Components, dequeue(c)
    PROVE  IInv'
<1>1. Phase(c) /\ wire[c].kind = "read"
      /\ UNCHANGED <<call, result, calls, published, accepted, got>>
  BY DEF IInv, Phases, dequeue
<1>2. Reading(c) /\ Asking(c)
  <2>1. ~ Resting(c) /\ ~ Sending(c)
    BY <1>1 DEF Resting, Sending, Writing, Told
  <2>2. ~ Refused(c) /\ ~ Served(c) /\ wire[c] # Lost
    BY <1>1, ReadingKinds
  <2> QED
    BY <1>1, <2>1, <2>2 DEF Phase, Reading
<1>3. PICK b \in Boxes : b = BoxAsked(call[c].method, call[c].peer) /\ wire[c] = Read(b)
  BY <1>2, AddressesAreBoxes DEF Reading, Asking
<1>4. \A n \in Messages : wire[c] # Reply("Response", n)
  BY <1>1
<1>5. CASE box[b] = << >>
  <2>1. /\ wire' = [wire EXCEPT ![c] = Reply("Empty", NoData)] /\ UNCHANGED <<box, handed>>
    BY <1>3, <1>5 DEF dequeue
  <2>2. wire'[c] = Reply("Empty", NoData)
    BY <2>1 DEF IInv, Typed
  <2>3. Phase(c)'
    BY <1>1, <1>2, <2>2 DEF Phase, Reading, Refused
  <2> QED
    BY <1>1, <1>4, <2>1, <2>3, RewireSafe
<1>6. CASE box[b] # << >>
  <2>1. box[b] \in Seq(Messages)
    BY DEF IInv, Typed
  <2>2. PICK m \in Messages : m = Head(box[b])
    BY <1>6, <2>1
  <2>3. /\ wire' = [wire EXCEPT ![c] = Reply("Response", m)]
        /\ box' = [box EXCEPT ![b] = Tail(@)] /\ handed' = handed \cup {m}
    BY <1>3, <1>6, <2>2 DEF dequeue
  <2>4. wire'[c] = Reply("Response", m) /\ \A d \in Components : d # c => wire'[d] = wire[d]
    BY <2>3 DEF IInv, Typed
  <2>5. box'[b] = Tail(box[b]) /\ \A a \in Boxes : a # b => box'[a] = box[a]
    BY <2>3 DEF IInv, Typed
  <2>6. /\ DOMAIN box'[b] = 1 .. Len(box[b]) - 1 /\ 1 \in DOMAIN box[b] /\ m = box[b][1]
        /\ \A k \in DOMAIN box'[b] : k + 1 \in DOMAIN box[b] /\ box'[b][k] = box[b][k + 1] /\ k \in Nat \ {0}
    BY <1>6, <2>1, <2>2, <2>5
  <2>7. m.box = b /\ Known(m, published, accepted)
    BY <2>6 DEF IInv, Stored
  <2>8. Typed'
    <3>1. box' \in [Boxes -> Seq(Messages)]
      BY <1>6, <2>1, <2>3 DEF IInv, Typed
    <3> QED
      BY <1>1, <2>3, <3>1 DEF IInv, Typed
  <2>9. Phases'
    <3> SUFFICES ASSUME NEW d \in Components PROVE Phase(d)'
      BY DEF Phases
    <3>1. CASE d # c
      <4>1. Phase(d) /\ (Writing(d) => call[d].data \notin accepted')
        BY <1>1 DEF IInv, Phases, Writing
      <4> QED
        BY <1>1, <2>4, <3>1, <4>1, OthersKeepPhase
    <3>2. CASE d = c
      <4>1. Served(c)'
        BY <1>1, <1>3, <2>4, <2>7 DEF Served, BoxAsked, DataBox, ScheduleBox
      <4> QED
        BY <1>1, <1>2, <3>2, <4>1 DEF Phase, Reading
    <3> QED
      BY <3>1, <3>2
  <2>10. Accepted' /\ Unsent' /\ OwnMail'
    BY <1>1 DEF IInv, Accepted, Unsent, OwnMail
  <2>11. Handed'
    BY <1>1, <2>3, <2>7 DEF IInv, Handed
  <2>12. Stored'
    <3> SUFFICES ASSUME NEW a \in Boxes, NEW k \in DOMAIN box'[a]
                 PROVE  box'[a][k].box = a /\ Known(box'[a][k], published, accepted)
      BY <1>1 DEF Stored
    <3>1. CASE a = b
      BY <2>6, <3>1 DEF IInv, Stored
    <3>2. CASE a # b
      BY <2>5, <3>2 DEF IInv, Stored
    <3> QED
      BY <3>1, <3>2
  <2>13. NoDuplicates'
    <3> SUFFICES ASSUME NEW a \in Boxes, NEW j \in DOMAIN box'[a], NEW k \in DOMAIN box'[a]
                 PROVE  box'[a][j] \notin handed' /\ (j # k => box'[a][j] # box'[a][k])
      BY DEF NoDuplicates
    <3>1. CASE a = b
      <4>1. /\ j + 1 \in DOMAIN box[b] /\ k + 1 \in DOMAIN box[b] /\ j + 1 # 1
            /\ j # k => j + 1 # k + 1
        <5>1. j \in DOMAIN box'[b] /\ k \in DOMAIN box'[b]
          BY <3>1
        <5>2. j + 1 \in DOMAIN box[b] /\ k + 1 \in DOMAIN box[b] /\ j \in Nat \ {0} /\ k \in Nat \ {0}
          BY <2>6, <5>1
        <5> QED
          BY <5>2
      <4>2. box[b][j + 1] \notin handed /\ box[b][j + 1] # m
            /\ (j # k => box[b][j + 1] # box[b][k + 1])
        BY <2>6, <4>1 DEF IInv, NoDuplicates
      <4> QED
        BY <2>3, <2>6, <3>1, <4>2
    <3>2. CASE a # b
      <4>1. box'[a] = box[a]
        BY <2>5, <3>2
      <4>2. box[a][j] # m
        <5>1. j \in DOMAIN box[a]
          BY <4>1
        <5>2. box[a][j].box = a
          BY <5>1 DEF IInv, Stored
        <5> QED
          BY <2>7, <3>2, <5>2
      <4>3. box[a][j] \notin handed /\ (j # k => box[a][j] # box[a][k])
        BY <4>1 DEF IInv, NoDuplicates
      <4>4. box[a][j] \notin handed'
        BY <2>3, <4>2, <4>3
      <4> QED
        BY <4>1, <4>3, <4>4
    <3> QED
      BY <3>1, <3>2
  <2>14. NothingDropped'
    <3> SUFFICES ASSUME NEW n \in handed'
                 PROVE  n \in got \/ \E d \in Components : wire'[d] = Reply("Response", n)
      BY <1>1 DEF NothingDropped
    <3>1. CASE n = m
      BY <2>4, <3>1
    <3>2. CASE n \in handed
      <4>1. n \in got \/ \E d \in Components : wire[d] = Reply("Response", n)
        BY <3>2 DEF IInv, NothingDropped
      <4>2. wire[c] # Reply("Response", n)
        BY <1>1
      <4> QED
        BY <2>4, <4>1, <4>2
    <3> QED
      BY <2>3, <3>1, <3>2
  <2> QED
    BY <2>8, <2>9, <2>10, <2>11, <2>12, <2>13, <2>14 DEF IInv
<1> QED
  BY <1>5, <1>6

\* The scheduler publishes: a schedule newer than all before.
LEMMA PublishSafe ==
    ASSUME IInv, NEW pe \in Peers, publish(pe)
    PROVE  IInv'
<1> DEFINE m == [from |-> "scheduler", number |-> published + 1, box |-> ScheduleBox(pe)]
           b == ScheduleBox(pe)
<1>1. b \in Boxes /\ m \in Messages /\ published \in Nat
  BY AddressesAreBoxes DEF IInv, Typed, Messages
<1>2. /\ published' = published + 1 /\ box' = [box EXCEPT ![b] = <<m>>]
      /\ UNCHANGED <<call, wire, result, calls, accepted, handed, got>>
  BY DEF publish
<1>3. m.box = b /\ m.from = "scheduler" /\ m.number = published + 1
  OBVIOUS
<1> HIDE DEF m, b
<1>4. box'[b] = <<m>> /\ \A a \in Boxes : a # b => box'[a] = box[a]
  BY <1>1, <1>2 DEF IInv, Typed
<1>5. Typed'
  <2>1. box' \in [Boxes -> Seq(Messages)]
    BY <1>1, <1>2 DEF IInv, Typed
  <2> QED
    BY <1>1, <1>2, <2>1 DEF IInv, Typed
<1>6. Phases'
  <2> SUFFICES ASSUME NEW d \in Components PROVE Phase(d)'
    BY DEF Phases
  <2>1. Phase(d) /\ (Writing(d) => call[d].data \notin accepted')
    BY <1>2 DEF IInv, Phases, Writing
  <2> QED
    BY <1>2, <2>1, OthersKeepPhase
<1>7. Accepted' /\ Unsent' /\ OwnMail' /\ NothingDropped'
  BY <1>2 DEF IInv, Accepted, Unsent, OwnMail, NothingDropped
<1>8. \A n \in Messages : Known(n, published, accepted) => Known(n, published', accepted')
  BY <1>1, <1>2 DEF Known, Messages
<1>9. Handed'
  BY <1>2, <1>8 DEF IInv, Typed, Handed
<1>10. Known(m, published', accepted') /\ m \notin handed
  <2>1. Known(m, published', accepted')
    BY <1>1, <1>2, <1>3 DEF Known
  <2>2. ~ Known(m, published, accepted)
    BY <1>1, <1>3 DEF Known
  <2> QED
    BY <2>1, <2>2 DEF IInv, Handed
<1>11. Stored'
  <2> SUFFICES ASSUME NEW a \in Boxes, NEW k \in DOMAIN box'[a]
               PROVE  box'[a][k].box = a /\ Known(box'[a][k], published', accepted')
    BY DEF Stored
  <2>1. CASE a = b
    BY <1>3, <1>4, <1>10, <2>1
  <2>2. CASE a # b
    <3>1. k \in DOMAIN box[a] /\ box'[a][k] = box[a][k] /\ box[a][k] \in Messages
      BY <1>4, <2>2 DEF IInv, Typed
    <3> QED
      BY <1>8, <3>1 DEF IInv, Stored
  <2> QED
    BY <2>1, <2>2
<1>12. NoDuplicates'
  <2> SUFFICES ASSUME NEW a \in Boxes, NEW j \in DOMAIN box'[a], NEW k \in DOMAIN box'[a]
               PROVE  box'[a][j] \notin handed /\ (j # k => box'[a][j] # box'[a][k])
    BY <1>2 DEF NoDuplicates
  <2>1. CASE a = b
    BY <1>4, <1>10, <2>1
  <2>2. CASE a # b
    BY <1>4, <2>2 DEF IInv, NoDuplicates
  <2> QED
    BY <2>1, <2>2
<1> QED
  BY <1>5, <1>6, <1>7, <1>9, <1>11, <1>12 DEF IInv

-----------------------------------------------------------------------------
(* The theorems. *)

\* Every step of a client, of the server and of the wire.
LEMMA StepSafe == IInv /\ [Next]_vars => IInv'
<1> SUFFICES ASSUME IInv, [Next]_vars PROVE IInv'
  OBVIOUS
<1>1. ASSUME NEW c \in Components, Method(c) PROVE IInv'
  <2>1. ASSUME NEW p \in Peers, NEW valid \in BOOLEAN, send_data(c, p, valid) PROVE IInv'
    BY <2>1, SendSafe, AddressesAreBoxes DEF send_data, Sends
  <2>2. ASSUME NEW p \in Peers, NEW valid \in BOOLEAN, send_schedule(c, p, valid) PROVE IInv'
    BY <2>2, SendSafe, AddressesAreBoxes DEF send_schedule, Sends
  <2>3. ASSUME NEW p \in Peers, recv_data(c, p) PROVE IInv'
    BY <2>3, AskSafe, AddressesAreBoxes DEF recv_data, Reads, BoxAsked
  <2>4. ASSUME NEW p \in Peers, read_schedule(c, p) PROVE IInv'
    BY <2>4, AskSafe, AddressesAreBoxes DEF read_schedule, Reads, BoxAsked
  <2> QED
    BY <1>1, <2>1, <2>2, <2>3, <2>4 DEF Method
<1>2. ASSUME NEW c \in Components, Progress(c) PROVE IInv'
  <2>1. CASE send_confirmed(c)
    BY <2>1, ConfirmSafe
  <2>2. CASE recv_data_return(c)
    BY <2>2, ReturnedSafe DEF recv_data_return, Answered, Reads
  <2>3. CASE read_schedule_return(c)
    BY <2>3, ReturnedSafe DEF read_schedule_return, Answered, Reads
  <2>4. CASE read_schedule_again(c)
    BY <2>4, AgainSafe
  <2> QED
    BY <1>2, <2>1, <2>2, <2>3, <2>4 DEF Progress
<1>3. ASSUME NEW c \in Components, Server(c) \/ lose(c) PROVE IInv'
  BY <1>3, EnqueueSafe, DequeueSafe, RefuseSafe, LoseSafe DEF Server
<1>4. ASSUME NEW pe \in Peers, publish(pe) PROVE IInv'
  BY <1>4, PublishSafe
<1>5. CASE UNCHANGED vars
  <2>1. Phases'
    BY <1>5 DEF IInv, vars, Phases, Phase, Resting, Sending, Reading, Writing, Told,
                Asking, Refused, Served
  <2>2. Typed' /\ Accepted' /\ Stored' /\ Handed'
    BY <1>5 DEF IInv, vars, Typed, Accepted, Stored, Handed
  <2>3. Unsent' /\ NothingDropped' /\ OwnMail' /\ NoDuplicates'
    BY <1>5 DEF IInv, vars, Unsent, NothingDropped, OwnMail, NoDuplicates
  <2> QED
    BY <2>1, <2>2, <2>3 DEF IInv
<1> QED
  BY <1>1, <1>2, <1>3, <1>4, <1>5 DEF Next

\* The invariant holds throughout, for every number of clients and messages.
THEOREM Invariance == Spec => []IInv
<1>1. Init => IInv
  BY InitSafe
<1>2. IInv /\ [Next]_vars => IInv'
  BY StepSafe
<1> QED
  BY <1>1, <1>2, PTL DEF Spec

\* The types follow from the parts of the invariant.
LEMMA IInvTypes == IInv => TypeOK
<1> SUFFICES ASSUME IInv PROVE TypeOK
  OBVIOUS
<1>1. \A c \in Components : call[c].method \in Methods \cup {"none"} /\ result[c].type \in Types
  BY DEF IInv, Typed, Calls, Results
<1>2. ASSUME NEW c \in Components PROVE wire[c] = Quiet <=> call[c] = Idle
  <2>1. Phase(c)
    BY DEF IInv, Phases
  <2>2. CASE Resting(c)
    BY <2>2 DEF Resting
  <2>3. CASE Sending(c)
    <3>1. call[c] # Idle
      BY <2>3 DEF Sending, Sends
    <3>2. wire[c].kind # "quiet"
      BY <2>3 DEF Sending, Writing, Told
    <3> QED
      BY <3>1, <3>2
  <2>4. CASE Reading(c)
    <3>1. call[c] # Idle
      BY <2>4 DEF Reading, Reads
    <3>2. wire[c].kind # "quiet"
      BY <2>4, ReadingKinds DEF Reading
    <3> QED
      BY <3>1, <3>2
  <2> QED
    BY <2>1, <2>2, <2>3, <2>4 DEF Phase
<1>3. \A b \in Boxes : \A k \in DOMAIN box[b] : box[b][k].box = b
  BY DEF IInv, Stored
<1> QED
  BY <1>1, <1>2, <1>3 DEF TypeOK

\* A client is blocked exactly while something of its call is under way, and
\* every message lies in the queue it was addressed to.
THEOREM TypeCorrect == Spec => []TypeOK
BY Invariance, IInvTypes, PTL

\* No reply of the server that carries a message is thrown away by the polls
\* of read_schedule.
THEOREM RepliesKept == Spec => []NothingDropped
<1>1. IInv => NothingDropped
  BY DEF IInv
<1> QED
  BY <1>1, Invariance, PTL

\* recv_data and read_schedule return messages of the address they ask for.
THEOREM MailIsOwn == Spec => []OwnMail
<1>1. IInv => OwnMail
  BY DEF IInv
<1> QED
  BY <1>1, Invariance, PTL

\* A send that returned false never reached the server, whatever calls came
\* after it.
THEOREM FalseIsUnsent == Spec => []FalseMeansUnsent
<1>1. IInv => FalseMeansUnsent
  BY DEF IInv, Unsent, FalseMeansUnsent
<1> QED
  BY <1>1, Invariance, PTL

\* No message is stored twice, or again after it was handed out: the client
\* never repeats a request the server may have carried out.
THEOREM AtMostOnce == Spec => []NoDuplicates
<1>1. IInv => NoDuplicates
  BY DEF IInv
<1> QED
  BY <1>1, Invariance, PTL
=============================================================================
