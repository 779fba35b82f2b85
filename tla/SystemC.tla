------------------------------ MODULE SystemC -------------------------------
(***************************************************************************)
(* The part of the SystemC kernel the simulator runs on (external: the      *)
(* library is not in the repository; this is how src/ uses it).             *)
(*                                                                          *)
(* Every SC_METHOD of the simulator is statically sensitive to exactly one  *)
(* thing: an sc_event, or the positive edge of one Boolean signal, and no   *)
(* two methods share one.  A process is therefore named by its event, and   *)
(* an event by <<owner, name>>; the positive edge of a signal has the name  *)
(* of the signal.                                                           *)
(*                                                                          *)
(* A simulation cycle is: run the runnable methods, in an order the         *)
(* standard leaves open; apply the signal writes they requested; make       *)
(* runnable the methods of rising signals and of events notified with       *)
(* SC_ZERO_TIME; when there are none, advance time to the earliest timed    *)
(* notification.                                                            *)
(***************************************************************************)
EXTENDS Topology, FiniteSetsExt, TLC

VARIABLES
    sig,        \* current value of every signal
    nxt,        \* values written in this evaluation phase, by signal
    pending,    \* delay until the pending notification, by event (0: next delta)
    runnable,   \* methods still to run in this evaluation phase
    fault       \* undefined behaviour met so far: the program has stopped

kernel == <<sig, nxt, pending, runnable, fault>>

Wires == Queues \X {"in_vld", "in_rdy", "in_end", "out_vld", "out_rdy", "out_end"}
           \cup {<<"Fetcher", "in_trig">>, <<"ARM", "in_trig">>}
Buses == Queues \X {"in_data", "out_data"}

High(s)   == sig[s]
Nothing   == << >>                          \* no signal written

\* What a method asks of the kernel: that event e fire d ns from now (if c).
Notify(e, d)      == {<<e, d>>}
NotifyIf(c, e, d) == IF c THEN Notify(e, d) ELSE {}

\* e.notify(d, SC_NS), with d = 0 for SC_ZERO_TIME: of the notifications of
\* one event, the earliest is kept and every other one discarded.
Notified(p, notes) ==
    [e \in DOMAIN p \cup {n[1] : n \in notes} |->
        Min({n[2] : n \in {x \in notes : x[1] = e}} \cup {p[x] : x \in DOMAIN p \cap {e}})]

(***************************************************************************)
(* One SC_METHOD runs to its end: e is its event, writes the signals it     *)
(* writes (by signal) and notes the set of <<event, delay>> it notifies.    *)
(***************************************************************************)
Execute(e, writes, notes) ==
    /\ e \in runnable
    /\ runnable' = runnable \ {e}
    /\ nxt' = writes @@ nxt
    /\ pending' = Notified(pending, notes)
    /\ UNCHANGED <<sig, fault>>

\* The method meets undefined behaviour: the run is over.
Abort(e, kind) ==
    /\ e \in runnable
    /\ fault' = kind
    /\ runnable' = {} /\ nxt' = Nothing /\ pending' = Nothing
    /\ UNCHANGED sig

Rising == {s \in DOMAIN nxt \cap Wires : nxt[s] /\ ~ sig[s]}
Deltas == {e \in DOMAIN pending : pending[e] = 0}

\* Update phase and delta notification phase.
Delta ==
    /\ runnable = {}
    /\ nxt # Nothing \/ Deltas # {}
    /\ sig' = nxt @@ sig
    /\ nxt' = Nothing
    /\ runnable' = Rising \cup Deltas
    /\ pending' = [e \in DOMAIN pending \ Deltas |-> pending[e]]
    /\ UNCHANGED fault

\* The last delta cycle of an instant is over.
Settled == runnable = {} /\ nxt = Nothing /\ Deltas = {}

\* Timed notification phase: time moves to the earliest notification.
Advance ==
    /\ Settled
    /\ pending # Nothing
    /\ LET t   == Min({pending[e] : e \in DOMAIN pending})
           due == {e \in DOMAIN pending : pending[e] = t}
       IN  /\ runnable' = due
           /\ pending' = [e \in DOMAIN pending \ due |-> pending[e] - t]
    /\ UNCHANGED <<sig, nxt, fault>>

\* sc_start() returns when nothing is left to run.
Starved == runnable = {} /\ nxt = Nothing /\ pending = Nothing

KernelInit ==
    /\ sig = [s \in Wires \cup Buses |->
                 IF s \in Wires THEN FALSE ELSE IF s[1] \in InstrQueues THEN <<0, 0>> ELSE 0]
    /\ nxt = Nothing
    /\ pending = Nothing
    /\ runnable = {<<"VTA", "start">>}
    /\ fault = "none"
=============================================================================
