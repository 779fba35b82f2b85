-------------------------------- MODULE Twins -------------------------------
(***************************************************************************)
(* Two simulations of one program side by side, each under a kernel of its  *)
(* own that chooses freely in which order it runs the methods of an         *)
(* evaluation phase.  SystemC leaves that order open; a simulator that      *)
(* prints times should not depend on it.  The two meet whenever an instant  *)
(* of simulated time is over, and move to the next instant together.        *)
(***************************************************************************)
EXTENDS VTA

VARIABLES
    sig2, nxt2, pending2, runnable2, fault2, queue2, fetcher2, arm2, module2,
    pull2, push2, out_signal2, fetched2, issued2, pulled2, pushed2, triggers2

Twin == INSTANCE VTA WITH
    sig <- sig2, nxt <- nxt2, pending <- pending2,
    runnable <- runnable2, fault <- fault2, queue <- queue2,
    fetcher <- fetcher2, arm <- arm2, module <- module2,
    pull <- pull2, push <- push2, out_signal <- out_signal2,
    fetched <- fetched2, issued <- issued2, pulled <- pulled2,
    pushed <- pushed2, triggers <- triggers2

kernel2 == <<sig2, nxt2, pending2, runnable2, fault2>>
vars2   == <<kernel2, queue2, fetcher2, arm2, module2, pull2, push2, out_signal2,
             fetched2, issued2, pulled2, pushed2, triggers2>>

TwinsInit == Init /\ Twin!Init

\* One of the two runs its instant to the end, then the other.
OneInstant == ~ Settled /\ Next /\ UNCHANGED vars2
TwinInstant == Settled /\ ~ Twin!Settled /\ Twin!Next /\ UNCHANGED vars

\* Time goes on in both.
BothAdvance == Settled /\ Twin!Settled /\ Next /\ Twin!Next

BothReturned == Starved /\ Twin!Starved /\ UNCHANGED <<vars, vars2>>

TwinsNext == OneInstant \/ TwinInstant \/ BothAdvance \/ BothReturned

TwinsSpec == TwinsInit /\ [][TwinsNext]_<<vars, vars2>>

\* At the end of every instant the two are in the same state: whatever order
\* the kernel chooses, the same instructions run at the same times with the
\* same tokens.
OrderIrrelevant ==
    Settled /\ Twin!Settled =>
        <<kernel, queue, fetcher, arm, module, pull, push, out_signal>>
          = <<kernel2, queue2, fetcher2, arm2, module2, pull2, push2, out_signal2>>
=============================================================================
