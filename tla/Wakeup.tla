------------------------------- MODULE Wakeup -------------------------------
(***************************************************************************)
(* How a change of shared state becomes a readiness hint.                  *)
(*                                                                         *)
(* Writer threads change the shared state, mark the change in the signal   *)
(* coalescer (nwipc-signal-coalescing) and, when elected, post the Darwin  *)
(* notification (nwipc-signal-darwin).  One driver thread waits on the     *)
(* hybrid signal (nwipc-signal-hybrid), re-arms the coalescer and passes   *)
(* the hint on (the readiness bridge of nwipc-peer-tokio); what it passes  *)
(* it to is the operator Hint of the module that extends this one.         *)
(*                                                                         *)
(* "ready" counts the units of progress the shared state offers: events to *)
(* receive, or records that fit.  "gone" says the remote side has ended,   *)
(* after which every operation terminates at once.                         *)
(***************************************************************************)
EXTENDS Naturals, FiniteSets

CONSTANTS
    Writers,        \* threads that change the shared state
    MaxChanges      \* bound: changes of the shared state in one behaviour

ASSUME WritersAssumption == IsFiniteSet(Writers) /\ Writers # {}
ASSUME MaxChangesAssumption == MaxChanges \in Nat \ {0}

VARIABLES
    ready,          \* units of progress the shared state offers
    gone,           \* the remote side has ended
    changes,        \* changes made so far (counts against MaxChanges)
    writer,         \* where each writer is: idle, changed, elected
    pending,        \* SignalCoalescer.pending
    posted,         \* the notification name changed since the last check
    driver,         \* where the driver is: attach, wait, woken, rearmed
    polling,        \* whether the hybrid signal's correctness poll runs
    missed          \* history: a post failed or was discarded on attach

wakeupVars == <<ready, gone, changes, writer, pending, posted, driver, polling, missed>>

WakeupTypeOK ==
    /\ ready \in 0..MaxChanges
    /\ changes \in 0..MaxChanges
    /\ gone \in BOOLEAN /\ pending \in BOOLEAN /\ posted \in BOOLEAN
    /\ polling \in BOOLEAN /\ missed \in BOOLEAN
    /\ writer \in [Writers -> {"idle", "changed", "elected"}]
    /\ driver \in {"attach", "wait", "woken", "rearmed"}

\* Without the correctness poll the listener is attached before any change,
\* so that only the hints themselves are in question.
WakeupInit ==
    /\ ready = 0 /\ gone = FALSE /\ changes = 0
    /\ writer = [w \in Writers |-> "idle"]
    /\ pending = FALSE /\ posted = FALSE /\ missed = FALSE
    /\ polling \in BOOLEAN
    /\ driver = IF polling THEN "attach" ELSE "wait"

(***************************************************************************)
(* Writers                                                                 *)
(***************************************************************************)

\* The shared state changes: one more unit, or the remote side's end.
Change(w) ==
    /\ writer[w] = "idle" /\ changes < MaxChanges /\ ~gone
    /\ \/ ready' = ready + 1 /\ UNCHANGED gone
       \/ gone' = TRUE /\ UNCHANGED ready
    /\ changes' = changes + 1
    /\ writer' = [writer EXCEPT ![w] = "changed"]
    /\ UNCHANGED <<pending, posted, driver, polling, missed>>

\* mark_changed: the swap elects the writer that found the edge armed.
MarkChanged(w) ==
    /\ writer[w] = "changed"
    /\ writer' = [writer EXCEPT ![w] = IF pending THEN "idle" ELSE "elected"]
    /\ pending' = TRUE
    /\ UNCHANGED <<ready, gone, changes, posted, driver, polling, missed>>

\* DarwinSender::notify; the native post may fail, and then nothing is posted
\* and nobody clears the coalescer.
Post(w) ==
    /\ writer[w] = "elected"
    /\ writer' = [writer EXCEPT ![w] = "idle"]
    /\ \/ posted' = TRUE /\ UNCHANGED missed
       \/ polling /\ missed' = TRUE /\ UNCHANGED posted
    /\ UNCHANGED <<ready, gone, changes, pending, driver, polling>>

(***************************************************************************)
(* The driver                                                              *)
(***************************************************************************)

\* DarwinSignal::listener: registering makes the first check report a change,
\* which is consumed, together with every post made before it.
Attach ==
    /\ driver = "attach"
    /\ driver' = "wait"
    /\ missed' = (missed \/ posted)
    /\ posted' = FALSE
    /\ UNCHANGED <<ready, gone, changes, writer, pending, polling>>

\* HybridSignal::wait_timeout: the primary listener's check reports a change
\* and consumes it, or the poll interval ends without one.
WaitPrimary ==
    /\ driver = "wait" /\ posted
    /\ driver' = "woken" /\ posted' = FALSE
    /\ UNCHANGED <<ready, gone, changes, writer, pending, polling, missed>>

\* A plausible slip: the interval's end is taken for nothing to do.
WaitPollIdle ==
    /\ driver = "wait" /\ ~posted /\ polling
    /\ UNCHANGED wakeupVars

WaitPoll ==
    /\ driver = "wait" /\ ~posted /\ polling
    /\ driver' = "woken"
    /\ UNCHANGED <<ready, gone, changes, writer, pending, posted, polling, missed>>

\* SignalCoalescer::rearm.  The inspection its contract asks for after it is
\* the retry that the hint passed on by the next step causes.
Rearm ==
    /\ driver = "woken"
    /\ pending' = FALSE /\ driver' = "rearmed"
    /\ UNCHANGED <<ready, gone, changes, writer, posted, polling, missed>>

\* A change is on its way to the driver's next hint.
InFlight ==
    \/ posted \/ driver \in {"woken", "rearmed"}
    \/ \E w \in Writers : writer[w] \in {"changed", "elected"}
=============================================================================
