------------------------------ MODULE AsyncPeer ------------------------------
(***************************************************************************)
(* One task on an asynchronous peer (nwipc-peer-async) and the hints that  *)
(* wake it: AsyncPeer::send, receive and close over a nonblocking port and *)
(* a Readiness.  Two kinds of Readiness are modelled: Tokio's Notify with  *)
(* its poll interval (nwipc-peer-tokio), and "edge", a Readiness that does *)
(* no more than the trait asks: it keeps a hint from the moment wait()     *)
(* returned its future.                                                    *)
(*                                                                         *)
(* The task waits for one direction at a time, so the model has one: the   *)
(* readable one with receive, or the writable one with send and close.     *)
(***************************************************************************)
EXTENDS Wakeup

VARIABLES
    kind,           \* the Readiness: "tokio" or "edge"
    interest,       \* the direction: "readable" or "writable"
    op,             \* the operation under way, or "none"
    pc,             \* where it is: first, register, second, await
    registered,     \* wait() has returned a future that is still held
    hint,           \* the hint that completes the future
    closed          \* close has returned

taskVars == <<kind, interest, op, pc, registered, hint, closed>>
vars == <<wakeupVars, taskVars>>

Operations(i) == IF i = "readable" THEN {"receive"} ELSE {"send", "close"}

TypeOK ==
    /\ WakeupTypeOK
    /\ kind \in {"tokio", "edge"}
    /\ interest \in {"readable", "writable"}
    /\ op \in Operations(interest) \cup {"none"}
    /\ pc \in {"idle", "first", "register", "second", "await"}
    /\ (pc = "idle") <=> (op = "none")
    /\ registered \in BOOLEAN /\ hint \in BOOLEAN /\ closed \in BOOLEAN

Init ==
    /\ WakeupInit
    /\ kind \in {"tokio", "edge"}
    /\ interest \in {"readable", "writable"}
    /\ op = "none" /\ pc = "idle"
    /\ registered = FALSE /\ hint = FALSE /\ closed = FALSE

\* What a try of the port would find: an event, room, or its end.
Progress == ready > 0 \/ gone

\* The task calls an operation.
Start(o) ==
    /\ op = "none" /\ ~closed /\ o \in Operations(interest)
    /\ op' = o /\ pc' = "first"
    /\ UNCHANGED <<wakeupVars, kind, interest, registered, hint, closed>>

\* A try that makes progress ends the operation; a future still held is
\* dropped, and Tokio's permit, if any, stays for the next one.
Finish ==
    /\ Progress
    /\ ready' = IF gone THEN ready ELSE ready - 1
    /\ op' = "none" /\ pc' = "idle"
    /\ registered' = FALSE
    /\ hint' = (hint /\ kind = "tokio")
    /\ closed' = (closed \/ gone \/ op = "close")
    /\ UNCHANGED <<gone, changes, writer, pending, posted, driver, polling, missed,
                   kind, interest>>

TryFirst ==
    /\ pc = "first"
    /\ \/ Finish
       \/ /\ ~Progress /\ pc' = "register"
          /\ UNCHANGED <<wakeupVars, kind, interest, op, registered, hint, closed>>

\* A plausible slip: every operation awaits at once, as close does.
RegisterAndAwait ==
    /\ pc = "register" /\ op # "close"
    /\ registered' = TRUE /\ pc' = "await"
    /\ UNCHANGED <<wakeupVars, kind, interest, op, hint, closed>>

\* readiness.wait(): send and receive try again before they await the future.
Register ==
    /\ pc = "register" /\ op # "close"
    /\ registered' = TRUE /\ pc' = "second"
    /\ UNCHANGED <<wakeupVars, kind, interest, op, hint, closed>>

\* close awaits it at once.
RegisterClose ==
    /\ pc = "register" /\ op = "close"
    /\ registered' = TRUE /\ pc' = "await"
    /\ UNCHANGED <<wakeupVars, kind, interest, op, hint, closed>>

TrySecond ==
    /\ pc = "second"
    /\ \/ Finish
       \/ /\ ~Progress /\ pc' = "await"
          /\ UNCHANGED <<wakeupVars, kind, interest, op, registered, hint, closed>>

\* The future completes: by its hint, or by the poll interval of Tokio's.
Await ==
    /\ pc = "await"
    /\ hint \/ kind = "tokio"
    /\ hint' = FALSE /\ registered' = FALSE /\ pc' = "first"
    /\ UNCHANGED <<wakeupVars, kind, interest, op, closed>>

\* The caller drops the operation's future while it waits.
Cancel ==
    /\ pc = "await"
    /\ op' = "none" /\ pc' = "idle" /\ registered' = FALSE
    /\ hint' = (hint /\ kind = "tokio")
    /\ UNCHANGED <<wakeupVars, kind, interest, closed>>

\* notify_readable / notify_writable: Notify stores a permit, an edge source
\* reaches only a registered future.
PassHint ==
    /\ driver = "rearmed"
    /\ driver' = "wait"
    /\ hint' = (hint \/ kind = "tokio" \/ registered)
    /\ UNCHANGED <<ready, gone, changes, writer, pending, posted, polling, missed,
                   kind, interest, op, pc, registered, closed>>

TaskStep == TryFirst \/ Register \/ RegisterClose \/ TrySecond \/ Await
DriverStep == (Attach \/ WaitPrimary \/ WaitPoll \/ Rearm) /\ UNCHANGED taskVars
WriterStep(w) == (Change(w) \/ MarkChanged(w) \/ Post(w)) /\ UNCHANGED taskVars

Next ==
    \/ \E o \in {"send", "receive", "close"} : Start(o)
    \/ TaskStep \/ Cancel
    \/ DriverStep \/ PassHint
    \/ \E w \in Writers : WriterStep(w)

\* The executor polls the task, the driver thread runs and is woken by the
\* timer of its wait, and a writer that made a change goes on to report it.
Fairness ==
    /\ WF_vars(TaskStep)
    /\ WF_vars(DriverStep \/ PassHint)
    /\ \A w \in Writers : WF_vars((MarkChanged(w) \/ Post(w)) /\ UNCHANGED taskVars)

Spec == Init /\ [][Next]_vars /\ Fairness

-----------------------------------------------------------------------------
\* A task that waits in send or receive while the port could go on has a hint,
\* or a hint for it is on its way: no wakeup is lost between the failed try and
\* the registration (nwipc-peer-async, the second try of send and receive).
NeverAsleepOnProgress ==
    (pc = "await" /\ op # "close" /\ Progress /\ ~missed) => (hint \/ InFlight)

\* A suppressed mark is covered: while the coalescer is pending, a hint that
\* leads to the next inspection is outstanding, unless a post was lost
\* (nwipc-signal-coalescing, NotifyDecision::Suppress).
PendingIsCovered ==
    (pending /\ ~missed) =>
        posted \/ driver = "woken" \/ \E w \in Writers : writer[w] = "elected"

\* Operations return once the port can go on, even after a post failed or was
\* discarded, as the correctness poll recovers: send and receive with either
\* Readiness, and close, which does not try again after it has registered,
\* with Tokio's, which keeps a permit and has an interval of its own.
OperationsReturn ==
    /\ (op = "send" /\ Progress) ~> (op # "send")
    /\ (op = "receive" /\ Progress) ~> (op # "receive")
    /\ (kind = "tokio" /\ op = "close" /\ Progress) ~> (op # "close")

\* close returns once its marker fits, whatever conforming Readiness it has
\* (nwipc-peer-async, the documentation of close and of Readiness).  Not so: an
\* edge that comes before the registration is lost, and close looks no more.
CloseReturns ==
    (op = "close" /\ Progress) ~> (op # "close")
=============================================================================
