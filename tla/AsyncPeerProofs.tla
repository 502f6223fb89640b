--------------------------- MODULE AsyncPeerProofs ---------------------------
(***************************************************************************)
(* No wakeup is lost on the way from a change to the task that waits for   *)
(* it, for any number of writers and of changes, unless a post was lost.   *)
(***************************************************************************)
EXTENDS AsyncPeer, TLAPS

\* A task between its registration and its await holds a future.
Held == pc \in {"second", "await"} => registered = TRUE

WriterTypes == writer \in [Writers -> {"idle", "changed", "elected"}]

Counted == ready \in Nat

AsyncInv == WriterTypes /\ Counted /\ Held /\ PendingIsCovered /\ NeverAsleepOnProgress

-----------------------------------------------------------------------------
LEMMA AsyncStart == Init => AsyncInv
  BY DEF Init, WakeupInit, AsyncInv, WriterTypes, Counted, Held, PendingIsCovered,
         NeverAsleepOnProgress, Progress

LEMMA TypesKeep ==
  ASSUME AsyncInv, Next
  PROVE  WriterTypes' /\ Counted'
<1> USE DEF AsyncInv, WriterTypes, Counted
<1>1. CASE Finish /\ UNCHANGED writer
  BY <1>1 DEF Finish, Progress
<1>2. ASSUME NEW w \in Writers, WriterStep(w) PROVE WriterTypes' /\ Counted'
  BY <1>2 DEF WriterStep, Change, MarkChanged, Post
<1>3. CASE UNCHANGED <<writer, ready>>
  BY <1>3
<1>4. QED
  BY <1>1, <1>2, <1>3
  DEF Next, Start, TaskStep, TryFirst, Register, RegisterClose, TrySecond, Await, Finish,
      Cancel, DriverStep, Attach, WaitPrimary, WaitPoll, Rearm, PassHint, wakeupVars

LEMMA HeldKeeps ==
  ASSUME AsyncInv, Next
  PROVE  Held'
  BY DEF AsyncInv, Held, Next, Start, TaskStep, TryFirst, Register, RegisterClose, TrySecond,
         Await, Finish, Cancel, DriverStep, PassHint, WriterStep, taskVars

-----------------------------------------------------------------------------
\* The task leaves the coalescer, the notification and the driver alone.
LEMMA TaskKeepsCover ==
  ASSUME AsyncInv, TaskStep \/ Cancel \/ \E o \in {"send", "receive", "close"} : Start(o)
  PROVE  UNCHANGED <<pending, missed, posted, driver, writer, gone>>
  BY DEF TaskStep, TryFirst, Register, RegisterClose, TrySecond, Await, Finish, Cancel, Start,
         wakeupVars

\* A mark that finds the edge pending is covered by the hint that is under way.
LEMMA CoverKeeps ==
  ASSUME AsyncInv, Next
  PROVE  PendingIsCovered'
<1> USE DEF AsyncInv, PendingIsCovered
<1>1. CASE UNCHANGED <<pending, missed, posted, driver, writer>>
  BY <1>1
<1>2. CASE DriverStep \/ PassHint
  BY <1>2 DEF DriverStep, Attach, WaitPrimary, WaitPoll, Rearm, PassHint
<1>3. ASSUME NEW w \in Writers, WriterStep(w) PROVE PendingIsCovered'
  <2>1. CASE Change(w)
    <3>1. UNCHANGED <<pending, missed, posted, driver>>
      BY <2>1 DEF Change
    <3>2. \A v \in Writers : writer[v] = "elected" => writer'[v] = "elected"
      BY <2>1 DEF Change, WriterTypes
    <3>3. QED
      BY <3>1, <3>2
  <2>2. CASE MarkChanged(w)
    <3>1. UNCHANGED <<missed, posted, driver>>
      BY <2>2 DEF MarkChanged
    <3>2. CASE pending
      <4>1. \A v \in Writers : writer[v] = "elected" => writer'[v] = "elected"
        BY <2>2 DEF MarkChanged, WriterTypes
      <4>2. QED
        BY <3>1, <3>2, <4>1
    <3>3. CASE ~pending
      <4>1. writer'[w] = "elected"
        BY <2>2, <3>3 DEF MarkChanged, WriterTypes
      <4>2. QED
        BY <4>1
    <3>4. QED
      BY <3>2, <3>3
  <2>3. CASE Post(w)
    BY <2>3 DEF Post
  <2>4. QED
    BY <1>3, <2>1, <2>2, <2>3 DEF WriterStep
<1>4. QED
  BY <1>1, <1>2, <1>3, TaskKeepsCover DEF Next

-----------------------------------------------------------------------------
\* The task falls asleep only after a try without progress.
LEMMA TaskKeepsAwake ==
  ASSUME AsyncInv, TaskStep \/ Cancel \/ \E o \in {"send", "receive", "close"} : Start(o)
  PROVE  NeverAsleepOnProgress'
  BY DEF AsyncInv, NeverAsleepOnProgress, Progress, TaskStep, TryFirst, Register,
         RegisterClose, TrySecond, Await, Finish, Cancel, Start, wakeupVars

\* What is on its way stays on its way until it is the task's hint.
LEMMA FlightKeeps ==
  ASSUME AsyncInv, ~missed', InFlight,
         DriverStep \/ PassHint \/ \E w \in Writers : WriterStep(w)
  PROVE  InFlight' \/ (driver = "rearmed" /\ PassHint)
<1> USE DEF AsyncInv, InFlight
<1>1. CASE DriverStep
  BY <1>1 DEF DriverStep, Attach, WaitPrimary, WaitPoll, Rearm
<1>2. CASE PassHint
  BY <1>2 DEF PassHint
<1>3. ASSUME NEW w \in Writers, WriterStep(w) PROVE InFlight'
  <2>1. CASE Change(w)
    <3>1. writer'[w] = "changed"
      BY <2>1 DEF Change, WriterTypes
    <3>2. QED
      BY <3>1
  <2>2. CASE MarkChanged(w)
    <3>1. PendingIsCovered' /\ pending' = TRUE
      BY <1>3, <2>2, CoverKeeps DEF MarkChanged, Next
    <3>2. QED
      BY <3>1 DEF PendingIsCovered
  <2>3. CASE Post(w)
    BY <2>3 DEF Post
  <2>4. QED
    BY <1>3, <2>1, <2>2, <2>3 DEF WriterStep
<1>4. QED
  BY <1>1, <1>2, <1>3

LEMMA OthersKeepAwake ==
  ASSUME AsyncInv, DriverStep \/ PassHint \/ \E w \in Writers : WriterStep(w)
  PROVE  NeverAsleepOnProgress'
<1> SUFFICES ASSUME pc' = "await", op' # "close", Progress', ~missed'
             PROVE  hint' \/ InFlight'
  BY DEF NeverAsleepOnProgress
<1>1. pc = "await" /\ op # "close" /\ registered = TRUE
  BY DEF DriverStep, PassHint, WriterStep, taskVars, AsyncInv, Held
<1>2. CASE \E w \in Writers : Change(w) /\ UNCHANGED taskVars
  <2>1. PICK w \in Writers : Change(w)
    BY <1>2
  <2>2. writer'[w] = "changed"
    BY <2>1 DEF Change, AsyncInv, WriterTypes
  <2>3. QED
    BY <2>2 DEF InFlight
<1>3. CASE ~\E w \in Writers : Change(w) /\ UNCHANGED taskVars
  <2>1. Progress /\ ~missed
    <3>1. UNCHANGED <<ready, gone>>
      BY <1>3 DEF DriverStep, Attach, WaitPrimary, WaitPoll, Rearm, PassHint, WriterStep,
                  MarkChanged, Post
    <3>2. CASE DriverStep \/ PassHint
      <4>1. ~missed
        BY <3>2, Zenon DEF DriverStep, Attach, WaitPrimary, WaitPoll, Rearm, PassHint
      <4>2. Progress
        BY <3>1 DEF Progress
      <4>3. QED
        BY <4>1, <4>2
    <3>3. ASSUME NEW w \in Writers, WriterStep(w) PROVE Progress /\ ~missed
      BY <3>1, <3>3, <1>3 DEF WriterStep, MarkChanged, Post, Progress
    <3>4. QED
      BY <3>2, <3>3
  <2>2. hint \/ InFlight
    BY <1>1, <2>1 DEF AsyncInv, NeverAsleepOnProgress
  <2>3. CASE PassHint
    BY <1>1, <2>3 DEF PassHint
  <2>4. CASE ~PassHint
    <3>1. hint' = hint
      BY <2>4 DEF DriverStep, WriterStep, taskVars
    <3>2. QED
      BY <2>2, <2>4, <3>1, FlightKeeps
  <2>5. QED
    BY <2>3, <2>4
<1>4. QED
  BY <1>2, <1>3

-----------------------------------------------------------------------------
LEMMA AsyncStep == AsyncInv /\ [Next]_vars => AsyncInv'
<1> SUFFICES ASSUME AsyncInv, [Next]_vars PROVE AsyncInv'
  OBVIOUS
<1>1. CASE UNCHANGED vars
  BY <1>1 DEF vars, wakeupVars, taskVars, AsyncInv, WriterTypes, Counted, Held,
              PendingIsCovered, NeverAsleepOnProgress, Progress, InFlight
<1>2. CASE Next
  <2>1. NeverAsleepOnProgress'
    BY <1>2, TaskKeepsAwake, OthersKeepAwake DEF Next
  <2>2. QED
    BY <1>2, <2>1, TypesKeep, HeldKeeps, CoverKeeps DEF AsyncInv
<1>3. QED
  BY <1>1, <1>2

LEMMA AsyncInvariant == Spec => []AsyncInv
  BY AsyncStart, AsyncStep, PTL DEF Spec

\* A task that waits in send or receive while the port could go on has a hint or
\* one on its way (AsyncPeer::send and receive over SignalCoalescer and the
\* hybrid signal), for any number of writers.
THEOREM AsyncNeverAsleep == Spec => []NeverAsleepOnProgress
<1>1. AsyncInv => NeverAsleepOnProgress
  BY DEF AsyncInv
<1>2. QED
  BY <1>1, AsyncInvariant, PTL

\* A mark that the coalescer suppresses is covered by a hint that leads to
\* another inspection (SignalCoalescer::mark_changed, rearm).
THEOREM AsyncPendingIsCovered == Spec => []PendingIsCovered
<1>1. AsyncInv => PendingIsCovered
  BY DEF AsyncInv
<1>2. QED
  BY <1>1, AsyncInvariant, PTL
=============================================================================
