------------------------ MODULE AppLifecycle_proofs ------------------------
(***************************************************************************)
(* Proofs about AppLifecycle, for any monitors, components and number of   *)
(* signals: types, what is done when the process ends, and what is left    *)
(* when a restart replaces it.                                             *)
(***************************************************************************)
EXTENDS AppLifecycle, TLAPS

MainPcs == {"check", "early", "prepare", "again", "monitors", "initialized",
            "blame", "late", "serve", "serving", "served", "await", "leave",
            "stop", "join", "ended", "replaced"}
StopPcs == {"none", "claim", "server", "components", "monitors", "resources",
            "join", "complete", "done"}
Last    == Len(Monitors) + Len(Components) + 1

MainType == [pc : MainPcs, next : 1..Last]
StopType == [pc : StopPcs, next : 0..Last]

\* The lengths of both sequences, and that an index that is counted up stays a position.
LEMMA Lengths ==
  /\ Len(Monitors) \in Nat /\ DOMAIN Monitors = 1..Len(Monitors)
  /\ Len(Components) \in Nat /\ DOMAIN Components = 1..Len(Components)
  /\ \A k \in DOMAIN Monitors : Monitors[k] \in MonitorSet /\ k + 1 \in 1..Last
  /\ \A k \in DOMAIN Components : Components[k] \in ComponentSet /\ k + 1 \in 1..Last
  /\ 1 \in 1..Last /\ Len(Components) \in 0..Last
<1>1. Len(Monitors) \in Nat /\ DOMAIN Monitors = 1..Len(Monitors)
  BY ConstantsAssumption
<1>2. Len(Components) \in Nat /\ DOMAIN Components = 1..Len(Components)
  BY ConstantsAssumption
<1> QED  BY <1>1, <1>2 DEF Last, MonitorSet, ComponentSet

-----------------------------------------------------------------------------
(* How the claims, the thread that stops and the main thread move.         *)

Idle == {"none", "claim"}

\* The thread t carries out a stop it has claimed.
Working(t) == stopping[t].pc \notin Idle \cup {"done"}

\* Types, without what the flags imply.
Typed ==
  /\ main \in MainType
  /\ handler \in BOOLEAN /\ lock \in {"free", "main"}
  /\ stopping \in [Threads -> StopType]
  /\ daemon \in BOOLEAN
  /\ monitor \in [MonitorSet -> {"new", "starting", "running", "failing", "dead"}]
  /\ ready \subseteq MonitorSet /\ halted \subseteq MonitorSet
  /\ running \subseteq ComponentSet
  /\ server \in BOOLEAN /\ quit \in BOOLEAN
  /\ resources \in {"open", "closed"}
  /\ claims \subseteq Claims
  /\ signals \in 0..MaxSignals

\* The flags follow from what the threads do: no thread is beyond the claim of a stop
\* that nobody claimed, and the asynchronous thread exists for a request.
Flagged ==
  /\ "restart" \in claims => "request" \in claims
  /\ "completed" \in claims => "stop" \in claims
  /\ "stop" \notin claims => \A t \in Threads : stopping[t].pc \in Idle
  /\ stopping["async"].pc # "none" => "request" \in claims
  /\ stopping["main"].pc # "claim"

WellFormed == Typed /\ Flagged

\* The stop of thread t goes on at pc, and no other stop moves.
StopsAt(t, pc) ==
  /\ stopping' \in [Threads -> StopType]
  /\ stopping'[t].pc = pc
  /\ \A u \in Threads : u # t => stopping'[u] = stopping[u]

\* A thread that goes on in stop is at the step it goes to; no other thread moves.
LEMMA ThenStops ==
  ASSUME stopping \in [Threads -> StopType], NEW t \in Threads, NEW pc \in StopPcs, Then(t, pc)
  PROVE  StopsAt(t, pc)
BY Lengths DEF Then, StopsAt, StopType

\* A request of a shutdown is refused, or it is the first, and the asynchronous thread
\* begins.
LEMMA RequestClaims ==
  ASSUME WellFormed, NEW extra, extra \subseteq {"restart"}, NEW d \in BOOLEAN, Request(extra, d)
  PROVE  /\ daemon' \in BOOLEAN
         /\ \/ UNCHANGED <<claims, stopping>>
            \/ /\ "request" \notin claims /\ "stop" \notin claims
               /\ claims' = claims \cup {"request"} \cup extra
               /\ StopsAt("async", "claim") /\ stopping["async"].pc = "none"
<1>1. CASE MayClaim
  <2>1. "request" \notin claims /\ "stop" \notin claims
    BY <1>1 DEF MayClaim
  <2>2. claims' = claims \cup {"request"} \cup extra /\ daemon' = d
        /\ stopping' = [stopping EXCEPT !["async"].pc = "claim"]
    BY <1>1 DEF Request
  <2>3. StopsAt("async", "claim")
    BY <2>2 DEF StopsAt, WellFormed, Typed, Threads, StopType, StopPcs
  <2> QED  BY <2>1, <2>2, <2>3 DEF WellFormed, Flagged
<1>2. CASE ~MayClaim
  BY <1>2 DEF Request, WellFormed, Typed
<1> QED  BY <1>1, <1>2

\* A request to shut down, which asks for nothing else.
LEMMA ShutdownClaims ==
  ASSUME WellFormed, NEW d \in BOOLEAN, Request({}, d)
  PROVE  /\ daemon' \in BOOLEAN
         /\ stopping' \in [Threads -> StopType] /\ claims' \subseteq Claims
         /\ \/ UNCHANGED <<claims, stopping>>
            \/ /\ "request" \notin claims /\ "stop" \notin claims
               /\ claims' = claims \cup {"request"}
               /\ StopsAt("async", "claim") /\ stopping["async"].pc = "none"
<1>1. {} \subseteq {"restart"}
  OBVIOUS
<1>2. /\ daemon' \in BOOLEAN
      /\ \/ UNCHANGED <<claims, stopping>>
         \/ /\ "request" \notin claims /\ "stop" \notin claims
            /\ claims' = claims \cup {"request"} \cup {}
            /\ StopsAt("async", "claim") /\ stopping["async"].pc = "none"
  BY <1>1, RequestClaims
<1> QED  BY <1>2 DEF StopsAt, WellFormed, Typed, Claims

-----------------------------------------------------------------------------
(* The kinds of steps.                                                     *)

Ending == {"serving", "served", "await", "leave", "stop", "join", "ended", "replaced"}

\* The main thread starts, serves or waits: it claims nothing and stops nothing.
MainMoves ==
  /\ UNCHANGED <<stopping, halted, resources, claims>>
  /\ main.pc # "ended" /\ main'.pc # "stop"
  /\ main'.pc = "join" => main.pc = "join"
  /\ main'.pc = "ended" => main.pc \in {"stop", "join"}
  /\ main.pc = "stop" => main'.pc = "ended" /\ stopping["main"].pc = "done"
  /\ main'.pc = "await" => "restart" \in claims
  /\ main'.pc = "replaced" => main.pc = "await" /\ "completed" \in claims
  /\ main.pc \in Ending => main'.pc \in Ending /\ running' = running
  /\ server' => main'.pc = "serving" \/ (server /\ main.pc # "serving")

\* Nothing that the stop or the end of the process depends on.
Quiet == UNCHANGED <<main, stopping, halted, running, server, resources, claims>>

\* Main.py stops the application itself, or waits for the thread that does.
Leaves ==
  /\ main.pc = "leave"
  /\ UNCHANGED <<halted, running, server, resources>>
  /\ \/ /\ "stop" \in claims /\ main'.pc = "join" /\ UNCHANGED <<claims, stopping>>
     \/ /\ "stop" \notin claims /\ main'.pc = "stop" /\ claims' = claims \cup {"stop"}
        /\ StopsAt("main", "server")

\* A request creates the thread that stops.
Requests ==
  /\ "request" \notin claims /\ "stop" \notin claims
  /\ stopping["async"].pc = "none" /\ StopsAt("async", "claim")
  /\ UNCHANGED <<halted, running, server, resources>>
  /\ \/ UNCHANGED main
     \/ main.pc = "blame" /\ main'.pc = "leave"
  /\ \/ claims' = claims \cup {"request"}
     \/ claims' = claims \cup {"request", "restart"} /\ main.pc = "serving"

\* A request that is not granted, and the main thread leaves.
Refused ==
  /\ UNCHANGED <<stopping, halted, running, server, resources, claims>>
  /\ main.pc = "blame" /\ main'.pc = "leave"

Stops == \E t \in Threads : StopStep(t)

Kind == MainMoves \/ Quiet \/ Leaves \/ Requests \/ Refused \/ Stops

\* Going to a step keeps the record of the main thread in its type.
LEMMA MainPc ==
  ASSUME main \in MainType, NEW pc \in MainPcs, Goes(pc)
  PROVE  main' \in MainType /\ main'.pc = pc
BY Lengths DEF Goes, MainType

\* The guard MainAt says where the main thread is, and keeps the lock in its type.
LEMMA LockTyped ==
  ASSUME lock \in {"free", "main"}, NEW pc, MainAt(pc)
  PROVE  lock' \in {"free", "main"} /\ main.pc = pc
BY DEF MainAt

\* Counting up its position in a sequence keeps the record in its type.
LEMMA NextItem ==
  ASSUME main \in MainType, NEW n \in 1..Last, main' = [main EXCEPT !.next = n]
  PROVE  main' \in MainType /\ main'.pc = main.pc
BY DEF MainType

\* The steps of the main thread that neither leave nor request are of the kind MainMoves.
LEMMA MainKind ==
  ASSUME WellFormed,
         \/ StartStep /\ ~Blame
         \/ LeaveStep /\ ~Leave
         \/ StartRaises \/ ServerEnds(TRUE)
  PROVE  Typed' /\ MainMoves
<1>0. main \in MainType /\ lock \in {"free", "main"} /\ main.next \in Nat
  BY Lengths DEF WellFormed, Typed, MainType
<1>1. ASSUME NEW pc \in {"check", "again"}, CheckStop(pc)
      PROVE  Typed' /\ MainMoves
  <2>1. PICK to \in {"leave", "early", "monitors"} : Goes(to)
    BY <1>1 DEF CheckStop
  <2>2. main' \in MainType /\ main'.pc = to /\ lock' \in {"free", "main"} /\ main.pc = pc
    BY <1>0, <1>1, <2>1, MainPc, LockTyped DEF CheckStop, MainPcs
  <2> QED  BY <1>1, <2>2 DEF CheckStop, WellFormed, Typed, MainMoves, Ending
<1>2. ASSUME NEW pc \in {"early", "late"}, NEW to \in {"prepare", "serve"}, StartComponent(pc, to)
      PROVE  Typed' /\ MainMoves
  <2>1. main.pc = pc /\ lock' \in {"free", "main"}
    BY <1>0, <1>2, LockTyped DEF StartComponent
  <2>2. main' \in MainType /\ main'.pc \in {pc, to} /\ running' \subseteq ComponentSet
    <3>1. CASE main.next \in DOMAIN Components
      <4>1. main.next + 1 \in 1..Last /\ Components[main.next] \in ComponentSet
        BY <3>1, Lengths
      <4>2. main' = [main EXCEPT !.next = main.next + 1]
            /\ running' = running \cup ({Components[main.next]} \cap StartedAt(pc))
        BY <1>2, <3>1 DEF StartComponent
      <4>3. main' \in MainType /\ main'.pc = main.pc
        BY <1>0, <4>1, <4>2, NextItem
      <4> QED  BY <2>1, <4>1, <4>2, <4>3 DEF WellFormed, Typed
    <3>2. CASE main.next \notin DOMAIN Components
      BY <1>0, <1>2, <3>2, MainPc DEF StartComponent, MainPcs, WellFormed, Typed
    <3> QED  BY <3>1, <3>2
  <2> QED  BY <1>2, <2>1, <2>2 DEF StartComponent, WellFormed, Typed, MainMoves, Ending
<1>3. CASE Prepare
  <2>1. PICK to \in {"again", "late"} : Goes(to)
    BY <1>3 DEF Prepare
  <2>2. main' \in MainType /\ main'.pc = to /\ lock' \in {"free", "main"} /\ main.pc = "prepare"
    BY <1>0, <1>3, <2>1, MainPc, LockTyped DEF Prepare, MainPcs
  <2> QED  BY <1>3, <2>2 DEF Prepare, WellFormed, Typed, MainMoves, Ending
<1>4. CASE StartMonitor
  <2>1. main.pc = "monitors" /\ lock' \in {"free", "main"}
    BY <1>0, <1>4, LockTyped DEF StartMonitor
  <2>2. /\ main' \in MainType /\ main'.pc \in {"monitors", "initialized"}
        /\ monitor' \in [MonitorSet -> {"new", "starting", "running", "failing", "dead"}]
    <3>1. CASE main.next \in DOMAIN Monitors
      <4>1. main.next + 1 \in 1..Last
        BY <3>1, Lengths
      <4>2. main' = [main EXCEPT !.next = main.next + 1]
            /\ monitor' = [monitor EXCEPT ![Monitors[main.next]] = "starting"]
        BY <1>4, <3>1 DEF StartMonitor
      <4>3. main' \in MainType /\ main'.pc = main.pc
        BY <1>0, <4>1, <4>2, NextItem
      <4> QED  BY <2>1, <4>2, <4>3 DEF WellFormed, Typed
    <3>2. CASE main.next \notin DOMAIN Monitors
      BY <1>0, <1>4, <3>2, MainPc DEF StartMonitor, MainPcs, WellFormed, Typed
    <3> QED  BY <3>1, <3>2
  <2> QED  BY <1>4, <2>1, <2>2 DEF StartMonitor, WellFormed, Typed, MainMoves, Ending
<1>5. CASE AwaitMonitor
  <2>1. main.pc = "initialized" /\ lock' \in {"free", "main"}
    BY <1>0, <1>5, LockTyped DEF AwaitMonitor
  <2>2. main' \in MainType /\ main'.pc \in {"initialized", "blame", "late", "prepare"}
    <3>1. CASE main' = [main EXCEPT !.next = main.next + 1] /\ main.next \in DOMAIN Monitors
      <4>1. main.next + 1 \in 1..Last
        BY <3>1, Lengths
      <4> QED  BY <1>0, <2>1, <3>1, <4>1, NextItem
    <3>2. CASE \E to \in {"blame", "late", "prepare"} : Goes(to)
      BY <1>0, <3>2, MainPc DEF MainPcs
    <3> QED  BY <1>5, <3>1, <3>2 DEF AwaitMonitor
  <2> QED  BY <1>5, <2>1, <2>2 DEF AwaitMonitor, WellFormed, Typed, MainMoves, Ending
<1>6. CASE StartRaises
  <2>1. main' \in MainType /\ main'.pc = "leave" /\ lock' \in {"free", "main"}
        /\ main.pc \in {"early", "prepare", "late", "serve"}
    BY <1>0, <1>6, MainPc, LockTyped DEF StartRaises, MainPcs
  <2> QED  BY <1>6, <2>1 DEF StartRaises, WellFormed, Typed, MainMoves, Ending
<1>7. CASE Serve
  <2>1. main' \in MainType /\ main'.pc = "serving" /\ lock' \in {"free", "main"} /\ main.pc = "serve"
    BY <1>0, <1>7, MainPc, LockTyped DEF Serve, MainPcs
  <2> QED  BY <1>7, <2>1 DEF Serve, WellFormed, Typed, MainMoves, Ending
<1>8. ASSUME NEW error \in BOOLEAN, ServerEnds(error)
      PROVE  Typed' /\ MainMoves
  <2>1. main' \in MainType /\ main'.pc = "served" /\ lock' \in {"free", "main"} /\ main.pc = "serving"
    BY <1>0, <1>8, MainPc, LockTyped DEF ServerEnds, MainPcs
  <2> QED  BY <1>8, <2>1 DEF ServerEnds, WellFormed, Typed, MainMoves, Ending
<1>9. CASE Served
  <2>1. PICK to \in {"await", "leave"} : Goes(to) /\ (to = "await" => "restart" \in claims)
    BY <1>9 DEF Served, AfterServing
  <2>2. main' \in MainType /\ main'.pc = to /\ lock' \in {"free", "main"} /\ main.pc = "served"
    BY <1>0, <1>9, <2>1, MainPc, LockTyped DEF Served, MainPcs
  <2> QED  BY <1>9, <2>1, <2>2 DEF Served, WellFormed, Typed, MainMoves, Ending
<1>10. CASE Waits("await", "replaced", "leave")
  <2>1. PICK to \in {"replaced", "leave"} : Goes(to) /\ (to = "replaced" => "completed" \in claims)
    BY <1>10 DEF Waits
  <2>2. main' \in MainType /\ main'.pc = to /\ lock' \in {"free", "main"} /\ main.pc = "await"
    BY <1>0, <1>10, <2>1, MainPc, LockTyped DEF Waits, MainPcs
  <2> QED  BY <1>10, <2>1, <2>2 DEF Waits, WellFormed, Typed, MainMoves, Ending
<1>11. CASE Waits("join", "ended", "ended")
  <2>1. main' \in MainType /\ main'.pc = "ended" /\ lock' \in {"free", "main"} /\ main.pc = "join"
    BY <1>0, <1>11, MainPc, LockTyped DEF Waits, MainPcs
  <2> QED  BY <1>11, <2>1 DEF Waits, WellFormed, Typed, MainMoves, Ending
<1>12. CASE Stopped
  <2>1. main' \in MainType /\ main'.pc = "ended" /\ lock' \in {"free", "main"} /\ main.pc = "stop"
    BY <1>0, <1>12, MainPc, LockTyped DEF Stopped, MainPcs
  <2> QED  BY <1>12, <2>1 DEF Stopped, WellFormed, Typed, MainMoves, Ending
<1> QED
  BY <1>1, <1>2, <1>3, <1>4, <1>5, <1>6, <1>7, <1>8, <1>9, <1>10, <1>11, <1>12
  DEF StartStep, LeaveStep

\* When main leaves, it stops the application itself or waits for the thread that does.
LEMMA LeaveKind ==
  ASSUME WellFormed, Leave
  PROVE  Typed' /\ Leaves
<1>0. main.pc = "leave" /\ lock' \in {"free", "main"}
  BY LockTyped DEF Leave, WellFormed, Typed
<1>1. CASE "stop" \in claims
  <2>1. main' \in MainType /\ main'.pc = "join" /\ UNCHANGED <<claims, stopping>>
    BY <1>1, MainPc DEF Leave, MainPcs, WellFormed, Typed
  <2> QED  BY <1>0, <1>1, <2>1 DEF Leave, Leaves, WellFormed, Typed
<1>2. CASE "stop" \notin claims
  <2>1. main' \in MainType /\ main'.pc = "stop" /\ claims' = claims \cup {"stop"}
    BY <1>2, MainPc DEF Leave, MainPcs, WellFormed, Typed, ClaimingStop
  <2>2. StopsAt("main", "server")
    BY <1>2 DEF Leave, StopsAt, WellFormed, Typed, Threads, StopType, StopPcs
  <2> QED  BY <1>0, <1>2, <2>1, <2>2 DEF Leave, Leaves, WellFormed, Typed, Claims, StopsAt
<1> QED  BY <1>1, <1>2

\* Whoever may request a shutdown does, is refused, or does nothing.
LEMMA RequestKind ==
  ASSUME WellFormed,
         \/ Blame \/ Handles
         \/ \E extra \in {{}, {"restart"}} : RestRequests(extra)
         \/ \E m \in MonitorSet : Notifies(m)
  PROVE  Typed' /\ (Quiet \/ Requests \/ Refused)
<1>1. CASE Blame
  <2>1. main' \in MainType /\ main'.pc = "leave" /\ lock' \in {"free", "main"} /\ main.pc = "blame"
    BY <1>1, MainPc, LockTyped DEF Blame, MainPcs, WellFormed, Typed
  <2>2. Request({}, TRUE)
    BY <1>1 DEF Blame
  <2> QED  BY <1>1, <2>1, <2>2, ShutdownClaims DEF Blame, WellFormed, Typed, Requests, Refused
<1>2. CASE Handles
  BY <1>2, ShutdownClaims DEF Handles, WellFormed, Typed, Requests, Quiet
<1>3. ASSUME NEW extra \in {{}, {"restart"}}, RestRequests(extra)
      PROVE  Typed' /\ (Quiet \/ Requests)
  <2>1. lock' \in {"free", "main"} /\ main.pc = "serving"
    BY <1>3, LockTyped DEF RestRequests, WellFormed, Typed
  <2>2. Request(extra, FALSE) /\ extra \subseteq {"restart"}
    BY <1>3 DEF RestRequests
  <2>3. CASE UNCHANGED <<claims, stopping>>
    BY <1>3, <2>1, <2>2, <2>3, RequestClaims DEF RestRequests, WellFormed, Typed, Quiet
  <2>4. CASE ~UNCHANGED <<claims, stopping>>
    <3>1. /\ "request" \notin claims /\ "stop" \notin claims /\ daemon' \in BOOLEAN
          /\ claims' = claims \cup {"request"} \cup extra
          /\ StopsAt("async", "claim") /\ stopping["async"].pc = "none"
      BY <2>2, <2>4, RequestClaims
    <3>2. claims' \in {claims \cup {"request"}, claims \cup {"request", "restart"}}
      BY <3>1
    <3> QED  BY <1>3, <2>1, <3>1, <3>2
             DEF RestRequests, WellFormed, Typed, Requests, StopsAt, Claims
  <2> QED  BY <2>3, <2>4
<1>4. ASSUME NEW m \in MonitorSet, Notifies(m)
      PROVE  Typed' /\ (Quiet \/ Requests)
  <2>1. monitor' \in [MonitorSet -> {"new", "starting", "running", "failing", "dead"}]
    BY <1>4 DEF Notifies, MonitorSteps, WellFormed, Typed
  <2>2. CASE m \in Critical
    BY <1>4, <2>1, <2>2, ShutdownClaims
    DEF Notifies, MonitorSteps, WellFormed, Typed, Requests, Quiet
  <2>3. CASE m \notin Critical
    BY <1>4, <2>1, <2>3 DEF Notifies, MonitorSteps, WellFormed, Typed, Quiet
  <2> QED  BY <2>2, <2>3
<1> QED  BY <1>1, <1>2, <1>3, <1>4

\* What the signal, the lock and the monitors do by themselves concerns no flag.
LEMMA QuietKind ==
  ASSUME WellFormed,
         \/ MainLocks \/ Signal \/ UNCHANGED vars
         \/ \E m \in MonitorSet : Initializes(m) \/ Fails(m) \/ SeesStop(m)
  PROVE  Typed' /\ Quiet
<1>1. CASE MainLocks \/ UNCHANGED vars
  BY <1>1 DEF MainLocks, WellFormed, Typed, Quiet, vars
<1>2. CASE Signal
  BY <1>2, ConstantsAssumption DEF Signal, WellFormed, Typed, Quiet
<1>3. ASSUME NEW m \in MonitorSet, Initializes(m) \/ Fails(m) \/ SeesStop(m)
      PROVE  Typed' /\ Quiet
  <2>1. /\ monitor' \in [MonitorSet -> {"new", "starting", "running", "failing", "dead"}]
        /\ ready' \subseteq MonitorSet
    BY <1>3 DEF Initializes, Fails, SeesStop, MonitorSteps, WellFormed, Typed
  <2> QED  BY <1>3, <2>1 DEF Initializes, Fails, SeesStop, MonitorSteps, WellFormed, Typed, Quiet
<1> QED  BY <1>1, <1>2, <1>3

\* The step of a stop: from where it goes on, and what it does.
Halting(t) ==
  /\ UNCHANGED <<main, server>>
  /\ \/ /\ t = "async" /\ stopping[t].pc = "claim" /\ UNCHANGED <<halted, running, resources>>
        /\ IF "stop" \in claims
           THEN StopsAt(t, "done") /\ UNCHANGED claims
           ELSE StopsAt(t, "server") /\ claims' = claims \cup {"stop"}
     \/ /\ stopping[t].pc = "server" /\ StopsAt(t, "components")
        /\ stopping'[t].next = Len(Components)
        /\ UNCHANGED <<halted, running, resources, claims>>
     \/ /\ stopping[t].pc = "components" /\ stopping[t].next >= 1
        /\ StopsAt(t, "components") /\ stopping'[t].next = stopping[t].next - 1
        /\ running' = running \ {Components[stopping[t].next]}
        /\ UNCHANGED <<halted, resources, claims>>
     \/ /\ stopping[t].pc = "components" /\ ~(stopping[t].next >= 1)
        /\ StopsAt(t, "monitors") /\ UNCHANGED <<halted, running, resources, claims>>
     \/ /\ stopping[t].pc = "monitors" /\ StopsAt(t, "resources")
        /\ halted' = MonitorSet /\ UNCHANGED <<running, resources, claims>>
     \/ /\ stopping[t].pc = "resources" /\ StopsAt(t, "join")
        /\ resources' = "closed" /\ UNCHANGED <<halted, running, claims>>
     \/ /\ stopping[t].pc = "join" /\ (StopsAt(t, "join") \/ StopsAt(t, "complete"))
        /\ UNCHANGED <<halted, running, resources, claims>>
     \/ /\ stopping[t].pc = "complete" /\ StopsAt(t, "done")
        /\ claims' = claims \cup {"completed"} /\ UNCHANGED <<halted, running, resources>>

\* A step of stop is of the kind Halting.
LEMMA StopKind ==
  ASSUME WellFormed, NEW t \in Threads, StopStep(t)
  PROVE  Typed' /\ Halting(t)
<1>0. stopping \in [Threads -> StopType] /\ stopping[t].next \in Nat
  BY DEF WellFormed, Typed, StopType
<1>1. CASE t = "async" /\ ClaimStop
  <2>1. stopping[t].pc = "claim" /\ UNCHANGED <<main, server, halted, running, resources>>
    BY <1>1 DEF ClaimStop, StopAt
  <2>2. IF "stop" \in claims
        THEN StopsAt(t, "done") /\ UNCHANGED claims
        ELSE StopsAt(t, "server") /\ claims' = claims \cup {"stop"}
    BY <1>0, <1>1, ThenStops DEF ClaimStop, ClaimingStop, StopPcs
  <2>3. stopping' \in [Threads -> StopType] /\ claims' \subseteq Claims
    BY <2>2 DEF StopsAt, Claims, WellFormed, Typed
  <2>4. Halting(t)
    BY <1>1, <2>1, <2>2 DEF Halting
  <2> QED  BY <1>1, <2>3, <2>4 DEF ClaimStop, WellFormed, Typed
<1>2. CASE StopServer(t)
  <2>1. stopping' = [stopping EXCEPT ![t] = [pc |-> "components", next |-> Len(Components)]]
    BY <1>2 DEF StopServer
  <2>2. StopsAt(t, "components") /\ stopping'[t].next = Len(Components)
    BY <1>0, <2>1, Lengths DEF StopsAt, StopType, StopPcs
  <2> QED  BY <1>2, <2>2 DEF StopServer, StopAt, Halting, QuitsServer, WellFormed, Typed, StopsAt
<1>3. CASE StopComponent(t)
  <2>1. CASE stopping[t].next >= 1
    <3>1. /\ stopping' = [stopping EXCEPT ![t].next = stopping[t].next - 1]
          /\ running' = running \ {Components[stopping[t].next]}
          /\ stopping[t].pc = "components"
      BY <1>3, <2>1 DEF StopComponent, StopAt
    <3>2. StopsAt(t, "components") /\ stopping'[t].next = stopping[t].next - 1
      <4>1. stopping[t].next - 1 \in 0..Last
        BY <1>0, <2>1, Lengths DEF StopType, Last
      <4> QED  BY <1>0, <3>1, <4>1 DEF StopsAt, StopType
    <3>3. Halting(t)
      BY <1>3, <2>1, <3>1, <3>2 DEF StopComponent, Halting
    <3> QED  BY <1>3, <3>1, <3>2, <3>3 DEF StopComponent, WellFormed, Typed, StopsAt
  <2>2. CASE ~(stopping[t].next >= 1)
    <3>1. StopsAt(t, "monitors") /\ UNCHANGED running /\ stopping[t].pc = "components"
      BY <1>0, <1>3, <2>2, ThenStops DEF StopComponent, StopAt, StopPcs
    <3> QED  BY <1>3, <2>2, <3>1 DEF StopComponent, Halting, WellFormed, Typed, StopsAt
  <2> QED  BY <2>1, <2>2
<1>4. CASE StopMonitors(t)
  <2>1. StopsAt(t, "resources")
    BY <1>0, <1>4, ThenStops DEF StopMonitors, StopPcs
  <2> QED  BY <1>4, <2>1 DEF StopMonitors, StopAt, Told, Halting, WellFormed, Typed, StopsAt
<1>5. CASE CloseResources(t)
  <2>1. StopsAt(t, "join")
    BY <1>0, <1>5, ThenStops DEF CloseResources, StopPcs
  <2> QED  BY <1>5, <2>1 DEF CloseResources, StopAt, Halting, WellFormed, Typed, StopsAt
<1>6. CASE JoinMonitor(t)
  <2>0. stopping[t].pc = "join"
    BY <1>6 DEF JoinMonitor, StopAt
  <2>1. CASE stopping[t].next \in DOMAIN Monitors /\ monitor[Monitors[stopping[t].next]] # "new"
    <3>1. stopping' = [stopping EXCEPT ![t].next = stopping[t].next + 1]
      BY <1>6, <2>1 DEF JoinMonitor
    <3>2. stopping[t].next + 1 \in 0..Last
      BY <1>0, <2>1, Lengths DEF Last
    <3>3. StopsAt(t, "join")
      BY <1>0, <2>0, <3>1, <3>2 DEF StopsAt, StopType
    <3> QED  BY <1>6, <2>0, <3>3 DEF JoinMonitor, Halting, WellFormed, Typed, StopsAt
  <2>2. CASE ~(stopping[t].next \in DOMAIN Monitors /\ monitor[Monitors[stopping[t].next]] # "new")
    <3>1. StopsAt(t, "complete")
      BY <1>0, <1>6, <2>2, ThenStops DEF JoinMonitor, StopPcs
    <3> QED  BY <1>6, <2>0, <3>1 DEF JoinMonitor, Halting, WellFormed, Typed, StopsAt
  <2> QED  BY <2>1, <2>2
<1>7. CASE CompleteStop(t)
  <2>1. StopsAt(t, "done")
    BY <1>0, <1>7, ThenStops DEF CompleteStop, StopPcs
  <2> QED  BY <1>7, <2>1 DEF CompleteStop, StopAt, Halting, WellFormed, Typed, StopsAt, Claims
<1> QED  BY <1>1, <1>2, <1>3, <1>4, <1>5, <1>6, <1>7 DEF StopStep

\* Every step is of one of the kinds.
LEMMA StepKind ==
  ASSUME WellFormed, [Next]_vars
  PROVE  Typed' /\ Kind
BY MainKind, LeaveKind, RequestKind, QuietKind, StopKind
DEF Next, MainStep, StartStep, LeaveStep, MonitorStep, Kind, Stops

-----------------------------------------------------------------------------
(* Types.                                                                  *)

\* WellFormed holds before anything is started.
LEMMA WellFormedInit == Init => WellFormed
<1> SUFFICES ASSUME Init  PROVE WellFormed
  OBVIOUS
<1>1. main \in MainType
  BY Lengths DEF Init, MainType, MainPcs
<1>2. stopping \in [Threads -> StopType] /\ \A t \in Threads : stopping[t].pc = "none"
  BY Lengths DEF Init, StopType, StopPcs, Last
<1>3. Typed
  <2>1. monitor \in [MonitorSet -> {"new", "starting", "running", "failing", "dead"}]
    BY DEF Init
  <2>2. signals \in 0..MaxSignals
    BY ConstantsAssumption DEF Init
  <2> QED  BY <1>1, <1>2, <2>1, <2>2 DEF Init, Typed
<1>4. Flagged
  BY <1>2 DEF Init, Flagged, Idle, Threads
<1> QED  BY <1>3, <1>4 DEF WellFormed

\* Every step keeps Flagged, by its kind.
LEMMA FlaggedNext ==
  ASSUME WellFormed, [Next]_vars
  PROVE  Flagged'
<1>1. CASE MainMoves \/ Quiet \/ Refused
  BY <1>1 DEF MainMoves, Quiet, Refused, WellFormed, Flagged
<1>2. CASE Leaves
  BY <1>2 DEF Leaves, StopsAt, WellFormed, Flagged, Threads
<1>3. CASE Requests
  BY <1>3 DEF Requests, StopsAt, WellFormed, Flagged, Threads, Idle
<1>4. ASSUME NEW t \in Threads, Halting(t)
      PROVE  Flagged'
  BY <1>4 DEF Halting, StopsAt, WellFormed, Flagged, Threads, Idle
<1> QED  BY <1>1, <1>2, <1>3, <1>4, StepKind, StopKind DEF Kind, Stops

\* Hence every step keeps WellFormed.
LEMMA WellFormedNext == WellFormed /\ [Next]_vars => WellFormed'
BY StepKind, FlaggedNext DEF WellFormed

\* The main thread, the stop and the monitors keep their types, and no flag is set
\* without the one it follows from, for any monitors, components and signals.
THEOREM LifecycleTypes == Spec => []TypeOK
<1>1. WellFormed => TypeOK
  BY DEF WellFormed, Typed, Flagged, TypeOK, MainType, MainPcs, StopType, StopPcs, Last
<1> QED  BY WellFormedInit, WellFormedNext, <1>1, PTL DEF Spec

-----------------------------------------------------------------------------
(* The end of the process.                                                 *)

\* A claimed stop is completed or some thread carries it out, at a step that says what
\* of it is done; a main thread that stops the application does not end before.
Ended ==
  /\ main.pc \in {"stop", "join", "ended"} => "stop" \in claims
  /\ main.pc = "replaced" => "completed" \in claims
  /\ stopping["main"].pc # "none" => main.pc \in {"stop", "ended"}
  /\ main.pc = "ended" => stopping["main"].pc \in {"none", "done"}
  /\ "stop" \in claims => "completed" \in claims \/ \E t \in Threads : Working(t)
  /\ "completed" \in claims => resources = "closed" /\ halted = MonitorSet
  /\ \A t \in Threads :
       /\ stopping[t].pc \in {"resources", "join", "complete"} => halted = MonitorSet
       /\ stopping[t].pc \in {"join", "complete"} => resources = "closed"

\* A step of stop does what Ended says is done from then on.
LEMMA EndedHalting ==
  ASSUME WellFormed, Ended, NEW t \in Threads, Halting(t)
  PROVE  Ended'
<1>1. /\ stopping["main"]'.pc # "none" => main'.pc \in {"stop", "ended"}
      /\ main'.pc = "ended" => stopping["main"]'.pc \in {"none", "done"}
  BY DEF Halting, StopsAt, Ended, WellFormed, Flagged, Threads
<1>2. "stop" \in claims' => "completed" \in claims' \/ \E u \in Threads : Working(u)'
  BY DEF Halting, StopsAt, Ended, WellFormed, Flagged, Threads, Working, Idle
<1>3. "completed" \in claims' => resources' = "closed" /\ halted' = MonitorSet
  BY DEF Halting, Ended
<1>4. ASSUME NEW u \in Threads
      PROVE  /\ stopping[u]'.pc \in {"resources", "join", "complete"} => halted' = MonitorSet
             /\ stopping[u]'.pc \in {"join", "complete"} => resources' = "closed"
  BY DEF Halting, StopsAt, Ended
<1>5. /\ main'.pc \in {"stop", "join", "ended"} => "stop" \in claims'
      /\ main'.pc = "replaced" => "completed" \in claims'
  BY DEF Halting, Ended
<1> QED  BY <1>1, <1>2, <1>3, <1>4, <1>5 DEF Ended

\* Every step keeps Ended, by its kind.
LEMMA EndedNext == WellFormed /\ Ended /\ [Next]_vars => Ended'
<1> SUFFICES ASSUME WellFormed, Ended, [Next]_vars  PROVE Ended'
  OBVIOUS
<1>1. CASE MainMoves
  BY <1>1 DEF MainMoves, Ended, Working
<1>2. CASE Quiet \/ Refused
  BY <1>2 DEF Quiet, Refused, Ended, Working
<1>3. CASE Leaves
  BY <1>3 DEF Leaves, StopsAt, Ended, WellFormed, Flagged, Working, Idle, Threads
<1>4. CASE Requests
  BY <1>4 DEF Requests, StopsAt, Ended, WellFormed, Flagged, Working, Threads
<1>5. CASE Stops
  BY <1>5, StopKind, EndedHalting DEF Stops
<1> QED  BY <1>1, <1>2, <1>3, <1>4, <1>5, StepKind DEF Kind

\* However the process ends, the whole of RoverApplication.stop was done before, unless
\* the daemon thread of a critical failure is cut off.
THEOREM EndIsStopped == Spec => []EndsStopped
<1>1. Init => Ended
  BY DEF Init, Ended, Threads
<1>2. WellFormed /\ Ended => EndsStopped
  <2> SUFFICES ASSUME WellFormed, Ended, Over, ~daemon
               PROVE  "completed" \in claims
    BY DEF EndsStopped, Ended
  <2>1. CASE main.pc = "replaced"
    BY <2>1 DEF Ended
  <2>2. CASE main.pc = "ended" /\ stopping["async"].pc \in {"none", "done"}
    BY <2>2 DEF Ended, Working, Idle, Threads
  <2> QED  BY <2>1, <2>2 DEF Over
<1> QED  BY <1>1, <1>2, WellFormedInit, WellFormedNext, EndedNext, PTL DEF Spec

-----------------------------------------------------------------------------
(* The restart.                                                            *)

\* A restart is claimed when everything was started and nothing is being stopped: what
\* runs from then on is what the stop has not come to.
Restarting ==
  /\ server => main.pc = "serving"
  /\ main.pc \in {"await", "replaced"} => "restart" \in claims
  /\ "restart" \in claims =>
       /\ main.pc \in Ending
       /\ "completed" \in claims => running = {}
       /\ \A t \in Threads :
            /\ stopping[t].pc = "components" =>
                 running \subseteq {Components[j] : j \in 1..stopping[t].next}
            /\ stopping[t].pc \in {"monitors", "resources", "join", "complete"} => running = {}

\* A step of stop leaves nothing running behind that Restarting says is stopped.
LEMMA RestartingHalting ==
  ASSUME WellFormed, Restarting, NEW t \in Threads, Halting(t)
  PROVE  Restarting'
<1>0. running' \subseteq running /\ main' = main /\ server' = server
      /\ claims' \subseteq claims \cup {"stop", "completed"}
  BY DEF Halting
<1>1. "completed" \in claims' => "completed" \in claims \/ stopping[t].pc = "complete"
  BY DEF Halting
<1>2. ASSUME "restart" \in claims, NEW u \in Threads
      PROVE  /\ stopping'[u].pc = "components" =>
                  running' \subseteq {Components[j] : j \in 1..stopping'[u].next}
             /\ stopping'[u].pc \in {"monitors", "resources", "join", "complete"} => running' = {}
  <2>1. CASE u # t
    <3>1. stopping'[u] = stopping[u]
      BY <2>1 DEF Halting, StopsAt
    <3> QED  BY <1>0, <1>2, <3>1 DEF Restarting
  <2>2. CASE u = t /\ stopping[t].pc = "server"
    <3>1. stopping'[t].pc = "components" /\ stopping'[t].next = Len(Components) /\ running' = running
      BY <2>2 DEF Halting, StopsAt
    <3>2. ComponentSet = {Components[j] : j \in 1..Len(Components)}
      BY Lengths DEF ComponentSet
    <3> QED  BY <2>2, <3>1, <3>2 DEF WellFormed, Typed
  <2>3. CASE u = t /\ stopping[t].pc = "components" /\ stopping[t].next >= 1
    <3>1. /\ stopping'[t].pc = "components" /\ stopping'[t].next = stopping[t].next - 1
          /\ running' = running \ {Components[stopping[t].next]}
      BY <2>3 DEF Halting, StopsAt
    <3>2. stopping[t].next \in Nat
      BY DEF WellFormed, Typed, StopType
    <3>3. running \subseteq {Components[j] : j \in 1..stopping[t].next}
      BY <1>2, <2>3 DEF Restarting
    <3>4. \A j \in 1..stopping[t].next : j # stopping[t].next => j \in 1..(stopping[t].next - 1)
      BY <3>2
    <3> QED  BY <2>3, <3>1, <3>3, <3>4
  <2>4. CASE u = t /\ stopping[t].pc = "components" /\ ~(stopping[t].next >= 1)
    <3>1. stopping[t].next \in Nat
      BY DEF WellFormed, Typed, StopType
    <3>2. 1..stopping[t].next = {}
      BY <2>4, <3>1
    <3>3. running = {}
      BY <1>2, <2>4, <3>2 DEF Restarting
    <3>4. stopping'[t].pc = "monitors"
      BY <2>4 DEF Halting, StopsAt
    <3> QED  BY <1>0, <2>4, <3>3, <3>4
  <2>5. CASE u = t /\ stopping[t].pc \in {"monitors", "resources", "join", "complete"}
    <3>1. stopping'[t].pc # "components"
      BY <2>5 DEF Halting, StopsAt
    <3> QED  BY <1>0, <1>2, <2>5, <3>1 DEF Restarting
  <2>6. CASE u = t /\ stopping[t].pc = "claim"
    BY <2>6 DEF Halting, StopsAt
  <2> QED  BY <2>1, <2>2, <2>3, <2>4, <2>5, <2>6 DEF Halting
<1>3. "restart" \in claims' => "restart" \in claims
  BY <1>0
<1>4. "restart" \in claims /\ "completed" \in claims' => running' = {}
  BY <1>0, <1>1 DEF Restarting
<1>5. /\ server' => main'.pc = "serving"
      /\ main'.pc \in {"await", "replaced"} => "restart" \in claims'
      /\ "restart" \in claims => main'.pc \in Ending
  <2>1. claims \subseteq claims'
    BY DEF Halting
  <2> QED  BY <1>0, <2>1 DEF Restarting
<1> QED  BY <1>2, <1>3, <1>4, <1>5 DEF Restarting

\* Every step keeps Restarting, by its kind.
LEMMA RestartingNext == WellFormed /\ Ended /\ Restarting /\ [Next]_vars => Restarting'
<1> SUFFICES ASSUME WellFormed, Ended, Restarting, [Next]_vars  PROVE Restarting'
  OBVIOUS
<1>1. CASE MainMoves
  BY <1>1 DEF MainMoves, Restarting, Ending
<1>2. CASE Quiet \/ Refused
  BY <1>2 DEF Quiet, Refused, Restarting, Ending
<1>3. CASE Leaves
  BY <1>3 DEF Leaves, StopsAt, Restarting, Ending, Threads
<1>4. CASE Requests
  <2>1. \A t \in Threads : stopping'[t].pc \in Idle
    BY <1>4 DEF Requests, StopsAt, WellFormed, Flagged, Threads, Idle
  <2>2. "completed" \notin claims'
    BY <1>4 DEF Requests, WellFormed, Flagged
  <2>3. "restart" \notin claims
    BY <1>4 DEF Requests, WellFormed, Flagged
  <2>4. main'.pc \in {"await", "replaced"} => main'.pc = main.pc
    BY <1>4 DEF Requests
  <2>5. server' => main'.pc = "serving"
    BY <1>4 DEF Requests, Restarting
  <2>6. "restart" \in claims' => main'.pc \in Ending
    BY <1>4, <2>3 DEF Requests, Ending
  <2> QED  BY <2>1, <2>2, <2>3, <2>4, <2>5, <2>6 DEF Restarting, Idle
<1>5. CASE Stops
  BY <1>5, StopKind, RestartingHalting DEF Stops
<1> QED  BY <1>1, <1>2, <1>3, <1>4, <1>5, StepKind DEF Kind

\* The process is replaced only when every component it had is stopped, its server and
\* resources are closed and its monitors are told, for any components in any order.
THEOREM ReplacedIsClean == Spec => []RestartIsClean
<1>1. Init => Ended
  BY DEF Init, Ended, Threads
<1>2. Init => Restarting
  BY DEF Init, Restarting, Threads
<1>3. Ended /\ Restarting => RestartIsClean
  BY DEF Ended, Restarting, RestartIsClean
<1> QED  BY <1>1, <1>2, <1>3, WellFormedInit, WellFormedNext, EndedNext, RestartingNext, PTL
         DEF Spec
=============================================================================
