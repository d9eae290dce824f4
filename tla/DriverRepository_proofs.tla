---------------------- MODULE DriverRepository_proofs -----------------------
(***************************************************************************)
(* Proofs about DriverRepository, for any threads, any maximum of attempts *)
(* (or none) and any number of pluggings and faults.                       *)
(***************************************************************************)
EXTENDS DriverRepository, TLAPS

USE DEF None, Unlimited, Threads

Configured ==
  /\ MaxAttempts \in Nat
  /\ MaxPluggings \in Nat \ {0}
  /\ MaxFaults \in Nat

Clients == [pc : Places, operation : Operations, holds : 0..MaxPluggings]

WellFormed == TypeOK /\ BudgetIsWhole

-----------------------------------------------------------------------------
(* What the steps of a thread do to its record.                            *)

\* Going to a step changes the step of one thread only.
LEMMA GoesTo ==
  ASSUME TypeOK, NEW t \in Threads, NEW pc \in Places, Goes(t, pc)
  PROVE  /\ client' \in [Threads -> Clients]
         /\ client'[t].pc = pc
         /\ client'[t].operation = client[t].operation
         /\ client'[t].holds = client[t].holds
<1>1. client \in [Threads -> Clients] /\ client[t] \in Clients
  BY DEF TypeOK, Clients
<1>2. client' = [client EXCEPT ![t] = [client[t] EXCEPT !.pc = pc]]
  BY <1>1 DEF Goes, Clients
<1>3. [client[t] EXCEPT !.pc = pc] \in Clients
  BY <1>1 DEF Clients
<1> QED  BY <1>1, <1>2, <1>3 DEF Clients

\* The same for a thread that takes or drops a driver on its way.
Holds(t, pc, d) == client' = [client EXCEPT ![t].pc = pc, ![t].holds = d]

LEMMA GoesHolding ==
  ASSUME TypeOK, NEW t \in Threads, NEW pc \in Places, NEW d \in 0..MaxPluggings,
         Holds(t, pc, d)
  PROVE  /\ client' \in [Threads -> Clients]
         /\ client'[t].pc = pc
         /\ client'[t].operation = client[t].operation
         /\ client'[t].holds = d
<1>1. client \in [Threads -> Clients] /\ client[t] \in Clients
  BY DEF TypeOK, Clients
<1>2. client' = [client EXCEPT ![t] = [client[t] EXCEPT !.pc = pc, !.holds = d]]
  BY <1>1 DEF Clients, Holds
<1>3. [client[t] EXCEPT !.pc = pc, !.holds = d] \in Clients
  BY <1>1 DEF Clients
<1> QED  BY <1>1, <1>2, <1>3 DEF Clients

\* A call that returns leaves the thread idle.
LEMMA ReturnsIdle ==
  ASSUME Configured, TypeOK, NEW t \in Threads, Returns(t)
  PROVE  /\ client' \in [Threads -> Clients]
         /\ client'[t] = Idle
<1>1. Idle \in Clients
  BY DEF Idle, Clients, Places, Operations, Configured
<1> QED  BY <1>1 DEF Returns, TypeOK, Clients

\* A call that raises stays within the faults there are.
LEMMA RaisesOnce ==
  ASSUME Configured, TypeOK, NEW d, Raises(d)
  PROVE  hiccups' \in 0..MaxFaults
BY DEF Raises, TypeOK, Configured

(* An attempt that succeeds leaves the driver of the present plugging and   *)
(* the whole budget, one that fails leaves no driver and an error.          *)
LEMMA ConnectDoes ==
  ASSUME Configured, TypeOK, NEW t \in Threads, NEW with \in Places, NEW without \in Places,
         Connect(t, with, without)
  PROVE  /\ client' \in [Threads -> Clients]
         /\ attempts' \in Nat /\ waiting' \in BOOLEAN /\ hiccups' \in 0..MaxFaults
         /\ \/ /\ driver' = plug.number /\ error' = FALSE /\ attempts' = 0 /\ waiting' = FALSE
               /\ client'[t].pc = with /\ client'[t].holds = plug.number
               /\ client'[t].operation = client[t].operation
            \/ /\ driver' = None /\ error' = TRUE
               /\ client'[t].pc = without
               /\ without = "idle" \/ client'[t].operation = client[t].operation
<1>1. plug.number \in 0..MaxPluggings
  BY DEF TypeOK, Configured
<1>2. CASE /\ plug.plugged /\ Connected /\ UNCHANGED hiccups
           /\ client' = [client EXCEPT ![t].pc = with, ![t].holds = plug.number]
  <2>1. attempts' \in Nat /\ waiting' \in BOOLEAN /\ hiccups' \in 0..MaxFaults
    BY <1>2 DEF Connected, TypeOK
  <2>2. /\ client' \in [Threads -> Clients]
        /\ client'[t].pc = with /\ client'[t].holds = plug.number
        /\ client'[t].operation = client[t].operation
    <3>1. Holds(t, with, plug.number)
      BY <1>2 DEF Holds
    <3> QED  BY <1>1, <3>1, GoesHolding
  <2>3. driver' = plug.number /\ error' = FALSE /\ attempts' = 0 /\ waiting' = FALSE
    BY <1>2 DEF Connected
  <2> QED  BY <2>1, <2>2, <2>3
<1>3. CASE /\ Raises(plug.number) /\ NotConnected
           /\ client' = [client EXCEPT ![t] = IF without = "idle" THEN Idle
                                              ELSE [@ EXCEPT !.pc = without]]
  <2>1. attempts' \in Nat /\ waiting' = TRUE /\ driver' = None /\ error' = TRUE
    BY <1>3 DEF NotConnected, NextAttempts, TypeOK
  <2>2. hiccups' \in 0..MaxFaults
    BY <1>3, RaisesOnce
  <2>3. CASE without = "idle"
    <3>1. Returns(t)
      BY <1>3, <2>3 DEF Returns
    <3> QED  BY <2>1, <2>2, <2>3, <3>1, ReturnsIdle DEF Idle
  <2>4. CASE without # "idle"
    <3>1. client' = [client EXCEPT ![t] = [client[t] EXCEPT !.pc = without]]
      BY <1>3, <2>4
    <3>2. Goes(t, without)
      BY <3>1 DEF Goes, TypeOK
    <3> QED  BY <2>1, <2>2, <3>2, GoesTo
  <2> QED  BY <2>3, <2>4
<1> QED  BY <1>2, <1>3 DEF Connect

-----------------------------------------------------------------------------
(* Types, and the budget of attempts                                       *)

\* WellFormed holds at first.
LEMMA InitWellFormed ==
  ASSUME Configured, Init
  PROVE  WellFormed
<1>1. Idle \in Clients /\ 1 \in 1..MaxPluggings /\ 0 \in 0..MaxPluggings /\ 0 \in 0..MaxFaults
  BY DEF Idle, Clients, Places, Operations, Configured
<1> QED  BY <1>1 DEF Init, WellFormed, TypeOK, BudgetIsWhole, Lifecycles, Clients

\* A command that begins keeps WellFormed.
LEMMA BeginWellFormed ==
  ASSUME Configured, WellFormed, NEW t \in Threads, NEW operation \in {"RUN", "STOP"},
         Begin(t, operation)
  PROVE  WellFormed'
<1> USE DEF WellFormed
<1>1. PICK pc \in {"configure", "stop", "call"} :
        client' = [client EXCEPT ![t] = [pc |-> pc, operation |-> operation, holds |-> None]]
  BY DEF Begin
<1>2. [pc |-> pc, operation |-> operation, holds |-> None] \in Clients
  BY DEF Clients, Places, Operations, Configured
<1>3. client' \in [Threads -> Clients]
  BY <1>1, <1>2 DEF TypeOK, Clients
<1> QED  BY <1>3 DEF Begin, TypeOK, BudgetIsWhole, Clients

\* So does a reader that begins.
LEMMA PeekWellFormed ==
  ASSUME Configured, WellFormed, NEW t \in Threads, NEW operation \in {"READ", "LIMIT"},
         Peek(t, operation)
  PROVE  WellFormed'
<1> USE DEF WellFormed
<1>1. PICK pc \in {"connect", "sample"} :
        client' = [client EXCEPT ![t] = [pc |-> pc, operation |-> operation, holds |-> driver]]
  BY DEF Peek
<1>2. [pc |-> pc, operation |-> operation, holds |-> driver] \in Clients
  BY DEF Clients, Places, Operations, TypeOK
<1>3. client' \in [Threads -> Clients]
  BY <1>1, <1>2 DEF TypeOK, Clients
<1> QED  BY <1>3 DEF Peek, TypeOK, BudgetIsWhole, Clients

\* So does an attempt to connect, whether it succeeds, fails or raises.
LEMMA ConnectWellFormed ==
  ASSUME Configured, WellFormed, NEW t \in Threads, NEW with \in Places, NEW without \in Places,
         Connect(t, with, without), UNCHANGED <<plug, turning, published>>
  PROVE  WellFormed'
<1> USE DEF WellFormed
<1>1. plug.number \in 0..MaxPluggings /\ 0 \in 0..MaxPluggings
  BY DEF TypeOK, Configured
<1>2. driver' \in 0..MaxPluggings /\ error' \in BOOLEAN /\ BudgetIsWhole'
  BY <1>1, ConnectDoes DEF BudgetIsWhole
<1> QED  BY <1>2, ConnectDoes DEF TypeOK, Clients

(* A step that only moves its thread on and counts a call that raised.      *)
LEMMA MoveWellFormed ==
  ASSUME Configured, WellFormed, client' \in [Threads -> Clients], hiccups' \in 0..MaxFaults,
         turning' \in BOOLEAN, error' \in BOOLEAN, published' \in Lifecycles,
         driver' = driver \/ driver' = None,
         UNCHANGED <<attempts, waiting, plug>>
  PROVE  WellFormed'
<1>1. driver' \in 0..MaxPluggings
  <2>1. driver \in 0..MaxPluggings /\ (driver' = None => driver' \in 0..MaxPluggings)
    BY DEF WellFormed, TypeOK, Configured
  <2> QED  BY <2>1
<1> QED  BY <1>1 DEF WellFormed, TypeOK, BudgetIsWhole, Clients

\* So does every step of a command.
LEMMA ExecutesWellFormed ==
  ASSUME Configured, WellFormed, NEW t \in Threads, Executes(t)
  PROVE  WellFormed'
<1> USE DEF WellFormed
<1>0. {"idle", "call", "set", "native", "settle", "drop", "report"} \subseteq Places
  BY DEF Places
<1>1. CASE StopIfConnected(t)
  <2>1. client' \in [Threads -> Clients]
    BY <1>0, <1>1, GoesTo, ReturnsIdle DEF StopIfConnected
  <2> QED  BY <1>1, <2>1, MoveWellFormed DEF StopIfConnected, TypeOK
<1>2. CASE Ensure(t)
  <2>1. PICK next \in {"set", "native"} :
          IF driver # None
          THEN /\ client' = [client EXCEPT ![t].pc = next, ![t].holds = driver]
               /\ UNCHANGED <<driver, error, attempts, waiting, hiccups>>
          ELSE Connect(t, next, "idle")
    BY <1>2 DEF Ensure
  <2>2. CASE driver # None
    <3>1. client' \in [Threads -> Clients]
      <4>1. driver \in 0..MaxPluggings /\ next \in Places
        BY DEF TypeOK, Places
      <4>2. Holds(t, next, driver)
        BY <2>1, <2>2 DEF Holds
      <4> QED  BY <1>0, <4>1, <4>2, GoesHolding
    <3> QED  BY <1>2, <2>1, <2>2, <3>1, MoveWellFormed DEF Ensure, TypeOK
  <2>3. CASE driver = None
    BY <1>0, <1>2, <2>1, <2>3, ConnectWellFormed DEF Ensure
  <2> QED  BY <2>2, <2>3
<1>3. CASE Configure(t)
  <2>1. client' \in [Threads -> Clients] /\ hiccups' \in 0..MaxFaults
    BY <1>0, <1>3, GoesTo, RaisesOnce DEF Configure, TypeOK
  <2> QED  BY <1>3, <2>1, MoveWellFormed DEF Configure, TypeOK
<1>4. CASE Native(t)
  <2>1. CASE Raises(client[t].holds) /\ Goes(t, "drop") /\ UNCHANGED turning
    <3>1. client' \in [Threads -> Clients] /\ hiccups' \in 0..MaxFaults
      BY <1>0, <2>1, GoesTo, RaisesOnce
    <3> QED  BY <1>4, <2>1, <3>1, MoveWellFormed DEF Native, TypeOK
  <2>2. CASE /\ turning' = (client[t].operation = "RUN") /\ UNCHANGED hiccups
             /\ client' = [client EXCEPT ![t].pc = "settle",
                                         ![t].operation = IF @ = "RUN" THEN "NONE" ELSE @]
    <3>1. client' \in [Threads -> Clients]
      <4>1. client[t] \in Clients
        BY DEF TypeOK, Clients
      <4>2. PICK o \in Operations :
              client' = [client EXCEPT ![t] = [client[t] EXCEPT !.pc = "settle", !.operation = o]]
        <5>1. client[t].operation \in Operations /\ "NONE" \in Operations
          BY <4>1 DEF Clients, Operations
        <5> QED  BY <2>2, <4>1, <5>1 DEF TypeOK, Clients
      <4>3. [client[t] EXCEPT !.pc = "settle", !.operation = o] \in Clients
        BY <1>0, <4>1 DEF Clients
      <4> QED  BY <4>2, <4>3 DEF TypeOK, Clients
    <3> QED  BY <1>4, <2>2, <3>1, MoveWellFormed DEF Native, TypeOK
  <2> QED  BY <1>4, <2>1, <2>2 DEF Native
<1>5. CASE Settle(t)
  <2>1. client' \in [Threads -> Clients]
    BY <1>0, <1>5, GoesTo, ReturnsIdle DEF Settle
  <2> QED  BY <1>5, <2>1, MoveWellFormed DEF Settle, TypeOK
<1>6. CASE Drop(t)
  <2>1. client' \in [Threads -> Clients]
    BY <1>0, <1>6, GoesTo DEF Drop
  <2> QED  BY <1>6, <2>1, MoveWellFormed DEF Drop, TypeOK
<1>7. CASE Report(t)
  <2>1. client' \in [Threads -> Clients]
    BY <1>7, ReturnsIdle DEF Report
  <2> QED  BY <1>7, <2>1, MoveWellFormed DEF Report, KeepError, TypeOK
<1> QED  BY <1>1, <1>2, <1>3, <1>4, <1>5, <1>6, <1>7 DEF Executes

\* So does every step of a reader.
LEMMA LooksWellFormed ==
  ASSUME Configured, WellFormed, NEW t \in Threads, Looks(t)
  PROVE  WellFormed'
<1> USE DEF WellFormed
<1>0. {"idle", "sample", "absent"} \subseteq Places
  BY DEF Places
<1>1. CASE ConnectToRead(t) /\ CanRetry
  BY <1>0, <1>1, ConnectWellFormed DEF ConnectToRead
<1>2. CASE ConnectToRead(t) /\ ~CanRetry
  <2>1. client' \in [Threads -> Clients]
    BY <1>0, <1>2, GoesTo DEF ConnectToRead
  <2> QED  BY <1>2, <2>1, MoveWellFormed DEF ConnectToRead, TypeOK
<1>3. CASE Sample(t)
  <2>1. client' \in [Threads -> Clients]
    BY <1>3, ReturnsIdle DEF Sample
  <2>2. error' \in BOOLEAN /\ published' \in Lifecycles
    BY <1>3 DEF Sample, TypeOK, Lifecycles
  <2> QED  BY <1>3, <2>1, <2>2, MoveWellFormed DEF Sample, TypeOK
<1>4. CASE Absent(t)
  <2>1. client' \in [Threads -> Clients]
    BY <1>4, ReturnsIdle DEF Absent
  <2>2. published' \in Lifecycles
    BY <1>4 DEF Absent, TypeOK, Lifecycles
  <2> QED  BY <1>4, <2>1, <2>2, MoveWellFormed DEF Absent, TypeOK
<1> QED  BY <1>1, <1>2, <1>3, <1>4 DEF Looks

\* Hence every step keeps WellFormed.
LEMMA NextWellFormed ==
  ASSUME Configured, WellFormed, [Next]_driver_vars
  PROVE  WellFormed'
<1> USE DEF WellFormed
<1>1. CASE Unplug
  BY <1>1 DEF Unplug, TypeOK, BudgetIsWhole
<1>2. CASE PlugIn
  <2>1. plug.number + 1 \in 1..MaxPluggings
    BY <1>2 DEF PlugIn, TypeOK, Configured
  <2> QED  BY <1>2, <2>1 DEF PlugIn, TypeOK, BudgetIsWhole
<1>3. CASE RetryDue
  BY <1>3 DEF RetryDue, TypeOK, BudgetIsWhole
<1>4. CASE UNCHANGED driver_vars
  BY <1>4 DEF driver_vars, TypeOK, BudgetIsWhole
<1> QED  BY <1>1, <1>2, <1>3, <1>4, BeginWellFormed, ExecutesWellFormed, PeekWellFormed,
            LooksWellFormed DEF Next

(* The variables keep their types; in particular a driver belongs to one of *)
(* the pluggings there were.                                                *)
THEOREM RepositoryTypes ==
  ASSUME Configured
  PROVE  Spec => []TypeOK
<1>1. WellFormed => TypeOK
  BY DEF WellFormed
<1> QED  BY <1>1, InitWellFormed, NextWellFormed, PTL DEF Spec

(* A cached driver has its whole budget of attempts, whichever threads read *)
(* and command the motor.                                                   *)
THEOREM BudgetsAreWhole ==
  ASSUME Configured
  PROVE  Spec => []BudgetIsWhole
<1>1. WellFormed => BudgetIsWhole
  BY DEF WellFormed
<1> QED  BY <1>1, InitWellFormed, NextWellFormed, PTL DEF Spec

-----------------------------------------------------------------------------
(* LOCAL operation: one thread at a time commands the motors, under the     *)
(* lock of the service, and nobody reads them.                              *)

(* What the caller holds while it configures, starts or stops the motor is  *)
(* the cached driver.                                                       *)
HoldsCached(c) ==
  client[c].pc \in {"set", "native", "settle"} => driver = client[c].holds /\ driver # None

(* It asks for limits alone, which clears no error. *)
AsksLimits(c) == client[c].pc \in {"connect", "sample", "absent"} => client[c].operation = "LIMIT"

TurnsPlugged == turning => plug.plugged

(* A call that succeeded shows that the driver is that of the motor. *)
SettlesOwn(c) == client[c].pc = "settle" /\ turning => driver = plug.number

Reachable(c) ==
  turning => driver = plug.number \/ error \/ client[c].pc \in {"drop", "report"}

Parts(c) == HoldsCached(c) /\ AsksLimits(c) /\ TurnsPlugged /\ SettlesOwn(c) /\ Reachable(c)

Local(c) == WellFormed /\ Parts(c)

\* With one caller, a command that begins keeps what is known of its motor.
LEMMA CommandsLocal ==
  ASSUME Configured, NEW c \in Threads, Local(c), NEW operation \in {"RUN", "STOP"},
         Begin(c, operation)
  PROVE  Parts(c)'
<1>1. client'[c].pc \in {"configure", "stop", "call"}
  BY DEF Begin, Local, WellFormed, TypeOK
<1>2. client[c].pc = "idle"
  BY DEF Begin, At
<1> QED  BY <1>1, <1>2 DEF Begin, Local, Parts, HoldsCached, AsksLimits, TurnsPlugged,
                           SettlesOwn, Reachable

\* So does asking for a limit.
LEMMA PeeksLocal ==
  ASSUME Configured, NEW c \in Threads, Local(c), Peek(c, "LIMIT")
  PROVE  Parts(c)'
<1>1. client'[c].pc \in {"connect", "sample"} /\ client'[c].operation = "LIMIT"
  BY DEF Peek, Local, WellFormed, TypeOK
<1>2. client[c].pc = "idle"
  BY DEF Peek, At
<1> QED  BY <1>1, <1>2 DEF Peek, Local, Parts, HoldsCached, AsksLimits, TurnsPlugged,
                           SettlesOwn, Reachable

(* However an attempt ends, the motor has the driver of its plugging or an  *)
(* error.                                                                   *)
LEMMA ConnectsLocal ==
  ASSUME Configured, NEW c \in Threads, Local(c),
         NEW with \in {"set", "native", "sample"}, NEW without \in {"idle", "absent"},
         with = "sample" => client[c].operation = "LIMIT",
         without = "absent" => client[c].operation = "LIMIT",
         Connect(c, with, without), UNCHANGED <<plug, turning>>
  PROVE  Parts(c)'
<1>1. with \in Places /\ without \in Places /\ TypeOK
  BY DEF Places, Local, WellFormed
<1>2. plug.number # None
  BY <1>1 DEF TypeOK, Configured
<1>3. /\ client'[c].pc \in {"set", "native", "sample", "idle", "absent"}
      /\ client'[c].pc \in {"sample", "absent"} => client'[c].operation = "LIMIT"
  BY <1>1, ConnectDoes
<1>4. driver' = plug'.number \/ error'
  BY <1>1, ConnectDoes
<1>5. client'[c].pc \in {"set", "native"} => driver' = client'[c].holds /\ driver' # None
  BY <1>1, <1>2, ConnectDoes
<1>6. HoldsCached(c)' /\ SettlesOwn(c)'
  BY <1>3, <1>5 DEF HoldsCached, SettlesOwn
<1>7. AsksLimits(c)'
  BY <1>3 DEF AsksLimits
<1>8. TurnsPlugged' /\ Reachable(c)'
  BY <1>4 DEF Local, Parts, TurnsPlugged, Reachable
<1> QED  BY <1>6, <1>7, <1>8 DEF Parts

\* So does every step of the command, in particular the one that drops a driver that
\* raised.
LEMMA ExecutesLocal ==
  ASSUME Configured, NEW c \in Threads, Local(c), Executes(c)
  PROVE  Parts(c)'
<1> USE DEF HoldsCached, AsksLimits, TurnsPlugged, SettlesOwn, Reachable, At
<1>0. /\ TypeOK /\ HoldsCached(c) /\ AsksLimits(c) /\ TurnsPlugged /\ SettlesOwn(c) /\ Reachable(c)
      /\ {"idle", "call", "set", "native", "settle", "drop", "report"} \subseteq Places
  BY DEF Local, Parts, WellFormed, Places
<1>1. CASE StopIfConnected(c)
  <2>1. client'[c].pc \in {"idle", "call"}
    BY <1>0, <1>1, GoesTo, ReturnsIdle DEF StopIfConnected, Idle
  <2> QED  BY <1>0, <1>1, <2>1 DEF StopIfConnected, Parts
<1>2. CASE Ensure(c)
  <2>1. PICK next \in {"set", "native"} :
          IF driver # None
          THEN /\ client' = [client EXCEPT ![c].pc = next, ![c].holds = driver]
               /\ UNCHANGED <<driver, error, attempts, waiting, hiccups>>
          ELSE Connect(c, next, "idle")
    BY <1>2 DEF Ensure
  <2>2. CASE driver # None
    <3>1. client'[c].pc = next /\ client'[c].holds = driver
      <4>1. driver \in 0..MaxPluggings /\ next \in Places
        BY <1>0 DEF TypeOK, Places
      <4>2. Holds(c, next, driver)
        BY <2>1, <2>2 DEF Holds
      <4> QED  BY <1>0, <4>1, <4>2, GoesHolding
    <3> QED  BY <1>0, <1>2, <2>1, <2>2, <3>1 DEF Ensure, Parts
  <2>3. CASE driver = None
    <3>1. next # "sample" /\ next \in {"set", "native", "sample"} /\ "idle" # "absent"
      OBVIOUS
    <3> QED  BY <1>2, <2>1, <2>3, <3>1, ConnectsLocal DEF Ensure
  <2> QED  BY <2>2, <2>3
<1>3. CASE Configure(c)
  <2>1. CASE Works(client[c].holds) /\ Goes(c, "settle")
    <3>1. client'[c].pc = "settle" /\ client'[c].holds = client[c].holds
      BY <1>0, <2>1, GoesTo
    <3> QED  BY <1>0, <1>3, <2>1, <3>1 DEF Configure, Works, Parts
  <2>2. CASE Goes(c, "drop")
    <3>1. client'[c].pc = "drop"
      BY <1>0, <2>2, GoesTo
    <3> QED  BY <1>0, <1>3, <3>1 DEF Configure, Parts
  <2> QED  BY <1>3, <2>1, <2>2 DEF Configure
<1>4. CASE Native(c)
  <2>1. CASE Goes(c, "drop") /\ UNCHANGED turning
    <3>1. client'[c].pc = "drop"
      BY <1>0, <2>1, GoesTo
    <3> QED  BY <1>0, <1>4, <2>1, <3>1 DEF Native, Parts
  <2>2. CASE /\ Works(client[c].holds)
             /\ client' = [client EXCEPT ![c].pc = "settle",
                                         ![c].operation = IF @ = "RUN" THEN "NONE" ELSE @]
    <3>1. client'[c].pc = "settle" /\ client'[c].holds = client[c].holds
      BY <1>0, <2>2 DEF TypeOK
    <3>2. driver' = plug'.number /\ plug'.plugged
      BY <1>0, <1>4, <2>2 DEF Native, Works
    <3> QED  BY <1>0, <1>4, <3>1, <3>2 DEF Native, Parts
  <2> QED  BY <1>4, <2>1, <2>2 DEF Native
<1>5. CASE Settle(c)
  <2>1. client'[c].pc \in {"call", "idle"}
    BY <1>0, <1>5, GoesTo, ReturnsIdle DEF Settle, Idle
  <2> QED  BY <1>0, <1>5, <2>1 DEF Settle, Parts
<1>6. CASE Drop(c)
  <2>1. client'[c].pc = "report"
    BY <1>0, <1>6, GoesTo DEF Drop
  <2> QED  BY <1>0, <1>6, <2>1 DEF Drop, Parts
<1>7. CASE Report(c)
  <2>1. client'[c].pc = "idle"
    BY <1>0, <1>7, ReturnsIdle DEF Report, Idle
  <2> QED  BY <1>0, <1>7, <2>1 DEF Report, KeepError, Parts
<1> QED  BY <1>1, <1>2, <1>3, <1>4, <1>5, <1>6, <1>7 DEF Executes

\* So does every step of a reading.
LEMMA LooksLocal ==
  ASSUME Configured, NEW c \in Threads, Local(c), Looks(c)
  PROVE  Parts(c)'
<1> USE DEF HoldsCached, AsksLimits, TurnsPlugged, SettlesOwn, Reachable, At
<1>0. /\ TypeOK /\ HoldsCached(c) /\ AsksLimits(c) /\ TurnsPlugged /\ SettlesOwn(c) /\ Reachable(c)
      /\ {"idle", "sample", "absent"} \subseteq Places
  BY DEF Local, Parts, WellFormed, Places
<1>1. CASE ConnectToRead(c) /\ CanRetry
  BY <1>0, <1>1, ConnectsLocal DEF ConnectToRead
<1>2. CASE ConnectToRead(c) /\ ~CanRetry
  <2>1. client'[c].pc = "absent" /\ client'[c].operation = client[c].operation
    BY <1>0, <1>2, GoesTo DEF ConnectToRead
  <2> QED  BY <1>0, <1>2, <2>1 DEF ConnectToRead, Parts
<1>3. CASE Sample(c)
  <2>1. client'[c].pc = "idle"
    BY <1>0, <1>3, ReturnsIdle DEF Sample, Idle
  <2>2. UNCHANGED <<driver, error, turning, plug>> /\ client[c].pc = "sample"
    BY <1>0, <1>3 DEF Sample
  <2> QED  BY <1>0, <2>1, <2>2 DEF Parts
<1>4. CASE Absent(c)
  <2>1. client'[c].pc = "idle"
    BY <1>0, <1>4, ReturnsIdle DEF Absent, Idle
  <2> QED  BY <1>0, <1>4, <2>1 DEF Absent, Parts
<1> QED  BY <1>1, <1>2, <1>3, <1>4 DEF Looks

\* So does whatever happens to the plug and the delay of the retries.
LEMMA MotorLocal ==
  ASSUME Configured, NEW c \in Threads, Local(c),
         Unplug \/ PlugIn \/ RetryDue \/ UNCHANGED driver_vars
  PROVE  Parts(c)'
<1> USE DEF Local, WellFormed, Parts, HoldsCached, AsksLimits, TurnsPlugged, SettlesOwn, Reachable
<1>1. CASE Unplug
  BY <1>1 DEF Unplug
<1>2. CASE PlugIn
  BY <1>2 DEF PlugIn
<1>3. CASE RetryDue
  BY <1>3 DEF RetryDue
<1>4. CASE UNCHANGED driver_vars
  BY <1>4 DEF driver_vars
<1> QED  BY <1>1, <1>2, <1>3, <1>4

(* In LOCAL operation a motor that turns can be stopped by its own driver,  *)
(* or an error is kept that the status shows, or the call that ran into it  *)
(* is about to keep one: however often the motor is unplugged and plugged   *)
(* in again, and whatever a good driver raises.                             *)
THEOREM TurningIsReached ==
  ASSUME Configured, NEW c, Callers = {c}, Readers = {}
  PROVE  Spec => []TurningIsReachable
<1>1. ASSUME Init
      PROVE  Local(c)
  <2>1. client[c].pc = "idle" /\ ~turning
    BY <1>1 DEF Init, Idle
  <2> QED  BY <1>1, <2>1, InitWellFormed
           DEF Local, Parts, HoldsCached, AsksLimits, TurnsPlugged, SettlesOwn, Reachable
<1>2. ASSUME Local(c), [Next]_driver_vars
      PROVE  Local(c)'
  <2>1. WellFormed'
    BY <1>2, NextWellFormed DEF Local
  <2>2. Parts(c)'
    BY <1>2, CommandsLocal, PeeksLocal, ExecutesLocal, LooksLocal, MotorLocal DEF Next
  <2> QED  BY <2>1, <2>2 DEF Local
<1>3. Local(c) => TurningIsReachable
  BY DEF Local, Parts, Reachable, TurningIsReachable
<1> QED  BY <1>1, <1>2, <1>3, PTL DEF Spec
=============================================================================
