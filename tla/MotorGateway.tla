---------------------------- MODULE MotorGateway ----------------------------
(***************************************************************************)
(* Ev3Dev2MotorGateway with the guarded operations it uses                 *)
(* (MotorGuardedOperationManager, GuardedOperationRegistry): native motor  *)
(* objects, the operations running on them, and the reservation of their   *)
(* motors.                                                                 *)
(*                                                                         *)
(* Three threads meet here: the REST thread (create, delete, invoke), the  *)
(* lifecycle thread (deadlines, completion, expired objects) and the       *)
(* thread that closes the gateway at shutdown.  A step is one critical     *)
(* section or one call of the native library.                              *)
(*                                                                         *)
(* The command path that shares the motors is MotorCommands; here the      *)
(* preemption of a reservation stops the motors it reserves.  Arguments,   *)
(* limits, read-only methods and the age of the objects are left out;      *)
(* set_property reserves as a BLOCKING method does.                        *)
(***************************************************************************)
EXTENDS Integers, FiniteSets

CONSTANTS
  Motors,         \* configured motor codes
  Objects,        \* object ids that may be created
  Methods,        \* kinds of methods the objects offer
  MaxObjects,     \* max_objects of the gateway
  MaxOperations,  \* bound: guarded operations ever begun
  MaxFaults       \* bound: native calls that raise

Timed   == {"CONTINUOUS", "NON_BLOCKING"}   \* a deadline is required
Bounded == {"BLOCKING", "NON_BLOCKING"}     \* the motion ends by itself
Guarded == {"CONTINUOUS", "NON_BLOCKING", "BLOCKING", "BACKGROUND"}
Kinds   == Guarded \cup {"STOP", "ODOMETRY_STOP"}

ASSUME ConstantsAssumption ==
  /\ Methods \subseteq Kinds
  /\ MaxObjects \in Nat
  /\ MaxOperations \in Nat
  /\ MaxFaults \in Nat

Operations == 1..MaxOperations
Nobody     == 0
NoObject   == "none"
Threads    == {"rest", "lifecycle", "closer"}

VARIABLES
  objects,       \* object ids in _objects
  binding,       \* object -> its motors, in _metadata
  sequence,      \* operations begun so far
  operation,     \* operation -> its object, motors and kind
  registered,    \* operations in _operations
  due,           \* operations whose deadline has passed
  reservations,  \* operations in GuardedOperationRegistry._operations
  activeCodes,   \* GuardedOperationRegistry._active_motor_codes
  motion,        \* motor -> the operation whose native call moves it
  reading,       \* motors the state store shows as running
  call,          \* thread -> the call it is in
  snapshot,      \* operations the lifecycle loop has still to look at
  agenda,        \* thread -> objects its loop has still to delete
  phase,         \* open, REST told to stop, closing or closed
  faults,        \* native calls that raised
  loose          \* history: operations ended before their method was called,
                 \* without a stop, or with one that raised

vars == <<objects, binding, sequence, operation, registered, due,
          reservations, activeCodes, motion, reading, call, snapshot, agenda,
          phase, faults, loose>>

NoCall == [pc |-> "idle", object |-> NoObject, kind |-> "NONE", id |-> Nobody,
           todo |-> {}, stop |-> FALSE, remove |-> FALSE]

NoOperation == [object |-> NoObject, motors |-> {}, kind |-> "NONE"]

Init ==
  /\ objects      = {}
  /\ binding      = [o \in Objects |-> {}]
  /\ sequence     = 0
  /\ operation    = [i \in Operations |-> NoOperation]
  /\ registered   = {}
  /\ due          = {}
  /\ reservations = {}
  /\ activeCodes  = {}
  /\ motion       = [m \in Motors |-> Nobody]
  /\ reading      = {}
  /\ call         = [t \in Threads |-> NoCall]
  /\ snapshot     = {}
  /\ agenda       = [t \in Threads |-> {}]
  /\ phase        = "open"
  /\ faults       = 0
  /\ loose        = {}

-----------------------------------------------------------------------------
(* Hardware *)

Moved(ms, i) == [m \in Motors |-> IF m \in ms THEN i ELSE motion[m]]

(* A stop of the motors ms, which may fail with only some of them stopped. *)
Stops(ms) ==
  \E stopped \in SUBSET ms :
    /\ stopped # ms => faults < MaxFaults
    /\ motion' = Moved(stopped, Nobody)
    /\ faults' = IF stopped = ms THEN faults ELSE faults + 1

Raised == faults' # faults

MovedBy(i) == {m \in Motors : motion[m] = i}

MotionEnds(i) ==
  /\ operation[i].kind \in Bounded
  /\ MovedBy(i) # {}
  /\ motion' = Moved(MovedBy(i), Nobody)
  /\ UNCHANGED <<objects, binding, sequence, operation, registered, due,
                 reservations, activeCodes, reading, call, snapshot, agenda,
                 phase, faults, loose>>

-----------------------------------------------------------------------------
(* Objects *)

RestMayStart == call["rest"].pc = "idle"

(* Only the REST thread creates, so that the limit check and the insertion  *)
(* are one step; ids are not used again.                                    *)
Create(o, codes) ==
  /\ RestMayStart
  /\ binding[o] = {}
  /\ codes # {}
  /\ Cardinality(objects) < MaxObjects
  /\ objects' = objects \cup {o}
  /\ binding' = [binding EXCEPT ![o] = codes]
  /\ UNCHANGED <<sequence, operation, registered, due, reservations,
                 activeCodes, motion, reading, call, snapshot, agenda, phase,
                 faults, loose>>

OperationsOf(o) == {i \in registered : operation[i].object = o}

Deleting(o) == [NoCall EXCEPT !.pc = "off", !.object = o]

(* DELETE of REST, which also stands for the expired objects it cleans up   *)
(* when it creates or lists.                                                *)
Delete(o) ==
  /\ RestMayStart
  /\ o \in objects
  /\ call' = [call EXCEPT !["rest"] = Deleting(o)]
  /\ UNCHANGED <<objects, binding, sequence, operation, registered, due,
                 reservations, activeCodes, motion, reading, snapshot, agenda,
                 phase, faults, loose>>

(* The loops of cleanup_expired_objects and close: delete raises for an     *)
(* object that is gone meanwhile, and the loop goes on.                     *)
DeleteNext(t) ==
  /\ call[t].pc = "loop"
  /\ \E o \in agenda[t] :
       /\ agenda' = [agenda EXCEPT ![t] = @ \ {o}]
       /\ call' = IF o \in objects THEN [call EXCEPT ![t] = Deleting(o)] ELSE call
  /\ UNCHANGED <<objects, binding, sequence, operation, registered, due,
                 reservations, activeCodes, motion, reading, snapshot, phase,
                 faults, loose>>

(* _stop_object: off may raise; the operations are finished all the same,   *)
(* but the object is then not removed.                                      *)
Off(t) ==
  /\ call[t].pc = "off"
  /\ Stops(binding[call[t].object])
  /\ call' = [call EXCEPT ![t] =
                [@ EXCEPT !.pc = "collect", !.stop = TRUE, !.remove = ~Raised]]
  /\ UNCHANGED <<objects, binding, sequence, operation, registered, due,
                 reservations, activeCodes, reading, snapshot, agenda, phase,
                 loose>>

(* Operations whose method REST has yet to call. *)
NotYetCalled ==
  {i \in {call["rest"].id} : call["rest"].pc \in {"register", "invoke"}}

(* The operations S are going to be finished: they outlive this if their    *)
(* method is yet to be called, or if nothing stops what they started.       *)
Ended(S, stop) ==
  loose \cup {i \in S : i \in NotYetCalled \/ (~stop /\ MovedBy(i) # {})}

(* A call is over: a loop goes on, REST waits in handle_request for the     *)
(* next request, or leaves its loop when it was told to stop meanwhile.     *)
Answered == [NoCall EXCEPT !.pc = IF phase = "open" THEN "idle" ELSE "left"]

Resumed(t) == IF t = "rest" THEN Answered ELSE [NoCall EXCEPT !.pc = "loop"]

(* Another thread is about to change the size of _operations. *)
Overlapped(t) ==
  \E u \in Threads \ {t} :
    \/ call[u].pc = "register"
    \/ call[u].pc = "finish" /\ call[u].todo \cap registered # {}

(* _object_operations iterates over the dictionary without the lock, which  *)
(* raises when the dictionary changes size meanwhile.                       *)
Collect(t) ==
  LET todo == OperationsOf(call[t].object) IN
  /\ call[t].pc = "collect"
  /\ \/ /\ call' = [call EXCEPT ![t] = [@ EXCEPT !.pc = "finish", !.todo = todo]]
        /\ loose' = Ended(todo, call[t].stop)
     \/ /\ Overlapped(t)
        /\ call' = [call EXCEPT ![t] = Resumed(t)]
        /\ UNCHANGED loose
  /\ UNCHANGED <<objects, binding, sequence, operation, registered, due,
                 reservations, activeCodes, motion, reading, snapshot, agenda,
                 phase, faults>>

CallEnds(t) ==
  /\ call[t].pc = "finish"
  /\ call[t].todo = {}
  /\ objects' = IF call[t].remove THEN objects \ {call[t].object} ELSE objects
  /\ call' = [call EXCEPT ![t] = Resumed(t)]
  /\ UNCHANGED <<binding, sequence, operation, registered, due, reservations,
                 activeCodes, motion, reading, snapshot, agenda, phase,
                 faults, loose>>

-----------------------------------------------------------------------------
(* invoke *)

Invoke(o, k) ==
  /\ RestMayStart
  /\ o \in objects
  /\ k \in Guarded => sequence < MaxOperations
  /\ call' = [call EXCEPT !["rest"] =
       [NoCall EXCEPT !.object = o, !.kind = k,
                      !.pc = IF k \in Guarded THEN "begin" ELSE "halt"]]
  /\ UNCHANGED <<objects, binding, sequence, operation, registered, due,
                 reservations, activeCodes, motion, reading, snapshot, agenda,
                 phase, faults, loose>>

OperationIdReused == sequence
NextOperation == sequence + 1

FreeSome(codes) == codes \ activeCodes # {}
Free(codes) == codes \cap activeCodes = {}

(* MotorGuardedOperationManager.begin: refuses reserved motors, stops the   *)
(* others, and reserves them all, whether they stopped or not.              *)
Begin ==
  LET codes == binding[call["rest"].object]
      i     == NextOperation
  IN
  /\ call["rest"].pc = "begin"
  /\ IF Free(codes)
     THEN /\ Stops(codes)
          /\ sequence' = i
          /\ operation' = [operation EXCEPT ![i] =
               [object |-> call["rest"].object, motors |-> codes,
                kind |-> call["rest"].kind]]
          /\ reservations' = reservations \cup {i}
          /\ activeCodes' = activeCodes \cup codes
          /\ call' = [call EXCEPT !["rest"] =
               [@ EXCEPT !.id = i,
                         !.pc = IF call["rest"].kind = "BLOCKING"
                               THEN "invoke" ELSE "register"]]
     ELSE /\ call' = [call EXCEPT !["rest"] = Answered]
          /\ UNCHANGED <<sequence, operation, reservations, activeCodes, motion,
                         faults>>
  /\ UNCHANGED <<objects, binding, registered, due, reading, snapshot, agenda,
                 phase, loose>>

Register ==
  /\ call["rest"].pc = "register"
  /\ registered' = registered \cup {call["rest"].id}
  /\ call' = [call EXCEPT !["rest"] = [@ EXCEPT !.pc = "invoke"]]
  /\ UNCHANGED <<objects, binding, sequence, operation, due, reservations,
                 activeCodes, motion, reading, snapshot, agenda, phase,
                 faults, loose>>

(* What follows the native call, which raised or not: the answer, the       *)
(* return of a blocking method, or the end of the operation with a stop.    *)
AfterMethodNoStop(i, k, raised) ==
  IF k = "BLOCKING"
  THEN [call["rest"] EXCEPT !.pc = IF raised THEN "release" ELSE "wait"]
  ELSE IF raised
       THEN [call["rest"] EXCEPT !.pc = "finish", !.todo = {i}]
       ELSE Answered

AfterMethod(i, k, raised) ==
  IF k = "BLOCKING"
  THEN [call["rest"] EXCEPT !.pc = IF raised THEN "end" ELSE "wait", !.stop = raised]
  ELSE IF raised
       THEN [call["rest"] EXCEPT !.pc = "finish", !.todo = {i}, !.stop = TRUE]
       ELSE Answered

Method ==
  LET i == call["rest"].id
      k == call["rest"].kind
  IN
  /\ call["rest"].pc = "invoke"
  /\ \/ /\ k # "BACKGROUND"
        /\ motion' = Moved(operation[i].motors, i)
        /\ UNCHANGED faults
     \/ /\ k \in {"BACKGROUND", "BLOCKING"}
        /\ UNCHANGED <<motion, faults>>
     \/ /\ faults < MaxFaults
        /\ faults' = faults + 1
        /\ \E moved \in SUBSET operation[i].motors : motion' = Moved(moved, i)
  /\ call' = [call EXCEPT !["rest"] = AfterMethod(i, k, Raised)]
  /\ UNCHANGED <<objects, binding, sequence, operation, registered, due,
                 reservations, activeCodes, reading, snapshot, agenda, phase,
                 loose>>

(* The native method returns: when its motors are idle again, or at once    *)
(* when it has no wait of its own, as run_timed and run_to_rel_pos, which   *)
(* _classify takes for blocking too.  Nothing is waited for or stopped.     *)
BlockingReturns ==
  /\ call["rest"].pc = "wait"
  /\ call' = [call EXCEPT !["rest"] = [@ EXCEPT !.pc = "release"]]
  /\ loose' = Ended({call["rest"].id}, FALSE)
  /\ UNCHANGED <<objects, binding, sequence, operation, registered, due,
                 reservations, activeCodes, motion, reading, snapshot, agenda,
                 phase, faults>>

(* A method of kind STOP: off and stop halt the motors, odometry_stop ends  *)
(* a thread of the library and leaves them as they are.  All operations of  *)
(* the object are then finished without a stop.                             *)
StopMethod ==
  LET k == call["rest"].kind IN
  /\ call["rest"].pc = "halt"
  /\ \/ k = "STOP" /\ Stops(binding[call["rest"].object])
     \/ k = "ODOMETRY_STOP" /\ UNCHANGED <<motion, faults>>
  /\ call' = [call EXCEPT !["rest"] =
       IF Raised THEN Answered ELSE [@ EXCEPT !.pc = "collect"]]
  /\ UNCHANGED <<objects, binding, sequence, operation, registered, due,
                 reservations, activeCodes, reading, snapshot, agenda, phase,
                 loose>>

-----------------------------------------------------------------------------
(* _finish_operation, MotorGuardedOperationManager.end *)

(* The pop: of the threads that want to finish an operation, one does. *)
PoppedAnyway(i) == TRUE
Popped(i) == i \in registered

Pop(t) ==
  /\ call[t].pc = "finish"
  /\ \E i \in call[t].todo :
       /\ registered' = registered \ {i}
       /\ due' = due \ {i}
       /\ call' = [call EXCEPT ![t] =
            IF Popped(i)
            THEN [@ EXCEPT !.todo = call[t].todo \ {i}, !.id = i,
                           !.pc = IF call[t].stop THEN "end" ELSE "release"]
            ELSE [@ EXCEPT !.todo = call[t].todo \ {i}]]
  /\ UNCHANGED <<objects, binding, sequence, operation, reservations,
                 activeCodes, motion, reading, snapshot, agenda, phase,
                 faults, loose>>

EndStop(t) ==
  /\ call[t].pc = "end"
  /\ Stops(operation[call[t].id].motors)
  /\ call' = [call EXCEPT ![t] = [@ EXCEPT !.pc = "release"]]
  /\ loose' = IF Raised THEN loose \cup {call[t].id} ELSE loose
  /\ UNCHANGED <<objects, binding, sequence, operation, registered, due,
                 reservations, activeCodes, reading, snapshot, agenda, phase>>

(* The release of an operation that has no record does nothing. *)
Released(i) == IF i \in reservations THEN operation[i].motors ELSE {}

Release(t) ==
  /\ call[t].pc = "release"
  /\ reservations' = reservations \ {call[t].id}
  /\ activeCodes' = activeCodes \ Released(call[t].id)
  /\ call' = [call EXCEPT ![t] = [@ EXCEPT !.pc = "finish", !.id = Nobody]]
  /\ UNCHANGED <<objects, binding, sequence, operation, registered, due,
                 motion, reading, snapshot, agenda, phase, faults, loose>>

-----------------------------------------------------------------------------
(* _lifecycle_loop *)

DeadlinePasses(i) ==
  /\ i \in registered \ due
  /\ operation[i].kind \in Timed
  /\ due' = due \cup {i}
  /\ UNCHANGED <<objects, binding, sequence, operation, registered,
                 reservations, activeCodes, motion, reading, call, snapshot,
                 agenda, phase, faults, loose>>

Cycle ==
  /\ call["lifecycle"].pc = "idle"
  /\ phase \in {"open", "stopping"}
  /\ call' = [call EXCEPT !["lifecycle"].pc = "loop"]
  /\ snapshot' = registered
  /\ UNCHANGED <<objects, binding, sequence, operation, registered, due,
                 reservations, activeCodes, motion, reading, agenda, phase,
                 faults, loose>>

(* The cycle of MotorMonitor publishes what it reads of the motors; only    *)
(* the completion of non-blocking operations depends on it.                 *)
Refresh ==
  /\ "NON_BLOCKING" \in Methods
  /\ reading' = {m \in Motors : motion[m] # Nobody}
  /\ reading' # reading
  /\ UNCHANGED <<objects, binding, sequence, operation, registered, due,
                 reservations, activeCodes, motion, call, snapshot, agenda,
                 phase, faults, loose>>

(* A non-blocking operation whose motors are read as idle, from the store. *)
Completed(i) ==
  /\ operation[i].kind = "NON_BLOCKING"
  /\ operation[i].motors \cap reading = {}

ExpiredAndIdle(i) == i \in due /\ operation[i].motors \cap reading = {}
Expired(i) == i \in due

Scan ==
  /\ call["lifecycle"].pc = "loop"
  /\ \E i \in snapshot :
       /\ snapshot' = snapshot \ {i}
       /\ IF Expired(i) \/ Completed(i)
          THEN /\ call' = [call EXCEPT !["lifecycle"] =
                    [@ EXCEPT !.pc = "finish", !.todo = {i}, !.stop = Expired(i)]]
               /\ loose' = Ended({i} \cap registered, Expired(i))
          ELSE UNCHANGED <<call, loose>>
  /\ UNCHANGED <<objects, binding, sequence, operation, registered, due,
                 reservations, activeCodes, motion, reading, agenda, phase,
                 faults>>

(* The expired objects: any that have no operation may be old enough. *)
Expire ==
  /\ call["lifecycle"].pc = "loop"
  /\ snapshot = {} /\ agenda["lifecycle"] = {}
  /\ \E old \in SUBSET {o \in objects : OperationsOf(o) = {}} \ {{}} :
       agenda' = [agenda EXCEPT !["lifecycle"] = old]
  /\ UNCHANGED <<objects, binding, sequence, operation, registered, due,
                 reservations, activeCodes, motion, reading, call, snapshot,
                 phase, faults, loose>>

CycleEnds ==
  /\ call["lifecycle"].pc = "loop"
  /\ snapshot = {} /\ agenda["lifecycle"] = {}
  /\ call' = [call EXCEPT !["lifecycle"] = NoCall]
  /\ UNCHANGED <<objects, binding, sequence, operation, registered, due,
                 reservations, activeCodes, motion, reading, snapshot, agenda,
                 phase, faults, loose>>

-----------------------------------------------------------------------------
(* close, on the shutdown thread, which told REST to stop before: REST may  *)
(* still be in its last request, or be about to receive it                  *)

StopRest ==
  /\ phase = "open"
  /\ phase' = "stopping"
  /\ UNCHANGED <<objects, binding, sequence, operation, registered, due,
                 reservations, activeCodes, motion, reading, call, snapshot,
                 agenda, faults, loose>>

Close ==
  /\ phase = "stopping"
  /\ phase' = "closing"
  /\ call' = [call EXCEPT !["closer"].pc = "loop"]
  /\ agenda' = [agenda EXCEPT !["closer"] = objects]
  /\ UNCHANGED <<objects, binding, sequence, operation, registered, due,
                 reservations, activeCodes, motion, reading, snapshot, faults,
                 loose>>

Closed ==
  /\ call["closer"].pc = "loop"
  /\ agenda["closer"] = {}
  /\ phase' = "closed"
  /\ call' = [call EXCEPT !["closer"] = NoCall]
  /\ UNCHANGED <<objects, binding, sequence, operation, registered, due,
                 reservations, activeCodes, motion, reading, snapshot, agenda,
                 faults, loose>>

-----------------------------------------------------------------------------
FinishStep(t) ==
  Off(t) \/ Collect(t) \/ CallEnds(t) \/ Pop(t) \/ EndStop(t) \/ Release(t)

InvokeStep == Begin \/ Register \/ Method \/ BlockingReturns \/ StopMethod

Next ==
  \/ \E o \in Objects : \/ \E codes \in SUBSET Motors : Create(o, codes)
                        \/ \E k \in Methods : Invoke(o, k)
                        \/ Delete(o)
  \/ InvokeStep
  \/ \E t \in Threads : FinishStep(t) \/ DeleteNext(t)
  \/ \E i \in Operations : DeadlinePasses(i) \/ MotionEnds(i)
  \/ Refresh \/ Cycle \/ Scan \/ Expire \/ CycleEnds
  \/ StopRest \/ Close \/ Closed

Spec == Init /\ [][Next]_vars

(* The lifecycle thread runs, ends and deletions that were begun go on, and *)
(* deadlines pass.  Nothing else is fair, native methods least of all.      *)
FairSpec ==
  /\ Spec
  /\ \A t \in Threads : WF_vars(FinishStep(t)) /\ WF_vars(DeleteNext(t))
  /\ WF_vars(Cycle) /\ WF_vars(Scan) /\ WF_vars(CycleEnds)
  /\ \A i \in Operations : WF_vars(DeadlinePasses(i))

-----------------------------------------------------------------------------
(* Properties *)

CallSet == [pc : {"idle", "left", "loop", "off", "collect", "finish", "begin",
                  "register", "invoke", "wait", "halt", "end", "release"},
            object : Objects \cup {NoObject}, kind : Kinds \cup {"NONE"},
            id : Operations \cup {Nobody}, todo : SUBSET Operations,
            stop : BOOLEAN, remove : BOOLEAN]

(* The types of the variables. *)
TypeOK ==
  /\ objects \subseteq Objects /\ Cardinality(objects) <= MaxObjects
  /\ binding \in [Objects -> SUBSET Motors]
  /\ sequence \in 0..MaxOperations
  /\ operation \in [Operations -> [object : Objects \cup {NoObject},
                                   motors : SUBSET Motors,
                                   kind : Kinds \cup {"NONE"}]]
  /\ registered \subseteq Operations /\ due \subseteq Operations
  /\ reservations \subseteq Operations /\ activeCodes \subseteq Motors
  /\ motion \in [Motors -> Operations \cup {Nobody}]
  /\ reading \subseteq Motors
  /\ call \in [Threads -> CallSet]
  /\ snapshot \subseteq Operations
  /\ agenda \in [Threads -> SUBSET Objects]
  /\ phase \in {"open", "stopping", "closing", "closed"}
  /\ faults \in 0..MaxFaults
  /\ loose \subseteq Operations

(* A thread that has begun an operation and not handed it to the registry,  *)
(* or has taken it from there, and will give its reservation back.          *)
Holds(t, i) ==
  /\ call[t].id = i
  /\ \/ call[t].pc \in {"register", "wait", "end", "release"}
     \/ call[t].pc = "invoke" /\ call[t].kind = "BLOCKING"

(* No reservation leaks: whatever order REST, the deadlines, the expiry and *)
(* close end operations in, and whatever native call fails, a reserved      *)
(* operation is in _operations or in the hands of one thread, and the       *)
(* motors that commands are refused for are those of these operations.      *)
ReservationsSettled ==
  /\ registered \subseteq reservations
  /\ \A i \in reservations \ registered :
       \E t \in Threads : Holds(t, i) /\ \A u \in Threads \ {t} : ~Holds(u, i)
  /\ activeCodes = UNION {operation[i].motors : i \in reservations}

(* A motor that a native call moves is reserved, unless the operation was   *)
(* ended before its method was called, or without a stop while it moved (a  *)
(* stale reading, a STOP method that stops nothing, or a blocking method    *)
(* that returns at once), or with a stop that failed.                       *)
MovementIsReserved ==
  \A m \in Motors :
    motion[m] \in {Nobody} \cup reservations \cup loose

(* A motor goes to one operation at a time, which gets all its motors at    *)
(* once and gives them back once: the guarded operations as MotorReservation*)
(* describes them.                                                          *)
Holder(m) ==
  IF \E i \in reservations : m \in operation[i].motors
  THEN CHOOSE i \in reservations : m \in operation[i].motors
  ELSE Nobody

Reservation == INSTANCE MotorReservation WITH
  owner <- [m \in Motors |-> Holder(m)],
  over  <- (1..sequence) \ reservations

ReservationRefined == Reservation!Spec

(* While nobody shuts down, an operation with a deadline gives its motors *)
(* back, also when it fails, its motor never reads idle, or its object is   *)
(* deleted while its deadline passes.                                       *)
TimedOperationEnds ==
  \A i \in Operations :
    (i \in registered /\ operation[i].kind \in Timed)
      ~> (i \notin reservations \/ phase # "open")

(* docs/MOTOR_PHYSICAL_QUALIFICATION_PROTOCOL.md, PHY-08: movement remains   *)
(* registered until physical stop or completion.                            *)
MovementStaysReserved == \A m \in Motors : motion[m] \in {Nobody} \cup reservations
=============================================================================
