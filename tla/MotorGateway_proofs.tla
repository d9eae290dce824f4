------------------------- MODULE MotorGateway_proofs -------------------------
(***************************************************************************)
(* Proofs about MotorGateway, for every set of motors, objects and methods *)
(* and every bound: types, the reservations, the movement under them, and  *)
(* that the gateway implements MotorReservation.                           *)
(***************************************************************************)
EXTENDS MotorGateway, FiniteSetTheorems, TLAPS

-----------------------------------------------------------------------------
(* What the actions do to the calls of the threads.                        *)

States == {"idle", "left", "loop", "off", "collect", "finish", "begin",
           "register", "invoke", "wait", "halt", "end", "release"}

\* Thread t goes on with the call c, and no other thread moves.
Goes(t, c) ==
  /\ c \in CallSet
  /\ call' \in [Threads -> CallSet]
  /\ call'[t] = c
  /\ \A u \in Threads : u # t => call'[u] = call[u]

\* Replacing the call of a thread is going on with it.
LEMMA CallGoes ==
  ASSUME call \in [Threads -> CallSet], NEW t \in Threads, NEW c \in CallSet,
         call' = [call EXCEPT ![t] = c]
  PROVE  Goes(t, c)
BY DEF Goes

\* The call d, with what matters of it; it is about the same object and method as c.
Fields(d, c, pc, id, todo, stop) ==
  /\ d \in CallSet
  /\ d.pc = pc /\ d.id = id /\ d.todo = todo /\ d.stop = stop
  /\ d.object = c.object /\ d.kind = c.kind

\* A call is a record of these fields.
LEMMA CallFields ==
  CallSet = [pc : States, object : Objects \cup {NoObject}, kind : Kinds \cup {"NONE"},
             id : Operations \cup {Nobody}, todo : SUBSET Operations, stop : BOOLEAN,
             remove : BOOLEAN]
BY DEF CallSet, States

\* The changes of a call that occur, by the fields they change.
LEMMA CallMoves ==
  ASSUME NEW c \in CallSet, NEW pc \in States, NEW i \in Operations \cup {Nobody},
         NEW todo \in SUBSET Operations, NEW stop \in BOOLEAN, NEW remove \in BOOLEAN
  PROVE  /\ Fields([c EXCEPT !.pc = pc], c, pc, c.id, c.todo, c.stop)
         /\ Fields([c EXCEPT !.pc = pc, !.stop = stop], c, pc, c.id, c.todo, stop)
         /\ Fields([c EXCEPT !.pc = pc, !.stop = stop, !.remove = remove], c, pc, c.id, c.todo, stop)
         /\ Fields([c EXCEPT !.pc = pc, !.todo = todo], c, pc, c.id, todo, c.stop)
         /\ Fields([c EXCEPT !.pc = pc, !.todo = todo, !.stop = stop], c, pc, c.id, todo, stop)
         /\ Fields([c EXCEPT !.pc = pc, !.id = i], c, pc, i, c.todo, c.stop)
         /\ Fields([c EXCEPT !.id = i, !.pc = pc], c, pc, i, c.todo, c.stop)
         /\ Fields([c EXCEPT !.todo = todo], c, c.pc, c.id, todo, c.stop)
         /\ Fields([c EXCEPT !.todo = todo, !.id = i, !.pc = pc], c, pc, i, todo, c.stop)
<1>1. Fields([c EXCEPT !.pc = pc], c, pc, c.id, c.todo, c.stop)
  BY CallFields DEF Fields
<1>2. Fields([c EXCEPT !.pc = pc, !.stop = stop], c, pc, c.id, c.todo, stop)
  BY CallFields DEF Fields
<1>3. Fields([c EXCEPT !.pc = pc, !.stop = stop, !.remove = remove], c, pc, c.id, c.todo, stop)
  BY CallFields DEF Fields
<1>4. Fields([c EXCEPT !.pc = pc, !.todo = todo], c, pc, c.id, todo, c.stop)
  BY CallFields DEF Fields
<1>5. Fields([c EXCEPT !.pc = pc, !.todo = todo, !.stop = stop], c, pc, c.id, todo, stop)
  BY CallFields DEF Fields
<1>6. Fields([c EXCEPT !.pc = pc, !.id = i], c, pc, i, c.todo, c.stop)
  BY CallFields DEF Fields
<1>7. Fields([c EXCEPT !.id = i, !.pc = pc], c, pc, i, c.todo, c.stop)
  BY CallFields DEF Fields
<1>8. Fields([c EXCEPT !.todo = todo], c, c.pc, c.id, todo, c.stop)
  BY CallFields DEF Fields
<1>9. Fields([c EXCEPT !.todo = todo, !.id = i, !.pc = pc], c, pc, i, todo, c.stop)
  BY CallFields DEF Fields
<1> QED  BY <1>1, <1>2, <1>3, <1>4, <1>5, <1>6, <1>7, <1>8, <1>9

\* A new call, and the call that ends one, hold nothing.
Fresh(c) == c.id = Nobody /\ c.todo = {} /\ c.stop = FALSE

\* A thread without a call has nothing to end.
LEMMA NoCallFresh == NoCall \in CallSet /\ NoCall.pc = "idle" /\ Fresh(NoCall)
BY DEF NoCall, CallSet, Fresh, NoObject, Nobody

\* Nor has one whose call was answered.
LEMMA ResumedFresh ==
  ASSUME NEW t \in Threads
  PROVE  /\ Answered \in CallSet /\ Fresh(Answered) /\ Answered.pc \in {"idle", "left"}
         /\ Resumed(t) \in CallSet /\ Fresh(Resumed(t)) /\ Resumed(t).pc \in {"idle", "left", "loop"}
<1>1. \A pc \in States : [NoCall EXCEPT !.pc = pc] \in CallSet /\ [NoCall EXCEPT !.pc = pc].pc = pc
                         /\ Fresh([NoCall EXCEPT !.pc = pc])
  BY DEF NoCall, CallSet, States, Fresh, NoObject, Nobody
<1>2. Answered \in CallSet /\ Fresh(Answered) /\ Answered.pc \in {"idle", "left"}
  <2> DEFINE pc == IF phase = "open" THEN "idle" ELSE "left"
  <2>1. pc \in States /\ pc \in {"idle", "left"} /\ Answered = [NoCall EXCEPT !.pc = pc]
    BY DEF States, Answered
  <2> HIDE DEF pc
  <2> QED  BY <1>1, <2>1
<1>3. "loop" \in States
  BY DEF States
<1> QED  BY <1>1, <1>2, <1>3 DEF Resumed

-----------------------------------------------------------------------------
(* One lemma for each action that moves a call.                            *)

\* An invocation begins an operation, or halts one.
LEMMA InvokeEffect ==
  ASSUME TypeOK, NEW o \in Objects, NEW k \in Methods, Invoke(o, k)
  PROVE  \E c \in CallSet : /\ Goes("rest", c) /\ Fresh(c) /\ c.object = o /\ c.kind = k
                            /\ c.pc = IF k \in Guarded THEN "begin" ELSE "halt"
<1> DEFINE pc == IF k \in Guarded THEN "begin" ELSE "halt"
           c == [NoCall EXCEPT !.object = o, !.kind = k, !.pc = pc]
<1>1. k \in Kinds /\ pc \in States
  BY ConstantsAssumption DEF States
<1>3. call' = [call EXCEPT !["rest"] = c]
  BY DEF Invoke
<1>5. pc = IF k \in Guarded THEN "begin" ELSE "halt"
  OBVIOUS
<1> HIDE DEF pc
<1>2. c \in CallSet /\ c.pc = pc /\ Fresh(c) /\ c.object = o /\ c.kind = k
  BY <1>1 DEF NoCall, CallSet, States, Fresh, NoObject, Nobody
<1>4. Goes("rest", c)
  BY <1>2, <1>3, CallGoes DEF TypeOK, Threads
<1> QED  BY <1>2, <1>4, <1>5

\* A deletion first takes the object off.
LEMMA DeleteEffect ==
  ASSUME TypeOK, NEW o \in Objects, Delete(o)
  PROVE  \E c \in CallSet : Goes("rest", c) /\ Fresh(c) /\ c.object = o /\ c.pc = "off"
<1>1. Deleting(o) \in CallSet /\ Deleting(o).pc = "off" /\ Fresh(Deleting(o)) /\ Deleting(o).object = o
  BY DEF Deleting, Fresh, NoCall, CallSet, NoObject, Nobody
<1>2. Goes("rest", Deleting(o))
  BY <1>1, CallGoes DEF TypeOK, Threads, Delete
<1> QED  BY <1>1, <1>2

\* So does each deletion of a thread that deletes several.
LEMMA DeleteNextEffect ==
  ASSUME TypeOK, NEW t \in Threads, DeleteNext(t)
  PROVE  /\ agenda' \in [Threads -> SUBSET Objects]
         /\ \E c \in CallSet : /\ Goes(t, c)
                               /\ c = call[t] \/ (Fresh(c) /\ c.pc = "off")
<1>1. PICK o \in agenda[t] :
        /\ agenda' = [agenda EXCEPT ![t] = @ \ {o}]
        /\ call' = IF o \in objects THEN [call EXCEPT ![t] = Deleting(o)] ELSE call
  BY DEF DeleteNext
<1>2. o \in Objects /\ agenda' \in [Threads -> SUBSET Objects]
  BY <1>1 DEF TypeOK
<1>3. Deleting(o) \in CallSet /\ Deleting(o).pc = "off" /\ Fresh(Deleting(o))
  BY <1>2 DEF Deleting, States, Fresh, NoCall, CallSet, NoObject, Nobody
<1>4. CASE o \in objects
  <2>1. call \in [Threads -> CallSet] /\ call' = [call EXCEPT ![t] = Deleting(o)]
    BY <1>1, <1>4 DEF TypeOK
  <2>2. Goes(t, Deleting(o))
    BY <1>3, <2>1, CallGoes
  <2> QED  BY <1>2, <1>3, <2>2
<1>5. CASE o \notin objects
  <2>1. call' = call /\ call \in [Threads -> CallSet] /\ call[t] \in CallSet
    BY <1>1, <1>5 DEF TypeOK
  <2> QED  BY <1>2, <2>1 DEF Goes
<1> QED  BY <1>4, <1>5

\* Then it collects the operations of the object.
LEMMA OffEffect ==
  ASSUME TypeOK, NEW t \in Threads, Off(t)
  PROVE  \E c \in CallSet :
           Goes(t, c) /\ Fields(c, call[t], "collect", call[t].id, call[t].todo, TRUE)
<1> DEFINE c == [call[t] EXCEPT !.pc = "collect", !.stop = TRUE, !.remove = ~Raised]
<1>1. call[t] \in CallSet /\ call \in [Threads -> CallSet] /\ call' = [call EXCEPT ![t] = c]
  BY DEF TypeOK, Off
<1>2. (~Raised) \in BOOLEAN /\ TRUE \in BOOLEAN /\ "collect" \in States
  BY DEF Raised, States
<1>3. Fields(c, call[t], "collect", call[t].id, call[t].todo, TRUE)
  BY <1>1, <1>2, CallMoves DEF Nobody
<1>4. Goes(t, c)
  BY <1>1, <1>3, CallGoes DEF Fields
<1> QED  BY <1>3, <1>4 DEF Fields

\* What is collected is to be finished, and is loose if without a stop.
LEMMA CollectEffect ==
  ASSUME TypeOK, NEW t \in Threads, Collect(t)
  PROVE  \E c \in CallSet :
           /\ Goes(t, c)
           /\ \/ /\ Fields(c, call[t], "finish", call[t].id, OperationsOf(call[t].object), call[t].stop)
                 /\ loose' = Ended(OperationsOf(call[t].object), call[t].stop)
              \/ Fresh(c) /\ c.pc \in {"idle", "left", "loop"} /\ loose' = loose
<1> DEFINE todo == OperationsOf(call[t].object)
           c == [call[t] EXCEPT !.pc = "finish", !.todo = todo]
<1>1. call[t] \in CallSet /\ call \in [Threads -> CallSet] /\ todo \in SUBSET Operations
  BY DEF TypeOK, OperationsOf
<1>2. CASE call' = [call EXCEPT ![t] = c] /\ loose' = Ended(todo, call[t].stop)
  <2>1. Fields(c, call[t], "finish", call[t].id, todo, call[t].stop)
    BY <1>1, CallMoves DEF States
  <2>2. Goes(t, c)
    BY <1>1, <1>2, <2>1, CallGoes DEF Fields
  <2> QED  BY <1>2, <2>1, <2>2 DEF Fields
<1>3. CASE call' = [call EXCEPT ![t] = Resumed(t)] /\ loose' = loose
  <2>1. Goes(t, Resumed(t))
    BY <1>1, <1>3, ResumedFresh, CallGoes
  <2> QED  BY <1>3, <2>1, ResumedFresh
<1> HIDE DEF todo
<1> QED  BY <1>2, <1>3 DEF Collect, todo

\* A call that ends leaves nothing to end.
LEMMA CallEndsEffect ==
  ASSUME TypeOK, NEW t \in Threads, CallEnds(t)
  PROVE  \E c \in CallSet : Goes(t, c) /\ Fresh(c) /\ c.pc \in {"idle", "left", "loop"}
<1>1. call \in [Threads -> CallSet] /\ call' = [call EXCEPT ![t] = Resumed(t)]
  BY DEF TypeOK, CallEnds
<1>2. Goes(t, Resumed(t))
  BY <1>1, ResumedFresh, CallGoes
<1> QED  BY <1>2, ResumedFresh

\* An operation gets a fresh id and all its motors, or the call is answered.
LEMMA BeginEffect ==
  ASSUME TypeOK, Begin, sequence < MaxOperations
  PROVE  \E c \in CallSet :
           /\ Goes("rest", c)
           /\ \/ /\ Free(binding[call["rest"].object])
                 /\ sequence + 1 \in Operations
                 /\ Fields(c, call["rest"],
                           IF call["rest"].kind = "BLOCKING" THEN "invoke" ELSE "register",
                           sequence + 1, call["rest"].todo, call["rest"].stop)
              \/ /\ Fresh(c) /\ c.pc \in {"idle", "left"}
                 /\ UNCHANGED <<sequence, operation, reservations, activeCodes, motion, faults>>
<1> DEFINE rest == call["rest"]
           pc == IF rest.kind = "BLOCKING" THEN "invoke" ELSE "register"
           c == [rest EXCEPT !.id = sequence + 1, !.pc = pc]
<1>1. rest \in CallSet /\ call \in [Threads -> CallSet] /\ "rest" \in Threads
  BY DEF TypeOK, Threads
<1>2. sequence + 1 \in Operations
  BY ConstantsAssumption DEF TypeOK, Operations
<1>3. pc \in States
  BY DEF States
<1>4. CASE Free(binding[rest.object])
  <2>1. call' = [call EXCEPT !["rest"] = c]
    BY <1>4 DEF Begin, NextOperation
  <2>2. Fields(c, rest, pc, sequence + 1, rest.todo, rest.stop)
    <3> HIDE DEF pc, rest
    <3> QED  BY <1>1, <1>2, <1>3, CallMoves
  <2>3. Goes("rest", c)
    BY <1>1, <2>1, <2>2, CallGoes DEF Fields
  <2> QED  BY <1>2, <1>4, <2>2, <2>3 DEF Fields
<1>5. CASE ~Free(binding[rest.object])
  <2>1. call' = [call EXCEPT !["rest"] = Answered]
        /\ UNCHANGED <<sequence, operation, reservations, activeCodes, motion, faults>>
    BY <1>5 DEF Begin
  <2>2. Answered \in CallSet /\ Fresh(Answered) /\ Answered.pc \in {"idle", "left"}
    BY <1>1, ResumedFresh
  <2>3. Goes("rest", Answered)
    BY <1>1, <2>1, <2>2, CallGoes
  <2> QED  BY <2>1, <2>2, <2>3
<1> QED  BY <1>4, <1>5

\* It is registered before its method is called.
LEMMA RegisterEffect ==
  ASSUME TypeOK, Register
  PROVE  \E c \in CallSet :
           /\ Goes("rest", c)
           /\ Fields(c, call["rest"], "invoke", call["rest"].id, call["rest"].todo, call["rest"].stop)
<1> DEFINE c == [call["rest"] EXCEPT !.pc = "invoke"]
<1>1. call["rest"] \in CallSet /\ call \in [Threads -> CallSet] /\ call' = [call EXCEPT !["rest"] = c]
  BY DEF TypeOK, Register, Threads
<1>2. Fields(c, call["rest"], "invoke", call["rest"].id, call["rest"].todo, call["rest"].stop)
  BY <1>1, CallMoves DEF States
<1>3. Goes("rest", c)
  BY <1>1, <1>2, CallGoes DEF Fields, Threads
<1> QED  BY <1>2, <1>3 DEF Fields

\* A method that raised makes REST finish the operation with a stop.
LEMMA MethodEffect ==
  ASSUME TypeOK, Method, call["rest"].id \in Operations
  PROVE  LET rest == call["rest"] IN
         \E c \in CallSet :
           /\ Goes("rest", c)
           /\ \/ rest.kind = "BLOCKING" /\ Fields(c, rest, "end", rest.id, rest.todo, TRUE)
              \/ rest.kind = "BLOCKING" /\ Fields(c, rest, "wait", rest.id, rest.todo, FALSE)
              \/ rest.kind # "BLOCKING" /\ Fields(c, rest, "finish", rest.id, {rest.id}, TRUE)
              \/ rest.kind # "BLOCKING" /\ Fresh(c) /\ c.pc \in {"idle", "left"}
<1> DEFINE rest == call["rest"]
           d == AfterMethod(rest.id, rest.kind, Raised)
<1>1. rest \in CallSet /\ call \in [Threads -> CallSet] /\ "rest" \in Threads
      /\ call' = [call EXCEPT !["rest"] = d]
  BY DEF TypeOK, Method, Threads
<1>2. \/ rest.kind = "BLOCKING" /\ d = [rest EXCEPT !.pc = "end", !.stop = TRUE]
      \/ rest.kind = "BLOCKING" /\ d = [rest EXCEPT !.pc = "wait", !.stop = FALSE]
      \/ rest.kind # "BLOCKING" /\ d = [rest EXCEPT !.pc = "finish", !.todo = {rest.id}, !.stop = TRUE]
      \/ rest.kind # "BLOCKING" /\ d = Answered
  <2>1. CASE Raised
    BY <2>1 DEF AfterMethod
  <2>2. CASE ~Raised
    <3>1. Raised = FALSE
      BY <2>2 DEF Raised
    <3> QED  BY <3>1 DEF AfterMethod
  <2> QED  BY <2>1, <2>2
<1> HIDE DEF d, rest
<1>3. "end" \in States /\ "wait" \in States /\ "finish" \in States /\ {rest.id} \in SUBSET Operations
  BY DEF States, rest
<1>4. \/ rest.kind = "BLOCKING" /\ Fields(d, rest, "end", rest.id, rest.todo, TRUE)
      \/ rest.kind = "BLOCKING" /\ Fields(d, rest, "wait", rest.id, rest.todo, FALSE)
      \/ rest.kind # "BLOCKING" /\ Fields(d, rest, "finish", rest.id, {rest.id}, TRUE)
      \/ rest.kind # "BLOCKING" /\ d \in CallSet /\ Fresh(d) /\ d.pc \in {"idle", "left"}
  <2>1. CASE rest.kind = "BLOCKING" /\ d = [rest EXCEPT !.pc = "end", !.stop = TRUE]
    BY <1>1, <1>3, <2>1, CallFields DEF Fields
  <2>2. CASE rest.kind = "BLOCKING" /\ d = [rest EXCEPT !.pc = "wait", !.stop = FALSE]
    BY <1>1, <1>3, <2>2, CallFields DEF Fields
  <2>3. CASE rest.kind # "BLOCKING" /\ d = [rest EXCEPT !.pc = "finish", !.todo = {rest.id}, !.stop = TRUE]
    BY <1>1, <1>3, <2>3, CallFields DEF Fields
  <2>4. CASE rest.kind # "BLOCKING" /\ d = Answered
    BY <1>1, <2>4, ResumedFresh
  <2> QED  BY <1>2, <2>1, <2>2, <2>3, <2>4
<1>5. d \in CallSet
  BY <1>4 DEF Fields
<1>6. Goes("rest", d)
  BY <1>1, <1>5, CallGoes
<1> QED  BY <1>4, <1>5, <1>6 DEF rest

\* After a blocking method it is to be released.
LEMMA BlockingReturnsEffect ==
  ASSUME TypeOK, BlockingReturns
  PROVE  \E c \in CallSet :
           /\ Goes("rest", c)
           /\ Fields(c, call["rest"], "release", call["rest"].id, call["rest"].todo, call["rest"].stop)
<1> DEFINE c == [call["rest"] EXCEPT !.pc = "release"]
<1>1. call["rest"] \in CallSet /\ call \in [Threads -> CallSet] /\ call' = [call EXCEPT !["rest"] = c]
  BY DEF TypeOK, BlockingReturns, Threads
<1>2. Fields(c, call["rest"], "release", call["rest"].id, call["rest"].todo, call["rest"].stop)
  BY <1>1, CallMoves DEF States
<1>3. Goes("rest", c)
  BY <1>1, <1>2, CallGoes DEF Fields, Threads
<1> QED  BY <1>2, <1>3 DEF Fields

\* After a stop the operations of the object are collected, or the call is answered.
LEMMA StopMethodEffect ==
  ASSUME TypeOK, StopMethod
  PROVE  LET rest == call["rest"] IN
         \E c \in CallSet :
           /\ Goes("rest", c)
           /\ \/ Fields(c, rest, "collect", rest.id, rest.todo, rest.stop)
              \/ Fresh(c) /\ c.pc \in {"idle", "left"}
<1> DEFINE rest == call["rest"]
           c == [rest EXCEPT !.pc = "collect"]
<1>1. rest \in CallSet /\ call \in [Threads -> CallSet] /\ "rest" \in Threads
      /\ call' = [call EXCEPT !["rest"] = IF Raised THEN Answered ELSE c]
  BY DEF TypeOK, StopMethod, Threads
<1>2. CASE Raised
  <2>1. Goes("rest", Answered)
    BY <1>1, <1>2, ResumedFresh, CallGoes
  <2> QED  BY <1>1, <2>1, ResumedFresh
<1>3. CASE ~Raised
  <2>1. Fields(c, rest, "collect", rest.id, rest.todo, rest.stop)
    BY <1>1, CallMoves DEF States
  <2>2. Goes("rest", c)
    BY <1>1, <1>3, <2>1, CallGoes DEF Fields
  <2> QED  BY <2>1, <2>2 DEF Fields
<1> QED  BY <1>2, <1>3

\* Thread t takes the operation i from _operations, or finds that it is gone.
Pops(t, i, c) ==
  /\ registered' = registered \ {i}
  /\ Goes(t, c)
  /\ c.todo = call[t].todo \ {i}
  /\ c.stop = call[t].stop /\ c.kind = call[t].kind /\ c.object = call[t].object
  /\ \/ i \in registered /\ c.id = i /\ c.pc = "end" /\ c.stop
     \/ i \in registered /\ c.id = i /\ c.pc = "release" /\ ~c.stop
     \/ i \notin registered /\ c.id = call[t].id /\ c.pc = "finish"

\* A thread that finishes operations takes one of them.
LEMMA PopEffect ==
  ASSUME TypeOK, NEW t \in Threads, Pop(t)
  PROVE  \E i \in call[t].todo, c \in CallSet : Pops(t, i, c)
<1>1. call[t] \in CallSet /\ call \in [Threads -> CallSet] /\ call[t].pc = "finish"
  BY DEF TypeOK, Pop
<1>2. call[t].todo \in SUBSET Operations
  BY <1>1 DEF CallSet
<1>3. PICK i \in call[t].todo :
        /\ registered' = registered \ {i}
        /\ due' = due \ {i}
        /\ call' = [call EXCEPT ![t] =
            IF i \in registered
            THEN [call[t] EXCEPT !.todo = call[t].todo \ {i}, !.id = i,
                                 !.pc = IF call[t].stop THEN "end" ELSE "release"]
            ELSE [call[t] EXCEPT !.todo = call[t].todo \ {i}]]
  BY DEF Pop, Popped
<1> DEFINE todo == call[t].todo \ {i}
           pc == IF call[t].stop THEN "end" ELSE "release"
           c == [call[t] EXCEPT !.todo = todo, !.id = i, !.pc = pc]
           d == [call[t] EXCEPT !.todo = todo]
<1>4. pc \in States /\ todo \in SUBSET Operations /\ i \in Operations
  BY <1>2 DEF States
<1>5. CASE i \in registered
  <2>1. call' = [call EXCEPT ![t] = c]
    BY <1>3, <1>5
  <2>2. Fields(c, call[t], pc, i, todo, call[t].stop)
    <3> HIDE DEF pc, todo
    <3> QED  BY <1>1, <1>4, CallMoves
  <2>3. Goes(t, c)
    BY <1>1, <2>1, <2>2, CallGoes DEF Fields
  <2>4. c \in CallSet /\ c.todo = todo /\ c.stop = call[t].stop /\ c.kind = call[t].kind
        /\ c.object = call[t].object /\ c.id = i /\ c.pc = pc
    BY <2>2 DEF Fields
  <2>5. call[t].stop \in BOOLEAN
    BY <1>1 DEF CallSet
  <2> HIDE DEF c
  <2>6. Pops(t, i, c)
    BY <1>3, <1>5, <2>3, <2>4, <2>5 DEF Pops
  <2> QED  BY <2>4, <2>6
<1>6. CASE i \notin registered
  <2>1. call' = [call EXCEPT ![t] = d]
    BY <1>3, <1>6
  <2>2. Fields(d, call[t], "finish", call[t].id, todo, call[t].stop)
    <3> HIDE DEF todo
    <3> QED  BY <1>1, <1>4, CallMoves
  <2>3. Goes(t, d)
    BY <1>1, <2>1, <2>2, CallGoes DEF Fields
  <2>4. d \in CallSet /\ d.todo = todo /\ d.stop = call[t].stop /\ d.kind = call[t].kind
        /\ d.object = call[t].object /\ d.id = call[t].id /\ d.pc = "finish"
    BY <2>2 DEF Fields
  <2> HIDE DEF d
  <2>5. Pops(t, i, d)
    BY <1>3, <1>6, <2>3, <2>4 DEF Pops
  <2> QED  BY <2>4, <2>5
<1> QED  BY <1>5, <1>6

\* It stops the motors and then releases.
LEMMA EndStopEffect ==
  ASSUME TypeOK, NEW t \in Threads, EndStop(t)
  PROVE  \E c \in CallSet :
           Goes(t, c) /\ Fields(c, call[t], "release", call[t].id, call[t].todo, call[t].stop)
<1> DEFINE c == [call[t] EXCEPT !.pc = "release"]
<1>1. call[t] \in CallSet /\ call \in [Threads -> CallSet] /\ call' = [call EXCEPT ![t] = c]
  BY DEF TypeOK, EndStop
<1>2. Fields(c, call[t], "release", call[t].id, call[t].todo, call[t].stop)
  BY <1>1, CallMoves DEF States
<1>3. Goes(t, c)
  BY <1>1, <1>2, CallGoes DEF Fields
<1> QED  BY <1>2, <1>3 DEF Fields

\* It goes on with what is left.
LEMMA ReleaseEffect ==
  ASSUME TypeOK, NEW t \in Threads, Release(t)
  PROVE  \E c \in CallSet :
           Goes(t, c) /\ Fields(c, call[t], "finish", Nobody, call[t].todo, call[t].stop)
<1> DEFINE c == [call[t] EXCEPT !.pc = "finish", !.id = Nobody]
<1>1. call[t] \in CallSet /\ call \in [Threads -> CallSet] /\ call' = [call EXCEPT ![t] = c]
  BY DEF TypeOK, Release
<1>2. Fields(c, call[t], "finish", Nobody, call[t].todo, call[t].stop)
  BY <1>1, CallMoves DEF States
<1>3. Goes(t, c)
  BY <1>1, <1>2, CallGoes DEF Fields
<1> QED  BY <1>2, <1>3 DEF Fields

\* The lifecycle thread goes on with its loop.
LEMMA LoopEffect ==
  ASSUME TypeOK, NEW t \in Threads, call' = [call EXCEPT ![t].pc = "loop"]
  PROVE  \E c \in CallSet :
           Goes(t, c) /\ Fields(c, call[t], "loop", call[t].id, call[t].todo, call[t].stop)
<1> DEFINE c == [call[t] EXCEPT !.pc = "loop"]
<1>1. call[t] \in CallSet /\ call \in [Threads -> CallSet] /\ call' = [call EXCEPT ![t] = c]
  BY DEF TypeOK
<1>2. Fields(c, call[t], "loop", call[t].id, call[t].todo, call[t].stop)
  BY <1>1, CallMoves DEF States
<1>3. Goes(t, c)
  BY <1>1, <1>2, CallGoes DEF Fields
<1> QED  BY <1>2, <1>3 DEF Fields

\* It takes an operation from its snapshot, which it will finish or leave.
LEMMA ScanEffect ==
  ASSUME TypeOK, Scan
  PROVE  LET loop == call["lifecycle"] IN
         \E i \in snapshot, c \in CallSet :
           /\ snapshot' = snapshot \ {i}
           /\ Goes("lifecycle", c)
           /\ \/ /\ Fields(c, loop, "finish", loop.id, {i}, Expired(i))
                 /\ loose' = Ended({i} \cap registered, Expired(i))
              \/ c = loop /\ loose' = loose
<1> DEFINE loop == call["lifecycle"]
<1>1. loop \in CallSet /\ call \in [Threads -> CallSet] /\ "lifecycle" \in Threads
  BY DEF TypeOK, Threads
<1>2. PICK i \in snapshot :
       /\ snapshot' = snapshot \ {i}
       /\ IF Expired(i) \/ Completed(i)
          THEN /\ call' = [call EXCEPT !["lifecycle"] =
                    [@ EXCEPT !.pc = "finish", !.todo = {i}, !.stop = Expired(i)]]
               /\ loose' = Ended({i} \cap registered, Expired(i))
          ELSE UNCHANGED <<call, loose>>
  BY DEF Scan
<1> DEFINE c == [loop EXCEPT !.pc = "finish", !.todo = {i}, !.stop = Expired(i)]
<1>3. {i} \in SUBSET Operations /\ Expired(i) \in BOOLEAN /\ "finish" \in States
  BY DEF TypeOK, Expired, States
<1>4. CASE Expired(i) \/ Completed(i)
  <2>1. Fields(c, loop, "finish", loop.id, {i}, Expired(i))
    <3> HIDE DEF loop
    <3> QED  BY <1>1, <1>3, CallMoves
  <2>2. Goes("lifecycle", c)
    BY <1>1, <1>2, <1>4, <2>1, CallGoes DEF Fields
  <2> QED  BY <1>2, <1>4, <2>1, <2>2 DEF Fields
<1>5. CASE ~(Expired(i) \/ Completed(i))
  <2>1. Goes("lifecycle", loop)
    BY <1>1, <1>2, <1>5 DEF Goes
  <2> QED  BY <1>1, <1>2, <1>5, <2>1
<1> QED  BY <1>4, <1>5

\* A thread that rests has no call.
LEMMA RestsEffect ==
  ASSUME TypeOK, NEW t \in Threads, call' = [call EXCEPT ![t] = NoCall]
  PROVE  \E c \in CallSet : Goes(t, c) /\ Fresh(c) /\ c.pc = "idle"
<1>1. Goes(t, NoCall)
  BY NoCallFresh, CallGoes DEF TypeOK
<1> QED  BY <1>1, NoCallFresh

-----------------------------------------------------------------------------
(* Types.                                                                  *)

\* Only REST begins operations; an object that is there has motors, and so has the
\* one it invokes, and an operation that has not begun fits the bound.
RestReady ==
  /\ \A t \in Threads \ {"rest"} :
       call[t].pc \notin {"begin", "register", "invoke", "wait", "halt"}
  /\ \A o \in objects : binding[o] # {}
  /\ call["rest"].pc = "begin" =>
       /\ sequence < MaxOperations
       /\ call["rest"].object \in Objects
       /\ binding[call["rest"].object] # {}
  /\ call["rest"].pc = "register" => call["rest"].kind # "BLOCKING"
  /\ call["rest"].pc \in {"begin", "register", "invoke", "wait", "halt"} => call["rest"].todo = {}
  /\ phase \in {"open", "stopping"} => call["closer"].pc = "idle"

\* Every operation that is mentioned was begun.
Given == 1..sequence

IdsGiven ==
  /\ registered \subseteq Given /\ reservations \subseteq Given /\ snapshot \subseteq Given
  /\ \A t \in Threads :
       /\ call[t].todo \subseteq Given
       /\ call[t].pc \in {"register", "invoke", "wait", "end", "release"} => call[t].id \in Given

WellFormed == TypeOK /\ IsFiniteSet(objects) /\ RestReady /\ IdsGiven

\* Moving motors keeps their type.
LEMMA MovedType ==
  ASSUME motion \in [Motors -> Operations \cup {Nobody}], NEW ms, NEW i \in Operations \cup {Nobody}
  PROVE  Moved(ms, i) \in [Motors -> Operations \cup {Nobody}]
BY DEF Moved

\* So does stopping them, whether it raises or not.
LEMMA StopsType ==
  ASSUME TypeOK, NEW ms, Stops(ms)
  PROVE  motion' \in [Motors -> Operations \cup {Nobody}] /\ faults' \in 0..MaxFaults
<1>1. PICK stopped \in SUBSET ms :
        /\ stopped # ms => faults < MaxFaults
        /\ motion' = Moved(stopped, Nobody)
        /\ faults' = IF stopped = ms THEN faults ELSE faults + 1
  BY DEF Stops
<1>2. motion' \in [Motors -> Operations \cup {Nobody}]
  BY <1>1, MovedType DEF TypeOK
<1> QED  BY <1>1, <1>2, ConstantsAssumption DEF TypeOK

\* An operation that a thread works on was begun.
LEMMA HeldGiven ==
  ASSUME WellFormed, NEW t \in Threads,
         call[t].pc \in {"register", "invoke", "wait", "end", "release"}
  PROVE  call[t].id \in Given /\ call[t].id \in Operations
<1>1. call[t].id \in Given /\ sequence \in 0..MaxOperations
  BY DEF WellFormed, TypeOK, IdsGiven
<1> QED  BY <1>1, ConstantsAssumption DEF Given, Operations

\* Creating or deleting an object changes their number by one at most.
LEMMA ObjectsCounted ==
  ASSUME NEW S, NEW x, IsFiniteSet(S)
  PROVE  /\ Cardinality(S) \in Nat
         /\ IsFiniteSet(S \cup {x}) /\ Cardinality(S \cup {x}) <= Cardinality(S) + 1
         /\ IsFiniteSet(S \ {x}) /\ Cardinality(S \ {x}) <= Cardinality(S)
<1>1. Cardinality(S) \in Nat
  BY FS_CardinalityType
<1>2. IsFiniteSet(S \cup {x}) /\ Cardinality(S \cup {x}) \in {Cardinality(S), Cardinality(S) + 1}
  BY FS_AddElement
<1>3. IsFiniteSet(S \ {x}) /\ Cardinality(S \ {x}) \in {Cardinality(S), Cardinality(S) - 1}
  BY FS_RemoveElement
<1> QED  BY <1>1, <1>2, <1>3

\* WellFormed holds at first.
LEMMA WellFormedInit == Init => WellFormed
<1> SUFFICES ASSUME Init  PROVE WellFormed
  OBVIOUS
<1>1. IsFiniteSet(objects) /\ Cardinality(objects) = 0
  BY FS_EmptySet DEF Init
<1>2. call \in [Threads -> CallSet] /\ \A t \in Threads : call[t].pc = "idle" /\ Fresh(call[t])
  BY NoCallFresh DEF Init
<1>3. operation \in [Operations -> [object : Objects \cup {NoObject}, motors : SUBSET Motors,
                                    kind : Kinds \cup {"NONE"}]]
  BY DEF Init, NoOperation
<1>4. TypeOK
  BY <1>1, <1>2, <1>3, ConstantsAssumption DEF Init, TypeOK, Nobody
<1>5. RestReady
  BY <1>2 DEF Init, RestReady, Threads
<1>6. IdsGiven
  BY <1>2 DEF Init, IdsGiven, Fresh
<1> QED  BY <1>1, <1>4, <1>5, <1>6 DEF WellFormed

\* Every step keeps the types, by its effect on the calls.
LEMMA TypeNext ==
  ASSUME WellFormed, [Next]_vars
  PROVE  TypeOK'
<1> USE DEF WellFormed, TypeOK, RestReady, IdsGiven
<1>1. ASSUME NEW o \in Objects, NEW codes \in SUBSET Motors, Create(o, codes)
      PROVE  TypeOK'
  <2>1. objects' \subseteq Objects /\ Cardinality(objects') <= MaxObjects
    <3>1. /\ Cardinality(objects) \in Nat
          /\ IsFiniteSet(objects \cup {o})
          /\ Cardinality(objects \cup {o}) <= Cardinality(objects) + 1
      BY ObjectsCounted
    <3>2. Cardinality(objects \cup {o}) \in Nat
      BY <3>1, FS_CardinalityType
    <3> QED  BY <1>1, <3>1, <3>2, ConstantsAssumption DEF Create
  <2>2. binding' \in [Objects -> SUBSET Motors]
    BY <1>1 DEF Create
  <2> QED  BY <1>1, <2>1, <2>2 DEF Create
<1>2. ASSUME NEW o \in Objects, NEW k \in Methods, Invoke(o, k)
      PROVE  TypeOK'
  <2>1. call' \in [Threads -> CallSet]
    BY <1>2, InvokeEffect DEF Goes
  <2> QED  BY <1>2, <2>1 DEF Invoke
<1>3. ASSUME NEW o \in Objects, Delete(o)
      PROVE  TypeOK'
  <2>1. call' \in [Threads -> CallSet]
    BY <1>3, DeleteEffect DEF Goes
  <2> QED  BY <1>3, <2>1 DEF Delete
<1>4. CASE Begin
  <2>1. call' \in [Threads -> CallSet]
    BY <1>4, BeginEffect DEF Begin, Goes
  <2>2. motion' \in [Motors -> Operations \cup {Nobody}] /\ faults' \in 0..MaxFaults
    BY <1>4, StopsType DEF Begin
  <2>3. /\ operation' \in [Operations -> [object : Objects \cup {NoObject}, motors : SUBSET Motors,
                                       kind : Kinds \cup {"NONE"}]]
        /\ sequence' \in 0..MaxOperations /\ activeCodes' \subseteq Motors
        /\ reservations' \subseteq Operations
    <3>1. sequence + 1 \in Operations /\ sequence + 1 \in 0..MaxOperations
          /\ binding[call["rest"].object] \in SUBSET Motors
          /\ call["rest"] \in CallSet
      BY <1>4, ConstantsAssumption DEF Operations, Begin, Threads
    <3>2. [object |-> call["rest"].object, motors |-> binding[call["rest"].object],
           kind |-> call["rest"].kind]
             \in [object : Objects \cup {NoObject}, motors : SUBSET Motors, kind : Kinds \cup {"NONE"}]
      BY <3>1 DEF CallSet
    <3> QED  BY <1>4, <3>1, <3>2 DEF Begin, NextOperation
  <2> QED  BY <1>4, <2>1, <2>2, <2>3 DEF Begin
<1>5. CASE Register
  <2>1. call' \in [Threads -> CallSet]
    BY <1>5, RegisterEffect DEF Goes
  <2>2. registered' \subseteq Operations
    BY <1>5, HeldGiven DEF Register, Threads
  <2> QED  BY <1>5, <2>1, <2>2 DEF Register
<1>6. CASE Method
  <2>1. call' \in [Threads -> CallSet]
    BY <1>6, MethodEffect, HeldGiven DEF Method, Goes, Threads
  <2>2. motion' \in [Motors -> Operations \cup {Nobody}] /\ faults' \in 0..MaxFaults
    BY <1>6, MovedType, HeldGiven, ConstantsAssumption DEF Method, Threads
  <2> QED  BY <1>6, <2>1, <2>2 DEF Method
<1>7. CASE BlockingReturns
  <2>1. call' \in [Threads -> CallSet]
    BY <1>7, BlockingReturnsEffect DEF Goes
  <2>2. loose' \subseteq Operations
    BY <1>7, HeldGiven DEF BlockingReturns, Ended, Given, Threads
  <2> QED  BY <1>7, <2>1, <2>2 DEF BlockingReturns
<1>8. CASE StopMethod
  <2>1. call' \in [Threads -> CallSet]
    BY <1>8, StopMethodEffect DEF Goes
  <2>2. motion' \in [Motors -> Operations \cup {Nobody}] /\ faults' \in 0..MaxFaults
    BY <1>8, StopsType DEF StopMethod
  <2> QED  BY <1>8, <2>1, <2>2 DEF StopMethod
<1>9. ASSUME NEW t \in Threads, Off(t)
      PROVE  TypeOK'
  <2>1. call' \in [Threads -> CallSet]
    BY <1>9, OffEffect DEF Goes
  <2>2. motion' \in [Motors -> Operations \cup {Nobody}] /\ faults' \in 0..MaxFaults
    BY <1>9, StopsType DEF Off
  <2> QED  BY <1>9, <2>1, <2>2 DEF Off
<1>10. ASSUME NEW t \in Threads, Collect(t)
      PROVE  TypeOK'
  <2>1. call' \in [Threads -> CallSet]
    BY <1>10, CollectEffect DEF Goes
  <2>2. loose' \subseteq Operations
    BY <1>10, CollectEffect DEF OperationsOf, Ended
  <2> QED  BY <1>10, <2>1, <2>2 DEF Collect
<1>11. ASSUME NEW t \in Threads, CallEnds(t)
      PROVE  TypeOK'
  <2>1. call' \in [Threads -> CallSet]
    BY <1>11, CallEndsEffect DEF Goes
  <2>2. objects' \subseteq Objects /\ Cardinality(objects') <= MaxObjects
    <3> DEFINE o == call[t].object
    <3>1. /\ Cardinality(objects) \in Nat
          /\ IsFiniteSet(objects \ {o}) /\ Cardinality(objects \ {o}) <= Cardinality(objects)
      BY ObjectsCounted
    <3>2. Cardinality(objects \ {o}) \in Nat
      BY <3>1, FS_CardinalityType
    <3> QED  BY <1>11, <3>1, <3>2, ConstantsAssumption DEF CallEnds
  <2> QED  BY <1>11, <2>1, <2>2 DEF CallEnds
<1>12. ASSUME NEW t \in Threads, Pop(t)
      PROVE  TypeOK'
  <2>1. call' \in [Threads -> CallSet]
    BY <1>12, PopEffect DEF Goes, Pops
  <2>2. registered' \subseteq Operations /\ due' \subseteq Operations
    BY <1>12 DEF Pop
  <2> QED  BY <1>12, <2>1, <2>2 DEF Pop
<1>13. ASSUME NEW t \in Threads, EndStop(t)
      PROVE  TypeOK'
  <2>1. call' \in [Threads -> CallSet]
    BY <1>13, EndStopEffect DEF Goes
  <2>2. motion' \in [Motors -> Operations \cup {Nobody}] /\ faults' \in 0..MaxFaults
    BY <1>13, StopsType DEF EndStop
  <2>3. loose' \subseteq Operations
    BY <1>13, HeldGiven DEF EndStop
  <2> QED  BY <1>13, <2>1, <2>2, <2>3 DEF EndStop
<1>14. ASSUME NEW t \in Threads, Release(t)
      PROVE  TypeOK'
  <2>1. call' \in [Threads -> CallSet]
    BY <1>14, ReleaseEffect DEF Goes
  <2> QED  BY <1>14, <2>1 DEF Release, Released
<1>15. ASSUME NEW t \in Threads, DeleteNext(t)
      PROVE  TypeOK'
  <2>1. call' \in [Threads -> CallSet]
    BY <1>15, DeleteNextEffect DEF Goes
  <2>2. agenda' \in [Threads -> SUBSET Objects]
    BY <1>15, DeleteNextEffect
  <2> QED  BY <1>15, <2>1, <2>2 DEF DeleteNext
<1>16. ASSUME NEW i \in Operations, DeadlinePasses(i)
      PROVE  TypeOK'
  BY <1>16 DEF DeadlinePasses
<1>17. ASSUME NEW i \in Operations, MotionEnds(i)
      PROVE  TypeOK'
  <2>1. motion' \in [Motors -> Operations \cup {Nobody}]
    BY <1>17, MovedType DEF MotionEnds
  <2> QED  BY <1>17, <2>1 DEF MotionEnds
<1>18. CASE Refresh
  BY <1>18 DEF Refresh
<1>19. CASE Cycle
  <2>1. call' \in [Threads -> CallSet]
    BY <1>19, LoopEffect DEF Cycle, Goes, Threads
  <2> QED  BY <1>19, <2>1 DEF Cycle
<1>20. CASE Scan
  <2>1. call' \in [Threads -> CallSet]
    BY <1>20, ScanEffect DEF Goes
  <2>2. loose' \subseteq Operations /\ snapshot' \subseteq Operations
    BY <1>20, ScanEffect DEF Ended
  <2> QED  BY <1>20, <2>1, <2>2 DEF Scan
<1>21. CASE Expire
  <2>1. agenda' \in [Threads -> SUBSET Objects]
    BY <1>21 DEF Expire
  <2> QED  BY <1>21, <2>1 DEF Expire, OperationsOf
<1>22. CASE CycleEnds
  <2>1. call' \in [Threads -> CallSet]
    BY <1>22, RestsEffect DEF CycleEnds, Goes, Threads
  <2> QED  BY <1>22, <2>1 DEF CycleEnds
<1>23. CASE StopRest
  BY <1>23 DEF StopRest
<1>24. CASE Close
  <2>1. call' \in [Threads -> CallSet]
    BY <1>24, LoopEffect DEF Close, Goes, Threads
  <2>2. agenda' \in [Threads -> SUBSET Objects]
    BY <1>24 DEF Close
  <2> QED  BY <1>24, <2>1, <2>2 DEF Close
<1>25. CASE Closed
  <2>1. call' \in [Threads -> CallSet]
    BY <1>25, RestsEffect DEF Closed, Goes, Threads
  <2> QED  BY <1>25, <2>1 DEF Closed
<1>26. CASE UNCHANGED vars
  BY <1>26 DEF vars
<1> QED
  BY <1>1, <1>2, <1>3, <1>4, <1>5, <1>6, <1>7, <1>8, <1>9, <1>10, <1>11, <1>12, <1>13,
     <1>14, <1>15, <1>16, <1>17, <1>18, <1>19, <1>20, <1>21, <1>22, <1>23, <1>24, <1>25, <1>26
  DEF Next, InvokeStep, FinishStep

\* RestReady when one call goes on, but not to the steps that need an object to be there.
LEMMA ReadyFrame ==
  ASSUME RestReady, NEW t \in Threads, NEW c, Goes(t, c),
         objects' \subseteq objects, UNCHANGED <<binding, sequence, phase>>,
         \/ c.pc \notin {"begin", "register", "invoke", "wait", "halt"}
         \/ t = "rest" /\ c.pc \in {"invoke", "wait"} /\ c.todo = {},
         t # "closer" \/ call[t].pc # "idle"
  PROVE  RestReady'
<1>1. call'[t] = c /\ \A u \in Threads : u # t => call'[u] = call[u]
  BY DEF Goes
<1>2. "rest" \in Threads /\ "closer" \in Threads /\ "rest" # "closer"
  BY DEF Threads
<1>3. \A u \in Threads \ {"rest"} : call'[u].pc \notin {"begin", "register", "invoke", "wait", "halt"}
  BY <1>1 DEF RestReady
<1>4. \A o \in objects' : binding'[o] # {}
  BY DEF RestReady
<1>5. /\ call'["rest"].pc = "begin" =>
           /\ sequence' < MaxOperations
           /\ call'["rest"].object \in Objects
           /\ binding'[call'["rest"].object] # {}
      /\ call'["rest"].pc = "register" => call'["rest"].kind # "BLOCKING"
      /\ call'["rest"].pc \in {"begin", "register", "invoke", "wait", "halt"} => call'["rest"].todo = {}
  <2>1. CASE t = "rest"
    BY <1>1, <2>1
  <2>2. CASE t # "rest"
    <3>1. call'["rest"] = call["rest"]
      BY <1>1, <1>2, <2>2
    <3> QED  BY <3>1 DEF RestReady
  <2> QED  BY <2>1, <2>2
<1>6. phase' \in {"open", "stopping"} => call'["closer"].pc = "idle"
  <2>1. CASE t = "closer"
    BY <2>1 DEF RestReady
  <2>2. CASE t # "closer"
    <3>1. call'["closer"] = call["closer"]
      BY <1>1, <1>2, <2>2
    <3> QED  BY <3>1 DEF RestReady
  <2> QED  BY <2>1, <2>2
<1> QED  BY <1>3, <1>4, <1>5, <1>6 DEF RestReady

\* IdsGiven when one call goes on and no operation begins.
LEMMA IdsFrame ==
  ASSUME IdsGiven, NEW t \in Threads, NEW c, Goes(t, c), UNCHANGED sequence,
         registered' \subseteq Given, reservations' \subseteq Given, snapshot' \subseteq Given,
         c.todo \subseteq Given,
         c.pc \in {"register", "invoke", "wait", "end", "release"} => c.id \in Given
  PROVE  IdsGiven'
<1>1. Given' = Given
  BY DEF Given
<1>2. call'[t] = c /\ \A u \in Threads : u # t => call'[u] = call[u]
  BY DEF Goes
<1>3. \A u \in Threads :
        /\ call'[u].todo \subseteq Given
        /\ call'[u].pc \in {"register", "invoke", "wait", "end", "release"} => call'[u].id \in Given
  BY <1>2 DEF IdsGiven
<1> QED  BY <1>1, <1>3 DEF IdsGiven

\* Every step keeps RestReady: an operation that begins finds its object.
LEMMA ReadyNext ==
  ASSUME WellFormed, [Next]_vars
  PROVE  RestReady'
<1> USE ConstantsAssumption DEF WellFormed, TypeOK, RestReady
<1>1. ASSUME NEW o \in Objects, NEW codes \in SUBSET Motors, Create(o, codes)
      PROVE  RestReady'
  BY <1>1 DEF Create
<1>2. ASSUME NEW o \in Objects, NEW k \in Methods, Invoke(o, k)
      PROVE  RestReady'
  <2>1. PICK c \in CallSet : /\ Goes("rest", c) /\ c.object = o /\ Fresh(c)
                             /\ c.pc = IF k \in Guarded THEN "begin" ELSE "halt"
    BY <1>2, InvokeEffect
  <2>2. c.todo = {} /\ call'["rest"] = c /\ \A u \in Threads \ {"rest"} : call'[u] = call[u]
    BY <2>1 DEF Goes, Fresh
  <2>3. c.pc \in {"begin", "halt"} /\ (c.pc = "begin" => sequence < MaxOperations)
    BY <1>2, <2>1 DEF Invoke
  <2>4. UNCHANGED <<objects, binding, sequence, phase>> /\ o \in objects
    BY <1>2 DEF Invoke
  <2> QED  BY <2>1, <2>2, <2>3, <2>4 DEF Threads
<1>3. ASSUME NEW o \in Objects, Delete(o)
      PROVE  RestReady'
  <2>1. /\ objects' \subseteq objects /\ UNCHANGED <<binding, sequence, phase>>
        /\ "rest" \in Threads /\ "rest" # "closer"
    BY <1>3 DEF Delete, Threads
  <2>2. \E c \in CallSet : Goes("rest", c) /\ c.pc \in {"off"}
    BY <1>3, DeleteEffect DEF Fields, Delete
  <2> QED  BY <2>1, <2>2, ReadyFrame
<1>4. CASE Begin
  BY <1>4, BeginEffect DEF Begin, Goes, Fields, Fresh, Threads
<1>5. CASE Register
  <2>1. /\ objects' \subseteq objects /\ UNCHANGED <<binding, sequence, phase>>
        /\ call["rest"].pc = "register" /\ "rest" \in Threads
    BY <1>5 DEF Register, Threads
  <2>2. call["rest"].todo = {}
    BY <2>1
  <2>3. \E c \in CallSet : Goes("rest", c) /\ c.pc = "invoke" /\ c.todo = {}
    BY <1>5, <2>2, RegisterEffect DEF Fields
  <2> QED  BY <2>1, <2>3, ReadyFrame
<1>6. CASE Method
  <2>1. /\ objects' \subseteq objects /\ UNCHANGED <<binding, sequence, phase>>
        /\ call["rest"].pc = "invoke" /\ "rest" \in Threads
    BY <1>6 DEF Method, Threads
  <2>2. call["rest"].id \in Operations
    BY <2>1, HeldGiven
  <2>3. call["rest"].todo = {}
    BY <2>1
  <2>4. \E c \in CallSet :
          /\ Goes("rest", c)
          /\ \/ c.pc \in {"end", "finish", "idle", "left"}
             \/ c.pc = "wait" /\ c.todo = {}
    BY <1>6, <2>2, <2>3, MethodEffect DEF Fields
  <2> QED  BY <2>1, <2>4, ReadyFrame
<1>7. CASE BlockingReturns
  <2>1. /\ objects' \subseteq objects /\ UNCHANGED <<binding, sequence, phase>>
        /\ call["rest"].pc # "idle" /\ "rest" \in Threads
    BY <1>7 DEF BlockingReturns, Threads
  <2>2. \E c \in CallSet : Goes("rest", c) /\ c.pc \in {"release"}
    BY <1>7, BlockingReturnsEffect DEF Fields, BlockingReturns
  <2> QED  BY <2>1, <2>2, ReadyFrame
<1>8. CASE StopMethod
  <2>1. /\ objects' \subseteq objects /\ UNCHANGED <<binding, sequence, phase>>
        /\ call["rest"].pc # "idle" /\ "rest" \in Threads
    BY <1>8 DEF StopMethod, Threads
  <2>2. \E c \in CallSet : Goes("rest", c) /\ c.pc \in {"collect", "idle", "left"}
    BY <1>8, StopMethodEffect DEF Fields, StopMethod
  <2> QED  BY <2>1, <2>2, ReadyFrame
<1>9. ASSUME NEW t \in Threads, Off(t)
      PROVE  RestReady'
  <2>1. /\ objects' \subseteq objects /\ UNCHANGED <<binding, sequence, phase>>
        /\ call[t].pc # "idle"
    BY <1>9 DEF Off
  <2>2. \E c \in CallSet : Goes(t, c) /\ c.pc \in {"collect"}
    BY <1>9, OffEffect DEF Fields, Off
  <2> QED  BY <2>1, <2>2, ReadyFrame
<1>10. ASSUME NEW t \in Threads, Collect(t)
      PROVE  RestReady'
  <2>1. /\ objects' \subseteq objects /\ UNCHANGED <<binding, sequence, phase>>
        /\ call[t].pc # "idle"
    BY <1>10 DEF Collect
  <2>2. \E c \in CallSet : Goes(t, c) /\ c.pc \in {"finish", "idle", "left", "loop"}
    BY <1>10, CollectEffect DEF Fields, Collect
  <2> QED  BY <2>1, <2>2, ReadyFrame
<1>11. ASSUME NEW t \in Threads, CallEnds(t)
      PROVE  RestReady'
  <2>1. /\ objects' \subseteq objects /\ UNCHANGED <<binding, sequence, phase>>
        /\ call[t].pc # "idle"
    BY <1>11 DEF CallEnds
  <2>2. \E c \in CallSet : Goes(t, c) /\ c.pc \in {"idle", "left", "loop"}
    BY <1>11, CallEndsEffect DEF Fields, CallEnds
  <2> QED  BY <2>1, <2>2, ReadyFrame
<1>12. ASSUME NEW t \in Threads, Pop(t)
      PROVE  RestReady'
  <2>1. PICK i \in call[t].todo, c \in CallSet : Pops(t, i, c)
    BY <1>12, PopEffect
  <2>2. call'[t] = c /\ \A u \in Threads \ {t} : call'[u] = call[u]
    BY <2>1 DEF Goes, Pops
  <2>3. UNCHANGED <<objects, binding, sequence, reservations, snapshot, phase>> /\ call[t].pc = "finish"
    BY <1>12 DEF Pop
  <2>4. registered' \subseteq registered /\ c.todo \subseteq call[t].todo
        /\ c.pc \in {"end", "release", "finish"} /\ c.id \in {i, call[t].id}
        /\ (c.pc # "finish" => c.id = i)
    BY <2>1 DEF Pops
  <2> QED  BY <2>1, <2>2, <2>3, <2>4 DEF Threads
<1>13. ASSUME NEW t \in Threads, EndStop(t)
      PROVE  RestReady'
  <2>1. /\ objects' \subseteq objects /\ UNCHANGED <<binding, sequence, phase>>
        /\ call[t].pc # "idle"
    BY <1>13 DEF EndStop
  <2>2. \E c \in CallSet : Goes(t, c) /\ c.pc \in {"release"}
    BY <1>13, EndStopEffect DEF Fields, EndStop
  <2> QED  BY <2>1, <2>2, ReadyFrame
<1>14. ASSUME NEW t \in Threads, Release(t)
      PROVE  RestReady'
  <2>1. /\ objects' \subseteq objects /\ UNCHANGED <<binding, sequence, phase>>
        /\ call[t].pc # "idle"
    BY <1>14 DEF Release
  <2>2. \E c \in CallSet : Goes(t, c) /\ c.pc \in {"finish"}
    BY <1>14, ReleaseEffect DEF Fields, Release
  <2> QED  BY <2>1, <2>2, ReadyFrame
<1>15. ASSUME NEW t \in Threads, DeleteNext(t)
      PROVE  RestReady'
  <2>1. /\ objects' \subseteq objects /\ UNCHANGED <<binding, sequence, phase>>
        /\ call[t].pc # "idle"
    BY <1>15 DEF DeleteNext
  <2>2. \E c \in CallSet : Goes(t, c) /\ c.pc \in {"off", "loop"}
    BY <1>15, DeleteNextEffect DEF Fields, DeleteNext
  <2> QED  BY <2>1, <2>2, ReadyFrame
<1>16. ASSUME NEW i \in Operations, DeadlinePasses(i)
      PROVE  RestReady'
  BY <1>16 DEF DeadlinePasses
<1>17. ASSUME NEW i \in Operations, MotionEnds(i)
      PROVE  RestReady'
  BY <1>17 DEF MotionEnds
<1>18. CASE Refresh
  BY <1>18 DEF Refresh
<1>19. CASE Cycle
  <2>1. /\ objects' \subseteq objects /\ UNCHANGED <<binding, sequence, phase>>
        /\ "lifecycle" \in Threads /\ "lifecycle" # "closer"
        /\ call' = [call EXCEPT !["lifecycle"].pc = "loop"]
    BY <1>19 DEF Cycle, Threads
  <2>2. \E c \in CallSet : Goes("lifecycle", c) /\ c.pc = "loop"
    BY <2>1, LoopEffect DEF Fields
  <2> QED  BY <2>1, <2>2, ReadyFrame
<1>20. CASE Scan
  <2>1. /\ objects' \subseteq objects /\ UNCHANGED <<binding, sequence, phase>>
        /\ call["lifecycle"].pc # "idle" /\ "lifecycle" \in Threads
    BY <1>20 DEF Scan, Threads
  <2>2. \E c \in CallSet : Goes("lifecycle", c) /\ c.pc \in {"finish", "loop"}
    BY <1>20, ScanEffect DEF Fields, Scan
  <2> QED  BY <2>1, <2>2, ReadyFrame
<1>21. CASE Expire
  BY <1>21 DEF Expire
<1>22. CASE CycleEnds
  <2>1. /\ objects' \subseteq objects /\ UNCHANGED <<binding, sequence, phase>>
        /\ "lifecycle" \in Threads /\ "lifecycle" # "closer"
        /\ call' = [call EXCEPT !["lifecycle"] = NoCall]
    BY <1>22 DEF CycleEnds, Threads
  <2>2. \E c \in CallSet : Goes("lifecycle", c) /\ c.pc = "idle"
    BY <2>1, RestsEffect
  <2> QED  BY <2>1, <2>2, ReadyFrame
<1>23. CASE StopRest
  BY <1>23 DEF StopRest
<1>24. CASE Close
  BY <1>24, LoopEffect DEF Close, Goes, Fields, Fresh, Threads
<1>25. CASE Closed
  BY <1>25, RestsEffect DEF Closed, Goes, Fields, Fresh, Threads
<1>26. CASE UNCHANGED vars
  BY <1>26 DEF vars
<1> HIDE DEF WellFormed, TypeOK, RestReady
<1> QED
  BY <1>1, <1>2, <1>3, <1>4, <1>5, <1>6, <1>7, <1>8, <1>9, <1>10, <1>11, <1>12, <1>13,
     <1>14, <1>15, <1>16, <1>17, <1>18, <1>19, <1>20, <1>21, <1>22, <1>23, <1>24, <1>25, <1>26
  DEF Next, InvokeStep, FinishStep

\* Every step mentions only operations that were begun.
LEMMA IdsNext ==
  ASSUME WellFormed, [Next]_vars
  PROVE  IdsGiven'
<1> USE ConstantsAssumption DEF WellFormed, TypeOK, RestReady, IdsGiven
<1>1. ASSUME NEW o \in Objects, NEW codes \in SUBSET Motors, Create(o, codes)
      PROVE  IdsGiven'
  BY <1>1 DEF Create, Given
<1>2. ASSUME NEW o \in Objects, NEW k \in Methods, Invoke(o, k)
      PROVE  IdsGiven'
  <2>1. /\ UNCHANGED sequence
        /\ registered' \subseteq Given /\ reservations' \subseteq Given /\ snapshot' \subseteq Given
        /\ "rest" \in Threads
    BY <1>2 DEF Invoke, Threads
  <2>2. PICK c \in CallSet : /\ Goes("rest", c) /\ Fresh(c)
                             /\ c.pc = IF k \in Guarded THEN "begin" ELSE "halt"
    BY <1>2, InvokeEffect
  <2>3. c.todo \subseteq Given /\ c.pc \in {"begin", "halt"}
    BY <2>2 DEF Fresh
  <2> QED  BY <2>1, <2>2, <2>3, IdsFrame
<1>3. ASSUME NEW o \in Objects, Delete(o)
      PROVE  IdsGiven'
  <2>1. /\ UNCHANGED sequence
        /\ registered' \subseteq Given /\ reservations' \subseteq Given /\ snapshot' \subseteq Given
        /\ "rest" \in Threads
    BY <1>3 DEF Delete, Threads
  <2>2. \E c \in CallSet : Goes("rest", c) /\ c.todo \subseteq Given /\ c.pc = "off"
    BY <1>3, DeleteEffect DEF Fresh
  <2> QED  BY <2>1, <2>2, IdsFrame
<1>4. CASE Begin
  <2>1. PICK c \in CallSet :
          /\ Goes("rest", c)
          /\ \/ /\ Free(binding[call["rest"].object])
                /\ Fields(c, call["rest"],
                          IF call["rest"].kind = "BLOCKING" THEN "invoke" ELSE "register",
                          sequence + 1, call["rest"].todo, call["rest"].stop)
             \/ /\ Fresh(c) /\ c.pc \in {"idle", "left"}
                /\ UNCHANGED <<sequence, reservations>>
    BY <1>4, BeginEffect DEF Begin
  <2>2. call'["rest"] = c /\ \A u \in Threads \ {"rest"} : call'[u] = call[u]
    BY <2>1 DEF Goes
  <2>3. UNCHANGED <<registered, snapshot>> /\ sequence \in Nat
    BY <1>4 DEF Begin
  <2>4. CASE Fresh(c) /\ c.pc \in {"idle", "left"} /\ UNCHANGED <<sequence, reservations>>
    BY <2>2, <2>3, <2>4 DEF Fresh, Threads, Given
  <2>5. CASE /\ Free(binding[call["rest"].object])
             /\ Fields(c, call["rest"],
                       IF call["rest"].kind = "BLOCKING" THEN "invoke" ELSE "register",
                       sequence + 1, call["rest"].todo, call["rest"].stop)
    <3>1. sequence' = sequence + 1 /\ reservations' = reservations \cup {sequence + 1}
      BY <1>4, <2>5 DEF Begin, NextOperation
    <3>2. Given' = Given \cup {sequence + 1}
      BY <2>3, <3>1 DEF Given
    <3>3. c.todo = call["rest"].todo /\ c.id = sequence + 1
      BY <2>5 DEF Fields
    <3> HIDE DEF Given
    <3> QED  BY <2>2, <2>3, <3>1, <3>2, <3>3 DEF Threads
  <2> QED  BY <2>1, <2>4, <2>5
<1>5. CASE Register
  <2>1. call["rest"].pc = "register" /\ "rest" \in Threads
    BY <1>5 DEF Register, Threads
  <2>2. call["rest"].todo \subseteq Given /\ call["rest"].id \in Given
    BY <2>1
  <2>3. /\ UNCHANGED sequence
        /\ registered' \subseteq Given /\ reservations' \subseteq Given /\ snapshot' \subseteq Given
    BY <1>5, <2>2 DEF Register
  <2>4. \E c \in CallSet : Goes("rest", c) /\ c.todo \subseteq Given /\ c.id \in Given
    BY <1>5, <2>2, RegisterEffect DEF Fields
  <2> QED  BY <2>1, <2>3, <2>4, IdsFrame
<1>6. CASE Method
  <2>1. call["rest"].id \in Given /\ call["rest"].id \in Operations
    BY <1>6, HeldGiven DEF Method, Threads
  <2>2. PICK c \in CallSet :
          /\ Goes("rest", c)
          /\ \/ c.pc \in {"end", "wait"} /\ c.id = call["rest"].id /\ c.todo = call["rest"].todo
             \/ c.pc = "finish" /\ c.todo = {call["rest"].id}
             \/ c.pc \in {"idle", "left"} /\ c.todo = {}
    BY <1>6, <2>1, MethodEffect DEF Fields, Fresh
  <2>3. UNCHANGED <<sequence, registered, reservations, snapshot>>
    BY <1>6 DEF Method
  <2>4. c.todo \subseteq Given /\ (c.pc \in {"end", "wait"} => c.id \in Given)
    BY <2>1, <2>2 DEF Method, Threads
  <2>5. /\ UNCHANGED sequence /\ "rest" \in Threads
        /\ registered' \subseteq Given /\ reservations' \subseteq Given /\ snapshot' \subseteq Given
    BY <2>3 DEF Threads
  <2> QED  BY <2>2, <2>4, <2>5, IdsFrame
<1>7. CASE BlockingReturns
  <2>1. /\ UNCHANGED sequence
        /\ registered' \subseteq Given /\ reservations' \subseteq Given /\ snapshot' \subseteq Given
        /\ "rest" \in Threads
    BY <1>7 DEF BlockingReturns, Threads
  <2>2. call["rest"].todo \subseteq Given /\ call["rest"].id \in Given
    BY <1>7, <2>1 DEF BlockingReturns
  <2>3. \E c \in CallSet : Goes("rest", c) /\ c.todo \subseteq Given /\ c.id \in Given
    BY <1>7, <2>2, BlockingReturnsEffect DEF Fields
  <2> QED  BY <2>1, <2>3, IdsFrame
<1>8. CASE StopMethod
  <2>1. /\ UNCHANGED sequence
        /\ registered' \subseteq Given /\ reservations' \subseteq Given /\ snapshot' \subseteq Given
        /\ "rest" \in Threads
    BY <1>8 DEF StopMethod, Threads
  <2>2. call["rest"].todo \subseteq Given
    BY <2>1
  <2>3. \E c \in CallSet : Goes("rest", c) /\ c.todo \subseteq Given /\ c.pc \in {"collect", "idle", "left"}
    BY <1>8, <2>2, StopMethodEffect DEF Fields, Fresh
  <2> QED  BY <2>1, <2>3, IdsFrame
<1>9. ASSUME NEW t \in Threads, Off(t)
      PROVE  IdsGiven'
  <2>1. /\ UNCHANGED sequence
        /\ registered' \subseteq Given /\ reservations' \subseteq Given /\ snapshot' \subseteq Given
    BY <1>9 DEF Off
  <2>2. call[t].todo \subseteq Given
    OBVIOUS
  <2>3. \E c \in CallSet : Goes(t, c) /\ c.todo \subseteq Given /\ c.pc = "collect"
    BY <1>9, <2>2, OffEffect DEF Fields
  <2> QED  BY <2>1, <2>3, IdsFrame
<1>10. ASSUME NEW t \in Threads, Collect(t)
      PROVE  IdsGiven'
  <2>1. PICK c \in CallSet :
          /\ Goes(t, c)
          /\ \/ Fields(c, call[t], "finish", call[t].id, OperationsOf(call[t].object), call[t].stop)
             \/ Fresh(c) /\ c.pc \in {"idle", "left", "loop"}
    BY <1>10, CollectEffect
  <2>2. call'[t] = c /\ \A u \in Threads \ {t} : call'[u] = call[u]
    BY <2>1 DEF Goes
  <2>3. OperationsOf(call[t].object) \subseteq Given
    BY DEF OperationsOf
  <2>4. c.todo \subseteq Given /\ c.pc \in {"finish", "idle", "left", "loop"}
    BY <2>1, <2>3 DEF Fields, Fresh
  <2>5. UNCHANGED <<sequence, registered, reservations, snapshot>>
    BY <1>10 DEF Collect
  <2> QED  BY <2>2, <2>4, <2>5 DEF Given
<1>11. ASSUME NEW t \in Threads, CallEnds(t)
      PROVE  IdsGiven'
  <2>1. /\ UNCHANGED sequence
        /\ registered' \subseteq Given /\ reservations' \subseteq Given /\ snapshot' \subseteq Given
    BY <1>11 DEF CallEnds
  <2>2. \E c \in CallSet : Goes(t, c) /\ c.todo \subseteq Given /\ c.pc \in {"idle", "left", "loop"}
    BY <1>11, CallEndsEffect DEF Fresh
  <2> QED  BY <2>1, <2>2, IdsFrame
<1>12. ASSUME NEW t \in Threads, Pop(t)
      PROVE  IdsGiven'
  <2>1. PICK i \in call[t].todo, c \in CallSet : Pops(t, i, c)
    BY <1>12, PopEffect
  <2>2. call'[t] = c /\ \A u \in Threads \ {t} : call'[u] = call[u]
    BY <2>1 DEF Goes, Pops
  <2>3. UNCHANGED <<objects, binding, sequence, reservations, snapshot, phase>> /\ call[t].pc = "finish"
    BY <1>12 DEF Pop
  <2>4. registered' \subseteq registered /\ c.todo \subseteq call[t].todo
        /\ c.pc \in {"end", "release", "finish"} /\ c.id \in {i, call[t].id}
        /\ (c.pc # "finish" => c.id = i)
    BY <2>1 DEF Pops
  <2> QED  BY <2>1, <2>2, <2>3, <2>4 DEF Threads, Given
<1>13. ASSUME NEW t \in Threads, EndStop(t)
      PROVE  IdsGiven'
  <2>1. /\ UNCHANGED sequence
        /\ registered' \subseteq Given /\ reservations' \subseteq Given /\ snapshot' \subseteq Given
    BY <1>13 DEF EndStop
  <2>2. call[t].todo \subseteq Given /\ call[t].id \in Given
    BY <1>13 DEF EndStop
  <2>3. \E c \in CallSet : Goes(t, c) /\ c.todo \subseteq Given /\ c.id \in Given
    BY <1>13, <2>2, EndStopEffect DEF Fields
  <2> QED  BY <2>1, <2>3, IdsFrame
<1>14. ASSUME NEW t \in Threads, Release(t)
      PROVE  IdsGiven'
  <2>1. /\ UNCHANGED sequence
        /\ registered' \subseteq Given /\ reservations' \subseteq Given /\ snapshot' \subseteq Given
    BY <1>14 DEF Release
  <2>2. call[t].todo \subseteq Given
    OBVIOUS
  <2>3. \E c \in CallSet : Goes(t, c) /\ c.todo \subseteq Given /\ c.pc = "finish"
    BY <1>14, <2>2, ReleaseEffect DEF Fields
  <2> QED  BY <2>1, <2>3, IdsFrame
<1>15. ASSUME NEW t \in Threads, DeleteNext(t)
      PROVE  IdsGiven'
  <2>1. /\ UNCHANGED sequence
        /\ registered' \subseteq Given /\ reservations' \subseteq Given /\ snapshot' \subseteq Given
    BY <1>15 DEF DeleteNext
  <2>2. call[t].todo \subseteq Given /\ call[t].pc = "loop"
    BY <1>15 DEF DeleteNext
  <2>3. \E c \in CallSet : Goes(t, c) /\ c.todo \subseteq Given /\ c.pc \in {"off", "loop"}
    BY <1>15, <2>2, DeleteNextEffect DEF Fresh
  <2> QED  BY <2>1, <2>3, IdsFrame
<1>16. ASSUME NEW i \in Operations, DeadlinePasses(i)
      PROVE  IdsGiven'
  BY <1>16 DEF DeadlinePasses, Given
<1>17. ASSUME NEW i \in Operations, MotionEnds(i)
      PROVE  IdsGiven'
  BY <1>17 DEF MotionEnds, Given
<1>18. CASE Refresh
  BY <1>18 DEF Refresh, Given
<1>19. CASE Cycle
  <2>1. /\ UNCHANGED sequence /\ "lifecycle" \in Threads
        /\ registered' \subseteq Given /\ reservations' \subseteq Given /\ snapshot' \subseteq Given
        /\ call' = [call EXCEPT !["lifecycle"].pc = "loop"]
    BY <1>19 DEF Cycle, Threads
  <2>2. call["lifecycle"].todo \subseteq Given
    BY <2>1
  <2>3. \E c \in CallSet : Goes("lifecycle", c) /\ c.todo \subseteq Given /\ c.pc = "loop"
    BY <2>1, <2>2, LoopEffect DEF Fields
  <2> QED  BY <2>1, <2>3, IdsFrame
<1>20. CASE Scan
  <2>1. "lifecycle" \in Threads /\ call["lifecycle"].pc = "loop"
    BY <1>20 DEF Scan, Threads
  <2>2. call["lifecycle"].todo \subseteq Given
    BY <2>1
  <2>3. PICK i \in snapshot, c \in CallSet :
          /\ snapshot' = snapshot \ {i} /\ Goes("lifecycle", c)
          /\ c.pc \in {"finish", "loop"} /\ c.todo \in {{i}, call["lifecycle"].todo}
    BY <1>20, <2>1, ScanEffect DEF Fields
  <2>4. /\ UNCHANGED sequence
        /\ registered' \subseteq Given /\ reservations' \subseteq Given /\ snapshot' \subseteq Given
    BY <1>20, <2>3 DEF Scan
  <2>5. c.todo \subseteq Given
    BY <2>2, <2>3
  <2> QED  BY <2>1, <2>3, <2>4, <2>5, IdsFrame
<1>21. CASE Expire
  BY <1>21 DEF Expire, Given
<1>22. CASE CycleEnds
  <2>1. /\ UNCHANGED sequence /\ "lifecycle" \in Threads
        /\ registered' \subseteq Given /\ reservations' \subseteq Given /\ snapshot' \subseteq Given
        /\ call' = [call EXCEPT !["lifecycle"] = NoCall]
    BY <1>22 DEF CycleEnds, Threads
  <2>2. \E c \in CallSet : Goes("lifecycle", c) /\ c.todo \subseteq Given /\ c.pc = "idle"
    BY <2>1, RestsEffect DEF Fresh
  <2> QED  BY <2>1, <2>2, IdsFrame
<1>23. CASE StopRest
  BY <1>23 DEF StopRest, Given
<1>24. CASE Close
  <2>1. /\ UNCHANGED sequence /\ "closer" \in Threads
        /\ registered' \subseteq Given /\ reservations' \subseteq Given /\ snapshot' \subseteq Given
        /\ call' = [call EXCEPT !["closer"].pc = "loop"]
    BY <1>24 DEF Close, Threads
  <2>2. call["closer"].todo \subseteq Given
    BY <2>1
  <2>3. \E c \in CallSet : Goes("closer", c) /\ c.todo \subseteq Given /\ c.pc = "loop"
    BY <2>1, <2>2, LoopEffect DEF Fields
  <2> QED  BY <2>1, <2>3, IdsFrame
<1>25. CASE Closed
  <2>1. /\ UNCHANGED sequence /\ "closer" \in Threads
        /\ registered' \subseteq Given /\ reservations' \subseteq Given /\ snapshot' \subseteq Given
        /\ call' = [call EXCEPT !["closer"] = NoCall]
    BY <1>25 DEF Closed, Threads
  <2>2. \E c \in CallSet : Goes("closer", c) /\ c.todo \subseteq Given /\ c.pc = "idle"
    BY <2>1, RestsEffect DEF Fresh
  <2> QED  BY <2>1, <2>2, IdsFrame
<1>26. CASE UNCHANGED vars
  BY <1>26 DEF vars, Given
<1> HIDE DEF WellFormed, TypeOK, RestReady, IdsGiven
<1> QED
  BY <1>1, <1>2, <1>3, <1>4, <1>5, <1>6, <1>7, <1>8, <1>9, <1>10, <1>11, <1>12, <1>13,
     <1>14, <1>15, <1>16, <1>17, <1>18, <1>19, <1>20, <1>21, <1>22, <1>23, <1>24, <1>25, <1>26
  DEF Next, InvokeStep, FinishStep

\* The objects stay finitely many.
LEMMA FiniteNext ==
  ASSUME WellFormed, [Next]_vars
  PROVE  IsFiniteSet(objects)'
<1>1. ASSUME NEW o \in Objects, NEW codes \in SUBSET Motors, Create(o, codes)
      PROVE  IsFiniteSet(objects)'
  BY <1>1, ObjectsCounted DEF WellFormed, Create
<1>2. ASSUME NEW t \in Threads, CallEnds(t)
      PROVE  IsFiniteSet(objects)'
  BY <1>2, ObjectsCounted DEF WellFormed, CallEnds
<1>3. CASE UNCHANGED objects
  BY <1>3 DEF WellFormed
<1>4. \/ \E o \in Objects, codes \in SUBSET Motors : Create(o, codes)
      \/ \E t \in Threads : CallEnds(t)
      \/ UNCHANGED objects
  BY DEF Next, InvokeStep, FinishStep, vars, Invoke, Delete, Begin, Register, Method, BlockingReturns,
         StopMethod, Off, Collect, Pop, EndStop, Release, DeleteNext, DeadlinePasses, MotionEnds,
         Refresh, Cycle, Scan, Expire, CycleEnds, StopRest, Close, Closed
<1> QED  BY <1>1, <1>2, <1>3, <1>4

\* Hence every step keeps WellFormed.
LEMMA WellFormedNext == WellFormed /\ [Next]_vars => WellFormed'
BY TypeNext, ReadyNext, IdsNext, FiniteNext DEF WellFormed

\* The objects, operations and calls of the gateway keep their types, for every set of
\* motors, objects and methods.
THEOREM GatewayTypes == Spec => []TypeOK
<1>1. WellFormed => TypeOK
  BY DEF WellFormed
<1> QED  BY WellFormedInit, WellFormedNext, <1>1, PTL DEF Spec

-----------------------------------------------------------------------------
(* Reservations.                                                           *)

\* A reserved operation is in _operations or with the one thread that holds it, and
\* the reserved motors are divided among the reserved operations.
Settled ==
  /\ registered \subseteq reservations
  /\ \A i \in reservations \ registered : \E t \in Threads : Holds(t, i)
  /\ \A t \in Threads, i \in Operations : Holds(t, i) => i \in reservations \ registered
  /\ \A t \in Threads, u \in Threads, i \in Operations : Holds(t, i) /\ Holds(u, i) => t = u
  /\ \A i \in reservations : operation[i].motors # {}
  /\ \A i \in reservations, j \in reservations :
       i # j => operation[i].motors \cap operation[j].motors = {}
  /\ activeCodes = UNION {operation[i].motors : i \in reservations}

\* A step that leaves the registries alone and moves no call into or out of holding.
LEMMA SettledFrame ==
  ASSUME TypeOK, Settled, UNCHANGED <<registered, reservations, activeCodes, operation>>,
         \A t \in Threads, i \in Operations : Holds(t, i)' <=> Holds(t, i)
  PROVE  Settled'
BY DEF Settled, TypeOK

\* A thread that goes from a step without an operation to another holds none.
LEMMA NobodyHolds ==
  ASSUME NEW t \in Threads, call[t].pc \notin {"register", "invoke", "wait", "end", "release"},
         NEW c, Goes(t, c), c.pc \notin {"register", "invoke", "wait", "end", "release"}
  PROVE  \A u \in Threads, i \in Operations : Holds(u, i)' <=> Holds(u, i)
BY DEF Holds, Goes

\* Whether a call holds an operation is a matter of its own fields.
HeldBy(c, i) ==
  /\ c.id = i
  /\ \/ c.pc \in {"register", "wait", "end", "release"}
     \/ c.pc = "invoke" /\ c.kind = "BLOCKING"

\* A thread whose call holds what it held changes nothing for anybody.
LEMMA HoldsFrame ==
  ASSUME NEW t \in Threads, NEW c, Goes(t, c),
         \A i \in Operations : HeldBy(c, i) <=> HeldBy(call[t], i)
  PROVE  \A u \in Threads, i \in Operations : Holds(u, i)' <=> Holds(u, i)
<1> SUFFICES ASSUME NEW u \in Threads, NEW i \in Operations
             PROVE  Holds(u, i)' <=> Holds(u, i)
  OBVIOUS
<1>1. /\ Holds(u, i) <=> HeldBy(call[u], i)
      /\ Holds(u, i)' <=> HeldBy(call'[u], i)
  BY DEF Holds, HeldBy
<1>2. CASE u = t
  BY <1>1, <1>2 DEF Goes
<1>3. CASE u # t
  <2>1. call'[u] = call[u]
    BY <1>3 DEF Goes
  <2> QED  BY <1>1, <2>1
<1> QED  BY <1>2, <1>3

\* A call that goes on from one step that holds to another holds what it held.
LEMMA SameHeld ==
  ASSUME NEW c, NEW d, d.id = c.id,
         \/ c.pc \in {"register", "wait", "end", "release"}
         \/ c.pc = "invoke" /\ c.kind = "BLOCKING",
         d.pc \in {"register", "wait", "end", "release"}
  PROVE  \A i \in Operations : HeldBy(d, i) <=> HeldBy(c, i)
BY DEF HeldBy

\* It holds nothing at the other steps, whatever its fields.
LEMMA NoneHeld ==
  ASSUME NEW c, NEW d,
         c.pc \notin {"register", "wait", "end", "release"},
         c.pc = "invoke" => c.kind # "BLOCKING",
         d.pc \notin {"register", "invoke", "wait", "end", "release"}
  PROVE  \A i \in Operations : HeldBy(d, i) <=> HeldBy(c, i)
BY DEF HeldBy


\* Nothing is reserved at first.
LEMMA SettledInit == Init => Settled
<1> SUFFICES ASSUME Init  PROVE Settled
  OBVIOUS
<1>1. \A t \in Threads, i \in Operations : ~Holds(t, i)
  BY NoCallFresh DEF Init, Holds
<1> QED  BY <1>1 DEF Init, Settled

\* Registering hands the reservation from the thread to the registry.
LEMMA SettledRegister ==
  ASSUME WellFormed, Settled, Register
  PROVE  Settled'
<1> DEFINE i == call["rest"].id
<1>1. i \in Operations /\ Holds("rest", i) /\ "rest" \in Threads
  BY HeldGiven DEF Register, Holds, Threads
<1>2. i \in reservations \ registered
  BY <1>1 DEF Settled
<1>3. PICK c \in CallSet :
        /\ Goes("rest", c)
        /\ Fields(c, call["rest"], "invoke", i, call["rest"].todo, call["rest"].stop)
  BY RegisterEffect DEF WellFormed
<1>4. c.pc = "invoke" /\ c.kind # "BLOCKING"
  BY <1>3 DEF Fields, WellFormed, RestReady, Register
<1>5. \A j \in Operations : ~Holds("rest", j)'
  BY <1>3, <1>4 DEF Goes, Holds
<1>6. \A u \in Threads \ {"rest"}, j \in Operations : Holds(u, j)' <=> Holds(u, j)
  BY <1>3 DEF Goes, Holds
<1>7. \A u \in Threads \ {"rest"} : ~Holds(u, i)
  BY <1>1 DEF Settled
<1>8. registered' = registered \cup {i} /\ UNCHANGED <<reservations, operation, activeCodes>>
  BY DEF Register
<1>9. \A j \in Operations : j # i => ~Holds("rest", j)
  BY DEF Holds
<1> HIDE DEF i
<1> USE DEF Settled
<1>10. registered' \subseteq reservations'
  BY <1>2, <1>8
<1>11. \A j \in reservations' \ registered' : \E t \in Threads : Holds(t, j)'
  BY <1>6, <1>8, <1>9 DEF WellFormed, TypeOK
<1>12. \A t \in Threads, j \in Operations : Holds(t, j)' => j \in reservations' \ registered'
  BY <1>5, <1>6, <1>7, <1>8
<1>13. \A t \in Threads, u \in Threads, j \in Operations : Holds(t, j)' /\ Holds(u, j)' => t = u
  BY <1>5, <1>6
<1> QED  BY <1>8, <1>10, <1>11, <1>12, <1>13

\* Taking an operation hands it from the registry to one thread.
LEMMA SettledPop ==
  ASSUME WellFormed, Settled, NEW t \in Threads, Pop(t)
  PROVE  Settled'
<1>1. PICK i \in call[t].todo, c \in CallSet : Pops(t, i, c)
  BY PopEffect DEF WellFormed
<1>2. i \in Operations /\ call[t] \in CallSet
  BY DEF WellFormed, TypeOK, CallSet
<1>3. Goes(t, c) /\ registered' = registered \ {i} /\ UNCHANGED <<reservations, operation, activeCodes>>
  BY <1>1 DEF Pop, Pops
<1>4. \A j \in Operations : ~Holds(t, j)
  BY DEF Pop, Holds
<1>5. \A u \in Threads \ {t}, j \in Operations : Holds(u, j)' <=> Holds(u, j)
  BY <1>3 DEF Goes, Holds
<1>6. CASE i \notin registered
  <2>1. c.pc = "finish"
    BY <1>1, <1>6 DEF Pops
  <2>2. \A j \in Operations : ~Holds(t, j)'
    BY <1>3, <2>1 DEF Goes, Holds
  <2>3. \A u \in Threads, j \in Operations : Holds(u, j)' <=> Holds(u, j)
    BY <1>4, <1>5, <2>2
  <2> QED  BY <1>3, <1>6, <2>3, SettledFrame DEF WellFormed
<1>7. CASE i \in registered
  <2>1. c.pc \in {"end", "release"} /\ c.id = i
    BY <1>1, <1>7 DEF Pops
  <2>2. \A j \in Operations : Holds(t, j)' <=> j = i
    BY <1>2, <1>3, <2>1 DEF Goes, Holds
  <2>3. \A u \in Threads : ~Holds(u, i)
    BY <1>2, <1>7 DEF Settled
  <2> USE DEF Settled
  <2>4. registered' \subseteq reservations'
    BY <1>3
  <2>5. \A j \in reservations' \ registered' : \E u \in Threads : Holds(u, j)'
    <3> SUFFICES ASSUME NEW j \in reservations, j \notin registered \ {i}
                 PROVE  \E u \in Threads : Holds(u, j)'
      BY <1>3
    <3>1. CASE j = i
      BY <1>2, <2>2, <3>1
    <3>2. CASE j # i
      <4>1. PICK u \in Threads : Holds(u, j)
        BY <3>2
      <4>2. u # t /\ j \in Operations
        BY <1>4, <4>1 DEF WellFormed, TypeOK
      <4> QED  BY <1>5, <4>1, <4>2
    <3> QED  BY <3>1, <3>2
  <2>6. \A u \in Threads, j \in Operations : Holds(u, j)' => j \in reservations' \ registered'
    BY <1>3, <1>5, <1>7, <2>2
  <2>7. \A u \in Threads, v \in Threads, j \in Operations : Holds(u, j)' /\ Holds(v, j)' => u = v
    BY <1>5, <2>2, <2>3
  <2> QED  BY <1>3, <2>4, <2>5, <2>6, <2>7
<1> QED  BY <1>6, <1>7

\* Releasing it gives back its motors and nobody else's.
LEMMA SettledRelease ==
  ASSUME WellFormed, Settled, NEW t \in Threads, Release(t)
  PROVE  Settled'
<1> DEFINE i == call[t].id
<1>1. i \in Operations /\ Holds(t, i)
  BY HeldGiven DEF Release, Holds
<1>2. i \in reservations \ registered /\ \A u \in Threads \ {t} : ~Holds(u, i)
  BY <1>1 DEF Settled
<1>3. PICK c \in CallSet : Goes(t, c) /\ Fields(c, call[t], "finish", Nobody, call[t].todo, call[t].stop)
  BY ReleaseEffect DEF WellFormed
<1>4. c.pc = "finish"
  BY <1>3 DEF Fields
<1>5. \A j \in Operations : ~Holds(t, j)'
  BY <1>3, <1>4 DEF Goes, Holds
<1>6. \A u \in Threads \ {t}, j \in Operations : Holds(u, j)' <=> Holds(u, j)
  BY <1>3 DEF Goes, Holds
<1>7. \A j \in Operations : j # i => ~Holds(t, j)
  BY DEF Holds
<1>8. /\ reservations' = reservations \ {i}
      /\ activeCodes' = activeCodes \ operation[i].motors
      /\ UNCHANGED <<registered, operation>>
  BY <1>2 DEF Release, Released
<1> HIDE DEF i
<1> USE DEF Settled
<1>9. registered' \subseteq reservations'
  BY <1>2, <1>8
<1>10. \A j \in reservations' \ registered' : \E u \in Threads : Holds(u, j)'
  BY <1>6, <1>7, <1>8 DEF WellFormed, TypeOK
<1>11. \A u \in Threads, j \in Operations : Holds(u, j)' => j \in reservations' \ registered'
  BY <1>2, <1>5, <1>6, <1>8
<1>12. \A u \in Threads, v \in Threads, j \in Operations : Holds(u, j)' /\ Holds(v, j)' => u = v
  BY <1>5, <1>6
<1>13. activeCodes' = UNION {operation[j].motors : j \in reservations'}
  <2>1. \A j \in reservations : j # i => operation[j].motors \cap operation[i].motors = {}
    BY <1>2
  <2> QED  BY <1>2, <1>8, <2>1
<1> QED  BY <1>8, <1>9, <1>10, <1>11, <1>12, <1>13

\* Beginning takes free motors only.
LEMMA SettledBegin ==
  ASSUME WellFormed, Settled, Begin
  PROVE  Settled'
<1> DEFINE i == sequence + 1
           codes == binding[call["rest"].object]
<1>1. PICK c \in CallSet :
        /\ Goes("rest", c)
        /\ \/ /\ Free(codes) /\ i \in Operations
              /\ Fields(c, call["rest"],
                        IF call["rest"].kind = "BLOCKING" THEN "invoke" ELSE "register",
                        i, call["rest"].todo, call["rest"].stop)
           \/ /\ Fresh(c) /\ c.pc \in {"idle", "left"}
              /\ UNCHANGED <<operation, reservations, activeCodes>>
  BY BeginEffect DEF WellFormed, RestReady, Begin
<1>2. \A j \in Operations : ~Holds("rest", j)
  BY DEF Begin, Holds
<1>3. \A u \in Threads \ {"rest"}, j \in Operations : Holds(u, j)' <=> Holds(u, j)
  BY <1>1 DEF Goes, Holds
<1>4. registered' = registered /\ "rest" \in Threads /\ call'["rest"] = c
  BY <1>1 DEF Begin, Threads, Goes
<1>5. CASE Fresh(c) /\ c.pc \in {"idle", "left"} /\ UNCHANGED <<operation, reservations, activeCodes>>
  <2>1. \A j \in Operations : ~Holds("rest", j)'
    BY <1>4, <1>5 DEF Holds
  <2>2. \A u \in Threads, j \in Operations : Holds(u, j)' <=> Holds(u, j)
    BY <1>2, <1>3, <2>1
  <2> QED  BY <1>4, <1>5, <2>2, SettledFrame DEF WellFormed
<1>6. CASE /\ Free(codes) /\ i \in Operations
           /\ Fields(c, call["rest"],
                     IF call["rest"].kind = "BLOCKING" THEN "invoke" ELSE "register",
                     i, call["rest"].todo, call["rest"].stop)
  <2>1. /\ c.id = i
        /\ c.pc = "register" \/ (c.pc = "invoke" /\ c.kind = "BLOCKING")
    BY <1>6 DEF Fields
  <2>2. \A j \in Operations : Holds("rest", j)' <=> j = i
    BY <1>4, <1>6, <2>1 DEF Holds
  <2>3. i \notin reservations /\ i \notin registered
    BY DEF WellFormed, IdsGiven, Given, TypeOK
  <2>4. /\ operation' \in [Operations -> [object : Objects \cup {NoObject}, motors : SUBSET Motors,
                                          kind : Kinds \cup {"NONE"}]]
        /\ operation'[i].motors = codes
        /\ \A j \in Operations : j # i => operation'[j] = operation[j]
        /\ reservations' = reservations \cup {i}
        /\ activeCodes' = activeCodes \cup codes
    <3>1. operation' = [operation EXCEPT ![i] =
            [object |-> call["rest"].object, motors |-> codes, kind |-> call["rest"].kind]]
      BY <1>6 DEF Begin, NextOperation
    <3>2. operation \in [Operations -> [object : Objects \cup {NoObject}, motors : SUBSET Motors,
                                        kind : Kinds \cup {"NONE"}]]
      BY DEF WellFormed, TypeOK
    <3>3. [object |-> call["rest"].object, motors |-> codes, kind |-> call["rest"].kind].motors = codes
      OBVIOUS
    <3>4. TypeOK'
      BY TypeNext DEF Next, InvokeStep
    <3>5. reservations' = reservations \cup {i} /\ activeCodes' = activeCodes \cup codes
      BY <1>6 DEF Begin, NextOperation
    <3> HIDE DEF codes
    <3> QED  BY <1>6, <3>1, <3>2, <3>3, <3>4, <3>5 DEF TypeOK
  <2>5. codes # {} /\ codes \cap activeCodes = {}
    BY <1>6 DEF WellFormed, RestReady, Begin, Free
  <2>6. reservations \subseteq Operations
    BY DEF WellFormed, TypeOK
  <2> HIDE DEF i, codes
  <2> USE DEF Settled
  <2>7. registered' \subseteq reservations'
    BY <1>4, <2>4
  <2>8. \A j \in reservations' \ registered' : \E u \in Threads : Holds(u, j)'
    <3> SUFFICES ASSUME NEW j \in reservations \cup {i}, j \notin registered
                 PROVE  \E u \in Threads : Holds(u, j)'
      BY <1>4, <2>4
    <3>1. CASE j = i
      BY <1>4, <1>6, <2>2, <3>1
    <3>2. CASE j # i
      <4>1. PICK u \in Threads : Holds(u, j)
        BY <3>2
      <4>2. u # "rest" /\ j \in Operations
        BY <1>2, <2>6, <3>2, <4>1
      <4> QED  BY <1>3, <4>1, <4>2
    <3> QED  BY <3>1, <3>2
  <2>9. \A u \in Threads, j \in Operations : Holds(u, j)' => j \in reservations' \ registered'
    BY <1>3, <1>4, <2>2, <2>3, <2>4
  <2>10. \A u \in Threads, v \in Threads, j \in Operations : Holds(u, j)' /\ Holds(v, j)' => u = v
    BY <1>3, <2>2, <2>3
  <2>11. \A j \in reservations : operation'[j] = operation[j] /\ operation[j].motors \cap codes = {}
    BY <2>3, <2>4, <2>5, <2>6
  <2>12. \A j \in reservations' : operation'[j].motors # {}
    BY <2>4, <2>5, <2>11
  <2>13. \A j \in reservations', k \in reservations' :
          j # k => operation'[j].motors \cap operation'[k].motors = {}
    BY <2>4, <2>11
  <2>14. activeCodes' = UNION {operation'[j].motors : j \in reservations'}
    BY <2>4, <2>11
  <2> QED  BY <2>7, <2>8, <2>9, <2>10, <2>12, <2>13, <2>14
<1> QED  BY <1>1, <1>5, <1>6

\* Hence every step keeps Settled.
LEMMA SettledNext ==
  ASSUME WellFormed, Settled, [Next]_vars
  PROVE  Settled'
<1> USE DEF WellFormed
<1>1. ASSUME NEW o \in Objects, NEW codes \in SUBSET Motors, Create(o, codes)
      PROVE  Settled'
  <2>1. \A t \in Threads, i \in Operations : Holds(t, i)' <=> Holds(t, i)
    BY <1>1 DEF Create, Holds
  <2> QED  BY <1>1, <2>1, SettledFrame DEF Create
<1>2. ASSUME NEW o \in Objects, NEW k \in Methods, Invoke(o, k)
      PROVE  Settled'
  <2>1. /\ call["rest"].pc = "idle"
        /\ \E c \in CallSet : Goes("rest", c) /\ c.pc \in {"begin", "halt"}
    <3>1. PICK c \in CallSet : Goes("rest", c) /\ c.pc = IF k \in Guarded THEN "begin" ELSE "halt"
      BY <1>2, InvokeEffect
    <3>2. c.pc \in {"begin", "halt"} /\ call["rest"].pc = "idle"
      BY <1>2, <3>1 DEF Invoke, RestMayStart
    <3> QED  BY <3>1, <3>2
  <2>2. \A u \in Threads, i \in Operations : Holds(u, i)' <=> Holds(u, i)
    BY <2>1, NobodyHolds DEF Threads
  <2> QED  BY <1>2, <2>2, SettledFrame DEF Invoke
<1>3. ASSUME NEW o \in Objects, Delete(o)
      PROVE  Settled'
  <2>1. /\ call["rest"].pc = "idle"
        /\ \E c \in CallSet : Goes("rest", c) /\ c.pc = "off"
    BY <1>3, DeleteEffect DEF Delete, RestMayStart
  <2>2. \A u \in Threads, i \in Operations : Holds(u, i)' <=> Holds(u, i)
    BY <2>1, NobodyHolds DEF Threads
  <2> QED  BY <1>3, <2>2, SettledFrame DEF Delete
<1>4. CASE Begin
  BY <1>4, SettledBegin
<1>5. CASE Register
  BY <1>5, SettledRegister
<1>6. CASE Method
  <2>1. \A u \in Threads, i \in Operations : Holds(u, i)' <=> Holds(u, i)
    <3>1. call["rest"].pc = "invoke" /\ "rest" \in Threads
      BY <1>6 DEF Method, Threads
    <3>2. call["rest"].id \in Operations
      BY <3>1, HeldGiven
    <3>3. PICK c \in CallSet :
           /\ Goes("rest", c)
           /\ \/ call["rest"].kind = "BLOCKING" /\ c.id = call["rest"].id /\ c.pc \in {"end", "wait"}
              \/ call["rest"].kind # "BLOCKING" /\ c.pc \in {"finish", "idle", "left"}
      BY <1>6, <3>2, MethodEffect DEF Fields
    <3>4. CASE call["rest"].kind = "BLOCKING"
      BY <3>1, <3>3, <3>4, SameHeld, HoldsFrame
    <3>5. CASE call["rest"].kind # "BLOCKING"
      BY <3>1, <3>3, <3>5, NoneHeld, HoldsFrame
    <3> QED  BY <3>4, <3>5
  <2> QED  BY <1>6, <2>1, SettledFrame DEF Method
<1>7. CASE BlockingReturns
  <2>1. \A u \in Threads, i \in Operations : Holds(u, i)' <=> Holds(u, i)
    <3>1. call["rest"].pc = "wait" /\ "rest" \in Threads
      BY <1>7 DEF BlockingReturns, Threads
    <3>2. PICK c \in CallSet :
           Goes("rest", c) /\ c.id = call["rest"].id /\ c.pc = "release"
      BY <1>7, BlockingReturnsEffect DEF Fields
    <3> QED  BY <3>1, <3>2, SameHeld, HoldsFrame
  <2> QED  BY <1>7, <2>1, SettledFrame DEF BlockingReturns
<1>8. CASE StopMethod
  <2>1. \A u \in Threads, i \in Operations : Holds(u, i)' <=> Holds(u, i)
    <3>1. call["rest"].pc = "halt" /\ "rest" \in Threads
      BY <1>8 DEF StopMethod, Threads
    <3>2. PICK c \in CallSet : Goes("rest", c) /\ c.pc \in {"collect", "idle", "left"}
      BY <1>8, StopMethodEffect DEF Fields
    <3> QED  BY <3>1, <3>2, NoneHeld, HoldsFrame
  <2> QED  BY <1>8, <2>1, SettledFrame DEF StopMethod
<1>9. ASSUME NEW t \in Threads, Off(t)
      PROVE  Settled'
  <2>1. \A u \in Threads, i \in Operations : Holds(u, i)' <=> Holds(u, i)
    <3>1. call[t].pc = "off"
      BY <1>9 DEF Off
    <3>2. PICK c \in CallSet : Goes(t, c) /\ c.pc = "collect"
      BY <1>9, OffEffect DEF Fields
    <3> QED  BY <3>1, <3>2, NoneHeld, HoldsFrame
  <2> QED  BY <1>9, <2>1, SettledFrame DEF Off
<1>10. ASSUME NEW t \in Threads, Collect(t)
      PROVE  Settled'
  <2>1. \A u \in Threads, i \in Operations : Holds(u, i)' <=> Holds(u, i)
    <3>1. call[t].pc = "collect"
      BY <1>10 DEF Collect
    <3>2. PICK c \in CallSet : Goes(t, c) /\ c.pc \in {"finish", "idle", "left", "loop"}
      BY <1>10, CollectEffect DEF Fields
    <3> QED  BY <3>1, <3>2, NoneHeld, HoldsFrame
  <2> QED  BY <1>10, <2>1, SettledFrame DEF Collect
<1>11. ASSUME NEW t \in Threads, CallEnds(t)
      PROVE  Settled'
  <2>1. \A u \in Threads, i \in Operations : Holds(u, i)' <=> Holds(u, i)
    <3>1. call[t].pc = "finish"
      BY <1>11 DEF CallEnds
    <3>2. PICK c \in CallSet : Goes(t, c) /\ c.pc \in {"idle", "left", "loop"}
      BY <1>11, CallEndsEffect
    <3> QED  BY <3>1, <3>2, NoneHeld, HoldsFrame
  <2> QED  BY <1>11, <2>1, SettledFrame DEF CallEnds
<1>12. ASSUME NEW t \in Threads, Pop(t)
      PROVE  Settled'
  BY <1>12, SettledPop
<1>13. ASSUME NEW t \in Threads, EndStop(t)
      PROVE  Settled'
  <2>1. \A u \in Threads, i \in Operations : Holds(u, i)' <=> Holds(u, i)
    <3>1. call[t].pc = "end"
      BY <1>13 DEF EndStop
    <3>2. PICK c \in CallSet : Goes(t, c) /\ c.id = call[t].id /\ c.pc = "release"
      BY <1>13, EndStopEffect DEF Fields
    <3> QED  BY <3>1, <3>2, SameHeld, HoldsFrame
  <2> QED  BY <1>13, <2>1, SettledFrame DEF EndStop
<1>14. ASSUME NEW t \in Threads, Release(t)
      PROVE  Settled'
  BY <1>14, SettledRelease
<1>15. ASSUME NEW t \in Threads, DeleteNext(t)
      PROVE  Settled'
  <2>1. /\ call[t].pc = "loop"
        /\ \E c \in CallSet : Goes(t, c) /\ c.pc \in {"loop", "off"}
    <3>1. call[t].pc = "loop"
      BY <1>15 DEF DeleteNext
    <3> QED  BY <1>15, <3>1, DeleteNextEffect
  <2>2. \A u \in Threads, i \in Operations : Holds(u, i)' <=> Holds(u, i)
    BY <2>1, NobodyHolds DEF Threads
  <2> QED  BY <1>15, <2>2, SettledFrame DEF DeleteNext
<1>16. ASSUME NEW i \in Operations, DeadlinePasses(i)
      PROVE  Settled'
  <2>1. \A t \in Threads, j \in Operations : Holds(t, j)' <=> Holds(t, j)
    BY <1>16 DEF DeadlinePasses, Holds
  <2> QED  BY <1>16, <2>1, SettledFrame DEF DeadlinePasses
<1>17. ASSUME NEW i \in Operations, MotionEnds(i)
      PROVE  Settled'
  <2>1. \A t \in Threads, j \in Operations : Holds(t, j)' <=> Holds(t, j)
    BY <1>17 DEF MotionEnds, Holds
  <2> QED  BY <1>17, <2>1, SettledFrame DEF MotionEnds
<1>18. CASE Refresh
  <2>1. \A t \in Threads, i \in Operations : Holds(t, i)' <=> Holds(t, i)
    BY <1>18 DEF Refresh, Holds
  <2> QED  BY <1>18, <2>1, SettledFrame DEF Refresh
<1>19. CASE Cycle
  <2>1. \A u \in Threads, i \in Operations : Holds(u, i)' <=> Holds(u, i)
    <3>1. call["lifecycle"].pc = "idle" /\ "lifecycle" \in Threads
          /\ call' = [call EXCEPT !["lifecycle"].pc = "loop"]
      BY <1>19 DEF Cycle, Threads
    <3>2. PICK c \in CallSet : Goes("lifecycle", c) /\ c.pc = "loop"
      BY <3>1, LoopEffect DEF Fields
    <3> QED  BY <3>1, <3>2, NoneHeld, HoldsFrame
  <2> QED  BY <1>19, <2>1, SettledFrame DEF Cycle
<1>20. CASE Scan
  <2>1. \A u \in Threads, i \in Operations : Holds(u, i)' <=> Holds(u, i)
    <3>1. call["lifecycle"].pc = "loop" /\ "lifecycle" \in Threads
      BY <1>20 DEF Scan, Threads
    <3>2. PICK c \in CallSet : Goes("lifecycle", c) /\ c.pc \in {"finish", "loop"}
      BY <1>20, <3>1, ScanEffect DEF Fields
    <3> QED  BY <3>1, <3>2, NoneHeld, HoldsFrame
  <2> QED  BY <1>20, <2>1, SettledFrame DEF Scan
<1>21. CASE Expire
  <2>1. \A t \in Threads, i \in Operations : Holds(t, i)' <=> Holds(t, i)
    BY <1>21 DEF Expire, Holds
  <2> QED  BY <1>21, <2>1, SettledFrame DEF Expire
<1>22. CASE CycleEnds
  <2>1. \A u \in Threads, i \in Operations : Holds(u, i)' <=> Holds(u, i)
    <3>1. call["lifecycle"].pc = "loop" /\ "lifecycle" \in Threads
          /\ call' = [call EXCEPT !["lifecycle"] = NoCall]
      BY <1>22 DEF CycleEnds, Threads
    <3>2. PICK c \in CallSet : Goes("lifecycle", c) /\ c.pc = "idle"
      BY <3>1, RestsEffect
    <3> QED  BY <3>1, <3>2, NoneHeld, HoldsFrame
  <2> QED  BY <1>22, <2>1, SettledFrame DEF CycleEnds
<1>23. CASE StopRest
  <2>1. \A t \in Threads, i \in Operations : Holds(t, i)' <=> Holds(t, i)
    BY <1>23 DEF StopRest, Holds
  <2> QED  BY <1>23, <2>1, SettledFrame DEF StopRest
<1>24. CASE Close
  <2>1. /\ call["closer"].pc = "idle"
        /\ \E c \in CallSet : Goes("closer", c) /\ c.pc = "loop"
    <3>1. call' = [call EXCEPT !["closer"].pc = "loop"] /\ call["closer"].pc = "idle"
      BY <1>24 DEF Close, RestReady
    <3> QED  BY <3>1, LoopEffect DEF Fields, Threads
  <2>2. \A u \in Threads, i \in Operations : Holds(u, i)' <=> Holds(u, i)
    BY <2>1, NobodyHolds DEF Threads
  <2> QED  BY <1>24, <2>2, SettledFrame DEF Close
<1>25. CASE Closed
  <2>1. \A u \in Threads, i \in Operations : Holds(u, i)' <=> Holds(u, i)
    <3>1. call["closer"].pc = "loop" /\ "closer" \in Threads
          /\ call' = [call EXCEPT !["closer"] = NoCall]
      BY <1>25 DEF Closed, Threads
    <3>2. PICK c \in CallSet : Goes("closer", c) /\ c.pc = "idle"
      BY <3>1, RestsEffect
    <3> QED  BY <3>1, <3>2, NoneHeld, HoldsFrame
  <2> QED  BY <1>25, <2>1, SettledFrame DEF Closed
<1>26. CASE UNCHANGED vars
  <2>1. \A t \in Threads, i \in Operations : Holds(t, i)' <=> Holds(t, i)
    BY <1>26 DEF vars, Holds
  <2> QED  BY <1>26, <2>1, SettledFrame DEF vars
<1> QED
  BY <1>1, <1>2, <1>3, <1>4, <1>5, <1>6, <1>7, <1>8, <1>9, <1>10, <1>11, <1>12, <1>13,
     <1>14, <1>15, <1>16, <1>17, <1>18, <1>19, <1>20, <1>21, <1>22, <1>23, <1>24, <1>25, <1>26
  DEF Next, InvokeStep, FinishStep

\* However an invoke, a deadline, an expiry, a deletion and close meet, and whatever
\* native call raises: no reservation of MotorGuardedOperationManager is leaked, and the
\* motors it refuses are those of the reserved operations.
THEOREM ReservationsAreSettled == Spec => []ReservationsSettled
<1>1. Init => Settled
  BY SettledInit
<1>2. WellFormed /\ Settled => ReservationsSettled
  BY DEF WellFormed, TypeOK, Settled, ReservationsSettled
<1>3. WellFormed /\ Settled /\ [Next]_vars => Settled'
  BY SettledNext
<1> QED  BY <1>1, <1>2, <1>3, WellFormedInit, WellFormedNext, PTL DEF Spec

-----------------------------------------------------------------------------
(* The gateway implements MotorReservation.                                *)

\* Among operations without common motors a motor has one holder at most.
LEMMA OwnerIs ==
  ASSUME NEW R, R \subseteq Operations, NEW op, NEW m,
         \A i \in R, j \in R : i # j => op[i].motors \cap op[j].motors = {}
  PROVE  LET h == IF \E i \in R : m \in op[i].motors
                  THEN CHOOSE i \in R : m \in op[i].motors ELSE Nobody
         IN  /\ \A i \in R : m \in op[i].motors <=> h = i
             /\ h \in R \cup {Nobody}
<1> DEFINE h == IF \E i \in R : m \in op[i].motors
                THEN CHOOSE i \in R : m \in op[i].motors ELSE Nobody
<1>1. CASE \E i \in R : m \in op[i].motors
  <2>1. h \in R /\ m \in op[h].motors
    BY <1>1
  <2> QED  BY <2>1
<1>2. CASE ~\E i \in R : m \in op[i].motors
  <2>1. h = Nobody /\ \A i \in R : i # Nobody
    BY <1>2, ConstantsAssumption DEF Operations, Nobody
  <2> QED  BY <1>2, <2>1
<1> QED  BY <1>1, <1>2

\* The operation that holds a motor, in this state and in the next.
LEMMA HolderIs ==
  ASSUME WellFormed, Settled, NEW m
  PROVE  /\ \A i \in reservations : m \in operation[i].motors <=> Holder(m) = i
         /\ Holder(m) \in reservations \cup {Nobody}
BY OwnerIs DEF WellFormed, TypeOK, Settled, Holder

\* The same in the next state.
LEMMA HolderWillBe ==
  ASSUME WellFormed', Settled', NEW m
  PROVE  /\ \A i \in reservations' : m \in operation'[i].motors <=> Holder(m)' = i
         /\ Holder(m)' \in reservations' \cup {Nobody}
BY OwnerIs DEF WellFormed, TypeOK, Settled, Holder

\* Beginning an operation is the abstract Acquire.
LEMMA AcquireStep ==
  ASSUME WellFormed, Settled, WellFormed', Settled', Begin, Free(binding[call["rest"].object])
  PROVE  Reservation!Next
<1> DEFINE i == sequence + 1
           codes == binding[call["rest"].object]
<1>1. /\ sequence \in Nat /\ sequence < MaxOperations
      /\ codes # {} /\ codes \in SUBSET Motors /\ codes \cap activeCodes = {}
  BY ConstantsAssumption DEF WellFormed, TypeOK, RestReady, Begin, Free
<1>2. i \in Operations /\ i \in 1..MaxOperations /\ i # Nobody
  BY <1>1, ConstantsAssumption DEF Operations, Nobody
<1>3. i \notin reservations
  BY <1>1 DEF WellFormed, IdsGiven, Given
<1>4. /\ reservations' = reservations \cup {i}
      /\ sequence' = sequence + 1
      /\ operation' = [operation EXCEPT ![i] =
            [object |-> call["rest"].object, motors |-> codes, kind |-> call["rest"].kind]]
  BY DEF Begin, NextOperation
<1>5. operation \in [Operations -> [object : Objects \cup {NoObject}, motors : SUBSET Motors,
                                    kind : Kinds \cup {"NONE"}]]
      /\ reservations \subseteq Operations
  BY DEF WellFormed, TypeOK
<1>6. operation'[i].motors = codes /\ \A j \in reservations : operation'[j] = operation[j]
  <2>1. [object |-> call["rest"].object, motors |-> codes, kind |-> call["rest"].kind].motors = codes
    OBVIOUS
  <2> HIDE DEF codes
  <2> QED  BY <1>2, <1>3, <1>4, <1>5, <2>1
<1>7. (1..sequence') \ reservations' = (1..sequence) \ reservations
      /\ i \notin (1..sequence) \ reservations
  BY <1>1, <1>3, <1>4
<1> HIDE DEF codes, i
<1>8. \A m \in codes : Holder(m) = Nobody
  <2> SUFFICES ASSUME NEW m \in codes  PROVE Holder(m) = Nobody
    OBVIOUS
  <2>1. \A j \in reservations : m \notin operation[j].motors
    BY <1>1 DEF Settled
  <2> QED  BY <2>1, HolderIs
<1>9. \A m \in Motors : Holder(m) # i
  BY <1>2, <1>3, HolderIs
<1>10. \A m \in Motors : Holder(m)' = IF m \in codes THEN i ELSE Holder(m)
  <2> SUFFICES ASSUME NEW m \in Motors
               PROVE  Holder(m)' = IF m \in codes THEN i ELSE Holder(m)
    OBVIOUS
  <2>1. CASE m \in codes
    BY <1>4, <1>6, <2>1, HolderWillBe
  <2>2. CASE m \notin codes
    <3>1. Holder(m)' # i
      BY <1>4, <1>6, <2>2, HolderWillBe
    <3>2. CASE Holder(m)' = Nobody
      <4>1. \A j \in reservations : m \notin operation[j].motors
        <5> SUFFICES ASSUME NEW j \in reservations, m \in operation[j].motors  PROVE FALSE
          OBVIOUS
        <5>1. Holder(m)' = j
          BY <1>4, <1>6, HolderWillBe
        <5> QED  BY <1>5, <3>2, <5>1, ConstantsAssumption DEF Operations, Nobody
      <4> QED  BY <2>2, <3>2, <4>1, HolderIs
    <3>3. CASE Holder(m)' # Nobody
      <4>1. Holder(m)' \in reservations /\ m \in operation[Holder(m)'].motors
        BY <1>4, <1>6, <3>1, <3>3, HolderWillBe
      <4>2. Holder(m) = Holder(m)'
        BY <4>1, HolderIs
      <4> QED  BY <2>2, <4>2
    <3> QED  BY <3>2, <3>3
  <2> QED  BY <2>1, <2>2
<1>11. Reservation!Acquire(i, codes)
  BY <1>1, <1>7, <1>8, <1>9, <1>10 DEF Reservation!Acquire, Reservation!Nobody, Nobody
<1> QED  BY <1>1, <1>2, <1>11 DEF Reservation!Next, Reservation!Operations

\* Releasing it is the abstract GiveBack.
LEMMA GiveBackStep ==
  ASSUME WellFormed, Settled, WellFormed', Settled', NEW t \in Threads, Release(t)
  PROVE  Reservation!Next
<1> DEFINE i == call[t].id
<1>1. i \in Operations /\ Holds(t, i) /\ i \in Given
  BY HeldGiven DEF Release, Holds
<1>2. i \in reservations
  BY <1>1 DEF Settled
<1>3. /\ reservations' = reservations \ {i}
      /\ UNCHANGED <<sequence, operation>>
  BY DEF Release
<1>4. i \in 1..MaxOperations /\ i # Nobody /\ reservations \subseteq Operations /\ 0 \notin Operations
  BY <1>1, ConstantsAssumption DEF Operations, Nobody, WellFormed, TypeOK
<1>5. (1..sequence') \ reservations' = ((1..sequence) \ reservations) \cup {i}
  BY <1>1, <1>2, <1>3 DEF Given
<1> HIDE DEF i
<1>6. \E m \in Motors : Holder(m) = i
  <2>1. PICK m \in operation[i].motors : TRUE
    BY <1>2 DEF Settled
  <2>2. m \in Motors
    BY <1>1, <2>1 DEF WellFormed, TypeOK
  <2> QED  BY <1>2, <2>1, <2>2, HolderIs
<1>7. \A m \in Motors : Holder(m)' = IF Holder(m) = i THEN Nobody ELSE Holder(m)
  <2> SUFFICES ASSUME NEW m \in Motors
               PROVE  Holder(m)' = IF Holder(m) = i THEN Nobody ELSE Holder(m)
    OBVIOUS
  <2>1. CASE Holder(m) = i
    <3>1. \A j \in reservations' : m \notin operation'[j].motors
      BY <1>3, <2>1, HolderIs
    <3> QED  BY <2>1, <3>1, HolderWillBe
  <2>2. CASE Holder(m) = Nobody
    <3>1. \A j \in reservations' : m \notin operation'[j].motors
      BY <1>3, <1>4, <2>2, HolderIs DEF Nobody
    <3> QED  BY <1>4, <2>2, <3>1, HolderWillBe
  <2>3. CASE Holder(m) # i /\ Holder(m) # Nobody
    <3>1. Holder(m) \in reservations' /\ m \in operation'[Holder(m)].motors
      BY <1>3, <2>3, HolderIs
    <3> QED  BY <2>3, <3>1, HolderWillBe
  <2> QED  BY <2>1, <2>2, <2>3
<1>8. Reservation!GiveBack(i)
  BY <1>5, <1>6, <1>7 DEF Reservation!GiveBack, Reservation!Nobody, Nobody
<1> QED  BY <1>4, <1>8 DEF Reservation!Next, Reservation!Operations

\* Every step is one of the reservation, or a stutter.
LEMMA ReservationStep ==
  ASSUME WellFormed, Settled, WellFormed', Settled', [Next]_vars
  PROVE  [Reservation!Next]_(Reservation!vars)
<1>1. CASE Begin /\ Free(binding[call["rest"].object])
  BY <1>1, AcquireStep
<1>2. ASSUME NEW t \in Threads, Release(t)
      PROVE  Reservation!Next
  BY <1>2, GiveBackStep
<1>3. CASE UNCHANGED <<reservations, operation, sequence>>
  <2>1. \A m \in Motors : Holder(m)' = Holder(m)
    BY <1>3 DEF Holder
  <2> QED  BY <1>3, <2>1 DEF Reservation!vars
<1>4. \/ Begin /\ Free(binding[call["rest"].object])
      \/ \E t \in Threads : Release(t)
      \/ UNCHANGED <<reservations, operation, sequence>>
  BY DEF Next, InvokeStep, FinishStep, vars, Create, Invoke, Delete, Begin, Register, Method, BlockingReturns,
         StopMethod, Off, Collect, CallEnds, Pop, EndStop, DeleteNext, DeadlinePasses, MotionEnds,
         Refresh, Cycle, Scan, Expire, CycleEnds, StopRest, Close, Closed
<1> QED  BY <1>1, <1>2, <1>3, <1>4

\* The guarded operations of the gateway do what MotorReservation promises: a motor is
\* given to one operation at a time, with all the motors the operation asks for, from
\* nobody, and an operation gives all of them back, once.
THEOREM GatewayReserves == Spec => ReservationRefined
<1>1. Init => Reservation!Init
  <2> SUFFICES ASSUME Init  PROVE Reservation!Init
    OBVIOUS
  <2>1. \A m \in Motors : Holder(m) = Nobody
    BY DEF Init, Holder
  <2>2. (1..sequence) \ reservations = {}
    BY DEF Init
  <2> QED  BY <2>1, <2>2 DEF Reservation!Init, Reservation!Nobody, Nobody
<1>2. Init => Settled
  BY SettledInit
<1>3. WellFormed /\ Settled /\ [Next]_vars => Settled'
  BY SettledNext
<1>4. WellFormed /\ Settled /\ WellFormed' /\ Settled' /\ [Next]_vars => [Reservation!Next]_(Reservation!vars)
  BY ReservationStep
<1> QED  BY <1>1, <1>2, <1>3, <1>4, WellFormedInit, WellFormedNext, PTL
         DEF Spec, ReservationRefined, Reservation!Spec

-----------------------------------------------------------------------------
(* What moves is reserved, or was ended too early.                         *)

\* A native call moves motors of its own operation.
MovesItsMotors ==
  \A m \in Motors : motion[m] # Nobody =>
    motion[m] \in Given /\ m \in operation[motion[m]].motors

\* No loop knows an operation that REST has not registered.
UnknownBefore ==
  call["rest"].pc = "register" =>
    /\ call["rest"].id \notin snapshot
    /\ \A t \in Threads : call["rest"].id \notin call[t].todo

\* An operation whose method is about to be called is reserved, or was ended meanwhile.
HandedOver ==
  call["rest"].pc = "invoke" =>
    call["rest"].id \in registered \cup loose \/ call["rest"].kind = "BLOCKING"

\* The operation i was ended too early, if its method is yet to be called, or if
\* something moves for it and nothing stops it.
Accounted(i, stopped) ==
  i \in NotYetCalled \/ (~stopped /\ MovedBy(i) # {}) => i \in loose

\* The operations that thread t finishes.
Account(t) ==
  /\ \A i \in call[t].todo \cap registered : Accounted(i, call[t].stop)
  /\ call[t].pc = "end" => Accounted(call[t].id, TRUE)
  /\ call[t].pc = "release" => Accounted(call[t].id, FALSE)

Accounts == \A t \in Threads : Account(t)

Loosened ==
  MovesItsMotors /\ UnknownBefore /\ HandedOver /\ Accounts /\ MovementIsReserved

\* A stop moves nothing, and stops what it is for unless it raises.
LEMMA StopsOnly ==
  ASSUME WellFormed, NEW ms, Stops(ms)
  PROVE  /\ \A m \in Motors : motion'[m] \in {motion[m], Nobody}
         /\ Raised \/ \A m \in Motors : m \in ms => motion'[m] = Nobody
<1>1. PICK stopped \in SUBSET ms :
        /\ motion' = Moved(stopped, Nobody)
        /\ faults' = IF stopped = ms THEN faults ELSE faults + 1
  BY DEF Stops
<1>2. \A m \in Motors : motion'[m] = IF m \in stopped THEN Nobody ELSE motion[m]
  BY <1>1 DEF Moved
<1>3. faults' = faults => stopped = ms
  BY <1>1, ConstantsAssumption DEF WellFormed, TypeOK
<1> QED  BY <1>2, <1>3 DEF Raised

\* Only a native method moves a motor.
LEMMA MotionStep ==
  ASSUME WellFormed, [Next]_vars
  PROVE  Method \/ \A m \in Motors : motion'[m] \in {motion[m], Nobody}
<1>1. ASSUME NEW o \in Objects, NEW codes \in SUBSET Motors, Create(o, codes)
      PROVE  Method \/ \A m \in Motors : motion'[m] \in {motion[m], Nobody}
  BY <1>1 DEF Create
<1>2. ASSUME NEW o \in Objects, NEW k \in Methods, Invoke(o, k)
      PROVE  Method \/ \A m \in Motors : motion'[m] \in {motion[m], Nobody}
  BY <1>2 DEF Invoke
<1>3. ASSUME NEW o \in Objects, Delete(o)
      PROVE  Method \/ \A m \in Motors : motion'[m] \in {motion[m], Nobody}
  BY <1>3 DEF Delete
<1>4. CASE Begin
  BY <1>4, StopsOnly DEF Begin
<1>5. CASE Register
  BY <1>5 DEF Register
<1>6. CASE Method
  BY <1>6
<1>7. CASE BlockingReturns
  BY <1>7 DEF BlockingReturns
<1>8. CASE StopMethod
  BY <1>8, StopsOnly DEF StopMethod
<1>9. ASSUME NEW t \in Threads, Off(t)
      PROVE  Method \/ \A m \in Motors : motion'[m] \in {motion[m], Nobody}
  BY <1>9, StopsOnly DEF Off
<1>10. ASSUME NEW t \in Threads, Collect(t)
      PROVE  Method \/ \A m \in Motors : motion'[m] \in {motion[m], Nobody}
  BY <1>10 DEF Collect
<1>11. ASSUME NEW t \in Threads, CallEnds(t)
      PROVE  Method \/ \A m \in Motors : motion'[m] \in {motion[m], Nobody}
  BY <1>11 DEF CallEnds
<1>12. ASSUME NEW t \in Threads, Pop(t)
      PROVE  Method \/ \A m \in Motors : motion'[m] \in {motion[m], Nobody}
  BY <1>12 DEF Pop
<1>13. ASSUME NEW t \in Threads, EndStop(t)
      PROVE  Method \/ \A m \in Motors : motion'[m] \in {motion[m], Nobody}
  BY <1>13, StopsOnly DEF EndStop
<1>14. ASSUME NEW t \in Threads, Release(t)
      PROVE  Method \/ \A m \in Motors : motion'[m] \in {motion[m], Nobody}
  BY <1>14 DEF Release
<1>15. ASSUME NEW t \in Threads, DeleteNext(t)
      PROVE  Method \/ \A m \in Motors : motion'[m] \in {motion[m], Nobody}
  BY <1>15 DEF DeleteNext
<1>16. ASSUME NEW i \in Operations, DeadlinePasses(i)
      PROVE  Method \/ \A m \in Motors : motion'[m] \in {motion[m], Nobody}
  BY <1>16 DEF DeadlinePasses
<1>17. ASSUME NEW i \in Operations, MotionEnds(i)
      PROVE  Method \/ \A m \in Motors : motion'[m] \in {motion[m], Nobody}
  BY <1>17 DEF MotionEnds, Moved
<1>18. CASE Refresh
  BY <1>18 DEF Refresh
<1>19. CASE Cycle
  BY <1>19 DEF Cycle
<1>20. CASE Scan
  BY <1>20 DEF Scan
<1>21. CASE Expire
  BY <1>21 DEF Expire
<1>22. CASE CycleEnds
  BY <1>22 DEF CycleEnds
<1>23. CASE StopRest
  BY <1>23 DEF StopRest
<1>24. CASE Close
  BY <1>24 DEF Close
<1>25. CASE Closed
  BY <1>25 DEF Closed
<1>26. CASE UNCHANGED vars
  BY <1>26 DEF vars
<1> QED
  BY <1>1, <1>2, <1>3, <1>4, <1>5, <1>6, <1>7, <1>8, <1>9, <1>10, <1>11, <1>12, <1>13,
     <1>14, <1>15, <1>16, <1>17, <1>18, <1>19, <1>20, <1>21, <1>22, <1>23, <1>24, <1>25, <1>26
  DEF Next, InvokeStep, FinishStep

\* An operation that is loose stays so.
LEMMA LooseGrows ==
  ASSUME WellFormed, [Next]_vars
  PROVE  loose \subseteq loose'
<1>1. ASSUME NEW o \in Objects, NEW codes \in SUBSET Motors, Create(o, codes)
      PROVE  loose \subseteq loose'
  BY <1>1 DEF Create
<1>2. ASSUME NEW o \in Objects, NEW k \in Methods, Invoke(o, k)
      PROVE  loose \subseteq loose'
  BY <1>2 DEF Invoke
<1>3. ASSUME NEW o \in Objects, Delete(o)
      PROVE  loose \subseteq loose'
  BY <1>3 DEF Delete
<1>4. CASE Begin
  BY <1>4 DEF Begin
<1>5. CASE Register
  BY <1>5 DEF Register
<1>6. CASE Method
  BY <1>6 DEF Method
<1>7. CASE BlockingReturns
  BY <1>7 DEF BlockingReturns, Ended
<1>8. CASE StopMethod
  BY <1>8 DEF StopMethod
<1>9. ASSUME NEW t \in Threads, Off(t)
      PROVE  loose \subseteq loose'
  BY <1>9 DEF Off
<1>10. ASSUME NEW t \in Threads, Collect(t)
      PROVE  loose \subseteq loose'
  BY <1>10 DEF Collect, Ended
<1>11. ASSUME NEW t \in Threads, CallEnds(t)
      PROVE  loose \subseteq loose'
  BY <1>11 DEF CallEnds
<1>12. ASSUME NEW t \in Threads, Pop(t)
      PROVE  loose \subseteq loose'
  BY <1>12 DEF Pop
<1>13. ASSUME NEW t \in Threads, EndStop(t)
      PROVE  loose \subseteq loose'
  BY <1>13 DEF EndStop
<1>14. ASSUME NEW t \in Threads, Release(t)
      PROVE  loose \subseteq loose'
  BY <1>14 DEF Release
<1>15. ASSUME NEW t \in Threads, DeleteNext(t)
      PROVE  loose \subseteq loose'
  BY <1>15 DEF DeleteNext
<1>16. ASSUME NEW i \in Operations, DeadlinePasses(i)
      PROVE  loose \subseteq loose'
  BY <1>16 DEF DeadlinePasses
<1>17. ASSUME NEW i \in Operations, MotionEnds(i)
      PROVE  loose \subseteq loose'
  BY <1>17 DEF MotionEnds
<1>18. CASE Refresh
  BY <1>18 DEF Refresh
<1>19. CASE Cycle
  BY <1>19 DEF Cycle
<1>20. CASE Scan
  <2>1. loose' = loose \/ \E i \in snapshot : loose' = Ended({i} \cap registered, Expired(i))
    BY <1>20 DEF Scan
  <2> QED  BY <2>1 DEF Ended
<1>21. CASE Expire
  BY <1>21 DEF Expire
<1>22. CASE CycleEnds
  BY <1>22 DEF CycleEnds
<1>23. CASE StopRest
  BY <1>23 DEF StopRest
<1>24. CASE Close
  BY <1>24 DEF Close
<1>25. CASE Closed
  BY <1>25 DEF Closed
<1>26. CASE UNCHANGED vars
  BY <1>26 DEF vars
<1> QED
  BY <1>1, <1>2, <1>3, <1>4, <1>5, <1>6, <1>7, <1>8, <1>9, <1>10, <1>11, <1>12, <1>13,
     <1>14, <1>15, <1>16, <1>17, <1>18, <1>19, <1>20, <1>21, <1>22, <1>23, <1>24, <1>25, <1>26
  DEF Next, InvokeStep, FinishStep

\* Only Begin and Register bring REST before a method.
LEMMA RestStep ==
  ASSUME WellFormed, [Next]_vars
  PROVE  \/ Begin \/ Register
         \/ call'["rest"].pc \notin {"register", "invoke"}
         \/ call'["rest"] = call["rest"]
<1> USE DEF WellFormed, TypeOK, RestReady
<1>1. ASSUME NEW o \in Objects, NEW codes \in SUBSET Motors, Create(o, codes)
      PROVE  \/ Begin \/ Register
         \/ call'["rest"].pc \notin {"register", "invoke"}
         \/ call'["rest"] = call["rest"]
  BY <1>1 DEF Create
<1>2. ASSUME NEW o \in Objects, NEW k \in Methods, Invoke(o, k)
      PROVE  \/ Begin \/ Register
         \/ call'["rest"].pc \notin {"register", "invoke"}
         \/ call'["rest"] = call["rest"]
  <2>1. PICK c \in CallSet : Goes("rest", c) /\ c.pc = IF k \in Guarded THEN "begin" ELSE "halt"
    BY <1>2, InvokeEffect
  <2>2. c.pc \in {"begin", "halt"}
    BY <2>1
  <2> QED  BY <2>1, <2>2 DEF Goes
<1>3. ASSUME NEW o \in Objects, Delete(o)
      PROVE  \/ Begin \/ Register
         \/ call'["rest"].pc \notin {"register", "invoke"}
         \/ call'["rest"] = call["rest"]
  BY <1>3, DeleteEffect DEF Delete, Goes, Fields, Fresh, Threads
<1>4. CASE Begin
  BY <1>4
<1>5. CASE Register
  BY <1>5
<1>6. CASE Method
  BY <1>6, MethodEffect, HeldGiven DEF Method, Goes, Fields, Fresh, Threads
<1>7. CASE BlockingReturns
  BY <1>7, BlockingReturnsEffect DEF BlockingReturns, Goes, Fields, Fresh, Threads
<1>8. CASE StopMethod
  BY <1>8, StopMethodEffect DEF StopMethod, Goes, Fields, Fresh, Threads
<1>9. ASSUME NEW t \in Threads, Off(t)
      PROVE  \/ Begin \/ Register
         \/ call'["rest"].pc \notin {"register", "invoke"}
         \/ call'["rest"] = call["rest"]
  BY <1>9, OffEffect DEF Off, Goes, Fields, Fresh, Threads
<1>10. ASSUME NEW t \in Threads, Collect(t)
      PROVE  \/ Begin \/ Register
         \/ call'["rest"].pc \notin {"register", "invoke"}
         \/ call'["rest"] = call["rest"]
  BY <1>10, CollectEffect DEF Collect, Goes, Fields, Fresh, Threads
<1>11. ASSUME NEW t \in Threads, CallEnds(t)
      PROVE  \/ Begin \/ Register
         \/ call'["rest"].pc \notin {"register", "invoke"}
         \/ call'["rest"] = call["rest"]
  BY <1>11, CallEndsEffect DEF CallEnds, Goes, Fields, Fresh, Threads
<1>12. ASSUME NEW t \in Threads, Pop(t)
      PROVE  \/ Begin \/ Register
         \/ call'["rest"].pc \notin {"register", "invoke"}
         \/ call'["rest"] = call["rest"]
  <2>1. PICK i \in call[t].todo, c \in CallSet : Pops(t, i, c)
    BY <1>12, PopEffect
  <2> QED  BY <2>1 DEF Pops, Goes, Threads
<1>13. ASSUME NEW t \in Threads, EndStop(t)
      PROVE  \/ Begin \/ Register
         \/ call'["rest"].pc \notin {"register", "invoke"}
         \/ call'["rest"] = call["rest"]
  BY <1>13, EndStopEffect DEF EndStop, Goes, Fields, Fresh, Threads
<1>14. ASSUME NEW t \in Threads, Release(t)
      PROVE  \/ Begin \/ Register
         \/ call'["rest"].pc \notin {"register", "invoke"}
         \/ call'["rest"] = call["rest"]
  BY <1>14, ReleaseEffect DEF Release, Goes, Fields, Fresh, Threads
<1>15. ASSUME NEW t \in Threads, DeleteNext(t)
      PROVE  \/ Begin \/ Register
         \/ call'["rest"].pc \notin {"register", "invoke"}
         \/ call'["rest"] = call["rest"]
  BY <1>15, DeleteNextEffect DEF DeleteNext, Goes, Fields, Fresh, Threads
<1>16. ASSUME NEW i \in Operations, DeadlinePasses(i)
      PROVE  \/ Begin \/ Register
         \/ call'["rest"].pc \notin {"register", "invoke"}
         \/ call'["rest"] = call["rest"]
  BY <1>16 DEF DeadlinePasses
<1>17. ASSUME NEW i \in Operations, MotionEnds(i)
      PROVE  \/ Begin \/ Register
         \/ call'["rest"].pc \notin {"register", "invoke"}
         \/ call'["rest"] = call["rest"]
  BY <1>17 DEF MotionEnds
<1>18. CASE Refresh
  BY <1>18 DEF Refresh
<1>19. CASE Cycle
  BY <1>19, LoopEffect DEF Cycle, Goes, Fields, Fresh, Threads
<1>20. CASE Scan
  BY <1>20, ScanEffect DEF Scan, Goes, Fields, Fresh, Threads
<1>21. CASE Expire
  BY <1>21 DEF Expire
<1>22. CASE CycleEnds
  BY <1>22, RestsEffect DEF CycleEnds, Goes, Fields, Fresh, Threads
<1>23. CASE StopRest
  BY <1>23 DEF StopRest
<1>24. CASE Close
  BY <1>24, LoopEffect DEF Close, Goes, Fields, Fresh, Threads
<1>25. CASE Closed
  BY <1>25, RestsEffect DEF Closed, Goes, Fields, Fresh, Threads
<1>26. CASE UNCHANGED vars
  BY <1>26 DEF vars
<1> QED
  BY <1>1, <1>2, <1>3, <1>4, <1>5, <1>6, <1>7, <1>8, <1>9, <1>10, <1>11, <1>12, <1>13,
     <1>14, <1>15, <1>16, <1>17, <1>18, <1>19, <1>20, <1>21, <1>22, <1>23, <1>24, <1>25, <1>26
  DEF Next, InvokeStep, FinishStep


\* Where Begin leads.
LEMMA BeginCase ==
  ASSUME WellFormed, Begin
  PROVE  \/ /\ call'["rest"].id = sequence + 1
            /\ call'["rest"].pc = "register" \/ (call'["rest"].pc = "invoke" /\ call'["rest"].kind = "BLOCKING")
            /\ call'["rest"].todo = {}
         \/ call'["rest"].pc \in {"idle", "left"} /\ call'["rest"].todo = {}
<1>1. PICK c \in CallSet :
        /\ Goes("rest", c)
        /\ \/ Fields(c, call["rest"],
                     IF call["rest"].kind = "BLOCKING" THEN "invoke" ELSE "register",
                     sequence + 1, call["rest"].todo, call["rest"].stop)
           \/ Fresh(c) /\ c.pc \in {"idle", "left"}
  BY BeginEffect DEF WellFormed, RestReady, Begin
<1>2. call["rest"].todo = {}
  BY DEF WellFormed, RestReady, Begin
<1> QED  BY <1>1, <1>2 DEF Fields, Fresh, Goes

\* Where Register leads.
LEMMA RegisterCase ==
  ASSUME WellFormed, Register
  PROVE  /\ call'["rest"].id = call["rest"].id /\ call'["rest"].pc = "invoke"
         /\ call'["rest"].todo = {} /\ call'["rest"].kind = call["rest"].kind
<1>1. call["rest"].todo = {}
  BY DEF WellFormed, RestReady, Register
<1> QED  BY <1>1, RegisterEffect DEF WellFormed, Fields, Goes

\* What was accounted for stays so: an operation whose method is called after it was
\* ended is in loose already, and all other steps only stop motors.
LEMMA AccountKept ==
  ASSUME WellFormed, [Next]_vars, NEW i \in Given, NEW stopped, Accounted(i, stopped)
  PROVE  Accounted(i, stopped)'
<1>1. loose \subseteq loose'
  BY LooseGrows
<1>2. sequence \in Nat /\ i # Nobody /\ i # sequence + 1
  BY ConstantsAssumption DEF WellFormed, TypeOK, Given, Nobody
<1>3. i \in NotYetCalled' => i \in NotYetCalled
  <2>1. CASE Begin
    BY <1>2, <2>1, BeginCase DEF NotYetCalled
  <2>2. CASE Register
    BY <2>2, RegisterCase DEF NotYetCalled, Register
  <2>3. CASE call'["rest"].pc \notin {"register", "invoke"} \/ call'["rest"] = call["rest"]
    BY <2>3 DEF NotYetCalled
  <2> QED  BY <2>1, <2>2, <2>3, RestStep
<1>4. MovedBy(i)' \subseteq MovedBy(i) \/ i \in NotYetCalled
  <2>1. CASE Method
    <3>1. ASSUME i # call["rest"].id
          PROVE  MovedBy(i)' \subseteq MovedBy(i)
      <4>1. motion' = motion \/ \E ms \in SUBSET Motors : motion' = Moved(ms, call["rest"].id)
        <5>1. operation[call["rest"].id].motors \in SUBSET Motors
          BY <2>1, HeldGiven DEF Method, WellFormed, TypeOK, Threads
        <5> QED  BY <2>1, <5>1 DEF Method
      <4> QED  BY <3>1, <4>1 DEF MovedBy, Moved
    <3>2. i = call["rest"].id => i \in NotYetCalled
      BY <2>1 DEF Method, NotYetCalled
    <3> QED  BY <3>1, <3>2
  <2>2. CASE \A m \in Motors : motion'[m] \in {motion[m], Nobody}
    BY <1>2, <2>2 DEF MovedBy
  <2> QED  BY <2>1, <2>2, MotionStep
<1> QED  BY <1>1, <1>3, <1>4 DEF Accounted

\* A method moves motors of its own operation.
LEMMA MethodMoves ==
  ASSUME WellFormed, Method
  PROVE  /\ call["rest"].id \in Given /\ call["rest"].id \in Operations
         /\ \A m \in Motors : \/ motion'[m] = motion[m]
                              \/ motion'[m] = call["rest"].id /\ m \in operation[call["rest"].id].motors
<1>1. call["rest"].id \in Given /\ call["rest"].id \in Operations
  BY HeldGiven DEF Method, Threads
<1>2. motion' = motion \/ \E ms \in SUBSET operation[call["rest"].id].motors :
                             motion' = Moved(ms, call["rest"].id)
  BY DEF Method
<1> QED  BY <1>1, <1>2 DEF Moved

\* An operation that was begun keeps its motors.
LEMMA OperationsKept ==
  ASSUME WellFormed, [Next]_vars
  PROVE  /\ Given \subseteq Given'
         /\ \A i \in Given : operation'[i] = operation[i]
<1>1. CASE Begin
  <2>1. sequence \in Nat /\ sequence < MaxOperations /\ operation \in [Operations ->
           [object : Objects \cup {NoObject}, motors : SUBSET Motors, kind : Kinds \cup {"NONE"}]]
    BY <1>1, ConstantsAssumption DEF WellFormed, TypeOK, RestReady, Begin
  <2>2. \/ sequence' = sequence /\ operation' = operation
        \/ \E op : sequence' = sequence + 1 /\ operation' = [operation EXCEPT ![sequence + 1] = op]
    BY <1>1 DEF Begin, NextOperation
  <2> QED  BY <2>1, <2>2, ConstantsAssumption DEF Given, Operations
<1>2. CASE UNCHANGED <<sequence, operation>>
  BY <1>2 DEF Given
<1>3. Begin \/ UNCHANGED <<sequence, operation>>
  BY DEF Next, InvokeStep, FinishStep, vars, Create, Invoke, Delete, Register, Method, BlockingReturns,
         StopMethod, Off, Collect, CallEnds, Pop, EndStop, Release, DeleteNext, DeadlinePasses, MotionEnds,
         Refresh, Cycle, Scan, Expire, CycleEnds, StopRest, Close, Closed
<1> QED  BY <1>1, <1>2, <1>3

\* Every step keeps it that a motor is moved by an operation it belongs to.
LEMMA MovesNext ==
  ASSUME WellFormed, MovesItsMotors, [Next]_vars
  PROVE  MovesItsMotors'
<1> SUFFICES ASSUME NEW m \in Motors, motion'[m] # Nobody
             PROVE  motion'[m] \in Given' /\ m \in operation'[motion'[m]].motors
  BY DEF MovesItsMotors, Nobody
<1>1. motion'[m] \in Given /\ m \in operation[motion'[m]].motors
  <2>1. CASE Method
    BY <2>1, MethodMoves DEF MovesItsMotors
  <2>2. CASE motion'[m] \in {motion[m], Nobody}
    BY <2>2 DEF MovesItsMotors
  <2> QED  BY <2>1, <2>2, MotionStep
<1> QED  BY <1>1, OperationsKept

\* A loop learns of operations from _operations alone, or from the call that failed.
Learned ==
  /\ snapshot' \subseteq snapshot \cup registered
  /\ Method \/ \A u \in Threads : call'[u].todo \subseteq call[u].todo \cup registered \cup snapshot

\* A loop learns of an operation from the registry, or from the call that failed.
LEMMA LoopsLearn ==
  ASSUME WellFormed, [Next]_vars
  PROVE  Learned
<1> USE DEF WellFormed, TypeOK, Learned
<1>1. ASSUME NEW o \in Objects, NEW codes \in SUBSET Motors, Create(o, codes)
      PROVE  Learned
  BY <1>1 DEF Create
<1>2. ASSUME NEW o \in Objects, NEW k \in Methods, Invoke(o, k)
      PROVE  Learned
  <2>1. PICK c \in CallSet : Goes("rest", c) /\ Fresh(c)
    BY <1>2, InvokeEffect
  <2> QED  BY <1>2, <2>1 DEF Goes, Fresh, Invoke
<1>3. ASSUME NEW o \in Objects, Delete(o)
      PROVE  Learned
  BY <1>3, DeleteEffect DEF Delete, Goes, Fields, Fresh, Threads
<1>4. CASE Begin
  <2>1. \A u \in Threads : u # "rest" => call'[u] = call[u]
    BY <1>4, BeginEffect DEF Begin, RestReady, Goes
  <2> QED  BY <1>4, <2>1, BeginCase DEF Begin
<1>5. CASE Register
  BY <1>5, RegisterEffect DEF Register, Goes, Fields, Fresh, Threads
<1>6. CASE Method
  <2>1. PICK c \in CallSet : /\ Goes("rest", c)
                             /\ c.todo = call["rest"].todo \/ c.todo = {call["rest"].id} \/ c.todo = {}
    BY <1>6, HeldGiven, MethodEffect DEF Method, Threads, Fields, Fresh
  <2> QED  BY <1>6, <2>1 DEF Goes, Method
<1>7. CASE BlockingReturns
  BY <1>7, BlockingReturnsEffect DEF BlockingReturns, Goes, Fields, Fresh, Threads
<1>8. CASE StopMethod
  BY <1>8, StopMethodEffect DEF StopMethod, Goes, Fields, Fresh, Threads
<1>9. ASSUME NEW t \in Threads, Off(t)
      PROVE  Learned
  BY <1>9, OffEffect DEF Off, Goes, Fields, Fresh, Threads
<1>10. ASSUME NEW t \in Threads, Collect(t)
      PROVE  Learned
  <2>1. OperationsOf(call[t].object) \subseteq registered
    BY DEF OperationsOf
  <2>2. PICK c \in CallSet : /\ Goes(t, c)
                             /\ c.todo = OperationsOf(call[t].object) \/ c.todo = {}
    BY <1>10, CollectEffect DEF Fields, Fresh
  <2> QED  BY <1>10, <2>1, <2>2 DEF Goes, Collect
<1>11. ASSUME NEW t \in Threads, CallEnds(t)
      PROVE  Learned
  BY <1>11, CallEndsEffect DEF CallEnds, Goes, Fields, Fresh, Threads
<1>12. ASSUME NEW t \in Threads, Pop(t)
      PROVE  Learned
  <2>1. PICK i \in call[t].todo, c \in CallSet : Pops(t, i, c)
    BY <1>12, PopEffect
  <2> QED  BY <1>12, <2>1 DEF Pops, Goes, Pop
<1>13. ASSUME NEW t \in Threads, EndStop(t)
      PROVE  Learned
  BY <1>13, EndStopEffect DEF EndStop, Goes, Fields, Fresh, Threads
<1>14. ASSUME NEW t \in Threads, Release(t)
      PROVE  Learned
  BY <1>14, ReleaseEffect DEF Release, Goes, Fields, Fresh, Threads
<1>15. ASSUME NEW t \in Threads, DeleteNext(t)
      PROVE  Learned
  BY <1>15, DeleteNextEffect DEF DeleteNext, Goes, Fields, Fresh, Threads
<1>16. ASSUME NEW i \in Operations, DeadlinePasses(i)
      PROVE  Learned
  BY <1>16 DEF DeadlinePasses
<1>17. ASSUME NEW i \in Operations, MotionEnds(i)
      PROVE  Learned
  BY <1>17 DEF MotionEnds
<1>18. CASE Refresh
  BY <1>18 DEF Refresh
<1>19. CASE Cycle
  BY <1>19, LoopEffect DEF Cycle, Goes, Fields, Fresh, Threads
<1>20. CASE Scan
  <2>1. PICK i \in snapshot, c \in CallSet :
                             /\ snapshot' = snapshot \ {i}
                             /\ Goes("lifecycle", c)
                             /\ c.todo = {i} \/ c = call["lifecycle"]
    BY <1>20, ScanEffect DEF Fields
  <2>2. call'["lifecycle"].todo \subseteq call["lifecycle"].todo \cup snapshot
    BY <2>1 DEF Goes
  <2>3. \A u \in Threads : u # "lifecycle" => call'[u] = call[u]
    BY <2>1 DEF Goes
  <2>4. snapshot' \subseteq snapshot
    BY <2>1
  <2> HIDE DEF WellFormed, TypeOK
  <2> QED  BY <2>2, <2>3, <2>4
<1>21. CASE Expire
  BY <1>21 DEF Expire
<1>22. CASE CycleEnds
  BY <1>22, RestsEffect DEF CycleEnds, Goes, Fields, Fresh, Threads
<1>23. CASE StopRest
  BY <1>23 DEF StopRest
<1>24. CASE Close
  BY <1>24, LoopEffect DEF Close, Goes, Fields, Fresh, Threads
<1>25. CASE Closed
  BY <1>25, RestsEffect DEF Closed, Goes, Fields, Fresh, Threads
<1>26. CASE UNCHANGED vars
  BY <1>26 DEF vars
<1> HIDE DEF Learned, TypeOK, WellFormed
<1> QED
  BY <1>1, <1>2, <1>3, <1>4, <1>5, <1>6, <1>7, <1>8, <1>9, <1>10, <1>11, <1>12, <1>13,
     <1>14, <1>15, <1>16, <1>17, <1>18, <1>19, <1>20, <1>21, <1>22, <1>23, <1>24, <1>25, <1>26
  DEF Next, InvokeStep, FinishStep

\* Hence no loop knows an operation before it is registered.
LEMMA UnknownNext ==
  ASSUME WellFormed, Settled, UnknownBefore, [Next]_vars
  PROVE  UnknownBefore'
<1> SUFFICES ASSUME call'["rest"].pc = "register"
             PROVE  /\ call'["rest"].id \notin snapshot'
                    /\ \A t \in Threads : call'["rest"].id \notin call'[t].todo
  BY DEF UnknownBefore, Threads
<1>1. CASE Begin
  <2>1. call'["rest"].id = sequence + 1 /\ sequence + 1 \notin Given
    BY <1>1, BeginCase, ConstantsAssumption DEF WellFormed, TypeOK, Given
  <2>2. snapshot' \subseteq Given /\ \A t \in Threads : call'[t].todo \subseteq Given
    <3>1. ~Method
      BY <1>1 DEF Begin, Method
    <3> QED  BY <3>1, LoopsLearn DEF Learned, WellFormed, IdsGiven
  <2> QED  BY <2>1, <2>2
<1>2. CASE call'["rest"] = call["rest"]
  <2>1. ~Method /\ call["rest"].pc = "register"
    BY <1>2 DEF Method
  <2>2. call["rest"].id \notin registered
    BY <2>1, HeldGiven DEF Settled, Holds, Threads
  <2> QED  BY <1>2, <2>1, <2>2, LoopsLearn DEF Learned, UnknownBefore
<1>3. ~Register
  BY RegisterCase
<1> QED  BY <1>1, <1>2, <1>3, RestStep

\* An operation whose method is to be called is registered, or was ended.
LEMMA HandedNext ==
  ASSUME WellFormed, HandedOver, Accounts, [Next]_vars
  PROVE  HandedOver'
<1> SUFFICES ASSUME call'["rest"].pc = "invoke"
             PROVE  call'["rest"].id \in registered' \cup loose' \/ call'["rest"].kind = "BLOCKING"
  BY DEF HandedOver
<1>1. CASE Begin
  BY <1>1, BeginCase
<1>2. CASE Register
  BY <1>2, RegisterCase DEF Register
<1>3. CASE call'["rest"] = call["rest"]
  <2>1. ASSUME NEW t \in Threads, Pop(t), call["rest"].id \in registered, call["rest"].id \notin registered'
        PROVE  call["rest"].id \in loose
    <3>1. PICK i \in call[t].todo, c \in CallSet : Pops(t, i, c)
      BY <2>1, PopEffect DEF WellFormed
    <3>2. i = call["rest"].id
      BY <2>1, <3>1 DEF Pops
    <3>3. i \in NotYetCalled
      BY <1>3, <3>2 DEF NotYetCalled
    <3> QED  BY <2>1, <3>2, <3>3 DEF Accounts, Account, Accounted
  <2>2. registered \subseteq registered' \/ \E t \in Threads : Pop(t)
    BY DEF Next, InvokeStep, FinishStep, vars, Create, Invoke, Delete, Begin, Register, Method, BlockingReturns,
         StopMethod, Off, Collect, CallEnds, EndStop, Release, DeleteNext, DeadlinePasses, MotionEnds,
         Refresh, Cycle, Scan, Expire, CycleEnds, StopRest, Close, Closed
  <2>3. call["rest"].id \in registered \cup loose \/ call["rest"].kind = "BLOCKING"
    BY <1>3 DEF HandedOver
  <2> QED  BY <1>3, <2>1, <2>2, <2>3, LooseGrows
<1> QED  BY <1>1, <1>2, <1>3, RestStep

\* A motor that moves stays reserved, or its operation is loose.
LEMMA ReservedNext ==
  ASSUME WellFormed, Settled, HandedOver, Accounts, MovesItsMotors, MovementIsReserved, [Next]_vars
  PROVE  MovementIsReserved'
<1> SUFFICES ASSUME NEW m \in Motors
             PROVE  motion'[m] \in {Nobody} \cup reservations' \cup loose'
  BY DEF MovementIsReserved, Nobody
<1>1. motion'[m] \in {Nobody} \cup reservations \cup loose
  <2>1. CASE Method
    <3>1. call["rest"].id \in reservations \cup loose
      <4>1. CASE call["rest"].kind = "BLOCKING"
        <5>1. Holds("rest", call["rest"].id)
          BY <2>1, <4>1 DEF Holds, Method
        <5> QED  BY <2>1, <5>1, MethodMoves DEF Settled, Threads
      <4>2. CASE call["rest"].kind # "BLOCKING"
        BY <2>1, <4>2 DEF HandedOver, Method, Settled
      <4> QED  BY <4>1, <4>2
    <3> QED  BY <2>1, <3>1, MethodMoves DEF MovementIsReserved
  <2>2. CASE motion'[m] \in {motion[m], Nobody}
    BY <2>2 DEF MovementIsReserved
  <2> QED  BY <2>1, <2>2, MotionStep
<1>2. ASSUME NEW t \in Threads, Release(t), motion'[m] = call[t].id, motion'[m] # Nobody
      PROVE  motion'[m] \in loose
  <2>1. MovedBy(call[t].id) # {}
    BY <1>2 DEF Release, MovedBy
  <2> QED  BY <1>2, <2>1 DEF Accounts, Account, Accounted, Release
<1>3. ASSUME NEW t \in Threads, Release(t)
      PROVE  reservations' = reservations \ {call[t].id}
  BY <1>3 DEF Release
<1>4. ASSUME ~ \E t \in Threads : Release(t)
      PROVE  reservations \subseteq reservations'
  <2>1. CASE InvokeStep
    BY <2>1 DEF InvokeStep, Begin, Register, Method, BlockingReturns, StopMethod
  <2>2. CASE \E t \in Threads : FinishStep(t)
    BY <1>4, <2>2 DEF FinishStep, Off, Collect, CallEnds, Pop, EndStop
  <2>3. CASE ~InvokeStep /\ ~ \E t \in Threads : FinishStep(t)
    BY <2>3 DEF Next, vars, Create, Invoke, Delete, DeleteNext, DeadlinePasses, MotionEnds, Refresh, Cycle,
                Scan, Expire, CycleEnds, StopRest, Close, Closed
  <2> QED  BY <2>1, <2>2, <2>3
<1> QED  BY <1>1, <1>2, <1>3, <1>4, LooseGrows

\* A thread that does not move keeps its account.
LEMMA AccountOthers ==
  ASSUME WellFormed, UnknownBefore, Accounts, [Next]_vars, NEW u \in Threads, call'[u] = call[u]
  PROVE  Account(u)'
<1>1. call[u].todo \cap registered' \subseteq registered
  <2>1. CASE Register
    <3>1. registered' = registered \cup {call["rest"].id} /\ call["rest"].id \notin call[u].todo
      BY <2>1 DEF Register, UnknownBefore
    <3> QED  BY <3>1
  <2>2. CASE registered' \subseteq registered
    BY <2>2
  <2>3. Register \/ registered' \subseteq registered
    BY DEF Next, InvokeStep, FinishStep, vars, Create, Invoke, Delete, Begin, Method, BlockingReturns,
           StopMethod, Off, Collect, CallEnds, Pop, EndStop, Release, DeleteNext, DeadlinePasses, MotionEnds,
           Refresh, Cycle, Scan, Expire, CycleEnds, StopRest, Close, Closed
  <2> QED  BY <2>1, <2>2, <2>3
<1>2. Account(u) /\ call[u].todo \subseteq Given
  BY DEF Accounts, WellFormed, IdsGiven
<1>3. \A i \in call[u].todo \cap registered' : Accounted(i, call[u].stop)'
  BY <1>1, <1>2, AccountKept DEF Account
<1>4. call[u].pc = "end" => Accounted(call[u].id, TRUE)'
  BY <1>2, HeldGiven, AccountKept DEF Account
<1>5. call[u].pc = "release" => Accounted(call[u].id, FALSE)'
  BY <1>2, HeldGiven, AccountKept DEF Account
<1> QED  BY <1>3, <1>4, <1>5 DEF Account, Accounted

\* A thread that takes on nothing new keeps its account.
LEMMA AccountMoves ==
  ASSUME WellFormed, Accounts, [Next]_vars, NEW t \in Threads, NEW c, Goes(t, c),
         registered' \cap c.todo \subseteq registered, c.todo \subseteq call[t].todo,
         c.pc \notin {"end", "release"},
         c.todo = {} \/ c.stop = call[t].stop \/ c.stop = TRUE
  PROVE  Account(t)'
<1>1. Account(t) /\ call[t].todo \subseteq Given /\ call'[t] = c
  BY DEF Accounts, WellFormed, IdsGiven, Goes
<1>2. ASSUME NEW i \in c.todo, i \in registered'
      PROVE  Accounted(i, c.stop)'
  <2>1. Accounted(i, call[t].stop) /\ i \in Given
    BY <1>1, <1>2 DEF Account
  <2>2. Accounted(i, c.stop)
    BY <1>2, <2>1 DEF Accounted
  <2> QED  BY <2>1, <2>2, AccountKept
<1> QED  BY <1>1, <1>2 DEF Account, Accounted

\* Hence it suffices to look at the thread that moves.
LEMMA AccountsOf ==
  ASSUME WellFormed, UnknownBefore, Accounts, [Next]_vars, NEW t \in Threads, NEW c, Goes(t, c), Account(t)'
  PROVE  Accounts'
<1> SUFFICES ASSUME NEW u \in Threads  PROVE Account(u)'
  BY DEF Accounts, Threads
<1>1. CASE u = t
  BY <1>1
<1>2. CASE u # t
  BY <1>2, AccountOthers DEF Goes
<1> QED  BY <1>1, <1>2

\* If none moves all accounts are kept.
LEMMA AccountsOfAll ==
  ASSUME WellFormed, UnknownBefore, Accounts, [Next]_vars, call' = call
  PROVE  Accounts'
<1>1. \A u \in Threads : Account(u)'
  BY AccountOthers
<1> QED  BY <1>1 DEF Accounts, Threads

\* Only between reserving and calling has an operation a method yet to be called.
LEMMA RestNotCalling ==
  ASSUME call'["rest"].pc \notin {"register", "invoke"}
  PROVE  NotYetCalled' = {}
BY DEF NotYetCalled

\* A native method keeps the accounts.
LEMMA AccountsMethod ==
  ASSUME WellFormed, UnknownBefore, Accounts, Method
  PROVE  Accounts'
<1> DEFINE rest == call["rest"]
<1>1. [Next]_vars /\ "rest" \in Threads /\ rest.id \in Operations
  BY HeldGiven DEF Next, InvokeStep, Method, Threads
<1>2. PICK c \in CallSet :
        /\ Goes("rest", c)
        /\ \/ rest.kind = "BLOCKING" /\ Fields(c, rest, "end", rest.id, rest.todo, TRUE)
           \/ rest.kind = "BLOCKING" /\ Fields(c, rest, "wait", rest.id, rest.todo, FALSE)
           \/ rest.kind # "BLOCKING" /\ Fields(c, rest, "finish", rest.id, {rest.id}, TRUE)
           \/ rest.kind # "BLOCKING" /\ Fresh(c) /\ c.pc \in {"idle", "left"}
  BY <1>1, MethodEffect DEF WellFormed
<1>3. rest.todo = {}
  BY DEF WellFormed, RestReady, Method
<1>4. call'["rest"] = c /\ (c.todo = {} \/ c.stop = TRUE) /\ c.pc \notin {"register", "invoke", "release"}
  BY <1>2, <1>3 DEF Fields, Fresh, Goes
<1>5. NotYetCalled' = {}
  BY <1>4, RestNotCalling
<1>6. Account("rest")'
  BY <1>4, <1>5 DEF Account, Accounted
<1> QED  BY <1>1, <1>2, <1>6, AccountsOf

\* So does a registration: nobody knew the operation.
LEMMA AccountsRegister ==
  ASSUME WellFormed, UnknownBefore, Accounts, Register
  PROVE  Accounts'
<1>1. [Next]_vars /\ "rest" \in Threads
  BY DEF Next, InvokeStep, Threads
<1>2. PICK c \in CallSet : Goes("rest", c)
  BY RegisterEffect DEF WellFormed
<1>3. call'["rest"].todo = {} /\ call'["rest"].pc = "invoke"
  BY RegisterCase
<1>4. Account("rest")'
  BY <1>3 DEF Account
<1> QED  BY <1>1, <1>2, <1>4, AccountsOf

\* A blocking method that returns while its motors move makes its operation loose.
LEMMA AccountsReturn ==
  ASSUME WellFormed, UnknownBefore, Accounts, BlockingReturns
  PROVE  Accounts'
<1> DEFINE rest == call["rest"]
<1>1. [Next]_vars /\ "rest" \in Threads
  BY DEF Next, InvokeStep, Threads
<1>2. PICK c \in CallSet : Goes("rest", c) /\ Fields(c, rest, "release", rest.id, rest.todo, rest.stop)
  BY BlockingReturnsEffect DEF WellFormed
<1>3. /\ rest.todo = {} /\ motion' = motion
      /\ MovedBy(rest.id) # {} => rest.id \in loose'
  BY DEF WellFormed, RestReady, BlockingReturns, Ended
<1>4. call'["rest"] = c /\ c.todo = {} /\ c.pc = "release" /\ c.id = rest.id
  BY <1>2, <1>3 DEF Fields, Goes
<1>5. NotYetCalled' = {}
  BY <1>4, RestNotCalling
<1> HIDE DEF rest
<1>6. MovedBy(c.id)' # {} => c.id \in loose'
  BY <1>3, <1>4 DEF MovedBy
<1>7. Account("rest")'
  BY <1>4, <1>5, <1>6 DEF Account, Accounted, MovedBy
<1> QED  BY <1>1, <1>2, <1>7, AccountsOf

\* What is collected is to be stopped, or loose.
LEMMA AccountsCollect ==
  ASSUME WellFormed, UnknownBefore, Accounts, NEW t \in Threads, Collect(t)
  PROVE  Accounts'
<1> DEFINE todo == OperationsOf(call[t].object)
<1>1. [Next]_vars
  BY DEF Next, FinishStep
<1>2. PICK c \in CallSet :
        /\ Goes(t, c)
        /\ \/ /\ Fields(c, call[t], "finish", call[t].id, todo, call[t].stop)
              /\ loose' = Ended(todo, call[t].stop)
           \/ Fresh(c) /\ c.pc \in {"idle", "left", "loop"} /\ loose' = loose
  BY CollectEffect DEF WellFormed
<1>3. CASE Fresh(c) /\ c.pc \in {"idle", "left", "loop"}
  <2>1. c.todo = {} /\ c.pc \notin {"end", "release"}
    BY <1>3 DEF Fresh
  <2>2. Account(t)'
    BY <1>2, <2>1 DEF Account, Goes
  <2> QED  BY <1>1, <1>2, <2>2, AccountsOf
<1>4. CASE /\ Fields(c, call[t], "finish", call[t].id, todo, call[t].stop)
           /\ loose' = Ended(todo, call[t].stop)
  <2>1. call'[t] = c /\ c.todo = todo /\ c.pc = "finish" /\ c.stop = call[t].stop
    BY <1>2, <1>4 DEF Fields, Goes
  <2>2. motion' = motion /\ todo \subseteq Given
    BY DEF Collect, OperationsOf, WellFormed, IdsGiven
  <2> HIDE DEF todo
  <2>3. ASSUME NEW i \in todo
        PROVE  Accounted(i, c.stop)'
    <3>1. MovedBy(i)' = MovedBy(i)
      BY <2>2 DEF MovedBy
    <3>2. i \in NotYetCalled' => i \in NotYetCalled
      <4>1. CASE t = "rest"
        BY <2>1, <4>1, RestNotCalling
      <4>2. CASE t # "rest"
        BY <1>2, <4>2 DEF Goes, Threads, NotYetCalled
      <4> QED  BY <4>1, <4>2
    <3>3. i \in NotYetCalled \/ (~c.stop /\ MovedBy(i) # {}) => i \in loose'
      BY <1>4, <2>1 DEF Ended
    <3> QED  BY <3>1, <3>2, <3>3 DEF Accounted
  <2>4. Account(t)'
    BY <2>1, <2>3 DEF Account, Accounted
  <2> QED  BY <1>1, <1>2, <2>4, AccountsOf
<1> QED  BY <1>2, <1>3, <1>4

\* So is what the lifecycle thread is to finish.
LEMMA AccountsScan ==
  ASSUME WellFormed, UnknownBefore, Accounts, Scan
  PROVE  Accounts'
<1> DEFINE loop == call["lifecycle"]
<1>1. [Next]_vars /\ "lifecycle" \in Threads
  BY DEF Next, Threads
<1>2. PICK i \in snapshot, c \in CallSet :
        /\ Goes("lifecycle", c)
        /\ \/ /\ Fields(c, loop, "finish", loop.id, {i}, Expired(i))
              /\ loose' = Ended({i} \cap registered, Expired(i))
           \/ c = loop
  BY ScanEffect DEF WellFormed
<1>3. CASE c = loop
  <2>1. Account("lifecycle")'
    BY <1>1, <1>2, <1>3, AccountOthers DEF Goes
  <2> QED  BY <1>1, <1>2, <2>1, AccountsOf
<1>4. CASE /\ Fields(c, loop, "finish", loop.id, {i}, Expired(i))
           /\ loose' = Ended({i} \cap registered, Expired(i))
  <2>1. call'["lifecycle"] = c /\ c.todo = {i} /\ c.pc = "finish" /\ c.stop = Expired(i)
        /\ call'["rest"] = call["rest"]
    BY <1>2, <1>4 DEF Fields, Goes, Threads
  <2>2. motion' = motion /\ registered' = registered
    BY DEF Scan
  <2>3. ASSUME i \in registered
        PROVE  Accounted(i, c.stop)'
    <3>1. MovedBy(i)' = MovedBy(i) /\ NotYetCalled' = NotYetCalled
      BY <2>1, <2>2 DEF MovedBy, NotYetCalled
    <3>2. i \in NotYetCalled \/ (~c.stop /\ MovedBy(i) # {}) => i \in loose'
      BY <1>4, <2>1, <2>3 DEF Ended
    <3> QED  BY <3>1, <3>2 DEF Accounted
  <2>4. Account("lifecycle")'
    BY <2>1, <2>2, <2>3 DEF Account, Accounted
  <2> QED  BY <1>1, <1>2, <2>4, AccountsOf
<1> QED  BY <1>2, <1>3, <1>4

\* One that is taken is stopped next, or loose.
LEMMA AccountsPop ==
  ASSUME WellFormed, UnknownBefore, Accounts, NEW t \in Threads, Pop(t)
  PROVE  Accounts'
<1>1. [Next]_vars
  BY DEF Next, FinishStep
<1>2. PICK i \in call[t].todo, c \in CallSet : Pops(t, i, c)
  BY PopEffect DEF WellFormed
<1>3. Goes(t, c) /\ registered' = registered \ {i} /\ c.todo = call[t].todo \ {i} /\ c.stop = call[t].stop
  BY <1>2 DEF Pops
<1>4. i \in Given /\ call[t].todo \subseteq Given
  BY DEF WellFormed, IdsGiven
<1>5. ASSUME NEW j \in call[t].todo, j \in registered
      PROVE  Accounted(j, c.stop)'
  <2>1. Accounted(j, call[t].stop) /\ j \in Given
    BY <1>4, <1>5 DEF Accounts, Account
  <2>2. Accounted(j, c.stop)
    BY <1>3, <2>1 DEF Accounted
  <2> QED  BY <1>1, <2>1, <2>2, AccountKept
<1>6. i \in registered => Accounted(i, c.stop)'
  BY <1>5
<1>7. c.pc = "end" => Accounted(c.id, TRUE)'
  <2> SUFFICES ASSUME c.pc = "end"  PROVE Accounted(c.id, TRUE)'
    OBVIOUS
  <2>1. i \in registered /\ c.id = i /\ c.stop
    BY <1>2 DEF Pops
  <2> QED  BY <1>6, <2>1 DEF Accounted
<1>8. c.pc = "release" => Accounted(c.id, FALSE)'
  <2> SUFFICES ASSUME c.pc = "release"  PROVE Accounted(c.id, FALSE)'
    OBVIOUS
  <2>1. i \in registered /\ c.id = i /\ ~c.stop
    BY <1>2 DEF Pops
  <2> QED  BY <1>6, <2>1 DEF Accounted
<1>9. Account(t)'
  BY <1>3, <1>5, <1>7, <1>8 DEF Account, Accounted, Goes
<1> QED  BY <1>1, <1>3, <1>9, AccountsOf

\* After its stop nothing of it moves, or the stop raised and it is loose.
LEMMA AccountsEndStop ==
  ASSUME WellFormed, UnknownBefore, MovesItsMotors, Accounts, NEW t \in Threads, EndStop(t)
  PROVE  Accounts'
<1>1. [Next]_vars
  BY DEF Next, FinishStep
<1> PICK i \in Given : i = call[t].id
  BY HeldGiven DEF EndStop
<1>2. PICK c \in CallSet : Goes(t, c) /\ Fields(c, call[t], "release", i, call[t].todo, call[t].stop)
  BY EndStopEffect DEF WellFormed
<1>3. call'[t] = c /\ c.pc = "release" /\ c.id = i /\ c.todo = call[t].todo /\ c.stop = call[t].stop
      /\ registered' = registered
  BY <1>2 DEF Fields, Goes, EndStop
<1>4. Accounted(i, TRUE)'
  <2>1. Accounted(i, TRUE)
    BY DEF Accounts, Account, EndStop
  <2> QED  BY <1>1, <2>1, AccountKept
<1>5. Accounted(i, FALSE)'
  <2>1. CASE Raised
    <3>1. i \in loose'
      BY <2>1 DEF EndStop
    <3> QED  BY <3>1 DEF Accounted
  <2>2. CASE ~Raised
    <3>1. \A m \in Motors : /\ motion'[m] \in {motion[m], Nobody}
                            /\ m \in operation[i].motors => motion'[m] = Nobody
      BY <2>2, StopsOnly DEF EndStop
    <3>2. i # Nobody
      BY <1>1, ConstantsAssumption DEF Given, Nobody, WellFormed, TypeOK
    <3>3. \A m \in Motors : motion'[m] # i
      BY <3>1, <3>2 DEF MovesItsMotors
    <3>4. MovedBy(i)' = {}
      BY <3>3 DEF MovedBy
    <3> QED  BY <1>4, <3>4 DEF Accounted
  <2> QED  BY <2>1, <2>2
<1>6. ASSUME NEW j \in c.todo, j \in registered'
      PROVE  Accounted(j, c.stop)'
  <2>1. Accounted(j, call[t].stop) /\ j \in Given
    BY <1>3, <1>6 DEF Accounts, Account, WellFormed, IdsGiven
  <2>2. Accounted(j, c.stop)
    BY <1>3, <2>1 DEF Accounted
  <2> QED  BY <1>1, <2>1, <2>2, AccountKept
<1>7. Account(t)'
  BY <1>3, <1>5, <1>6 DEF Account, Accounted
<1> QED  BY <1>1, <1>2, <1>7, AccountsOf

\* Hence every step keeps the accounts.
LEMMA AccountsNext ==
  ASSUME WellFormed, UnknownBefore, MovesItsMotors, Accounts, [Next]_vars
  PROVE  Accounts'
<1>1. ASSUME NEW o \in Objects, NEW codes \in SUBSET Motors, Create(o, codes)
      PROVE  Accounts'
  BY <1>1, AccountsOfAll DEF Create
<1>2. ASSUME NEW o \in Objects, NEW k \in Methods, Invoke(o, k)
      PROVE  Accounts'
  <2>1. PICK c \in CallSet :
          /\ Goes("rest", c)
          /\ c.todo = {} \/ (c.todo = call["rest"].todo /\ c.stop \in {call["rest"].stop, TRUE})
          /\ c.pc \notin {"end", "release"}
    <3>1. PICK c \in CallSet : Goes("rest", c) /\ Fresh(c) /\ c.pc = IF k \in Guarded THEN "begin" ELSE "halt"
      BY <1>2, InvokeEffect DEF WellFormed
    <3>2. c.todo = {} /\ c.pc \notin {"end", "release"}
      BY <3>1 DEF Fresh
    <3> QED  BY <3>1, <3>2
  <2>2. registered' = registered /\ "rest" \in Threads
    BY <1>2 DEF Invoke, Threads
  <2>3. Account("rest")'
    BY <2>1, <2>2, AccountMoves
  <2> QED  BY <2>1, <2>2, <2>3, AccountsOf
<1>3. ASSUME NEW o \in Objects, Delete(o)
      PROVE  Accounts'
  <2>1. PICK c \in CallSet :
          /\ Goes("rest", c)
          /\ c.todo = {} \/ (c.todo = call["rest"].todo /\ c.stop \in {call["rest"].stop, TRUE})
          /\ c.pc \notin {"end", "release"}
    BY <1>3, DeleteEffect DEF WellFormed, Fields, Fresh
  <2>2. registered' = registered /\ "rest" \in Threads
    BY <1>3 DEF Delete, Threads
  <2>3. Account("rest")'
    BY <2>1, <2>2, AccountMoves
  <2> QED  BY <2>1, <2>2, <2>3, AccountsOf
<1>4. CASE Begin
  <2>1. PICK c \in CallSet :
          /\ Goes("rest", c)
          /\ c.todo = {} \/ (c.todo = call["rest"].todo /\ c.stop \in {call["rest"].stop, TRUE})
          /\ c.pc \notin {"end", "release"}
    <3>1. PICK c \in CallSet : Goes("rest", c)
      BY <1>4, BeginEffect DEF WellFormed, RestReady, Begin
    <3> QED  BY <1>4, <3>1, BeginCase DEF Goes
  <2>2. registered' = registered /\ "rest" \in Threads
    BY <1>4 DEF Begin, Threads
  <2>3. Account("rest")'
    BY <2>1, <2>2, AccountMoves
  <2> QED  BY <2>1, <2>2, <2>3, AccountsOf
<1>5. CASE Register
  BY <1>5, AccountsRegister
<1>6. CASE Method
  BY <1>6, AccountsMethod
<1>7. CASE BlockingReturns
  BY <1>7, AccountsReturn
<1>8. CASE StopMethod
  <2>1. PICK c \in CallSet :
          /\ Goes("rest", c)
          /\ c.todo = {} \/ (c.todo = call["rest"].todo /\ c.stop \in {call["rest"].stop, TRUE})
          /\ c.pc \notin {"end", "release"}
    BY <1>8, StopMethodEffect DEF WellFormed, Fields, Fresh
  <2>2. registered' = registered /\ "rest" \in Threads
    BY <1>8 DEF StopMethod, Threads
  <2>3. Account("rest")'
    BY <2>1, <2>2, AccountMoves
  <2> QED  BY <2>1, <2>2, <2>3, AccountsOf
<1>9. ASSUME NEW t \in Threads, Off(t)
      PROVE  Accounts'
  <2>1. PICK c \in CallSet :
          /\ Goes(t, c)
          /\ c.todo = {} \/ (c.todo = call[t].todo /\ c.stop \in {call[t].stop, TRUE})
          /\ c.pc \notin {"end", "release"}
    BY <1>9, OffEffect DEF WellFormed, Fields, Fresh
  <2>2. registered' = registered /\ t \in Threads
    BY <1>9 DEF Off, Threads
  <2>3. Account(t)'
    BY <2>1, <2>2, AccountMoves
  <2> QED  BY <2>1, <2>2, <2>3, AccountsOf
<1>10. ASSUME NEW t \in Threads, Collect(t)
      PROVE  Accounts'
  BY <1>10, AccountsCollect
<1>11. ASSUME NEW t \in Threads, CallEnds(t)
      PROVE  Accounts'
  <2>1. PICK c \in CallSet :
          /\ Goes(t, c)
          /\ c.todo = {} \/ (c.todo = call[t].todo /\ c.stop \in {call[t].stop, TRUE})
          /\ c.pc \notin {"end", "release"}
    BY <1>11, CallEndsEffect DEF WellFormed, Fields, Fresh
  <2>2. registered' = registered /\ t \in Threads
    BY <1>11 DEF CallEnds, Threads
  <2>3. Account(t)'
    BY <2>1, <2>2, AccountMoves
  <2> QED  BY <2>1, <2>2, <2>3, AccountsOf
<1>12. ASSUME NEW t \in Threads, Pop(t)
      PROVE  Accounts'
  BY <1>12, AccountsPop
<1>13. ASSUME NEW t \in Threads, EndStop(t)
      PROVE  Accounts'
  BY <1>13, AccountsEndStop
<1>14. ASSUME NEW t \in Threads, Release(t)
      PROVE  Accounts'
  <2>1. PICK c \in CallSet :
          /\ Goes(t, c)
          /\ c.todo = {} \/ (c.todo = call[t].todo /\ c.stop \in {call[t].stop, TRUE})
          /\ c.pc \notin {"end", "release"}
    BY <1>14, ReleaseEffect DEF WellFormed, Fields, Fresh
  <2>2. registered' = registered /\ t \in Threads
    BY <1>14 DEF Release, Threads
  <2>3. Account(t)'
    BY <2>1, <2>2, AccountMoves
  <2> QED  BY <2>1, <2>2, <2>3, AccountsOf
<1>15. ASSUME NEW t \in Threads, DeleteNext(t)
      PROVE  Accounts'
  <2>1. PICK c \in CallSet :
          /\ Goes(t, c)
          /\ c.todo = {} \/ (c.todo = call[t].todo /\ c.stop \in {call[t].stop, TRUE})
          /\ c.pc \notin {"end", "release"}
    BY <1>15, DeleteNextEffect DEF WellFormed, DeleteNext, Fresh
  <2>2. registered' = registered /\ t \in Threads
    BY <1>15 DEF DeleteNext, Threads
  <2>3. Account(t)'
    BY <2>1, <2>2, AccountMoves
  <2> QED  BY <2>1, <2>2, <2>3, AccountsOf
<1>16. ASSUME NEW i \in Operations, DeadlinePasses(i)
      PROVE  Accounts'
  BY <1>16, AccountsOfAll DEF DeadlinePasses
<1>17. ASSUME NEW i \in Operations, MotionEnds(i)
      PROVE  Accounts'
  BY <1>17, AccountsOfAll DEF MotionEnds
<1>18. CASE Refresh
  BY <1>18, AccountsOfAll DEF Refresh
<1>19. CASE Cycle
  <2>1. PICK c \in CallSet :
          /\ Goes("lifecycle", c)
          /\ c.todo = {} \/ (c.todo = call["lifecycle"].todo /\ c.stop \in {call["lifecycle"].stop, TRUE})
          /\ c.pc \notin {"end", "release"}
    BY <1>19, LoopEffect DEF WellFormed, Cycle, Fields, Threads
  <2>2. registered' = registered /\ "lifecycle" \in Threads
    BY <1>19 DEF Cycle, Threads
  <2>3. Account("lifecycle")'
    BY <2>1, <2>2, AccountMoves
  <2> QED  BY <2>1, <2>2, <2>3, AccountsOf
<1>20. CASE Scan
  BY <1>20, AccountsScan
<1>21. CASE Expire
  BY <1>21, AccountsOfAll DEF Expire
<1>22. CASE CycleEnds
  <2>1. PICK c \in CallSet :
          /\ Goes("lifecycle", c)
          /\ c.todo = {} \/ (c.todo = call["lifecycle"].todo /\ c.stop \in {call["lifecycle"].stop, TRUE})
          /\ c.pc \notin {"end", "release"}
    BY <1>22, RestsEffect DEF WellFormed, CycleEnds, Fresh, Threads
  <2>2. registered' = registered /\ "lifecycle" \in Threads
    BY <1>22 DEF CycleEnds, Threads
  <2>3. Account("lifecycle")'
    BY <2>1, <2>2, AccountMoves
  <2> QED  BY <2>1, <2>2, <2>3, AccountsOf
<1>23. CASE StopRest
  BY <1>23, AccountsOfAll DEF StopRest
<1>24. CASE Close
  <2>1. PICK c \in CallSet :
          /\ Goes("closer", c)
          /\ c.todo = {} \/ (c.todo = call["closer"].todo /\ c.stop \in {call["closer"].stop, TRUE})
          /\ c.pc \notin {"end", "release"}
    BY <1>24, LoopEffect DEF WellFormed, Close, Fields, Threads
  <2>2. registered' = registered /\ "closer" \in Threads
    BY <1>24 DEF Close, Threads
  <2>3. Account("closer")'
    BY <2>1, <2>2, AccountMoves
  <2> QED  BY <2>1, <2>2, <2>3, AccountsOf
<1>25. CASE Closed
  <2>1. PICK c \in CallSet :
          /\ Goes("closer", c)
          /\ c.todo = {} \/ (c.todo = call["closer"].todo /\ c.stop \in {call["closer"].stop, TRUE})
          /\ c.pc \notin {"end", "release"}
    BY <1>25, RestsEffect DEF WellFormed, Closed, Fresh, Threads
  <2>2. registered' = registered /\ "closer" \in Threads
    BY <1>25 DEF Closed, Threads
  <2>3. Account("closer")'
    BY <2>1, <2>2, AccountMoves
  <2> QED  BY <2>1, <2>2, <2>3, AccountsOf
<1>26. CASE UNCHANGED vars
  BY <1>26, AccountsOfAll DEF vars
<1> QED
  BY <1>1, <1>2, <1>3, <1>4, <1>5, <1>6, <1>7, <1>8, <1>9, <1>10, <1>11, <1>12, <1>13,
     <1>14, <1>15, <1>16, <1>17, <1>18, <1>19, <1>20, <1>21, <1>22, <1>23, <1>24, <1>25, <1>26
  DEF Next, InvokeStep, FinishStep

\* A motor that a native call moves is reserved against commands, for every operation of
\* the gateway but those that were ended before their method was called, without a stop,
\* or with a stop that raised.
THEOREM MovementsAreReserved == Spec => []MovementIsReserved
<1>1. Init => Loosened
  <2> SUFFICES ASSUME Init  PROVE Loosened
    OBVIOUS
  <2>1. \A t \in Threads : call[t].pc = "idle" /\ call[t].todo = {}
    BY NoCallFresh DEF Init, Fresh
  <2>2. \A m \in Motors : motion[m] = Nobody
    BY DEF Init
  <2>3. MovesItsMotors /\ MovementIsReserved
    BY <2>2 DEF MovesItsMotors, MovementIsReserved
  <2>4. UnknownBefore /\ HandedOver /\ Accounts
    BY <2>1 DEF UnknownBefore, HandedOver, Accounts, Account, Threads
  <2> QED  BY <2>3, <2>4 DEF Loosened
<1>2. WellFormed /\ Settled /\ Loosened /\ [Next]_vars => Loosened'
  BY MovesNext, UnknownNext, HandedNext, AccountsNext, ReservedNext DEF Loosened
<1>3. Loosened => MovementIsReserved
  BY DEF Loosened
<1>4. WellFormed /\ Settled /\ [Next]_vars => Settled'
  BY SettledNext
<1> QED  BY <1>1, <1>2, <1>3, <1>4, SettledInit, WellFormedInit, WellFormedNext, PTL DEF Spec
=============================================================================
