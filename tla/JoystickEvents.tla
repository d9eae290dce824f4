--------------------------- MODULE JoystickEvents ---------------------------
(***************************************************************************)
(* The events of EvdevJoystickAdapter while the device is open: from the   *)
(* kernel's queue through the coalescing buffer to the service, in bounded *)
(* batches, and the snapshots of the startup neutral check that discard    *)
(* both.  The loops over events take a step for each event, while the      *)
(* kernel queues further ones.  An axis takes a new position with every    *)
(* event; the positions are numbered, and so are the presses of the (one)  *)
(* key, the stop button: the service discards the axis events of a batch   *)
(* that holds its press.                                                   *)
(***************************************************************************)
EXTENDS Integers, Sequences, FiniteSets, SequencesExt

CONSTANTS
  Axes,         \* traction axes
  QueueSize,    \* events the kernel keeps for a reader
  ReadSize,     \* events one read of the device returns
  MaxBatches,   \* MAX_DRAIN_BATCHES
  EventLimit,   \* MAX_EVENTS_PER_CYCLE
  MaxMoves,     \* bound: positions an axis takes
  MaxPresses    \* bound: presses of the key

VARIABLES
  position,   \* axis -> its physical position
  presses,    \* presses of the key so far
  kernel,     \* events the kernel has for the reader
  taken,      \* events of the last read that are not in the buffer yet
  buffer,     \* _event_buffer
  drain,      \* the joystick thread: where it is, reads made, events handed over, whether with a press
  latest,     \* axis -> the position the service is to hold by the batch handed to it
  memory,     \* axis -> the position the service holds
  delivered,  \* presses the service has seen
  dropped,    \* history: axes of which the kernel dropped an event
  discarded,  \* history: axes whose newest event was discarded with a press of the stop button
  forgotten   \* history: presses that were discarded or dropped

event_vars == <<position, presses, kernel, taken, buffer, drain, latest, memory, delivered,
                dropped, discarded, forgotten>>

AxisEvent(a, p) == [type |-> "axis", code |-> a, value |-> p]
KeyEvent(n)     == [type |-> "key", code |-> "stop", value |-> n]

Events == {AxisEvent(a, p) : a \in Axes, p \in 0..MaxMoves} \cup {KeyEvent(n) : n \in 1..MaxPresses}

IsOf(a, e)      == e.type = "axis" /\ e.code = a
SameAxis(e, f)  == e.type = "axis" /\ IsOf(e.code, f)

\* The buffer holds at most one event of an axis, so its size is bounded.
TypeOK ==
  /\ position \in [Axes -> 0..MaxMoves]
  /\ presses \in 0..MaxPresses
  /\ kernel \in Seq(Events) /\ Len(kernel) <= QueueSize
  /\ taken \in Seq(Events) /\ Len(taken) <= ReadSize
  /\ buffer \in Seq(Events)
  /\ \A j, k \in DOMAIN buffer : SameAxis(buffer[j], buffer[k]) => j = k
  /\ drain \in [pc : {"starting", "discard", "snapshot", "idle", "read", "append", "more", "deliver"},
                reads : 0..MaxBatches, handed : 0..EventLimit, press : BOOLEAN]
  /\ latest \in [Axes -> 0..MaxMoves]
  /\ memory \in [Axes -> 0..MaxMoves]
  /\ delivered \in Seq(1..MaxPresses)
  /\ dropped \subseteq Axes /\ discarded \subseteq Axes
  /\ forgotten \subseteq 1..MaxPresses

\* activating the device queues the current position of the axes that can be read.
Primings ==
  UNION {{s \in [1..n -> {AxisEvent(a, position[a]) : a \in Axes}] :
            \A j, k \in 1..n : s[j] = s[k] => j = k} : n \in 0..Cardinality(Axes)}

Init ==
  /\ position = [a \in Axes |-> 0]
  /\ presses = 0
  /\ kernel = << >> /\ taken = << >>
  /\ buffer \in Primings
  /\ drain = [pc |-> "starting", reads |-> 0, handed |-> 0, press |-> FALSE]
  /\ latest = [a \in Axes |-> 0]
  /\ memory = [a \in Axes |-> 0]
  /\ delivered = << >>
  /\ dropped = {} /\ discarded = {}
  /\ forgotten = {}

At(pc)   == drain.pc = pc
Goes(pc) == drain' = [pc |-> pc, reads |-> 0, handed |-> 0, press |-> FALSE]

\* A step of the session that moves events only, but for these.
Keeps(others) ==
  UNCHANGED <<position, presses, latest, memory, delivered, dropped, discarded, forgotten, others>>

PressesIn(events) == {e.value : e \in {f \in events : f.type = "key"}}
Upto(n, s)   == SubSeq(s, 1, IF Len(s) < n THEN Len(s) ELSE n)
Beyond(n, s) == SubSeq(s, n + 1, Len(s))

-----------------------------------------------------------------------------
(* The operator and the kernel, whose full queue is dropped but for the    *)
(* newest event; the adapter passes over the event that says so.           *)

Queue(e) ==
  IF Len(kernel) < QueueSize
  THEN kernel' = Append(kernel, e) /\ UNCHANGED <<dropped, forgotten>>
  ELSE /\ kernel' = <<e>>
       /\ dropped' = dropped \cup {a \in Axes : \E f \in ToSet(kernel) : IsOf(a, f)}
       /\ forgotten' = forgotten \cup PressesIn(ToSet(kernel))

Move(a) ==
  /\ position[a] < MaxMoves
  /\ position' = [position EXCEPT ![a] = @ + 1]
  /\ Queue(AxisEvent(a, position[a] + 1))
  /\ UNCHANGED <<presses, taken, buffer, drain, latest, memory, delivered, discarded>>

Press ==
  /\ presses < MaxPresses
  /\ presses' = presses + 1
  /\ Queue(KeyEvent(presses + 1))
  /\ UNCHANGED <<position, taken, buffer, drain, latest, memory, delivered, discarded>>

-----------------------------------------------------------------------------
(* Startup: refresh_absolute_state, as often as the neutral check asks.    *)

RefreshBegins ==
  /\ At("starting")
  /\ forgotten' = forgotten \cup PressesIn(ToSet(buffer))
  /\ buffer' = << >>
  /\ Goes("discard")
  /\ UNCHANGED <<position, presses, kernel, taken, latest, memory, delivered, dropped, discarded>>

\* At most MaxBatches reads: what is left is read by the session.
Discard ==
  /\ At("discard")
  /\ kernel # << >> /\ drain.reads < MaxBatches
  /\ forgotten' = forgotten \cup PressesIn(ToSet(Upto(ReadSize, kernel)))
  /\ kernel' = Beyond(ReadSize, kernel)
  /\ drain' = [drain EXCEPT !.reads = @ + 1]
  /\ UNCHANGED <<position, presses, taken, buffer, latest, memory, delivered, dropped, discarded>>

Discarded ==
  /\ At("discard")
  /\ kernel = << >> \/ drain.reads = MaxBatches
  /\ Goes("snapshot")
  /\ Keeps(<<kernel, taken, buffer>>)

\* The snapshot makes the memory true again, whatever was dropped before it.
Snapshot ==
  /\ At("snapshot")
  /\ memory' = position /\ latest' = position
  /\ dropped' = {} /\ discarded' = {}
  /\ \E pc \in {"starting", "idle"} : Goes(pc)
  /\ UNCHANGED <<position, presses, kernel, taken, buffer, delivered, forgotten>>

-----------------------------------------------------------------------------
(* The session: read_event_batch.                                          *)

\* The wait for input ends, or there is none and the buffer is not empty.
ReadBegins ==
  /\ At("idle")
  /\ \/ kernel # << >> /\ Goes("read")
     \/ kernel = << >> /\ buffer # << >> /\ Goes("deliver")
  /\ Keeps(<<kernel, taken, buffer>>)

ReadBatch ==
  /\ At("read")
  /\ taken' = Upto(ReadSize, kernel)
  /\ kernel' = Beyond(ReadSize, kernel)
  /\ drain' = [drain EXCEPT !.pc = "append", !.reads = @ + 1]
  /\ Keeps(<<buffer>>)

\* Coalescing: an axis has one event in the buffer (TypeOK), the newest, at its end;
\* the keys keep their places.
CoalescedInARow(events, e) ==             \* mutant: only with the event before it
  Append(IF events # << >> /\ SameAxis(e, Last(events)) THEN Front(events) ELSE events, e)

Coalesced(events, e) ==
  LET older == {k \in DOMAIN events : SameAxis(e, events[k])}
  IN  Append(IF older = {} THEN events ELSE RemoveAt(events, CHOOSE k \in older : TRUE), e)

AppendCoalesced ==
  /\ At("append")
  /\ IF taken = << >>
     THEN drain' = [drain EXCEPT !.pc = "more"] /\ UNCHANGED <<taken, buffer>>
     ELSE /\ buffer' = Coalesced(buffer, Head(taken))
          /\ taken' = Tail(taken)
          /\ UNCHANGED drain
  /\ Keeps(<<kernel>>)

\* Another read follows while there is input, reads are left, and time is.
ReadMore ==
  /\ At("more")
  /\ \/ kernel # << >> /\ drain.reads < MaxBatches /\ drain' = [drain EXCEPT !.pc = "read"]
     \/ Goes("deliver")
  /\ Keeps(<<kernel, taken, buffer>>)

NewestIn(events) == Len(events)           \* mutant: pop instead of popleft
OldestIn(events) == 1

\* The service gets the oldest events of the buffer, up to a limit: it collects the
\* newest value of each axis and every press.
Deliver ==
  /\ At("deliver")
  /\ buffer # << >> /\ drain.handed < EventLimit
  /\ LET k == OldestIn(buffer)
         e == buffer[k] IN
     /\ buffer' = RemoveAt(buffer, k)
     /\ IF e.type = "axis"
        THEN /\ latest' = [latest EXCEPT ![e.code] = e.value]
             /\ discarded' = discarded \ {e.code}
             /\ drain' = [drain EXCEPT !.handed = @ + 1]
             /\ UNCHANGED delivered
        ELSE /\ delivered' = Append(delivered, e.value)
             /\ drain' = [drain EXCEPT !.handed = @ + 1, !.press = TRUE]
             /\ UNCHANGED <<latest, discarded>>
  /\ UNCHANGED <<position, presses, kernel, taken, memory, dropped, forgotten>>

\* The batch is complete: a press of the stop button in it discards its axis events,
\* which are applied otherwise.
Delivered ==
  /\ At("deliver")
  /\ buffer = << >> \/ drain.handed = EventLimit
  /\ IF drain.press
     THEN /\ latest' = memory
          /\ discarded' = discarded \cup {a \in Axes : latest[a] # memory[a]}
          /\ UNCHANGED memory
     ELSE memory' = latest /\ UNCHANGED <<latest, discarded>>
  /\ Goes("idle")
  /\ UNCHANGED <<position, presses, kernel, taken, buffer, delivered, dropped, forgotten>>

-----------------------------------------------------------------------------
Next ==
  \/ \E a \in Axes : Move(a)
  \/ Press
  \/ RefreshBegins \/ Discard \/ Discarded \/ Snapshot
  \/ ReadBegins \/ ReadBatch \/ AppendCoalesced \/ ReadMore \/ Deliver \/ Delivered

Spec == Init /\ [][Next]_event_vars

-----------------------------------------------------------------------------
(* Properties.                                                             *)

Waiting == ToSet(kernel) \cup ToSet(taken) \cup ToSet(buffer)

\* Between two batches of a session an axis whose events have all been delivered is
\* where the service believes it to be, unless the kernel dropped an event of it or the
\* newest was in a batch with a press of the stop button: neither coalescing, nor
\* bounded batches, nor a snapshot taken while events arrive leaves the service with an
\* older position.
MemoryCatchesUp ==
  drain.pc \notin {"starting", "discard", "snapshot", "deliver"} =>
    \A a \in Axes \ (dropped \cup discarded) :
      (\A e \in Waiting : ~IsOf(a, e)) => memory[a] = position[a]

\* Every press reaches the service once and in order, or waits to, unless it
\* was discarded at startup or dropped by the kernel.
PressesAreKept ==
  /\ \A j, k \in DOMAIN delivered : j < k => delivered[j] < delivered[k]
  /\ 1..presses = ToSet(delivered) \cup PressesIn(Waiting) \cup forgotten
  /\ ToSet(delivered) \cap PressesIn(Waiting) = {}
=============================================================================
