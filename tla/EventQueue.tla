----------------------------- MODULE EventQueue -----------------------------
(***************************************************************************)
(* What the event loop of libril promises its users                        *)
(* (hardware/ril/libril/ril_event.h): callbacks run one at a time on one   *)
(* thread; an event that was added is served while it stays added, a       *)
(* non-persistent one once; timers are called back in the order of their   *)
(* times, once each, and not before their time.                            *)
(***************************************************************************)
EXTENDS Integers, Sequences, Functions

CONSTANTS
    Event,    \* events on file descriptors
    OneShot,  \* the non-persistent ones
    Timer,    \* timer events
    MaxDelay, \* bound on the delay of a timer
    None

VARIABLES
    armed,    \* the events that are added
    queue,    \* the timers, in the order they will be called back
    left,     \* per timer in the queue: its time left, -1 when that is over
    running   \* the event whose callback runs

absVars == <<armed, queue, left, running>>

Init == armed = {} /\ queue = <<>> /\ left = [t \in Timer |-> None] /\ running = None

Add(e) == armed' = armed \cup {e} /\ UNCHANGED <<queue, left, running>>

Delete(e) == armed' = armed \ {e} /\ UNCHANGED <<queue, left, running>>

\* The timer takes a place that keeps the queue ordered.
AddTimer(t, delay) ==
    /\ t \notin Range(queue)
    /\ left' = [left EXCEPT ![t] = delay]
    /\ \E i \in 1..(Len(queue) + 1) :
          /\ queue' = SubSeq(queue, 1, i - 1) \o <<t>> \o SubSeq(queue, i, Len(queue))
          /\ \A j \in 1..(i - 1) : left[queue[j]] <= delay
          /\ \A j \in i..Len(queue) : left[queue[j]] >= delay
    /\ UNCHANGED <<armed, running>>

Tick ==
    /\ left' = [t \in Timer |-> IF left[t] \in {None, -1} THEN left[t] ELSE left[t] - 1]
    /\ UNCHANGED <<armed, queue, running>>

Fire(e) ==
    /\ running = None /\ e \in armed
    /\ running' = e
    /\ armed' = IF e \in OneShot THEN armed \ {e} ELSE armed
    /\ UNCHANGED <<queue, left>>

FireTimer ==
    /\ running = None /\ queue # <<>>
    /\ left[Head(queue)] = -1
    /\ running' = Head(queue)
    /\ left' = [left EXCEPT ![Head(queue)] = None]
    /\ queue' = Tail(queue)
    /\ UNCHANGED armed

Return == running # None /\ running' = None /\ UNCHANGED <<armed, queue, left>>

Next ==
    \/ \E e \in Event : Add(e) \/ Delete(e) \/ Fire(e)
    \/ \E t \in Timer, d \in 0..MaxDelay : AddTimer(t, d)
    \/ Tick \/ FireTimer \/ Return

Spec == Init /\ [][Next]_absVars
=============================================================================
