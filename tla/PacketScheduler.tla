---------------------------- MODULE PacketScheduler ----------------------------
(***************************************************************************)
(* The queues between the Agent's threads                                  *)
(* (include/uxr/agent/scheduler/PacketScheduler.hpp).  A scheduler has one *)
(* deque for each priority, a largest size for each, and the flag that     *)
(* deinit clears.  Each method holds the scheduler's mutex from its first  *)
(* line to its last, so each is one operator on the scheduler's value.     *)
(* There is one consumer, which waits with a predicate under that mutex:   *)
(* CanPop is the guard its wait amounts to.                                *)
(***************************************************************************)
EXTENDS Naturals, Sequences

Priorities == {0, 1}

(* sizes_ has no entry for a priority until one is set: operator[] of the  *)
(* map then makes it zero.                                                 *)
NewScheduler ==
    [deque   |-> [p \in Priorities |-> << >>],
     sizes   |-> [p \in Priorities |-> 0],
     running |-> FALSE]

SetPrioritySize(s, p, n) == [s EXCEPT !.sizes[p] = n]

InitScheduler(s, maxSize) == [s EXCEPT !.sizes[0] = maxSize, !.running = TRUE]

(* A plausible bug: the consumer waits on.                                 *)
DeinitScheduler_waits(s) == s

(* deinit wakes the consumer and keeps what is queued.                     *)
DeinitScheduler(s) == [s EXCEPT !.running = FALSE]

(* A plausible bug: no limit.                                              *)
Push_unlimited(s, e, p) == [s EXCEPT !.deque[p] = Append(@, e)]

(* A full deque loses its oldest element to the new one.                   *)
Push(s, e, p) ==
    [s EXCEPT !.deque[p] =
        Append(IF s.sizes[p] <= Len(@) THEN Tail(@) ELSE @, e)]

(* A plausible bug: the packet goes to the back.                           *)
PushFront_back(s, e, p) == [s EXCEPT !.deque[p] = Append(@, e)]

(* push_front looks at no limit.                                           *)
PushFront(s, e, p) == [s EXCEPT !.deque[p] = <<e>> \o @]

Empty(s) == \A p \in Priorities : s.deque[p] = << >>

CanPop(s) == ~(Empty(s) /\ s.running)

(* The highest priority that has an element.                               *)
Available(s) == IF s.deque[1] # << >> THEN 1 ELSE 0

Front(s) == Head(s.deque[Available(s)])

Pop(s) == [s EXCEPT !.deque[Available(s)] = Tail(@)]

================================================================================
