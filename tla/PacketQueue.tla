----------------------------- MODULE PacketQueue -----------------------------
(***************************************************************************)
(* The bounded packet queue between the UDP RX thread and the frame worker  *)
(* (packet_queue.hpp, packet_queue.cpp): a std::queue under one mutex with  *)
(* one condition variable.                                                  *)
(*                                                                          *)
(* Every critical section is one step: nothing blocks inside it except the  *)
(* wait on the condition variable, which gives the mutex back.  notify_one  *)
(* is a step of its own, because push calls it after unlocking.  A thread   *)
(* is asleep between its wait and a wake-up (a notification, the timeout of *)
(* wait_for, or a spurious wake-up), and woken until it holds the mutex     *)
(* again.                                                                   *)
(***************************************************************************)
EXTENDS Naturals, Sequences, FiniteSets

CONSTANTS
    Producers,     \* threads that call push
    Consumers,     \* threads that call one of the pop operations
    Packets,       \* the packets that can be queued
    NoPacket,      \* a null pointer, or pop_until / try_pop returning false
    Capacity,      \* capacity_
    MaxDropped     \* bound of the model: no push once this many were dropped

ASSUME QueueAssumption ==
    /\ IsFiniteSet(Producers)
    /\ IsFiniteSet(Consumers)
    /\ Producers \cap Consumers = {}
    /\ NoPacket \notin Packets
    /\ Capacity \in Nat
    /\ MaxDropped \in Nat

VARIABLES
    q,             \* q_
    dropped,       \* dropped_
    shutdown,      \* the std::atomic<bool> the pop operations are given
    thread,        \* where each thread is in the call it makes
    got            \* what the last pop of each consumer returned

vars == <<q, dropped, shutdown, thread, got>>

Threads == Producers \cup Consumers

Asleep == {c \in Consumers : thread[c] \in {"wait", "timedWait"}}
Woken  == {c \in Consumers : thread[c] \in {"woken", "timedWoken"}}
Notifying == {p \in Producers : thread[p] = "notify"}

TypeOK ==
    /\ q \in Seq(Packets)
    /\ Len(q) <= Capacity
    /\ dropped \in Nat
    /\ shutdown \in BOOLEAN
    /\ thread \in [Threads -> {"idle", "notify", "wait", "timedWait",
                               "woken", "timedWoken"}]
    /\ \A p \in Producers : thread[p] \in {"idle", "notify"}
    /\ \A c \in Consumers : thread[c] # "notify"
    /\ got \in [Consumers -> Packets \cup {NoPacket}]

Init ==
    /\ q = <<>>
    /\ dropped = 0
    /\ shutdown = FALSE
    /\ thread = [t \in Threads |-> "idle"]
    /\ got = [c \in Consumers |-> NoPacket]

-----------------------------------------------------------------------------
(* Faulty variants of push: a capacity test that lets one packet too many in, *)
(* and one that notifies only when the queue was empty.                     *)
PushOneTooMany(p, pkt) ==
    /\ thread[p] = "idle"
    /\ \/ /\ Len(q) > Capacity
          /\ dropped' = dropped + 1
          /\ UNCHANGED <<q, thread>>
       \/ /\ Len(q) <= Capacity
          /\ q' = Append(q, pkt)
          /\ thread' = [thread EXCEPT ![p] = "notify"]
          /\ UNCHANGED dropped
    /\ UNCHANGED <<shutdown, got>>

PushNotifyIfEmpty(p, pkt) ==
    /\ thread[p] = "idle"
    /\ \/ /\ Len(q) >= Capacity
          /\ dropped' = dropped + 1
          /\ UNCHANGED <<q, thread>>
       \/ /\ Len(q) < Capacity
          /\ q' = Append(q, pkt)
          /\ thread' = [thread EXCEPT ![p] = IF q = <<>> THEN "notify" ELSE "idle"]
          /\ UNCHANGED dropped
    /\ UNCHANGED <<shutdown, got>>

(* push: a full queue drops the new packet and counts it.                   *)
Push(p, pkt) ==
    /\ thread[p] = "idle"
    /\ \/ /\ Len(q) >= Capacity
          /\ dropped' = dropped + 1
          /\ UNCHANGED <<q, thread>>
       \/ /\ Len(q) < Capacity
          /\ q' = Append(q, pkt)
          /\ thread' = [thread EXCEPT ![p] = "notify"]
          /\ UNCHANGED dropped
    /\ UNCHANGED <<shutdown, got>>

(* A sleeper leaves the wait set, to compete for the mutex.                 *)
Awakened(th, c) ==
    [th EXCEPT ![c] = IF @ = "wait" THEN "woken" ELSE "timedWoken"]

(* The notify_one that ends a successful push: it wakes one sleeper, if any. *)
Notify(p) ==
    /\ thread[p] = "notify"
    /\ LET done == [thread EXCEPT ![p] = "idle"]
       IN  \/ /\ Asleep = {}
              /\ thread' = done
           \/ \E c \in Asleep : thread' = Awakened(done, c)
    /\ UNCHANGED <<q, dropped, shutdown, got>>

-----------------------------------------------------------------------------
(* A consumer that holds the mutex returns the head of the queue ...        *)
TakeHead(c) ==
    /\ q # <<>>
    /\ q' = Tail(q)
    /\ got' = [got EXCEPT ![c] = Head(q)]
    /\ thread' = [thread EXCEPT ![c] = "idle"]
    /\ UNCHANGED <<dropped, shutdown>>

(* ... or returns without a packet ...                                      *)
ReturnNothing(c) ==
    /\ q = <<>>
    /\ got' = [got EXCEPT ![c] = NoPacket]
    /\ thread' = [thread EXCEPT ![c] = "idle"]
    /\ UNCHANGED <<q, dropped, shutdown>>

(* ... or goes to sleep on the condition variable.                          *)
Sleep(c, how) ==
    /\ q = <<>>
    /\ ~shutdown
    /\ thread' = [thread EXCEPT ![c] = how]
    /\ UNCHANGED <<q, dropped, shutdown, got>>

TryPop(c) ==
    /\ thread[c] = "idle"
    /\ TakeHead(c) \/ ReturnNothing(c)

(* pop_until waits once, for at most the timeout, and then takes what is     *)
(* there: it does not loop.                                                 *)
PopUntil(c) ==
    /\ thread[c] = "idle"
    /\ \/ Sleep(c, "timedWait")
       \/ TakeHead(c)
       \/ shutdown /\ ReturnNothing(c)

(* Faulty: a loop around the wait, which waits again after a timeout.        *)
ResumePopUntilLoop(c) ==
    /\ thread[c] = "timedWoken"
    /\ \/ TakeHead(c)
       \/ Sleep(c, "timedWait")
       \/ shutdown /\ ReturnNothing(c)

ResumePopUntil(c) ==
    /\ thread[c] = "timedWoken"
    /\ TakeHead(c) \/ ReturnNothing(c)

(* One turn of the loop that pop writes out and pop_or_shutdown leaves to    *)
(* the predicate of cv_.wait.                                               *)
BlockingTurn(c) ==
    \/ Sleep(c, "wait")
    \/ TakeHead(c)
    \/ shutdown /\ ReturnNothing(c)

Pop(c) ==
    /\ thread[c] = "idle"
    /\ BlockingTurn(c)

PopOrShutdown(c) ==
    /\ thread[c] = "idle"
    /\ BlockingTurn(c)

ResumeBlocking(c) ==
    /\ thread[c] = "woken"
    /\ BlockingTurn(c)

(* The timeout of wait_for, or a spurious wake-up.                          *)
Timeout(c) ==
    /\ thread[c] = "timedWait"
    /\ thread' = Awakened(thread, c)
    /\ UNCHANGED <<q, dropped, shutdown, got>>

SpuriousWakeup(c) ==
    /\ thread[c] = "wait"
    /\ thread' = Awakened(thread, c)
    /\ UNCHANGED <<q, dropped, shutdown, got>>

(* on_signal stores the flag.  It takes no mutex and notifies nobody.       *)
RequestShutdown ==
    /\ ~shutdown
    /\ shutdown' = TRUE
    /\ UNCHANGED <<q, dropped, thread, got>>

-----------------------------------------------------------------------------
ProducerStep(p) ==
    \/ dropped < MaxDropped /\ \E pkt \in Packets : Push(p, pkt)
    \/ Notify(p)

ConsumerCall(c) == TryPop(c) \/ PopUntil(c) \/ Pop(c) \/ PopOrShutdown(c)

ConsumerResume(c) == ResumePopUntil(c) \/ ResumeBlocking(c)

Next ==
    \/ \E p \in Producers : ProducerStep(p)
    \/ \E c \in Consumers : \/ ConsumerCall(c)
                            \/ ConsumerResume(c)
                            \/ Timeout(c)
                            \/ SpuriousWakeup(c)
    \/ RequestShutdown

Spec == Init /\ [][Next]_vars

(* Threads that are inside a call and not asleep keep running, and a timed   *)
(* wait expires.  Nothing obliges a caller to call, and nothing obliges the  *)
(* library to wake a sleeper spuriously.                                    *)
Fairness ==
    /\ \A p \in Producers : WF_vars(Notify(p))
    /\ \A c \in Consumers : WF_vars(ConsumerResume(c)) /\ WF_vars(Timeout(c))

FairSpec == Spec /\ Fairness

-----------------------------------------------------------------------------
(* No lost wake-up: while a consumer sleeps, every queued packet has a      *)
(* notification still to be sent or a consumer already woken to come for it. *)
(* It depends on push notifying after each packet, and on the pop operations *)
(* sleeping only when they have seen the queue empty under the mutex.       *)
NoLostWakeup ==
    Asleep # {} => Len(q) <= Cardinality(Notifying) + Cardinality(Woken)

(* The same as progress: no consumer sleeps on while packets stay queued.    *)
SleeperIsServed ==
    \A c \in Consumers :
        (q # <<>> /\ c \in Asleep) ~> (q = <<>> \/ c \notin Asleep)

(* pop_until comes back to its caller whatever the producers do, so that the *)
(* worker's loop keeps polling its timers and the shutdown flag.            *)
PopUntilReturns ==
    \A c \in Consumers :
        (thread[c] \in {"timedWait", "timedWoken"}) ~> (thread[c] = "idle")
=============================================================================
