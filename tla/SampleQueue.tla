---------------------------- MODULE SampleQueue ----------------------------
(***************************************************************************)
(* include/opvcxx/queue.h, the blocking queue between opv-mod's threads.    *)
(* Each action is one critical section of a call, from taking the mutex to  *)
(* releasing it or giving it up in a wait.  A thread inside wait_for or     *)
(* wait_until is in the wait set of the condition variable; it leaves it    *)
(* by a notification or spuriously, and then runs the loop of its call      *)
(* again, or by the timer, and then its call returns false as soon as it    *)
(* has the mutex, whatever the queue holds by then.                         *)
(***************************************************************************)
EXTENDS Integers, Sequences

CONSTANT SIZE        \* the most items the queue holds

ASSUME SizeAssumption == SIZE \in Nat \ {0}

VARIABLES queueState,    \* state_
          items,         \* queue_; size_ is its length
          waitingEmpty,  \* threads waiting on empty_ (in get)
          waitingFull,   \* threads waiting on full_ (in put)
          expired        \* threads whose wait timed out, not yet running again

qvars == <<queueState, items, waitingEmpty, waitingFull, expired>>

QueueInit ==
  /\ queueState = "OPEN"
  /\ items = <<>>
  /\ waitingEmpty = {} /\ waitingFull = {} /\ expired = {}

QueueTypeOK(Threads, Values) ==
  /\ queueState \in {"OPEN", "CLOSING", "CLOSED"}
  /\ items \in Seq(Values) /\ Len(items) <= SIZE
  /\ waitingEmpty \subseteq Threads
  /\ waitingFull \subseteq Threads
  /\ expired \subseteq Threads

\* The thread has the processor: it is not in a wait.
Awake(t) == t \notin waitingEmpty \cup waitingFull \cup expired

\* notify_one: some waiting thread, if there is one, leaves the wait set.
NotifyOne(waiting, left) ==
  IF waiting = {} THEN left = {} ELSE \E t \in waiting : left = waiting \ {t}

-----------------------------------------------------------------------------
\* get finds an item.  Taking the last item of a closing queue leaves it
\* CLOSING: queue.h:142 compares the state with CLOSED and assigns nothing.
GetTakes(t, value) ==
  /\ Awake(t)
  /\ items # <<>>
  /\ value = Head(items)
  /\ items' = Tail(items)
  /\ NotifyOne(waitingFull, waitingFull')
  /\ UNCHANGED <<queueState, waitingEmpty, expired>>

\* get finds the queue empty and CLOSED, and returns false.
GetFindsClosed(t) ==
  /\ Awake(t)
  /\ items = <<>>
  /\ queueState = "CLOSED"
  /\ UNCHANGED qvars

\* get finds the queue empty, and waits.
GetWaits(t) ==
  /\ Awake(t)
  /\ items = <<>>
  /\ queueState # "CLOSED"
  /\ waitingEmpty' = waitingEmpty \cup {t}
  /\ UNCHANGED <<queueState, items, waitingFull, expired>>

\* put finds room in an open queue.
PutAppendsEvenIfFull(t, value) ==
  /\ Awake(t)
  /\ queueState = "OPEN"
  /\ items' = Append(items, value)
  /\ NotifyOne(waitingEmpty, waitingEmpty')
  /\ UNCHANGED <<queueState, waitingFull, expired>>
PutAppendsUnnotified(t, value) ==
  /\ Awake(t)
  /\ Len(items) < SIZE
  /\ queueState = "OPEN"
  /\ items' = Append(items, value)
  /\ UNCHANGED <<queueState, waitingEmpty, waitingFull, expired>>
PutAppends(t, value) ==
  /\ Awake(t)
  /\ Len(items) < SIZE
  /\ queueState = "OPEN"
  /\ items' = Append(items, value)
  /\ NotifyOne(waitingEmpty, waitingEmpty')
  /\ UNCHANGED <<queueState, waitingFull, expired>>

\* put finds the open queue full, and waits.
PutWaits(t) ==
  /\ Awake(t)
  /\ Len(items) = SIZE
  /\ queueState = "OPEN"
  /\ waitingFull' = waitingFull \cup {t}
  /\ UNCHANGED <<queueState, items, waitingEmpty, expired>>

\* The timer of a wait fires.
WaitExpires(t) ==
  /\ t \in waitingEmpty \cup waitingFull
  /\ waitingEmpty' = waitingEmpty \ {t}
  /\ waitingFull' = waitingFull \ {t}
  /\ expired' = expired \cup {t}
  /\ UNCHANGED <<queueState, items>>

\* A wait ends for no reason, as the standard allows.
WaitEndsSpuriously(t) ==
  /\ t \in waitingEmpty \cup waitingFull
  /\ waitingEmpty' = waitingEmpty \ {t}
  /\ waitingFull' = waitingFull \ {t}
  /\ UNCHANGED <<queueState, items, expired>>

\* A call whose wait timed out has the mutex again, and returns false.
CallTimesOut(t) ==
  /\ t \in expired
  /\ expired' = expired \ {t}
  /\ UNCHANGED <<queueState, items, waitingEmpty, waitingFull>>

\* close(): notify_all on both condition variables.
Close(t) ==
  /\ Awake(t)
  /\ queueState' = IF items = <<>> THEN "CLOSED" ELSE "CLOSING"
  /\ waitingEmpty' = {} /\ waitingFull' = {}
  /\ UNCHANGED <<items, expired>>
=============================================================================
