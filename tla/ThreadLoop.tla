----------------------------- MODULE ThreadLoop -----------------------------
(***************************************************************************)
(* Worker threads behind an event loop (ov_thread_loop.c, ov_thread_pool.c,*)
(* ov_thread_lock.c, ov_ringbuffer.c).  The thread of the event loop puts  *)
(* messages into a ring buffer under a lock with a condition variable;     *)
(* workers take them out, handle them, put the answer into a second ring   *)
(* buffer under a second lock and write to a socket pair that wakes the    *)
(* event loop, which takes one message out for each write it reads.        *)
(*                                                                         *)
(* A worker:  Starting -> Lock -> Locked -> Handle -> SendLock -> Insert   *)
(*            -> Write -> Lock, with Locked -> Wait -> Relock -> Locked    *)
(*            when the queue is empty, and Stopped at the end.             *)
(* The loop:  Idle, Put (holds the lock of the worker queue), Sent (the    *)
(*            message is in the queue), Read (has read from the socket),   *)
(*            Pop (holds the lock of the loop queue), Join (stopping the   *)
(*            workers), Halted (all of them have been joined).             *)
(* A step between two of these is what happens without a lock being taken. *)
(***************************************************************************)
EXTENDS Naturals, Sequences, FiniteSets

CONSTANTS Threads,     \* worker threads of the pool
          Loop,        \* the thread of the event loop
          Msgs,        \* messages, each sent at most once
          Capacity,    \* elements a ring buffer holds
          Nobody,      \* owner of a free lock, empty hands
          Stalls,      \* bound: how often a lock is waited for in vain
          Stops        \* bound: how often the pool is stopped

ASSUME ThreadsAssumption == Loop \notin Threads /\ Nobody \notin Threads \cup {Loop} \cup Msgs
ASSUME PoolAssumption == IsFiniteSet(Threads)
ASSUME BoundsAssumption == Capacity \in Nat \ {0} /\ Stalls \in Nat /\ Stops \in Nat

VARIABLES poolState,   \* "running", "to_stop" or "stopped"
          pc,          \* pc[t]: where thread t is, workers and loop
          hand,        \* hand[t]: the message thread t has, or Nobody
          workLock,    \* owner of to_threads.lock
          loopLock,    \* owner of to_loop.lock
          work,        \* to_threads.queue
          answers,     \* to_loop.queue
          socket,      \* pointers written to the socket pair and not yet read
          gone,        \* messages freed: handled, overwritten, cleared or lost
          stalls,      \* lock waits that have timed out so far
          missed,      \* wake-ups read by the loop that took no message out
          stops        \* stops so far

tlvars == <<poolState, pc, hand, workLock, loopLock, work, answers, socket,
            gone, stalls, missed, stops>>

WorkerStates == {"Starting", "Lock", "Locked", "Wait", "Relock", "Handle",
                 "SendLock", "Insert", "Write", "Stopped"}
LoopStates == {"Idle", "Put", "Sent", "Read", "Pop", "Join", "Halted"}

TLInit ==
    /\ poolState = "running"
    /\ pc = [t \in Threads \cup {Loop} |-> IF t = Loop THEN "Idle" ELSE "Starting"]
    /\ hand = [t \in Threads \cup {Loop} |-> Nobody]
    /\ workLock = Nobody /\ loopLock = Nobody
    /\ work = <<>> /\ answers = <<>>
    /\ socket = 0
    /\ gone = {}
    /\ stalls = 0 /\ missed = 0 /\ stops = 0

Goto(t, where) == pc' = [pc EXCEPT ![t] = where]

SeqRange(q) == {q[i] : i \in 1..Len(q)}

-----------------------------------------------------------------------------
(* The ring buffer: an insert into a full one overwrites the oldest        *)
(* element, which is freed; the caller is not told.                        *)

\* Mutant: the overwritten element is not taken out before it is freed.
RingInsertKeepsOldest(q, m) == Append(q, m)

RingInsert(q, m) == Append(IF Len(q) = Capacity THEN Tail(q) ELSE q, m)

RingDropped(q) == IF Len(q) = Capacity THEN {Head(q)} ELSE {}

(* A timed lock: taken when it is free, given up after a while.            *)

LockWork(t) == workLock = Nobody /\ workLock' = t
LockLoop(t) == loopLock = Nobody /\ loopLock' = t

GiveUp(lock) == lock # Nobody /\ stalls < Stalls /\ stalls' = stalls + 1

-----------------------------------------------------------------------------
(* Worker t: thread_run of the pool, and the handler it calls.             *)

Run(t) ==
    /\ pc[t] = "Starting"
    /\ Goto(t, "Lock")
    /\ UNCHANGED <<poolState, hand, workLock, loopLock, work, answers, socket, gone, stalls, missed, stops>>

AcquireWork(t) ==
    /\ pc[t] \in {"Lock", "Relock"}
    /\ LockWork(t)
    /\ Goto(t, "Locked")
    /\ UNCHANGED <<poolState, hand, loopLock, work, answers, socket, gone, stalls, missed, stops>>

\* try_lock_until_stop gives up only when the pool is no longer running.
AcquireWorkGivesUp(t) ==
    /\ pc[t] = "Lock"
    /\ GiveUp(workLock)
    /\ poolState # "running"
    /\ Goto(t, "Stopped")
    /\ UNCHANGED <<poolState, hand, workLock, loopLock, work, answers, socket, gone, missed, stops>>

\* Mutant: the pool has been stopped and the worker leaves with the lock.
LeaveLocked(t) ==
    /\ pc[t] = "Locked"
    /\ poolState # "running"
    /\ Goto(t, "Stopped")
    /\ UNCHANGED <<poolState, hand, workLock, loopLock, work, answers, socket, gone, stalls, missed, stops>>

Leave(t) ==
    /\ pc[t] = "Locked"
    /\ poolState # "running"
    /\ workLock' = Nobody
    /\ Goto(t, "Stopped")
    /\ UNCHANGED <<poolState, hand, loopLock, work, answers, socket, gone, stalls, missed, stops>>

Take(t) ==
    /\ pc[t] = "Locked"
    /\ poolState = "running" /\ work # <<>>
    /\ hand' = [hand EXCEPT ![t] = Head(work)]
    /\ work' = Tail(work)
    /\ workLock' = Nobody
    /\ Goto(t, "Handle")
    /\ UNCHANGED <<poolState, loopLock, answers, socket, gone, stalls, missed, stops>>

\* ov_thread_lock_wait releases the lock while the worker waits.
Wait(t) ==
    /\ pc[t] = "Locked"
    /\ poolState = "running" /\ work = <<>>
    /\ workLock' = Nobody
    /\ Goto(t, "Wait")
    /\ UNCHANGED <<poolState, hand, loopLock, work, answers, socket, gone, stalls, missed, stops>>

\* Mutant: a wait without a timeout, which only a notification ends.
WaitForever(t) == FALSE /\ UNCHANGED tlvars

\* The wait times out.  Also then pthread_cond_timedwait takes the lock again.
WaitTimesOut(t) ==
    /\ pc[t] = "Wait"
    /\ Goto(t, "Relock")
    /\ UNCHANGED <<poolState, hand, workLock, loopLock, work, answers, socket, gone, stalls, missed, stops>>

\* Mutant: the handler returns without sending the message on.
HandleDrops(t) ==
    /\ pc[t] = "Handle"
    /\ hand' = [hand EXCEPT ![t] = Nobody]
    /\ Goto(t, "Lock")
    /\ UNCHANGED <<poolState, workLock, loopLock, work, answers, socket, gone, stalls, missed, stops>>

\* The handler runs without a lock and sends the message on to the loop.
Handle(t) ==
    /\ pc[t] = "Handle"
    /\ Goto(t, "SendLock")
    /\ UNCHANGED <<poolState, hand, workLock, loopLock, work, answers, socket, gone, stalls, missed, stops>>

AcquireAnswers(t) ==
    /\ pc[t] = "SendLock"
    /\ LockLoop(t)
    /\ Goto(t, "Insert")
    /\ UNCHANGED <<poolState, hand, workLock, work, answers, socket, gone, stalls, missed, stops>>

\* The handler ignores the failure: the message is lost.
AcquireAnswersGivesUp(t) ==
    /\ pc[t] = "SendLock"
    /\ GiveUp(loopLock)
    /\ gone' = gone \cup {hand[t]}
    /\ hand' = [hand EXCEPT ![t] = Nobody]
    /\ Goto(t, "Lock")
    /\ UNCHANGED <<poolState, workLock, loopLock, work, answers, socket, missed, stops>>

InsertAnswer(t) ==
    /\ pc[t] = "Insert"
    /\ answers' = RingInsert(answers, hand[t])
    /\ gone' = gone \cup RingDropped(answers)
    /\ hand' = [hand EXCEPT ![t] = Nobody]
    /\ loopLock' = Nobody
    /\ Goto(t, "Write")
    /\ UNCHANGED <<poolState, workLock, work, socket, stalls, missed, stops>>

\* Mutant: the event loop is not woken when there is something unread.
WriteOnlyFirst(t) ==
    /\ pc[t] = "Write"
    /\ socket' = 1
    /\ Goto(t, "Lock")
    /\ UNCHANGED <<poolState, hand, workLock, loopLock, work, answers, gone, stalls, missed, stops>>

Write(t) ==
    /\ pc[t] = "Write"
    /\ socket' = socket + 1
    /\ Goto(t, "Lock")
    /\ UNCHANGED <<poolState, hand, workLock, loopLock, work, answers, gone, stalls, missed, stops>>

WorkerStep(t) ==
    \/ Run(t) \/ AcquireWork(t) \/ AcquireWorkGivesUp(t) \/ Leave(t) \/ Take(t)
    \/ Wait(t) \/ WaitTimesOut(t) \/ Handle(t) \/ AcquireAnswers(t)
    \/ AcquireAnswersGivesUp(t) \/ InsertAnswer(t) \/ Write(t)

-----------------------------------------------------------------------------
(* The thread of the event loop.                                           *)

Known(m) ==
    \/ m \in gone \cup SeqRange(work) \cup SeqRange(answers)
    \/ \E t \in Threads \cup {Loop} : hand[t] = m

\* put_into_queue: the lock, ...
SendLocks(m) ==
    /\ pc[Loop] = "Idle" /\ ~Known(m)
    /\ LockWork(Loop)
    /\ hand' = [hand EXCEPT ![Loop] = m]
    /\ Goto(Loop, "Put")
    /\ UNCHANGED <<poolState, loopLock, work, answers, socket, gone, stalls, missed, stops>>

\* ... which may not be had: the send fails and the caller frees the message, ...
SendGivesUp(m) ==
    /\ pc[Loop] = "Idle" /\ ~Known(m)
    /\ GiveUp(workLock)
    /\ gone' = gone \cup {m}
    /\ UNCHANGED <<poolState, pc, hand, workLock, loopLock, work, answers, socket, missed, stops>>

\* ... the insert, and the notification of one waiting worker.
SendInserts ==
    LET waiting == {t \in Threads : pc[t] = "Wait"} IN
    /\ pc[Loop] = "Put"
    /\ work' = RingInsert(work, hand[Loop])
    /\ gone' = gone \cup RingDropped(work)
    /\ workLock' = Nobody
    /\ \/ waiting = {} /\ Goto(Loop, "Sent")
       \/ \E t \in waiting : pc' = [pc EXCEPT ![t] = "Relock", ![Loop] = "Sent"]
    /\ UNCHANGED <<poolState, hand, loopLock, answers, socket, stalls, missed, stops>>

\* The caller goes on; the message is no longer its own.
SendReturns ==
    /\ pc[Loop] = "Sent"
    /\ hand' = [hand EXCEPT ![Loop] = Nobody]
    /\ Goto(Loop, "Idle")
    /\ UNCHANGED <<poolState, workLock, loopLock, work, answers, socket, gone, stalls, missed, stops>>

\* msg_to_loop_handler: one pointer is read, its value is not used ...
ReadSocket ==
    /\ pc[Loop] = "Idle" /\ socket > 0
    /\ socket' = socket - 1
    /\ Goto(Loop, "Read")
    /\ UNCHANGED <<poolState, hand, workLock, loopLock, work, answers, gone, stalls, missed, stops>>

PopLocks ==
    /\ pc[Loop] = "Read"
    /\ LockLoop(Loop)
    /\ Goto(Loop, "Pop")
    /\ UNCHANGED <<poolState, hand, workLock, work, answers, socket, gone, stalls, missed, stops>>

\* ... and is not put back when the lock cannot be had.
PopGivesUp ==
    /\ pc[Loop] = "Read"
    /\ GiveUp(loopLock)
    /\ missed' = missed + 1
    /\ Goto(Loop, "Idle")
    /\ UNCHANGED <<poolState, hand, workLock, loopLock, work, answers, socket, gone, stops>>

\* handle_message_in_loop handles and frees the message, if there is one.
PopHandles ==
    /\ pc[Loop] = "Pop"
    /\ answers' = IF answers = <<>> THEN answers ELSE Tail(answers)
    /\ gone' = IF answers = <<>> THEN gone ELSE gone \cup {Head(answers)}
    /\ loopLock' = Nobody
    /\ Goto(Loop, "Idle")
    /\ UNCHANGED <<poolState, hand, workLock, work, socket, stalls, missed, stops>>

\* thread_stop: the workers are told, ...
Stop ==
    /\ pc[Loop] = "Idle" /\ poolState = "running" /\ stops < Stops
    /\ poolState' = "to_stop"
    /\ stops' = stops + 1
    /\ Goto(Loop, "Join")
    /\ UNCHANGED <<hand, workLock, loopLock, work, answers, socket, gone, stalls, missed>>

\* ... and joined; the loop waits for all of them.
Join ==
    /\ pc[Loop] = "Join" /\ \A t \in Threads : pc[t] = "Stopped"
    /\ poolState' = "stopped"
    /\ Goto(Loop, "Halted")
    /\ UNCHANGED <<hand, workLock, loopLock, work, answers, socket, gone, stalls, missed, stops>>

\* Mutant: the queue to the loop is kept over a new start.
RestartKeepsAnswers ==
    /\ pc[Loop] = "Halted"
    /\ work' = <<>>
    /\ gone' = gone \cup SeqRange(work) \cup SeqRange(answers)
    /\ workLock' = Nobody /\ loopLock' = Nobody
    /\ poolState' = "running"
    /\ pc' = [t \in Threads \cup {Loop} |-> IF t = Loop THEN "Idle" ELSE "Starting"]
    /\ UNCHANGED <<hand, answers, socket, stalls, missed, stops>>

\* ov_thread_loop_reconfigure and _start_threads: both queues are freed with
\* their elements, the locks are made anew, the socket pair is kept as it is.
Restart ==
    /\ pc[Loop] = "Halted"
    /\ work' = <<>> /\ answers' = <<>>
    /\ gone' = gone \cup SeqRange(work) \cup SeqRange(answers)
    /\ workLock' = Nobody /\ loopLock' = Nobody
    /\ poolState' = "running"
    /\ pc' = [t \in Threads \cup {Loop} |-> IF t = Loop THEN "Idle" ELSE "Starting"]
    /\ UNCHANGED <<hand, socket, stalls, missed, stops>>
=============================================================================
