--------------------------- MODULE LdapAuthProofs ---------------------------
(***************************************************************************)
(* Proofs about LdapAuth for any number of worker threads and messages and *)
(* any capacity of the ring buffers, with locks that are not had and with  *)
(* reconfigurations at any point.                                          *)
(***************************************************************************)
EXTENDS LdapAuth, SequenceTheorems, FiniteSetTheorems, TLAPS

-----------------------------------------------------------------------------
(* The inductive invariant.                                                *)

(* Workers and event loop are each in one of their own places.             *)
PlacesOK == (\A t \in Threads : pc[t] \in WorkerStates) /\ pc[Loop] \in LoopStates

(* A lock is held exactly by the thread that is at the place under it.     *)
LocksHeld ==
    /\ \A t \in Threads : (workLock = t <=> pc[t] = "Locked") /\ (loopLock = t <=> pc[t] = "Insert")
    /\ workLock = Loop <=> pc[Loop] = "Put"
    /\ loopLock = Loop <=> pc[Loop] = "Pop"

(* A thread has a message exactly while it works on one.                   *)
HandsFull ==
    /\ \A t \in Threads : hand[t] # Nobody <=> pc[t] \in {"Handle", "SendLock", "Insert"}
    /\ hand[Loop] # Nobody <=> pc[Loop] \in {"Put", "Sent"}

(* The loop has joined all workers before it goes on to reconfigure.       *)
HaltedIsStopped == pc[Loop] = "Halted" => \A t \in Threads : pc[t] = "Stopped"

NoDup(q) == \A i, j \in 1..Len(q) : q[i] = q[j] => i = j

(* Queues, hands and freed messages are apart.  The loop owns the message  *)
(* in its hand until it is in the queue.                                   *)
QueuesApart ==
    /\ NoDup(work) /\ NoDup(answers)
    /\ SeqRange(work) \cap SeqRange(answers) = {}
    /\ gone \cap SeqRange(work) = {} /\ gone \cap SeqRange(answers) = {}

Queued == SeqRange(work) \cup SeqRange(answers) \cup gone

HandsApart ==
    /\ \A t \in Threads : hand[t] \notin Queued
    /\ \A t, t2 \in Threads : hand[t] # Nobody /\ hand[t] = hand[t2] => t = t2
    /\ pc[Loop] = "Put" => hand[Loop] \notin Queued /\ \A t \in Threads : hand[t] # hand[Loop]

(* What is under way has a callback, or the loop is about to store it.     *)
HasCallback(m) == m \in store \/ (pc[Loop] = "Sent" /\ m = hand[Loop])

UnderWayStored ==
    /\ \A m \in SeqRange(work) \cup SeqRange(answers) : HasCallback(m)
    /\ \A t \in Threads : hand[t] # Nobody => HasCallback(hand[t])

IndInv ==
    /\ TypeOK /\ PlacesOK /\ LocksHeld /\ HandsFull /\ HaltedIsStopped
    /\ QueuesApart /\ HandsApart /\ UnderWayStored

-----------------------------------------------------------------------------
(* Lemmas about queues and ring buffers.                                   *)

(* Taking the head of a queue.                                             *)
LEMMA TailFacts ==
    ASSUME NEW q \in Seq(Msgs), q # <<>>
    PROVE  /\ Tail(q) \in Seq(Msgs)
           /\ Len(Tail(q)) = Len(q) - 1
           /\ Len(q) \in Nat /\ Len(q) >= 1
           /\ Head(q) \in SeqRange(q) /\ Head(q) \in Msgs
           /\ NoDup(q) => NoDup(Tail(q)) /\ SeqRange(Tail(q)) = SeqRange(q) \ {Head(q)}
<1>1. /\ Tail(q) \in Seq(Msgs) /\ Len(Tail(q)) = Len(q) - 1
      /\ \A i \in 1..Len(Tail(q)) : Tail(q)[i] = q[i + 1]
      /\ Len(q) \in Nat /\ Len(q) >= 1 /\ Head(q) = q[1] /\ Head(q) \in Msgs
    BY HeadTailProperties
<1>2. Head(q) \in SeqRange(q)
    BY <1>1 DEF SeqRange
<1>3. ASSUME NoDup(q) PROVE NoDup(Tail(q))
    BY <1>1, <1>3 DEF NoDup
<1>4. ASSUME NoDup(q) PROVE SeqRange(Tail(q)) = SeqRange(q) \ {Head(q)}
  <2>1. ASSUME NEW x \in SeqRange(Tail(q)) PROVE x \in SeqRange(q) \ {Head(q)}
    <3>1. PICK i \in 1..Len(Tail(q)) : x = Tail(q)[i]
        BY DEF SeqRange
    <3>2. x = q[i + 1] /\ i + 1 \in 1..Len(q) /\ 1 \in 1..Len(q) /\ i + 1 # 1
        BY <1>1, <3>1
    <3>3. x # q[1]
        BY <1>4, <3>2 DEF NoDup
    <3> QED
        BY <1>1, <3>2, <3>3 DEF SeqRange
  <2>2. ASSUME NEW x \in SeqRange(q), x # Head(q) PROVE x \in SeqRange(Tail(q))
    <3>1. PICK i \in 1..Len(q) : x = q[i]
        BY DEF SeqRange
    <3>2. i - 1 \in 1..Len(Tail(q)) /\ Tail(q)[i - 1] = x
        BY <1>1, <2>2, <3>1
    <3> QED
        BY <3>2 DEF SeqRange
  <2> QED
    BY <2>1, <2>2
<1> QED
    BY <1>1, <1>2, <1>3, <1>4

(* Adding an element that is not in the queue.                             *)
LEMMA AppendFacts ==
    ASSUME NEW q \in Seq(Msgs), NEW m \in Msgs
    PROVE  /\ Append(q, m) \in Seq(Msgs)
           /\ Len(Append(q, m)) = Len(q) + 1
           /\ Len(q) \in Nat
           /\ SeqRange(Append(q, m)) = SeqRange(q) \cup {m}
           /\ NoDup(q) /\ m \notin SeqRange(q) => NoDup(Append(q, m))
<1>1. /\ Append(q, m) \in Seq(Msgs) /\ Len(Append(q, m)) = Len(q) + 1 /\ Len(q) \in Nat
      /\ \A i \in 1..Len(q) : Append(q, m)[i] = q[i]
      /\ Append(q, m)[Len(q) + 1] = m
    BY AppendProperties
<1>2. SeqRange(Append(q, m)) = SeqRange(q) \cup {m}
  <2>1. ASSUME NEW i \in 1..Len(q) + 1 PROVE Append(q, m)[i] \in SeqRange(q) \cup {m}
    BY <1>1 DEF SeqRange
  <2>2. ASSUME NEW i \in 1..Len(q) PROVE q[i] \in SeqRange(Append(q, m))
    <3>1. i \in 1..Len(Append(q, m)) /\ Append(q, m)[i] = q[i]
        BY <1>1
    <3> QED
        BY <3>1 DEF SeqRange
  <2>3. m \in SeqRange(Append(q, m))
    <3>1. Len(q) + 1 \in 1..Len(Append(q, m))
        BY <1>1
    <3> QED
        BY <1>1, <3>1, Zenon DEF SeqRange
  <2> QED
    BY <1>1, <2>1, <2>2, <2>3 DEF SeqRange
<1>3. ASSUME NoDup(q), m \notin SeqRange(q) PROVE NoDup(Append(q, m))
    BY <1>1, <1>3 DEF NoDup, SeqRange
<1> QED
    BY <1>1, <1>2, <1>3

(* An insert into a ring buffer keeps its bound; the overwritten element   *)
(* leaves it and the new one is in it once.                                *)
LEMMA RingFacts ==
    ASSUME NEW q \in Seq(Msgs), NEW m \in Msgs, Len(q) <= Capacity
    PROVE  /\ RingInsert(q, m) \in Seq(Msgs)
           /\ Len(RingInsert(q, m)) <= Capacity
           /\ Len(RingInsert(q, m)) <= Len(q) + 1
           /\ RingDropped(q) \subseteq SeqRange(q) /\ RingDropped(q) \subseteq Msgs
           /\ NoDup(q) /\ m \notin SeqRange(q) =>
                /\ NoDup(RingInsert(q, m))
                /\ SeqRange(RingInsert(q, m)) = (SeqRange(q) \ RingDropped(q)) \cup {m}
<1>1. CASE Len(q) = Capacity
  <2>1. q # <<>> /\ RingInsert(q, m) = Append(Tail(q), m) /\ RingDropped(q) = {Head(q)}
    BY <1>1, BoundsAssumption DEF RingInsert, RingDropped
  <2>2. /\ Tail(q) \in Seq(Msgs) /\ Len(Tail(q)) = Len(q) - 1 /\ Len(q) \in Nat
        /\ Head(q) \in SeqRange(q) /\ Head(q) \in Msgs
        /\ NoDup(q) => NoDup(Tail(q)) /\ SeqRange(Tail(q)) = SeqRange(q) \ {Head(q)}
    BY <2>1, TailFacts
  <2>3. /\ Append(Tail(q), m) \in Seq(Msgs)
        /\ Len(Append(Tail(q), m)) = Len(Tail(q)) + 1
        /\ SeqRange(Append(Tail(q), m)) = SeqRange(Tail(q)) \cup {m}
        /\ NoDup(Tail(q)) /\ m \notin SeqRange(Tail(q)) => NoDup(Append(Tail(q), m))
    BY <2>2, AppendFacts
  <2> QED
    BY <1>1, <2>1, <2>2, <2>3
<1>2. CASE Len(q) # Capacity
  <2>1. RingInsert(q, m) = Append(q, m) /\ RingDropped(q) = {}
    BY <1>2 DEF RingInsert, RingDropped
  <2> QED
    BY <1>2, <2>1, AppendFacts, BoundsAssumption
<1> QED
    BY <1>1, <1>2

-----------------------------------------------------------------------------
(* Every step preserves the parts of the invariant.                        *)

(* Places and locks: whoever leaves a place under a lock gives it back.    *)
LEMMA LocksStep ==
    ASSUME IndInv, Next
    PROVE  PlacesOK' /\ LocksHeld'
<1> USE ThreadsAssumption DEF IndInv, TypeOK, PlacesOK, LocksHeld, Goto, WorkerStates, LoopStates
<1>1. ASSUME NEW t \in Threads, Run(t) \/ AcquireWork(t) \/ AcquireWorkGivesUp(t) \/ Leave(t)
      PROVE  PlacesOK' /\ LocksHeld'
    BY <1>1 DEF Run, AcquireWork, AcquireWorkGivesUp, Leave, LockWork
<1>2. ASSUME NEW t \in Threads, Take(t) \/ Wait(t) \/ WaitTimesOut(t) \/ Handle(t)
      PROVE  PlacesOK' /\ LocksHeld'
    BY <1>2 DEF Take, Wait, WaitTimesOut, Handle
<1>3. ASSUME NEW t \in Threads,
             AcquireAnswers(t) \/ AcquireAnswersGivesUp(t) \/ InsertAnswer(t) \/ Write(t)
      PROVE  PlacesOK' /\ LocksHeld'
    BY <1>3 DEF AcquireAnswers, AcquireAnswersGivesUp, InsertAnswer, Write, LockLoop
<1>4. ASSUME NEW m \in Msgs, SendLocks(m) \/ SendGivesUp(m)
      PROVE  PlacesOK' /\ LocksHeld'
    BY <1>4 DEF SendLocks, SendGivesUp, LockWork
<1>5. CASE SendInserts
    BY <1>5 DEF SendInserts
<1>6. CASE SendReturns
    BY <1>6 DEF SendReturns
<1>7. CASE ReadSocket \/ PopLocks \/ PopGivesUp
    BY <1>7 DEF ReadSocket, PopLocks, PopGivesUp, LockLoop
<1>8. CASE PopHandles
    BY <1>8 DEF PopHandles
<1>9. CASE Stop \/ Join
    BY <1>9 DEF Stop, Join
<1>10. CASE Restart
    BY <1>10 DEF Restart
<1> QED
    BY <1>1, <1>2, <1>3, <1>4, <1>5, <1>6, <1>7, <1>8, <1>9, <1>10
    DEF Next, Worker, WorkerStep, AuthLocks, AuthFails, AuthSends, AuthStores, LoopReads, Answer,
        Reconfigure

(* Hands, and the workers being stopped when the loop is done with them.   *)
LEMMA HandsStep ==
    ASSUME IndInv, Next
    PROVE  HandsFull' /\ HaltedIsStopped'
<1> USE ThreadsAssumption DEF IndInv, TypeOK, PlacesOK, HandsFull, HaltedIsStopped, Goto,
        WorkerStates, LoopStates
<1>1. ASSUME NEW t \in Threads, Run(t) \/ AcquireWork(t) \/ AcquireWorkGivesUp(t) \/ Leave(t)
      PROVE  HandsFull' /\ HaltedIsStopped'
    BY <1>1 DEF Run, AcquireWork, AcquireWorkGivesUp, Leave
<1>2. ASSUME NEW t \in Threads, Take(t)
      PROVE  HandsFull' /\ HaltedIsStopped'
  <2>1. Head(work) \in Msgs
    BY <1>2, TailFacts DEF Take
  <2> QED
    BY <1>2, <2>1 DEF Take
<1>3. ASSUME NEW t \in Threads, Wait(t) \/ WaitTimesOut(t) \/ Handle(t) \/ AcquireAnswers(t)
                                \/ AcquireAnswersGivesUp(t) \/ InsertAnswer(t) \/ Write(t)
      PROVE  HandsFull' /\ HaltedIsStopped'
    BY <1>3 DEF Wait, WaitTimesOut, Handle, AcquireAnswers, AcquireAnswersGivesUp, InsertAnswer, Write
<1>4. ASSUME NEW m \in Msgs, SendLocks(m) \/ SendGivesUp(m)
      PROVE  HandsFull' /\ HaltedIsStopped'
    BY <1>4 DEF SendLocks, SendGivesUp
<1>5. CASE SendInserts
    BY <1>5 DEF SendInserts
<1>6. CASE SendReturns
    BY <1>6 DEF SendReturns
<1>7. CASE ReadSocket \/ PopLocks \/ PopGivesUp
    BY <1>7 DEF ReadSocket, PopLocks, PopGivesUp
<1>8. CASE PopHandles
    BY <1>8 DEF PopHandles
<1>9. CASE Stop \/ Join
    BY <1>9 DEF Stop, Join
<1>10. CASE Restart
    BY <1>10 DEF Restart
<1> QED
    BY <1>1, <1>2, <1>3, <1>4, <1>5, <1>6, <1>7, <1>8, <1>9, <1>10
    DEF Next, Worker, WorkerStep, AuthLocks, AuthFails, AuthSends, AuthStores, LoopReads, Answer,
        Reconfigure

(* Types, and the bound of the ring buffers.                               *)
LEMMA TypeStep ==
    ASSUME IndInv, Next
    PROVE  TypeOK'
<1> USE ThreadsAssumption, BoundsAssumption DEF TypeOK, Goto, WorkerStates, LoopStates
<1>0. TypeOK /\ HandsFull
    BY DEF IndInv
<1>1. ASSUME NEW t \in Threads, Run(t) \/ AcquireWork(t) \/ AcquireWorkGivesUp(t) \/ Leave(t),
             store' = store
      PROVE  TypeOK'
    BY <1>0, <1>1 DEF Run, AcquireWork, AcquireWorkGivesUp, Leave, LockWork, GiveUp
<1>2. ASSUME NEW t \in Threads, Take(t), store' = store
      PROVE  TypeOK'
  <2>1. Head(work) \in Msgs /\ Tail(work) \in Seq(Msgs) /\ Len(Tail(work)) <= Capacity
    BY <1>0, <1>2, TailFacts DEF Take
  <2> QED
    BY <1>0, <1>2, <2>1 DEF Take
<1>3. ASSUME NEW t \in Threads, Wait(t) \/ WaitTimesOut(t) \/ Handle(t) \/ AcquireAnswers(t) \/ Write(t),
             store' = store
      PROVE  TypeOK'
    BY <1>0, <1>3, SMTT(60) DEF Wait, WaitTimesOut, Handle, AcquireAnswers, LockLoop, Write
<1>4. ASSUME NEW t \in Threads, AcquireAnswersGivesUp(t) \/ InsertAnswer(t), store' = store
      PROVE  TypeOK'
  <2>1. hand[t] \in Msgs
    BY <1>0, <1>4 DEF AcquireAnswersGivesUp, InsertAnswer, HandsFull
  <2>2. CASE AcquireAnswersGivesUp(t)
    BY <1>0, <1>4, <2>1, <2>2 DEF AcquireAnswersGivesUp, GiveUp
  <2>3. CASE InsertAnswer(t)
    <3>1. /\ RingInsert(answers, hand[t]) \in Seq(Msgs)
          /\ Len(RingInsert(answers, hand[t])) <= Capacity
          /\ RingDropped(answers) \subseteq Msgs
        BY <1>0, <2>1, RingFacts
    <3> QED
        BY <1>0, <1>4, <2>3, <3>1 DEF InsertAnswer
  <2> QED
    BY <1>4, <2>2, <2>3
<1>5. ASSUME NEW m \in Msgs, SendLocks(m) \/ SendGivesUp(m), store' = store
      PROVE  TypeOK'
    BY <1>0, <1>5 DEF SendLocks, SendGivesUp, LockWork, GiveUp
<1>6. CASE SendInserts /\ store' = store
  <2>1. hand[Loop] \in Msgs
    BY <1>0, <1>6 DEF SendInserts, HandsFull
  <2>2. /\ RingInsert(work, hand[Loop]) \in Seq(Msgs)
        /\ Len(RingInsert(work, hand[Loop])) <= Capacity
        /\ RingDropped(work) \subseteq Msgs
    BY <1>0, <2>1, RingFacts
  <2> QED
    BY <1>0, <1>6, <2>2 DEF SendInserts
<1>7. CASE SendReturns /\ store' = store \cup {hand[Loop]}
    BY <1>0, <1>7 DEF SendReturns, HandsFull
<1>8. CASE (ReadSocket \/ PopLocks \/ PopGivesUp) /\ store' = store
    BY <1>0, <1>8 DEF ReadSocket, PopLocks, PopGivesUp, LockLoop, GiveUp
<1>9. CASE Answer
  <2>1. answers # <<>> => /\ Head(answers) \in Msgs /\ Tail(answers) \in Seq(Msgs)
                          /\ Len(Tail(answers)) <= Capacity
    BY <1>0, TailFacts
  <2> QED
    BY <1>0, <1>9, <2>1 DEF Answer, PopHandles
<1>10. CASE (Stop \/ Join) /\ store' = store
    BY <1>0, <1>10 DEF Stop, Join
<1>11. CASE Restart /\ store' = store
  <2>1. SeqRange(work) \subseteq Msgs /\ SeqRange(answers) \subseteq Msgs
    BY <1>0 DEF SeqRange
  <2> QED
    BY <1>0, <1>11, <2>1 DEF Restart
<1> QED
    BY <1>1, <1>2, <1>3, <1>4, <1>5, <1>6, <1>7, <1>8, <1>9, <1>10, <1>11
    DEF Next, Worker, WorkerStep, AuthLocks, AuthFails, AuthSends, AuthStores, LoopReads, Answer,
        Reconfigure

(* No message is in two places: what moves leaves the place it was in.     *)
LEMMA ApartStep ==
    ASSUME IndInv, Next
    PROVE  QueuesApart' /\ HandsApart'
<1> USE ThreadsAssumption DEF QueuesApart, HandsApart, Queued, Goto
<1>0. TypeOK /\ HandsFull /\ QueuesApart /\ HandsApart
    BY DEF IndInv
<1>1. ASSUME UNCHANGED <<work, answers, gone>>, \A t \in Threads : hand'[t] = hand[t],
             pc'[Loop] = "Put" => pc[Loop] = "Put" /\ hand'[Loop] = hand[Loop]
      PROVE  QueuesApart' /\ HandsApart'
  <2>1. work' = work /\ answers' = answers /\ gone' = gone
    BY <1>1
  <2>2. SeqRange(work') = SeqRange(work) /\ SeqRange(answers') = SeqRange(answers)
    BY <2>1 DEF SeqRange
  <2>3. QueuesApart'
    BY <1>0, <2>1, <2>2 DEF NoDup
  <2>4. HandsApart'
    BY <1>0, <1>1, <2>1, <2>2
  <2> QED
    BY <2>3, <2>4
<1>2. ASSUME NEW t \in Threads,
             Run(t) \/ AcquireWork(t) \/ AcquireWorkGivesUp(t) \/ Leave(t) \/ Wait(t)
             \/ WaitTimesOut(t) \/ Handle(t) \/ AcquireAnswers(t) \/ Write(t)
      PROVE  QueuesApart' /\ HandsApart'
  <2>1. UNCHANGED <<work, answers, gone, hand>> /\ pc'[Loop] = pc[Loop]
    BY <1>0, <1>2 DEF TypeOK, Run, AcquireWork, AcquireWorkGivesUp, Leave, Wait, WaitTimesOut, Handle,
                      AcquireAnswers, Write
  <2> QED
    BY <1>1, <2>1
<1>3. ASSUME NEW t \in Threads, Take(t)
      PROVE  QueuesApart' /\ HandsApart'
  <2>1. /\ Head(work) \in SeqRange(work) /\ NoDup(Tail(work))
        /\ SeqRange(Tail(work)) = SeqRange(work) \ {Head(work)}
    BY <1>0, <1>3, TailFacts DEF TypeOK, Take
  <2>2. /\ work' = Tail(work) /\ UNCHANGED <<answers, gone>>
        /\ hand' = [hand EXCEPT ![t] = Head(work)] /\ pc'[Loop] = pc[Loop]
    BY <1>0, <1>3 DEF TypeOK, Take
  <2>3. SeqRange(work') = SeqRange(work) \ {Head(work)} /\ SeqRange(answers') = SeqRange(answers)
    BY <2>1, <2>2 DEF SeqRange
  <2>4. QueuesApart'
    BY <1>0, <2>1, <2>2, <2>3 DEF NoDup
  <2>5. hand'[Loop] = hand[Loop] /\ \A t2 \in Threads : hand'[t2] = IF t2 = t THEN Head(work) ELSE hand[t2]
    BY <1>0, <2>2 DEF TypeOK
  <2>6. HandsApart'
    BY <1>0, <2>1, <2>2, <2>3, <2>5
  <2> QED
    BY <2>4, <2>6
<1>4. ASSUME NEW t \in Threads, AcquireAnswersGivesUp(t)
      PROVE  QueuesApart' /\ HandsApart'
  <2>1. /\ UNCHANGED <<work, answers>> /\ gone' = gone \cup {hand[t]}
        /\ hand' = [hand EXCEPT ![t] = Nobody] /\ pc'[Loop] = pc[Loop] /\ hand[t] # Nobody
    BY <1>0, <1>4 DEF TypeOK, HandsFull, AcquireAnswersGivesUp
  <2>2. SeqRange(work') = SeqRange(work) /\ SeqRange(answers') = SeqRange(answers)
    BY <2>1 DEF SeqRange
  <2>3. QueuesApart'
    BY <1>0, <2>1, <2>2 DEF NoDup
  <2>4. hand'[Loop] = hand[Loop] /\ \A t2 \in Threads : hand'[t2] = IF t2 = t THEN Nobody ELSE hand[t2]
    BY <1>0, <2>1 DEF TypeOK
  <2>5. Nobody \notin SeqRange(work) \cup SeqRange(answers) \cup gone
    BY <1>0 DEF TypeOK, SeqRange
  <2>6. \A t2 \in Threads : hand'[t2] \notin Queued'
    BY <1>0, <2>1, <2>2, <2>4, <2>5
  <2>7. \A t2, t3 \in Threads : hand'[t2] # Nobody /\ hand'[t2] = hand'[t3] => t2 = t3
    BY <1>0, <2>4
  <2>8. pc'[Loop] = "Put" => hand'[Loop] \notin Queued' /\ \A t2 \in Threads : hand'[t2] # hand'[Loop]
    BY <1>0, <2>1, <2>2, <2>4 DEF TypeOK, HandsFull
  <2>9. HandsApart'
    BY <2>6, <2>7, <2>8
  <2> QED
    BY <2>3, <2>9
<1>5. ASSUME NEW t \in Threads, InsertAnswer(t)
      PROVE  QueuesApart' /\ HandsApart'
  <2>1. hand[t] \in Msgs /\ hand[t] # Nobody
    BY <1>0, <1>5 DEF TypeOK, HandsFull, InsertAnswer
  <2>2. /\ RingDropped(answers) \subseteq SeqRange(answers)
        /\ NoDup(RingInsert(answers, hand[t]))
        /\ SeqRange(RingInsert(answers, hand[t])) = (SeqRange(answers) \ RingDropped(answers)) \cup {hand[t]}
    BY <1>0, <2>1, RingFacts DEF TypeOK
  <2>3. /\ answers' = RingInsert(answers, hand[t]) /\ work' = work
        /\ gone' = gone \cup RingDropped(answers)
        /\ hand' = [hand EXCEPT ![t] = Nobody] /\ pc'[Loop] = pc[Loop]
    BY <1>0, <1>5 DEF TypeOK, InsertAnswer
  <2>4. /\ SeqRange(answers') = (SeqRange(answers) \ RingDropped(answers)) \cup {hand[t]}
        /\ SeqRange(work') = SeqRange(work) /\ NoDup(answers') /\ NoDup(work')
    BY <1>0, <2>2, <2>3 DEF SeqRange, NoDup
  <2>5. QueuesApart'
    BY <1>0, <2>2, <2>3, <2>4
  <2>6. hand'[Loop] = hand[Loop] /\ \A t2 \in Threads : hand'[t2] = IF t2 = t THEN Nobody ELSE hand[t2]
    BY <1>0, <2>3 DEF TypeOK
  <2>7. Nobody \notin SeqRange(work) \cup SeqRange(answers) \cup gone
    BY <1>0 DEF TypeOK, SeqRange
  <2>8. \A t2 \in Threads : hand'[t2] \notin Queued'
    BY <1>0, <2>1, <2>2, <2>3, <2>4, <2>6, <2>7
  <2>9. \A t2, t3 \in Threads : hand'[t2] # Nobody /\ hand'[t2] = hand'[t3] => t2 = t3
    BY <1>0, <2>6
  <2>10. pc'[Loop] = "Put" => hand'[Loop] \notin Queued' /\ \A t2 \in Threads : hand'[t2] # hand'[Loop]
    BY <1>0, <2>1, <2>2, <2>3, <2>4, <2>6 DEF TypeOK, HandsFull
  <2>11. HandsApart'
    BY <2>8, <2>9, <2>10
  <2> QED
    BY <2>5, <2>11
<1>6. ASSUME NEW m \in Msgs, SendLocks(m)
      PROVE  QueuesApart' /\ HandsApart'
  <2>1. /\ UNCHANGED <<work, answers, gone>> /\ hand' = [hand EXCEPT ![Loop] = m] /\ m \notin Queued
        /\ \A t \in Threads : hand[t] # m
    BY <1>6 DEF SendLocks, Known
  <2>2. hand'[Loop] = m /\ \A t \in Threads : hand'[t] = hand[t]
    BY <1>0, <2>1 DEF TypeOK
  <2>3. SeqRange(work') = SeqRange(work) /\ SeqRange(answers') = SeqRange(answers)
    BY <2>1 DEF SeqRange
  <2> QED
    BY <1>0, <2>1, <2>2, <2>3 DEF NoDup
<1>7. ASSUME NEW m \in Msgs, SendGivesUp(m)
      PROVE  QueuesApart' /\ HandsApart'
  <2>1. /\ UNCHANGED <<work, answers, hand, pc>> /\ gone' = gone \cup {m} /\ m \notin Queued
        /\ \A t \in Threads \cup {Loop} : hand[t] # m
    BY <1>7 DEF SendGivesUp, Known
  <2>2. SeqRange(work') = SeqRange(work) /\ SeqRange(answers') = SeqRange(answers)
    BY <2>1 DEF SeqRange
  <2> QED
    BY <1>0, <2>1, <2>2 DEF NoDup
<1>8. CASE SendInserts
  <2>1. hand[Loop] \in Msgs /\ pc[Loop] = "Put"
    BY <1>0, <1>8 DEF TypeOK, HandsFull, SendInserts
  <2>2. /\ RingDropped(work) \subseteq SeqRange(work)
        /\ NoDup(RingInsert(work, hand[Loop]))
        /\ SeqRange(RingInsert(work, hand[Loop])) = (SeqRange(work) \ RingDropped(work)) \cup {hand[Loop]}
    BY <1>0, <2>1, RingFacts DEF TypeOK
  <2>3. /\ work' = RingInsert(work, hand[Loop]) /\ UNCHANGED <<answers, hand>>
        /\ gone' = gone \cup RingDropped(work) /\ pc'[Loop] = "Sent"
    BY <1>0, <1>8 DEF TypeOK, SendInserts
  <2>4. /\ SeqRange(work') = (SeqRange(work) \ RingDropped(work)) \cup {hand[Loop]}
        /\ SeqRange(answers') = SeqRange(answers) /\ NoDup(work') /\ NoDup(answers')
    BY <1>0, <2>2, <2>3 DEF SeqRange, NoDup
  <2> QED
    BY <1>0, <2>1, <2>2, <2>3, <2>4
<1>9. CASE SendReturns \/ ReadSocket \/ PopLocks \/ PopGivesUp \/ Stop \/ Join
  <2>1. /\ UNCHANGED <<work, answers, gone>> /\ pc'[Loop] # "Put"
        /\ \A t \in Threads : hand'[t] = hand[t]
    BY <1>0, <1>9 DEF TypeOK, SendReturns, ReadSocket, PopLocks, PopGivesUp, Stop, Join
  <2> QED
    BY <1>1, <2>1
<1>10. CASE PopHandles
  <2>1. pc'[Loop] = "Idle" /\ UNCHANGED <<work, hand>>
    BY <1>0, <1>10 DEF TypeOK, PopHandles
  <2>2. CASE answers = <<>>
    BY <1>0, <1>1, <1>10, <2>1, <2>2 DEF PopHandles
  <2>3. CASE answers # <<>>
    <3>1. /\ Head(answers) \in SeqRange(answers) /\ NoDup(Tail(answers))
          /\ SeqRange(Tail(answers)) = SeqRange(answers) \ {Head(answers)}
        BY <1>0, <2>3, TailFacts DEF TypeOK
    <3>2. answers' = Tail(answers) /\ gone' = gone \cup {Head(answers)}
        BY <1>10, <2>3 DEF PopHandles
    <3>3. /\ SeqRange(answers') = SeqRange(answers) \ {Head(answers)}
          /\ SeqRange(work') = SeqRange(work) /\ NoDup(work') /\ NoDup(answers')
      <4>1. SeqRange(answers') = SeqRange(answers) \ {Head(answers)} /\ NoDup(answers')
        BY <3>1, <3>2
      <4>2. SeqRange(work') = SeqRange(work) /\ NoDup(work')
        BY <1>0, <2>1 DEF SeqRange, NoDup
      <4> QED
        BY <4>1, <4>2
    <3> QED
        BY <1>0, <2>1, <3>1, <3>2, <3>3
  <2> QED
    BY <2>2, <2>3
<1>11. CASE Restart
  <2>1. /\ work' = <<>> /\ answers' = <<>> /\ gone' = gone \cup SeqRange(work) \cup SeqRange(answers)
        /\ hand' = hand /\ pc'[Loop] = "Idle"
    BY <1>11 DEF Restart
  <2>2. SeqRange(work') = {} /\ SeqRange(answers') = {} /\ NoDup(work') /\ NoDup(answers')
    BY <2>1 DEF SeqRange, NoDup
  <2> QED
    BY <1>0, <2>1, <2>2
<1> QED
    BY <1>2, <1>3, <1>4, <1>5, <1>6, <1>7, <1>8, <1>9, <1>10, <1>11
    DEF Next, Worker, WorkerStep, AuthLocks, AuthFails, AuthSends, AuthStores, LoopReads, Answer,
        Reconfigure

(* What is under way has a callback: only the answer takes it away, and    *)
(* then the message is nowhere else.                                       *)
LEMMA StoredStep ==
    ASSUME IndInv, Next
    PROVE  UnderWayStored'
<1> USE ThreadsAssumption DEF UnderWayStored, HasCallback, Goto
<1>0. TypeOK /\ LocksHeld /\ HandsFull /\ QueuesApart /\ HandsApart /\ UnderWayStored
    BY DEF IndInv
<1>1. ASSUME UNCHANGED <<work, answers, store>>,
             \A t \in Threads : hand'[t] = hand[t] \/ hand'[t] = Nobody,
             pc[Loop] = "Sent" => pc'[Loop] = "Sent" /\ hand'[Loop] = hand[Loop]
      PROVE  UnderWayStored'
  <2>1. SeqRange(work') = SeqRange(work) /\ SeqRange(answers') = SeqRange(answers)
    BY <1>1
  <2> QED
    BY <1>0, <1>1, <2>1
<1>2. ASSUME NEW t \in Threads, store' = store,
             Run(t) \/ AcquireWork(t) \/ AcquireWorkGivesUp(t) \/ Leave(t) \/ Wait(t)
             \/ WaitTimesOut(t) \/ Handle(t) \/ AcquireAnswers(t) \/ AcquireAnswersGivesUp(t) \/ Write(t)
      PROVE  UnderWayStored'
  <2>1. /\ UNCHANGED <<work, answers>> /\ pc'[Loop] = pc[Loop] /\ hand'[Loop] = hand[Loop]
        /\ \A t2 \in Threads : hand'[t2] = hand[t2] \/ hand'[t2] = Nobody
    BY <1>0, <1>2 DEF TypeOK, Run, AcquireWork, AcquireWorkGivesUp, Leave, Wait, WaitTimesOut, Handle,
                      AcquireAnswers, AcquireAnswersGivesUp, Write
  <2> QED
    BY <1>1, <1>2, <2>1
<1>3. ASSUME NEW t \in Threads, Take(t), store' = store
      PROVE  UnderWayStored'
  <2>1. /\ Head(work) \in SeqRange(work) /\ SeqRange(Tail(work)) = SeqRange(work) \ {Head(work)}
    BY <1>0, <1>3, TailFacts DEF TypeOK, QueuesApart, Take
  <2>2. /\ SeqRange(work') \subseteq SeqRange(work) /\ SeqRange(answers') = SeqRange(answers)
        /\ hand'[Loop] = hand[Loop] /\ pc'[Loop] = pc[Loop]
        /\ \A t2 \in Threads : hand'[t2] = IF t2 = t THEN Head(work) ELSE hand[t2]
    BY <1>0, <1>3, <2>1 DEF TypeOK, Take
  <2> QED
    BY <1>0, <1>3, <2>1, <2>2
<1>4. ASSUME NEW t \in Threads, InsertAnswer(t), store' = store
      PROVE  UnderWayStored'
  <2>1. hand[t] \in Msgs /\ hand[t] # Nobody
    BY <1>0, <1>4 DEF TypeOK, HandsFull, InsertAnswer
  <2>2. SeqRange(RingInsert(answers, hand[t])) \subseteq SeqRange(answers) \cup {hand[t]}
    BY <1>0, <2>1, RingFacts DEF TypeOK, QueuesApart, HandsApart, Queued
  <2>3. /\ SeqRange(answers') \subseteq SeqRange(answers) \cup {hand[t]}
        /\ SeqRange(work') = SeqRange(work) /\ hand'[Loop] = hand[Loop] /\ pc'[Loop] = pc[Loop]
        /\ \A t2 \in Threads : hand'[t2] = IF t2 = t THEN Nobody ELSE hand[t2]
    BY <1>0, <1>4, <2>2 DEF TypeOK, InsertAnswer
  <2> QED
    BY <1>0, <1>4, <2>1, <2>3
<1>5. ASSUME NEW m \in Msgs, SendLocks(m) \/ SendGivesUp(m), store' = store
      PROVE  UnderWayStored'
  <2>1. /\ UNCHANGED <<work, answers>> /\ pc[Loop] = "Idle"
        /\ \A t \in Threads : hand'[t] = hand[t]
    BY <1>0, <1>5 DEF TypeOK, SendLocks, SendGivesUp
  <2> QED
    BY <1>1, <1>5, <2>1
<1>6. CASE SendInserts /\ store' = store
  <2>1. hand[Loop] \in Msgs /\ pc[Loop] = "Put" /\ hand' = hand /\ pc'[Loop] = "Sent"
    BY <1>0, <1>6 DEF TypeOK, HandsFull, SendInserts
  <2>2. SeqRange(RingInsert(work, hand[Loop])) \subseteq SeqRange(work) \cup {hand[Loop]}
    BY <1>0, <2>1, RingFacts DEF TypeOK, QueuesApart, HandsApart, Queued
  <2>3. SeqRange(work') \subseteq SeqRange(work) \cup {hand[Loop]} /\ SeqRange(answers') = SeqRange(answers)
    BY <1>6, <2>2 DEF SendInserts
  <2> QED
    BY <1>0, <1>6, <2>1, <2>3
<1>7. CASE SendReturns /\ store' = store \cup {hand[Loop]}
  <2>1. SeqRange(work') = SeqRange(work) /\ SeqRange(answers') = SeqRange(answers)
    BY <1>7 DEF SendReturns
  <2>2. \A t \in Threads : hand'[t] = hand[t]
    BY <1>0, <1>7 DEF TypeOK, SendReturns
  <2> QED
    BY <1>0, <1>7, <2>1, <2>2
<1>8. CASE (ReadSocket \/ PopLocks \/ PopGivesUp \/ Stop \/ Join) /\ store' = store
  <2>1. UNCHANGED <<work, answers, hand>> /\ pc[Loop] # "Sent"
    BY <1>8 DEF ReadSocket, PopLocks, PopGivesUp, Stop, Join
  <2> QED
    BY <1>1, <1>8, <2>1
<1>9. CASE Answer
  <2>1. pc[Loop] = "Pop" /\ UNCHANGED <<work, hand>>
    BY <1>9 DEF Answer, PopHandles
  <2>2. CASE answers = <<>>
    BY <1>1, <1>9, <2>1, <2>2 DEF Answer, PopHandles
  <2>3. CASE answers # <<>>
    <3>1. /\ Head(answers) \in SeqRange(answers)
          /\ SeqRange(Tail(answers)) = SeqRange(answers) \ {Head(answers)}
        BY <1>0, <2>3, TailFacts DEF TypeOK, QueuesApart
    <3>2. /\ SeqRange(answers') = SeqRange(answers) \ {Head(answers)} /\ SeqRange(work') = SeqRange(work)
          /\ store' = store \ {Head(answers)}
        BY <1>9, <2>1, <2>3, <3>1 DEF Answer, PopHandles
    <3>3. Head(answers) \notin SeqRange(work) /\ \A t \in Threads : hand[t] # Head(answers)
        BY <1>0, <3>1 DEF QueuesApart, HandsApart, Queued
    <3> QED
        BY <1>0, <2>1, <3>2, <3>3
  <2> QED
    BY <2>2, <2>3
<1>10. CASE Restart /\ store' = store
  <2>1. SeqRange(work') = {} /\ SeqRange(answers') = {}
    BY <1>10 DEF Restart, SeqRange
  <2>2. hand' = hand /\ pc[Loop] # "Sent"
    BY <1>10 DEF Restart
  <2> QED
    BY <1>0, <1>10, <2>1, <2>2
<1> QED
    BY <1>2, <1>3, <1>4, <1>5, <1>6, <1>7, <1>8, <1>9, <1>10
    DEF Next, Worker, WorkerStep, AuthLocks, AuthFails, AuthSends, AuthStores, LoopReads, Reconfigure

-----------------------------------------------------------------------------
(* The theorems.                                                           *)

(* The initial state satisfies the inductive invariant.                    *)
LEMMA InitIndInv == Init => IndInv
<1> SUFFICES ASSUME Init PROVE IndInv
    OBVIOUS
<1> USE ThreadsAssumption, BoundsAssumption DEF Init, TLInit
<1>1. TypeOK /\ PlacesOK /\ HandsFull /\ LocksHeld /\ HaltedIsStopped
    BY DEF TypeOK, PlacesOK, HandsFull, LocksHeld, HaltedIsStopped, WorkerStates, LoopStates
<1>2. SeqRange(work) = {} /\ SeqRange(answers) = {}
    BY DEF SeqRange
<1>3. QueuesApart /\ HandsApart /\ UnderWayStored
    BY <1>2 DEF QueuesApart, HandsApart, UnderWayStored, Queued, NoDup
<1> QED
    BY <1>1, <1>3 DEF IndInv

(* Every step of threads, pool and callers preserves it.                   *)
LEMMA NextIndInv == IndInv /\ [Next]_vars => IndInv'
<1>1. ASSUME IndInv, Next PROVE IndInv'
    BY <1>1, TypeStep, LocksStep, HandsStep, ApartStep, StoredStep DEF IndInv
<1>2. ASSUME IndInv, UNCHANGED vars PROVE IndInv'
    BY <1>2 DEF vars, tlvars, IndInv, TypeOK, PlacesOK, LocksHeld, HandsFull, HaltedIsStopped,
       QueuesApart, HandsApart, UnderWayStored, HasCallback, Queued, NoDup, SeqRange
<1> QED
    BY <1>1, <1>2

(* The inductive invariant holds in every reachable state.                 *)
THEOREM IndInvHolds == Spec => []IndInv
    BY InitIndInv, NextIndInv, PTL DEF Spec

(* Types of the thread pool's variables and the bound of its ring buffers. *)
THEOREM TypeCorrect == Spec => []TypeOK
<1>1. IndInv => TypeOK
    BY DEF IndInv
<1> QED
    BY <1>1, IndInvHolds, PTL

(* The locks are unused when ov_thread_lock_clear is called.               *)
THEOREM LocksCleared == Spec => []LocksUnusedWhenCleared
<1>1. IndInv => LocksUnusedWhenCleared
    BY ThreadsAssumption
    DEF IndInv, TypeOK, LocksHeld, HandsFull, HaltedIsStopped, LocksUnusedWhenCleared
<1> QED
    BY <1>1, IndInvHolds, PTL

(* The handler of an answer never looks up a callback in vain.             *)
THEOREM CallbacksFound == Spec => []AnswerFindsCallback
<1>1. IndInv => AnswerFindsCallback
  <2> SUFFICES ASSUME IndInv, pc[Loop] = "Pop", answers # <<>>
               PROVE  Head(answers) \in store
    BY DEF AnswerFindsCallback
  <2>1. Head(answers) \in SeqRange(answers)
    BY TailFacts DEF IndInv, TypeOK
  <2> QED
    BY <2>1 DEF IndInv, UnderWayStored, HasCallback
<1> QED
    BY <1>1, IndInvHolds, PTL

(* The places of a message are one place at most.                          *)
LEMMA OwnersEqual ==
    ASSUME IndInv, NEW m \in Msgs, NEW x \in Owners(m), NEW y \in Owners(m)
    PROVE  x = y
<1> DEFINE K(z) ==
        \/ \E i \in 1..Len(work) : work[i] = m /\ z = <<"work", i>>
        \/ \E i \in 1..Len(answers) : answers[i] = m /\ z = <<"answers", i>>
        \/ \E t \in Threads : hand[t] = m /\ z = <<"hand", t>>
        \/ hand[Loop] = m /\ pc[Loop] = "Put" /\ z = <<"hand", Loop>>
        \/ m \in gone /\ z = <<"gone", m>>
<1>1. K(x) /\ K(y)
    BY DEF Owners
<1>2. m # Nobody
    BY ThreadsAssumption
<1>3. /\ \A i \in 1..Len(work) : work[i] \in SeqRange(work)
      /\ \A i \in 1..Len(answers) : answers[i] \in SeqRange(answers)
    BY DEF SeqRange
<1>4. /\ \A i, j \in 1..Len(work) : work[i] = work[j] => i = j
      /\ \A i, j \in 1..Len(answers) : answers[i] = answers[j] => i = j
      /\ SeqRange(work) \cap SeqRange(answers) = {}
      /\ gone \cap SeqRange(work) = {} /\ gone \cap SeqRange(answers) = {}
    BY DEF IndInv, QueuesApart, NoDup
<1>5. /\ \A t \in Threads : hand[t] \notin SeqRange(work) \cup SeqRange(answers) \cup gone
      /\ \A t, t2 \in Threads : hand[t] # Nobody /\ hand[t] = hand[t2] => t = t2
      /\ pc[Loop] = "Put" => /\ hand[Loop] \notin SeqRange(work) \cup SeqRange(answers) \cup gone
                             /\ \A t \in Threads : hand[t] # hand[Loop]
    BY DEF IndInv, HandsApart, Queued
<1>6. CASE \E i \in 1..Len(work) : work[i] = m /\ x = <<"work", i>>
    BY <1>1, <1>2, <1>3, <1>4, <1>5, <1>6
<1>7. CASE \E i \in 1..Len(answers) : answers[i] = m /\ x = <<"answers", i>>
    BY <1>1, <1>2, <1>3, <1>4, <1>5, <1>7
<1>8. CASE \E t \in Threads : hand[t] = m /\ x = <<"hand", t>>
    BY <1>1, <1>2, <1>3, <1>4, <1>5, <1>8
<1>9. CASE hand[Loop] = m /\ pc[Loop] = "Put" /\ x = <<"hand", Loop>>
    BY <1>1, <1>2, <1>3, <1>4, <1>5, <1>9
<1>10. CASE m \in gone /\ x = <<"gone", m>>
    BY <1>1, <1>2, <1>3, <1>4, <1>5, <1>10
<1> QED
    BY <1>1, <1>6, <1>7, <1>8, <1>9, <1>10

(* A message is in one queue, in one hand, or freed, and nowhere twice.    *)
THEOREM MessagesOwned == Spec => []OneOwner
<1>1. IndInv => OneOwner
  <2> SUFFICES ASSUME IndInv, NEW m \in Msgs
               PROVE  Cardinality(Owners(m)) <= 1
    BY DEF OneOwner
  <2>1. CASE Owners(m) = {}
    BY <2>1, FS_EmptySet
  <2>2. CASE Owners(m) # {}
    <3>1. PICK x : Owners(m) = {x}
        BY <2>2, OwnersEqual
    <3> QED
        BY <3>1, FS_Singleton
  <2> QED
    BY <2>1, <2>2
<1> QED
    BY <1>1, IndInvHolds, PTL

-----------------------------------------------------------------------------
(* Wake-ups.                                                               *)

Writing == {t \in Threads : pc[t] = "Write"}

(* Workers about to write are counted.                                     *)
LEMMA WritingFinite == IsFiniteSet(Writing) /\ Cardinality(Writing) \in Nat
<1>1. Writing \in SUBSET Threads
    BY DEF Writing
<1>2. IsFiniteSet(Writing)
    BY <1>1, PoolAssumption, FS_Subset
<1> QED
    BY <1>2, FS_CardinalityType

(* For every answer in the queue a wake-up is on its way.                  *)
LEMMA AnnouncedStep ==
    ASSUME IndInv, AnswersAnnounced, Next
    PROVE  AnswersAnnounced'
<1> DEFINE reading == IF pc[Loop] \in {"Read", "Pop"} THEN 1 ELSE 0
<1>0. TypeOK /\ HandsFull /\ HaltedIsStopped
    BY DEF IndInv
<1>1. AnswersAnnounced <=> Len(answers) <= socket + missed + Cardinality(Writing) + reading
    BY DEF AnswersAnnounced, Writing
<1>2. AnswersAnnounced' <=>
        Len(answers') <= socket' + missed' + Cardinality(Writing')
                         + (IF pc'[Loop] \in {"Read", "Pop"} THEN 1 ELSE 0)
    BY DEF AnswersAnnounced, Writing
<1>3. /\ IsFiniteSet(Writing) /\ Cardinality(Writing) \in Nat
      /\ Len(answers) \in Nat /\ socket \in Nat /\ missed \in Nat
    BY <1>0, WritingFinite DEF TypeOK
<1> HIDE DEF reading
<1>4. reading \in Nat
    BY DEF reading
<1>5. ASSUME UNCHANGED <<answers, socket, missed>>, Writing' = Writing,
             pc'[Loop] \in {"Read", "Pop"} <=> pc[Loop] \in {"Read", "Pop"}
      PROVE  AnswersAnnounced'
    BY <1>1, <1>2, <1>5 DEF reading
<1> USE ThreadsAssumption DEF Goto
<1>6. ASSUME NEW t \in Threads,
             Run(t) \/ AcquireWork(t) \/ AcquireWorkGivesUp(t) \/ Leave(t) \/ Take(t) \/ Wait(t)
             \/ WaitTimesOut(t) \/ Handle(t) \/ AcquireAnswers(t) \/ AcquireAnswersGivesUp(t)
      PROVE  AnswersAnnounced'
  <2>1. UNCHANGED <<answers, socket, missed>> /\ Writing' = Writing /\ pc'[Loop] = pc[Loop]
    BY <1>0, <1>6 DEF TypeOK, Writing, Run, AcquireWork, AcquireWorkGivesUp, Leave, Take, Wait,
                      WaitTimesOut, Handle, AcquireAnswers, AcquireAnswersGivesUp
  <2> QED
    BY <1>5, <2>1
<1>7. ASSUME NEW t \in Threads, InsertAnswer(t)
      PROVE  AnswersAnnounced'
  <2>1. hand[t] \in Msgs
    BY <1>0, <1>7 DEF TypeOK, HandsFull, InsertAnswer
  <2>2. answers' \in Seq(Msgs) /\ Len(answers') <= Len(answers) + 1
    BY <1>0, <1>7, <2>1, RingFacts DEF TypeOK, InsertAnswer
  <2>3. Writing' = Writing \cup {t} /\ t \notin Writing
    BY <1>0, <1>7 DEF TypeOK, Writing, InsertAnswer
  <2>4. Cardinality(Writing') = Cardinality(Writing) + 1
    BY <1>3, <2>3, FS_AddElement
  <2>5. UNCHANGED <<socket, missed>> /\ pc'[Loop] = pc[Loop]
    BY <1>0, <1>7 DEF TypeOK, InsertAnswer
  <2> QED
    BY <1>1, <1>2, <1>3, <1>4, <2>2, <2>4, <2>5 DEF reading
<1>8. ASSUME NEW t \in Threads, Write(t)
      PROVE  AnswersAnnounced'
  <2>1. Writing' = Writing \ {t} /\ t \in Writing
    BY <1>0, <1>8 DEF TypeOK, Writing, Write
  <2>2. Cardinality(Writing') = Cardinality(Writing) - 1
    BY <1>3, <2>1, FS_RemoveElement
  <2>3. UNCHANGED <<answers, missed>> /\ socket' = socket + 1 /\ pc'[Loop] = pc[Loop]
    BY <1>0, <1>8 DEF TypeOK, Write
  <2> QED
    BY <1>1, <1>2, <1>3, <1>4, <2>2, <2>3 DEF reading
<1>9. ASSUME NEW m \in Msgs, SendLocks(m) \/ SendGivesUp(m)
      PROVE  AnswersAnnounced'
  <2>1. /\ UNCHANGED <<answers, socket, missed>> /\ Writing' = Writing
        /\ pc[Loop] = "Idle" /\ pc'[Loop] \in {"Idle", "Put"}
    BY <1>0, <1>9 DEF TypeOK, Writing, SendLocks, SendGivesUp
  <2> QED
    BY <1>5, <2>1
<1>10. CASE SendInserts \/ SendReturns \/ PopLocks \/ Stop \/ Join
  <2>1. UNCHANGED <<answers, socket, missed>> /\ Writing' = Writing
    BY <1>0, <1>10 DEF TypeOK, Writing, SendInserts, SendReturns, PopLocks, Stop, Join
  <2>2. pc'[Loop] \in {"Read", "Pop"} <=> pc[Loop] \in {"Read", "Pop"}
    BY <1>0, <1>10 DEF TypeOK, SendInserts, SendReturns, PopLocks, Stop, Join
  <2> QED
    BY <1>5, <2>1, <2>2
<1>11. CASE ReadSocket
  <2>1. /\ UNCHANGED <<answers, missed>> /\ socket' = socket - 1 /\ Writing' = Writing
        /\ pc[Loop] = "Idle" /\ pc'[Loop] = "Read"
    BY <1>0, <1>11 DEF TypeOK, Writing, ReadSocket
  <2> QED
    BY <1>1, <1>2, <1>3, <2>1 DEF reading
<1>12. CASE PopGivesUp
  <2>1. /\ UNCHANGED <<answers, socket>> /\ missed' = missed + 1 /\ Writing' = Writing
        /\ pc[Loop] = "Read" /\ pc'[Loop] = "Idle"
    BY <1>0, <1>12 DEF TypeOK, Writing, PopGivesUp
  <2> QED
    BY <1>1, <1>2, <1>3, <2>1 DEF reading
<1>13. CASE PopHandles
  <2>1. /\ UNCHANGED <<socket, missed>> /\ Writing' = Writing
        /\ pc[Loop] = "Pop" /\ pc'[Loop] = "Idle"
    BY <1>0, <1>13 DEF TypeOK, Writing, PopHandles
  <2>2. Len(answers') = IF answers = <<>> THEN 0 ELSE Len(answers) - 1
    BY <1>0, <1>13, TailFacts DEF TypeOK, PopHandles
  <2> QED
    BY <1>1, <1>2, <1>3, <2>1, <2>2 DEF reading
<1>14. CASE Restart
  <2>1. UNCHANGED <<socket, missed>> /\ Len(answers') = 0 /\ Writing' = {} /\ pc'[Loop] = "Idle"
    BY <1>14 DEF Writing, Restart
  <2> QED
    BY <1>2, <1>3, <2>1, FS_EmptySet
<1> QED
    BY <1>6, <1>7, <1>8, <1>9, <1>10, <1>11, <1>12, <1>13, <1>14
    DEF Next, Worker, WorkerStep, AuthLocks, AuthFails, AuthSends, AuthStores, LoopReads, Answer,
        Reconfigure

(* No answer waits in the queue without a wake-up on its way.              *)
THEOREM WakeUpsNotLost == Spec => []AnswersAnnounced
<1>1. Init => AnswersAnnounced
  <2> SUFFICES ASSUME Init PROVE AnswersAnnounced
    OBVIOUS
  <2>1. {t \in Threads : pc[t] = "Write"} = {}
    BY ThreadsAssumption DEF Init, TLInit
  <2>2. Cardinality({t \in Threads : pc[t] = "Write"}) = 0
    BY <2>1, FS_EmptySet
  <2>3. Len(answers) = 0 /\ socket = 0 /\ missed = 0
    BY DEF Init, TLInit
  <2> QED
    BY <2>2, <2>3 DEF AnswersAnnounced
<1>2. IndInv /\ AnswersAnnounced /\ [Next]_vars => AnswersAnnounced'
  <2>1. ASSUME AnswersAnnounced, UNCHANGED vars PROVE AnswersAnnounced'
    BY <2>1 DEF vars, tlvars, AnswersAnnounced
  <2> QED
    BY <2>1, AnnouncedStep
<1> QED
    BY <1>1, <1>2, IndInvHolds, PTL DEF Spec
=============================================================================
