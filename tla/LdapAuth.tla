------------------------------ MODULE LdapAuth ------------------------------
(***************************************************************************)
(* Password checks against an LDAP server (ov_ldap.c), the main user of    *)
(* the worker threads of ThreadLoop: a login is a message to the workers,  *)
(* a callback is stored under the uuid of the request after the message    *)
(* has been sent, a worker asks the server and sends the message back, and *)
(* the event loop calls the stored callback.  A message and its uuid are   *)
(* the same name; what the server says is left out.                        *)
(***************************************************************************)
EXTENDS ThreadLoop

VARIABLES store        \* uuids with a callback

vars == <<tlvars, store>>

Init == TLInit /\ store = {}

-----------------------------------------------------------------------------
(* impl_authenticate_password *)

AuthLocks(m) == SendLocks(m) /\ UNCHANGED store

\* The caller is told at once that its request has failed.
AuthFails(m) == SendGivesUp(m) /\ UNCHANGED store

AuthSends == SendInserts /\ UNCHANGED store

\* Mutant: the callback of the request is not stored.
AuthStoresLate == SendReturns /\ UNCHANGED store

AuthStores == SendReturns /\ store' = store \cup {hand[Loop]}

(* handle_loop_authenticate_request *)

Answer ==
    /\ PopHandles
    /\ store' = IF answers = <<>> THEN store ELSE store \ {Head(answers)}

(* impl_ldap_reconfigure: the store is not touched. *)

Reconfigure == (Stop \/ Join \/ Restart) /\ UNCHANGED store

Worker(t) == WorkerStep(t) /\ UNCHANGED store

LoopReads == (ReadSocket \/ PopLocks \/ PopGivesUp) /\ UNCHANGED store

Next ==
    \/ \E t \in Threads : Worker(t)
    \/ \E m \in Msgs : AuthLocks(m) \/ AuthFails(m)
    \/ AuthSends \/ AuthStores \/ LoopReads \/ Answer \/ Reconfigure

Spec == Init /\ [][Next]_vars

(* Threads are scheduled, a wait times out, and a handler that has been    *)
(* started by the event loop comes to its end.  Nothing is assumed about   *)
(* new requests or about somebody reconfiguring.                           *)
Fairness ==
    /\ \A t \in Threads : WF_vars(Worker(t))
    /\ WF_vars(AuthSends \/ AuthStores \/ LoopReads \/ Answer)
    /\ WF_vars((Join \/ Restart) /\ UNCHANGED store)

FairSpec == Spec /\ Fairness

-----------------------------------------------------------------------------
(* Properties *)

\* Types of the variables.
TypeOK ==
    /\ poolState \in {"running", "to_stop", "stopped"}
    /\ pc \in [Threads \cup {Loop} -> WorkerStates \cup LoopStates]
    /\ hand \in [Threads \cup {Loop} -> Msgs \cup {Nobody}]
    /\ workLock \in Threads \cup {Loop, Nobody}
    /\ loopLock \in Threads \cup {Loop, Nobody}
    /\ work \in Seq(Msgs) /\ Len(work) <= Capacity
    /\ answers \in Seq(Msgs) /\ Len(answers) <= Capacity
    /\ socket \in Nat /\ stalls \in 0..Stalls /\ missed \in Nat /\ stops \in 0..Stops
    /\ gone \subseteq Msgs /\ store \subseteq Msgs

\* The places at which a message is reachable for a thread, or freed.
Owners(m) ==
    {<<"work", i>> : i \in {i \in 1..Len(work) : work[i] = m}}
    \cup {<<"answers", i>> : i \in {i \in 1..Len(answers) : answers[i] = m}}
    \cup {<<"hand", t>> : t \in {t \in Threads : hand[t] = m}}
    \cup (IF hand[Loop] = m /\ pc[Loop] = "Put" THEN {<<"hand", Loop>>} ELSE {})
    \cup (IF m \in gone THEN {<<"gone", m>>} ELSE {})

\* A message has one owner: no two threads ever work on the same message, and
\* none is freed (by its handler, by an overwriting insert, by a queue that is
\* cleared) while a queue or a thread still has it.
OneOwner == \A m \in Msgs : Cardinality(Owners(m)) <= 1

\* Wake-ups are not lost: for every answer in the queue a pointer is in the
\* socket, about to be written, or just read, except for as many as the loop
\* has read and then failed to get the lock of the queue.
AnswersAnnounced ==
    Len(answers) <= socket + missed
                    + Cardinality({t \in Threads : pc[t] = "Write"})
                    + (IF pc[Loop] \in {"Read", "Pop"} THEN 1 ELSE 0)

\* ov_thread_lock_clear demands that nobody holds or uses the lock: once the
\* workers are joined both locks are free and no worker is left inside.
LocksUnusedWhenCleared ==
    pc[Loop] = "Halted" =>
        /\ workLock = Nobody /\ loopLock = Nobody
        /\ \A t \in Threads : pc[t] = "Stopped" /\ hand[t] = Nobody

\* The event loop finds a callback for every answer it takes out, although
\* the request is under way before its callback is stored (a missing one is
\* dereferenced by handle_loop_authenticate_request).
AnswerFindsCallback ==
    pc[Loop] = "Pop" /\ answers # <<>> => Head(answers) \in store

\* A login that waits for its callback gets it, unless its message was lost
\* (queue overflow, reconfiguration, no lock for the answer) or a wake-up was
\* read in vain.
LoginsAnswered ==
    \A m \in Msgs : (m \in store) ~> (m \notin store \/ m \in gone \/ missed > 0)

\* Stopping the workers ends, whatever they are doing: nobody waits for ever.
StopEnds == (pc[Loop] = "Join") ~> (pc[Loop] = "Halted")
=============================================================================
