-------------------------- MODULE McBackendSystem ---------------------------
(***************************************************************************)
(* The backend with its environment: mixers that connect, crash and        *)
(* answer, the timer of the callback registry, and a caller.  The caller   *)
(* acquires a mixer once per session id, uses it in any order it likes and *)
(* stops using a session id it has released, was refused or has lost, as   *)
(* the vocs core does (its session ids are fresh uuids of the ICE proxy).  *)
(***************************************************************************)
EXTENDS McBackend

CONSTANTS Ops,          \* requests the caller makes besides acquire and release
          Timeouts,     \* whether callbacks may expire before their answer
          Crashes       \* bound: mixers that may be lost

ASSUME OpsAssumption == Ops \subseteq {"join", "leave", "volume", "forward", "state"}
ASSUME BoundsAssumption == Timeouts \in BOOLEAN /\ Crashes \in Nat

VARIABLES be,           \* the backend and the mixers
          own,          \* what the caller knows of each session
          issued,       \* request uuids used so far
          joins,        \* ghost: <<session, loop>> of every join requested
          told,         \* ghost: who asked and who was named by the last callback
          crashed       \* mixers lost so far, bounded by Crashes

vars == <<be, own, issued, joins, told, crashed>>

NoCall == [asker |-> None, named |-> {}]

Init ==
    /\ be = BackendInit
    /\ own = [u \in Users |-> "new"]
    /\ issued = {} /\ joins = {} /\ told = NoCall /\ crashed = 0

Lost(us) == [u \in Users |-> IF u \in us THEN "gone" ELSE own[u]]

MixerConnect(s) ==
    /\ be.slot[s] = Closed
    /\ be' = CbEventRegister(be, s)
    /\ UNCHANGED <<own, issued, joins, told, crashed>>

MixerClose(s) ==
    /\ be.slot[s] # Closed /\ crashed < Crashes
    /\ be' = CloseMixer(be, s)
    /\ own' = Lost(LostUser(be, s))
    /\ crashed' = crashed + 1
    /\ UNCHANGED <<issued, joins, told>>

Acquire(u, r) ==
    /\ own[u] = "new" /\ r \notin issued
    /\ be' = AcquireMixer(be, r, u)
    /\ own' = [own EXCEPT ![u] = IF MixerAvailable(be) THEN "asked" ELSE "gone"]
    /\ issued' = issued \cup {r}
    /\ UNCHANGED <<joins, told, crashed>>

Release(u, r) ==
    /\ own[u] \in {"asked", "held"} /\ r \notin issued
    /\ be' = ReleaseMixer(be, r, u)
    /\ own' = [own EXCEPT ![u] = "gone"]
    /\ issued' = issued \cup {r}
    /\ UNCHANGED <<joins, told, crashed>>

\* Only a mixer reported as acquired is sent joins and forwards; the other
\* requests need no more than a session (client_switch_loop_volume).
Request(op, u, r, l) ==
    /\ own[u] = "held" \/ (own[u] = "asked" /\ op \notin {"join", "forward"})
    /\ r \notin issued
    /\ be' = IF op = "forward" THEN SetMixerForward(be, r, u) ELSE LoopRequest(be, op, r, u, l)
    /\ issued' = issued \cup {r}
    /\ joins' = IF op = "join" THEN joins \cup {<<u, l>>} ELSE joins
    /\ UNCHANGED <<own, told, crashed>>

\* What the acquire callback tells the caller.
AfterAcquire(u, code) ==
    IF own[u] = "asked" THEN [own EXCEPT ![u] = IF code = "ok" THEN "held" ELSE "gone"] ELSE own

Answer(s, code) ==
    /\ be.wire[s] # <<>>
    /\ code \in MixerCodes(be.mix[s], Head(be.wire[s]))
    /\ be' = HandleAnswer(be, s, code)
    /\ LET m == Head(be.wire[s]) IN
       /\ own' = IF ForcesReconnect(be, s) THEN Lost(LostUser(AnswerRegistry(be, s, code), s))
                 ELSE IF m.op = "acquire" THEN AfterAcquire(m.user, code)
                 ELSE own
       /\ told' = IF HasCallback(be, s) THEN [asker |-> m.user, named |-> CallbackUser(be, s)]
                  ELSE told
    /\ UNCHANGED <<issued, joins, crashed>>

\* cb_check_timeout deletes the callback, nobody is told.
ExpireCallback(r) ==
    /\ Timeouts /\ r \in be.cbs
    /\ be' = UnregisterCallback(be, r)
    /\ UNCHANGED <<own, issued, joins, told, crashed>>

MixerAnswers(s) == \E code \in {"ok", "error"} : Answer(s, code)

Next ==
    \/ \E s \in Sockets : MixerConnect(s)
    \/ \E s \in Sockets : MixerClose(s)
    \/ \E s \in Sockets : MixerAnswers(s)
    \/ \E u \in Users, r \in Reqs : Acquire(u, r)
    \/ \E u \in Users, r \in Reqs : Release(u, r)
    \/ \E op \in Ops, u \in Users, r \in Reqs, l \in Loops : Request(op, u, r, l)
    \/ \E r \in Reqs : ExpireCallback(r)

Spec == Init /\ [][Next]_vars

-----------------------------------------------------------------------------
(* Every field of the backend and of the caller's bookkeeping keeps the    *)
(* type the C structs give it.                                             *)
TypeOK ==
    /\ be \in BackendStates
    /\ own \in [Users -> {"new", "asked", "held", "gone"}]
    /\ issued \subseteq Reqs
    /\ joins \subseteq Users \X Loops
    /\ told \in [asker : Users \cup {None}, named : SUBSET Users]
    /\ crashed \in 0..Crashes

(* Slot array and dictionary agree: a slot taken by a session is the one   *)
(* the dictionary names for it (so one session never occupies two mixers). *)
SlotsIndexed == \A s \in Sockets, u \in Users : be.slot[s] = u => be.users[u] = s

(* No mixer leaks: a slot is taken only by a session whose owner still     *)
(* waits for it or uses it; the slot of a session that was released, was   *)
(* refused or lost its mixer is back in the pool or closed.                *)
NoMixerLeak == \A s \in Sockets, u \in Users : be.slot[s] = u => own[u] \in {"asked", "held"}

(* A session that was told it has a mixer has one, whatever answers of     *)
(* earlier users, expired callbacks and crashes happened in between.       *)
HeldHasMixer ==
    \A u \in Users : own[u] = "held" => be.users[u] # NoSlot /\ be.slot[be.users[u]] = u

(* The mixer process follows the registry: when its connection is drained  *)
(* it carries the name of the session in its slot or no name.              *)
MixerFollowsRegistry ==
    \A s \in Sockets : be.wire[s] = <<>> => be.mix[s].name \in {None, be.slot[s]}

(* Audio isolation: a mixer named for a session has joined only loops that *)
(* session asked for, although slots are handed on before the mixer has    *)
(* confirmed the release.                                                  *)
NoForeignLoops ==
    \A s \in Sockets : \A l \in be.mix[s].loops : <<be.mix[s].name, l>> \in joins

(* ov_mc_backend_test.c:741 checks that the callback of a loop request is  *)
(* called with the session the request was made for.                       *)
CallbackNamesRequester == told.named \subseteq {told.asker}

\* The mixer reserved for each session, the slot's .user compared too.
Leases(b) ==
    [u \in Users |-> IF GetUser(b, u) # NoSlot /\ b.slot[GetUser(b, u)] = u
                     THEN GetUser(b, u) ELSE NoSlot]

Lease == INSTANCE MixerLease WITH lease <- Leases(be)

(* The backend implements the lease contract.                              *)
ImplementsLease == Lease!LeaseSpec
=============================================================================
