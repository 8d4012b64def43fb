-------------------------- MODULE McBackendProofs ---------------------------
(***************************************************************************)
(* Proofs about McBackendSystem for any number of sockets, sessions, loops *)
(* and requests, with expiring callbacks and crashing mixers.              *)
(***************************************************************************)
EXTENDS McBackendSystem, WellFoundedInduction, SequenceTheorems, TLAPS

-----------------------------------------------------------------------------
(* The inductive invariant.                                                *)

(* A waiting session has its slot, or its mixer refused after the request  *)
(* had expired.                                                            *)
AskedConsistent ==
    \A u \in Users : own[u] = "asked" =>
        be.users[u] = NoSlot \/ be.slot[be.users[u]] = u

(* A session that never asked is not in the dictionary.                    *)
NewUnknown == \A u \in Users : own[u] = "new" => be.users[u] = NoSlot

(* What a queued acquire says about its session: it sits in the wire of    *)
(* the slot of a session still waiting, or the session is over and the     *)
(* dictionary has forgotten it.                                            *)
AcquireQueued(b, o, s, u) ==
    \/ o[u] = "asked" /\ b.slot[s] = u
    \/ o[u] = "gone" /\ b.users[u] = NoSlot

ReleaseQueued(b, o, u) == o[u] = "gone" /\ b.users[u] = NoSlot

WireConsistent ==
    \A s \in Sockets : \A i \in 1..Len(be.wire[s]) :
        LET m == be.wire[s][i] IN
        /\ m.op = "acquire" => AcquireQueued(be, own, s, m.user)
        /\ m.op = "release" => ReleaseQueued(be, own, m.user)

(* A session's acquire is queued at most once.                             *)
AcquireOnce ==
    \A s \in Sockets : \A i, j \in 1..Len(be.wire[s]) :
        /\ be.wire[s][i].op = "acquire" /\ be.wire[s][j].op = "acquire"
        /\ be.wire[s][i].user = be.wire[s][j].user
        => i = j

IndInv ==
    /\ TypeOK
    /\ SlotsIndexed
    /\ NoMixerLeak
    /\ HeldHasMixer
    /\ AskedConsistent
    /\ NewUnknown
    /\ WireConsistent
    /\ AcquireOnce

-----------------------------------------------------------------------------
(* Lemmas about the operators of the registry and the backend.             *)

(* The scan of acquire_user stops at a free slot if there is one.          *)
LEMMA FirstFreeIsFree ==
    ASSUME NEW b, FreeSlots(b) # {}
    PROVE  FirstFree(b) \in Sockets /\ b.slot[FirstFree(b)] = Free
<1>1. FreeSlots(b) \subseteq Nat
    BY SocketsAssumption DEF FreeSlots
<1>2. PICK s \in FreeSlots(b) : \A t \in FreeSlots(b) : ~ (<<t, s>> \in OpToRel(<, Nat))
    BY <1>1, WFMin, NatLessThanWellFounded, Zenon
<1>3. \A t \in FreeSlots(b) : ~ (t < s)
    BY <1>1, <1>2, Zenon DEF OpToRel
<1>4. \E x \in FreeSlots(b) : \A t \in FreeSlots(b) : x <= t
    BY <1>1, <1>3
<1>5. FirstFree(b) \in FreeSlots(b)
    BY <1>4, Zenon DEF FirstFree
<1> QED
    BY <1>5 DEF FreeSlots

(* release_user empties the slot the dictionary names and forgets u.       *)
LEMMA ReleaseUserFields ==
    ASSUME NEW b \in BackendStates, NEW u \in Users
    PROVE  /\ ReleaseUser(b, u) \in BackendStates
           /\ ReleaseUser(b, u).slot =
                [s \in Sockets |-> IF s = b.users[u] /\ b.slot[s] # Closed THEN Free ELSE b.slot[s]]
           /\ ReleaseUser(b, u).users = [b.users EXCEPT ![u] = NoSlot]
           /\ ReleaseUser(b, u).cbs = b.cbs
           /\ ReleaseUser(b, u).wire = b.wire
           /\ ReleaseUser(b, u).mix = b.mix
    BY DEF BackendStates, ReleaseUser, NoSlot

(* Closing a connection empties its slot, its queue and its mixer.         *)
LEMMA CloseMixerFields ==
    ASSUME NEW b \in BackendStates, NEW s \in Sockets
    PROVE  /\ CloseMixer(b, s) \in BackendStates
           /\ CloseMixer(b, s).slot = [b.slot EXCEPT ![s] = Closed]
           /\ CloseMixer(b, s).users = b.users
           /\ CloseMixer(b, s).cbs = b.cbs
           /\ CloseMixer(b, s).wire = [b.wire EXCEPT ![s] = <<>>]
           /\ CloseMixer(b, s).mix = [b.mix EXCEPT ![s] = Idle]
<1>1. Idle \in [name : Users \cup {None}, loops : SUBSET Loops]
    BY DEF Idle
<1>2. <<>> \in Seq(Messages)
    OBVIOUS
<1> QED
    BY <1>1, <1>2 DEF BackendStates, CloseMixer, UnregisterMixer

(* Registering a mixer frees its slot with an empty queue and mixer.       *)
LEMMA RegisterFields ==
    ASSUME NEW b \in BackendStates, NEW s \in Sockets
    PROVE  /\ CbEventRegister(b, s) \in BackendStates
           /\ CbEventRegister(b, s).slot = [b.slot EXCEPT ![s] = Free]
           /\ CbEventRegister(b, s).users = b.users
           /\ CbEventRegister(b, s).cbs = b.cbs
           /\ CbEventRegister(b, s).wire = [b.wire EXCEPT ![s] = <<>>]
           /\ CbEventRegister(b, s).mix = [b.mix EXCEPT ![s] = Idle]
<1>1. Idle \in [name : Users \cup {None}, loops : SUBSET Loops]
    BY DEF Idle
<1>2. <<>> \in Seq(Messages)
    OBVIOUS
<1> QED
    BY <1>1, <1>2 DEF BackendStates, CbEventRegister, RegisterMixer

(* Sending registers a callback and queues one message.                    *)
LEMMA SendFields ==
    ASSUME NEW b \in BackendStates, NEW s \in Sockets, NEW r \in Reqs, NEW m \in Messages
    PROVE  /\ SendMixer(RegisterCallback(b, r), s, m) \in BackendStates
           /\ SendMixer(RegisterCallback(b, r), s, m).slot = b.slot
           /\ SendMixer(RegisterCallback(b, r), s, m).users = b.users
           /\ SendMixer(RegisterCallback(b, r), s, m).wire =
                [b.wire EXCEPT ![s] = Append(b.wire[s], m)]
<1>1. Append(b.wire[s], m) \in Seq(Messages)
    BY AppendProperties DEF BackendStates
<1> QED
    BY <1>1 DEF BackendStates, SendMixer, RegisterCallback

(* acquire_user puts u into a free slot and into the dictionary.           *)
LEMMA AcquireUserFields ==
    ASSUME NEW b \in BackendStates, NEW u \in Users, FreeSlots(b) # {}
    PROVE  /\ AcquireUser(b, u) \in BackendStates
           /\ AcquireUser(b, u).slot = [b.slot EXCEPT ![FirstFree(b)] = u]
           /\ AcquireUser(b, u).users = [b.users EXCEPT ![u] = FirstFree(b)]
           /\ AcquireUser(b, u).cbs = b.cbs
           /\ AcquireUser(b, u).wire = b.wire
           /\ AcquireUser(b, u).mix = b.mix
    BY FirstFreeIsFree DEF BackendStates, AcquireUser

(* get_user returns a connected slot or none.                              *)
LEMMA GetUserType ==
    ASSUME NEW b \in BackendStates, NEW u \in Users
    PROVE  HasMixer(b, u) => /\ GetUser(b, u) = b.users[u]
                             /\ b.users[u] \in Sockets
                             /\ b.slot[b.users[u]] # Closed
    BY DEF BackendStates, HasMixer, GetUser, NoSlot

(* The registry after a release decided by an answer, and the user left in *)
(* slot s at that moment.                                                  *)
SlotAfter(b, s, code) ==
    LET m == Head(b.wire[s]) IN
    IF AnswerReleases(m, code)
    THEN [t \in Sockets |-> IF t = b.users[m.user] /\ b.slot[t] # Closed THEN Free ELSE b.slot[t]]
    ELSE b.slot

(* The mixer's next state has the type of a mixer.                         *)
LEMMA ExecuteType ==
    ASSUME NEW x \in [name : Users \cup {None}, loops : SUBSET Loops], NEW m \in Messages, NEW code
    PROVE  MixerExecute(x, m, code) \in [name : Users \cup {None}, loops : SUBSET Loops]
<1>1. Idle \in [name : Users \cup {None}, loops : SUBSET Loops]
    BY DEF Idle
<1>2. m.user \in Users /\ (m.op = "join" => m.loop \in Loops)
    BY DEF Messages
<1>3. [Idle EXCEPT !.name = m.user] \in [name : Users \cup {None}, loops : SUBSET Loops]
    BY <1>1, <1>2
<1>4. m.op = "join" => [x EXCEPT !.loops = @ \cup {m.loop}] \in [name : Users \cup {None}, loops : SUBSET Loops]
    BY <1>2
<1>5. [x EXCEPT !.loops = @ \ {m.loop}] \in [name : Users \cup {None}, loops : SUBSET Loops]
    OBVIOUS
<1> QED
    BY <1>1, <1>3, <1>4, <1>5 DEF MixerExecute, CoreRelease

(* Executing the head request pops the queue and changes that mixer only.  *)
LEMMA AnsweredFields ==
    ASSUME NEW b \in BackendStates, NEW s \in Sockets, NEW code, b.wire[s] # <<>>
    PROVE  /\ Head(b.wire[s]) \in Messages
           /\ Answered(b, s, code) \in BackendStates
           /\ Answered(b, s, code).slot = b.slot
           /\ Answered(b, s, code).users = b.users
           /\ Answered(b, s, code).cbs = b.cbs
           /\ Answered(b, s, code).wire = [b.wire EXCEPT ![s] = Tail(b.wire[s])]
<1>1. b.wire[s] \in Seq(Messages)
    BY DEF BackendStates
<1>2. Head(b.wire[s]) \in Messages /\ Tail(b.wire[s]) \in Seq(Messages)
    BY <1>1, HeadTailProperties
<1>3. MixerExecute(b.mix[s], Head(b.wire[s]), code) \in [name : Users \cup {None}, loops : SUBSET Loops]
    BY <1>2, ExecuteType DEF BackendStates
<1> HIDE DEF MixerExecute
<1> QED
    BY <1>2, <1>3 DEF BackendStates, Answered

(* The fields after the whole handler of an answer.                        *)
LEMMA HandleAnswerFields ==
    ASSUME NEW b \in BackendStates, NEW s \in Sockets, NEW code, b.wire[s] # <<>>
    PROVE  /\ Head(b.wire[s]) \in Messages
           /\ AnswerRegistry(b, s, code) \in BackendStates
           /\ AnswerRegistry(b, s, code).slot = SlotAfter(b, s, code)
           /\ HandleAnswer(b, s, code) \in BackendStates
           /\ HandleAnswer(b, s, code).slot =
                IF ForcesReconnect(b, s) THEN [SlotAfter(b, s, code) EXCEPT ![s] = Closed]
                ELSE SlotAfter(b, s, code)
           /\ HandleAnswer(b, s, code).users =
                IF AnswerReleases(Head(b.wire[s]), code)
                THEN [b.users EXCEPT ![Head(b.wire[s]).user] = NoSlot] ELSE b.users
           /\ HandleAnswer(b, s, code).wire =
                [b.wire EXCEPT ![s] = IF ForcesReconnect(b, s) THEN <<>> ELSE Tail(b.wire[s])]
<1> DEFINE m == Head(b.wire[s])
           a == Answered(b, s, code)
           g == AnswerRegistry(b, s, code)
           h == UnregisterCallback(g, m.id)
<1>1. m \in Messages /\ m.user \in Users /\ m.id \in Reqs
    BY AnsweredFields DEF Messages
<1>2. /\ a \in BackendStates
      /\ a.slot = b.slot /\ a.users = b.users
      /\ a.wire = [b.wire EXCEPT ![s] = Tail(b.wire[s])]
    BY AnsweredFields
<1> HIDE DEF a, g, m
<1>3. /\ g \in BackendStates
      /\ g.slot = SlotAfter(b, s, code)
      /\ g.users = IF AnswerReleases(m, code) THEN [b.users EXCEPT ![m.user] = NoSlot] ELSE b.users
      /\ g.wire = a.wire
  <2>1. CASE AnswerReleases(m, code)
    <3>1. g = ReleaseUser(a, m.user)
        BY <2>1 DEF AnswerRegistry, a, g, m
    <3>2. /\ g \in BackendStates
          /\ g.slot = [t \in Sockets |-> IF t = a.users[m.user] /\ a.slot[t] # Closed
                                        THEN Free ELSE a.slot[t]]
          /\ g.users = [a.users EXCEPT ![m.user] = NoSlot]
          /\ g.wire = a.wire
        BY <3>1, <1>1, <1>2, ReleaseUserFields
    <3>3. g.slot = SlotAfter(b, s, code)
        BY <2>1, <3>2, <1>2 DEF SlotAfter, m
    <3> QED
        BY <2>1, <3>2, <3>3, <1>2
  <2>2. CASE ~AnswerReleases(m, code)
    <3>1. g = a
        BY <2>2 DEF AnswerRegistry, a, g, m
    <3> QED
        BY <2>2, <3>1, <1>2 DEF SlotAfter, m
  <2> QED
    BY <2>1, <2>2
<1>4. /\ h \in BackendStates
      /\ h.slot = g.slot /\ h.users = g.users /\ h.wire = g.wire
    BY <1>1, <1>3 DEF UnregisterCallback, BackendStates
<1>5. HandleAnswer(b, s, code) = IF ForcesReconnect(b, s) THEN CloseMixer(h, s) ELSE h
    BY DEF HandleAnswer, h, g, m
<1> HIDE DEF h
<1>6. CASE ForcesReconnect(b, s)
  <2>1. /\ CloseMixer(h, s) \in BackendStates
        /\ CloseMixer(h, s).slot = [h.slot EXCEPT ![s] = Closed]
        /\ CloseMixer(h, s).users = h.users
        /\ CloseMixer(h, s).wire = [h.wire EXCEPT ![s] = <<>>]
    BY <1>4, CloseMixerFields
  <2>2. [a.wire EXCEPT ![s] = <<>>] = [b.wire EXCEPT ![s] = <<>>]
    BY <1>2 DEF BackendStates
  <2> QED
    BY <1>1, <1>2, <1>3, <1>4, <1>5, <1>6, <2>1, <2>2 DEF g, m
<1>7. CASE ~ForcesReconnect(b, s)
    BY <1>1, <1>2, <1>3, <1>4, <1>5, <1>7 DEF g, m
<1> QED
    BY <1>6, <1>7

-----------------------------------------------------------------------------
(* Every action preserves the inductive invariant.                         *)

(* Facts about sequences in the form the steps below need.                 *)
LEMMA QueueFacts ==
    ASSUME NEW q \in Seq(Messages)
    PROVE  /\ Len(q) \in Nat
           /\ \A m \in Messages : /\ Len(Append(q, m)) = Len(q) + 1
                                  /\ \A i \in 1..Len(q) : Append(q, m)[i] = q[i]
                                  /\ Append(q, m)[Len(q) + 1] = m
           /\ q # <<>> => /\ Len(q) >= 1
                          /\ Head(q) = q[1]
                          /\ Len(Tail(q)) = Len(q) - 1
                          /\ \A i \in 1..Len(Tail(q)) : Tail(q)[i] = q[i + 1]
           /\ \A i \in 1..Len(q) : q[i] \in Messages
<1>1. Len(q) \in Nat /\ \A i \in 1..Len(q) : q[i] \in Messages
    OBVIOUS
<1>2. \A m \in Messages : /\ Len(Append(q, m)) = Len(q) + 1
                          /\ \A i \in 1..Len(q) : Append(q, m)[i] = q[i]
                          /\ Append(q, m)[Len(q) + 1] = m
    BY AppendProperties
<1>3. q # <<>> => /\ Len(q) >= 1
                  /\ Head(q) = q[1]
                  /\ Len(Tail(q)) = Len(q) - 1
                  /\ \A i \in 1..Len(Tail(q)) : Tail(q)[i] = q[i + 1]
    BY HeadTailProperties
<1> QED
    BY <1>1, <1>2, <1>3

(* A connecting mixer takes a closed slot: nobody's state changes.         *)
LEMMA ConnectStep ==
    ASSUME IndInv, NEW s \in Sockets, MixerConnect(s)
    PROVE  IndInv'
<1>1. /\ be' \in BackendStates
      /\ be'.slot = [be.slot EXCEPT ![s] = Free]
      /\ be'.users = be.users
      /\ be'.wire = [be.wire EXCEPT ![s] = <<>>]
      /\ be.slot \in [Sockets -> Users \cup {Closed, Free}]
      /\ be.users \in [Users -> Sockets \cup {NoSlot}]
      /\ be.wire \in [Sockets -> Seq(Messages)]
    BY RegisterFields DEF MixerConnect, IndInv, TypeOK, BackendStates
<1>2. TypeOK'
    BY <1>1 DEF MixerConnect, IndInv, TypeOK
<1>3. be.slot[s] = Closed /\ own' = own
    BY DEF MixerConnect
<1>4. \A t \in Sockets, u \in Users : be'.slot[t] = u <=> be.slot[t] = u
    BY <1>1, <1>3, SlotStatesAssumption
<1>5. SlotsIndexed' /\ NoMixerLeak'
  <2>1. ASSUME NEW t \in Sockets, NEW u \in Users, be'.slot[t] = u
        PROVE  be'.users[u] = t
    <3>1. be.slot[t] = u
        BY <1>4, <2>1
    <3> QED
        BY <1>1, <3>1 DEF IndInv, SlotsIndexed
  <2>2. NoMixerLeak'
    BY <1>3, <1>4, ZenonT(60) DEF IndInv, NoMixerLeak
  <2> QED
    BY <2>1, <2>2 DEF SlotsIndexed
<1>6. HeldHasMixer' /\ AskedConsistent' /\ NewUnknown'
    BY <1>1, <1>3, <1>4 DEF IndInv, HeldHasMixer, AskedConsistent, NewUnknown
<1>7. WireConsistent' /\ AcquireOnce'
  <2>1. \A t \in Sockets : be'.wire[t] = be.wire[t] \/ Len(be'.wire[t]) = 0
    BY <1>1
  <2>2. \A t \in Sockets : be.wire[t] \in Seq(Messages)
    BY <1>1
  <2>3. \A t \in Sockets : \A i \in 1..Len(be.wire[t]) : be.wire[t][i].user \in Users
    BY <2>2, QueueFacts DEF Messages
  <2> QED
    BY <1>1, <1>3, <1>4, <2>1, <2>3
    DEF IndInv, WireConsistent, AcquireOnce, AcquireQueued, ReleaseQueued
<1> QED
    BY <1>2, <1>5, <1>6, <1>7 DEF IndInv

(* An expiring callback changes no field the invariant mentions.           *)
LEMMA ExpireStep ==
    ASSUME IndInv, NEW r \in Reqs, ExpireCallback(r)
    PROVE  IndInv'
<1>1. /\ be' \in BackendStates
      /\ be'.slot = be.slot /\ be'.users = be.users /\ be'.wire = be.wire
    BY DEF ExpireCallback, UnregisterCallback, IndInv, TypeOK, BackendStates
<1>2. TypeOK'
    BY <1>1 DEF ExpireCallback, IndInv, TypeOK
<1>3. own' = own
    BY DEF ExpireCallback
<1> QED
    BY <1>1, <1>2, <1>3 DEF IndInv, SlotsIndexed, NoMixerLeak, HeldHasMixer, AskedConsistent,
       NewUnknown, WireConsistent, AcquireOnce, AcquireQueued, ReleaseQueued

(* A lost mixer ends the session in its slot and drops its queue; a queued *)
(* acquire of that session can only have been in that queue.               *)
LEMMA CloseStep ==
    ASSUME IndInv, NEW s \in Sockets, MixerClose(s)
    PROVE  IndInv'
<1>1. /\ be' \in BackendStates
      /\ be'.slot = [be.slot EXCEPT ![s] = Closed]
      /\ be'.users = be.users
      /\ be'.wire = [be.wire EXCEPT ![s] = <<>>]
      /\ be.slot \in [Sockets -> Users \cup {Closed, Free}]
      /\ be.users \in [Users -> Sockets \cup {NoSlot}]
      /\ be.wire \in [Sockets -> Seq(Messages)]
    BY CloseMixerFields DEF MixerClose, IndInv, TypeOK, BackendStates
<1>2. own' = [u \in Users |-> IF be.slot[s] = u THEN "gone" ELSE own[u]]
    BY DEF MixerClose, Lost, LostUser
<1>3. TypeOK'
  <2>1. own' \in [Users -> {"new", "asked", "held", "gone"}]
    BY <1>2 DEF IndInv, TypeOK
  <2>2. crashed' \in 0..Crashes
    BY BoundsAssumption DEF MixerClose, IndInv, TypeOK
  <2> QED
    BY <1>1, <2>1, <2>2 DEF MixerClose, IndInv, TypeOK
<1>4. \A t \in Sockets, u \in Users : be'.slot[t] = u <=> (t # s /\ be.slot[t] = u)
    BY <1>1, SlotStatesAssumption
<1>5. SlotsIndexed' /\ NoMixerLeak'
  <2>1. ASSUME NEW t \in Sockets, NEW u \in Users, be'.slot[t] = u
        PROVE  be'.users[u] = t
    <3>1. be.slot[t] = u
        BY <1>4, <2>1
    <3> QED
        BY <1>1, <3>1 DEF IndInv, SlotsIndexed
  <2>2. ASSUME NEW t \in Sockets, NEW u \in Users, be'.slot[t] = u
        PROVE  own'[u] \in {"asked", "held"}
    <3>1. t # s /\ be.slot[t] = u
        BY <1>4, <2>2
    <3>2. be.slot[s] # u
        BY <3>1 DEF IndInv, SlotsIndexed
    <3> QED
        BY <1>2, <3>1, <3>2 DEF IndInv, NoMixerLeak
  <2> QED
    BY <2>1, <2>2 DEF SlotsIndexed, NoMixerLeak
<1>6. HeldHasMixer' /\ AskedConsistent' /\ NewUnknown'
    BY <1>1, <1>2, <1>4 DEF IndInv, HeldHasMixer, AskedConsistent, NewUnknown
<1>7. WireConsistent' /\ AcquireOnce'
  <2>1. \A t \in Sockets : (t # s /\ be'.wire[t] = be.wire[t]) \/ Len(be'.wire[t]) = 0
    BY <1>1
  <2>2. \A t \in Sockets : be.wire[t] \in Seq(Messages)
    BY <1>1
  <2>3. \A t \in Sockets : \A i \in 1..Len(be.wire[t]) : be.wire[t][i].user \in Users
    BY <2>2, QueueFacts DEF Messages
  <2>4. ASSUME NEW t \in Sockets, NEW u \in Users, t # s, AcquireQueued(be, own, t, u)
        PROVE  AcquireQueued(be', own', t, u)
    <3>1. CASE own[u] = "asked" /\ be.slot[t] = u
      <4>1. be.slot[s] # u
        BY <2>4, <3>1 DEF IndInv, SlotsIndexed
      <4> QED
        BY <1>2, <1>4, <2>4, <3>1, <4>1 DEF AcquireQueued
    <3>2. CASE own[u] = "gone" /\ be.users[u] = NoSlot
        BY <1>1, <1>2, <3>2 DEF AcquireQueued
    <3> QED
        BY <2>4, <3>1, <3>2 DEF AcquireQueued
  <2>5. \A u \in Users : ReleaseQueued(be, own, u) => ReleaseQueued(be', own', u)
    BY <1>1, <1>2 DEF ReleaseQueued
  <2>6. WireConsistent'
    BY <2>1, <2>3, <2>4, <2>5 DEF IndInv, WireConsistent
  <2>7. AcquireOnce'
    BY <2>1 DEF IndInv, AcquireOnce
  <2> QED
    BY <2>6, <2>7
<1> QED
    BY <1>3, <1>5, <1>6, <1>7 DEF IndInv

(* The types the steps below use.                                          *)
LEMMA Typing ==
    ASSUME IndInv
    PROVE  /\ be \in BackendStates
           /\ be.slot \in [Sockets -> Users \cup {Closed, Free}]
           /\ be.users \in [Users -> Sockets \cup {NoSlot}]
           /\ be.wire \in [Sockets -> Seq(Messages)]
           /\ own \in [Users -> {"new", "asked", "held", "gone"}]
           /\ NoSlot \notin Sockets
           /\ \A t \in Sockets : \A i \in 1..Len(be.wire[t]) :
                 be.wire[t][i] \in Messages /\ be.wire[t][i].user \in Users
<1>1. /\ be \in BackendStates
      /\ be.slot \in [Sockets -> Users \cup {Closed, Free}]
      /\ be.users \in [Users -> Sockets \cup {NoSlot}]
      /\ be.wire \in [Sockets -> Seq(Messages)]
      /\ own \in [Users -> {"new", "asked", "held", "gone"}]
    BY DEF IndInv, TypeOK, BackendStates
<1>2. NoSlot \notin Sockets
    BY SocketsAssumption DEF NoSlot
<1>3. ASSUME NEW t \in Sockets, NEW i \in 1..Len(be.wire[t])
      PROVE  be.wire[t][i] \in Messages /\ be.wire[t][i].user \in Users
  <2>1. be.wire[t] \in Seq(Messages)
    BY <1>1
  <2>2. be.wire[t][i] \in Messages
    BY <2>1, <1>3, QueueFacts
  <2> QED
    BY <2>2 DEF Messages
<1> QED
    BY <1>1, <1>2, <1>3

(* An acquisition takes a free slot for a session nobody knows yet, so     *)
(* nothing queued and no slot mentions that session.                       *)
LEMMA AcquireStep ==
    ASSUME IndInv, NEW u \in Users, NEW r \in Reqs, Acquire(u, r)
    PROVE  IndInv'
<1> DEFINE f == FirstFree(be)
           m == Message("acquire", r, u, None)
<1>0. own[u] = "new" /\ be.users[u] = NoSlot
    BY DEF Acquire, IndInv, NewUnknown
<1>1. CASE ~MixerAvailable(be)
  <2>1. be' = be /\ own' = [own EXCEPT ![u] = "gone"]
    BY <1>1 DEF Acquire, AcquireMixer
  <2>2. TypeOK'
    BY <2>1 DEF Acquire, IndInv, TypeOK
  <2>3. SlotsIndexed' /\ NoMixerLeak'
    BY <1>0, <2>1, Typing DEF IndInv, SlotsIndexed, NoMixerLeak
  <2>4. HeldHasMixer' /\ AskedConsistent' /\ NewUnknown'
    BY <2>1, Typing DEF IndInv, HeldHasMixer, AskedConsistent, NewUnknown
  <2>5. WireConsistent' /\ AcquireOnce'
    BY <1>0, <2>1, Typing
    DEF IndInv, WireConsistent, AcquireOnce, AcquireQueued, ReleaseQueued
  <2> QED
    BY <2>2, <2>3, <2>4, <2>5 DEF IndInv
<1>2. CASE MixerAvailable(be)
  <2>1. f \in Sockets /\ be.slot[f] = Free
    BY <1>2, FirstFreeIsFree DEF MixerAvailable
  <2>2. m \in Messages /\ m.op = "acquire" /\ m.user = u
    BY DEF Message, Messages, BackendOps
  <2> HIDE DEF f, m
  <2>3. /\ be' \in BackendStates
        /\ be'.slot = [be.slot EXCEPT ![f] = u]
        /\ be'.users = [be.users EXCEPT ![u] = f]
        /\ be'.wire = [be.wire EXCEPT ![f] = Append(be.wire[f], m)]
    <3>1. be' = SendMixer(RegisterCallback(AcquireUser(be, u), r), f, m)
        BY <1>2 DEF Acquire, AcquireMixer, f, m
    <3>2. /\ AcquireUser(be, u) \in BackendStates
          /\ AcquireUser(be, u).slot = [be.slot EXCEPT ![f] = u]
          /\ AcquireUser(be, u).users = [be.users EXCEPT ![u] = f]
          /\ AcquireUser(be, u).wire = be.wire
        BY <1>2, Typing, AcquireUserFields DEF MixerAvailable, f
    <3> QED
        BY <2>1, <2>2, <3>1, <3>2, SendFields
  <2>4. own' = [own EXCEPT ![u] = "asked"]
    BY <1>2 DEF Acquire
  <2>5. TypeOK'
    BY <2>3, <2>4 DEF Acquire, IndInv, TypeOK
  <2>6. ASSUME NEW t \in Sockets, NEW v \in Users
        PROVE  be'.slot[t] = v <=> IF v = u THEN t = f ELSE be.slot[t] = v
    <3>1. be.slot[t] # u
        BY <1>0 DEF IndInv, NoMixerLeak
    <3> QED
        BY <2>1, <2>3, <3>1, Typing, SlotStatesAssumption
  <2>7. ASSUME NEW v \in Users
        PROVE  /\ be'.users[v] = IF v = u THEN f ELSE be.users[v]
               /\ own'[v] = IF v = u THEN "asked" ELSE own[v]
    BY <2>3, <2>4, Typing
  <2>8. SlotsIndexed' /\ NoMixerLeak'
    BY <2>6, <2>7 DEF IndInv, SlotsIndexed, NoMixerLeak
  <2>9. HeldHasMixer' /\ AskedConsistent' /\ NewUnknown'
    <3>1. ASSUME NEW v \in Users, v # u, be.users[v] # NoSlot
          PROVE  be'.slot[be.users[v]] = v <=> be.slot[be.users[v]] = v
        BY <2>6, <3>1, Typing
    <3>2. be'.slot[f] = u /\ f # NoSlot
        BY <2>1, <2>6, Typing
    <3> QED
        BY <2>7, <3>1, <3>2 DEF IndInv, HeldHasMixer, AskedConsistent, NewUnknown
  <2>10. ASSUME NEW t \in Sockets, NEW i \in 1..Len(be'.wire[t])
         PROVE  \/ /\ i \in 1..Len(be.wire[t]) /\ be'.wire[t][i] = be.wire[t][i]
                   /\ be.wire[t][i].op \in {"acquire", "release"} => be.wire[t][i].user # u
                \/ t = f /\ i = Len(be.wire[f]) + 1 /\ be'.wire[t][i] = m
    <3>1. ASSUME NEW j \in 1..Len(be.wire[t]), be.wire[t][j].op \in {"acquire", "release"}
          PROVE  be.wire[t][j].user # u
        BY <1>0, <3>1 DEF IndInv, WireConsistent, AcquireQueued, ReleaseQueued
    <3>2. be.wire[t] \in Seq(Messages)
        BY Typing
    <3>3. CASE t = f
      <4>1. be'.wire[t] = Append(be.wire[t], m)
        BY <2>1, <2>3, <3>3, Typing
      <4> QED
        BY <2>2, <2>10, <3>1, <3>2, <3>3, <4>1, QueueFacts
    <3>4. CASE t # f
      <4>1. be'.wire[t] = be.wire[t]
        BY <2>1, <2>3, <3>4, Typing
      <4> QED
        BY <2>10, <3>1, <4>1
    <3> QED
        BY <3>3, <3>4
  <2>11. WireConsistent'
    <3>1. ASSUME NEW t \in Sockets, NEW v \in Users, v # u
          PROVE  /\ AcquireQueued(be, own, t, v) => AcquireQueued(be', own', t, v)
                 /\ ReleaseQueued(be, own, v) => ReleaseQueued(be', own', v)
        BY <2>6, <2>7, <3>1 DEF AcquireQueued, ReleaseQueued
    <3>2. AcquireQueued(be', own', f, u)
        BY <2>1, <2>6, <2>7 DEF AcquireQueued
    <3> SUFFICES ASSUME NEW t \in Sockets, NEW i \in 1..Len(be'.wire[t])
                 PROVE  /\ be'.wire[t][i].op = "acquire" => AcquireQueued(be', own', t, be'.wire[t][i].user)
                        /\ be'.wire[t][i].op = "release" => ReleaseQueued(be', own', be'.wire[t][i].user)
        BY DEF WireConsistent
    <3>3. CASE t = f /\ i = Len(be.wire[f]) + 1 /\ be'.wire[t][i] = m
        BY <2>2, <3>2, <3>3
    <3>4. CASE /\ i \in 1..Len(be.wire[t]) /\ be'.wire[t][i] = be.wire[t][i]
               /\ be.wire[t][i].op \in {"acquire", "release"} => be.wire[t][i].user # u
        BY <3>1, <3>4, Typing DEF IndInv, WireConsistent
    <3> QED
        BY <2>10, <3>3, <3>4
  <2>12. AcquireOnce'
    <3> SUFFICES ASSUME NEW t \in Sockets,
                        NEW i \in 1..Len(be'.wire[t]), NEW j \in 1..Len(be'.wire[t]),
                        be'.wire[t][i].op = "acquire", be'.wire[t][j].op = "acquire",
                        be'.wire[t][i].user = be'.wire[t][j].user
                 PROVE  i = j
        BY DEF AcquireOnce
    <3>1. CASE i \in 1..Len(be.wire[t]) /\ j \in 1..Len(be.wire[t])
      <4>1. be.wire[t] \in Seq(Messages)
        BY Typing
      <4>2. Len(be.wire[t]) \in Nat
        BY <4>1
      <4>3. be'.wire[t][i] = be.wire[t][i] /\ be'.wire[t][j] = be.wire[t][j]
        BY <2>10, <3>1, <4>2
      <4> QED
        BY <3>1, <4>3 DEF IndInv, AcquireOnce
    <3>2. CASE i \notin 1..Len(be.wire[t])
        BY <2>2, <2>10, <3>2
    <3>3. CASE j \notin 1..Len(be.wire[t])
        BY <2>2, <2>10, <3>3
    <3> QED
        BY <3>1, <3>2, <3>3
  <2> QED
    BY <2>5, <2>8, <2>9, <2>11, <2>12 DEF IndInv
<1> QED
    BY <1>1, <1>2

(* A position of a queue after one message was appended.                   *)
LEMMA AppendedQueue ==
    ASSUME NEW w \in [Sockets -> Seq(Messages)], NEW f \in Sockets, NEW m \in Messages,
           NEW x, x = [w EXCEPT ![f] = Append(w[f], m)],
           NEW t \in Sockets, NEW i \in 1..Len(x[t])
    PROVE  \/ i \in 1..Len(w[t]) /\ x[t][i] = w[t][i]
           \/ t = f /\ i = Len(w[f]) + 1 /\ x[t][i] = m
<1>1. w[t] \in Seq(Messages)
    OBVIOUS
<1>2. CASE t = f
  <2>1. x[t] = Append(w[t], m)
    BY <1>2
  <2> QED
    BY <1>1, <1>2, <2>1, QueueFacts
<1>3. CASE t # f
  <2>1. x[t] = w[t]
    BY <1>3
  <2> QED
    BY <2>1
<1> QED
    BY <1>2, <1>3

(* A position of a queue after its head was taken.                         *)
LEMMA ShortenedQueue ==
    ASSUME NEW w \in [Sockets -> Seq(Messages)], NEW f \in Sockets, w[f] # <<>>,
           NEW x, x = [w EXCEPT ![f] = Tail(w[f])],
           NEW t \in Sockets, NEW i \in 1..Len(x[t])
    PROVE  \E j \in 1..Len(w[t]) : x[t][i] = w[t][j] /\ j = IF t = f THEN i + 1 ELSE i
<1>1. w[t] \in Seq(Messages)
    OBVIOUS
<1>2. CASE t = f
  <2>1. x[t] = Tail(w[t])
    BY <1>2
  <2> QED
    BY <1>1, <1>2, <2>1, QueueFacts
<1>3. CASE t # f
  <2>1. x[t] = w[t]
    BY <1>3
  <2> QED
    BY <1>3, <2>1
<1> QED
    BY <1>2, <1>3

(* Appending anything but an acquire queues no session twice.              *)
LEMMA AppendKeepsOnce ==
    ASSUME IndInv, NEW f \in Sockets, NEW m \in Messages, m.op # "acquire",
           be'.wire = [be.wire EXCEPT ![f] = Append(be.wire[f], m)]
    PROVE  AcquireOnce'
<1> SUFFICES ASSUME NEW t \in Sockets,
                    NEW i \in 1..Len(be'.wire[t]), NEW j \in 1..Len(be'.wire[t]),
                    be'.wire[t][i].op = "acquire", be'.wire[t][j].op = "acquire",
                    be'.wire[t][i].user = be'.wire[t][j].user
             PROVE  i = j
    BY DEF AcquireOnce
<1>1. i \in 1..Len(be.wire[t]) /\ be'.wire[t][i] = be.wire[t][i]
    BY AppendedQueue, Typing
<1>2. j \in 1..Len(be.wire[t]) /\ be'.wire[t][j] = be.wire[t][j]
    BY AppendedQueue, Typing
<1> QED
    BY <1>1, <1>2 DEF IndInv, AcquireOnce

(* A release frees the slot of its session and only that; it is queued     *)
(* behind everything the session has sent.                                 *)
LEMMA ReleaseStep ==
    ASSUME IndInv, NEW u \in Users, NEW r \in Reqs, Release(u, r)
    PROVE  IndInv'
<1> DEFINE g == be.users[u]
           m == Message("release", r, u, None)
<1>0. own[u] \in {"asked", "held"} /\ (g = NoSlot \/ be.slot[g] = u)
    BY DEF Release, IndInv, HeldHasMixer, AskedConsistent
<1>1. m \in Messages /\ m.op = "release" /\ m.user = u
    BY DEF Message, Messages, BackendOps
<1> HIDE DEF m, g
<1>2. /\ be' \in BackendStates
      /\ be'.slot = [s \in Sockets |-> IF s = g /\ be.slot[s] # Closed THEN Free ELSE be.slot[s]]
      /\ be'.users = [be.users EXCEPT ![u] = NoSlot]
      /\ \/ be'.wire = be.wire
         \/ g \in Sockets /\ be'.wire = [be.wire EXCEPT ![g] = Append(be.wire[g], m)]
  <2>1. CASE ~HasMixer(be, u)
    <3>1. be' = ReleaseUser(be, u)
        BY <2>1 DEF Release, ReleaseMixer
    <3> QED
        BY <3>1, Typing, ReleaseUserFields DEF g
  <2>2. CASE HasMixer(be, u)
    <3>1. GetUser(be, u) = g /\ g \in Sockets
        BY <2>2, Typing, GetUserType DEF g
    <3> DEFINE c == SendMixer(RegisterCallback(be, r), g, m)
    <3>2. be' = ReleaseUser(c, u)
        BY <2>2, <3>1 DEF Release, ReleaseMixer, m
    <3>3. /\ c \in BackendStates /\ c.slot = be.slot /\ c.users = be.users
          /\ c.wire = [be.wire EXCEPT ![g] = Append(be.wire[g], m)]
        BY <1>1, <3>1, Typing, SendFields
    <3> HIDE DEF c
    <3>4. /\ be' \in BackendStates
          /\ be'.slot = [s \in Sockets |-> IF s = c.users[u] /\ c.slot[s] # Closed
                                          THEN Free ELSE c.slot[s]]
          /\ be'.users = [c.users EXCEPT ![u] = NoSlot]
          /\ be'.wire = c.wire
        BY <3>2, <3>3, ReleaseUserFields
    <3> QED
        BY <3>1, <3>3, <3>4 DEF g
  <2> QED
    BY <2>1, <2>2
<1>3. own' = [own EXCEPT ![u] = "gone"]
    BY DEF Release
<1>4. TypeOK'
    BY <1>2, <1>3 DEF Release, IndInv, TypeOK
<1>5. ASSUME NEW t \in Sockets, NEW v \in Users
      PROVE  be'.slot[t] = v <=> v # u /\ be.slot[t] = v
  <2>1. be.slot[t] = u => t = g
    BY DEF IndInv, SlotsIndexed, g
  <2> QED
    BY <1>0, <1>2, <2>1, Typing, SlotStatesAssumption
<1>6. ASSUME NEW v \in Users
      PROVE  /\ be'.users[v] = IF v = u THEN NoSlot ELSE be.users[v]
             /\ own'[v] = IF v = u THEN "gone" ELSE own[v]
    BY <1>2, <1>3, Typing
<1>7. SlotsIndexed' /\ NoMixerLeak'
    BY <1>5, <1>6 DEF IndInv, SlotsIndexed, NoMixerLeak
<1>8. HeldHasMixer' /\ AskedConsistent' /\ NewUnknown'
  <2>1. ASSUME NEW v \in Users, v # u, be.users[v] # NoSlot
        PROVE  be'.slot[be.users[v]] = v <=> be.slot[be.users[v]] = v
    BY <1>5, <2>1, Typing
  <2> QED
    BY <1>6, <2>1 DEF IndInv, HeldHasMixer, AskedConsistent, NewUnknown
<1>9. ASSUME NEW t \in Sockets, NEW v \in Users
      PROVE  /\ AcquireQueued(be, own, t, v) => AcquireQueued(be', own', t, v)
             /\ ReleaseQueued(be, own, v) => ReleaseQueued(be', own', v)
             /\ ReleaseQueued(be', own', u)
    BY <1>5, <1>6 DEF AcquireQueued, ReleaseQueued
<1>10. WireConsistent'
  <2> SUFFICES ASSUME NEW t \in Sockets, NEW i \in 1..Len(be'.wire[t])
               PROVE  /\ be'.wire[t][i].op = "acquire" => AcquireQueued(be', own', t, be'.wire[t][i].user)
                      /\ be'.wire[t][i].op = "release" => ReleaseQueued(be', own', be'.wire[t][i].user)
    BY DEF WireConsistent
  <2>1. \/ i \in 1..Len(be.wire[t]) /\ be'.wire[t][i] = be.wire[t][i]
        \/ be'.wire[t][i] = m
    <3>1. CASE be'.wire = be.wire
        BY <3>1
    <3>2. CASE g \in Sockets /\ be'.wire = [be.wire EXCEPT ![g] = Append(be.wire[g], m)]
        BY <1>1, <3>2, AppendedQueue, Typing
    <3> QED
        BY <1>2, <3>1, <3>2
  <2> QED
    BY <1>1, <1>9, <2>1, Typing DEF IndInv, WireConsistent
<1>11. AcquireOnce'
    BY <1>1, <1>2, AppendKeepsOnce, SMTT(60) DEF IndInv, AcquireOnce
<1> QED
    BY <1>4, <1>7, <1>8, <1>10, <1>11 DEF IndInv

(* A loop request changes no slot and queues neither acquire nor release.  *)
LEMMA RequestStep ==
    ASSUME IndInv, NEW op \in Ops, NEW u \in Users, NEW r \in Reqs, NEW l \in Loops,
           Request(op, u, r, l)
    PROVE  IndInv'
<1> DEFINE g == be.users[u]
           m == IF op = "forward" THEN Message("forward", r, u, None) ELSE Message(op, r, u, l)
<1>1. m \in Messages /\ m.op \notin {"acquire", "release"}
    BY OpsAssumption DEF Message, Messages, BackendOps
<1> HIDE DEF m, g
<1>2. /\ be' \in BackendStates
      /\ be'.slot = be.slot /\ be'.users = be.users
      /\ \/ be'.wire = be.wire
         \/ g \in Sockets /\ be'.wire = [be.wire EXCEPT ![g] = Append(be.wire[g], m)]
  <2>1. CASE ~HasMixer(be, u)
    <3>1. be' = be \/ be' = RegisterCallback(be, r)
        BY <2>1 DEF Request, SetMixerForward, LoopRequest
    <3> QED
        BY <3>1, Typing, SMTT(60) DEF RegisterCallback, BackendStates
  <2>2. CASE HasMixer(be, u)
    <3>1. GetUser(be, u) = g /\ g \in Sockets
        BY <2>2, Typing, GetUserType DEF g
    <3>2. be' = SendMixer(RegisterCallback(be, r), g, m)
        BY <2>2, <3>1 DEF Request, SetMixerForward, LoopRequest, m
    <3> QED
        BY <1>1, <3>1, <3>2, Typing, SendFields
  <2> QED
    BY <2>1, <2>2
<1>3. own' = own
    BY DEF Request
<1>4. TypeOK'
  <2>1. joins' \subseteq Users \X Loops
    BY DEF Request, IndInv, TypeOK
  <2> QED
    BY <1>2, <2>1 DEF Request, IndInv, TypeOK
<1>5. SlotsIndexed' /\ NoMixerLeak' /\ HeldHasMixer' /\ AskedConsistent' /\ NewUnknown'
    BY <1>2, <1>3 DEF IndInv, SlotsIndexed, NoMixerLeak, HeldHasMixer, AskedConsistent, NewUnknown
<1>6. WireConsistent'
  <2> SUFFICES ASSUME NEW t \in Sockets, NEW i \in 1..Len(be'.wire[t])
               PROVE  /\ be'.wire[t][i].op = "acquire" => AcquireQueued(be', own', t, be'.wire[t][i].user)
                      /\ be'.wire[t][i].op = "release" => ReleaseQueued(be', own', be'.wire[t][i].user)
    BY DEF WireConsistent
  <2>1. \/ i \in 1..Len(be.wire[t]) /\ be'.wire[t][i] = be.wire[t][i]
        \/ be'.wire[t][i] = m
    <3>1. CASE be'.wire = be.wire
        BY <3>1
    <3>2. CASE g \in Sockets /\ be'.wire = [be.wire EXCEPT ![g] = Append(be.wire[g], m)]
        BY <1>1, <3>2, AppendedQueue, Typing
    <3> QED
        BY <1>2, <3>1, <3>2
  <2> QED
    BY <1>1, <1>2, <1>3, <2>1 DEF IndInv, WireConsistent, AcquireQueued, ReleaseQueued
<1>7. AcquireOnce'
    BY <1>1, <1>2, AppendKeepsOnce DEF IndInv, AcquireOnce
<1> QED
    BY <1>4, <1>5, <1>6, <1>7 DEF IndInv

(* Taking the head of a queue queues no session twice.                     *)
LEMMA ShortenKeepsOnce ==
    ASSUME IndInv, NEW f \in Sockets, be.wire[f] # <<>>,
           be'.wire = [be.wire EXCEPT ![f] = Tail(be.wire[f])]
    PROVE  AcquireOnce'
<1> SUFFICES ASSUME NEW t \in Sockets,
                    NEW i \in 1..Len(be'.wire[t]), NEW j \in 1..Len(be'.wire[t]),
                    be'.wire[t][i].op = "acquire", be'.wire[t][j].op = "acquire",
                    be'.wire[t][i].user = be'.wire[t][j].user
             PROVE  i = j
    BY DEF AcquireOnce
<1>0. be.wire \in [Sockets -> Seq(Messages)]
    BY Typing
<1>1. PICK k \in 1..Len(be.wire[t]) : be'.wire[t][i] = be.wire[t][k] /\ k = IF t = f THEN i + 1 ELSE i
    BY <1>0, ShortenedQueue
<1>2. PICK n \in 1..Len(be.wire[t]) : be'.wire[t][j] = be.wire[t][n] /\ n = IF t = f THEN j + 1 ELSE j
    BY <1>0, ShortenedQueue
<1>3. k = n
    BY <1>1, <1>2 DEF IndInv, AcquireOnce
<1>4. i \in Int /\ j \in Int
    OBVIOUS
<1> QED
    BY <1>1, <1>2, <1>3, <1>4

(* Whatever a mixer answers, late or not: the slot the answer frees is the *)
(* slot of the session that sent the request, and only the session in the  *)
(* answering mixer's slot is declared lost.                                *)
LEMMA AnswerStep ==
    ASSUME IndInv, NEW s \in Sockets, NEW code \in {"ok", "error"}, Answer(s, code)
    PROVE  IndInv'
<1> DEFINE m == Head(be.wire[s])
           u == m.user
           rel == AnswerReleases(m, code)
           fr == ForcesReconnect(be, s)
           sa == SlotAfter(be, s, code)
<1>1. be.wire[s] # <<>> /\ be.wire[s] \in Seq(Messages)
    BY Typing DEF Answer
<1>2. m \in Messages /\ u \in Users /\ m = be.wire[s][1] /\ 1 \in 1..Len(be.wire[s])
  <2>1. m \in Messages /\ m = be.wire[s][1] /\ 1 \in 1..Len(be.wire[s])
    BY <1>1, QueueFacts
  <2> QED
    BY <2>1 DEF Messages
<1>3. /\ be' \in BackendStates
      /\ AnswerRegistry(be, s, code).slot = sa
      /\ be'.slot = IF fr THEN [sa EXCEPT ![s] = Closed] ELSE sa
      /\ be'.users = IF rel THEN [be.users EXCEPT ![u] = NoSlot] ELSE be.users
      /\ be'.wire = [be.wire EXCEPT ![s] = IF fr THEN <<>> ELSE Tail(be.wire[s])]
  <2>1. be' = HandleAnswer(be, s, code)
    BY DEF Answer
  <2>2. be \in BackendStates
    BY Typing
  <2> QED
    BY <1>1, <2>1, <2>2, HandleAnswerFields, ZenonT(60)
<1>4. /\ m.op = "acquire" => AcquireQueued(be, own, s, u)
      /\ m.op = "release" => ReleaseQueued(be, own, u)
    BY <1>2 DEF IndInv, WireConsistent
<1>5. /\ rel <=> (m.op = "acquire" /\ code = "error") \/ (m.op = "release" /\ code = "ok")
      /\ fr => m.op \in {"acquire", "join"}
    BY DEF AnswerReleases, ForcesReconnect
<1>6. own' = IF fr THEN [v \in Users |-> IF sa[s] = v THEN "gone" ELSE own[v]]
             ELSE IF m.op = "acquire" THEN AfterAcquire(u, code) ELSE own
    BY <1>3 DEF Answer, Lost, LostUser
<1>7. sa = IF rel THEN [t \in Sockets |-> IF t = be.users[u] /\ be.slot[t] # Closed
                                          THEN Free ELSE be.slot[t]]
           ELSE be.slot
    BY DEF SlotAfter
<1>8. sa \in [Sockets -> Users \cup {Closed, Free}]
    BY <1>7, Typing
<1>9. ASSUME NEW i \in 1..Len(be.wire[s]), i # 1, be.wire[s][i].op = "acquire", m.op = "acquire"
      PROVE  be.wire[s][i].user # u
    BY <1>2, <1>9 DEF IndInv, AcquireOnce
<1> HIDE DEF m, u, rel, fr, sa
<1>10. ASSUME NEW t \in Sockets, NEW v \in Users
       PROVE  sa[t] = v <=> be.slot[t] = v /\ ~(rel /\ v = u)
  <2>1. CASE rel
    <3>1. be.users[u] = NoSlot \/ (be.slot[s] = u /\ be.users[u] = s)
        BY <1>2, <1>4, <1>5, <2>1 DEF AcquireQueued, ReleaseQueued, IndInv, SlotsIndexed
    <3>2. be.slot[t] = u => be.users[u] = t
        BY <1>2 DEF IndInv, SlotsIndexed
    <3> QED
        BY <1>7, <2>1, <3>1, <3>2, Typing, SlotStatesAssumption
  <2>2. CASE ~rel
    BY <1>7, <2>2
  <2> QED
    BY <2>1, <2>2
<1>11. ASSUME NEW v \in Users
       PROVE  be'.users[v] = IF rel /\ v = u THEN NoSlot ELSE be.users[v]
    BY <1>3, Typing
<1>12. ASSUME NEW v \in Users
       PROVE  own'[v] = IF fr THEN IF sa[s] = v THEN "gone" ELSE own[v]
                        ELSE IF m.op = "acquire" /\ v = u /\ own[u] = "asked"
                             THEN IF code = "ok" THEN "held" ELSE "gone"
                        ELSE own[v]
    BY <1>2, <1>6, Typing DEF AfterAcquire
<1>13. ASSUME NEW t \in Sockets, NEW v \in Users
       PROVE  be'.slot[t] = v <=> sa[t] = v /\ ~(fr /\ t = s)
    BY <1>3, <1>8, SlotStatesAssumption
<1>14. TypeOK'
  <2>1. own' \in [Users -> {"new", "asked", "held", "gone"}]
    BY <1>6, Typing DEF AfterAcquire
  <2>2. told' \in [asker : Users \cup {None}, named : SUBSET Users]
    BY <1>2 DEF Answer, CallbackUser, LostUser, IndInv, TypeOK, m, u
  <2> QED
    BY <1>3, <2>1, <2>2 DEF Answer, IndInv, TypeOK
<1>15. SlotsIndexed'
    BY <1>10, <1>11, <1>13 DEF IndInv, SlotsIndexed
<1>16. NoMixerLeak'
  <2> SUFFICES ASSUME NEW t \in Sockets, NEW v \in Users, be'.slot[t] = v
               PROVE  own'[v] \in {"asked", "held"}
    BY DEF NoMixerLeak
  <2>1. be.slot[t] = v /\ ~(rel /\ v = u) /\ ~(fr /\ t = s)
    BY <1>10, <1>13
  <2>2. own[v] \in {"asked", "held"} /\ be.users[v] = t
    BY <2>1 DEF IndInv, NoMixerLeak, SlotsIndexed
  <2>3. fr => sa[s] # v
    BY <1>10, <2>1, <2>2 DEF IndInv, SlotsIndexed
  <2> QED
    BY <1>5, <1>12, <2>1, <2>2, <2>3
<1>17. ASSUME NEW v \in Users, ~(rel /\ v = u), ~(fr /\ sa[s] = v), be.users[v] # NoSlot,
              be.slot[be.users[v]] = v
       PROVE  be'.users[v] = be.users[v] /\ be'.slot[be.users[v]] = v
    BY <1>10, <1>11, <1>13, <1>17, Typing
<1>18. HeldHasMixer'
  <2> SUFFICES ASSUME NEW v \in Users, own'[v] = "held"
               PROVE  be'.users[v] # NoSlot /\ be'.slot[be'.users[v]] = v
    BY DEF HeldHasMixer
  <2>1. CASE own[v] = "held"
    <3>1. be.users[v] # NoSlot /\ be.slot[be.users[v]] = v
        BY <2>1 DEF IndInv, HeldHasMixer
    <3>2. ~(rel /\ v = u)
        BY <1>4, <1>5, <2>1 DEF AcquireQueued, ReleaseQueued
    <3>3. ~(fr /\ sa[s] = v)
        BY <1>12
    <3> QED
        BY <1>17, <3>1, <3>2, <3>3
  <2>2. CASE own[v] # "held"
    <3>1. ~fr /\ m.op = "acquire" /\ v = u /\ own[u] = "asked" /\ code = "ok"
        BY <1>12, <2>2
    <3>2. be.slot[s] = u /\ be.users[u] = s
        BY <1>2, <1>4, <3>1 DEF AcquireQueued, IndInv, SlotsIndexed
    <3> QED
        BY <1>5, <1>17, <3>1, <3>2, Typing
  <2> QED
    BY <2>1, <2>2
<1>19. AskedConsistent'
  <2> SUFFICES ASSUME NEW v \in Users, own'[v] = "asked"
               PROVE  be'.users[v] = NoSlot \/ be'.slot[be'.users[v]] = v
    BY DEF AskedConsistent
  <2>1. own[v] = "asked" /\ ~(fr /\ sa[s] = v)
    BY <1>12
  <2>2. be.users[v] = NoSlot \/ be.slot[be.users[v]] = v
    BY <2>1 DEF IndInv, AskedConsistent
  <2> QED
    BY <1>11, <1>17, <2>1, <2>2
<1>20. NewUnknown'
  <2> SUFFICES ASSUME NEW v \in Users, own'[v] = "new"
               PROVE  be'.users[v] = NoSlot
    BY DEF NewUnknown
  <2>1. own[v] = "new"
    BY <1>12
  <2> QED
    BY <1>11, <2>1 DEF IndInv, NewUnknown
<1>21. WireConsistent'
  <2> SUFFICES ASSUME NEW t \in Sockets, NEW i \in 1..Len(be'.wire[t])
               PROVE  /\ be'.wire[t][i].op = "acquire" => AcquireQueued(be', own', t, be'.wire[t][i].user)
                      /\ be'.wire[t][i].op = "release" => ReleaseQueued(be', own', be'.wire[t][i].user)
    BY DEF WireConsistent
  <2>1. PICK j \in 1..Len(be.wire[t]) : /\ be'.wire[t][i] = be.wire[t][j]
                                        /\ t = s => j = i + 1 /\ ~fr
    <3>1. CASE fr
      <4>1. be'.wire = [be.wire EXCEPT ![s] = <<>>]
        BY <1>3, <3>1
      <4>2. t # s
        BY <4>1, Typing
      <4> QED
        BY <4>1, <4>2, Typing
    <3>2. CASE ~fr
      <4>1. be'.wire = [be.wire EXCEPT ![s] = Tail(be.wire[s])]
        BY <1>3, <3>2
      <4>2. be.wire \in [Sockets -> Seq(Messages)]
        BY Typing
      <4>3. PICK j \in 1..Len(be.wire[t]) :
                be'.wire[t][i] = be.wire[t][j] /\ j = IF t = s THEN i + 1 ELSE i
        BY <1>1, <4>1, <4>2, ShortenedQueue
      <4> QED
        BY <3>2, <4>3
    <3> QED
        BY <3>1, <3>2
  <2> DEFINE n == be.wire[t][j]
             v == n.user
  <2>2. v \in Users /\ be'.wire[t][i] = n
    BY <2>1, Typing
  <2>3. ReleaseQueued(be, own, v) => ReleaseQueued(be', own', v)
    BY <1>11, <1>12, <2>2 DEF ReleaseQueued
  <2>4. ASSUME n.op = "acquire", own[v] = "asked", be.slot[t] = v
        PROVE  AcquireQueued(be', own', t, v)
    <3>1. be.users[v] = t
        BY <2>2, <2>4 DEF IndInv, SlotsIndexed
    <3>2. ~(m.op = "acquire" /\ v = u)
      <4>1. SUFFICES ASSUME m.op = "acquire", v = u PROVE FALSE
        OBVIOUS
      <4>2. be.slot[s] = u
        BY <1>4, <2>4, <4>1 DEF AcquireQueued
      <4>3. t = s
        BY <1>2, <3>1, <4>1, <4>2 DEF IndInv, SlotsIndexed
      <4> QED
        BY <1>9, <2>1, <2>4, <4>1, <4>3
    <3>3. ~(rel /\ v = u)
        BY <1>4, <1>5, <2>4, <3>2 DEF ReleaseQueued
    <3>4. fr => t # s /\ sa[s] # v
        BY <1>10, <2>1, <2>2, <3>1 DEF IndInv, SlotsIndexed
    <3>5. be'.slot[t] = v
        BY <1>10, <1>13, <2>2, <2>4, <3>3, <3>4
    <3>6. own'[v] = "asked"
        BY <1>12, <2>2, <2>4, <3>2, <3>4
    <3> QED
        BY <3>5, <3>6 DEF AcquireQueued
  <2>5. ASSUME own[v] = "gone", be.users[v] = NoSlot
        PROVE  own'[v] = "gone" /\ be'.users[v] = NoSlot
    BY <1>11, <1>12, <2>2, <2>5
  <2>6. /\ n.op = "acquire" => AcquireQueued(be, own, t, v)
        /\ n.op = "release" => ReleaseQueued(be, own, v)
    BY <2>1 DEF IndInv, WireConsistent
  <2>7. n.op = "acquire" => AcquireQueued(be', own', t, v)
    BY <2>4, <2>5, <2>6 DEF AcquireQueued
  <2> QED
    BY <2>2, <2>3, <2>6, <2>7
<1>22. AcquireOnce'
  <2>1. CASE fr
    <3>1. be'.wire = [be.wire EXCEPT ![s] = <<>>]
        BY <1>3, <2>1
    <3>2. \A t \in Sockets : be'.wire[t] = be.wire[t] \/ Len(be'.wire[t]) = 0
        BY <3>1, Typing
    <3> QED
        BY <3>2 DEF IndInv, AcquireOnce
  <2>2. CASE ~fr
    <3>1. be'.wire = [be.wire EXCEPT ![s] = Tail(be.wire[s])]
        BY <1>3, <2>2
    <3> QED
        BY <1>1, <3>1, ShortenKeepsOnce
  <2> QED
    BY <2>1, <2>2
<1> QED
    BY <1>14, <1>15, <1>16, <1>18, <1>19, <1>20, <1>21, <1>22 DEF IndInv

-----------------------------------------------------------------------------
(* The theorems.                                                           *)

(* The initial state satisfies the inductive invariant.                    *)
LEMMA InitIndInv == Init => IndInv
<1> SUFFICES ASSUME Init PROVE IndInv
    OBVIOUS
<1>1. /\ be.slot = [s \in Sockets |-> Closed]
      /\ be.users = [u \in Users |-> NoSlot]
      /\ be.wire = [s \in Sockets |-> <<>>]
      /\ own = [u \in Users |-> "new"]
    BY DEF Init, BackendInit, EmptyRegistry
<1>2. TypeOK
  <2>1. be \in BackendStates
    BY DEF Init, BackendInit, EmptyRegistry, BackendStates, Idle
  <2> QED
    BY <1>1, <2>1, BoundsAssumption DEF Init, TypeOK, NoCall
<1>3. SlotsIndexed /\ NoMixerLeak
    BY <1>1, SlotStatesAssumption DEF SlotsIndexed, NoMixerLeak
<1>4. HeldHasMixer /\ AskedConsistent /\ NewUnknown
    BY <1>1 DEF HeldHasMixer, AskedConsistent, NewUnknown
<1>5. WireConsistent /\ AcquireOnce
    BY <1>1 DEF WireConsistent, AcquireOnce
<1> QED
    BY <1>2, <1>3, <1>4, <1>5 DEF IndInv

(* Every step of the system preserves the inductive invariant.             *)
LEMMA NextIndInv == IndInv /\ [Next]_vars => IndInv'
<1> SUFFICES ASSUME IndInv, [Next]_vars PROVE IndInv'
    OBVIOUS
<1>1. CASE \E s \in Sockets : MixerConnect(s)
    BY <1>1, ConnectStep
<1>2. CASE \E s \in Sockets : MixerClose(s)
    BY <1>2, CloseStep
<1>3. CASE \E s \in Sockets : MixerAnswers(s)
    BY <1>3, AnswerStep DEF MixerAnswers
<1>4. CASE \E u \in Users, r \in Reqs : Acquire(u, r)
    BY <1>4, AcquireStep
<1>5. CASE \E u \in Users, r \in Reqs : Release(u, r)
    BY <1>5, ReleaseStep
<1>6. CASE \E op \in Ops, u \in Users, r \in Reqs, l \in Loops : Request(op, u, r, l)
    BY <1>6, RequestStep
<1>7. CASE \E r \in Reqs : ExpireCallback(r)
    BY <1>7, ExpireStep
<1>8. CASE UNCHANGED vars
    BY <1>8 DEF vars, IndInv, TypeOK, SlotsIndexed, NoMixerLeak, HeldHasMixer, AskedConsistent,
       NewUnknown, WireConsistent, AcquireOnce, AcquireQueued, ReleaseQueued
<1> QED
    BY <1>1, <1>2, <1>3, <1>4, <1>5, <1>6, <1>7, <1>8 DEF Next

(* The inductive invariant holds in every reachable state.                 *)
THEOREM IndInvHolds == Spec => []IndInv
    BY InitIndInv, NextIndInv, PTL DEF Spec

(* Types of the backend's structs are preserved by every handler.          *)
THEOREM TypeCorrect == Spec => []TypeOK
<1>1. IndInv => TypeOK
    BY DEF IndInv
<1> QED
    BY <1>1, IndInvHolds, PTL

(* Slot array and user dictionary of the registry agree.                   *)
THEOREM RegistryConsistent == Spec => []SlotsIndexed
<1>1. IndInv => SlotsIndexed
    BY DEF IndInv
<1> QED
    BY <1>1, IndInvHolds, PTL

(* No mixer stays reserved for a session that is over.                     *)
THEOREM MixersNotLeaked == Spec => []NoMixerLeak
<1>1. IndInv => NoMixerLeak
    BY DEF IndInv
<1> QED
    BY <1>1, IndInvHolds, PTL

(* A session that was told it has a mixer has one.                         *)
THEOREM HeldIsReserved == Spec => []HeldHasMixer
<1>1. IndInv => HeldHasMixer
    BY DEF IndInv
<1> QED
    BY <1>1, IndInvHolds, PTL

-----------------------------------------------------------------------------
(***************************************************************************)
(* The mixers: the backend implements the lease contract MixerLease, a     *)
(* drained mixer carries the name of the session in its slot, and a mixer  *)
(* has joined only loops that session asked for.                           *)
(***************************************************************************)

(* What each action does to slots, queues, mixers and owners.              *)

(* A connecting mixer brings no session and a clean process.               *)
LEMMA ConnectEffect ==
    ASSUME IndInv, NEW s \in Sockets, MixerConnect(s)
    PROVE  /\ \A t \in Sockets, v \in Users : be'.slot[t] = v <=> be.slot[t] = v
           /\ own' = own /\ joins' = joins
           /\ be'.wire[s] = <<>> /\ be'.mix[s] = Idle
           /\ \A t \in Sockets \ {s} : be'.wire[t] = be.wire[t] /\ be'.mix[t] = be.mix[t]
<1>1. /\ be'.slot = [be.slot EXCEPT ![s] = Free] /\ be'.wire = [be.wire EXCEPT ![s] = <<>>]
      /\ be'.mix = [be.mix EXCEPT ![s] = Idle]
    BY Typing, RegisterFields DEF MixerConnect
<1>2. be.slot[s] = Closed /\ own' = own /\ joins' = joins
    BY DEF MixerConnect
<1>3. \A t \in Sockets, v \in Users : be'.slot[t] = v <=> be.slot[t] = v
    BY <1>1, <1>2, Typing, SlotStatesAssumption
<1>4. be.wire \in [Sockets -> Seq(Messages)] /\ DOMAIN be.mix = Sockets
    BY Typing DEF BackendStates
<1> QED
    BY <1>1, <1>2, <1>3, <1>4

(* A lost mixer ends the session in its slot.                              *)
LEMMA CloseEffect ==
    ASSUME IndInv, NEW s \in Sockets, MixerClose(s)
    PROVE  /\ \A t \in Sockets, v \in Users : be'.slot[t] = v <=> t # s /\ be.slot[t] = v
           /\ own' = [v \in Users |-> IF be.slot[s] = v THEN "gone" ELSE own[v]] /\ joins' = joins
           /\ be'.wire[s] = <<>> /\ be'.mix[s] = Idle
           /\ \A t \in Sockets \ {s} : be'.wire[t] = be.wire[t] /\ be'.mix[t] = be.mix[t]
<1>1. /\ be'.slot = [be.slot EXCEPT ![s] = Closed] /\ be'.wire = [be.wire EXCEPT ![s] = <<>>]
      /\ be'.mix = [be.mix EXCEPT ![s] = Idle]
    BY Typing, CloseMixerFields DEF MixerClose
<1>2. own' = [v \in Users |-> IF be.slot[s] = v THEN "gone" ELSE own[v]] /\ joins' = joins
    BY DEF MixerClose, Lost, LostUser
<1>3. \A t \in Sockets, v \in Users : be'.slot[t] = v <=> t # s /\ be.slot[t] = v
    BY <1>1, Typing, SlotStatesAssumption
<1>4. be.wire \in [Sockets -> Seq(Messages)] /\ DOMAIN be.mix = Sockets
    BY Typing DEF BackendStates
<1> QED
    BY <1>1, <1>2, <1>3, <1>4

(* Sending changes no mixer.                                               *)
LEMMA SendKeepsMixers ==
    ASSUME NEW b \in BackendStates, NEW s \in Sockets, NEW r \in Reqs, NEW m \in Messages
    PROVE  SendMixer(RegisterCallback(b, r), s, m).mix = b.mix
    BY DEF BackendStates, SendMixer, RegisterCallback

(* A free slot is taken and the mixer in it is asked.                      *)
Taken(u, f, m) ==
    /\ be.slot[f] = Free /\ m.op = "acquire" /\ m.user = u
    /\ be'.slot = [be.slot EXCEPT ![f] = u] /\ be'.mix = be.mix
    /\ be'.wire = [be.wire EXCEPT ![f] = Append(be.wire[f], m)]
    /\ own' = [own EXCEPT ![u] = "asked"]

(* An acquisition is refused, or a free slot is taken and the mixer asked. *)
LEMMA AcquireEffect ==
    ASSUME IndInv, NEW u \in Users, NEW r \in Reqs, Acquire(u, r)
    PROVE  /\ own[u] = "new" /\ joins' = joins
           /\ \/ be' = be /\ own' = [own EXCEPT ![u] = "gone"]
              \/ \E f \in Sockets, m \in Messages : Taken(u, f, m)
<1> DEFINE f == FirstFree(be)
           m == Message("acquire", r, u, None)
<1>0. own[u] = "new" /\ joins' = joins
    BY DEF Acquire
<1>1. CASE ~MixerAvailable(be)
    BY <1>0, <1>1 DEF Acquire, AcquireMixer
<1>2. CASE MixerAvailable(be)
  <2>1. f \in Sockets /\ be.slot[f] = Free
    BY <1>2, FirstFreeIsFree DEF MixerAvailable
  <2>2. m \in Messages /\ m.op = "acquire" /\ m.user = u
    BY DEF Message, Messages, BackendOps
  <2> HIDE DEF f, m
  <2> DEFINE a == AcquireUser(be, u)
  <2>3. a \in BackendStates /\ a.slot = [be.slot EXCEPT ![f] = u] /\ a.wire = be.wire /\ a.mix = be.mix
    BY <1>2, Typing, AcquireUserFields DEF MixerAvailable, f
  <2>4. be' = SendMixer(RegisterCallback(a, r), f, m)
    BY <1>2 DEF Acquire, AcquireMixer, f, m
  <2> HIDE DEF a
  <2>5. /\ be'.slot = [be.slot EXCEPT ![f] = u] /\ be'.mix = be.mix
        /\ be'.wire = [be.wire EXCEPT ![f] = Append(be.wire[f], m)]
    BY <2>1, <2>2, <2>3, <2>4, SendFields, SendKeepsMixers
  <2>6. own' = [own EXCEPT ![u] = "asked"]
    BY <1>2 DEF Acquire
  <2>7. Taken(u, f, m)
    BY <2>1, <2>2, <2>5, <2>6 DEF Taken
  <2> QED
    BY <1>0, <2>1, <2>2, <2>7
<1> QED
    BY <1>1, <1>2

(* A session its owner waits for or uses is in the slot it is indexed at.  *)
LEMMA UserInSlot ==
    ASSUME IndInv, NEW u \in Users, own[u] \in {"asked", "held"}
    PROVE  /\ be.users[u] = NoSlot \/ (be.users[u] \in Sockets /\ be.slot[be.users[u]] = u)
           /\ HasMixer(be, u) <=> be.users[u] # NoSlot
           /\ HasMixer(be, u) => GetUser(be, u) = be.users[u]
           /\ \A t \in Sockets : be.slot[t] = u => be.users[u] = t
<1>1. be.users[u] = NoSlot \/ (be.users[u] \in Sockets /\ be.slot[be.users[u]] = u)
    BY Typing DEF IndInv, HeldHasMixer, AskedConsistent
<1>2. be.users[u] # NoSlot => be.slot[be.users[u]] # Closed
    BY <1>1, SlotStatesAssumption
<1>3. \A t \in Sockets : be.slot[t] = u => be.users[u] = t
    BY DEF IndInv, SlotsIndexed
<1> QED
    BY <1>1, <1>2, <1>3 DEF HasMixer, GetUser

(* The mixer in whose slot a session is gets its release.                  *)
Returned(u, g, m) ==
    /\ be.slot[g] = u /\ m.op = "release" /\ m.user = u
    /\ be'.wire = [be.wire EXCEPT ![g] = Append(be.wire[g], m)]

(* A release empties the session's slot and is queued at its mixer.        *)
LEMMA ReleaseEffect ==
    ASSUME IndInv, NEW u \in Users, NEW r \in Reqs, Release(u, r)
    PROVE  /\ own[u] \in {"asked", "held"} /\ joins' = joins
           /\ own' = [own EXCEPT ![u] = "gone"] /\ be'.mix = be.mix
           /\ \A t \in Sockets, v \in Users : be'.slot[t] = v <=> v # u /\ be.slot[t] = v
           /\ \/ be'.wire = be.wire /\ \A t \in Sockets : be.slot[t] # u
              \/ \E g \in Sockets, m \in Messages : Returned(u, g, m)
<1> DEFINE g == be.users[u]
           m == Message("release", r, u, None)
<1>0. own[u] \in {"asked", "held"} /\ joins' = joins /\ own' = [own EXCEPT ![u] = "gone"]
    BY DEF Release
<1>1. m \in Messages /\ m.op = "release" /\ m.user = u
    BY DEF Message, Messages, BackendOps
<1>2. /\ g = NoSlot \/ (g \in Sockets /\ be.slot[g] = u)
      /\ HasMixer(be, u) <=> g # NoSlot
      /\ HasMixer(be, u) => GetUser(be, u) = g
      /\ \A t \in Sockets : be.slot[t] = u => g = t
    BY <1>0, UserInSlot
<1>3. be'.slot = [s \in Sockets |-> IF s = g /\ be.slot[s] # Closed THEN Free ELSE be.slot[s]]
      /\ be'.mix = be.mix
      /\ \/ be'.wire = be.wire /\ g = NoSlot
         \/ g \in Sockets /\ be'.wire = [be.wire EXCEPT ![g] = Append(be.wire[g], m)]
  <2>1. CASE g = NoSlot
    <3>1. be' = ReleaseUser(be, u)
        BY <1>2, <2>1 DEF Release, ReleaseMixer
    <3> QED
        BY <2>1, <3>1, Typing, ReleaseUserFields
  <2>2. CASE g # NoSlot
    <3> DEFINE c == SendMixer(RegisterCallback(be, r), g, m)
    <3>1. g \in Sockets
        BY <1>2, <2>2
    <3>2. be' = ReleaseUser(c, u)
        BY <1>2, <2>2 DEF Release, ReleaseMixer
    <3> HIDE DEF m, g
    <3>0. be \in BackendStates
        BY Typing
    <3>3. /\ c \in BackendStates /\ c.slot = be.slot /\ c.users = be.users /\ c.mix = be.mix
          /\ c.wire = [be.wire EXCEPT ![g] = Append(be.wire[g], m)]
        BY <1>1, <3>1, <3>0, SendFields, SendKeepsMixers
    <3> HIDE DEF c
    <3>4. /\ be'.slot = [s \in Sockets |-> IF s = c.users[u] /\ c.slot[s] # Closed
                                          THEN Free ELSE c.slot[s]]
          /\ be'.wire = c.wire /\ be'.mix = c.mix
        BY <3>2, <3>3, ReleaseUserFields
    <3> QED
        BY <3>1, <3>3, <3>4 DEF g
  <2> QED
    BY <2>1, <2>2
<1> HIDE DEF g, m
<1>4. \A t \in Sockets, v \in Users : be'.slot[t] = v <=> v # u /\ be.slot[t] = v
    BY <1>2, <1>3, Typing, SlotStatesAssumption
<1>5. g = NoSlot => \A t \in Sockets : be.slot[t] # u
    BY <1>2, Typing
<1>6. g \in Sockets => be.slot[g] = u
    BY <1>2, Typing
<1>7. g \in Sockets /\ be'.wire = [be.wire EXCEPT ![g] = Append(be.wire[g], m)] => Returned(u, g, m)
    BY <1>1, <1>6 DEF Returned
<1> QED
    BY <1>0, <1>1, <1>3, <1>4, <1>5, <1>7

(* The mixer in whose slot a session is gets a request of it.              *)
Asked(op, u, g, m) ==
    /\ be.slot[g] = u /\ m.op = op /\ m.user = u
    /\ op \in {"join", "forward"} => own[u] = "held"
    /\ op = "join" => <<u, m.loop>> \in joins'
    /\ be'.wire = [be.wire EXCEPT ![g] = Append(be.wire[g], m)]

(* A request of a session goes to the mixer in whose slot it is.           *)
LEMMA RequestEffect ==
    ASSUME IndInv, NEW op \in Ops, NEW u \in Users, NEW r \in Reqs, NEW l \in Loops,
           Request(op, u, r, l)
    PROVE  /\ own' = own /\ be'.slot = be.slot /\ be'.mix = be.mix /\ joins \subseteq joins'
           /\ \/ be'.wire = be.wire
              \/ \E g \in Sockets, m \in Messages : Asked(op, u, g, m)
<1> DEFINE g == be.users[u]
           m == IF op = "forward" THEN Message("forward", r, u, None) ELSE Message(op, r, u, l)
<1>0. /\ own' = own /\ joins \subseteq joins' /\ own[u] \in {"asked", "held"}
      /\ op \in {"join", "forward"} => own[u] = "held"
    BY DEF Request
<1>1. m \in Messages /\ m.op = op /\ m.user = u /\ (op = "join" => m.loop = l)
    BY OpsAssumption DEF Message, Messages, BackendOps
<1>2. op = "join" => <<u, l>> \in joins'
    BY DEF Request
<1>3. /\ g = NoSlot \/ (g \in Sockets /\ be.slot[g] = u)
      /\ HasMixer(be, u) <=> g # NoSlot
      /\ HasMixer(be, u) => GetUser(be, u) = g
    BY <1>0, UserInSlot
<1>4. CASE g = NoSlot
  <2>1. be' = be \/ be' = RegisterCallback(be, r)
    BY <1>3, <1>4 DEF Request, SetMixerForward, LoopRequest
  <2>2. be'.slot = be.slot /\ be'.mix = be.mix /\ be'.wire = be.wire
    BY <2>1, Typing DEF RegisterCallback, BackendStates
  <2> QED
    BY <1>0, <2>2
<1>5. CASE g # NoSlot
  <2>1. be' = SendMixer(RegisterCallback(be, r), g, m) /\ g \in Sockets /\ be.slot[g] = u
    BY <1>3, <1>5 DEF Request, SetMixerForward, LoopRequest
  <2> HIDE DEF m, g
  <2>2. /\ be'.slot = be.slot /\ be'.mix = be.mix
        /\ be'.wire = [be.wire EXCEPT ![g] = Append(be.wire[g], m)]
    <3>1. be \in BackendStates
        BY Typing
    <3> QED
        BY <1>1, <2>1, <3>1, SendFields, SendKeepsMixers
  <2>3. Asked(op, u, g, m)
    BY <1>0, <1>1, <1>2, <2>1, <2>2 DEF Asked
  <2> QED
    BY <1>0, <1>1, <2>1, <2>2, <2>3
<1> QED
    BY <1>4, <1>5

(* The mixers after the handler of an answer.                              *)
LEMMA HandleAnswerMixers ==
    ASSUME NEW b \in BackendStates, NEW s \in Sockets, NEW code, b.wire[s] # <<>>
    PROVE  HandleAnswer(b, s, code).mix =
             [b.mix EXCEPT ![s] = IF ForcesReconnect(b, s) THEN Idle
                                  ELSE MixerExecute(b.mix[s], Head(b.wire[s]), code)]
<1> DEFINE m == Head(b.wire[s])
           a == Answered(b, s, code)
           g == AnswerRegistry(b, s, code)
           h == UnregisterCallback(g, m.id)
           e == MixerExecute(b.mix[s], m, code)
<1>1. m \in Messages /\ m.user \in Users /\ a \in BackendStates
    BY AnsweredFields DEF Messages
<1>2. a.mix = [b.mix EXCEPT ![s] = e]
    BY DEF Answered, BackendStates
<1>3. g = a \/ g = ReleaseUser(a, m.user)
    BY DEF AnswerRegistry
<1>4. HandleAnswer(b, s, code) = IF ForcesReconnect(b, s) THEN CloseMixer(h, s) ELSE h
    BY DEF HandleAnswer
<1> HIDE DEF a, g, m, e
<1>5. g \in BackendStates /\ g.mix = a.mix
    BY <1>1, <1>3, ReleaseUserFields, ZenonT(60)
<1>6. h \in BackendStates /\ h.mix = a.mix
    BY <1>5 DEF UnregisterCallback, BackendStates
<1> HIDE DEF h
<1>7. CloseMixer(h, s).mix = [b.mix EXCEPT ![s] = Idle]
  <2>1. CloseMixer(h, s).mix = [h.mix EXCEPT ![s] = Idle]
    BY <1>6, CloseMixerFields
  <2> QED
    BY <1>2, <1>6, <2>1 DEF BackendStates
<1> QED
    BY <1>2, <1>4, <1>6, <1>7 DEF e, m

(* Whether the answer of the mixer at s with this code takes its user out. *)
TakesOut(s, code) == AnswerReleases(Head(be.wire[s]), code)

(* What an answer leaves in slots, with owners, in queues and in mixers.   *)
SlotsAnswered(s, code, m) ==
    \A t \in Sockets, v \in Users : be'.slot[t] = v <=>
        /\ be.slot[t] = v /\ ~(TakesOut(s, code) /\ v = m.user)
        /\ ~(ForcesReconnect(be, s) /\ t = s)

OwnersLost(s, code, m) ==
    \A v \in Users :
        own'[v] = IF be.slot[s] = v /\ ~(TakesOut(s, code) /\ v = m.user) THEN "gone" ELSE own[v]

OwnersTold(code, m) ==
    \A v \in Users :
        own'[v] = IF m.op = "acquire" /\ v = m.user /\ own[v] = "asked"
                  THEN IF code = "ok" THEN "held" ELSE "gone" ELSE own[v]

QueuesAnswered(s) ==
    be'.wire = [be.wire EXCEPT ![s] = IF ForcesReconnect(be, s) THEN <<>> ELSE Tail(be.wire[s])]

MixersAnswered(s, code, m) ==
    be'.mix = [be.mix EXCEPT ![s] = IF ForcesReconnect(be, s) THEN Idle
                                    ELSE MixerExecute(be.mix[s], m, code)]

(* An answer: its request leaves the queue and is executed; a refused      *)
(* acquisition frees its session's slot; when nobody waits for it any more *)
(* the mixer is closed and the session then in its slot is lost.           *)
LEMMA AnswerEffect ==
    ASSUME IndInv, NEW s \in Sockets, NEW code \in {"ok", "error"}, Answer(s, code),
           NEW m, m = Head(be.wire[s])
    PROVE  /\ be.wire[s] # <<>> /\ m \in Messages /\ m.user \in Users /\ joins' = joins
           /\ m = be.wire[s][1] /\ 1 \in 1..Len(be.wire[s])
           /\ code \in MixerCodes(be.mix[s], m)
           /\ TakesOut(s, code) <=> (m.op = "acquire" /\ code = "error") \/ (m.op = "release" /\ code = "ok")
           /\ ForcesReconnect(be, s) => m.op \in {"acquire", "join"}
           /\ m.op = "acquire" => AcquireQueued(be, own, s, m.user)
           /\ m.op = "release" => ReleaseQueued(be, own, m.user)
           /\ SlotsAnswered(s, code, m)
           /\ ForcesReconnect(be, s) => OwnersLost(s, code, m)
           /\ ~ForcesReconnect(be, s) => OwnersTold(code, m)
           /\ QueuesAnswered(s) /\ MixersAnswered(s, code, m)
<1> DEFINE u == m.user
           rel == TakesOut(s, code)
           fr == ForcesReconnect(be, s)
           sa == SlotAfter(be, s, code)
<1>1. be.wire[s] # <<>> /\ be.wire[s] \in Seq(Messages) /\ be \in BackendStates
    BY Typing DEF Answer
<1>2. m \in Messages /\ u \in Users /\ m = be.wire[s][1] /\ 1 \in 1..Len(be.wire[s])
  <2>1. m \in Messages /\ m = be.wire[s][1] /\ 1 \in 1..Len(be.wire[s])
    BY <1>1, QueueFacts
  <2> QED
    BY <2>1 DEF Messages
<1>3. /\ AnswerRegistry(be, s, code).slot = sa
      /\ be'.slot = IF fr THEN [sa EXCEPT ![s] = Closed] ELSE sa
      /\ be'.wire = [be.wire EXCEPT ![s] = IF fr THEN <<>> ELSE Tail(be.wire[s])]
      /\ be'.mix = [be.mix EXCEPT ![s] = IF fr THEN Idle ELSE MixerExecute(be.mix[s], m, code)]
  <2>1. be' = HandleAnswer(be, s, code)
    BY DEF Answer
  <2>2. /\ AnswerRegistry(be, s, code).slot = sa
        /\ be'.slot = IF fr THEN [sa EXCEPT ![s] = Closed] ELSE sa
        /\ be'.wire = [be.wire EXCEPT ![s] = IF fr THEN <<>> ELSE Tail(be.wire[s])]
    BY <1>1, <2>1, HandleAnswerFields, ZenonT(60)
  <2>3. be'.mix = [be.mix EXCEPT ![s] = IF fr THEN Idle ELSE MixerExecute(be.mix[s], Head(be.wire[s]), code)]
    BY <1>1, <2>1, HandleAnswerMixers
  <2> QED
    BY <2>2, <2>3
<1>4. /\ m.op = "acquire" => AcquireQueued(be, own, s, u)
      /\ m.op = "release" => ReleaseQueued(be, own, u)
    BY <1>2 DEF IndInv, WireConsistent
<1>5. /\ rel <=> (m.op = "acquire" /\ code = "error") \/ (m.op = "release" /\ code = "ok")
      /\ fr => m.op \in {"acquire", "join"}
    BY DEF AnswerReleases, ForcesReconnect, TakesOut
<1>6. own' = IF fr THEN [v \in Users |-> IF sa[s] = v THEN "gone" ELSE own[v]]
             ELSE IF m.op = "acquire" THEN AfterAcquire(u, code) ELSE own
    BY <1>3 DEF Answer, Lost, LostUser
<1>7. sa = IF rel THEN [t \in Sockets |-> IF t = be.users[u] /\ be.slot[t] # Closed
                                          THEN Free ELSE be.slot[t]]
           ELSE be.slot
    BY DEF SlotAfter, TakesOut
<1>8. sa \in [Sockets -> Users \cup {Closed, Free}]
    BY <1>7, Typing
<1>9. code \in MixerCodes(be.mix[s], m) /\ joins' = joins
    BY DEF Answer
<1> HIDE DEF rel, fr, sa, u
<1>11. ASSUME NEW t \in Sockets, NEW v \in Users
       PROVE  sa[t] = v <=> be.slot[t] = v /\ ~(rel /\ v = u)
  <2>1. CASE rel
    <3>1. be.users[u] = NoSlot \/ (be.slot[s] = u /\ be.users[u] = s)
        BY <1>2, <1>4, <1>5, <2>1 DEF AcquireQueued, ReleaseQueued, IndInv, SlotsIndexed
    <3>2. be.slot[t] = u => be.users[u] = t
        BY <1>2 DEF IndInv, SlotsIndexed
    <3> QED
        BY <1>7, <2>1, <3>1, <3>2, Typing, SlotStatesAssumption
  <2>2. CASE ~rel
    BY <1>7, <2>2
  <2> QED
    BY <2>1, <2>2
<1>12. ASSUME NEW t \in Sockets, NEW v \in Users
       PROVE  be'.slot[t] = v <=> sa[t] = v /\ ~(fr /\ t = s)
    BY <1>3, <1>8, SlotStatesAssumption
<1>13. SlotsAnswered(s, code, m)
    BY <1>11, <1>12 DEF SlotsAnswered, rel, fr, u
<1>14. fr => OwnersLost(s, code, m)
    BY <1>6, <1>11 DEF OwnersLost, rel, u
<1>15. ~fr => OwnersTold(code, m)
    BY <1>2, <1>6, Typing DEF AfterAcquire, OwnersTold, u
<1>16. QueuesAnswered(s) /\ MixersAnswered(s, code, m)
    BY <1>3 DEF QueuesAnswered, MixersAnswered, fr
<1> QED
    BY <1>1, <1>2, <1>4, <1>5, <1>9, <1>13, <1>14, <1>15, <1>16 DEF u, fr, rel

-----------------------------------------------------------------------------
(* The backend implements the lease contract.                              *)

Indexed(b) == b \in BackendStates /\ \A s \in Sockets, u \in Users : b.slot[s] = u => b.users[u] = s

(* In an indexed registry a mixer is leased to the session in its slot.    *)
LEMMA LeaseIsSlot ==
    ASSUME NEW b, Indexed(b)
    PROVE  /\ Leases(b) \in [Users -> Sockets \cup {NoSlot}]
           /\ \A u \in Users, s \in Sockets : Leases(b)[u] = s <=> b.slot[s] = u
<1>1. /\ b.slot \in [Sockets -> Users \cup {Closed, Free}] /\ b.users \in [Users -> Sockets \cup {NoSlot}]
      /\ NoSlot \notin Sockets
    BY SocketsAssumption DEF Indexed, BackendStates, NoSlot
<1>2. \A u \in Users : Leases(b)[u] = IF GetUser(b, u) # NoSlot /\ b.slot[GetUser(b, u)] = u
                                      THEN GetUser(b, u) ELSE NoSlot
    BY DEF Leases
<1>3. ASSUME NEW u \in Users
      PROVE  GetUser(b, u) = NoSlot \/ (GetUser(b, u) = b.users[u] /\ b.users[u] \in Sockets)
    BY <1>1 DEF GetUser
<1>4. ASSUME NEW u \in Users, NEW s \in Sockets
      PROVE  Leases(b)[u] = s <=> b.slot[s] = u
  <2>1. ASSUME b.slot[s] = u PROVE Leases(b)[u] = s
    <3>1. b.users[u] = s /\ b.slot[s] # Closed
        BY <2>1, SlotStatesAssumption DEF Indexed
    <3>2. GetUser(b, u) = s
        BY <1>1, <3>1 DEF GetUser
    <3> QED
        BY <1>1, <1>2, <2>1, <3>2
  <2>2. ASSUME Leases(b)[u] = s PROVE b.slot[s] = u
    BY <1>1, <1>2, <2>2
  <2> QED
    BY <2>1, <2>2
<1>5. Leases(b) \in [Users -> Sockets \cup {NoSlot}]
    BY <1>3 DEF Leases
<1> QED
    BY <1>4, <1>5

(* Nobody's slot changes: no lease changes.                                *)
LEMMA SameLease ==
    ASSUME NEW b, NEW c, Indexed(b), Indexed(c),
           \A t \in Sockets, v \in Users : c.slot[t] = v <=> b.slot[t] = v
    PROVE  Leases(c) = Leases(b)
<1> DEFINE L == Leases(b)
           M == Leases(c)
<1>1. L \in [Users -> Sockets \cup {NoSlot}] /\ M \in [Users -> Sockets \cup {NoSlot}]
    BY LeaseIsSlot
<1>2. \A u \in Users, s \in Sockets : L[u] = s <=> M[u] = s
    BY LeaseIsSlot
<1> HIDE DEF L, M
<1>3. \A u \in Users : L[u] = M[u]
    BY <1>1, <1>2
<1> QED
    BY <1>1, <1>3 DEF L, M

Emptied(b, c, u) == \A t \in Sockets, v \in Users : c.slot[t] = v <=> v # u /\ b.slot[t] = v

(* One session loses its slot: its lease ends.                             *)
LEMMA EndedLease ==
    ASSUME NEW b, NEW c, Indexed(b), Indexed(c), NEW u \in Users, Emptied(b, c, u)
    PROVE  Leases(c) = [Leases(b) EXCEPT ![u] = 0]
<1> DEFINE L == Leases(b)
           M == Leases(c)
<1>1. /\ L \in [Users -> Sockets \cup {NoSlot}] /\ M \in [Users -> Sockets \cup {NoSlot}]
      /\ 0 = NoSlot /\ NoSlot \notin Sockets
    BY LeaseIsSlot, SocketsAssumption DEF NoSlot
<1>2. \A v \in Users, s \in Sockets : M[v] = s <=> v # u /\ L[v] = s
    BY LeaseIsSlot DEF Emptied
<1> HIDE DEF L, M
<1>3. \A v \in Users : M[v] = IF v = u THEN NoSlot ELSE L[v]
    BY <1>1, <1>2
<1>4. M = [L EXCEPT ![u] = 0]
    BY <1>1, <1>3
<1> QED
    BY <1>4 DEF L, M

(* A free slot is given to a session: its lease begins.                    *)
LEMMA GrantedLease ==
    ASSUME NEW b, NEW c, Indexed(b), Indexed(c), NEW u \in Users, NEW f \in Sockets, b.slot[f] = Free,
           \A t \in Sockets : b.slot[t] # u, c.slot = [b.slot EXCEPT ![f] = u]
    PROVE  Leases(c) = [Leases(b) EXCEPT ![u] = f] /\ \A v \in Users : Leases(b)[v] # f
<1> DEFINE L == Leases(b)
           M == Leases(c)
<1>1. /\ L \in [Users -> Sockets \cup {NoSlot}] /\ M \in [Users -> Sockets \cup {NoSlot}]
      /\ b.slot \in [Sockets -> Users \cup {Closed, Free}]
    BY LeaseIsSlot DEF Indexed, BackendStates
<1>2. \A v \in Users, s \in Sockets : L[v] = s <=> b.slot[s] = v
    BY LeaseIsSlot
<1>3. \A v \in Users, s \in Sockets : M[v] = s <=> c.slot[s] = v
    BY LeaseIsSlot
<1> HIDE DEF L, M
<1>4. \A v \in Users : L[v] # f
    BY <1>2, SlotStatesAssumption
<1>5. \A v \in Users \ {u}, s \in Sockets : M[v] = s <=> L[v] = s
    BY <1>1, <1>2, <1>3, SlotStatesAssumption
<1>6. M[u] = f
    BY <1>1, <1>3
<1>7. \A v \in Users : M[v] = IF v = u THEN f ELSE L[v]
    BY <1>1, <1>5, <1>6
<1>8. M = [L EXCEPT ![u] = f]
    BY <1>1, <1>7
<1> QED
    BY <1>4, <1>8 DEF L, M

(* Every step of the backend is a step of the contract or changes nothing  *)
(* the contract sees.                                                      *)
LEMMA LeaseStep ==
    ASSUME IndInv, IndInv', [Next]_vars
    PROVE  [Lease!LeaseNext]_<<Leases(be), own>>
<1> DEFINE Done == Leases(be') = Leases(be) /\ own' = own
<1>0. Indexed(be) /\ Indexed(be') /\ own \in [Users -> {"new", "asked", "held", "gone"}]
      /\ own' \in [Users -> {"new", "asked", "held", "gone"}]
    BY DEF IndInv, TypeOK, SlotsIndexed, Indexed
<1> SUFFICES Lease!LeaseNext \/ Done
    OBVIOUS
<1>1. ASSUME NEW s \in Sockets, MixerConnect(s) PROVE Done
  <2>1. own' = own /\ \A t \in Sockets, v \in Users : be'.slot[t] = v <=> be.slot[t] = v
    BY <1>1, ConnectEffect
  <2> QED
    BY <1>0, <2>1, SameLease
<1>2. ASSUME NEW u \in Users, own[u] \in {"asked", "held"}, own' = [own EXCEPT ![u] = "gone"],
             \A t \in Sockets, v \in Users : be'.slot[t] = v <=> v # u /\ be.slot[t] = v
      PROVE  Lease!LeaseNext
  <2>1. Leases(be') = [Leases(be) EXCEPT ![u] = 0]
    <3>1. Emptied(be, be', u)
        BY <1>2 DEF Emptied
    <3> QED
        BY <1>0, <3>1, EndedLease
  <2>2. Lease!End(u)
    BY <1>2, <2>1 DEF Lease!End
  <2> QED
    BY <2>2 DEF Lease!LeaseNext
<1>3. ASSUME NEW s \in Sockets, NEW v \in Users, be.slot[s] = v
      PROVE  own[v] \in {"asked", "held"} /\ \A t \in Sockets : be.slot[t] = v => t = s
    BY <1>3 DEF IndInv, NoMixerLeak, SlotsIndexed
<1>4. ASSUME NEW s \in Sockets,
             \A t \in Sockets, v \in Users : be'.slot[t] = v <=> t # s /\ be.slot[t] = v,
             own' = [v \in Users |-> IF be.slot[s] = v THEN "gone" ELSE own[v]]
      PROVE  Lease!LeaseNext \/ Done
  <2>1. CASE be.slot[s] \in Users
    <3> DEFINE u == be.slot[s]
    <3>1. own[u] \in {"asked", "held"} /\ \A t \in Sockets : be.slot[t] = u => t = s
        BY <1>3, <2>1
    <3>2. own' = [own EXCEPT ![u] = "gone"]
        BY <1>0, <1>4, <2>1
    <3>3. \A t \in Sockets, v \in Users : be'.slot[t] = v <=> v # u /\ be.slot[t] = v
        BY <1>4, <3>1
    <3> HIDE DEF u
    <3>4. u \in Users
        BY <2>1 DEF u
    <3> QED
        BY <1>2, <3>1, <3>2, <3>3, <3>4
  <2>2. CASE be.slot[s] \notin Users
    <3>1. \A t \in Sockets, v \in Users : be'.slot[t] = v <=> be.slot[t] = v
        BY <1>4, <2>2
    <3>2. own' = own
        BY <1>0, <1>4, <2>2
    <3> QED
        BY <1>0, <3>1, <3>2, SameLease
  <2> QED
    BY <2>1, <2>2
<1>5. ASSUME NEW s \in Sockets, MixerClose(s) PROVE Lease!LeaseNext \/ Done
    BY <1>4, <1>5, CloseEffect
<1>6. ASSUME NEW u \in Users, NEW r \in Reqs, Acquire(u, r) PROVE Lease!LeaseNext
  <2>1. CASE be' = be /\ own' = [own EXCEPT ![u] = "gone"]
    <3>1. own[u] = "new"
        BY <1>6, AcquireEffect
    <3>2. Lease!Refuse(u)
        BY <2>1, <3>1 DEF Lease!Refuse
    <3> QED
        BY <3>2 DEF Lease!LeaseNext
  <2>2. ASSUME NEW f \in Sockets, be.slot[f] = Free, be'.slot = [be.slot EXCEPT ![f] = u],
               own' = [own EXCEPT ![u] = "asked"]
        PROVE  Lease!LeaseNext
    <3>1. own[u] = "new"
        BY <1>6, AcquireEffect
    <3>2. \A t \in Sockets : be.slot[t] # u
        BY <1>3, <3>1
    <3>3. Leases(be') = [Leases(be) EXCEPT ![u] = f] /\ \A v \in Users : Leases(be)[v] # f
        BY <1>0, <2>2, <3>2, GrantedLease
    <3>4. Lease!Grant(u, f)
        BY <2>2, <3>1, <3>3 DEF Lease!Grant
    <3> QED
        BY <3>4 DEF Lease!LeaseNext
  <2>3. \/ be' = be /\ own' = [own EXCEPT ![u] = "gone"]
        \/ \E f \in Sockets, m \in Messages : Taken(u, f, m)
    BY <1>6, AcquireEffect
  <2> QED
    BY <2>1, <2>2, <2>3 DEF Taken
<1>7. ASSUME NEW u \in Users, NEW r \in Reqs, Release(u, r) PROVE Lease!LeaseNext
    BY <1>2, <1>7, ReleaseEffect
<1>8. ASSUME NEW op \in Ops, NEW u \in Users, NEW r \in Reqs, NEW l \in Loops, Request(op, u, r, l)
      PROVE  Done
    BY <1>0, <1>8, RequestEffect, SameLease
<1>9. ASSUME NEW r \in Reqs, ExpireCallback(r) PROVE Done
  <2>1. be'.slot = be.slot /\ own' = own
    BY <1>9, Typing DEF ExpireCallback, UnregisterCallback, BackendStates
  <2> QED
    BY <1>0, <2>1, SameLease
<1>10. ASSUME NEW s \in Sockets, NEW code \in {"ok", "error"}, Answer(s, code)
       PROVE  Lease!LeaseNext \/ Done
  <2> DEFINE fr == ForcesReconnect(be, s)
             rel == TakesOut(s, code)
  <2> DEFINE m == Head(be.wire[s])
  <2>1. m = Head(be.wire[s])
    OBVIOUS
  <2> HIDE DEF m
  <2>2. /\ m.user \in Users
        /\ rel <=> (m.op = "acquire" /\ code = "error") \/ (m.op = "release" /\ code = "ok")
        /\ m.op = "acquire" => AcquireQueued(be, own, s, m.user)
        /\ m.op = "release" => ReleaseQueued(be, own, m.user)
        /\ \A t \in Sockets, v \in Users : be'.slot[t] = v <=>
                be.slot[t] = v /\ ~(rel /\ v = m.user) /\ ~(fr /\ t = s)
        /\ fr => \A v \in Users :
                own'[v] = IF be.slot[s] = v /\ ~(rel /\ v = m.user) THEN "gone" ELSE own[v]
        /\ ~fr => \A v \in Users :
                own'[v] = IF m.op = "acquire" /\ v = m.user /\ own[v] = "asked"
                          THEN IF code = "ok" THEN "held" ELSE "gone" ELSE own[v]
    <3>1. /\ m.user \in Users
          /\ TakesOut(s, code) <=> (m.op = "acquire" /\ code = "error") \/ (m.op = "release" /\ code = "ok")
          /\ m.op = "acquire" => AcquireQueued(be, own, s, m.user)
          /\ m.op = "release" => ReleaseQueued(be, own, m.user)
          /\ SlotsAnswered(s, code, m)
          /\ ForcesReconnect(be, s) => OwnersLost(s, code, m)
          /\ ~ForcesReconnect(be, s) => OwnersTold(code, m)
        BY <1>10, <2>1, AnswerEffect
    <3>2. /\ \A t \in Sockets, v \in Users : be'.slot[t] = v <=>
                be.slot[t] = v /\ ~(rel /\ v = m.user) /\ ~(fr /\ t = s)
          /\ fr => \A v \in Users :
                own'[v] = IF be.slot[s] = v /\ ~(rel /\ v = m.user) THEN "gone" ELSE own[v]
          /\ ~fr => \A v \in Users :
                own'[v] = IF m.op = "acquire" /\ v = m.user /\ own[v] = "asked"
                          THEN IF code = "ok" THEN "held" ELSE "gone" ELSE own[v]
        BY <3>1 DEF SlotsAnswered, OwnersLost, OwnersTold
    <3> QED
        BY <3>1, <3>2
  <2> HIDE DEF fr, rel
  <2> DEFINE u == m.user
  <2>3. \/ own[u] = "asked" /\ be.slot[s] = u
        \/ \A t \in Sockets : be.slot[t] # u
        \/ ~rel /\ m.op # "acquire"
    <3>1. own[u] = "gone" => \A t \in Sockets : be.slot[t] # u
        BY <1>3, <2>2
    <3> QED
        BY <2>2, <3>1 DEF AcquireQueued, ReleaseQueued
  <2>4. CASE fr /\ rel /\ be.slot[s] = u /\ own[u] = "asked"
    <3>1. \A t \in Sockets, v \in Users : be'.slot[t] = v <=> v # u /\ be.slot[t] = v
        BY <1>3, <2>2, <2>4
    <3>2. \A v \in Users : own'[v] = own[v]
        BY <2>2, <2>4
    <3>3. own' = own /\ Leases(be') = [Leases(be) EXCEPT ![u] = 0]
      <4>1. own' = own
        BY <1>0, <3>2
      <4>2. Leases(be') = [Leases(be) EXCEPT ![u] = 0]
        <5>1. Emptied(be, be', u) /\ u \in Users
            BY <2>2, <3>1 DEF Emptied
        <5> HIDE DEF u
        <5> QED
            BY <1>0, <5>1, EndedLease
      <4> QED
        BY <4>1, <4>2
    <3>4. Lease!Revoke(u)
        BY <2>4, <3>3 DEF Lease!Revoke
    <3> QED
        BY <2>2, <3>4 DEF Lease!LeaseNext
  <2>5. CASE fr /\ ~(rel /\ be.slot[s] = u /\ own[u] = "asked")
    <3>1. \A t \in Sockets, v \in Users : be.slot[t] = v => ~(rel /\ v = u)
        BY <2>2, <2>3, <2>5
    <3>2. \A t \in Sockets, v \in Users : be'.slot[t] = v <=> t # s /\ be.slot[t] = v
        BY <2>2, <2>5, <3>1
    <3>3. \A v \in Users : own'[v] = IF be.slot[s] = v THEN "gone" ELSE own[v]
        BY <2>2, <2>5, <3>1
    <3>4. own' = [v \in Users |-> IF be.slot[s] = v THEN "gone" ELSE own[v]]
        BY <1>0, <3>3
    <3> QED
        BY <1>4, <3>2, <3>4
  <2>6. CASE ~fr /\ m.op = "acquire" /\ own[u] = "asked" /\ code = "ok"
    <3>1. be.slot[s] = u /\ ~rel
        BY <2>2, <2>6 DEF AcquireQueued
    <3>2. \A t \in Sockets, v \in Users : be'.slot[t] = v <=> be.slot[t] = v
        BY <2>2, <2>6, <3>1
    <3>3. \A v \in Users : own'[v] = IF v = u THEN "held" ELSE own[v]
        BY <2>2, <2>6
    <3>4. own' = [own EXCEPT ![u] = "held"] /\ Leases(be') = Leases(be)
        BY <1>0, <2>2, <3>2, <3>3, SameLease
    <3>5. Leases(be)[u] = s /\ s # 0
        BY <1>0, <2>2, <3>1, LeaseIsSlot, SocketsAssumption
    <3>6. Lease!Confirm(u)
        BY <2>6, <3>4, <3>5 DEF Lease!Confirm
    <3> QED
        BY <2>2, <3>6 DEF Lease!LeaseNext
  <2>7. CASE ~fr /\ m.op = "acquire" /\ own[u] = "asked" /\ code = "error"
    <3>1. rel
        BY <2>2, <2>7
    <3>2. \A t \in Sockets, v \in Users : be'.slot[t] = v <=> v # u /\ be.slot[t] = v
        BY <2>2, <2>7, <3>1
    <3>3. \A v \in Users : own'[v] = IF v = u THEN "gone" ELSE own[v]
        BY <2>2, <2>7
    <3>4. own' = [own EXCEPT ![u] = "gone"]
        BY <1>0, <2>2, <3>3
    <3> QED
        BY <1>2, <2>2, <2>7, <3>2, <3>4
  <2>8. CASE ~fr /\ ~(m.op = "acquire" /\ own[u] = "asked")
    <3>1. \A t \in Sockets, v \in Users : be.slot[t] = v => ~(rel /\ v = u)
        BY <2>2, <2>3, <2>8 DEF ReleaseQueued
    <3>2. \A t \in Sockets, v \in Users : be'.slot[t] = v <=> be.slot[t] = v
        BY <2>2, <2>8, <3>1
    <3>3. \A v \in Users : own'[v] = own[v]
        BY <2>2, <2>8
    <3>4. own' = own
        BY <1>0, <3>3
    <3> QED
        BY <1>0, <3>2, <3>4, SameLease
  <2> QED
    BY <1>10, <2>4, <2>5, <2>6, <2>7, <2>8
<1>11. CASE UNCHANGED vars
    BY <1>11 DEF vars
<1> HIDE DEF Done
<1> QED
    BY <1>1, <1>5, <1>6, <1>7, <1>8, <1>9, <1>10, <1>11, Zenon DEF Next, MixerAnswers

(* The initial state is an initial state of the contract.                  *)
LEMMA LeaseInitially == Init => Lease!LeaseInit
<1> SUFFICES ASSUME Init PROVE Lease!LeaseInit
    OBVIOUS
<1>1. own = [u \in Users |-> "new"] /\ be.users = [u \in Users |-> NoSlot]
    BY DEF Init, BackendInit, EmptyRegistry
<1>2. \A u \in Users : GetUser(be, u) = NoSlot
    BY <1>1 DEF GetUser
<1>3. Leases(be) = [u \in Users |-> 0]
    BY <1>2 DEF Leases, NoSlot
<1> QED
    BY <1>1, <1>3 DEF Lease!LeaseInit

(* The backend implements the lease contract: whatever is late, expires or *)
(* is lost, sessions ask once, never share a mixer and keep none once they *)
(* are over (ov_mc_backend.c with its registry).                           *)
THEOREM LeaseImplemented == Spec => ImplementsLease
<1>1. IndInv /\ IndInv' /\ [Next]_vars => [Lease!LeaseNext]_<<Leases(be), own>>
    BY LeaseStep
<1> QED
    BY <1>1, LeaseInitially, IndInvHolds, PTL DEF Spec, ImplementsLease, Lease!LeaseSpec

-----------------------------------------------------------------------------
(* Audio isolation.  What holds of one mixer: us is the session in its     *)
(* slot (or none), w its queue, x the process, o what the owners know and  *)
(* jn the joins requested.                                                 *)

Naming == {"acquire", "forward"}

(* A request that names the mixer is the slot's session's, or that session *)
(* has released it and the release is queued behind the request.           *)
NamesReleased(us, w) ==
    \A i \in 1..Len(w) : w[i].op \in Naming =>
        \/ w[i].user \in us
        \/ \E j \in 1..Len(w) : j > i /\ w[j].op = "release" /\ w[j].user = w[i].user

(* The same for the name the mixer has.                                    *)
NameReleased(us, w, x) ==
    x.name \in Users => x.name \in us \/ \E j \in 1..Len(w) : w[j].op = "release" /\ w[j].user = x.name

(* A session still waiting has named no mixer and forwards nothing.        *)
WaitingUnnamed(w, x, o) ==
    \A v \in Users : o[v] \in {"new", "asked"} =>
        x.name # v /\ \A i \in 1..Len(w) : w[i].op = "forward" => w[i].user # v

(* Nobody names the mixer behind the acquisition of the slot's session.    *)
LastAcquired(us, w) ==
    \A i, j \in 1..Len(w) :
        i < j /\ w[i].op = "acquire" /\ w[i].user \in us /\ w[j].op \in Naming => w[j].user = w[i].user

(* Once a session holds the mixer nobody else's requests name it.          *)
HeldAlone(us, w, x, o) ==
    \A v \in us : o[v] = "held" =>
        x.name \in {None, v} /\ \A i \in 1..Len(w) : w[i].op \in Naming => w[i].user = v

(* A queued join meets a mixer with its session's name or without a name.  *)
JoinsOwn(w, x, jn) ==
    \A i \in 1..Len(w) : w[i].op = "join" =>
        /\ <<w[i].user, w[i].loop>> \in jn /\ x.name \in {None, w[i].user}
        /\ \A j \in 1..Len(w) : j < i /\ w[j].op \in Naming => w[j].user = w[i].user

LoopsOwn(x, jn) == \A l \in x.loops : <<x.name, l>> \in jn

MixerOK(us, w, x, o, jn) ==
    /\ NamesReleased(us, w) /\ NameReleased(us, w, x) /\ WaitingUnnamed(w, x, o) /\ LastAcquired(us, w)
    /\ HeldAlone(us, w, x, o) /\ JoinsOwn(w, x, jn) /\ LoopsOwn(x, jn)

AudioInv == \A s \in Sockets : MixerOK(LostUser(be, s), be.wire[s], be.mix[s], own, joins)

(* A fresh mixer has nothing to be wrong about.                            *)
LEMMA CleanMixer ==
    ASSUME NEW us, NEW o, NEW jn
    PROVE  MixerOK(us, <<>>, Idle, o, jn)
    BY NoneAssumption DEF MixerOK, NamesReleased, NameReleased, WaitingUnnamed, LastAcquired, HeldAlone,
       JoinsOwn, LoopsOwn, Idle

(* A mixer nothing is sent to and that says nothing.                       *)
LEMMA QuietMixer ==
    ASSUME NEW us, NEW w, NEW x, NEW o, NEW p, NEW jn, NEW kn, MixerOK(us, w, x, o, jn), jn \subseteq kn,
           \A v \in Users : p[v] \in {"new", "asked"} => o[v] \in {"new", "asked"},
           \A v \in us : p[v] = "held" => o[v] = "held"
    PROVE  MixerOK(us, w, x, p, kn)
<1>1. NamesReleased(us, w) /\ NameReleased(us, w, x) /\ LastAcquired(us, w)
    BY DEF MixerOK
<1>2. WaitingUnnamed(w, x, p)
    BY DEF MixerOK, WaitingUnnamed
<1>3. HeldAlone(us, w, x, p)
    BY DEF MixerOK, HeldAlone
<1>4. JoinsOwn(w, x, kn) /\ LoopsOwn(x, kn)
    BY DEF MixerOK, JoinsOwn, LoopsOwn
<1> QED
    BY <1>1, <1>2, <1>3, <1>4 DEF MixerOK

(* What is appended to a queue comes after everything in it.               *)
LEMMA AppendFacts ==
    ASSUME NEW w \in Seq(Messages), NEW m \in Messages, NEW z, z = Append(w, m)
    PROVE  /\ Len(w) \in Nat /\ Len(z) = Len(w) + 1 /\ z[Len(w) + 1] = m
           /\ \A i \in 1..Len(w) : z[i] = w[i]
    BY QueueFacts

(* The owners p know what the owners o know, but for u.                    *)
SameBut(o, p, u) == \A v \in Users \ {u} : p[v] = o[v]

NotAsked(w, u) == \A i \in 1..Len(w) : w[i].op = "acquire" => w[i].user # u

(* An acquisition is queued at a mixer whose slot is free.                 *)
LEMMA AcquireQueuedAt ==
    ASSUME NEW w \in Seq(Messages), NEW x, NEW o, NEW p, NEW jn, NEW u \in Users, NEW m \in Messages,
           NEW z, z = Append(w, m), MixerOK({}, w, x, o, jn), m.op = "acquire", m.user = u,
           o[u] = "new", p[u] = "asked", SameBut(o, p, u), NotAsked(w, u)
    PROVE  MixerOK({u}, z, x, p, jn)
<1> USE DEF SameBut, NotAsked
<1>1. /\ Len(w) \in Nat /\ Len(z) = Len(w) + 1 /\ z[Len(w) + 1] = m
      /\ \A i \in 1..Len(w) : z[i] = w[i]
    BY AppendFacts
<1>2. \A i \in 1..Len(z) : (i \in 1..Len(w) /\ z[i] = w[i]) \/ (i = Len(w) + 1 /\ z[i] = m)
    BY <1>1
<1>3. \A i \in 1..Len(w) : i \in 1..Len(z)
    BY <1>1
<1>4. NamesReleased({u}, z)
    BY <1>1, <1>2, <1>3 DEF MixerOK, NamesReleased
<1>5. NameReleased({u}, z, x)
    BY <1>1, <1>3 DEF MixerOK, NameReleased
<1>6. WaitingUnnamed(z, x, p)
    BY <1>2 DEF MixerOK, WaitingUnnamed
<1>7. LastAcquired({u}, z)
  <2> SUFFICES ASSUME NEW i \in 1..Len(z), NEW j \in 1..Len(z), i < j, z[i].op = "acquire",
                      z[i].user = u, z[j].op \in Naming
               PROVE  z[j].user = z[i].user
    BY DEF LastAcquired
  <2>1. i \in 1..Len(w) /\ z[i] = w[i]
    BY <1>1, <1>2
  <2> QED
    BY <2>1
<1>8. HeldAlone({u}, z, x, p)
    BY DEF HeldAlone
<1>9. JoinsOwn(z, x, jn)
    BY <1>1, <1>2 DEF MixerOK, JoinsOwn
<1>10. LoopsOwn(x, jn)
    BY DEF MixerOK
<1> QED
    BY <1>4, <1>5, <1>6, <1>7, <1>8, <1>9, <1>10 DEF MixerOK

(* A release is queued and the slot is free at once.                       *)
LEMMA ReleaseQueuedAt ==
    ASSUME NEW w \in Seq(Messages), NEW x, NEW o, NEW p, NEW jn, NEW u \in Users, NEW m \in Messages,
           NEW z, z = Append(w, m), MixerOK({u}, w, x, o, jn), m.op = "release", m.user = u,
           p[u] = "gone", SameBut(o, p, u)
    PROVE  MixerOK({}, z, x, p, jn)
<1> USE DEF SameBut
<1>1. /\ Len(w) \in Nat /\ Len(z) = Len(w) + 1 /\ z[Len(w) + 1] = m
      /\ \A i \in 1..Len(w) : z[i] = w[i]
    BY AppendFacts
<1>2. \A i \in 1..Len(z) : (i \in 1..Len(w) /\ z[i] = w[i]) \/ (i = Len(w) + 1 /\ z[i] = m)
    BY <1>1
<1>3. \A i \in 1..Len(w) : i \in 1..Len(z) /\ i < Len(w) + 1
    BY <1>1
<1>4. Len(w) + 1 \in 1..Len(z)
    BY <1>1
<1>5. NamesReleased({}, z)
  <2> SUFFICES ASSUME NEW i \in 1..Len(z), z[i].op \in Naming
               PROVE  \E j \in 1..Len(z) : j > i /\ z[j].op = "release" /\ z[j].user = z[i].user
    BY DEF NamesReleased
  <2>1. i \in 1..Len(w) /\ z[i] = w[i] /\ i < Len(w) + 1
    BY <1>2, <1>3 DEF Naming
  <2>2. CASE w[i].user = u
    BY <1>1, <1>4, <2>1, <2>2
  <2>3. CASE w[i].user # u
    <3>1. PICK j \in 1..Len(w) : j > i /\ w[j].op = "release" /\ w[j].user = w[i].user
        BY <2>1, <2>3 DEF MixerOK, NamesReleased
    <3> QED
        BY <1>1, <1>3, <2>1, <3>1
  <2> QED
    BY <2>2, <2>3
<1>6. NameReleased({}, z, x)
  <2> SUFFICES ASSUME x.name \in Users
               PROVE  \E j \in 1..Len(z) : z[j].op = "release" /\ z[j].user = x.name
    BY DEF NameReleased
  <2>1. CASE x.name = u
    BY <1>1, <1>4, <2>1
  <2>2. CASE x.name # u
    BY <1>1, <1>3, <2>2 DEF MixerOK, NameReleased
  <2> QED
    BY <2>1, <2>2
<1>7. WaitingUnnamed(z, x, p)
    BY <1>2 DEF MixerOK, WaitingUnnamed
<1>8. LastAcquired({}, z) /\ HeldAlone({}, z, x, p)
    BY DEF LastAcquired, HeldAlone
<1>9. JoinsOwn(z, x, jn)
    BY <1>1, <1>2 DEF MixerOK, JoinsOwn
<1>10. LoopsOwn(x, jn)
    BY DEF MixerOK
<1> QED
    BY <1>5, <1>6, <1>7, <1>8, <1>9, <1>10 DEF MixerOK

(* A session sends a request to the mixer in whose slot it is; joins and   *)
(* forwards only while it holds the mixer.                                 *)
LEMMA RequestQueuedAt ==
    ASSUME NEW w \in Seq(Messages), NEW x, NEW o, NEW jn, NEW kn, NEW u \in Users, NEW m \in Messages,
           NEW z, z = Append(w, m), MixerOK({u}, w, x, o, jn), jn \subseteq kn, m.user = u,
           m.op \notin {"acquire", "release"}, m.op \in {"join", "forward"} => o[u] = "held",
           m.op = "join" => <<u, m.loop>> \in kn
    PROVE  MixerOK({u}, z, x, o, kn)
<1>1. /\ Len(w) \in Nat /\ Len(z) = Len(w) + 1 /\ z[Len(w) + 1] = m
      /\ \A i \in 1..Len(w) : z[i] = w[i]
    BY AppendFacts
<1>2. \A i \in 1..Len(z) : (i \in 1..Len(w) /\ z[i] = w[i]) \/ (i = Len(w) + 1 /\ z[i] = m)
    BY <1>1
<1>3. \A i \in 1..Len(w) : i \in 1..Len(z)
    BY <1>1
<1>4. NamesReleased({u}, z)
    BY <1>1, <1>2, <1>3 DEF MixerOK, NamesReleased
<1>5. NameReleased({u}, z, x)
    BY <1>1, <1>3 DEF MixerOK, NameReleased
<1>6. WaitingUnnamed(z, x, o)
    BY <1>2 DEF MixerOK, WaitingUnnamed
<1>7. LastAcquired({u}, z)
  <2> SUFFICES ASSUME NEW i \in 1..Len(z), NEW j \in 1..Len(z), i < j, z[i].op = "acquire",
                      z[i].user = u, z[j].op \in Naming
               PROVE  z[j].user = z[i].user
    BY DEF LastAcquired
  <2>1. i \in 1..Len(w) /\ z[i] = w[i]
    BY <1>1, <1>2
  <2>2. CASE j \in 1..Len(w) /\ z[j] = w[j]
    BY <2>1, <2>2 DEF MixerOK, LastAcquired
  <2>3. CASE z[j] = m
    BY <2>3
  <2> QED
    BY <1>2, <2>2, <2>3
<1>8. HeldAlone({u}, z, x, o)
    BY <1>2 DEF MixerOK, HeldAlone
<1>9. JoinsOwn(z, x, kn)
  <2> SUFFICES ASSUME NEW i \in 1..Len(z), z[i].op = "join"
               PROVE  /\ <<z[i].user, z[i].loop>> \in kn /\ x.name \in {None, z[i].user}
                      /\ \A j \in 1..Len(z) : j < i /\ z[j].op \in Naming => z[j].user = z[i].user
    BY DEF JoinsOwn
  <2>1. CASE i \in 1..Len(w) /\ z[i] = w[i]
    <3>1. /\ <<w[i].user, w[i].loop>> \in kn /\ x.name \in {None, w[i].user}
          /\ \A j \in 1..Len(w) : j < i /\ w[j].op \in Naming => w[j].user = w[i].user
        BY <2>1 DEF MixerOK, JoinsOwn
    <3>2. \A j \in 1..Len(z) : j < i => j \in 1..Len(w) /\ z[j] = w[j]
        BY <1>1, <1>2, <2>1
    <3> QED
        BY <2>1, <3>1, <3>2
  <2>2. CASE i = Len(w) + 1 /\ z[i] = m
    <3>1. x.name \in {None, u} /\ \A j \in 1..Len(w) : w[j].op \in Naming => w[j].user = u
        BY <2>2 DEF MixerOK, HeldAlone
    <3>2. \A j \in 1..Len(z) : j < i => j \in 1..Len(w) /\ z[j] = w[j]
        BY <1>1, <1>2, <2>2
    <3> QED
        BY <2>2, <3>1, <3>2
  <2> QED
    BY <1>2, <2>1, <2>2
<1>10. LoopsOwn(x, kn)
    BY DEF MixerOK, LoopsOwn
<1> QED
    BY <1>4, <1>5, <1>6, <1>7, <1>8, <1>9, <1>10 DEF MixerOK

(* What executing a request does to name and loops.                        *)
LEMMA ExecuteFacts ==
    ASSUME NEW x \in [name : Users \cup {None}, loops : SUBSET Loops], NEW m \in Messages, NEW code,
           code \in MixerCodes(x, m), NEW y, y = MixerExecute(x, m, code)
    PROVE  /\ m.op \in Naming /\ code = "ok" => y.name = m.user /\ y.loops = {}
           /\ m.op \in Naming /\ code # "ok" => y.name = None /\ y.loops = {}
           /\ m.op = "release" => y.name = None /\ y.loops = {} /\ code = "ok"
           /\ m.op \notin Naming \cup {"release"} => y.name = x.name
           /\ m.op = "join" => y.loops \subseteq x.loops \cup {m.loop} /\ (x.name = None => y.loops = x.loops)
           /\ m.op \notin Naming \cup {"release", "join"} => y.loops \subseteq x.loops
<1>1. m.op \in Naming => code \in {"ok", "error"}
    BY DEF MixerCodes, Naming
<1>2. CASE m.op \in Naming
    BY <1>1, <1>2 DEF MixerExecute, CoreRelease, Idle, Naming
<1>3. CASE m.op = "release"
    BY <1>3 DEF MixerExecute, CoreRelease, Idle, Naming, MixerCodes
<1>4. CASE m.op = "join"
  <2>1. x.name = None => code = "error"
    BY <1>4 DEF MixerCodes
  <2>2. y = x \/ (x.name # None /\ y = [x EXCEPT !.loops = @ \cup {m.loop}])
    BY <1>4, <2>1 DEF MixerExecute
  <2> QED
    BY <1>4, <2>2 DEF Naming
<1>5. CASE m.op = "leave"
  <2>1. y = [x EXCEPT !.loops = @ \ {m.loop}]
    BY <1>5 DEF MixerExecute
  <2> QED
    BY <1>5, <2>1 DEF Naming
<1>6. CASE m.op \notin {"acquire", "forward", "release", "join", "leave"}
  <2>1. y = x
    BY <1>6 DEF MixerExecute
  <2> QED
    BY <1>6, <2>1 DEF Naming
<1> QED
    BY <1>2, <1>3, <1>4, <1>5, <1>6 DEF Naming

(* What the owners o know after an answer: p.                              *)
OwnersAfter(o, p, m, code) ==
    \A v \in Users : p[v] = IF m.op = "acquire" /\ v = m.user /\ o[v] = "asked"
                            THEN IF code = "ok" THEN "held" ELSE "gone" ELSE o[v]

(* The session in the slot after an answer that takes m.user out if rel.   *)
Leaves(us, vs, rel, m) == vs = {v \in us : ~(rel /\ v = m.user)}

(* The request m at the head: a waiting session's acquisition, queued once,*)
(* or one of a session that has left the slot; a release of the latter.    *)
HeadFits(us, w, o, m) ==
    /\ m.op = "acquire" => (o[m.user] = "asked" /\ m.user \in us) \/ (o[m.user] = "gone" /\ m.user \notin us)
    /\ m.op = "release" => m.user \notin us
    /\ \A i \in 1..Len(w) : m.op = "acquire" /\ w[i].op = "acquire" /\ w[i].user = m.user => i = 1

(* The request at the head is executed and the mixer is kept.              *)
LEMMA AnsweredAt ==
    ASSUME NEW us \in SUBSET Users, NEW vs, NEW w \in Seq(Messages), w # <<>>,
           NEW x \in [name : Users \cup {None}, loops : SUBSET Loops], NEW o, NEW p, NEW jn,
           MixerOK(us, w, x, o, jn), NEW m, m = Head(w), NEW code, code \in MixerCodes(x, m),
           NEW y, y = MixerExecute(x, m, code), NEW z, z = Tail(w), NEW rel \in BOOLEAN,
           rel <=> (m.op = "acquire" /\ code = "error") \/ (m.op = "release" /\ code = "ok"),
           Leaves(us, vs, rel, m), OwnersAfter(o, p, m, code), HeadFits(us, w, o, m)
    PROVE  MixerOK(vs, z, y, p, jn)
<1> USE DEF Leaves, HeadFits
<1>1. /\ Len(w) \in Nat /\ Len(w) >= 1 /\ m = w[1] /\ Len(z) = Len(w) - 1
      /\ \A i \in 1..Len(z) : z[i] = w[i + 1]
      /\ \A i \in 1..Len(w) : w[i] \in Messages
    BY QueueFacts
<1>2. /\ 1 \in 1..Len(w) /\ m \in Messages
      /\ \A i \in 1..Len(z) : i + 1 \in 1..Len(w) /\ z[i] = w[i + 1] /\ 1 < i + 1 /\ i + 1 # 1
      /\ \A j \in 1..Len(w) : j # 1 => j - 1 \in 1..Len(z) /\ z[j - 1] = w[j]
  <2>1. 1 \in 1..Len(w)
    BY <1>1
  <2>2. \A i \in 1..Len(z) : i + 1 \in 1..Len(w) /\ 1 < i + 1 /\ i + 1 # 1
    BY <1>1
  <2>3. \A j \in 1..Len(w) : j # 1 => j - 1 \in 1..Len(z) /\ (j - 1) + 1 = j
    BY <1>1
  <2>4. \A j \in 1..Len(w) : j # 1 => z[j - 1] = w[j]
    BY <1>1, <2>3
  <2> QED
    BY <1>1, <2>1, <2>2, <2>3, <2>4
<1>3. m.user \in Users /\ \A i \in 1..Len(w) : w[i].user \in Users
    BY <1>1, <1>2 DEF Messages
<1>4. /\ m.op \in Naming /\ code = "ok" => y.name = m.user /\ y.loops = {}
      /\ m.op \in Naming /\ code # "ok" => y.name = None /\ y.loops = {}
      /\ m.op = "release" => y.name = None /\ y.loops = {} /\ code = "ok"
      /\ m.op \notin Naming \cup {"release"} => y.name = x.name
      /\ m.op = "join" => y.loops \subseteq x.loops \cup {m.loop} /\ (x.name = None => y.loops = x.loops)
      /\ m.op \notin Naming \cup {"release", "join"} => y.loops \subseteq x.loops
    BY <1>2, ExecuteFacts
<1>5. None \notin Users
    BY NoneAssumption
<1>6. /\ NamesReleased(us, w) /\ NameReleased(us, w, x) /\ WaitingUnnamed(w, x, o) /\ LastAcquired(us, w)
      /\ HeldAlone(us, w, x, o) /\ JoinsOwn(w, x, jn) /\ LoopsOwn(x, jn)
    BY DEF MixerOK
<1>7. NamesReleased(vs, z)
  <2> SUFFICES ASSUME NEW i \in 1..Len(z), z[i].op \in Naming
               PROVE  \/ z[i].user \in vs
                      \/ \E j \in 1..Len(z) : j > i /\ z[j].op = "release" /\ z[j].user = z[i].user
    BY DEF NamesReleased
  <2>1. i + 1 \in 1..Len(w) /\ z[i] = w[i + 1] /\ i + 1 # 1 /\ i \in Nat
    BY <1>2
  <2>2. CASE \E j \in 1..Len(w) : j > i + 1 /\ w[j].op = "release" /\ w[j].user = w[i + 1].user
    <3>1. PICK j \in 1..Len(w) : j > i + 1 /\ w[j].op = "release" /\ w[j].user = w[i + 1].user
        BY <2>2
    <3>2. j - 1 \in 1..Len(z) /\ z[j - 1] = w[j] /\ j - 1 > i
        BY <1>2, <2>1, <3>1
    <3> QED
        BY <2>1, <3>1, <3>2
  <2>3. CASE w[i + 1].user \in us /\ w[i + 1].user \notin vs
    <3>1. rel /\ w[i + 1].user = m.user
        BY <2>3
    <3>2. m.op = "acquire" /\ o[m.user] = "asked"
        BY <2>3, <3>1
    <3>3. w[i + 1].op # "acquire"
        BY <2>1, <3>1, <3>2
    <3>4. w[i + 1].op # "forward"
        BY <1>3, <1>6, <2>1, <3>1, <3>2 DEF WaitingUnnamed
    <3> QED
        BY <2>1, <3>3, <3>4 DEF Naming
  <2> QED
    BY <1>6, <2>1, <2>2, <2>3 DEF NamesReleased
<1>8. NameReleased(vs, z, y)
  <2> SUFFICES ASSUME y.name \in Users
               PROVE  y.name \in vs \/ \E j \in 1..Len(z) : z[j].op = "release" /\ z[j].user = y.name
    BY DEF NameReleased
  <2>1. m.op # "release" /\ ~rel
    BY <1>4, <1>5 DEF Naming
  <2>2. vs = us
    BY <2>1
  <2>3. y.name \in us \/ \E j \in 1..Len(w) : w[j].op = "release" /\ w[j].user = y.name
    <3>1. CASE m.op \in Naming
      <4>1. y.name = m.user
        BY <1>4, <1>5, <3>1
      <4> QED
        BY <1>1, <1>2, <1>6, <3>1, <4>1 DEF NamesReleased
    <3>2. CASE m.op \notin Naming
      <4>1. y.name = x.name
        BY <1>4, <2>1, <3>2
      <4> QED
        BY <1>6, <4>1 DEF NameReleased
    <3> QED
        BY <3>1, <3>2
  <2>4. CASE \E j \in 1..Len(w) : w[j].op = "release" /\ w[j].user = y.name
    <3>1. PICK j \in 1..Len(w) : w[j].op = "release" /\ w[j].user = y.name
        BY <2>4
    <3>2. j # 1
        BY <1>1, <2>1, <3>1
    <3> QED
        BY <1>2, <3>1, <3>2
  <2> QED
    BY <2>2, <2>3, <2>4
<1>9. WaitingUnnamed(z, y, p)
  <2> SUFFICES ASSUME NEW v \in Users, p[v] \in {"new", "asked"}
               PROVE  y.name # v /\ \A i \in 1..Len(z) : z[i].op = "forward" => z[i].user # v
    BY DEF WaitingUnnamed
  <2>1. o[v] \in {"new", "asked"} /\ ~(m.op = "acquire" /\ v = m.user)
    BY <1>3 DEF OwnersAfter
  <2>2. x.name # v /\ \A i \in 1..Len(w) : w[i].op = "forward" => w[i].user # v
    BY <1>6, <2>1 DEF WaitingUnnamed
  <2>3. m.op \in Naming => m.user # v
    BY <1>1, <1>2, <2>1, <2>2 DEF Naming
  <2> QED
    BY <1>2, <1>4, <1>5, <2>2, <2>3
<1>10. LastAcquired(vs, z)
  <2> SUFFICES ASSUME NEW i \in 1..Len(z), NEW j \in 1..Len(z), i < j, z[i].op = "acquire",
                      z[i].user \in vs, z[j].op \in Naming
               PROVE  z[j].user = z[i].user
    BY DEF LastAcquired
  <2>1. /\ i + 1 \in 1..Len(w) /\ z[i] = w[i + 1] /\ j + 1 \in 1..Len(w) /\ z[j] = w[j + 1]
        /\ i + 1 < j + 1
    BY <1>2
  <2> QED
    BY <1>6, <2>1 DEF LastAcquired
<1>11. HeldAlone(vs, z, y, p)
  <2> SUFFICES ASSUME NEW v \in vs, p[v] = "held"
               PROVE  y.name \in {None, v} /\ \A i \in 1..Len(z) : z[i].op \in Naming => z[i].user = v
    BY DEF HeldAlone
  <2>1. v \in us /\ v \in Users
    OBVIOUS
  <2>2. CASE o[v] = "held"
    <3>1. x.name \in {None, v} /\ \A i \in 1..Len(w) : w[i].op \in Naming => w[i].user = v
        BY <1>6, <2>1, <2>2 DEF HeldAlone
    <3>2. m.op \in Naming => m.user = v
        BY <1>1, <1>2, <3>1
    <3> QED
        BY <1>2, <1>4, <3>1, <3>2
  <2>3. CASE o[v] # "held"
    <3>1. m.op = "acquire" /\ v = m.user /\ code = "ok"
        BY <2>1, <2>3 DEF OwnersAfter
    <3>2. y.name = v
        BY <1>4, <3>1 DEF Naming
    <3>3. ASSUME NEW i \in 1..Len(z), z[i].op \in Naming PROVE z[i].user = v
        BY <1>1, <1>2, <1>6, <2>1, <3>1, <3>3 DEF LastAcquired
    <3> QED
        BY <3>2, <3>3
  <2> QED
    BY <2>2, <2>3
<1>12. JoinsOwn(z, y, jn)
  <2> SUFFICES ASSUME NEW i \in 1..Len(z), z[i].op = "join"
               PROVE  /\ <<z[i].user, z[i].loop>> \in jn /\ y.name \in {None, z[i].user}
                      /\ \A j \in 1..Len(z) : j < i /\ z[j].op \in Naming => z[j].user = z[i].user
    BY DEF JoinsOwn
  <2>1. i + 1 \in 1..Len(w) /\ z[i] = w[i + 1] /\ 1 < i + 1
    BY <1>2
  <2>2. /\ <<w[i + 1].user, w[i + 1].loop>> \in jn /\ x.name \in {None, w[i + 1].user}
        /\ \A j \in 1..Len(w) : j < i + 1 /\ w[j].op \in Naming => w[j].user = w[i + 1].user
    BY <1>6, <2>1 DEF JoinsOwn
  <2>3. \A j \in 1..Len(z) : j < i => j + 1 \in 1..Len(w) /\ z[j] = w[j + 1] /\ j + 1 < i + 1
    BY <1>2
  <2>4. m.op \in Naming => m.user = w[i + 1].user
    BY <1>1, <1>2, <2>1, <2>2
  <2>5. y.name \in {None, w[i + 1].user}
    BY <1>4, <2>2, <2>4
  <2> QED
    BY <2>1, <2>2, <2>3, <2>5
<1>13. LoopsOwn(y, jn)
  <2> SUFFICES ASSUME NEW l \in y.loops PROVE <<y.name, l>> \in jn
    BY DEF LoopsOwn
  <2>1. m.op \notin Naming \cup {"release"} /\ y.name = x.name
    BY <1>4
  <2>2. CASE l \in x.loops
    BY <1>6, <2>1, <2>2 DEF LoopsOwn
  <2>3. CASE l \notin x.loops
    <3>1. m.op = "join" /\ l = m.loop /\ x.name # None
        BY <1>4, <2>1, <2>3
    <3>2. <<m.user, m.loop>> \in jn /\ x.name = m.user
        BY <1>1, <1>2, <1>6, <3>1 DEF JoinsOwn
    <3> QED
        BY <2>1, <3>1, <3>2
  <2> QED
    BY <2>2, <2>3
<1> QED
    BY <1>7, <1>8, <1>9, <1>10, <1>11, <1>12, <1>13 DEF MixerOK

(* The mixer at s after a step.                                            *)
OKNext(s) == MixerOK(LostUser(be', s), be'.wire[s], be'.mix[s], own', joins')

(* A mixer whose slot, queue and process a step leaves alone.              *)
LEMMA QuietAt ==
    ASSUME AudioInv, NEW t \in Sockets, \A v \in Users : be'.slot[t] = v <=> be.slot[t] = v,
           be'.wire[t] = be.wire[t], be'.mix[t] = be.mix[t], joins \subseteq joins',
           \A v \in Users : own'[v] \in {"new", "asked"} => own[v] \in {"new", "asked"},
           \A v \in Users : be.slot[t] = v /\ own'[v] = "held" => own[v] = "held"
    PROVE  OKNext(t)
<1>1. LostUser(be', t) = LostUser(be, t)
    BY DEF LostUser
<1>2. MixerOK(LostUser(be, t), be.wire[t], be.mix[t], own, joins)
    BY DEF AudioInv
<1>3. \A v \in LostUser(be, t) : own'[v] = "held" => own[v] = "held"
    BY DEF LostUser
<1>4. MixerOK(LostUser(be, t), be.wire[t], be.mix[t], own', joins')
    BY <1>2, <1>3, QuietMixer
<1> QED
    BY <1>1, <1>4 DEF OKNext

(* A mixer that has just connected or was just closed.                     *)
LEMMA CleanAt ==
    ASSUME NEW s \in Sockets, be'.wire[s] = <<>>, be'.mix[s] = Idle
    PROVE  OKNext(s)
    BY CleanMixer DEF OKNext

(* A mixer connects.                                                       *)
LEMMA ConnectAudio ==
    ASSUME IndInv, AudioInv, NEW s \in Sockets, MixerConnect(s), NEW t \in Sockets
    PROVE  OKNext(t)
<1>1. /\ \A v \in Users : be'.slot[t] = v <=> be.slot[t] = v
      /\ own' = own /\ joins' = joins /\ be'.wire[s] = <<>> /\ be'.mix[s] = Idle
      /\ t # s => be'.wire[t] = be.wire[t] /\ be'.mix[t] = be.mix[t]
    BY ConnectEffect
<1> QED
    BY <1>1, QuietAt, CleanAt

(* A mixer is lost.                                                        *)
LEMMA CloseAudio ==
    ASSUME IndInv, AudioInv, NEW s \in Sockets, MixerClose(s), NEW t \in Sockets
    PROVE  OKNext(t)
<1>1. /\ t # s => \A v \in Users : be'.slot[t] = v <=> be.slot[t] = v
      /\ own' = [v \in Users |-> IF be.slot[s] = v THEN "gone" ELSE own[v]] /\ joins' = joins
      /\ be'.wire[s] = <<>> /\ be'.mix[s] = Idle
      /\ t # s => be'.wire[t] = be.wire[t] /\ be'.mix[t] = be.mix[t]
    BY CloseEffect
<1>2. \A v \in Users : own'[v] = own[v] \/ own'[v] = "gone"
    BY <1>1
<1>3. CASE t = s
    BY <1>1, <1>3, CleanAt
<1>4. CASE t # s
    BY <1>1, <1>2, <1>4, QuietAt
<1> QED
    BY <1>3, <1>4

(* A mixer is asked for.                                                   *)
LEMMA AcquireAudio ==
    ASSUME IndInv, AudioInv, NEW u \in Users, NEW r \in Reqs, Acquire(u, r), NEW t \in Sockets
    PROVE  OKNext(t)
<1>1. /\ own[u] = "new" /\ joins' = joins
      /\ \/ be' = be /\ own' = [own EXCEPT ![u] = "gone"]
         \/ \E f \in Sockets, m \in Messages : Taken(u, f, m)
    BY AcquireEffect
<1>2. CASE be' = be /\ own' = [own EXCEPT ![u] = "gone"]
  <2>1. \A v \in Users : own'[v] = own[v] \/ own'[v] = "gone"
    BY <1>2, Typing
  <2> QED
    BY <1>1, <1>2, <2>1, QuietAt
<1>3. CASE \E f \in Sockets, m \in Messages : Taken(u, f, m)
  <2>1. PICK f \in Sockets, m \in Messages : Taken(u, f, m)
    BY <1>3
  <2>2. /\ be.slot[f] = Free /\ m.op = "acquire" /\ m.user = u
        /\ be'.slot = [be.slot EXCEPT ![f] = u] /\ be'.mix = be.mix
        /\ be'.wire = [be.wire EXCEPT ![f] = Append(be.wire[f], m)]
        /\ own' = [own EXCEPT ![u] = "asked"]
    BY <2>1 DEF Taken
  <2>3. own'[u] = "asked" /\ SameBut(own, own', u)
    BY <2>2, Typing DEF SameBut
  <2>4. CASE t # f
    <3>1. be'.slot[t] = be.slot[t] /\ be'.wire[t] = be.wire[t] /\ be'.mix[t] = be.mix[t]
        BY <2>2, <2>4, Typing
    <3> QED
        BY <1>1, <2>3, <3>1, QuietAt DEF SameBut
  <2>5. CASE t = f
    <3>1. LostUser(be, t) = {} /\ LostUser(be', t) = {u}
        BY <2>2, <2>5, Typing, SlotStatesAssumption DEF LostUser
    <3>2. be'.wire[t] = Append(be.wire[t], m) /\ be'.mix[t] = be.mix[t] /\ be.wire[t] \in Seq(Messages)
        BY <2>2, <2>5, Typing
    <3>3. NotAsked(be.wire[t], u)
        BY <1>1 DEF IndInv, WireConsistent, AcquireQueued, NotAsked
    <3>4. MixerOK({}, be.wire[t], be.mix[t], own, joins)
        BY <3>1 DEF AudioInv
    <3>5. MixerOK({u}, be'.wire[t], be.mix[t], own', joins)
      <4>1. m.op = "acquire" /\ m.user = u /\ own[u] = "new"
        BY <1>1, <2>2
      <4> QED
        BY <2>3, <3>2, <3>3, <3>4, <4>1, AcquireQueuedAt
    <3> QED
        BY <1>1, <3>1, <3>2, <3>5 DEF OKNext
  <2> QED
    BY <2>4, <2>5
<1> QED
    BY <1>1, <1>2, <1>3

(* A mixer is given back.                                                  *)
LEMMA ReleaseAudio ==
    ASSUME IndInv, AudioInv, NEW u \in Users, NEW r \in Reqs, Release(u, r), NEW t \in Sockets
    PROVE  OKNext(t)
<1>1. /\ joins' = joins /\ own' = [own EXCEPT ![u] = "gone"] /\ be'.mix = be.mix
      /\ \A v \in Users : be'.slot[t] = v <=> v # u /\ be.slot[t] = v
      /\ \/ be'.wire = be.wire /\ \A q \in Sockets : be.slot[q] # u
         \/ \E g \in Sockets, m \in Messages : Returned(u, g, m)
    BY ReleaseEffect
<1>2. own'[u] = "gone" /\ SameBut(own, own', u)
    BY <1>1, Typing DEF SameBut
<1>3. ASSUME be.slot[t] # u, be'.wire[t] = be.wire[t] PROVE OKNext(t)
  <2>1. \A v \in Users : be'.slot[t] = v <=> be.slot[t] = v
    BY <1>1, <1>3
  <2> QED
    BY <1>1, <1>2, <1>3, <2>1, QuietAt DEF SameBut
<1>4. CASE be'.wire = be.wire /\ \A q \in Sockets : be.slot[q] # u
    BY <1>3, <1>4
<1>5. ASSUME NEW g \in Sockets, NEW m \in Messages, be.slot[g] = u, m.op = "release", m.user = u,
             be'.wire = [be.wire EXCEPT ![g] = Append(be.wire[g], m)]
      PROVE  OKNext(t)
  <2>1. CASE t # g
    <3>1. be'.wire[t] = be.wire[t]
        BY <1>5, <2>1, Typing
    <3>2. be.slot[t] # u
        BY <1>5, <2>1 DEF IndInv, SlotsIndexed
    <3> QED
        BY <1>3, <3>1, <3>2
  <2>2. CASE t = g
    <3>1. LostUser(be, t) = {u} /\ LostUser(be', t) = {}
        BY <1>1, <1>5, <2>2 DEF LostUser
    <3>2. be'.wire[t] = Append(be.wire[t], m) /\ be'.mix[t] = be.mix[t] /\ be.wire[t] \in Seq(Messages)
        BY <1>1, <1>5, <2>2, Typing
    <3>3. MixerOK({u}, be.wire[t], be.mix[t], own, joins)
        BY <3>1 DEF AudioInv
    <3>4. MixerOK({}, be'.wire[t], be.mix[t], own', joins)
      <4>1. m.op = "release" /\ m.user = u
        BY <1>5
      <4> QED
        BY <1>2, <3>2, <3>3, <4>1, ReleaseQueuedAt
    <3> QED
        BY <1>1, <3>1, <3>2, <3>4 DEF OKNext
  <2> QED
    BY <2>1, <2>2
<1> QED
    BY <1>1, <1>4, <1>5 DEF Returned

(* A session asks its mixer for something.                                 *)
LEMMA RequestAudio ==
    ASSUME IndInv, AudioInv, NEW op \in Ops, NEW u \in Users, NEW r \in Reqs, NEW l \in Loops,
           Request(op, u, r, l), NEW t \in Sockets
    PROVE  OKNext(t)
<1>1. /\ own' = own /\ be'.slot = be.slot /\ be'.mix = be.mix /\ joins \subseteq joins'
      /\ \/ be'.wire = be.wire
         \/ \E g \in Sockets, m \in Messages : Asked(op, u, g, m)
    BY RequestEffect
<1>2. CASE be'.wire[t] = be.wire[t]
    BY <1>1, <1>2, QuietAt
<1>3. ASSUME NEW g \in Sockets, NEW m \in Messages, be.slot[g] = u, m.op = op, m.user = u,
             op \in {"join", "forward"} => own[u] = "held", op = "join" => <<u, m.loop>> \in joins',
             be'.wire = [be.wire EXCEPT ![g] = Append(be.wire[g], m)]
      PROVE  OKNext(t)
  <2>1. CASE t # g
    BY <1>2, <1>3, <2>1, Typing
  <2>2. CASE t = g
    <3>1. LostUser(be, t) = {u} /\ LostUser(be', t) = {u}
        BY <1>1, <1>3, <2>2 DEF LostUser
    <3>2. be'.wire[t] = Append(be.wire[t], m) /\ be'.mix[t] = be.mix[t] /\ be.wire[t] \in Seq(Messages)
        BY <1>1, <1>3, <2>2, Typing
    <3>3. MixerOK({u}, be.wire[t], be.mix[t], own, joins)
        BY <3>1 DEF AudioInv
    <3>4. m.op \notin {"acquire", "release"}
        BY <1>3, OpsAssumption
    <3>5. MixerOK({u}, be'.wire[t], be.mix[t], own, joins')
        BY <1>1, <1>3, <3>2, <3>3, <3>4, RequestQueuedAt
    <3> QED
        BY <1>1, <3>1, <3>2, <3>5 DEF OKNext
  <2> QED
    BY <2>1, <2>2
<1> QED
    BY <1>1, <1>2, <1>3 DEF Asked

(* A mixer answers.                                                        *)
LEMMA AnswerAudio ==
    ASSUME IndInv, AudioInv, NEW s \in Sockets, NEW code \in {"ok", "error"}, Answer(s, code),
           NEW t \in Sockets
    PROVE  OKNext(t)
<1> DEFINE m == Head(be.wire[s])
<1>1. m = Head(be.wire[s])
    OBVIOUS
<1> HIDE DEF m
<1>2. /\ be.wire[s] # <<>> /\ m \in Messages /\ m.user \in Users /\ joins' = joins
      /\ m = be.wire[s][1] /\ 1 \in 1..Len(be.wire[s]) /\ code \in MixerCodes(be.mix[s], m)
      /\ TakesOut(s, code) <=> (m.op = "acquire" /\ code = "error") \/ (m.op = "release" /\ code = "ok")
      /\ m.op = "acquire" => AcquireQueued(be, own, s, m.user)
      /\ m.op = "release" => ReleaseQueued(be, own, m.user)
      /\ SlotsAnswered(s, code, m)
      /\ ForcesReconnect(be, s) => OwnersLost(s, code, m)
      /\ ~ForcesReconnect(be, s) => OwnersTold(code, m)
      /\ QueuesAnswered(s) /\ MixersAnswered(s, code, m)
    BY <1>1, AnswerEffect
<1>3. \A q \in Sockets, v \in Users : be.slot[q] = v => own[v] \in {"asked", "held"}
    BY DEF IndInv, NoMixerLeak
<1>4. /\ m.op = "acquire" => \/ own[m.user] = "asked" /\ be.slot[s] = m.user
                             \/ own[m.user] = "gone" /\ \A q \in Sockets : be.slot[q] # m.user
      /\ m.op = "release" => \A q \in Sockets : be.slot[q] # m.user
  <2>1. own[m.user] = "gone" => \A q \in Sockets : be.slot[q] # m.user
    BY <1>2, <1>3
  <2>2. /\ m.op = "acquire" => (own[m.user] = "asked" /\ be.slot[s] = m.user) \/ own[m.user] = "gone"
        /\ m.op = "release" => own[m.user] = "gone"
    <3>1. m.op = "acquire" => AcquireQueued(be, own, s, m.user)
        BY <1>2
    <3>2. m.op = "release" => ReleaseQueued(be, own, m.user)
        BY <1>2
    <3> QED
        BY <3>1, <3>2 DEF AcquireQueued, ReleaseQueued
  <2> QED
    BY <2>1, <2>2
<1>5. \A q \in Sockets, v \in Users : be.slot[s] = v /\ be.slot[q] = v => q = s
    BY DEF IndInv, SlotsIndexed
<1>6. CASE t # s
  <2>1. be'.wire[t] = be.wire[t] /\ be'.mix[t] = be.mix[t]
    <3>1. be.wire \in [Sockets -> Seq(Messages)] /\ DOMAIN be.mix = Sockets
        BY Typing DEF BackendStates
    <3> QED
        BY <1>2, <1>6, <3>1 DEF QueuesAnswered, MixersAnswered
  <2>2. TakesOut(s, code) => be.slot[t] # m.user
    BY <1>2, <1>4, <1>5, <1>6
  <2>3. \A v \in Users : be'.slot[t] = v <=> be.slot[t] = v
    BY <1>2, <1>6, <2>2 DEF SlotsAnswered
  <2>4. \A v \in Users : own'[v] \in {"new", "asked"} => own[v] \in {"new", "asked"}
    BY <1>2 DEF OwnersLost, OwnersTold
  <2>5. \A v \in Users : be.slot[t] = v /\ own'[v] = "held" => own[v] = "held"
    <3> SUFFICES ASSUME NEW v \in Users, be.slot[t] = v, own'[v] = "held", own[v] # "held"
                 PROVE  FALSE
        OBVIOUS
    <3>1. m.op = "acquire" /\ v = m.user /\ own[v] = "asked"
        BY <1>2 DEF OwnersLost, OwnersTold
    <3> QED
        BY <1>4, <1>5, <1>6, <3>1
  <2> QED
    BY <1>2, <2>1, <2>3, <2>4, <2>5, QuietAt
<1>7. CASE t = s /\ ForcesReconnect(be, s)
  <2>1. be'.wire[s] = <<>> /\ be'.mix[s] = Idle
    <3>1. be.wire \in [Sockets -> Seq(Messages)] /\ DOMAIN be.mix = Sockets
        BY Typing DEF BackendStates
    <3> QED
        BY <1>2, <1>7, <3>1 DEF QueuesAnswered, MixersAnswered
  <2> QED
    BY <1>7, <2>1, CleanAt
<1>8. CASE t = s /\ ~ForcesReconnect(be, s)
  <2>1. /\ be'.wire[s] = Tail(be.wire[s]) /\ be'.mix[s] = MixerExecute(be.mix[s], m, code)
        /\ be.wire[s] \in Seq(Messages) /\ be.mix[s] \in [name : Users \cup {None}, loops : SUBSET Loops]
    <3>1. /\ be.wire \in [Sockets -> Seq(Messages)]
          /\ be.mix \in [Sockets -> [name : Users \cup {None}, loops : SUBSET Loops]]
        BY Typing DEF BackendStates
    <3> QED
        BY <1>2, <1>8, <3>1 DEF QueuesAnswered, MixersAnswered
  <2> DEFINE us == LostUser(be, s)
             vs == LostUser(be', s)
             rel == TakesOut(s, code)
  <2>2. /\ us \in SUBSET Users /\ vs = {v \in us : ~(rel /\ v = m.user)}
        /\ m.user \in us <=> be.slot[s] = m.user
    BY <1>2, <1>8 DEF LostUser, SlotsAnswered
  <2>3. MixerOK(us, be.wire[s], be.mix[s], own, joins)
    BY DEF AudioInv
  <2>4. OwnersAfter(own, own', m, code)
    BY <1>2, <1>8 DEF OwnersTold, OwnersAfter
  <2>5. rel \in BOOLEAN /\ (rel <=> (m.op = "acquire" /\ code = "error") \/ (m.op = "release" /\ code = "ok"))
    BY <1>2 DEF TakesOut, AnswerReleases
  <2>6. /\ m.op = "acquire" => (own[m.user] = "asked" /\ m.user \in us) \/ (own[m.user] = "gone" /\ m.user \notin us)
        /\ m.op = "release" => m.user \notin us
    BY <1>4, <2>2
  <2>7. \A i \in 1..Len(be.wire[s]) :
            m.op = "acquire" /\ be.wire[s][i].op = "acquire" /\ be.wire[s][i].user = m.user => i = 1
    BY <1>2 DEF IndInv, AcquireOnce
  <2>8. be.wire[s] # <<>> /\ code \in MixerCodes(be.mix[s], m)
    BY <1>2
  <2> HIDE DEF us, vs, rel
  <2>9. Leaves(us, vs, rel, m) /\ HeadFits(us, be.wire[s], own, m) /\ us \in SUBSET Users
    BY <2>2, <2>6, <2>7 DEF Leaves, HeadFits
  <2>10. MixerOK(vs, be'.wire[s], be'.mix[s], own', joins)
    BY <1>1, <2>1, <2>3, <2>4, <2>5, <2>8, <2>9, AnsweredAt
  <2> QED
    BY <1>2, <1>8, <2>10 DEF OKNext, vs
<1> QED
    BY <1>6, <1>7, <1>8

(* Every step keeps every mixer in order.                                  *)
LEMMA AudioStep == IndInv /\ AudioInv /\ [Next]_vars => AudioInv'
<1> SUFFICES ASSUME IndInv, AudioInv, [Next]_vars, NEW t \in Sockets PROVE OKNext(t)
    BY DEF AudioInv, OKNext
<1>1. ASSUME NEW r \in Reqs, ExpireCallback(r) PROVE OKNext(t)
  <2>1. be'.slot = be.slot /\ be'.wire = be.wire /\ be'.mix = be.mix /\ own' = own /\ joins' = joins
    BY <1>1, Typing DEF ExpireCallback, UnregisterCallback, BackendStates
  <2> QED
    BY <2>1, QuietAt
<1>2. CASE UNCHANGED vars
  <2>1. be' = be /\ own' = own /\ joins' = joins
    BY <1>2 DEF vars
  <2> QED
    BY <2>1, QuietAt
<1> QED
    BY <1>1, <1>2, ConnectAudio, CloseAudio, AnswerAudio, AcquireAudio, ReleaseAudio, RequestAudio
    DEF Next, MixerAnswers

(* Before any mixer has connected there is nothing to be wrong about.      *)
LEMMA AudioInitially == Init => AudioInv
<1> SUFFICES ASSUME Init, NEW s \in Sockets
             PROVE  MixerOK(LostUser(be, s), be.wire[s], be.mix[s], own, joins)
    BY DEF AudioInv
<1>1. be.wire[s] = <<>> /\ be.mix[s] = Idle
    BY DEF Init, BackendInit
<1> QED
    BY <1>1, CleanMixer

(* Names, queues and loops of every mixer are in order in every reachable  *)
(* state.                                                                  *)
THEOREM AudioInvHolds == Spec => []AudioInv
    BY IndInvHolds, AudioInitially, AudioStep, PTL DEF Spec

(* A mixer whose connection is drained carries the name of the session in  *)
(* its slot or none, although slots are handed on before the mixer has     *)
(* confirmed the release (release_mixer in ov_mc_backend.c).               *)
THEOREM DrainedMixersNamed == Spec => []MixerFollowsRegistry
<1>1. IndInv /\ AudioInv => MixerFollowsRegistry
  <2> SUFFICES ASSUME IndInv, AudioInv, NEW s \in Sockets, be.wire[s] = <<>>
               PROVE  be.mix[s].name \in {None, be.slot[s]}
    BY DEF MixerFollowsRegistry
  <2>1. be.mix[s].name \in Users \cup {None}
    BY Typing DEF BackendStates
  <2>2. NameReleased(LostUser(be, s), be.wire[s], be.mix[s])
    BY DEF AudioInv, MixerOK
  <2>3. be.mix[s].name \in Users => be.mix[s].name \in LostUser(be, s)
    BY <2>2 DEF NameReleased
  <2> QED
    BY <2>1, <2>3 DEF LostUser
<1> QED
    BY <1>1, IndInvHolds, AudioInvHolds, PTL

(* Audio isolation for any number of mixers, sessions, loops and requests: *)
(* a mixer named for a session has joined only loops that session asked    *)
(* for (ov_mc_mixer_app.c, ov_mc_mixer_core.c behind ov_mc_backend.c).     *)
THEOREM AudioIsolated == Spec => []NoForeignLoops
<1>1. AudioInv => NoForeignLoops
    BY DEF AudioInv, MixerOK, LoopsOwn, NoForeignLoops
<1> QED
    BY <1>1, AudioInvHolds, PTL
=============================================================================
