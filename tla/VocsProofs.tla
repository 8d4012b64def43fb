----------------------------- MODULE VocsProofs -----------------------------
(***************************************************************************)
(* Proofs about VocsSystem for any number of clients, sessions, loops,     *)
(* requests, mixers and proxies.                                           *)
(***************************************************************************)
EXTENDS VocsSystem, WellFoundedInduction, SequenceTheorems, FiniteSetTheorems, TLAPS

-----------------------------------------------------------------------------
(* What is under way, and the uuids that mark it.                          *)

In(w) == {w[i] : i \in 1..Len(w)}

LoopOps == {"join", "leave", "volume"}
TalkOps == {"talk on", "talk off"}

(* A request's uuid marks one position of a queue.                         *)
Once(w) ==
    \A i, j \in 1..Len(w) : w[i].id \in ClientReqs /\ w[i].id = w[j].id => i = j

(* No request of w has the same uuid as one of z.                          *)
Apart(w, z) == \A m \in In(w), n \in In(z) : m.id = n.id => m.id \notin ClientReqs

(* W are the queues of the mixers, V those of the proxies: a request is    *)
(* under way in one place, one position of one connection.                 *)
Tokens(W, V) ==
    /\ \A s \in Sockets : Once(W[s])
    /\ \A p \in Proxies : Once(V[p])
    /\ \A s, t \in Sockets : s # t => Apart(W[s], W[t])
    /\ \A p, q \in Proxies : p # q => Apart(V[p], V[q])
    /\ \A s \in Sockets, p \in Proxies : Apart(W[s], V[p])

(* No request with this uuid is under way.                                 *)
Absent(W, V, r) ==
    /\ \A s \in Sockets : \A m \in In(W[s]) : m.id # r
    /\ \A p \in Proxies : \A m \in In(V[p]) : m.id # r

(* What a request to a mixer says, and what is stored for its answer.      *)
BeWorded(m, iss, mk) ==
    /\ m.op \in {"acquire", "release"} \cup LoopOps /\ m.user \in mk
    /\ m.op = "release" => m.id = m.user
    /\ m.op # "release" => m.id \in iss
    /\ m.op \in LoopOps => m.loop \in Loops
    /\ m.op = "join" => Permission[m.loop] # "none"

BeAwaited(m, e) ==
    /\ m.op \in LoopOps /\ e.loop = m.loop
    /\ m.op = "join" => e.want \in {"recv", "send"} /\ Granted(Permission[m.loop], e.want)

BeMeant(W, a, iss, mk) ==
    \A s \in Sockets : \A m \in In(W[s]) :
        BeWorded(m, iss, mk) /\ \A e \in a : e.id = m.id => BeAwaited(m, e)

(* A session is acquired for once.                                         *)
AcquireOnce(W) ==
    \A s, t \in Sockets : \A m \in In(W[s]), n \in In(W[t]) :
        m.op = "acquire" /\ n.op = "acquire" /\ m.user = n.user => m.id = n.id

(* What is said to and by a proxy, and what is stored for an answer.       *)
FeWorded(m, iss, mk) ==
    /\ m.op \in {"drop", "failed"} => m.id = None
    /\ m.op \notin {"drop", "failed"} => m.id \in iss
    /\ m.op # "create" => m.session \in mk
    /\ m.op = "create" => m.session = None
    /\ m.op \in TalkOps => m.loop \in Loops
    /\ m.op = "talk on" => Permission[m.loop] = "send"

FeAwaited(m, e, d) ==
    /\ e.id \notin d
    /\ m.op \in TalkOps => e.loop = m.loop /\ (m.op = "talk on" => e.want = "send")
    /\ m.op \in {"create", "update", "candidate"} => e.loop = None

FeMeant(V, a, d, iss, mk) ==
    \A p \in Proxies : \A m \in In(V[p]) :
        FeWorded(m, iss, mk) /\ \A e \in a : e.id = m.id => FeAwaited(m, e, d)

(* The stored requests are those of uuids used, one for each.              *)
Stored(a, d, iss) ==
    /\ \A e \in a : e.id \in iss
    /\ \A e, g \in a : e.id = g.id => e = g
    /\ d \subseteq iss /\ \A e \in a : e.id \in d => e.loop = None

Permitted(b, f) ==
    /\ \A s \in Sockets : \A l \in b.mix[s].loops : Permission[l] # "none"
    /\ \A S \in Users : \A l \in f.talk[S] : Permission[l] = "send"

FiniteTables(f) == \A p \in Proxies : IsFiniteSet(f.owned[p])

(* Nobody knows of a session that no proxy has made.                       *)
Unknown(x, S) ==
    /\ x.sess[S] = NoSocket /\ \A c \in Clients : x.conn[c].session # S
    /\ x.be.users[S] = NoSlot /\ \A s \in Sockets : x.be.slot[s] # S
    /\ x.fe.home[S] = NoSocket /\ x.fe.talk[S] = {}
    /\ \A p \in Proxies : S \notin x.fe.live[p] /\ S \notin x.fe.owned[p]

(* The part of the invariant that holds whatever clients do.               *)
Base(x, iss, mk) ==
    /\ x \in VocsStates /\ iss \subseteq ClientReqs /\ mk \subseteq Users
    /\ Stored(x.async, x.ldap, iss)
    /\ Tokens(x.be.wire, x.fe.wire)
    /\ BeMeant(x.be.wire, x.async, iss, mk) /\ AcquireOnce(x.be.wire)
    /\ FeMeant(x.fe.wire, x.async, x.ldap, iss, mk)
    /\ Permitted(x.be, x.fe) /\ FiniteTables(x.fe)
    /\ \A S \in Users \ mk : Unknown(x, S)

-----------------------------------------------------------------------------
(* Queues.                                                                 *)

(* What is in a queue after it has grown or has lost its head.             *)
LEMMA QueueFacts ==
    ASSUME NEW T, NEW w \in Seq(T)
    PROVE  /\ In(w) \subseteq T
           /\ \A m \in T : Append(w, m) \in Seq(T) /\ In(Append(w, m)) = In(w) \cup {m}
           /\ \A m \in T : <<m>> \o w \in Seq(T) /\ In(<<m>> \o w) = In(w) \cup {m}
           /\ w # <<>> => /\ Head(w) \in T /\ Tail(w) \in Seq(T)
                          /\ In(w) = In(Tail(w)) \cup {Head(w)}
<1>0. Len(w) \in Nat /\ In(w) \subseteq T
    BY DEF In
<1>1. ASSUME NEW m \in T
      PROVE  Append(w, m) \in Seq(T) /\ In(Append(w, m)) = In(w) \cup {m}
  <2>1. /\ Append(w, m) \in Seq(T) /\ Len(Append(w, m)) = Len(w) + 1
        /\ \A i \in 1..Len(w) : Append(w, m)[i] = w[i]
        /\ Append(w, m)[Len(w) + 1] = m
    BY AppendProperties
  <2>2. ASSUME NEW i \in 1..Len(w) + 1 PROVE Append(w, m)[i] \in In(w) \cup {m}
    BY <1>0, <2>1 DEF In
  <2>3. ASSUME NEW i \in 1..Len(w) PROVE w[i] \in In(Append(w, m))
    <3>1. i \in 1..Len(Append(w, m)) /\ Append(w, m)[i] = w[i]
        BY <1>0, <2>1
    <3> QED
        BY <3>1 DEF In
  <2>4. m \in In(Append(w, m))
    <3>1. Len(w) + 1 \in 1..Len(Append(w, m))
        BY <1>0, <2>1
    <3> QED
        BY <2>1, <3>1, Zenon DEF In
  <2> QED
    BY <2>1, <2>2, <2>3, <2>4 DEF In
<1>2. ASSUME NEW m \in T
      PROVE  <<m>> \o w \in Seq(T) /\ In(<<m>> \o w) = In(w) \cup {m}
  <2>1. /\ <<m>> \in Seq(T) /\ Len(<<m>>) = 1 /\ <<m>>[1] = m
    OBVIOUS
  <2>2. /\ <<m>> \o w \in Seq(T) /\ Len(<<m>> \o w) = Len(w) + 1
        /\ \A i \in 1..Len(w) + 1 : (<<m>> \o w)[i] = IF i <= 1 THEN <<m>>[i] ELSE w[i - 1]
    BY <1>0, <2>1, ConcatProperties
  <2>3. ASSUME NEW i \in 1..Len(w) + 1 PROVE (<<m>> \o w)[i] \in In(w) \cup {m}
    <3>1. CASE i = 1
        BY <2>1, <2>2, <3>1
    <3>2. CASE i # 1
      <4>1. (<<m>> \o w)[i] = w[i - 1] /\ i - 1 \in 1..Len(w)
        BY <1>0, <2>2, <3>2
      <4> QED
        BY <4>1 DEF In
    <3> QED
        BY <3>1, <3>2
  <2>4. ASSUME NEW i \in 1..Len(w) PROVE w[i] \in In(<<m>> \o w)
    <3>1. i + 1 \in 1..Len(<<m>> \o w) /\ (<<m>> \o w)[i + 1] = w[i]
        BY <1>0, <2>2
    <3> QED
        BY <3>1, Zenon DEF In
  <2>5. m \in In(<<m>> \o w)
    <3>1. 1 \in 1..Len(<<m>> \o w) /\ (<<m>> \o w)[1] = m
        BY <1>0, <2>1, <2>2
    <3> QED
        BY <3>1, Zenon DEF In
  <2> QED
    BY <2>2, <2>3, <2>4, <2>5 DEF In
<1>3. ASSUME w # <<>>
      PROVE  Head(w) \in T /\ Tail(w) \in Seq(T) /\ In(w) = In(Tail(w)) \cup {Head(w)}
  <2>1. /\ Head(w) \in T /\ Tail(w) \in Seq(T) /\ Head(w) = w[1]
        /\ Len(Tail(w)) = Len(w) - 1 /\ Len(w) >= 1
        /\ \A i \in 1..Len(Tail(w)) : Tail(w)[i] = w[i + 1]
    BY <1>3, HeadTailProperties
  <2>2. ASSUME NEW i \in 1..Len(w) PROVE w[i] \in In(Tail(w)) \cup {Head(w)}
    <3>1. CASE i = 1
        BY <2>1, <3>1
    <3>2. CASE i # 1
      <4>1. i - 1 \in 1..Len(Tail(w)) /\ Tail(w)[i - 1] = w[i]
        BY <1>0, <2>1, <3>2
      <4> QED
        BY <4>1, Zenon DEF In
    <3> QED
        BY <3>1, <3>2
  <2>3. ASSUME NEW i \in 1..Len(Tail(w)) PROVE Tail(w)[i] \in In(w)
    <3>1. i + 1 \in 1..Len(w) /\ Tail(w)[i] = w[i + 1]
        BY <1>0, <2>1
    <3> QED
        BY <3>1, Zenon DEF In
  <2>4. Head(w) \in In(w)
    <3>1. 1 \in 1..Len(w)
        BY <1>0, <2>1
    <3> QED
        BY <2>1, <3>1, Zenon DEF In
  <2> QED
    BY <2>1, <2>2, <2>3, <2>4 DEF In
<1> QED
    BY <1>0, <1>1, <1>2, <1>3

(* Nothing is in an empty queue.                                            *)
LEMMA EmptyQueue == In(<<>>) = {}
    BY DEF In

(* Uuids still mark one position after a queue has grown by a new one, or  *)
(* has lost its head, whose uuid is then not in the queue any more.        *)
LEMMA OnceFacts ==
    ASSUME NEW T, NEW w \in Seq(T), Once(w)
    PROVE  /\ \A m \in T : (m.id \in ClientReqs => \A n \in In(w) : n.id # m.id) =>
                Once(Append(w, m)) /\ Once(<<m>> \o w)
           /\ w # <<>> => /\ Once(Tail(w))
                          /\ Head(w).id \in ClientReqs => \A n \in In(Tail(w)) : n.id # Head(w).id
<1>0. Len(w) \in Nat
    OBVIOUS
<1>1. ASSUME NEW m \in T, m.id \in ClientReqs => \A n \in In(w) : n.id # m.id
      PROVE  Once(Append(w, m))
  <2>1. /\ Len(Append(w, m)) = Len(w) + 1
        /\ \A i \in 1..Len(w) : Append(w, m)[i] = w[i]
        /\ Append(w, m)[Len(w) + 1] = m
    BY AppendProperties
  <2>2. \A i \in 1..Len(w) : w[i] \in In(w)
    BY DEF In
  <2>3. ASSUME NEW i \in 1..Len(w) + 1, NEW j \in 1..Len(w) + 1,
               Append(w, m)[i].id \in ClientReqs, Append(w, m)[i].id = Append(w, m)[j].id
        PROVE  i = j
    <3>1. CASE i \in 1..Len(w) /\ j \in 1..Len(w)
        BY <2>1, <2>3, <3>1 DEF Once
    <3>2. CASE i \notin 1..Len(w) \/ j \notin 1..Len(w)
        BY <1>0, <1>1, <2>1, <2>2, <2>3, <3>2
    <3> QED
        BY <3>1, <3>2
  <2> QED
    BY <2>1, <2>3 DEF Once
<1>2. ASSUME NEW m \in T, m.id \in ClientReqs => \A n \in In(w) : n.id # m.id
      PROVE  Once(<<m>> \o w)
  <2> DEFINE z == <<m>> \o w
  <2>1. /\ <<m>> \in Seq(T) /\ Len(<<m>>) = 1 /\ <<m>>[1] = m
    OBVIOUS
  <2>2. /\ Len(z) = Len(w) + 1
        /\ \A i \in 1..Len(w) + 1 : z[i] = IF i <= 1 THEN <<m>>[i] ELSE w[i - 1]
    BY <1>0, <2>1, ConcatProperties
  <2>3. \A i \in 1..Len(w) : w[i] \in In(w)
    BY DEF In
  <2>4. z[1] = m /\ \A i \in 2..Len(w) + 1 : z[i] = w[i - 1] /\ i - 1 \in 1..Len(w)
    BY <1>0, <2>1, <2>2
  <2> HIDE DEF z
  <2>5. ASSUME NEW i \in 1..Len(w) + 1, NEW j \in 1..Len(w) + 1,
               z[i].id \in ClientReqs, z[i].id = z[j].id
        PROVE  i = j
    <3>1. CASE i # 1 /\ j # 1
      <4>1. i \in 2..Len(w) + 1 /\ j \in 2..Len(w) + 1
        BY <1>0, <3>1
      <4>2. i - 1 = j - 1
        BY <2>4, <2>5, <4>1 DEF Once
      <4> QED
        BY <4>2
    <3>2. CASE i = 1 /\ j # 1
        BY <1>0, <1>2, <2>3, <2>4, <2>5, <3>2
    <3>3. CASE i # 1 /\ j = 1
        BY <1>0, <1>2, <2>3, <2>4, <2>5, <3>3
    <3> QED
        BY <3>1, <3>2, <3>3
  <2> QED
    BY <2>2, <2>5 DEF Once, z
<1>3. ASSUME w # <<>>
      PROVE  /\ Once(Tail(w))
             /\ Head(w).id \in ClientReqs => \A n \in In(Tail(w)) : n.id # Head(w).id
  <2>1. /\ Head(w) = w[1] /\ Len(Tail(w)) = Len(w) - 1 /\ Len(w) >= 1
        /\ \A i \in 1..Len(Tail(w)) : Tail(w)[i] = w[i + 1]
    BY <1>3, HeadTailProperties
  <2>2. \A i \in 1..Len(Tail(w)) : i + 1 \in 1..Len(w) /\ i + 1 # 1
    BY <1>0, <2>1
  <2>3. \A i, j \in 1..Len(Tail(w)) : i + 1 = j + 1 => i = j
    BY <1>0, <2>1
  <2>4. 1 \in 1..Len(w)
    BY <1>0, <2>1
  <2>5. Once(Tail(w))
    BY <2>1, <2>2, <2>3 DEF Once
  <2>6. ASSUME Head(w).id \in ClientReqs, NEW i \in 1..Len(Tail(w))
        PROVE  Tail(w)[i].id # Head(w).id
    BY <2>1, <2>2, <2>4, <2>6 DEF Once
  <2> QED
    BY <2>5, <2>6 DEF In
<1> QED
    BY <1>1, <1>2, <1>3

-----------------------------------------------------------------------------
(* The fields of the backend after its operators.                          *)

Mixers == [name : Users \cup {None}, loops : SUBSET Loops]

(* What the type says of each field.                                       *)
LEMMA BackendTyping ==
    ASSUME NEW b \in BackendStates
    PROVE  /\ b.slot \in [Sockets -> Users \cup {Closed, Free}]
           /\ b.users \in [Users -> Sockets \cup {NoSlot}]
           /\ b.cbs \in SUBSET Reqs /\ b.wire \in [Sockets -> Seq(Messages)]
           /\ b.mix \in [Sockets -> Mixers]
           /\ NoSlot \notin Sockets /\ Closed \notin Users /\ Free \notin Users
           /\ Closed # Free /\ None \notin Users /\ None \notin Loops
    BY SocketsAssumption, SlotStatesAssumption, NoneAssumption DEF BackendStates, Mixers, NoSlot

(* The scan of acquire_user stops at a free slot if there is one.          *)
LEMMA FirstFreeIsFree ==
    ASSUME NEW b, FreeSlots(b) # {}
    PROVE  FirstFree(b) \in Sockets /\ b.slot[FirstFree(b)] = Free
<1>1. FreeSlots(b) \subseteq Nat
    BY SocketsAssumption DEF FreeSlots
<1>2. PICK s \in FreeSlots(b) : \A t \in FreeSlots(b) : ~ (<<t, s>> \in OpToRel(<, Nat))
    BY <1>1, WFMin, NatLessThanWellFounded, Zenon
<1>3. \A t \in FreeSlots(b) : ~ (t < s)
    BY <1>1, <1>2, Zenon DEF OpToRel
<1>4. \E x \in FreeSlots(b) : \A t \in FreeSlots(b) : x <= t
    BY <1>1, <1>3
<1>5. FirstFree(b) \in FreeSlots(b)
    BY <1>4, Zenon DEF FirstFree
<1> QED
    BY <1>5 DEF FreeSlots

(* The slots after release_user: the one the dictionary names is emptied.  *)
Emptied(b, u) == [s \in Sockets |-> IF s = b.users[u] /\ b.slot[s] # Closed THEN Free ELSE b.slot[s]]

(* release_user empties that slot and forgets u.                           *)
LEMMA ReleaseUserFields ==
    ASSUME NEW b \in BackendStates, NEW u \in Users
    PROVE  /\ ReleaseUser(b, u) \in BackendStates
           /\ ReleaseUser(b, u).slot = Emptied(b, u)
           /\ ReleaseUser(b, u).users = [b.users EXCEPT ![u] = NoSlot]
           /\ ReleaseUser(b, u).cbs = b.cbs
           /\ ReleaseUser(b, u).wire = b.wire
           /\ ReleaseUser(b, u).mix = b.mix
    BY DEF BackendStates, ReleaseUser, NoSlot, Emptied

(* A connection of a mixer starts and ends with nothing queued.            *)
LEMMA CloseMixerFields ==
    ASSUME NEW b \in BackendStates, NEW s \in Sockets
    PROVE  /\ CloseMixer(b, s) \in BackendStates
           /\ CloseMixer(b, s).slot = [b.slot EXCEPT ![s] = Closed]
           /\ CloseMixer(b, s).users = b.users /\ CloseMixer(b, s).cbs = b.cbs
           /\ CloseMixer(b, s).wire = [b.wire EXCEPT ![s] = <<>>]
           /\ CloseMixer(b, s).mix = [b.mix EXCEPT ![s] = Idle]
<1>1. Idle \in [name : Users \cup {None}, loops : SUBSET Loops] /\ <<>> \in Seq(Messages)
    BY DEF Idle
<1> QED
    BY <1>1 DEF BackendStates, CloseMixer, UnregisterMixer

(* Registering a mixer frees its slot with an empty queue and mixer.       *)
LEMMA RegisterFields ==
    ASSUME NEW b \in BackendStates, NEW s \in Sockets
    PROVE  /\ CbEventRegister(b, s) \in BackendStates
           /\ CbEventRegister(b, s).slot = [b.slot EXCEPT ![s] = Free]
           /\ CbEventRegister(b, s).users = b.users /\ CbEventRegister(b, s).cbs = b.cbs
           /\ CbEventRegister(b, s).wire = [b.wire EXCEPT ![s] = <<>>]
           /\ CbEventRegister(b, s).mix = [b.mix EXCEPT ![s] = Idle]
<1>1. Idle \in [name : Users \cup {None}, loops : SUBSET Loops] /\ <<>> \in Seq(Messages)
    BY DEF Idle
<1> QED
    BY <1>1 DEF BackendStates, CbEventRegister, RegisterMixer

(* Callbacks come and go and leave the registry, queues and mixers alone.  *)
LEMMA CallbackFields ==
    ASSUME NEW b \in BackendStates, NEW r \in Reqs
    PROVE  /\ RegisterCallback(b, r) \in BackendStates
           /\ RegisterCallback(b, r).slot = b.slot /\ RegisterCallback(b, r).users = b.users
           /\ RegisterCallback(b, r).wire = b.wire /\ RegisterCallback(b, r).mix = b.mix
           /\ RegisterCallback(b, r).cbs = b.cbs \cup {r}
           /\ UnregisterCallback(b, r) \in BackendStates
           /\ UnregisterCallback(b, r).slot = b.slot /\ UnregisterCallback(b, r).users = b.users
           /\ UnregisterCallback(b, r).wire = b.wire /\ UnregisterCallback(b, r).mix = b.mix
           /\ UnregisterCallback(b, r).cbs = b.cbs \ {r}
    BY DEF BackendStates, RegisterCallback, UnregisterCallback

(* Sending registers a callback and queues one message.                    *)
LEMMA SendFields ==
    ASSUME NEW b \in BackendStates, NEW s \in Sockets, NEW r \in Reqs, NEW m \in Messages
    PROVE  /\ SendMixer(RegisterCallback(b, r), s, m) \in BackendStates
           /\ SendMixer(RegisterCallback(b, r), s, m).slot = b.slot
           /\ SendMixer(RegisterCallback(b, r), s, m).users = b.users
           /\ SendMixer(RegisterCallback(b, r), s, m).cbs = b.cbs \cup {r}
           /\ SendMixer(RegisterCallback(b, r), s, m).mix = b.mix
           /\ SendMixer(RegisterCallback(b, r), s, m).wire =
                [b.wire EXCEPT ![s] = Append(b.wire[s], m)]
<1>1. Append(b.wire[s], m) \in Seq(Messages)
    BY AppendProperties DEF BackendStates
<1> QED
    BY <1>1 DEF BackendStates, SendMixer, RegisterCallback

(* get_user returns a connected slot or none.                              *)
LEMMA GetUserType ==
    ASSUME NEW b \in BackendStates, NEW u \in Users
    PROVE  /\ HasMixer(b, u) <=> b.users[u] # NoSlot /\ b.slot[b.users[u]] # Closed
           /\ HasMixer(b, u) => GetUser(b, u) = b.users[u] /\ b.users[u] \in Sockets
    BY DEF BackendStates, HasMixer, GetUser, NoSlot

(* The messages the core sends have the type of messages.                  *)
LEMMA MessageType ==
    ASSUME NEW op \in BackendOps, NEW r \in Reqs, NEW u \in Users, NEW l \in Loops \cup {None},
           op = "join" => l \in Loops
    PROVE  /\ Message(op, r, u, l) \in Messages
           /\ Message(op, r, u, l).op = op /\ Message(op, r, u, l).id = r
           /\ Message(op, r, u, l).user = u /\ Message(op, r, u, l).loop = l
    BY DEF Message, Messages

(* A session without a mixer gets the first free slot and asks the mixer.  *)
LEMMA AcquireMixerFields ==
    ASSUME NEW b \in BackendStates, NEW r \in Reqs, NEW u \in Users, MixerAvailable(b)
    PROVE  /\ AcquireMixer(b, r, u) \in BackendStates
           /\ FirstFree(b) \in Sockets /\ b.slot[FirstFree(b)] = Free
           /\ AcquireMixer(b, r, u).slot = [b.slot EXCEPT ![FirstFree(b)] = u]
           /\ AcquireMixer(b, r, u).users = [b.users EXCEPT ![u] = FirstFree(b)]
           /\ AcquireMixer(b, r, u).cbs = b.cbs \cup {r}
           /\ AcquireMixer(b, r, u).mix = b.mix
           /\ AcquireMixer(b, r, u).wire =
                [b.wire EXCEPT ![FirstFree(b)] = Append(@, Message("acquire", r, u, None))]
<1> DEFINE s == FirstFree(b)
           m == Message("acquire", r, u, None)
           g == AcquireUser(b, u)
<1>1. s \in Sockets /\ b.slot[s] = Free
    BY FirstFreeIsFree DEF MixerAvailable
<1>2. m \in Messages
    BY MessageType DEF BackendOps
<1>3. AcquireMixer(b, r, u) = SendMixer(RegisterCallback(g, r), s, m)
    BY DEF AcquireMixer
<1> HIDE DEF s, m
<1>4. /\ g \in BackendStates
      /\ g.slot = [b.slot EXCEPT ![s] = u] /\ g.users = [b.users EXCEPT ![u] = s]
      /\ g.cbs = b.cbs /\ g.wire = b.wire /\ g.mix = b.mix
    BY <1>1 DEF BackendStates, AcquireUser, MixerAvailable, s
<1> HIDE DEF g
<1> QED
    BY <1>1, <1>2, <1>3, <1>4, SendFields DEF s, m

(* A session's mixer is free at once and is told later.                    *)
LEMMA ReleaseMixerFields ==
    ASSUME NEW b \in BackendStates, NEW u \in Users
    PROVE  /\ ReleaseMixer(b, u, u) \in BackendStates
           /\ ReleaseMixer(b, u, u).slot = Emptied(b, u)
           /\ ReleaseMixer(b, u, u).users = [b.users EXCEPT ![u] = NoSlot]
           /\ ReleaseMixer(b, u, u).mix = b.mix
           /\ b.cbs \subseteq ReleaseMixer(b, u, u).cbs
           /\ HasMixer(b, u) => b.users[u] \in Sockets
           /\ ReleaseMixer(b, u, u).wire =
                IF HasMixer(b, u)
                THEN [b.wire EXCEPT ![b.users[u]] = Append(@, Message("release", u, u, None))]
                ELSE b.wire
<1> DEFINE s == b.users[u]
           m == Message("release", u, u, None)
           g == SendMixer(RegisterCallback(b, u), s, m)
<1>1. CASE HasMixer(b, u)
  <2>1. s \in Sockets /\ GetUser(b, u) = s /\ u \in Reqs
    BY <1>1, GetUserType, ReleaseIdsAssumption
  <2>2. m \in Messages
    BY <2>1, MessageType DEF BackendOps
  <2>3. ReleaseMixer(b, u, u) = ReleaseUser(g, u)
    BY <1>1, <2>1 DEF ReleaseMixer
  <2> HIDE DEF m, s
  <2>4. /\ g \in BackendStates /\ g.slot = b.slot /\ g.users = b.users
        /\ g.cbs = b.cbs \cup {u} /\ g.mix = b.mix
        /\ g.wire = [b.wire EXCEPT ![s] = Append(b.wire[s], m)]
    BY <2>1, <2>2, SendFields
  <2> HIDE DEF g
  <2>5. /\ ReleaseUser(g, u) \in BackendStates
        /\ ReleaseUser(g, u).slot = Emptied(g, u)
        /\ ReleaseUser(g, u).users = [g.users EXCEPT ![u] = NoSlot]
        /\ ReleaseUser(g, u).cbs = g.cbs
        /\ ReleaseUser(g, u).wire = g.wire
        /\ ReleaseUser(g, u).mix = g.mix
    BY <2>4, ReleaseUserFields
  <2>6. Emptied(g, u) = Emptied(b, u)
    BY <2>4 DEF Emptied
  <2> QED
    BY <1>1, <2>1, <2>3, <2>4, <2>5, <2>6 DEF s, m
<1>2. CASE ~HasMixer(b, u)
    BY <1>2, ReleaseUserFields DEF ReleaseMixer
<1> QED
    BY <1>1, <1>2

(* g is b with m sent to the mixer of u, if u has one, and its uuid kept.  *)
SentToMixer(b, g, u, m) ==
    /\ g \in BackendStates /\ g.slot = b.slot /\ g.users = b.users /\ g.mix = b.mix
    /\ g.cbs = b.cbs \cup {m.id}
    /\ HasMixer(b, u) => b.users[u] \in Sockets
    /\ g.wire = IF HasMixer(b, u) THEN [b.wire EXCEPT ![b.users[u]] = Append(b.wire[b.users[u]], m)]
                ELSE b.wire

(* A request about a loop is queued for the mixer of the session, if the   *)
(* session has one.                                                        *)
LEMMA LoopRequestFields ==
    ASSUME NEW b \in BackendStates, NEW op \in LoopOps, NEW r \in Reqs, NEW u \in Users,
           NEW l \in Loops
    PROVE  SentToMixer(b, LoopRequest(b, op, r, u, l), u, Message(op, r, u, l))
<1> DEFINE s == b.users[u]
           m == Message(op, r, u, l)
<1>0. m \in Messages /\ m.id = r
    BY MessageType DEF BackendOps, LoopOps
<1>1. CASE HasMixer(b, u)
  <2>1. s \in Sockets /\ GetUser(b, u) = s
    BY <1>1, GetUserType
  <2>3. LoopRequest(b, op, r, u, l) = SendMixer(RegisterCallback(b, r), s, m)
    BY <1>1, <2>1 DEF LoopRequest
  <2> HIDE DEF m, s
  <2> QED
    BY <1>0, <1>1, <2>1, <2>3, SendFields DEF s, m, SentToMixer
<1>2. CASE ~HasMixer(b, u)
    BY <1>0, <1>2, CallbackFields DEF LoopRequest, SentToMixer
<1> QED
    BY <1>1, <1>2

(* The mixer's next state has the type of a mixer.                         *)
LEMMA ExecuteType ==
    ASSUME NEW x \in Mixers, NEW m \in Messages, NEW code
    PROVE  MixerExecute(x, m, code) \in Mixers
<1>1. Idle \in Mixers
    BY DEF Idle, Mixers
<1>2. m.user \in Users /\ (m.op = "join" => m.loop \in Loops)
    BY DEF Messages
<1>3. [Idle EXCEPT !.name = m.user] \in Mixers
    BY <1>1, <1>2 DEF Mixers
<1>4. m.op = "join" => [x EXCEPT !.loops = @ \cup {m.loop}] \in Mixers
    BY <1>2 DEF Mixers
<1>5. [x EXCEPT !.loops = @ \ {m.loop}] \in Mixers
    BY DEF Mixers
<1> QED
    BY <1>1, <1>3, <1>4, <1>5 DEF MixerExecute, CoreRelease

(* The slots when an answer has been looked at.                            *)
SlotAfter(b, s, code) ==
    LET m == Head(b.wire[s]) IN
    IF AnswerReleases(m, code) THEN Emptied(b, m.user) ELSE b.slot

(* The fields after the whole handler of an answer.                        *)
AnswerHandled(b, s, code) ==
    LET m == Head(b.wire[s])
        g == HandleAnswer(b, s, code) IN
    /\ m \in Messages /\ g \in BackendStates
    /\ AnswerRegistry(b, s, code).slot = SlotAfter(b, s, code)
    /\ g.slot = IF ForcesReconnect(b, s) THEN [SlotAfter(b, s, code) EXCEPT ![s] = Closed]
                ELSE SlotAfter(b, s, code)
    /\ g.users = IF AnswerReleases(m, code) THEN [b.users EXCEPT ![m.user] = NoSlot] ELSE b.users
    /\ g.wire = [b.wire EXCEPT ![s] = IF ForcesReconnect(b, s) THEN <<>> ELSE Tail(b.wire[s])]
    /\ g.mix = [b.mix EXCEPT ![s] = IF ForcesReconnect(b, s) THEN Idle
                                    ELSE MixerExecute(b.mix[s], m, code)]
    /\ g.cbs = b.cbs \ {m.id}

(* The handler has them.                                                   *)
LEMMA HandleAnswerFields ==
    ASSUME NEW b \in BackendStates, NEW s \in Sockets, NEW code, b.wire[s] # <<>>
    PROVE  AnswerHandled(b, s, code)
<1> DEFINE m == Head(b.wire[s])
           w == Tail(b.wire[s])
           k == MixerExecute(b.mix[s], m, code)
           a == Answered(b, s, code)
           g == AnswerRegistry(b, s, code)
           h == UnregisterCallback(g, m.id)
<1>1. m \in Messages /\ w \in Seq(Messages)
    BY HeadTailProperties DEF BackendStates
<1>2. m.user \in Users /\ m.id \in Reqs
    BY <1>1 DEF Messages
<1>3. k \in Mixers
    BY <1>1, BackendTyping, ExecuteType
<1>4. a = [b EXCEPT !.wire[s] = w, !.mix[s] = k]
    BY DEF Answered
<1>5. g = IF AnswerReleases(m, code) THEN ReleaseUser(a, m.user) ELSE a
    BY DEF AnswerRegistry
<1>6. HandleAnswer(b, s, code) = IF ForcesReconnect(b, s) THEN CloseMixer(h, s) ELSE h
    BY DEF HandleAnswer
<1>7. SlotAfter(b, s, code) = IF AnswerReleases(m, code) THEN Emptied(b, m.user) ELSE b.slot
    BY DEF SlotAfter
<1> HIDE DEF m, w, k, a, g
<1>8. /\ a \in BackendStates /\ a.slot = b.slot /\ a.users = b.users /\ a.cbs = b.cbs
      /\ a.wire = [b.wire EXCEPT ![s] = w] /\ a.mix = [b.mix EXCEPT ![s] = k]
    BY <1>1, <1>3, <1>4 DEF BackendStates, Mixers
<1>9. Emptied(a, m.user) = Emptied(b, m.user)
    BY <1>8 DEF Emptied
<1>10. /\ g \in BackendStates /\ g.slot = SlotAfter(b, s, code)
       /\ g.users = IF AnswerReleases(m, code) THEN [b.users EXCEPT ![m.user] = NoSlot] ELSE b.users
       /\ g.wire = a.wire /\ g.cbs = b.cbs /\ g.mix = a.mix
  <2>1. CASE AnswerReleases(m, code)
    <3>1. g = ReleaseUser(a, m.user)
        BY <1>5, <2>1
    <3>2. /\ g \in BackendStates /\ g.slot = Emptied(a, m.user)
          /\ g.users = [a.users EXCEPT ![m.user] = NoSlot]
          /\ g.cbs = a.cbs /\ g.wire = a.wire /\ g.mix = a.mix
        BY <1>2, <1>8, <3>1, ReleaseUserFields, Zenon
    <3> QED
        BY <1>7, <1>8, <1>9, <2>1, <3>2
  <2>2. CASE ~AnswerReleases(m, code)
        BY <1>5, <1>7, <1>8, <2>2
  <2> QED
    BY <2>1, <2>2
<1>11. /\ h \in BackendStates /\ h.slot = g.slot /\ h.users = g.users /\ h.wire = g.wire
       /\ h.mix = g.mix /\ h.cbs = b.cbs \ {m.id}
    BY <1>2, <1>10, CallbackFields
<1> HIDE DEF h
<1>12. CASE ForcesReconnect(b, s)
  <2> DEFINE y == CloseMixer(h, s)
  <2>1. /\ y \in BackendStates /\ y.slot = [h.slot EXCEPT ![s] = Closed]
        /\ y.users = h.users /\ y.cbs = h.cbs
        /\ y.wire = [h.wire EXCEPT ![s] = <<>>] /\ y.mix = [h.mix EXCEPT ![s] = Idle]
    BY <1>11, CloseMixerFields
  <2>2. /\ [a.wire EXCEPT ![s] = <<>>] = [b.wire EXCEPT ![s] = <<>>]
        /\ [a.mix EXCEPT ![s] = Idle] = [b.mix EXCEPT ![s] = Idle]
    BY <1>8 DEF BackendStates
  <2> QED
    BY <1>1, <1>6, <1>8, <1>10, <1>11, <1>12, <2>1, <2>2 DEF m, g, AnswerHandled
<1>13. CASE ~ForcesReconnect(b, s)
    BY <1>1, <1>6, <1>8, <1>10, <1>11, <1>13 DEF m, g, w, k, AnswerHandled
<1> QED
    BY <1>12, <1>13

-----------------------------------------------------------------------------
(* The fields of the frontend after its operators.                         *)

(* What the type says of each field.                                       *)
LEMMA FrontendTyping ==
    ASSUME NEW f \in FE!FrontendStates
    PROVE  /\ f.open \in [Proxies -> BOOLEAN] /\ f.load \in [Proxies -> Nat]
           /\ f.owned \in [Proxies -> SUBSET Users]
           /\ f.home \in [Users -> Proxies \cup {NoSocket}]
           /\ f.wire \in [Proxies -> Seq(FE!ProxyMessages)]
           /\ f.live \in [Proxies -> SUBSET Users] /\ f.talk \in [Users -> SUBSET Loops]
           /\ NoSocket \notin Proxies /\ FE!NoProxy = NoSocket
           /\ None \notin Users /\ None \notin Loops /\ None \notin Reqs
    BY ProxiesAssumption, NoneAssumption, NoRequestAssumption
    DEF FE!FrontendStates, FE!NoProxy, NoSocket

(* g differs from f in its queues at most.                                 *)
OtherwiseSame(f, g) ==
    /\ g.open = f.open /\ g.load = f.load /\ g.owned = f.owned /\ g.home = f.home
    /\ g.live = f.live /\ g.talk = f.talk

(* Requests are sent along the wire of one proxy.                          *)
LEMMA SendProxyFields ==
    ASSUME NEW f \in FE!FrontendStates, NEW p \in Proxies, NEW m \in FE!ProxyMessages
    PROVE  /\ FE!SendProxy(f, p, m) \in FE!FrontendStates
           /\ OtherwiseSame(f, FE!SendProxy(f, p, m))
           /\ FE!SendProxy(f, p, m).wire = [f.wire EXCEPT ![p] = Append(f.wire[p], m)]
<1>1. Append(f.wire[p], m) \in Seq(FE!ProxyMessages)
    BY AppendProperties DEF FE!FrontendStates
<1> QED
    BY <1>1 DEF FE!SendProxy, FE!FrontendStates, OtherwiseSame

(* The messages the core sends have the type of messages.                  *)
LEMMA ProxyMessageType ==
    ASSUME NEW op \in FE!FrontendOps, NEW r \in Reqs \cup {None}, NEW S \in Users \cup {None},
           NEW l \in Loops \cup {None}
    PROVE  /\ FE!ProxyMessage(op, r, S, l) \in FE!ProxyMessages
           /\ FE!ProxyMessage(op, r, S, l).op = op /\ FE!ProxyMessage(op, r, S, l).id = r
           /\ FE!ProxyMessage(op, r, S, l).session = S /\ FE!ProxyMessage(op, r, S, l).loop = l
    BY DEF FE!ProxyMessage, FE!ProxyMessages

(* g is f with m sent to the home of session S, if it has an open one.     *)
SentHome(f, g, S, m) ==
    /\ g \in FE!FrontendStates /\ OtherwiseSame(f, g)
    /\ FE!HasProxy(f, S) => f.home[S] \in Proxies /\ f.open[f.home[S]]
    /\ g.wire = IF FE!HasProxy(f, S) THEN [f.wire EXCEPT ![f.home[S]] = Append(@, m)] ELSE f.wire

(* Requests about a session go to its home.                                *)
LEMMA SendHome ==
    ASSUME NEW f \in FE!FrontendStates, NEW S \in Users, NEW m \in FE!ProxyMessages
    PROVE  SentHome(f, IF ~FE!HasProxy(f, S) THEN f ELSE FE!SendProxy(f, f.home[S], m), S, m)
<1>0. OtherwiseSame(f, f)
    BY DEF OtherwiseSame
<1>1. FE!HasProxy(f, S) => f.home[S] \in Proxies /\ f.open[f.home[S]]
    BY DEF FE!HasProxy, FE!FrontendStates
<1>2. CASE FE!HasProxy(f, S)
    BY <1>1, <1>2, SendProxyFields DEF SentHome
<1>3. CASE ~FE!HasProxy(f, S)
    BY <1>0, <1>3 DEF SentHome
<1> QED
    BY <1>2, <1>3

DropMessage(S) == FE!ProxyMessage("drop", None, S, None)

(* The drop of a session.                                                  *)
LEMMA DropSessionFields ==
    ASSUME NEW f \in FE!FrontendStates, NEW S \in Users
    PROVE  /\ SentHome(f, FE!DropSession(f, S), S, DropMessage(S))
           /\ DropMessage(S) \in FE!ProxyMessages
           /\ DropMessage(S).op = "drop" /\ DropMessage(S).id = None /\ DropMessage(S).session = S
<1>1. /\ DropMessage(S) \in FE!ProxyMessages
      /\ DropMessage(S).op = "drop" /\ DropMessage(S).id = None /\ DropMessage(S).session = S
    BY DEF FE!FrontendOps, FE!ProxyMessages, FE!ProxyMessage, DropMessage
<1>2. FE!DropSession(f, S) = IF ~FE!HasProxy(f, S) THEN f ELSE FE!SendProxy(f, f.home[S], DropMessage(S))
    BY DEF FE!DropSession, DropMessage
<1>3. SentHome(f, IF ~FE!HasProxy(f, S) THEN f ELSE FE!SendProxy(f, f.home[S], DropMessage(S)),
               S, DropMessage(S))
    BY <1>1, SendHome
<1> QED
    BY <1>1, <1>2, <1>3

(* Requests of the client about its session.                               *)
LEMMA SignalFields ==
    ASSUME NEW f \in FE!FrontendStates, NEW S \in Users, NEW r \in Reqs
    PROVE  /\ SentHome(f, FE!UpdateSession(f, r, S), S, FE!ProxyMessage("update", r, S, None))
           /\ SentHome(f, FE!Candidate(f, r, S), S, FE!ProxyMessage("candidate", r, S, None))
<1> DEFINE u == FE!ProxyMessage("update", r, S, None)
           k == FE!ProxyMessage("candidate", r, S, None)
<1>1. u \in FE!ProxyMessages /\ k \in FE!ProxyMessages
    BY ProxyMessageType DEF FE!FrontendOps
<1>2. /\ FE!UpdateSession(f, r, S) = IF ~FE!HasProxy(f, S) THEN f ELSE FE!SendProxy(f, f.home[S], u)
      /\ FE!Candidate(f, r, S) = IF ~FE!HasProxy(f, S) THEN f ELSE FE!SendProxy(f, f.home[S], k)
    BY DEF FE!UpdateSession, FE!Candidate
<1> HIDE DEF u, k
<1>3. /\ SentHome(f, IF ~FE!HasProxy(f, S) THEN f ELSE FE!SendProxy(f, f.home[S], u), S, u)
      /\ SentHome(f, IF ~FE!HasProxy(f, S) THEN f ELSE FE!SendProxy(f, f.home[S], k), S, k)
    BY <1>1, SendHome
<1> QED
    BY <1>2, <1>3 DEF u, k

TalkMessage(r, S, on, l) == FE!ProxyMessage(IF on THEN "talk on" ELSE "talk off", r, S, l)

(* Talk.                                                                   *)
LEMMA TalkFields ==
    ASSUME NEW f \in FE!FrontendStates, NEW S \in Users, NEW r \in Reqs, NEW on \in BOOLEAN,
           NEW l \in Loops
    PROVE  SentHome(f, FE!Talk(f, r, S, on, l), S, TalkMessage(r, S, on, l))
<1>1. TalkMessage(r, S, on, l) \in FE!ProxyMessages
    BY ProxyMessageType DEF FE!FrontendOps, TalkMessage
<1>2. FE!Talk(f, r, S, on, l) =
        IF ~FE!HasProxy(f, S) THEN f ELSE FE!SendProxy(f, f.home[S], TalkMessage(r, S, on, l))
    BY DEF FE!Talk, TalkMessage
<1>3. SentHome(f, IF ~FE!HasProxy(f, S) THEN f ELSE FE!SendProxy(f, f.home[S], TalkMessage(r, S, on, l)),
               S, TalkMessage(r, S, on, l))
    BY <1>1, SendHome
<1> QED
    BY <1>2, <1>3

(* A non-empty set of numbers has a least element.                         *)
LEMMA LeastNumber ==
    ASSUME NEW T \in SUBSET Nat, T # {}
    PROVE  \E x \in T : \A y \in T : x <= y
<1>1. PICK x \in T : \A y \in T : ~ (<<y, x>> \in OpToRel(<, Nat))
    BY WFMin, NatLessThanWellFounded, Zenon
<1>2. \A y \in T : ~ (y < x)
    BY <1>1, Zenon DEF OpToRel
<1>3. x \in Nat /\ \A y \in T : y \in Nat
    OBVIOUS
<1> QED
    BY <1>2, <1>3

(* A request for a session goes to an open proxy, the least loaded one.    *)
LEMMA CreateSessionFields ==
    ASSUME NEW f \in FE!FrontendStates, NEW r \in Reqs, FE!ProxyAvailable(f)
    PROVE  \E p \in Proxies :
             /\ f.open[p] /\ FE!CreateSession(f, r) \in FE!FrontendStates
             /\ OtherwiseSame(f, FE!CreateSession(f, r))
             /\ FE!CreateSession(f, r).wire =
                  [f.wire EXCEPT ![p] = Append(f.wire[p], FE!ProxyMessage("create", r, None, None))]
<1> DEFINE O == FE!OpenProxies(f)
           L == {f.load[p] : p \in O}
<1>1. O # {} /\ O \in SUBSET Nat /\ O \subseteq Proxies /\ \A p \in O : f.open[p] /\ f.load[p] \in Nat
    BY ProxiesAssumption DEF FE!ProxyAvailable, FE!OpenProxies, FE!FrontendStates
<1> HIDE DEF O
<1>2. L # {} /\ L \in SUBSET Nat
    BY <1>1
<1>3. PICK x \in L : \A y \in L : x <= y
    BY <1>2, LeastNumber, Zenon
<1> DEFINE M == {p \in O : f.load[p] = x}
<1>4. M # {} /\ M \in SUBSET Nat
    BY <1>1, <1>3
<1>5. PICK p \in M : \A q \in M : p <= q
    BY <1>4, LeastNumber, Zenon
<1>6. \A q \in O : f.load[p] < f.load[q] \/ (f.load[p] = f.load[q] /\ p <= q)
  <2> TAKE q \in O
  <2>1. f.load[p] = x /\ f.load[q] \in L /\ x <= f.load[q] /\ x \in Nat /\ f.load[q] \in Nat
    BY <1>1, <1>3, <1>5
  <2>2. f.load[q] = x => p <= q
    BY <1>5
  <2> QED
    BY <2>1, <2>2
<1>7. p \in O
    BY <1>5
<1>8. FE!GetProxySocket(f) \in O
    BY <1>6, <1>7, Zenon DEF FE!GetProxySocket, O
<1> DEFINE g == FE!GetProxySocket(f)
           m == FE!ProxyMessage("create", r, None, None)
<1>9. g \in Proxies /\ f.open[g] /\ m \in FE!ProxyMessages
    BY <1>1, <1>8, ProxyMessageType DEF FE!FrontendOps
<1>10. FE!CreateSession(f, r) = FE!SendProxy(f, g, m)
    BY DEF FE!CreateSession
<1> HIDE DEF g, m
<1>11. /\ FE!CreateSession(f, r) \in FE!FrontendStates
       /\ OtherwiseSame(f, FE!CreateSession(f, r))
       /\ FE!CreateSession(f, r).wire = [f.wire EXCEPT ![g] = Append(f.wire[g], m)]
    BY <1>9, <1>10, SendProxyFields
<1> QED
    BY <1>9, <1>11 DEF m

(* Taking an answer off the wire.                                          *)
LEMMA ConsumeFields ==
    ASSUME NEW f \in FE!FrontendStates, NEW p \in Proxies, f.wire[p] # <<>>
    PROVE  /\ FE!Said(f, p) \in FE!ProxyMessages /\ FE!Said(f, p) = Head(f.wire[p])
           /\ FE!Consume(f, p) \in FE!FrontendStates
           /\ OtherwiseSame(f, FE!Consume(f, p))
           /\ FE!Consume(f, p).wire = [f.wire EXCEPT ![p] = Tail(f.wire[p])]
<1>1. Head(f.wire[p]) \in FE!ProxyMessages /\ Tail(f.wire[p]) \in Seq(FE!ProxyMessages)
    BY HeadTailProperties DEF FE!FrontendStates
<1> QED
    BY <1>1 DEF FE!Consume, FE!FrontendStates, FE!Said, OtherwiseSame

(* A proxy's connection starts with nothing queued.                        *)
LEMMA RegisterProxyFields ==
    ASSUME NEW f \in FE!FrontendStates, NEW p \in Proxies
    PROVE  /\ FE!RegisterProxy(f, p) \in FE!FrontendStates
           /\ FE!RegisterProxy(f, p).open = [f.open EXCEPT ![p] = TRUE]
           /\ FE!RegisterProxy(f, p).wire = [f.wire EXCEPT ![p] = <<>>]
           /\ FE!RegisterProxy(f, p).owned = f.owned /\ FE!RegisterProxy(f, p).home = f.home
           /\ FE!RegisterProxy(f, p).live = f.live /\ FE!RegisterProxy(f, p).talk = f.talk
<1>1. <<>> \in Seq(FE!ProxyMessages)
    OBVIOUS
<1> QED
    BY <1>1 DEF FE!RegisterProxy, FE!FrontendStates

(* g is f with the connection of p gone, whose process keeps some sessions. *)
ProxyGone(f, g, p, kept) ==
    /\ g \in FE!FrontendStates /\ g.open = [f.open EXCEPT ![p] = FALSE]
    /\ g.wire = [f.wire EXCEPT ![p] = <<>>] /\ g.owned = [f.owned EXCEPT ![p] = {}]
    /\ g.live = [f.live EXCEPT ![p] = kept] /\ g.home = f.home /\ g.talk = f.talk

(* It ends with nothing queued and nothing owned.                          *)
LEMMA UnregisterProxyFields ==
    ASSUME NEW f \in FE!FrontendStates, NEW p \in Proxies, NEW kept \in SUBSET Users
    PROVE  ProxyGone(f, FE!UnregisterProxy(f, p, kept), p, kept)
<1>1. <<>> \in Seq(FE!ProxyMessages)
    OBVIOUS
<1> QED
    BY <1>1 DEF FE!UnregisterProxy, FE!FrontendStates, ProxyGone

(* g is f with the head of the queue of p taken off and S entered for p.   *)
CreateHandled(f, g, p, S) ==
    /\ g \in FE!FrontendStates /\ g.open = f.open /\ g.talk = f.talk
    /\ g.wire = [f.wire EXCEPT ![p] = Tail(f.wire[p])]
    /\ g.live = [f.live EXCEPT ![p] = @ \cup {S}] /\ g.owned = [f.owned EXCEPT ![p] = @ \cup {S}]
    /\ g.home = [f.home EXCEPT ![S] = p]

(* A new session is entered in the dictionary and the table of its proxy.  *)
LEMMA SessionCreatedFields ==
    ASSUME NEW f \in FE!FrontendStates, NEW p \in Proxies, f.wire[p] # <<>>, NEW S \in Users
    PROVE  CreateHandled(f, FE!SessionCreated(f, p, S), p, S)
<1> DEFINE g == FE!Consume(f, p)
<1>1. g \in FE!FrontendStates /\ OtherwiseSame(f, g) /\ g.wire = [f.wire EXCEPT ![p] = Tail(f.wire[p])]
    BY ConsumeFields
<1>2. FE!SessionCreated(f, p, S) =
        [g EXCEPT !.live[p] = @ \cup {S}, !.owned[p] = @ \cup {S}, !.home[S] = p, !.load[p] = @ + 1]
    BY DEF FE!SessionCreated, FE!RegisterSession
<1> HIDE DEF g
<1> DEFINE h == FE!SessionCreated(f, p, S)
           lv == [g.live EXCEPT ![p] = g.live[p] \cup {S}]
           ow == [g.owned EXCEPT ![p] = g.owned[p] \cup {S}]
           hm == [g.home EXCEPT ![S] = p]
           ld == [g.load EXCEPT ![p] = g.load[p] + 1]
<1>5. h = [g EXCEPT !.live = lv, !.owned = ow, !.home = hm, !.load = ld]
    BY <1>1, <1>2 DEF FE!FrontendStates
<1>6. /\ lv \in [Proxies -> SUBSET Users] /\ ow \in [Proxies -> SUBSET Users]
      /\ hm \in [Users -> Proxies \cup {FE!NoProxy}] /\ ld \in [Proxies -> Nat]
    BY <1>1 DEF FE!FrontendStates
<1> HIDE DEF lv, ow, hm, ld
<1>3. /\ h \in FE!FrontendStates
      /\ h.open = g.open /\ h.talk = g.talk /\ h.wire = g.wire
      /\ h.live = [g.live EXCEPT ![p] = @ \cup {S}] /\ h.owned = [g.owned EXCEPT ![p] = @ \cup {S}]
      /\ h.home = [g.home EXCEPT ![S] = p]
  <2>1. /\ h \in FE!FrontendStates
        /\ h.open = g.open /\ h.talk = g.talk /\ h.wire = g.wire
        /\ h.live = lv /\ h.owned = ow /\ h.home = hm
    BY <1>1, <1>5, <1>6 DEF FE!FrontendStates
  <2> HIDE DEF h
  <2> QED
    BY <2>1 DEF lv, ow, hm
<1> HIDE DEF h
<1>4. /\ h \in FE!FrontendStates /\ h.open = f.open /\ h.talk = f.talk
      /\ h.wire = [f.wire EXCEPT ![p] = Tail(f.wire[p])]
      /\ h.live = [f.live EXCEPT ![p] = @ \cup {S}] /\ h.owned = [f.owned EXCEPT ![p] = @ \cup {S}]
      /\ h.home = [f.home EXCEPT ![S] = p]
    BY <1>1, <1>3 DEF OtherwiseSame
<1> QED
    BY <1>4 DEF h, CreateHandled

(* g is f with S ended in the process of p, queues aside.                  *)
SessionEnded(f, g, p, S) ==
    /\ g \in FE!FrontendStates /\ g.open = f.open /\ g.load = f.load
    /\ g.owned = f.owned /\ g.home = f.home
    /\ g.live = [f.live EXCEPT ![p] = @ \ {S}] /\ g.talk = [f.talk EXCEPT ![S] = {}]

(* A session ends in its proxy.                                            *)
LEMMA EndSessionFields ==
    ASSUME NEW f \in FE!FrontendStates, NEW p \in Proxies, NEW S \in Users
    PROVE  SessionEnded(f, FE!EndSession(f, p, S), p, S) /\ FE!EndSession(f, p, S).wire = f.wire
    BY DEF FE!EndSession, FE!FrontendStates, SessionEnded

(* The frontend learns of it twice, the second time from the next message. *)
LEMMA IceFailedFields ==
    ASSUME NEW f \in FE!FrontendStates, NEW p \in Proxies, NEW S \in Users
    PROVE  /\ SessionEnded(f, FE!IceFailed(f, p, S), p, S)
           /\ FE!IceFailed(f, p, S).wire =
                [f.wire EXCEPT ![p] = <<FE!ProxyMessage("failed", None, S, None)>> \o f.wire[p]]
<1> DEFINE g == FE!EndSession(f, p, S)
           m == FE!ProxyMessage("failed", None, S, None)
<1>1. FE!IceFailed(f, p, S) = [g EXCEPT !.wire[p] = <<m>> \o @]
    BY DEF FE!IceFailed
<1>2. m \in FE!ProxyMessages
    BY ProxyMessageType DEF FE!FrontendOps
<1>3. /\ g \in FE!FrontendStates
      /\ g.open = f.open /\ g.load = f.load /\ g.owned = f.owned /\ g.home = f.home
      /\ g.wire = f.wire /\ g.live = [f.live EXCEPT ![p] = @ \ {S}]
      /\ g.talk = [f.talk EXCEPT ![S] = {}]
    BY EndSessionFields DEF SessionEnded
<1> HIDE DEF m, g
<1>4. <<m>> \o g.wire[p] \in Seq(FE!ProxyMessages)
  <2>1. g.wire[p] \in Seq(FE!ProxyMessages)
    BY <1>3 DEF FE!FrontendStates
  <2> QED
    BY <1>2, <2>1, QueueFacts
<1> DEFINE h == FE!IceFailed(f, p, S)
<1>5. /\ h \in FE!FrontendStates
      /\ h.open = g.open /\ h.load = g.load /\ h.owned = g.owned /\ h.home = g.home
      /\ h.wire = [g.wire EXCEPT ![p] = <<m>> \o @] /\ h.live = g.live /\ h.talk = g.talk
  <2> DEFINE w == <<m>> \o g.wire[p]
  <2>1. h = [g EXCEPT !.wire = [g.wire EXCEPT ![p] = w]] /\ w \in Seq(FE!ProxyMessages)
    BY <1>1, <1>4
  <2> HIDE DEF w, h
  <2>2. /\ h \in FE!FrontendStates
        /\ h.open = g.open /\ h.load = g.load /\ h.owned = g.owned /\ h.home = g.home
        /\ h.wire = [g.wire EXCEPT ![p] = w] /\ h.live = g.live /\ h.talk = g.talk
    BY <1>3, <2>1 DEF FE!FrontendStates
  <2> QED
    BY <2>2 DEF w
<1> HIDE DEF h
<1> QED
    BY <1>3, <1>5 DEF h, m, SessionEnded

(* g is f with the head of the queue of p taken off and S forgotten.       *)
DropHandled(f, g, p, S) ==
    /\ g \in FE!FrontendStates /\ g.open = f.open /\ g.live = f.live /\ g.talk = f.talk
    /\ g.wire = [f.wire EXCEPT ![p] = Tail(f.wire[p])]
    /\ g.home = [f.home EXCEPT ![S] = NoSocket]
    /\ \A q \in Proxies : g.owned[q] = IF q = f.home[S] THEN f.owned[q] \ {S} ELSE f.owned[q]

(* A confirmed drop takes the session out of dictionary and table.         *)
LEMMA SessionDroppedFields ==
    ASSUME NEW f \in FE!FrontendStates, NEW p \in Proxies, f.wire[p] # <<>>,
           FE!Said(f, p).session \in Users
    PROVE  DropHandled(f, FE!SessionDropped(f, p), p, FE!Said(f, p).session)
<1> DEFINE S == FE!Said(f, p).session
           h == FE!Consume(f, p)
           g == FE!SessionDropped(f, p)
<1>1. h \in FE!FrontendStates /\ OtherwiseSame(f, h) /\ h.wire = [f.wire EXCEPT ![p] = Tail(f.wire[p])]
    BY ConsumeFields
<1>2. g = FE!UnregisterSession(h, S)
    BY DEF FE!SessionDropped
<1> HIDE DEF h, g, S
<1>3. S \in Users
    BY DEF S
<1>4. CASE h.home[S] = FE!NoProxy
  <2>1. g = h
    BY <1>2, <1>4 DEF FE!UnregisterSession
  <2>2. f.home[S] = NoSocket /\ f.home \in [Users -> Proxies \cup {NoSocket}] /\ NoSocket \notin Proxies
    BY <1>1, <1>4, FrontendTyping DEF OtherwiseSame
  <2>3. f.home = [f.home EXCEPT ![S] = NoSocket]
    BY <2>2
  <2> QED
    BY <1>1, <2>1, <2>2, <2>3 DEF OtherwiseSame, S, g, DropHandled
<1>5. CASE h.home[S] # FE!NoProxy
  <2> DEFINE q == h.home[S]
             n == IF h.load[q] > 0 THEN h.load[q] - 1 ELSE 0
  <2>1. q \in Proxies /\ n \in Nat
    BY <1>1, <1>3, <1>5 DEF FE!FrontendStates
  <2>2. g = [h EXCEPT !.owned = [h.owned EXCEPT ![q] = h.owned[q] \ {S}],
                      !.home = [h.home EXCEPT ![S] = FE!NoProxy], !.load = [h.load EXCEPT ![q] = n]]
    BY <1>1, <1>2, <1>3, <1>5 DEF FE!UnregisterSession, FE!FrontendStates
  <2> HIDE DEF n, q
  <2>3. /\ g.owned = [h.owned EXCEPT ![q] = h.owned[q] \ {S}]
        /\ g.home = [h.home EXCEPT ![S] = FE!NoProxy]
        /\ g.open = h.open /\ g.wire = h.wire /\ g.live = h.live /\ g.talk = h.talk
    BY <1>1, <2>2 DEF FE!FrontendStates
  <2>4. g \in FE!FrontendStates
    BY <1>1, <1>3, <2>1, <2>2 DEF FE!FrontendStates
  <2>5. \A k \in Proxies : g.owned[k] = IF k = q THEN h.owned[k] \ {S} ELSE h.owned[k]
    BY <1>1, <2>1, <2>3 DEF FE!FrontendStates
  <2>6. q = f.home[S] /\ FE!NoProxy = NoSocket
    BY <1>1 DEF OtherwiseSame, q, FE!NoProxy, NoSocket
  <2> QED
    BY <1>1, <2>3, <2>4, <2>5, <2>6 DEF OtherwiseSame, S, g, DropHandled
<1> QED
    BY <1>4, <1>5

(* g is f with the talk request m taken off the queue of p and executed.   *)
TalkHandled(f, g, p, m) ==
    /\ g \in FE!FrontendStates /\ g.open = f.open /\ g.live = f.live /\ g.home = f.home
    /\ g.owned = f.owned /\ g.wire = [f.wire EXCEPT ![p] = Tail(f.wire[p])]
    /\ g.talk = IF m.session \in f.live[p]
                THEN [f.talk EXCEPT ![m.session] = IF m.op = "talk on" THEN @ \cup {m.loop}
                                                   ELSE @ \ {m.loop}]
                ELSE f.talk

(* A talk request is executed if the proxy has the session.                *)
LEMMA TalkedFields ==
    ASSUME NEW f \in FE!FrontendStates, NEW p \in Proxies, f.wire[p] # <<>>,
           FE!Said(f, p).session \in Users, FE!Said(f, p).loop \in Loops
    PROVE  TalkHandled(f, FE!Talked(f, p), p, FE!Said(f, p))
<1> DEFINE m == FE!Said(f, p)
           h == FE!Consume(f, p)
           g == FE!Talked(f, p)
<1>1. h \in FE!FrontendStates /\ OtherwiseSame(f, h) /\ h.wire = [f.wire EXCEPT ![p] = Tail(f.wire[p])]
    BY ConsumeFields
<1>2. g = IF ~FE!TalkSucceeds(f, p) THEN h
          ELSE [h EXCEPT !.talk[m.session] = IF m.op = "talk on" THEN @ \cup {m.loop} ELSE @ \ {m.loop}]
    BY DEF FE!Talked
<1>3. m.session \in Users /\ m.loop \in Loops
    OBVIOUS
<1> HIDE DEF m, h, g
<1>4. CASE FE!TalkSucceeds(f, p)
  <2>1. g = [h EXCEPT !.talk[m.session] = IF m.op = "talk on" THEN @ \cup {m.loop} ELSE @ \ {m.loop}]
    BY <1>2, <1>4
  <2>2. /\ g \in FE!FrontendStates
        /\ g.open = h.open /\ g.live = h.live /\ g.home = h.home /\ g.owned = h.owned
        /\ g.wire = h.wire
        /\ g.talk = [h.talk EXCEPT ![m.session] = IF m.op = "talk on" THEN @ \cup {m.loop}
                                                  ELSE @ \ {m.loop}]
    BY <1>1, <1>3, <2>1 DEF FE!FrontendStates
  <2> QED
    BY <1>1, <1>4, <2>2 DEF OtherwiseSame, m, g, TalkHandled, FE!TalkSucceeds
<1>5. CASE ~FE!TalkSucceeds(f, p)
    BY <1>1, <1>2, <1>5 DEF OtherwiseSame, m, g, TalkHandled, FE!TalkSucceeds
<1> QED
    BY <1>4, <1>5

-----------------------------------------------------------------------------
(* The fields of the service after what its handlers are made of.          *)

(* What the type says of each field.                                       *)
LEMMA VocsTyping ==
    ASSUME NEW x \in VocsStates
    PROVE  /\ x.up \in [Clients -> BOOLEAN] /\ x.conn \in [Clients -> Conns]
           /\ x.sess \in [Users -> Clients \cup {NoSocket}] /\ x.async \in SUBSET Entries
           /\ x.parts \in SUBSET (Loops \X Clients) /\ x.ldap \in SUBSET Reqs
           /\ x.be \in BackendStates /\ x.fe \in FE!FrontendStates
           /\ x.owed \in SUBSET (Reqs \X Clients) /\ x.ready \in [Clients -> Nat]
           /\ NoSocket \notin Clients
    BY ClientsAssumption DEF VocsStates, NoSocket

(* The data of a connection about which nothing is stored.                 *)
LEMMA NoDataType ==
    /\ NoData \in Conns /\ NoData.session = None /\ ~NoData.user /\ ~NoData.role
    /\ ~NoData.ice /\ ~NoData.mixer /\ \A l \in Loops : NoData.loops[l] = "none"
    BY DEF NoData, Conns, LoopStates

(* y is x but for its frontend, its backend.                               *)
ButFe(x, y) ==
    /\ y.up = x.up /\ y.conn = x.conn /\ y.sess = x.sess /\ y.async = x.async /\ y.parts = x.parts
    /\ y.ldap = x.ldap /\ y.be = x.be /\ y.owed = x.owed /\ y.ready = x.ready

ButBe(x, y) ==
    /\ y.up = x.up /\ y.conn = x.conn /\ y.sess = x.sess /\ y.async = x.async /\ y.parts = x.parts
    /\ y.ldap = x.ldap /\ y.fe = x.fe /\ y.owed = x.owed /\ y.ready = x.ready

(* A state with another frontend.                                          *)
LEMMA WithFe ==
    ASSUME NEW x \in VocsStates, NEW f \in FE!FrontendStates
    PROVE  [x EXCEPT !.fe = f] \in VocsStates /\ [x EXCEPT !.fe = f].fe = f /\ ButFe(x, [x EXCEPT !.fe = f])
    BY DEF VocsStates, ButFe

(* A state with another backend.                                           *)
LEMMA WithBe ==
    ASSUME NEW x \in VocsStates, NEW b \in BackendStates
    PROVE  [x EXCEPT !.be = b] \in VocsStates /\ [x EXCEPT !.be = b].be = b /\ ButBe(x, [x EXCEPT !.be = b])
    BY DEF VocsStates, ButBe

(* What drop_connection does to the frontend: a session is dropped at its  *)
(* proxy when that is asked for, and once more when it had no mixer.       *)
FeDropped(f, g, S, frontend) ==
    IF S = None THEN g = f
    ELSE IF frontend THEN g \in {FE!DropSession(f, S), FE!DropSession(FE!DropSession(f, S), S)}
    ELSE g \in {f, FE!DropSession(f, S)}

(* y is x after drop_connection of c, the store of requests aside.         *)
Dropped(x, y, c, frontend, backend) ==
    LET S == x.conn[c].session IN
    /\ y \in VocsStates
    /\ y.up = [x.up EXCEPT ![c] = FALSE] /\ y.conn = [x.conn EXCEPT ![c] = NoData]
    /\ y.sess = IF S = None THEN x.sess ELSE [x.sess EXCEPT ![S] = NoSocket]
    /\ y.parts = {q \in x.parts : q[2] # c} /\ y.ldap = x.ldap
    /\ y.be = IF S # None /\ backend THEN ReleaseMixer(x.be, S, S) ELSE x.be
    /\ FeDropped(x.fe, y.fe, S, frontend)
    /\ y.owed = {o \in x.owed : o[2] # c} /\ y.ready = [x.ready EXCEPT ![c] = 0]

(* The sessions are dropped first.                                         *)
LEMMA DropSessionsFields ==
    ASSUME NEW x \in VocsStates, NEW S \in Users \cup {None}, NEW frontend \in BOOLEAN,
           NEW backend \in BOOLEAN
    PROVE  LET y == DropSessions(x, S, frontend, backend) IN
           /\ y \in VocsStates
           /\ y.up = x.up /\ y.conn = x.conn /\ y.async = x.async /\ y.parts = x.parts
           /\ y.ldap = x.ldap /\ y.owed = x.owed /\ y.ready = x.ready
           /\ y.sess = IF S = None THEN x.sess ELSE [x.sess EXCEPT ![S] = NoSocket]
           /\ y.be = IF S # None /\ backend THEN ReleaseMixer(x.be, S, S) ELSE x.be
           /\ FeDropped(x.fe, y.fe, S, frontend)
<1>1. CASE S = None
    BY <1>1 DEF DropSessions, FeDropped
<1>2. CASE S # None
  <2> DEFINE y == DropSessions(x, S, frontend, backend)
             D(f) == FE!DropSession(f, S)
             R == ReleaseMixer(x.be, S, S)
             p == IF frontend THEN FrontendDrop(x, S) ELSE x
             q == IF HasMixer(p.be, S) \/ p.sess[S] = NoSocket THEN p ELSE FrontendDrop(p, S)
             b == IF backend THEN [q EXCEPT !.be = ReleaseMixer(@, S, S)] ELSE p
  <2>0. S \in Users
    BY <1>2
  <2>1. x.fe \in FE!FrontendStates /\ x.be \in BackendStates
    BY VocsTyping
  <2>2. R \in BackendStates
    BY <2>0, <2>1, ReleaseMixerFields
  <2>3. \A f \in FE!FrontendStates : D(f) \in FE!FrontendStates
    BY <2>0, DropSessionFields DEF SentHome
  <2>4. y = [b EXCEPT !.sess[S] = NoSocket]
    BY <1>2 DEF DropSessions, BackendRelease
  <2> HIDE DEF D, R, y
  <2>5. \A z \in VocsStates : /\ FrontendDrop(z, S) \in VocsStates
                              /\ FrontendDrop(z, S).fe = D(z.fe) /\ ButFe(z, FrontendDrop(z, S))
    BY <2>3, WithFe, VocsTyping DEF FrontendDrop, D
  <2>6. p \in VocsStates /\ ButFe(x, p) /\ p.fe = IF frontend THEN D(x.fe) ELSE x.fe
    BY <2>5 DEF ButFe
  <2> HIDE DEF p
  <2>7. q \in VocsStates /\ ButFe(x, q) /\ q.fe \in {p.fe, D(p.fe)}
    BY <2>5, <2>6 DEF ButFe
  <2> HIDE DEF q
  <2>8. backend => b \in VocsStates /\ b.be = R /\ b.fe = q.fe /\ ButBe(q, b)
    <3>1. q.be = x.be
        BY <2>7 DEF ButFe
    <3> SUFFICES ASSUME backend PROVE b \in VocsStates /\ b.be = R /\ b.fe = q.fe /\ ButBe(q, b)
        OBVIOUS
    <3>2. b = [q EXCEPT !.be = R]
        BY <3>1 DEF b, R
    <3>3. b \in VocsStates /\ b.be = R /\ ButBe(q, b)
        BY <2>2, <2>7, <3>2, WithBe
    <3> QED
        BY <3>3 DEF ButBe
  <2>9. ~backend => b = p
    OBVIOUS
  <2> HIDE DEF b
  <2>10. /\ b \in VocsStates
         /\ b.up = x.up /\ b.conn = x.conn /\ b.sess = x.sess /\ b.async = x.async /\ b.parts = x.parts
         /\ b.ldap = x.ldap /\ b.owed = x.owed /\ b.ready = x.ready
         /\ b.be = IF backend THEN R ELSE x.be
         /\ b.fe \in {p.fe, D(p.fe)}
    BY <2>6, <2>7, <2>8, <2>9 DEF ButFe, ButBe
  <2>11. /\ y \in VocsStates
         /\ y.up = b.up /\ y.conn = b.conn /\ y.async = b.async /\ y.parts = b.parts
         /\ y.ldap = b.ldap /\ y.owed = b.owed /\ y.ready = b.ready
         /\ y.sess = [b.sess EXCEPT ![S] = NoSocket] /\ y.be = b.be /\ y.fe = b.fe
    BY <2>0, <2>4, <2>10 DEF VocsStates
  <2>12. FeDropped(x.fe, y.fe, S, frontend)
    BY <1>2, <2>6, <2>10, <2>11 DEF FeDropped, D
  <2> QED
    BY <1>2, <2>10, <2>11, <2>12 DEF y, R
<1> QED
    BY <1>1, <1>2

(* drop_connection while the store is locked, and when it is not.          *)
LEMMA DropFields ==
    ASSUME NEW x \in VocsStates, NEW c \in Clients, NEW frontend \in BOOLEAN, NEW backend \in BOOLEAN
    PROVE  /\ Dropped(x, DropLocked(x, c, frontend, backend), c, frontend, backend)
           /\ DropLocked(x, c, frontend, backend).async = x.async
           /\ Dropped(x, DropConnection(x, c, frontend, backend), c, frontend, backend)
           /\ DropConnection(x, c, frontend, backend).async = {e \in x.async : e.sock # c}
<1> DEFINE S == x.conn[c].session
           d == DropSessions(x, S, frontend, backend)
           y == DropLocked(x, c, frontend, backend)
           z == DropConnection(x, c, frontend, backend)
<1>1. S \in Users \cup {None} /\ c # NoSocket
    BY VocsTyping DEF Conns
<1>2. y = Forget(d, c) /\ z = AsyncDrop(y, c)
    BY <1>1 DEF DropLocked, DropConnection
<1> HIDE DEF S
<1>3. /\ d \in VocsStates
      /\ d.up = x.up /\ d.conn = x.conn /\ d.async = x.async /\ d.parts = x.parts
      /\ d.ldap = x.ldap /\ d.owed = x.owed /\ d.ready = x.ready
      /\ d.sess = IF S = None THEN x.sess ELSE [x.sess EXCEPT ![S] = NoSocket]
      /\ d.be = IF S # None /\ backend THEN ReleaseMixer(x.be, S, S) ELSE x.be
      /\ FeDropped(x.fe, d.fe, S, frontend)
    BY <1>1, DropSessionsFields
<1> HIDE DEF d, y, z
<1>4. /\ y \in VocsStates
      /\ y.up = [d.up EXCEPT ![c] = FALSE] /\ y.conn = [d.conn EXCEPT ![c] = NoData]
      /\ y.sess = d.sess /\ y.async = d.async /\ y.ldap = d.ldap /\ y.be = d.be /\ y.fe = d.fe
      /\ y.parts = {q \in d.parts : q[2] # c}
      /\ y.owed = {o \in d.owed : o[2] # c} /\ y.ready = [d.ready EXCEPT ![c] = 0]
    BY <1>2, <1>3, NoDataType DEF Forget, VocsStates
<1>5. /\ z \in VocsStates
      /\ z.up = y.up /\ z.conn = y.conn /\ z.sess = y.sess /\ z.parts = y.parts /\ z.ldap = y.ldap
      /\ z.be = y.be /\ z.fe = y.fe /\ z.owed = y.owed /\ z.ready = y.ready
      /\ z.async = {e \in y.async : e.sock # c}
    BY <1>2, <1>4 DEF AsyncDrop, VocsStates
<1>6. Dropped(x, y, c, frontend, backend) /\ y.async = x.async
    BY <1>3, <1>4 DEF Dropped, S
<1>7. Dropped(x, z, c, frontend, backend) /\ z.async = {e \in x.async : e.sock # c}
    BY <1>3, <1>4, <1>5 DEF Dropped, S
<1> QED
    BY <1>6, <1>7 DEF y, z

-----------------------------------------------------------------------------
(* Requests that are sent, answered and lost.                              *)

MixerQueues == [Sockets -> Seq(Messages)]
ProxyQueues == [Proxies -> Seq(FE!ProxyMessages)]

(* A client's uuid that is not under way, or a uuid of another kind.       *)
Unused(W, V, r) == r \in ClientReqs => Absent(W, V, r)

(* The queues Z are W with m at one end of that of s, or without the head. *)
Appended(Z, W, s, m) == Z = [W EXCEPT ![s] = Append(W[s], m)]
Prefixed(Z, W, s, m) == Z = [W EXCEPT ![s] = <<m>> \o W[s]]
Shortened(Z, W, s) == Z = [W EXCEPT ![s] = Tail(W[s])]

(* One queue has m in addition, and the uuids still mark one place each.   *)
BeGrown(Z, W, V, s, m) ==
    /\ Tokens(Z, V) /\ Z \in MixerQueues
    /\ In(Z[s]) = In(W[s]) \cup {m} /\ \A t \in Sockets : t # s => Z[t] = W[t]

FeGrown(Z, W, V, p, m) ==
    /\ Tokens(W, Z) /\ Z \in ProxyQueues
    /\ In(Z[p]) = In(V[p]) \cup {m} /\ \A q \in Proxies : q # p => Z[q] = V[q]

(* A request to a mixer whose uuid is not under way elsewhere.             *)
LEMMA TokensBeSend ==
    ASSUME NEW W \in MixerQueues, NEW V \in ProxyQueues, NEW Z,
           NEW s \in Sockets, NEW m \in Messages, Tokens(W, V),
           Unused(W, V, m.id), Appended(Z, W, s, m)
    PROVE  BeGrown(Z, W, V, s, m)
<1>1. W[s] \in Seq(Messages)
    BY DEF MixerQueues
<1>2. Append(W[s], m) \in Seq(Messages) /\ In(Append(W[s], m)) = In(W[s]) \cup {m}
    BY <1>1, QueueFacts
<1>3. Once(W[s]) /\ (m.id \in ClientReqs => \A n \in In(W[s]) : n.id # m.id)
    BY DEF Tokens, Absent, Unused
<1>4. Once(Append(W[s], m))
    BY <1>1, <1>3, OnceFacts
<1>5. /\ Z[s] = Append(W[s], m) /\ \A t \in Sockets : t # s => Z[t] = W[t]
      /\ Z \in MixerQueues
    BY <1>2 DEF Appended, MixerQueues
<1>6. \A t \in Sockets : Once(Z[t])
    BY <1>4, <1>5 DEF Tokens
<1>7. \A t, u \in Sockets : t # u => Apart(Z[t], Z[u])
  <2>1. \A t \in Sockets : t # s => Apart(Z[t], Z[s]) /\ Apart(Z[s], Z[t])
    <3>1. \A t \in Sockets : t # s => Apart(W[t], W[s]) /\ Apart(W[s], W[t])
        BY DEF Tokens
    <3>2. m.id \in ClientReqs => \A t \in Sockets : \A n \in In(W[t]) : n.id # m.id
        BY DEF Absent, Unused
    <3> QED
        BY <1>2, <1>5, <3>1, <3>2 DEF Apart
  <2>2. \A t, u \in Sockets : t # u => Apart(W[t], W[u])
    BY DEF Tokens
  <2> QED
    BY <1>5, <2>1, <2>2
<1>8. \A t \in Sockets, p \in Proxies : Apart(Z[t], V[p])
  <2>1. \A t \in Sockets, p \in Proxies : Apart(W[t], V[p])
    BY DEF Tokens
  <2>2. m.id \in ClientReqs => \A p \in Proxies : \A n \in In(V[p]) : n.id # m.id
    BY DEF Absent, Unused
  <2>3. \A p \in Proxies : Apart(Z[s], V[p])
    BY <1>2, <1>5, <2>1, <2>2 DEF Apart
  <2> QED
    BY <1>5, <2>1, <2>3
<1> QED
    BY <1>2, <1>5, <1>6, <1>7, <1>8 DEF Tokens, BeGrown

(* A message to or from a proxy at either end of its queue.                *)
LEMMA TokensFeSend ==
    ASSUME NEW W \in MixerQueues, NEW V \in ProxyQueues, NEW Z,
           NEW p \in Proxies, NEW m \in FE!ProxyMessages, Tokens(W, V),
           Unused(W, V, m.id), Appended(Z, V, p, m) \/ Prefixed(Z, V, p, m)
    PROVE  FeGrown(Z, W, V, p, m)
<1>1. V[p] \in Seq(FE!ProxyMessages)
    BY DEF ProxyQueues
<1>2. /\ Append(V[p], m) \in Seq(FE!ProxyMessages) /\ In(Append(V[p], m)) = In(V[p]) \cup {m}
      /\ <<m>> \o V[p] \in Seq(FE!ProxyMessages) /\ In(<<m>> \o V[p]) = In(V[p]) \cup {m}
    BY <1>1, QueueFacts
<1>3. Once(V[p]) /\ (m.id \in ClientReqs => \A n \in In(V[p]) : n.id # m.id)
    BY DEF Tokens, Absent, Unused
<1>4. Once(Append(V[p], m)) /\ Once(<<m>> \o V[p])
    BY <1>1, <1>3, OnceFacts
<1>5. Z[p] \in {Append(V[p], m), <<m>> \o V[p]} /\ \A q \in Proxies : q # p => Z[q] = V[q]
    BY DEF Appended, Prefixed, ProxyQueues
<1>6. Z \in ProxyQueues
    BY <1>2 DEF Appended, Prefixed, ProxyQueues
<1>7. In(Z[p]) = In(V[p]) \cup {m} /\ Once(Z[p])
    BY <1>2, <1>4, <1>5
<1>8. \A q \in Proxies : Once(Z[q])
    BY <1>5, <1>7 DEF Tokens
<1>9. \A q, u \in Proxies : q # u => Apart(Z[q], Z[u])
  <2>1. \A q \in Proxies : q # p => Apart(Z[q], Z[p]) /\ Apart(Z[p], Z[q])
    <3>1. \A q \in Proxies : q # p => Apart(V[q], V[p]) /\ Apart(V[p], V[q])
        BY DEF Tokens
    <3>2. m.id \in ClientReqs => \A q \in Proxies : \A n \in In(V[q]) : n.id # m.id
        BY DEF Absent, Unused
    <3> QED
        BY <1>5, <1>7, <3>1, <3>2 DEF Apart
  <2>2. \A q, u \in Proxies : q # u => Apart(V[q], V[u])
    BY DEF Tokens
  <2> QED
    BY <1>5, <2>1, <2>2
<1>10. \A t \in Sockets, q \in Proxies : Apart(W[t], Z[q])
  <2>1. \A t \in Sockets, q \in Proxies : Apart(W[t], V[q])
    BY DEF Tokens
  <2>2. m.id \in ClientReqs => \A t \in Sockets : \A n \in In(W[t]) : n.id # m.id
    BY DEF Absent, Unused
  <2> QED
    BY <1>5, <1>7, <2>1, <2>2 DEF Apart
<1> QED
    BY <1>5, <1>6, <1>7, <1>8, <1>9, <1>10 DEF Tokens, FeGrown

(* An answer of a mixer: its uuid is under way no more.                    *)
LEMMA TokensBeAnswer ==
    ASSUME NEW W \in MixerQueues, NEW V \in ProxyQueues,
           NEW Z, NEW s \in Sockets, Tokens(W, V), W[s] # <<>>, Shortened(Z, W, s)
    PROVE  /\ Tokens(Z, V) /\ In(W[s]) = In(Z[s]) \cup {Head(W[s])}
           /\ \A t \in Sockets : t # s => Z[t] = W[t]
           /\ Unused(Z, V, Head(W[s]).id)
<1>1. W[s] \in Seq(Messages) /\ Once(W[s])
    BY DEF Tokens, MixerQueues
<1>2. In(W[s]) = In(Tail(W[s])) \cup {Head(W[s])}
    BY <1>1, QueueFacts
<1>3. /\ Once(Tail(W[s]))
      /\ Head(W[s]).id \in ClientReqs => \A n \in In(Tail(W[s])) : n.id # Head(W[s]).id
    BY <1>1, OnceFacts
<1>4. Z[s] = Tail(W[s]) /\ \A t \in Sockets : t # s => Z[t] = W[t]
    BY DEF Shortened, MixerQueues
<1>5. \A t \in Sockets : Once(Z[t]) /\ In(Z[t]) \subseteq In(W[t])
    BY <1>2, <1>3, <1>4 DEF Tokens
<1>6. Tokens(Z, V)
    BY <1>5 DEF Tokens, Apart
<1>7. ASSUME Head(W[s]).id \in ClientReqs PROVE Absent(Z, V, Head(W[s]).id)
  <2>1. \A t \in Sockets : \A n \in In(Z[t]) : n.id # Head(W[s]).id
    BY <1>2, <1>3, <1>4, <1>7 DEF Tokens, Apart
  <2>2. \A p \in Proxies : \A n \in In(V[p]) : n.id # Head(W[s]).id
    BY <1>2, <1>7 DEF Tokens, Apart
  <2> QED
    BY <2>1, <2>2 DEF Absent
<1> QED
    BY <1>2, <1>4, <1>6, <1>7 DEF Unused

(* An answer of a proxy likewise.                                          *)
LEMMA TokensFeAnswer ==
    ASSUME NEW W \in MixerQueues, NEW V \in ProxyQueues,
           NEW Z, NEW p \in Proxies, Tokens(W, V), V[p] # <<>>, Shortened(Z, V, p)
    PROVE  /\ Tokens(W, Z) /\ In(V[p]) = In(Z[p]) \cup {Head(V[p])}
           /\ \A q \in Proxies : q # p => Z[q] = V[q]
           /\ Unused(W, Z, Head(V[p]).id)
<1>1. V[p] \in Seq(FE!ProxyMessages) /\ Once(V[p])
    BY DEF Tokens, ProxyQueues
<1>2. In(V[p]) = In(Tail(V[p])) \cup {Head(V[p])}
    BY <1>1, QueueFacts
<1>3. /\ Once(Tail(V[p]))
      /\ Head(V[p]).id \in ClientReqs => \A n \in In(Tail(V[p])) : n.id # Head(V[p]).id
    BY <1>1, OnceFacts
<1>4. Z[p] = Tail(V[p]) /\ \A q \in Proxies : q # p => Z[q] = V[q]
    BY DEF Shortened, ProxyQueues
<1>5. \A q \in Proxies : Once(Z[q]) /\ In(Z[q]) \subseteq In(V[q])
    BY <1>2, <1>3, <1>4 DEF Tokens
<1>6. Tokens(W, Z)
    BY <1>5 DEF Tokens, Apart
<1>7. ASSUME Head(V[p]).id \in ClientReqs PROVE Absent(W, Z, Head(V[p]).id)
  <2>1. \A q \in Proxies : \A n \in In(Z[q]) : n.id # Head(V[p]).id
    BY <1>2, <1>3, <1>4, <1>7 DEF Tokens, Apart
  <2>2. \A s \in Sockets : \A n \in In(W[s]) : n.id # Head(V[p]).id
    BY <1>2, <1>7 DEF Tokens, Apart
  <2> QED
    BY <2>1, <2>2 DEF Absent
<1> QED
    BY <1>2, <1>4, <1>6, <1>7 DEF Unused

(* A connection that is made or lost leaves other queues alone.            *)
LEMMA TokensCleared ==
    ASSUME NEW W, NEW V, NEW Y, NEW Z, Tokens(W, V),
           \A s \in Sockets : Y[s] = W[s] \/ Y[s] = <<>>,
           \A p \in Proxies : Z[p] = V[p] \/ Z[p] = <<>>
    PROVE  Tokens(Y, Z)
<1>1. Once(<<>>) /\ In(<<>>) = {}
    BY EmptyQueue DEF Once
<1>2. \A s \in Sockets : Once(Y[s]) /\ In(Y[s]) \subseteq In(W[s])
    BY <1>1 DEF Tokens
<1>3. \A p \in Proxies : Once(Z[p]) /\ In(Z[p]) \subseteq In(V[p])
    BY <1>1 DEF Tokens
<1> QED
    BY <1>2, <1>3 DEF Tokens, Apart

(* The connection of a proxy likewise.                                     *)
LEMMA TokensProxyCleared ==
    ASSUME NEW W, NEW V, NEW Z, Tokens(W, V), \A p \in Proxies : Z[p] = V[p] \/ Z[p] = <<>>
    PROVE  Tokens(W, Z)
<1>1. Once(<<>>) /\ In(<<>>) = {}
    BY EmptyQueue DEF Once
<1>2. \A p \in Proxies : Once(Z[p]) /\ In(Z[p]) \subseteq In(V[p])
    BY <1>1 DEF Tokens
<1> QED
    BY <1>2 DEF Tokens, Apart

-----------------------------------------------------------------------------
(* Steps of the service that keep the base invariant.                      *)

(* y asks for nothing that x did not ask for: nothing is stored, messages  *)
(* only end sessions, and no session but those of mk becomes known.        *)
QuietMessages(x, y, mk) ==
    /\ \A s \in Sockets : \A m \in In(y.be.wire[s]) :
          m \in In(x.be.wire[s]) \/ (m.op = "release" /\ m.id = m.user /\ m.user \in mk)
    /\ \A p \in Proxies : \A m \in In(y.fe.wire[p]) :
          m \in In(x.fe.wire[p]) \/ (m.op \in {"drop", "failed"} /\ m.id = None /\ m.session \in mk)

QuietSessions(x, y, mk) ==
    /\ \A S \in Users \ mk : y.sess[S] \in {x.sess[S], NoSocket}
    /\ \A c \in Clients : y.conn[c].session \in {x.conn[c].session, None} \cup mk
    /\ \A S \in Users \ mk : y.be.users[S] \in {x.be.users[S], NoSlot}
    /\ \A s \in Sockets : y.be.slot[s] \in {x.be.slot[s], Closed, Free} \cup mk
    /\ \A S \in Users \ mk : y.fe.home[S] \in {x.fe.home[S], NoSocket}
    /\ \A S \in Users \ mk : y.fe.talk[S] \subseteq x.fe.talk[S]
    /\ \A p \in Proxies : y.fe.live[p] \subseteq x.fe.live[p] \cup mk
    /\ \A p \in Proxies : y.fe.owned[p] \subseteq x.fe.owned[p] \cup mk

Quiet(x, y, mk) ==
    /\ y \in VocsStates /\ y.async \subseteq x.async /\ y.ldap \subseteq x.ldap
    /\ QuietMessages(x, y, mk) /\ QuietSessions(x, y, mk)
    /\ Tokens(y.be.wire, y.fe.wire) /\ Permitted(y.be, y.fe) /\ FiniteTables(y.fe)

(* A quiet step keeps the base invariant.                                  *)
LEMMA BaseQuiet ==
    ASSUME NEW x, NEW y, NEW iss, NEW mk, Base(x, iss, mk), Quiet(x, y, mk)
    PROVE  Base(y, iss, mk)
<1>0. /\ x \in VocsStates /\ iss \subseteq ClientReqs /\ mk \subseteq Users
      /\ y \in VocsStates /\ y.async \subseteq x.async /\ y.ldap \subseteq x.ldap
    BY DEF Base, Quiet
<1>1. Stored(y.async, y.ldap, iss)
    BY <1>0 DEF Base, Stored
<1>2. BeMeant(y.be.wire, y.async, iss, mk)
  <2> SUFFICES ASSUME NEW s \in Sockets, NEW m \in In(y.be.wire[s])
               PROVE  BeWorded(m, iss, mk) /\ \A e \in y.async : e.id = m.id => BeAwaited(m, e)
    BY DEF BeMeant
  <2>1. CASE m \in In(x.be.wire[s])
    BY <1>0, <2>1 DEF Base, BeMeant
  <2>2. CASE m.op = "release" /\ m.id = m.user /\ m.user \in mk
    <3>1. \A e \in y.async : e.id # m.id
        BY <1>0, <1>1, <2>2 DEF Stored, ClientReqs
    <3>2. BeWorded(m, iss, mk)
        BY <2>2 DEF BeWorded, LoopOps
    <3> QED
        BY <3>1, <3>2
  <2> QED
    BY <2>1, <2>2 DEF Quiet, QuietMessages
<1>3. FeMeant(y.fe.wire, y.async, y.ldap, iss, mk)
  <2> SUFFICES ASSUME NEW p \in Proxies, NEW m \in In(y.fe.wire[p])
               PROVE  FeWorded(m, iss, mk) /\ \A e \in y.async : e.id = m.id => FeAwaited(m, e, y.ldap)
    BY DEF FeMeant
  <2>1. CASE m \in In(x.fe.wire[p])
    <3>1. FeWorded(m, iss, mk) /\ \A e \in x.async : e.id = m.id => FeAwaited(m, e, x.ldap)
        BY <2>1 DEF Base, FeMeant
    <3> QED
        BY <1>0, <3>1 DEF FeAwaited
  <2>2. CASE m.op \in {"drop", "failed"} /\ m.id = None /\ m.session \in mk
    <3>1. \A e \in y.async : e.id # m.id
        BY <1>0, <1>1, <2>2, NoRequestAssumption DEF Stored, ClientReqs
    <3>2. FeWorded(m, iss, mk)
        BY <2>2 DEF FeWorded, TalkOps
    <3> QED
        BY <3>1, <3>2
  <2> QED
    BY <2>1, <2>2 DEF Quiet, QuietMessages
<1>4. AcquireOnce(y.be.wire)
  <2>1. \A s \in Sockets : \A m \in In(y.be.wire[s]) : m.op = "acquire" => m \in In(x.be.wire[s])
    BY DEF Quiet, QuietMessages
  <2> QED
    BY <2>1 DEF Base, AcquireOnce
<1>5. ASSUME NEW S \in Users \ mk PROVE Unknown(y, S)
  <2>1. Unknown(x, S) /\ S # None /\ S # Closed /\ S # Free
    BY NoneAssumption, SlotStatesAssumption DEF Base
  <2> QED
    BY <2>1 DEF Quiet, QuietSessions, Unknown
<1> QED
    BY <1>0, <1>1, <1>2, <1>3, <1>4, <1>5 DEF Base, Quiet

(* Frontend, backend and the dictionary of sessions are the same.          *)
Kept(x, y) ==
    /\ y \in VocsStates /\ y.be = x.be /\ y.fe = x.fe /\ y.sess = x.sess
    /\ \A c \in Clients : y.conn[c].session = x.conn[c].session

(* Nothing but bookkeeping, and no entry is stored.                        *)
LEMMA BasePlain ==
    ASSUME NEW x, NEW y, NEW iss, NEW mk, Base(x, iss, mk), Kept(x, y),
           y.async \subseteq x.async, y.ldap \subseteq x.ldap
    PROVE  Base(y, iss, mk)
<1>1. QuietMessages(x, y, mk) /\ QuietSessions(x, y, mk)
    BY DEF QuietMessages, QuietSessions, Kept
<1>2. Quiet(x, y, mk)
    BY <1>1 DEF Quiet, Base, Kept
<1> QED
    BY <1>2, BaseQuiet

(* Nothing is known of uuid r.                                             *)
Fresh(x, r) ==
    /\ Unused(x.be.wire, x.fe.wire, r) /\ r \notin x.ldap
    /\ \A e \in x.async : e.id # r

(* A uuid that is used for the first time.                                 *)
LEMMA BaseFresh ==
    ASSUME NEW x, NEW iss, NEW mk, NEW r \in ClientReqs \ iss, Base(x, iss, mk)
    PROVE  Base(x, iss \cup {r}, mk) /\ Fresh(x, r)
<1>0. iss \subseteq ClientReqs /\ mk \subseteq Users /\ r \notin mk /\ r # None
    BY NoRequestAssumption DEF Base, ClientReqs
<1>1. \A s \in Sockets : \A m \in In(x.be.wire[s]) : BeWorded(m, iss, mk)
    BY DEF Base, BeMeant
<1>2. \A p \in Proxies : \A m \in In(x.fe.wire[p]) : FeWorded(m, iss, mk)
    BY DEF Base, FeMeant
<1>3. Unused(x.be.wire, x.fe.wire, r)
    BY <1>0, <1>1, <1>2 DEF Unused, Absent, BeWorded, FeWorded
<1>4. Fresh(x, r)
    BY <1>3 DEF Fresh, Base, Stored
<1>5. BeMeant(x.be.wire, x.async, iss \cup {r}, mk)
  <2>1. \A m : BeWorded(m, iss, mk) => BeWorded(m, iss \cup {r}, mk)
    BY DEF BeWorded
  <2> QED
    BY <2>1 DEF Base, BeMeant
<1>6. FeMeant(x.fe.wire, x.async, x.ldap, iss \cup {r}, mk)
  <2>1. \A m : FeWorded(m, iss, mk) => FeWorded(m, iss \cup {r}, mk)
    BY DEF FeWorded
  <2> QED
    BY <2>1 DEF Base, FeMeant
<1>7. Stored(x.async, x.ldap, iss \cup {r})
    BY DEF Base, Stored
<1> QED
    BY <1>4, <1>5, <1>6, <1>7 DEF Base

(* A session that is made.                                                 *)
LEMMA BaseMade ==
    ASSUME NEW x, NEW iss, NEW mk, NEW S \in Users, Base(x, iss, mk)
    PROVE  Base(x, iss, mk \cup {S})
<1>5. BeMeant(x.be.wire, x.async, iss, mk \cup {S})
  <2>1. \A m : BeWorded(m, iss, mk) => BeWorded(m, iss, mk \cup {S})
    BY DEF BeWorded
  <2> QED
    BY <2>1 DEF Base, BeMeant
<1>6. FeMeant(x.fe.wire, x.async, x.ldap, iss, mk \cup {S})
  <2>1. \A m : FeWorded(m, iss, mk) => FeWorded(m, iss, mk \cup {S})
    BY DEF FeWorded
  <2> QED
    BY <2>1 DEF Base, FeMeant
<1> QED
    BY <1>5, <1>6 DEF Base

(* Entry e suits what is under way with its uuid.                          *)
Suits(x, e) ==
    /\ \A s \in Sockets : \A m \in In(x.be.wire[s]) : m.id = e.id => BeAwaited(m, e)
    /\ \A p \in Proxies : \A m \in In(x.fe.wire[p]) : m.id = e.id => FeAwaited(m, e, x.ldap)

(* A request is stored.                                                    *)
LEMMA BaseSet ==
    ASSUME NEW x, NEW y, NEW iss, NEW mk, NEW e, Base(x, iss, mk), Kept(x, y),
           e.id \in iss, e.id \notin x.ldap, \A g \in x.async : g.id # e.id, Suits(x, e),
           y.async = x.async \cup {e}, y.ldap = x.ldap
    PROVE  Base(y, iss, mk)
<1>1. Stored(y.async, y.ldap, iss)
    BY DEF Base, Stored
<1>2. BeMeant(y.be.wire, y.async, iss, mk)
    BY DEF Base, BeMeant, Suits, Kept
<1>3. FeMeant(y.fe.wire, y.async, y.ldap, iss, mk)
    BY DEF Base, FeMeant, Suits, Kept
<1>4. \A S \in Users \ mk : Unknown(y, S)
    BY DEF Base, Kept, Unknown
<1> QED
    BY <1>1, <1>2, <1>3, <1>4 DEF Base, Kept

(* A login is stored and handed to LDAP.                                   *)
LEMMA BaseSetLdap ==
    ASSUME NEW x, NEW y, NEW iss, NEW mk, NEW e, Base(x, iss, mk), Kept(x, y),
           e.id \in iss, e.loop = None, Fresh(x, e.id),
           y.async = x.async \cup {e}, y.ldap = x.ldap \cup {e.id}
    PROVE  Base(y, iss, mk)
<1>0. Absent(x.be.wire, x.fe.wire, e.id) /\ iss \subseteq ClientReqs
    BY DEF Base, Fresh, Unused
<1>1. Stored(y.async, y.ldap, iss)
    BY DEF Base, Stored, Fresh
<1>2. BeMeant(y.be.wire, y.async, iss, mk)
    BY <1>0 DEF Base, BeMeant, Absent, Kept
<1>3. FeMeant(y.fe.wire, y.async, y.ldap, iss, mk)
  <2> SUFFICES ASSUME NEW p \in Proxies, NEW m \in In(y.fe.wire[p])
               PROVE  FeWorded(m, iss, mk) /\ \A g \in y.async : g.id = m.id => FeAwaited(m, g, y.ldap)
    BY DEF FeMeant
  <2>1. /\ m \in In(x.fe.wire[p]) /\ FeWorded(m, iss, mk) /\ m.id # e.id
        /\ \A g \in x.async : g.id = m.id => FeAwaited(m, g, x.ldap)
    BY <1>0 DEF Base, FeMeant, Absent, Kept
  <2> QED
    BY <2>1 DEF FeAwaited
<1>4. \A S \in Users \ mk : Unknown(y, S)
    BY DEF Base, Kept, Unknown
<1> QED
    BY <1>1, <1>2, <1>3, <1>4 DEF Base, Kept

(* The frontend's part of dropping a connection: its session is asked to   *)
(* be dropped, once, twice or not at all.                                  *)
FeEnding(W, f, g, S) ==
    /\ g \in FE!FrontendStates /\ OtherwiseSame(f, g) /\ Tokens(W, g.wire)
    /\ \A p \in Proxies : In(f.wire[p]) \subseteq In(g.wire[p])
    /\ \A p \in Proxies : ~f.open[p] => g.wire[p] = f.wire[p]
    /\ \A p \in Proxies : \A m \in In(g.wire[p]) :
          m \in In(f.wire[p]) \/ (m = DropMessage(S) /\ S \in Users /\ p = f.home[S] /\ f.open[p])

FeEnded(f, g, S) ==
    FE!HasProxy(f, S) => f.home[S] \in Proxies /\ DropMessage(S) \in In(g.wire[f.home[S]])

(* Dropping a session at its proxy ends it there.                          *)
LEMMA DropSessionFacts ==
    ASSUME NEW f \in FE!FrontendStates, NEW S \in Users, NEW W \in MixerQueues,
           Tokens(W, f.wire)
    PROVE  FeEnding(W, f, FE!DropSession(f, S), S) /\ FeEnded(f, FE!DropSession(f, S), S)
<1> DEFINE g == FE!DropSession(f, S)
           d == DropMessage(S)
           p == f.home[S]
<1>1. SentHome(f, g, S, d) /\ d \in FE!ProxyMessages /\ d.id = None
    BY DropSessionFields
<1>2. Unused(W, f.wire, d.id)
    BY <1>1, NoRequestAssumption DEF ClientReqs, Unused
<1>3. f.wire \in ProxyQueues
    BY FrontendTyping DEF ProxyQueues
<1> HIDE DEF g, d
<1>4. CASE FE!HasProxy(f, S)
  <2>1. p \in Proxies /\ f.open[p] /\ Appended(g.wire, f.wire, p, d)
    BY <1>1, <1>4 DEF SentHome, Appended
  <2>2. FeGrown(g.wire, W, f.wire, p, d)
    BY <1>1, <1>2, <1>3, <2>1, TokensFeSend
  <2> QED
    BY <1>1, <2>1, <2>2 DEF SentHome, FeEnding, FeEnded, FeGrown, g, d
<1>5. CASE ~FE!HasProxy(f, S)
  <2>1. g.wire = f.wire
    BY <1>1, <1>5 DEF SentHome
  <2> QED
    BY <1>1, <1>5, <2>1 DEF SentHome, FeEnding, FeEnded, g
<1> QED
    BY <1>4, <1>5

(* So does what drop_connection does to the frontend.                      *)
LEMMA FeDroppedFacts ==
    ASSUME NEW f \in FE!FrontendStates, NEW g, NEW S \in Users \cup {None}, NEW frontend \in BOOLEAN,
           NEW W \in MixerQueues, Tokens(W, f.wire), FeDropped(f, g, S, frontend)
    PROVE  FeEnding(W, f, g, S) /\ (S \in Users /\ frontend => FeEnded(f, g, S))
<1>1. FeEnding(W, f, f, S)
    BY DEF FeEnding, OtherwiseSame
<1>2. CASE S = None
    BY <1>1, <1>2, NoneAssumption DEF FeDropped
<1>3. CASE S # None
  <2> DEFINE g1 == FE!DropSession(f, S)
             g2 == FE!DropSession(g1, S)
  <2>0. S \in Users
    BY <1>3
  <2>1. FeEnding(W, f, g1, S) /\ FeEnded(f, g1, S)
    BY <2>0, DropSessionFacts
  <2>2. g1 \in FE!FrontendStates /\ Tokens(W, g1.wire)
    BY <2>1 DEF FeEnding
  <2>3. g \in {f, g1, g2} /\ (frontend => g \in {g1, g2})
    BY <1>3 DEF FeDropped
  <2> HIDE DEF g1
  <2>4. FeEnding(W, g1, g2, S)
    BY <2>0, <2>2, DropSessionFacts
  <2> HIDE DEF g2
  <2>5. FeEnding(W, f, g2, S)
    BY <2>1, <2>4 DEF FeEnding, OtherwiseSame
  <2>6. FeEnded(f, g2, S)
    BY <2>1, <2>4 DEF FeEnding, FeEnded
  <2> QED
    BY <1>1, <2>1, <2>3, <2>5, <2>6
<1> QED
    BY <1>2, <1>3

(* The backend's part: the mixer is told, and the slot is free.            *)
ReleaseMessage(S) == Message("release", S, S, None)

BeReleased(b, g, S, V) ==
    /\ g \in BackendStates /\ g.mix = b.mix /\ Tokens(g.wire, V)
    /\ g.users = [b.users EXCEPT ![S] = NoSlot] /\ g.slot = Emptied(b, S)
    /\ b.cbs \subseteq g.cbs
    /\ \A s \in Sockets : In(b.wire[s]) \subseteq In(g.wire[s])
    /\ \A s \in Sockets : \A m \in In(g.wire[s]) :
          m \in In(b.wire[s]) \/ (m = ReleaseMessage(S) /\ s = b.users[S])

(* The release of a mixer.                                                 *)
LEMMA BeReleasedFacts ==
    ASSUME NEW b \in BackendStates, NEW S \in Users,
           NEW V \in ProxyQueues, Tokens(b.wire, V)
    PROVE  BeReleased(b, ReleaseMixer(b, S, S), S, V)
<1> DEFINE g == ReleaseMixer(b, S, S)
           m == ReleaseMessage(S)
           s == b.users[S]
<1>1. /\ g \in BackendStates /\ g.mix = b.mix
      /\ g.users = [b.users EXCEPT ![S] = NoSlot] /\ g.slot = Emptied(b, S)
      /\ b.cbs \subseteq g.cbs /\ (HasMixer(b, S) => s \in Sockets)
      /\ g.wire = IF HasMixer(b, S) THEN [b.wire EXCEPT ![s] = Append(b.wire[s], m)] ELSE b.wire
    BY ReleaseMixerFields DEF ReleaseMessage
<1>2. m \in Messages /\ Unused(b.wire, V, m.id)
    BY MessageType, ReleaseIdsAssumption DEF BackendOps, ClientReqs, ReleaseMessage, Unused
<1>3. b.wire \in MixerQueues
    BY BackendTyping DEF MixerQueues
<1> HIDE DEF g, m, s
<1>4. CASE HasMixer(b, S)
  <2>1. s \in Sockets /\ Appended(g.wire, b.wire, s, m)
    BY <1>1, <1>4 DEF Appended
  <2>2. BeGrown(g.wire, b.wire, V, s, m)
    BY <1>2, <1>3, <2>1, TokensBeSend
  <2> QED
    BY <1>1, <1>4, <2>1, <2>2 DEF BeReleased, BeGrown, g, m, s
<1>5. CASE ~HasMixer(b, S)
    BY <1>1, <1>5 DEF BeReleased, g, m, s
<1> QED
    BY <1>4, <1>5

(* Dropping a connection is quiet.                                         *)
LEMMA BaseDrop ==
    ASSUME NEW x, NEW y, NEW iss, NEW mk, Base(x, iss, mk), NEW c \in Clients,
           NEW frontend \in BOOLEAN, NEW backend \in BOOLEAN,
           Dropped(x, y, c, frontend, backend), y.async \subseteq x.async
    PROVE  Base(y, iss, mk)
<1> DEFINE S == x.conn[c].session
<1>1. x \in VocsStates /\ y \in VocsStates /\ mk \subseteq Users
    BY DEF Base, Dropped
<1>2. S \in Users \cup {None} /\ (S \in Users => S \in mk)
    BY <1>1, VocsTyping DEF Conns, Base, Unknown
<1>3. /\ x.fe \in FE!FrontendStates /\ x.be \in BackendStates
      /\ x.be.wire \in MixerQueues /\ Tokens(x.be.wire, x.fe.wire)
      /\ y.fe \in FE!FrontendStates /\ y.fe.wire \in ProxyQueues
    BY <1>1, VocsTyping, BackendTyping, FrontendTyping DEF Base, MixerQueues, ProxyQueues
<1> DEFINE d == DropMessage(S)
           m0 == ReleaseMessage(S)
<1>4. /\ OtherwiseSame(x.fe, y.fe) /\ Tokens(x.be.wire, y.fe.wire)
      /\ \A p \in Proxies : \A m \in In(y.fe.wire[p]) : m \in In(x.fe.wire[p]) \/ (m = d /\ S \in Users)
  <2>1. FeDropped(x.fe, y.fe, S, frontend)
    BY DEF Dropped
  <2> HIDE DEF S, d
  <2>2. FeEnding(x.be.wire, x.fe, y.fe, S)
    BY <1>2, <1>3, <2>1, FeDroppedFacts
  <2> QED
    BY <2>2 DEF FeEnding, d
<1>5. S \in Users => /\ d.op = "drop" /\ d.id = None /\ d.session = S
                     /\ m0.op = "release" /\ m0.id = S /\ m0.user = S
    BY <1>3, DropSessionFields DEF ReleaseMessage, Message
<1> HIDE DEF d, m0, S
<1>6. /\ y.be.mix = x.be.mix /\ Tokens(y.be.wire, y.fe.wire)
      /\ \A u \in Users : y.be.users[u] \in {x.be.users[u], NoSlot}
      /\ \A s \in Sockets : y.be.slot[s] \in {x.be.slot[s], Free}
      /\ \A s \in Sockets : \A m \in In(y.be.wire[s]) : m \in In(x.be.wire[s]) \/ (m = m0 /\ S \in Users)
  <2>1. CASE S # None /\ backend
    <3>1. y.be = ReleaseMixer(x.be, S, S) /\ S \in Users
        BY <1>2, <2>1 DEF Dropped, S
    <3>2. /\ y.be.mix = x.be.mix /\ Tokens(y.be.wire, y.fe.wire)
          /\ y.be.users = [x.be.users EXCEPT ![S] = NoSlot] /\ y.be.slot = Emptied(x.be, S)
          /\ \A s \in Sockets : \A m \in In(y.be.wire[s]) : m \in In(x.be.wire[s]) \/ m = m0
      <4>1. Tokens(x.be.wire, y.fe.wire)
        BY <1>4
      <4>2. BeReleased(x.be, y.be, S, y.fe.wire)
        BY <1>3, <3>1, <4>1, BeReleasedFacts
      <4> QED
        BY <4>2 DEF BeReleased, m0
    <3>3. x.be.users \in [Users -> Sockets \cup {NoSlot}]
        BY <1>3, BackendTyping
    <3> QED
        BY <3>1, <3>2, <3>3 DEF Emptied
  <2>2. CASE ~(S # None /\ backend)
    <3>1. y.be = x.be
        BY <2>2 DEF Dropped, S
    <3> QED
        BY <1>4, <3>1
  <2> QED
    BY <2>1, <2>2
<1>7. /\ \A u \in Users : y.sess[u] \in {x.sess[u], NoSocket}
      /\ \A k \in Clients : y.conn[k].session \in {x.conn[k].session, None}
      /\ y.ldap = x.ldap
  <2>1. x.conn \in [Clients -> Conns] /\ x.sess \in [Users -> Clients \cup {NoSocket}]
    BY <1>1, VocsTyping
  <2>2. /\ y.sess = IF S = None THEN x.sess ELSE [x.sess EXCEPT ![S] = NoSocket]
        /\ y.conn = [x.conn EXCEPT ![c] = NoData] /\ y.ldap = x.ldap
    BY DEF Dropped, S
  <2> QED
    BY <1>2, <2>1, <2>2, NoDataType
<1>8. QuietMessages(x, y, mk)
    BY <1>2, <1>4, <1>5, <1>6 DEF QuietMessages
<1>9. QuietSessions(x, y, mk)
    BY <1>4, <1>6, <1>7 DEF QuietSessions, OtherwiseSame
<1>10. Permitted(y.be, y.fe) /\ FiniteTables(y.fe)
    BY <1>4, <1>6 DEF Base, Permitted, FiniteTables, OtherwiseSame
<1> QED
    BY <1>1, <1>6, <1>7, <1>8, <1>9, <1>10, BaseQuiet DEF Quiet

-----------------------------------------------------------------------------
(* Requests to mixers and proxies.                                         *)

(* No mixer is asked for on behalf of S.                                   *)
NotAcquired(W, S) == \A s \in Sockets : \A m \in In(W[s]) : m.op = "acquire" => m.user # S

(* y is x but for a backend that knows nothing of other sessions than mk.  *)
OtherBackend(x, y, mk) ==
    /\ y \in VocsStates /\ ButBe(x, y) /\ y.be.mix = x.be.mix
    /\ \A S \in Users \ mk : y.be.users[S] = x.be.users[S]
    /\ \A s \in Sockets : y.be.slot[s] = x.be.slot[s] \/ y.be.slot[s] \in mk

(* What is asked of a mixer is worded as it should be, and is awaited.     *)
BeFits(x, m, iss, mk) ==
    /\ BeWorded(m, iss, mk) /\ Unused(x.be.wire, x.fe.wire, m.id)
    /\ \A e \in x.async : e.id = m.id => BeAwaited(m, e)
    /\ m.op = "acquire" => NotAcquired(x.be.wire, m.user)

(* A request to a mixer.                                                   *)
LEMMA BaseBeSend ==
    ASSUME NEW x, NEW y, NEW iss, NEW mk, NEW s \in Sockets, NEW m \in Messages,
           Base(x, iss, mk), OtherBackend(x, y, mk), BeFits(x, m, iss, mk),
           Appended(y.be.wire, x.be.wire, s, m)
    PROVE  Base(y, iss, mk)
<1> DEFINE W == x.be.wire
           Z == y.be.wire
           V == x.fe.wire
<1>1. x \in VocsStates /\ y \in VocsStates /\ y.fe = x.fe /\ y.async = x.async /\ y.ldap = x.ldap
    BY DEF Base, OtherBackend, ButBe
<1>2. W \in MixerQueues /\ V \in ProxyQueues /\ Tokens(W, V)
    BY <1>1, VocsTyping, BackendTyping, FrontendTyping DEF MixerQueues, ProxyQueues, Base
<1>3. Unused(W, V, m.id) /\ Appended(Z, W, s, m)
    BY DEF BeFits
<1> HIDE DEF W, Z, V
<1>4. BeGrown(Z, W, V, s, m)
    BY <1>2, <1>3, TokensBeSend
<1>5. Tokens(Z, V) /\ \A t \in Sockets : \A n \in In(Z[t]) : n \in In(W[t]) \/ n = m
    BY <1>4 DEF BeGrown
<1>6. BeMeant(Z, y.async, iss, mk)
    BY <1>1, <1>5 DEF Base, BeMeant, BeFits, W
<1>7. AcquireOnce(Z)
  <2>1. AcquireOnce(W) /\ (m.op = "acquire" => NotAcquired(W, m.user))
    BY DEF Base, BeFits, W
  <2> SUFFICES ASSUME NEW t \in Sockets, NEW u \in Sockets, NEW n \in In(Z[t]), NEW k \in In(Z[u]),
                      n.op = "acquire", k.op = "acquire", n.user = k.user
               PROVE  n.id = k.id
    BY DEF AcquireOnce
  <2>2. (n \in In(W[t]) \/ n = m) /\ (k \in In(W[u]) \/ k = m)
    BY <1>5
  <2> QED
    BY <2>1, <2>2 DEF AcquireOnce, NotAcquired
<1>8. \A S \in Users \ mk : Unknown(y, S)
    BY DEF Base, Unknown, OtherBackend, ButBe
<1>9. FeMeant(y.fe.wire, y.async, y.ldap, iss, mk) /\ Permitted(y.be, y.fe) /\ FiniteTables(y.fe)
    BY <1>1 DEF Base, OtherBackend, Permitted
<1> QED
    BY <1>1, <1>5, <1>6, <1>7, <1>8, <1>9 DEF Base, Z, V

(* A change of the backend's callbacks.                                    *)
LEMMA BaseCallbacks ==
    ASSUME NEW x, NEW y, NEW iss, NEW mk,
           Base(x, iss, mk), OtherBackend(x, y, mk), y.be.wire = x.be.wire
    PROVE  Base(y, iss, mk)
<1>1. \A S \in Users \ mk : Unknown(y, S)
    BY DEF Base, Unknown, OtherBackend, ButBe
<1> QED
    BY <1>1 DEF Base, OtherBackend, ButBe, Permitted

(* A request about a loop to the mixer of session S.                       *)
LEMMA BaseLoopRequest ==
    ASSUME NEW x, NEW iss, NEW mk, NEW op \in LoopOps, NEW r \in iss, NEW S \in mk, NEW l \in Loops,
           Base(x, iss, mk), BeFits(x, Message(op, r, S, l), iss, mk)
    PROVE  LET y == [x EXCEPT !.be = LoopRequest(x.be, op, r, S, l)] IN
           /\ Base(y, iss, mk) /\ ButBe(x, y) /\ y.be = LoopRequest(x.be, op, r, S, l)
<1> DEFINE b == LoopRequest(x.be, op, r, S, l)
           y == [x EXCEPT !.be = b]
           m == Message(op, r, S, l)
           s == x.be.users[S]
<1>0. r \in Reqs /\ S \in Users /\ x \in VocsStates /\ x.be \in BackendStates
    BY VocsTyping DEF Base, ClientReqs
<1>1. /\ b \in BackendStates /\ b.slot = x.be.slot /\ b.users = x.be.users /\ b.mix = x.be.mix
      /\ HasMixer(x.be, S) => s \in Sockets
      /\ b.wire = IF HasMixer(x.be, S) THEN [x.be.wire EXCEPT ![s] = Append(x.be.wire[s], m)]
                  ELSE x.be.wire
  <2>1. SentToMixer(x.be, b, S, m)
    BY <1>0, LoopRequestFields
  <2> QED
    BY <2>1 DEF SentToMixer
<1>2. m \in Messages
    BY <1>0, MessageType DEF BackendOps, LoopOps
<1> HIDE DEF b, m, s
<1>3. y \in VocsStates /\ y.be = b /\ ButBe(x, y)
    BY <1>0, <1>1, WithBe
<1> HIDE DEF y
<1>4. OtherBackend(x, y, mk)
    BY <1>1, <1>3 DEF OtherBackend
<1>5. BeFits(x, m, iss, mk)
    BY DEF m
<1>6. CASE HasMixer(x.be, S)
  <2>1. s \in Sockets /\ Appended(y.be.wire, x.be.wire, s, m)
    BY <1>1, <1>3, <1>6 DEF Appended
  <2>2. Base(y, iss, mk)
    BY <1>2, <1>4, <1>5, <2>1, BaseBeSend
  <2> QED
    BY <1>3, <2>2 DEF y, b
<1>7. CASE ~HasMixer(x.be, S)
  <2>1. Base(y, iss, mk)
    BY <1>1, <1>3, <1>4, <1>7, BaseCallbacks
  <2> QED
    BY <1>3, <2>1 DEF y, b
<1> QED
    BY <1>6, <1>7

(* What is asked of a proxy is worded as it should be, and is awaited.     *)
FeFits(x, m, iss, mk) ==
    /\ FeWorded(m, iss, mk) /\ Unused(x.be.wire, x.fe.wire, m.id)
    /\ \A e \in x.async : e.id = m.id => FeAwaited(m, e, x.ldap)

(* y is x but for the queues of the frontend.                              *)
OtherQueues(x, y) == y \in VocsStates /\ ButFe(x, y) /\ OtherwiseSame(x.fe, y.fe)

(* A request to a proxy.                                                   *)
LEMMA BaseFeSend ==
    ASSUME NEW x, NEW y, NEW iss, NEW mk, NEW p \in Proxies, NEW m \in FE!ProxyMessages,
           Base(x, iss, mk), OtherQueues(x, y), FeFits(x, m, iss, mk),
           Appended(y.fe.wire, x.fe.wire, p, m)
    PROVE  Base(y, iss, mk)
<1> DEFINE W == x.be.wire
           Z == y.fe.wire
           V == x.fe.wire
<1>1. x \in VocsStates /\ y \in VocsStates /\ y.be = x.be /\ y.async = x.async /\ y.ldap = x.ldap
    BY DEF Base, OtherQueues, ButFe
<1>2. W \in MixerQueues /\ V \in ProxyQueues /\ Tokens(W, V)
    BY <1>1, VocsTyping, BackendTyping, FrontendTyping DEF MixerQueues, ProxyQueues, Base
<1>3. Unused(W, V, m.id) /\ Appended(Z, V, p, m)
    BY DEF FeFits
<1> HIDE DEF W, Z, V
<1>4. FeGrown(Z, W, V, p, m)
    BY <1>2, <1>3, TokensFeSend
<1>5. Tokens(W, Z) /\ \A q \in Proxies : \A n \in In(Z[q]) : n \in In(V[q]) \/ n = m
    BY <1>4 DEF FeGrown
<1>6. FeMeant(Z, y.async, y.ldap, iss, mk)
    BY <1>1, <1>5 DEF Base, FeMeant, FeFits, V
<1>8. \A S \in Users \ mk : Unknown(y, S)
    BY DEF Base, Unknown, OtherQueues, ButFe, OtherwiseSame
<1>9. /\ BeMeant(y.be.wire, y.async, iss, mk) /\ AcquireOnce(y.be.wire)
      /\ Permitted(y.be, y.fe) /\ FiniteTables(y.fe)
    BY <1>1 DEF Base, OtherQueues, OtherwiseSame, Permitted, FiniteTables
<1> QED
    BY <1>1, <1>5, <1>6, <1>8, <1>9 DEF Base, Z, W

(* A request to the home of session S.                                     *)
LEMMA BaseSendHome ==
    ASSUME NEW x, NEW f, NEW iss, NEW mk, NEW S, NEW m \in FE!ProxyMessages,
           Base(x, iss, mk), FeFits(x, m, iss, mk), SentHome(x.fe, f, S, m)
    PROVE  LET y == [x EXCEPT !.fe = f] IN Base(y, iss, mk) /\ OtherQueues(x, y) /\ y.fe = f
<1> DEFINE y == [x EXCEPT !.fe = f]
<1>0. x \in VocsStates /\ f \in FE!FrontendStates
    BY DEF Base, SentHome
<1>1. y \in VocsStates /\ y.fe = f /\ ButFe(x, y)
    BY <1>0, WithFe
<1> HIDE DEF y
<1>2. OtherQueues(x, y)
    BY <1>1 DEF OtherQueues, SentHome
<1>3. CASE FE!HasProxy(x.fe, S)
  <2>1. x.fe.home[S] \in Proxies /\ Appended(y.fe.wire, x.fe.wire, x.fe.home[S], m)
    BY <1>1, <1>3 DEF SentHome, Appended
  <2>2. Base(y, iss, mk)
    BY <1>2, <2>1, BaseFeSend
  <2> QED
    BY <1>1, <1>2, <2>2 DEF y
<1>4. CASE ~FE!HasProxy(x.fe, S)
  <2>1. y.fe.wire = x.fe.wire
    BY <1>1, <1>4 DEF SentHome
  <2>2. \A T \in Users \ mk : Unknown(y, T)
    BY <1>2 DEF Base, Unknown, OtherQueues, ButFe, OtherwiseSame
  <2>3. Base(y, iss, mk)
    BY <1>2, <2>1, <2>2 DEF Base, OtherQueues, ButFe, OtherwiseSame, Permitted, FiniteTables
  <2> QED
    BY <1>1, <1>2, <2>3 DEF y
<1> QED
    BY <1>3, <1>4

-----------------------------------------------------------------------------
(* The store of requests.                                                  *)

(* y is x but for the store and what is owed.                              *)
ButStore(x, y) ==
    /\ y \in VocsStates /\ y.up = x.up /\ y.conn = x.conn /\ y.sess = x.sess /\ y.parts = x.parts
    /\ y.ldap = x.ldap /\ y.be = x.be /\ y.fe = x.fe /\ y.ready = x.ready

(* The entry of r is taken out, and c has a response to r.                 *)
Taken(x, y, r) == ButStore(x, y) /\ y.async = {e \in x.async : e.id # r} /\ y.owed = x.owed

Settled(x, y, r, c) ==
    ButStore(x, y) /\ y.async = {e \in x.async : e.id # r} /\ y.owed = x.owed \ {<<r, c>>}

(* Entry e is stored and c waits for a response to it.                     *)
Asked(x, y, e) ==
    /\ ButStore(x, y) /\ y.async = x.async \cup {e} /\ y.owed = x.owed \cup {<<e.id, e.sock>>}

(* Taking out and settling.                                                *)
LEMMA TakenFields ==
    ASSUME NEW x \in VocsStates, NEW r, NEW c
    PROVE  /\ Taken(x, AsyncUnset(x, r), r)
           /\ Settled(x, Respond(AsyncUnset(x, r), r, c), r, c)
<1> DEFINE y == AsyncUnset(x, r)
           z == Respond(y, r, c)
<1>1. Taken(x, y, r)
    BY DEF Taken, ButStore, AsyncUnset, VocsStates
<1>2. z = [y EXCEPT !.owed = @ \ {<<r, c>>}]
    BY DEF Respond
<1> HIDE DEF y, z
<1>3. ButStore(y, z) /\ z.async = y.async /\ z.owed = y.owed \ {<<r, c>>}
    BY <1>1, <1>2 DEF Taken, ButStore, VocsStates
<1>4. Settled(x, z, r, c)
    BY <1>1, <1>3 DEF Taken, Settled, ButStore
<1> QED
    BY <1>1, <1>4 DEF y, z

(* Asking and storing.                                                     *)
LEMMA AskedFields ==
    ASSUME NEW x \in VocsStates, NEW e \in Entries
    PROVE  /\ Asked(x, AsyncSet(Owe(x, e.id, e.sock), e), e)
           /\ ButStore(x, AsyncSet(x, e)) /\ AsyncSet(x, e).async = x.async \cup {e}
           /\ AsyncSet(x, e).owed = x.owed
<1> DEFINE y == Owe(x, e.id, e.sock)
           z == AsyncSet(y, e)
<1>0. e.id \in Reqs /\ e.sock \in Clients
    BY DEF Entries
<1>1. ButStore(x, y) /\ y.async = x.async /\ y.owed = x.owed \cup {<<e.id, e.sock>>}
    BY <1>0 DEF ButStore, Owe, VocsStates
<1>2. \A k \in VocsStates : /\ ButStore(k, AsyncSet(k, e)) /\ AsyncSet(k, e).async = k.async \cup {e}
                            /\ AsyncSet(k, e).owed = k.owed
    BY DEF ButStore, AsyncSet, VocsStates
<1>3. y \in VocsStates
    BY <1>1 DEF ButStore
<1> HIDE DEF y
<1>4. Asked(x, z, e)
    BY <1>1, <1>2, <1>3 DEF Asked, ButStore
<1> QED
    BY <1>2, <1>4 DEF y

(* Entries have the type of entries.                                       *)
LEMMA EntryType ==
    ASSUME NEW r \in Reqs, NEW c \in Clients, NEW l \in Loops \cup {None},
           NEW want \in LoopStates \cup {None}
    PROVE  /\ Entry(r, c, l, want) \in Entries
           /\ Entry(r, c, l, want).id = r /\ Entry(r, c, l, want).sock = c
           /\ Entry(r, c, l, want).loop = l /\ Entry(r, c, l, want).want = want
    BY DEF Entry, Entries

(* The entry that is found.                                                *)
LEMMA AsyncFound ==
    ASSUME NEW x \in VocsStates, NEW r, AsyncHas(x, r)
    PROVE  LET e == AsyncGet(x, r) IN e \in x.async /\ e.id = r /\ e \in Entries /\ e.sock \in Clients
<1>1. AsyncGet(x, r) \in x.async /\ AsyncGet(x, r).id = r
    BY DEF AsyncHas, AsyncGet
<1> QED
    BY <1>1, VocsTyping DEF Entries

(* What is stored changes nothing else.                                    *)
LEMMA StoreKept ==
    ASSUME NEW x, NEW y, ButStore(x, y)
    PROVE  Kept(x, y)
    BY DEF ButStore, Kept

(* Taking out and settling keep the base invariant.                        *)
LEMMA BaseTaken ==
    ASSUME NEW x, NEW iss, NEW mk, NEW r, NEW c, Base(x, iss, mk)
    PROVE  /\ Base(AsyncUnset(x, r), iss, mk)
           /\ Base(Respond(AsyncUnset(x, r), r, c), iss, mk)
<1>0. x \in VocsStates
    BY DEF Base
<1>1. /\ Taken(x, AsyncUnset(x, r), r)
      /\ Settled(x, Respond(AsyncUnset(x, r), r, c), r, c)
    BY <1>0, TakenFields
<1> DEFINE y == AsyncUnset(x, r)
           z == Respond(AsyncUnset(x, r), r, c)
<1> HIDE DEF y, z
<1>2. Kept(x, y) /\ y.async \subseteq x.async /\ y.ldap \subseteq x.ldap
    BY <1>1, StoreKept DEF Taken, ButStore, y
<1>3. Kept(x, z) /\ z.async \subseteq x.async /\ z.ldap \subseteq x.ldap
    BY <1>1, StoreKept DEF Settled, ButStore, z
<1> QED
    BY <1>2, <1>3, BasePlain DEF y, z

(* A request that is stored when its message is on its way.                *)
LEMMA BaseAsked ==
    ASSUME NEW x, NEW iss, NEW mk, NEW e \in Entries, Base(x, iss, mk),
           e.id \in iss, e.id \notin x.ldap, \A g \in x.async : g.id # e.id, Suits(x, e)
    PROVE  /\ Base(AsyncSet(Owe(x, e.id, e.sock), e), iss, mk)
           /\ Base(AsyncSet(x, e), iss, mk)
<1> DEFINE y == AsyncSet(Owe(x, e.id, e.sock), e)
           z == AsyncSet(x, e)
<1>0. x \in VocsStates
    BY DEF Base
<1>1. Asked(x, y, e) /\ ButStore(x, z) /\ z.async = x.async \cup {e}
    BY <1>0, AskedFields
<1> HIDE DEF y, z
<1>2. Kept(x, y) /\ y.async = x.async \cup {e} /\ y.ldap = x.ldap
    BY <1>1, StoreKept DEF Asked, ButStore
<1>3. Kept(x, z) /\ z.async = x.async \cup {e} /\ z.ldap = x.ldap
    BY <1>1, StoreKept DEF ButStore
<1>4. Base(y, iss, mk)
    BY <1>2, BaseSet
<1>5. Base(z, iss, mk)
    BY <1>3, BaseSet
<1> QED
    BY <1>4, <1>5 DEF y, z

(* Dropping a connection, whether there is one or not.                     *)
LEMMA BaseDropConnection ==
    ASSUME NEW x, NEW iss, NEW mk, NEW c \in Clients \cup {NoSocket}, NEW frontend \in BOOLEAN,
           NEW backend \in BOOLEAN, Base(x, iss, mk)
    PROVE  /\ Base(DropConnection(x, c, frontend, backend), iss, mk)
           /\ Base(DropLocked(x, c, frontend, backend), iss, mk)
<1>0. x \in VocsStates
    BY DEF Base
<1> DEFINE y == DropLocked(x, c, frontend, backend)
           z == DropConnection(x, c, frontend, backend)
<1>1. CASE c = NoSocket
    BY <1>1 DEF DropConnection, DropLocked
<1>2. CASE c # NoSocket
  <2>1. c \in Clients
    BY <1>2
  <2>2. /\ Dropped(x, y, c, frontend, backend) /\ y.async = x.async
        /\ Dropped(x, z, c, frontend, backend) /\ z.async = {e \in x.async : e.sock # c}
    BY <1>0, <2>1, DropFields
  <2> HIDE DEF y, z
  <2>3. y.async \subseteq x.async /\ z.async \subseteq x.async
    BY <2>2
  <2>4. Base(y, iss, mk) /\ Base(z, iss, mk)
    BY <2>1, <2>2, <2>3, BaseDrop
  <2> QED
    BY <2>4 DEF y, z
<1> QED
    BY <1>1, <1>2

-----------------------------------------------------------------------------
(* Requests of clients keep the base invariant.                            *)

(* y is x but for the data stored for connection c.                        *)
ButConn(x, y) ==
    /\ y \in VocsStates /\ y.up = x.up /\ y.sess = x.sess /\ y.async = x.async /\ y.parts = x.parts
    /\ y.ldap = x.ldap /\ y.be = x.be /\ y.fe = x.fe /\ y.owed = x.owed /\ y.ready = x.ready

(* Login and authorization mark the connection.                            *)
LEMMA MarkedFields ==
    ASSUME NEW x \in VocsStates, NEW c \in Clients
    PROVE  /\ ButConn(x, Authenticated(x, c))
           /\ Authenticated(x, c).conn = [x.conn EXCEPT ![c] = [x.conn[c] EXCEPT !.user = TRUE]]
           /\ ButConn(x, [x EXCEPT !.conn[c].role = TRUE])
           /\ [x EXCEPT !.conn[c].role = TRUE].conn =
                [x.conn EXCEPT ![c] = [x.conn[c] EXCEPT !.role = TRUE]]
<1> DEFINE u == [x.conn[c] EXCEPT !.user = TRUE]
           r == [x.conn[c] EXCEPT !.role = TRUE]
           U == [x.conn EXCEPT ![c] = u]
           R == [x.conn EXCEPT ![c] = r]
<1>1. u \in Conns /\ r \in Conns
  <2>1. x.conn[c] \in Conns
    BY VocsTyping
  <2> QED
    BY <2>1 DEF Conns
<1>2. Authenticated(x, c) = [x EXCEPT !.conn = U] /\ [x EXCEPT !.conn[c].role = TRUE] = [x EXCEPT !.conn = R]
    BY DEF Authenticated
<1> HIDE DEF u, r
<1>3. U \in [Clients -> Conns] /\ R \in [Clients -> Conns]
    BY <1>1, VocsTyping
<1> HIDE DEF U, R
<1>4. \A C \in [Clients -> Conns] : ButConn(x, [x EXCEPT !.conn = C]) /\ [x EXCEPT !.conn = C].conn = C
    BY DEF ButConn, VocsStates
<1> QED
    BY <1>2, <1>3, <1>4 DEF U, R, u, r

(* The session of the connection is the same.                              *)
LEMMA MarkedKept ==
    ASSUME NEW x \in VocsStates, NEW c \in Clients
    PROVE  Kept(x, Authenticated(x, c)) /\ Kept(x, [x EXCEPT !.conn[c].role = TRUE])
<1>1. x.conn \in [Clients -> Conns]
    BY VocsTyping
<1> DEFINE y == Authenticated(x, c)
           z == [x EXCEPT !.conn[c].role = TRUE]
<1>2. /\ ButConn(x, y) /\ y.conn = [x.conn EXCEPT ![c] = [x.conn[c] EXCEPT !.user = TRUE]]
      /\ ButConn(x, z) /\ z.conn = [x.conn EXCEPT ![c] = [x.conn[c] EXCEPT !.role = TRUE]]
    BY MarkedFields
<1> HIDE DEF y, z
<1>3. \A k \in Clients : y.conn[k].session = x.conn[k].session /\ z.conn[k].session = x.conn[k].session
    BY <1>1, <1>2 DEF Conns
<1>4. Kept(x, y) /\ Kept(x, z)
    BY <1>2, <1>3 DEF ButConn, Kept
<1> QED
    BY <1>4 DEF y, z

(* Login, authorization, logout and the close of a connection.             *)
LEMMA BaseLogin ==
    ASSUME NEW x, NEW iss, NEW mk, NEW c \in Clients, NEW valid \in BOOLEAN, Base(x, iss, mk)
    PROVE  /\ Base(Close(x, c), iss, mk)
           /\ Base(Authenticated(x, c), iss, mk)
           /\ Base(ClientLogin(x, c, valid), iss, mk)
           /\ Base(ClientAuthorize(x, c, valid), iss, mk)
           /\ Base(ClientLogout(x, c), iss, mk)
<1>0. x \in VocsStates
    BY DEF Base
<1>1. Base(Close(x, c), iss, mk)
    BY BaseDropConnection DEF Close
<1>2. Base(Authenticated(x, c), iss, mk)
  <2> DEFINE y == Authenticated(x, c)
  <2>1. Kept(x, y) /\ ButConn(x, y)
    BY <1>0, MarkedFields, MarkedKept
  <2> HIDE DEF y
  <2>2. y.async \subseteq x.async /\ y.ldap \subseteq x.ldap
    BY <2>1 DEF ButConn
  <2>3. Base(y, iss, mk)
    BY <2>1, <2>2, BasePlain
  <2> QED
    BY <2>3 DEF y
<1>3. Base([x EXCEPT !.conn[c].role = TRUE], iss, mk)
  <2> DEFINE y == [x EXCEPT !.conn[c].role = TRUE]
  <2>1. Kept(x, y) /\ ButConn(x, y)
    BY <1>0, MarkedFields, MarkedKept
  <2> HIDE DEF y
  <2>2. y.async \subseteq x.async /\ y.ldap \subseteq x.ldap
    BY <2>1 DEF ButConn
  <2>3. Base(y, iss, mk)
    BY <2>1, <2>2, BasePlain
  <2> QED
    BY <2>3 DEF y
<1>4. ClientLogin(x, c, valid) \in {Close(x, c), Authenticated(x, c)}
    BY DEF ClientLogin
<1>5. ClientAuthorize(x, c, valid) \in {Close(x, c), [x EXCEPT !.conn[c].role = TRUE]}
    BY DEF ClientAuthorize
<1>6. ClientLogout(x, c) = Close(x, c)
    BY DEF ClientLogout, Close
<1> QED
    BY <1>1, <1>2, <1>3, <1>4, <1>5, <1>6

(* A login by LDAP.                                                        *)
LEMMA BaseLoginLdap ==
    ASSUME NEW x, NEW iss, NEW mk, NEW c \in Clients, NEW r \in iss,
           Base(x, iss, mk), Fresh(x, r)
    PROVE  Base(ClientLoginLdap(x, r, c), iss, mk)
<1>0. x \in VocsStates /\ r \in Reqs
    BY DEF Base, ClientReqs
<1> DEFINE e == Entry(r, c, None, None)
           w == [x EXCEPT !.ldap = @ \cup {r}]
           y == AsyncSet(Owe(w, r, c), e)
<1>1. e \in Entries /\ e.id = r /\ e.sock = c /\ e.loop = None
    BY <1>0, EntryType
<1>2. /\ w \in VocsStates /\ w.ldap = x.ldap \cup {r} /\ w.async = x.async /\ Kept(x, w)
    BY <1>0 DEF VocsStates, Kept
<1>3. ClientLoginLdap(x, r, c) \in {Close(x, c), y}
    BY DEF ClientLoginLdap
<1> HIDE DEF e, w
<1>4. Asked(w, y, e)
    BY <1>1, <1>2, AskedFields
<1> HIDE DEF y
<1>5. Kept(w, y) /\ y.async = w.async \cup {e} /\ y.ldap = w.ldap
    BY <1>4, StoreKept DEF Asked, ButStore
<1>6. Kept(x, y) /\ y.async = x.async \cup {e} /\ y.ldap = x.ldap \cup {e.id} /\ Fresh(x, e.id)
    BY <1>1, <1>2, <1>5 DEF Kept
<1>7. Base(y, iss, mk)
    BY <1>1, <1>6, BaseSetLdap
<1>8. Base(Close(x, c), iss, mk)
    BY BaseLogin
<1> QED
    BY <1>3, <1>7, <1>8

(* The answer of LDAP.                                                     *)
LEMMA BaseLdapAnswer ==
    ASSUME NEW x, NEW iss, NEW mk, NEW r, NEW granted \in BOOLEAN, Base(x, iss, mk)
    PROVE  Base(LdapAuthentication(x, r, granted), iss, mk)
<1>0. x \in VocsStates
    BY DEF Base
<1> DEFINE a == AsyncUnset(x, r)
           y == [a EXCEPT !.ldap = @ \ {r}]
           c == AsyncGet(x, r).sock
           z == Respond(y, r, c)
<1>1. LdapAuthentication(x, r, granted) =
        IF ~AsyncHas(x, r) THEN y ELSE IF granted THEN Authenticated(z, c) ELSE Close(y, c)
    BY DEF LdapAuthentication
<1>2. AsyncHas(x, r) => c \in Clients
    BY <1>0, AsyncFound
<1>3. Base(a, iss, mk)
    BY BaseTaken
<1> HIDE DEF a, c
<1>4. Base(y, iss, mk)
  <2>1. a \in VocsStates
    BY <1>3 DEF Base
  <2>2. Kept(a, y) /\ y.async \subseteq a.async /\ y.ldap \subseteq a.ldap
    BY <2>1 DEF Kept, VocsStates
  <2> HIDE DEF y
  <2> QED
    BY <1>3, <2>2, BasePlain
<1> HIDE DEF y
<1>5. Base(z, iss, mk)
  <2>1. y \in VocsStates
    BY <1>4 DEF Base
  <2>2. Kept(y, z) /\ z.async \subseteq y.async /\ z.ldap \subseteq y.ldap
    BY <2>1 DEF Kept, VocsStates, Respond
  <2> HIDE DEF z
  <2> QED
    BY <1>4, <2>2, BasePlain
<1> HIDE DEF z
<1>6. CASE ~AsyncHas(x, r)
    BY <1>1, <1>4, <1>6
<1>7. CASE AsyncHas(x, r)
  <2>1. Base(Authenticated(z, c), iss, mk) /\ Base(Close(y, c), iss, mk)
    BY <1>2, <1>4, <1>5, <1>7, BaseLogin
  <2> QED
    BY <1>1, <1>7, <2>1
<1> QED
    BY <1>6, <1>7

(* m is in addition where requests about session S go.                     *)
AlsoHome(f, g, S, m) ==
    \A p \in Proxies :
        In(g.wire[p]) = In(f.wire[p]) \cup (IF FE!HasProxy(f, S) /\ p = f.home[S] THEN {m} ELSE {})

AlsoAtMixer(b, g, S, m) ==
    \A s \in Sockets :
        In(g.wire[s]) = In(b.wire[s]) \cup (IF HasMixer(b, S) /\ s = b.users[S] THEN {m} ELSE {})

(* What is in the queues after a request to the home of session S.         *)
LEMMA SentIn ==
    ASSUME NEW f \in FE!FrontendStates, NEW g, NEW S, NEW m \in FE!ProxyMessages, SentHome(f, g, S, m)
    PROVE  AlsoHome(f, g, S, m)
<1> SUFFICES ASSUME NEW p \in Proxies
             PROVE  In(g.wire[p]) = In(f.wire[p]) \cup
                        (IF FE!HasProxy(f, S) /\ p = f.home[S] THEN {m} ELSE {})
    BY DEF AlsoHome
<1>1. f.wire \in [Proxies -> Seq(FE!ProxyMessages)] /\ f.wire[p] \in Seq(FE!ProxyMessages)
    BY FrontendTyping
<1>2. In(Append(f.wire[p], m)) = In(f.wire[p]) \cup {m}
    BY <1>1, QueueFacts
<1>3. CASE FE!HasProxy(f, S) /\ p = f.home[S]
  <2>1. g.wire = [f.wire EXCEPT ![p] = Append(f.wire[p], m)]
    BY <1>3 DEF SentHome
  <2>2. g.wire[p] = Append(f.wire[p], m)
    BY <1>1, <2>1
  <2> QED
    BY <1>2, <1>3, <2>2
<1>4. CASE ~(FE!HasProxy(f, S) /\ p = f.home[S])
  <2>1. g.wire[p] = f.wire[p]
    BY <1>1, <1>4 DEF SentHome
  <2> QED
    BY <1>4, <2>1
<1> QED
    BY <1>3, <1>4

(* What is in the queues after a request to the mixer of session S.        *)
LEMMA SentInMixer ==
    ASSUME NEW b \in BackendStates, NEW g, NEW S, NEW m \in Messages, SentToMixer(b, g, S, m)
    PROVE  AlsoAtMixer(b, g, S, m)
<1> SUFFICES ASSUME NEW s \in Sockets
             PROVE  In(g.wire[s]) = In(b.wire[s]) \cup
                        (IF HasMixer(b, S) /\ s = b.users[S] THEN {m} ELSE {})
    BY DEF AlsoAtMixer
<1>1. b.wire \in [Sockets -> Seq(Messages)] /\ b.wire[s] \in Seq(Messages)
    BY BackendTyping
<1>2. In(Append(b.wire[s], m)) = In(b.wire[s]) \cup {m}
    BY <1>1, QueueFacts
<1>3. CASE HasMixer(b, S) /\ s = b.users[S]
  <2>1. g.wire = [b.wire EXCEPT ![s] = Append(b.wire[s], m)]
    BY <1>3 DEF SentToMixer
  <2>2. g.wire[s] = Append(b.wire[s], m)
    BY <1>1, <2>1
  <2> QED
    BY <1>2, <1>3, <2>2
<1>4. CASE ~(HasMixer(b, S) /\ s = b.users[S])
  <2>1. g.wire[s] = b.wire[s]
    BY <1>1, <1>4 DEF SentToMixer
  <2> QED
    BY <1>4, <2>1
<1> QED
    BY <1>3, <1>4

(* Nothing but the last request has the uuid of the entry.                 *)
LEMMA FreshSuits ==
    ASSUME NEW x, NEW y, NEW e, e.id \in ClientReqs, Fresh(x, e.id), y.ldap = x.ldap, y.async = x.async,
           \A s \in Sockets : \A m \in In(y.be.wire[s]) : m \in In(x.be.wire[s]) \/ BeAwaited(m, e),
           \A p \in Proxies : \A m \in In(y.fe.wire[p]) : m \in In(x.fe.wire[p]) \/ FeAwaited(m, e, x.ldap)
    PROVE  Suits(y, e) /\ e.id \notin y.ldap /\ \A g \in y.async : g.id # e.id
    BY DEF Fresh, Unused, Absent, Suits

(* A client's request to the proxy of its session.                         *)
LEMMA BaseFeRequest ==
    ASSUME NEW x, NEW iss, NEW mk, NEW S, NEW f, NEW m \in FE!ProxyMessages, NEW e \in Entries,
           Base(x, iss, mk), e.id \in iss, Fresh(x, e.id), m.id = e.id, FeWorded(m, iss, mk),
           FeAwaited(m, e, x.ldap), SentHome(x.fe, f, S, m)
    PROVE  /\ Base(AsyncSet(Owe([x EXCEPT !.fe = f], e.id, e.sock), e), iss, mk)
           /\ Base([x EXCEPT !.fe = f], iss, mk)
<1> DEFINE y == [x EXCEPT !.fe = f]
<1>0. x \in VocsStates /\ x.fe \in FE!FrontendStates /\ e.id \in ClientReqs
    BY VocsTyping DEF Base
<1>1. FeFits(x, m, iss, mk)
    BY DEF FeFits, Fresh
<1>2. Base(y, iss, mk) /\ OtherQueues(x, y) /\ y.fe = f
    BY <1>1, BaseSendHome
<1> HIDE DEF y
<1>3. y.be = x.be /\ y.async = x.async /\ y.ldap = x.ldap
    BY <1>2 DEF OtherQueues, ButFe
<1>4. \A p \in Proxies : \A n \in In(y.fe.wire[p]) : n \in In(x.fe.wire[p]) \/ FeAwaited(n, e, x.ldap)
  <2>0. AlsoHome(x.fe, y.fe, S, m)
    BY <1>0, <1>2, SentIn
  <2>1. \A p \in Proxies : In(y.fe.wire[p]) \subseteq In(x.fe.wire[p]) \cup {m}
    BY <2>0 DEF AlsoHome
  <2> QED
    BY <2>1
<1>5. Suits(y, e) /\ e.id \notin y.ldap /\ \A g \in y.async : g.id # e.id
    BY <1>0, <1>3, <1>4, FreshSuits
<1>6. Base(AsyncSet(Owe(y, e.id, e.sock), e), iss, mk)
    BY <1>2, <1>5, BaseAsked
<1> QED
    BY <1>2, <1>6 DEF y

(* A client's request to the mixer of its session.                         *)
LEMMA BaseBeRequest ==
    ASSUME NEW x, NEW iss, NEW mk, NEW S \in mk, NEW op \in LoopOps, NEW e \in Entries, e.loop \in Loops,
           Base(x, iss, mk), e.id \in iss, Fresh(x, e.id),
           op = "join" => /\ Permission[e.loop] # "none" /\ e.want \in {"recv", "send"}
                          /\ Granted(Permission[e.loop], e.want)
    PROVE  LET y == [x EXCEPT !.be = LoopRequest(x.be, op, e.id, S, e.loop)] IN
           Base(AsyncSet(Owe(y, e.id, e.sock), e), iss, mk) /\ Base(y, iss, mk)
<1> DEFINE b == LoopRequest(x.be, op, e.id, S, e.loop)
           y == [x EXCEPT !.be = b]
           m == Message(op, e.id, S, e.loop)
<1>0. x \in VocsStates /\ x.be \in BackendStates /\ e.id \in ClientReqs /\ e.id \in Reqs /\ S \in Users
    BY VocsTyping DEF Base, ClientReqs
<1>1. m \in Messages /\ m.op = op /\ m.id = e.id /\ m.user = S /\ m.loop = e.loop
    BY <1>0, MessageType DEF BackendOps, LoopOps
<1>2. BeWorded(m, iss, mk) /\ BeAwaited(m, e) /\ m.op # "acquire"
    BY <1>1 DEF BeWorded, BeAwaited, LoopOps
<1>3. SentToMixer(x.be, b, S, m)
    BY <1>0, LoopRequestFields
<1>4. BeFits(x, m, iss, mk)
    BY <1>1, <1>2 DEF BeFits, Fresh
<1>5. Base(y, iss, mk) /\ ButBe(x, y) /\ y.be = b
    BY <1>4, BaseLoopRequest
<1> HIDE DEF y, m, b
<1>6. y.fe = x.fe /\ y.async = x.async /\ y.ldap = x.ldap
    BY <1>5 DEF ButBe
<1>7. \A s \in Sockets : \A n \in In(y.be.wire[s]) : n \in In(x.be.wire[s]) \/ BeAwaited(n, e)
  <2>0. AlsoAtMixer(x.be, y.be, S, m)
    BY <1>0, <1>1, <1>3, <1>5, SentInMixer
  <2>1. \A s \in Sockets : In(y.be.wire[s]) \subseteq In(x.be.wire[s]) \cup {m}
    BY <2>0 DEF AlsoAtMixer
  <2> QED
    BY <1>2, <2>1
<1>8. Suits(y, e) /\ e.id \notin y.ldap /\ \A g \in y.async : g.id # e.id
    BY <1>0, <1>6, <1>7, FreshSuits
<1>9. Base(AsyncSet(Owe(y, e.id, e.sock), e), iss, mk)
    BY <1>5, <1>8, BaseAsked
<1> QED
    BY <1>5, <1>9 DEF y, b

(* A request for a session.                                                *)
LEMMA BaseMedia ==
    ASSUME NEW x, NEW iss, NEW mk, NEW c \in Clients, NEW r \in iss, Base(x, iss, mk), Fresh(x, r)
    PROVE  Base(ClientMedia(x, r, c), iss, mk)
<1>0. x \in VocsStates /\ x.fe \in FE!FrontendStates /\ r \in Reqs /\ r \in ClientReqs
    BY VocsTyping DEF Base, ClientReqs
<1> DEFINE e == Entry(r, c, None, None)
           m == FE!ProxyMessage("create", r, None, None)
           f == FE!CreateSession(x.fe, r)
           y == [x EXCEPT !.fe = f]
<1>1. CASE ~x.conn[c].user \/ ~FE!ProxyAvailable(x.fe)
  <2>1. ClientMedia(x, r, c) = Close(x, c)
    BY <1>1 DEF ClientMedia
  <2> QED
    BY <2>1, BaseLogin
<1>2. CASE ~(~x.conn[c].user \/ ~FE!ProxyAvailable(x.fe))
  <2>1. ClientMedia(x, r, c) = AsyncSet(Owe(y, r, c), e)
    BY <1>2 DEF ClientMedia
  <2>2. e \in Entries /\ e.id = r /\ e.sock = c /\ e.loop = None
    BY <1>0, EntryType
  <2>3. m \in FE!ProxyMessages /\ m.op = "create" /\ m.id = r /\ m.session = None
    BY <1>0 DEF FE!FrontendOps, FE!ProxyMessages, FE!ProxyMessage
  <2>4. PICK p \in Proxies : /\ f \in FE!FrontendStates /\ OtherwiseSame(x.fe, f)
                             /\ f.wire = [x.fe.wire EXCEPT ![p] = Append(x.fe.wire[p], m)]
    BY <1>0, <1>2, CreateSessionFields
  <2> HIDE DEF e, m, f
  <2>5. y \in VocsStates /\ y.fe = f /\ ButFe(x, y)
    BY <1>0, <2>4, WithFe
  <2> HIDE DEF y
  <2>6. FeFits(x, m, iss, mk) /\ FeAwaited(m, e, x.ldap)
    BY <2>2, <2>3 DEF FeFits, Fresh, FeWorded, FeAwaited, TalkOps
  <2>7. OtherQueues(x, y) /\ Appended(y.fe.wire, x.fe.wire, p, m)
    BY <2>4, <2>5 DEF OtherQueues, Appended
  <2>8. Base(y, iss, mk)
    BY <2>3, <2>6, <2>7, BaseFeSend
  <2>9. y.be = x.be /\ y.async = x.async /\ y.ldap = x.ldap
    BY <2>5 DEF ButFe
  <2>10. \A q \in Proxies : \A n \in In(y.fe.wire[q]) : n \in In(x.fe.wire[q]) \/ FeAwaited(n, e, x.ldap)
    <3>1. x.be.wire \in MixerQueues /\ x.fe.wire \in ProxyQueues /\ Tokens(x.be.wire, x.fe.wire)
        BY <1>0, VocsTyping, BackendTyping, FrontendTyping DEF MixerQueues, ProxyQueues, Base
    <3>2. Unused(x.be.wire, x.fe.wire, m.id)
        BY <2>6 DEF FeFits
    <3>3. FeGrown(y.fe.wire, x.be.wire, x.fe.wire, p, m)
        BY <2>3, <2>7, <3>1, <3>2, TokensFeSend
    <3> QED
        BY <2>6, <3>3 DEF FeGrown
  <2>11. e.id \in ClientReqs /\ e.id \in iss /\ Fresh(x, e.id)
    BY <1>0, <2>2
  <2>12. Suits(y, e) /\ e.id \notin y.ldap /\ \A g \in y.async : g.id # e.id
    BY <2>9, <2>10, <2>11, FreshSuits
  <2>13. Base(AsyncSet(Owe(y, e.id, e.sock), e), iss, mk)
    BY <2>2, <2>8, <2>11, <2>12, BaseAsked
  <2> QED
    BY <2>1, <2>2, <2>13
<1> QED
    BY <1>1, <1>2

(* The session of a client is one that a proxy has made.                   *)
LEMMA SessionMade ==
    ASSUME NEW x, NEW iss, NEW mk, NEW c \in Clients, Base(x, iss, mk), x.conn[c].session # None
    PROVE  x.conn[c].session \in mk /\ x.conn[c].session \in Users
<1>1. x.conn[c].session \in Users \cup {None}
    BY VocsTyping DEF Base, Conns
<1> QED
    BY <1>1 DEF Base, Unknown

(* What a client sends for ICE.                                            *)
LEMMA BaseSignal ==
    ASSUME NEW x, NEW iss, NEW mk, NEW c \in Clients, NEW r \in iss, Base(x, iss, mk), Fresh(x, r)
    PROVE  Base(ClientUpdate(x, r, c), iss, mk) /\ Base(ClientCandidate(x, r, c), iss, mk)
<1>0. x \in VocsStates /\ x.fe \in FE!FrontendStates /\ r \in Reqs
    BY VocsTyping DEF Base, ClientReqs
<1>1. CASE ~MaySignal(x, c)
  <2>1. ClientUpdate(x, r, c) = Close(x, c) /\ ClientCandidate(x, r, c) = Close(x, c)
    BY <1>1 DEF ClientUpdate, ClientCandidate
  <2> QED
    BY <2>1, BaseLogin
<1>2. CASE MaySignal(x, c)
  <2> DEFINE S == x.conn[c].session
             e == Entry(r, c, None, None)
             u == FE!UpdateSession(x.fe, r, S)
             k == FE!Candidate(x.fe, r, S)
             m == FE!ProxyMessage("update", r, S, None)
             n == FE!ProxyMessage("candidate", r, S, None)
  <2>1. S \in mk /\ S \in Users
    BY <1>2, SessionMade DEF MaySignal
  <2>2. /\ ClientUpdate(x, r, c) = AsyncSet(Owe([x EXCEPT !.fe = u], r, c), e)
        /\ ClientCandidate(x, r, c) = AsyncSet(Owe([x EXCEPT !.fe = k], r, c), e)
    BY <1>2 DEF ClientUpdate, ClientCandidate
  <2>3. e \in Entries /\ e.id = r /\ e.sock = c /\ e.loop = None
    BY <1>0, EntryType
  <2> HIDE DEF S
  <2>4. /\ m \in FE!ProxyMessages /\ m.op = "update" /\ m.id = r /\ m.session = S
        /\ n \in FE!ProxyMessages /\ n.op = "candidate" /\ n.id = r /\ n.session = S
    BY <1>0, <2>1 DEF FE!FrontendOps, FE!ProxyMessages, FE!ProxyMessage
  <2>5. SentHome(x.fe, u, S, m) /\ SentHome(x.fe, k, S, n)
    BY <1>0, <2>1, SignalFields
  <2> HIDE DEF e, m, n, u, k
  <2>6. /\ e.id \in iss /\ Fresh(x, e.id) /\ m.id = e.id /\ n.id = e.id
        /\ FeWorded(m, iss, mk) /\ FeWorded(n, iss, mk)
        /\ FeAwaited(m, e, x.ldap) /\ FeAwaited(n, e, x.ldap)
    BY <2>1, <2>3, <2>4 DEF FeWorded, FeAwaited, TalkOps, Fresh
  <2>7. Base(AsyncSet(Owe([x EXCEPT !.fe = u], e.id, e.sock), e), iss, mk)
    BY <2>3, <2>4, <2>5, <2>6, BaseFeRequest
  <2>8. Base(AsyncSet(Owe([x EXCEPT !.fe = k], e.id, e.sock), e), iss, mk)
    BY <2>3, <2>4, <2>5, <2>6, BaseFeRequest
  <2> QED
    BY <2>2, <2>3, <2>7, <2>8
<1> QED
    BY <1>1, <1>2

(* A request for another state of a loop.                                  *)
LEMMA BaseSwitch ==
    ASSUME NEW x, NEW iss, NEW mk, NEW c \in Clients, NEW r \in iss, NEW l \in Loops,
           NEW want \in LoopStates, Base(x, iss, mk), Fresh(x, r)
    PROVE  Base(ClientSwitchLoopState(x, r, c, l, want), iss, mk)
<1> DEFINE d == x.conn[c]
           S == d.session
           cur == d.loops[l]
           y == PerformSwitch(x, r, S, l, cur, want)
           e == Entry(r, c, l, want)
           z == AsyncSet(Owe(y, r, c), e)
<1>0. x \in VocsStates /\ x.fe \in FE!FrontendStates /\ r \in Reqs
    BY VocsTyping DEF Base, ClientReqs
<1>1. CASE ~MaySwitch(d, l, want) \/ cur = want
  <2>1. ClientSwitchLoopState(x, r, c, l, want) \in {x, Close(x, c)}
    BY <1>1 DEF ClientSwitchLoopState
  <2> QED
    BY <2>1, BaseLogin
<1>2. CASE MaySwitch(d, l, want) /\ cur # want
  <2>1. ClientSwitchLoopState(x, r, c, l, want) \in {Close(y, c), z}
    BY <1>2 DEF ClientSwitchLoopState
  <2>2. S \in mk /\ S \in Users
    BY <1>2, SessionMade DEF MaySwitch
  <2>3. e \in Entries /\ e.id = r /\ e.sock = c /\ e.loop = l /\ e.want = want
    BY <1>0, EntryType
  <2>4. cur \in LoopStates
    BY <1>0, VocsTyping DEF Conns
  <2>5. Granted(Permission[l], want) /\ Permission[l] \in LoopStates
    BY <1>2, PermissionAssumption DEF MaySwitch
  <2>6. want # "none" => Permission[l] # "none"
    BY <2>5 DEF Granted, LoopStates
  <2>7. want = "send" => Permission[l] = "send"
    BY <2>5 DEF Granted
  <2> HIDE DEF d, S, cur, e
  <2>8. Base(AsyncSet(Owe(y, e.id, e.sock), e), iss, mk) /\ Base(y, iss, mk)
    <3>1. CASE cur = "none"
      <4>1. y = [x EXCEPT !.be = LoopRequest(x.be, "join", e.id, S, e.loop)]
        BY <2>3, <3>1 DEF PerformSwitch
      <4>2. /\ "join" \in LoopOps /\ e.loop \in Loops /\ e.id \in iss /\ Fresh(x, e.id)
            /\ Permission[e.loop] # "none" /\ e.want \in {"recv", "send"}
            /\ Granted(Permission[e.loop], e.want)
        BY <1>2, <2>3, <2>5, <2>6, <3>1 DEF LoopOps, LoopStates
      <4> QED
        BY <2>2, <2>3, <4>1, <4>2, BaseBeRequest
    <3>2. CASE cur = "recv" /\ want = "none"
      <4>1. y = [x EXCEPT !.be = LoopRequest(x.be, "leave", e.id, S, e.loop)]
        BY <2>3, <3>2 DEF PerformSwitch
      <4>2. "leave" \in LoopOps /\ e.loop \in Loops /\ e.id \in iss /\ Fresh(x, e.id)
        BY <2>3 DEF LoopOps
      <4> QED
        BY <2>2, <2>3, <4>1, <4>2, BaseBeRequest
    <3>3. ASSUME NEW on \in BOOLEAN, on => Permission[l] = "send" /\ want = "send",
                 y = [x EXCEPT !.fe = FE!Talk(x.fe, r, S, on, l)]
          PROVE  Base(AsyncSet(Owe(y, e.id, e.sock), e), iss, mk) /\ Base(y, iss, mk)
      <4> DEFINE m == TalkMessage(r, S, on, l)
                 f == FE!Talk(x.fe, r, S, on, l)
      <4>1. SentHome(x.fe, f, S, m)
        BY <1>0, <2>2, TalkFields
      <4>2. /\ m \in FE!ProxyMessages /\ m.id = r /\ m.session = S /\ m.loop = l
            /\ m.op = IF on THEN "talk on" ELSE "talk off"
        BY <1>0, <2>2 DEF FE!FrontendOps, FE!ProxyMessages, FE!ProxyMessage, TalkMessage
      <4> HIDE DEF m, f
      <4>3. /\ e.id \in iss /\ Fresh(x, e.id) /\ m.id = e.id
            /\ FeWorded(m, iss, mk) /\ FeAwaited(m, e, x.ldap)
        BY <2>2, <2>3, <3>3, <4>2 DEF FeWorded, FeAwaited, TalkOps, Fresh
      <4>4. y = [x EXCEPT !.fe = f]
        BY <3>3 DEF f
      <4> HIDE DEF y
      <4> QED
        BY <2>3, <4>1, <4>2, <4>3, <4>4, BaseFeRequest
    <3>4. CASE cur = "recv" /\ want = "send"
      <4>1. y = [x EXCEPT !.fe = FE!Talk(x.fe, r, S, TRUE, l)]
        BY <3>4 DEF PerformSwitch
      <4> HIDE DEF y
      <4> QED
        BY <2>7, <3>3, <3>4, <4>1
    <3>5. CASE cur = "send"
      <4>1. y = [x EXCEPT !.fe = FE!Talk(x.fe, r, S, FALSE, l)]
        BY <3>5 DEF PerformSwitch
      <4> HIDE DEF y
      <4> QED
        BY <3>3, <4>1
    <3> QED
        BY <1>2, <2>4, <3>1, <3>2, <3>4, <3>5 DEF LoopStates, cur
  <2> HIDE DEF y
  <2>9. Base(Close(y, c), iss, mk)
    BY <2>8, BaseLogin
  <2> QED
    BY <2>1, <2>3, <2>8, <2>9
<1> QED
    BY <1>1, <1>2

(* A request for another volume.                                           *)
LEMMA BaseVolume ==
    ASSUME NEW x, NEW iss, NEW mk, NEW c \in Clients, NEW r \in iss, NEW l \in Loops,
           Base(x, iss, mk), Fresh(x, r)
    PROVE  Base(ClientSwitchLoopVolume(x, r, c, l), iss, mk)
<1> DEFINE d == x.conn[c]
           S == d.session
           y == [x EXCEPT !.be = LoopRequest(x.be, "volume", r, S, l)]
           e == Entry(r, c, l, None)
           z == AsyncSet(Owe(y, r, c), e)
<1>0. x \in VocsStates /\ r \in Reqs
    BY DEF Base, ClientReqs
<1>1. CASE ~(d.user /\ d.role /\ d.session # None)
  <2>1. ClientSwitchLoopVolume(x, r, c, l) = Close(x, c)
    BY <1>1 DEF ClientSwitchLoopVolume
  <2> QED
    BY <2>1, BaseLogin
<1>2. CASE d.user /\ d.role /\ d.session # None
  <2>1. ClientSwitchLoopVolume(x, r, c, l) \in {Close(y, c), z}
    BY <1>2 DEF ClientSwitchLoopVolume
  <2>2. S \in mk
    BY <1>2, SessionMade
  <2>3. e \in Entries /\ e.id = r /\ e.sock = c /\ e.loop = l
    BY <1>0, EntryType
  <2> HIDE DEF e, S
  <2>4. y = [x EXCEPT !.be = LoopRequest(x.be, "volume", e.id, S, e.loop)]
    BY <2>3
  <2> HIDE DEF y
  <2>5. "volume" \in LoopOps /\ e.loop \in Loops /\ e.id \in iss /\ Fresh(x, e.id)
    BY <2>3 DEF LoopOps
  <2>6. Base(AsyncSet(Owe(y, e.id, e.sock), e), iss, mk) /\ Base(y, iss, mk)
    BY <2>2, <2>3, <2>4, <2>5, BaseBeRequest
  <2>7. Base(Close(y, c), iss, mk)
    BY <2>6, BaseLogin
  <2> QED
    BY <2>1, <2>3, <2>6, <2>7
<1> QED
    BY <1>1, <1>2

-----------------------------------------------------------------------------
(* What mixers say keeps the base invariant.                               *)

(* The backend forgets and hears what it may.                              *)
BeQuieter(b, g) ==
    /\ \A s \in Sockets : In(g.wire[s]) \subseteq In(b.wire[s])
    /\ \A S \in Users : g.users[S] \in {b.users[S], NoSlot}
    /\ \A s \in Sockets : g.slot[s] \in {b.slot[s], Closed, Free}
    /\ \A s \in Sockets : \A l \in g.mix[s].loops : Permission[l] # "none"

(* A step of the backend that sends nothing.                               *)
LEMMA BaseBackend ==
    ASSUME NEW x, NEW iss, NEW mk, NEW g \in BackendStates, Base(x, iss, mk),
           BeQuieter(x.be, g), Tokens(g.wire, x.fe.wire)
    PROVE  LET y == [x EXCEPT !.be = g] IN Base(y, iss, mk) /\ y.be = g /\ ButBe(x, y)
<1> DEFINE y == [x EXCEPT !.be = g]
<1>0. x \in VocsStates
    BY DEF Base
<1>1. y \in VocsStates /\ y.be = g /\ ButBe(x, y)
    BY <1>0, WithBe
<1> HIDE DEF y
<1>2. QuietMessages(x, y, mk) /\ QuietSessions(x, y, mk)
    BY <1>1 DEF QuietMessages, QuietSessions, BeQuieter, ButBe
<1>3. Permitted(y.be, y.fe) /\ FiniteTables(y.fe)
    BY <1>1 DEF Permitted, Base, BeQuieter, ButBe
<1>4. Quiet(x, y, mk)
    BY <1>1, <1>2, <1>3 DEF Quiet, ButBe
<1>5. Base(y, iss, mk)
    BY <1>4, BaseQuiet
<1> QED
    BY <1>1, <1>5 DEF y

(* A mixer connects or its connection ends.                                *)
LEMMA BaseMixerConnection ==
    ASSUME NEW x, NEW iss, NEW mk, NEW s \in Sockets, Base(x, iss, mk)
    PROVE  /\ Base([x EXCEPT !.be = CbEventRegister(x.be, s)], iss, mk)
           /\ Base([x EXCEPT !.be = CloseMixer(x.be, s)], iss, mk)
           /\ ButBe(x, [x EXCEPT !.be = CloseMixer(x.be, s)])
<1>0. x.be \in BackendStates /\ Tokens(x.be.wire, x.fe.wire) /\ Permitted(x.be, x.fe)
    BY VocsTyping DEF Base
<1>1. ASSUME NEW g \in BackendStates, NEW k \in {Free, Closed},
             g.slot = [x.be.slot EXCEPT ![s] = k], g.users = x.be.users,
             g.wire = [x.be.wire EXCEPT ![s] = <<>>], g.mix = [x.be.mix EXCEPT ![s] = Idle]
      PROVE  BeQuieter(x.be, g) /\ Tokens(g.wire, x.fe.wire)
  <2>1. /\ x.be.slot \in [Sockets -> Users \cup {Closed, Free}]
        /\ x.be.wire \in [Sockets -> Seq(Messages)] /\ x.be.mix \in [Sockets -> Mixers]
    BY <1>0, BackendTyping
  <2>2. \A t \in Sockets : g.wire[t] = x.be.wire[t] \/ g.wire[t] = <<>>
    BY <1>1, <2>1
  <2>3. Tokens(g.wire, x.fe.wire)
    BY <1>0, <2>2, TokensCleared
  <2>4. \A t \in Sockets : In(g.wire[t]) \subseteq In(x.be.wire[t])
    BY <2>2, EmptyQueue
  <2>5. \A t \in Sockets : \A l \in g.mix[t].loops : Permission[l] # "none"
    <3>1. \A t \in Sockets : g.mix[t] = x.be.mix[t] \/ g.mix[t].loops = {}
        BY <1>1, <2>1 DEF Idle
    <3> QED
        BY <1>0, <3>1 DEF Permitted
  <2>6. \A t \in Sockets : g.slot[t] \in {x.be.slot[t], Closed, Free}
    BY <1>1, <2>1
  <2> QED
    BY <1>1, <2>3, <2>4, <2>5, <2>6 DEF BeQuieter
<1>2. Base([x EXCEPT !.be = CbEventRegister(x.be, s)], iss, mk)
  <2> DEFINE g == CbEventRegister(x.be, s)
  <2>1. /\ g \in BackendStates /\ g.slot = [x.be.slot EXCEPT ![s] = Free] /\ g.users = x.be.users
        /\ g.wire = [x.be.wire EXCEPT ![s] = <<>>] /\ g.mix = [x.be.mix EXCEPT ![s] = Idle]
    BY <1>0, RegisterFields
  <2> HIDE DEF g
  <2>2. BeQuieter(x.be, g) /\ Tokens(g.wire, x.fe.wire)
    BY <1>1, <2>1
  <2>3. Base([x EXCEPT !.be = g], iss, mk)
    BY <2>1, <2>2, BaseBackend
  <2> QED
    BY <2>3 DEF g
<1>3. Base([x EXCEPT !.be = CloseMixer(x.be, s)], iss, mk) /\ ButBe(x, [x EXCEPT !.be = CloseMixer(x.be, s)])
  <2> DEFINE g == CloseMixer(x.be, s)
  <2>1. /\ g \in BackendStates /\ g.slot = [x.be.slot EXCEPT ![s] = Closed] /\ g.users = x.be.users
        /\ g.wire = [x.be.wire EXCEPT ![s] = <<>>] /\ g.mix = [x.be.mix EXCEPT ![s] = Idle]
    BY <1>0, CloseMixerFields
  <2> HIDE DEF g
  <2>2. BeQuieter(x.be, g) /\ Tokens(g.wire, x.fe.wire)
    BY <1>1, <2>1
  <2>3. Base([x EXCEPT !.be = g], iss, mk) /\ ButBe(x, [x EXCEPT !.be = g])
    BY <2>1, <2>2, BaseBackend
  <2> QED
    BY <2>3 DEF g
<1> QED
    BY <1>2, <1>3

(* The session of a lost slot is dropped.                                  *)
LEMMA BaseSlotLost ==
    ASSUME NEW x, NEW iss, NEW mk, NEW lost \in SUBSET Users, Base(x, iss, mk)
    PROVE  Base(SlotLost(x, lost), iss, mk)
<1>1. CASE lost = {}
    BY <1>1 DEF SlotLost
<1>2. CASE lost # {}
  <2> DEFINE u == CHOOSE k \in lost : TRUE
             c == SocketOf(x, u)
  <2>1. u \in Users
    BY <1>2
  <2>2. SlotLost(x, lost) = DropConnection(x, c, TRUE, FALSE)
    BY <1>2 DEF SlotLost, MixerLost
  <2> HIDE DEF u
  <2>3. c \in Clients \cup {NoSocket}
    BY <2>1, VocsTyping DEF SocketOf, Base
  <2> HIDE DEF c
  <2> QED
    BY <2>2, <2>3, BaseDropConnection
<1> QED
    BY <1>1, <1>2

(* What is known when an answer with this head has been taken off.         *)
BeHeard(y, m, iss, mk) ==
    /\ Base(y, iss, mk) /\ m \in Messages /\ BeWorded(m, iss, mk)
    /\ Unused(y.be.wire, y.fe.wire, m.id)
    /\ \A e \in y.async : e.id = m.id => BeAwaited(m, e)
    /\ m.op = "acquire" => NotAcquired(y.be.wire, m.user)

(* The backend has handled an answer.                                      *)
LEMMA BaseAnswered ==
    ASSUME NEW x, NEW iss, NEW mk, NEW s \in Sockets, NEW code, Base(x, iss, mk), x.be.wire[s] # <<>>
    PROVE  LET y == [x EXCEPT !.be = HandleAnswer(x.be, s, code)] IN
           /\ BeHeard(y, Head(x.be.wire[s]), iss, mk) /\ ButBe(x, y) /\ y.be = HandleAnswer(x.be, s, code)
<1> DEFINE b == x.be
           m == Head(b.wire[s])
           g == HandleAnswer(b, s, code)
           y == [x EXCEPT !.be = g]
           Z == [b.wire EXCEPT ![s] = Tail(b.wire[s])]
<1>0. /\ b \in BackendStates /\ Tokens(b.wire, x.fe.wire) /\ Permitted(b, x.fe)
      /\ b.wire \in MixerQueues /\ x.fe.wire \in ProxyQueues
    BY VocsTyping, BackendTyping, FrontendTyping DEF Base, MixerQueues, ProxyQueues
<1>1. Shortened(Z, b.wire, s)
    BY DEF Shortened
<1>2. /\ Tokens(Z, x.fe.wire) /\ In(b.wire[s]) = In(Z[s]) \cup {m}
      /\ \A t \in Sockets : t # s => Z[t] = b.wire[t]
      /\ Unused(Z, x.fe.wire, m.id)
    BY <1>0, <1>1, TokensBeAnswer
<1>3. /\ m \in Messages /\ g \in BackendStates
      /\ g.slot = IF ForcesReconnect(b, s) THEN [SlotAfter(b, s, code) EXCEPT ![s] = Closed]
                  ELSE SlotAfter(b, s, code)
      /\ g.users = IF AnswerReleases(m, code) THEN [b.users EXCEPT ![m.user] = NoSlot] ELSE b.users
      /\ g.wire = [b.wire EXCEPT ![s] = IF ForcesReconnect(b, s) THEN <<>> ELSE Tail(b.wire[s])]
      /\ g.mix = [b.mix EXCEPT ![s] = IF ForcesReconnect(b, s) THEN Idle
                                      ELSE MixerExecute(b.mix[s], m, code)]
  <2>1. AnswerHandled(b, s, code)
    BY <1>0, HandleAnswerFields
  <2> QED
    BY <2>1 DEF AnswerHandled
<1>4. /\ BeWorded(m, iss, mk) /\ \A e \in x.async : e.id = m.id => BeAwaited(m, e)
  <2>1. m \in In(b.wire[s])
    BY <1>2
  <2> QED
    BY <2>1 DEF Base, BeMeant
<1>5. /\ b.slot \in [Sockets -> Users \cup {Closed, Free}] /\ b.users \in [Users -> Sockets \cup {NoSlot}]
      /\ b.wire \in [Sockets -> Seq(Messages)] /\ b.mix \in [Sockets -> Mixers]
    BY <1>0, BackendTyping
<1>6. \A l \in Loops : l \in MixerExecute(b.mix[s], m, code).loops => Permission[l] # "none"
  <2>1. MixerExecute(b.mix[s], m, code).loops \subseteq b.mix[s].loops
          \cup (IF m.op = "join" THEN {m.loop} ELSE {})
    BY <1>5 DEF MixerExecute, CoreRelease, Idle, Mixers
  <2>2. m.op = "join" => Permission[m.loop] # "none"
    BY <1>4 DEF BeWorded
  <2> QED
    BY <1>0, <2>1, <2>2 DEF Permitted
<1> HIDE DEF m, g, Z
<1>7. \A t \in Sockets : g.wire[t] = Z[t] \/ g.wire[t] = <<>>
    BY <1>3, <1>5 DEF Z
<1>8. Tokens(g.wire, x.fe.wire)
    BY <1>2, <1>7, TokensCleared
<1>9. \A t \in Sockets : In(g.wire[t]) \subseteq In(Z[t]) /\ In(Z[t]) \subseteq In(b.wire[t])
    BY <1>2, <1>7, EmptyQueue
<1>10. Unused(g.wire, x.fe.wire, m.id)
    BY <1>2, <1>9 DEF Unused, Absent
<1>11. BeQuieter(b, g)
  <2>1. \A S \in Users : g.users[S] \in {b.users[S], NoSlot}
    BY <1>3, <1>5
  <2>2. \A t \in Sockets : g.slot[t] \in {b.slot[t], Closed, Free}
    <3>1. SlotAfter(b, s, code) \in {Emptied(b, m.user), b.slot}
        BY DEF SlotAfter, m
    <3>2. \A t \in Sockets : SlotAfter(b, s, code)[t] \in {b.slot[t], Free}
        BY <3>1 DEF Emptied
    <3>3. SlotAfter(b, s, code) \in [Sockets -> Users \cup {Closed, Free}]
        BY <1>5, <3>1 DEF Emptied
    <3> QED
        BY <1>3, <3>2, <3>3
  <2>3. \A t \in Sockets : \A l \in g.mix[t].loops : Permission[l] # "none"
    <3>1. MixerExecute(b.mix[s], m, code).loops \subseteq Loops
        BY <1>3, <1>5, ExecuteType DEF Mixers
    <3>2. \A t \in Sockets : g.mix[t] = b.mix[t] \/ g.mix[t].loops = {} \/ g.mix[t] = MixerExecute(b.mix[s], m, code)
        BY <1>3, <1>5 DEF Idle
    <3> QED
        BY <1>0, <1>6, <3>1, <3>2 DEF Permitted
  <2> QED
    BY <1>9, <2>1, <2>2, <2>3 DEF BeQuieter
<1>12. Base(y, iss, mk) /\ y.be = g /\ ButBe(x, y)
    BY <1>3, <1>8, <1>11, BaseBackend
<1> HIDE DEF y
<1>13. ASSUME m.op = "acquire" PROVE NotAcquired(g.wire, m.user)
  <2>1. m \in In(b.wire[s]) /\ m.id \in ClientReqs
    BY <1>2, <1>4, <1>13 DEF BeWorded, Base
  <2>2. \A t \in Sockets : \A n \in In(g.wire[t]) : n \in In(b.wire[t]) /\ n.id # m.id
    BY <1>9, <1>10, <2>1 DEF Unused, Absent
  <2> QED
    BY <1>13, <2>1, <2>2 DEF NotAcquired, Base, AcquireOnce
<1>14. BeHeard(y, m, iss, mk)
    BY <1>3, <1>4, <1>10, <1>12, <1>13 DEF BeHeard, ButBe
<1> QED
    BY <1>12, <1>14 DEF y, m, g

(* y is x with st stored as the state of loop l of connection c.           *)
WithLoop(d, l, st) == [d EXCEPT !.loops = [d.loops EXCEPT ![l] = st]]

LoopSet(x, y, c, l, st) ==
    /\ y \in VocsStates /\ y.up = x.up /\ y.sess = x.sess /\ y.async = x.async
    /\ y.ldap = x.ldap /\ y.be = x.be /\ y.fe = x.fe /\ y.owed = x.owed /\ y.ready = x.ready
    /\ y.conn = [x.conn EXCEPT ![c] = WithLoop(x.conn[c], l, st)]

(* Storing the state of a loop, with the roster and without it.            *)
LEMMA LoopSetFields ==
    ASSUME NEW x \in VocsStates, NEW c \in Clients, NEW l \in Loops, NEW st \in LoopStates,
           NEW Q \in SUBSET (Loops \X Clients)
    PROVE  /\ LoopSet(x, [x EXCEPT !.conn[c].loops[l] = st, !.parts = Q], c, l, st)
           /\ [x EXCEPT !.conn[c].loops[l] = st, !.parts = Q].parts = Q
           /\ LoopSet(x, [x EXCEPT !.conn[c].loops[l] = st], c, l, st)
           /\ [x EXCEPT !.conn[c].loops[l] = st].parts = x.parts
<1> DEFINE d == WithLoop(x.conn[c], l, st)
           C == [x.conn EXCEPT ![c] = d]
<1>1. x.conn \in [Clients -> Conns] /\ x.conn[c] \in Conns /\ x.parts \in SUBSET (Loops \X Clients)
    BY VocsTyping
<1>2. d \in Conns
    BY <1>1 DEF Conns, WithLoop
<1>3. /\ [x EXCEPT !.conn[c].loops[l] = st, !.parts = Q] = [x EXCEPT !.conn = C, !.parts = Q]
      /\ [x EXCEPT !.conn[c].loops[l] = st] = [x EXCEPT !.conn = C]
    BY DEF WithLoop
<1> HIDE DEF d
<1>4. C \in [Clients -> Conns]
    BY <1>1, <1>2
<1> HIDE DEF C
<1>5. ASSUME NEW y, y = [x EXCEPT !.conn = C, !.parts = Q]
      PROVE  /\ y \in VocsStates /\ y.up = x.up /\ y.sess = x.sess /\ y.async = x.async
             /\ y.ldap = x.ldap /\ y.be = x.be /\ y.fe = x.fe /\ y.owed = x.owed
             /\ y.ready = x.ready /\ y.conn = C /\ y.parts = Q
    BY <1>4, <1>5 DEF VocsStates
<1>6. ASSUME NEW y, y = [x EXCEPT !.conn = C]
      PROVE  /\ y \in VocsStates /\ y.up = x.up /\ y.sess = x.sess /\ y.async = x.async
             /\ y.ldap = x.ldap /\ y.be = x.be /\ y.fe = x.fe /\ y.owed = x.owed
             /\ y.ready = x.ready /\ y.conn = C /\ y.parts = x.parts
    BY <1>4, <1>6 DEF VocsStates
<1> QED
    BY <1>3, <1>5, <1>6 DEF LoopSet, C, d

(* What is stored about loops is kept in the base invariant.               *)
LEMMA BaseLoopSet ==
    ASSUME NEW x, NEW y, NEW iss, NEW mk, NEW c \in Clients, NEW l, NEW st,
           Base(x, iss, mk), LoopSet(x, y, c, l, st)
    PROVE  Base(y, iss, mk)
<1>1. x.conn \in [Clients -> Conns]
    BY VocsTyping DEF Base
<1>2. \A k \in Clients : y.conn[k].session = x.conn[k].session
    BY <1>1 DEF LoopSet, WithLoop, Conns
<1>3. Kept(x, y) /\ y.async \subseteq x.async /\ y.ldap \subseteq x.ldap
    BY <1>2 DEF LoopSet, Kept
<1> QED
    BY <1>3, BasePlain

(* y is x with data d stored for c, who is told when both are there.       *)
Announced(x, y, c, d) ==
    /\ y \in VocsStates /\ y.up = x.up /\ y.sess = x.sess /\ y.async = x.async /\ y.parts = x.parts
    /\ y.ldap = x.ldap /\ y.be = x.be /\ y.fe = x.fe /\ y.owed = x.owed
    /\ y.conn = [x.conn EXCEPT ![c] = d]
    /\ y.ready = IF d.ice /\ d.mixer THEN [x.ready EXCEPT ![c] = @ + 1] ELSE x.ready

(* A mixer or ICE that is ready.                                           *)
LEMMA AnnounceFields ==
    ASSUME NEW x \in VocsStates, NEW c \in Clients
    PROVE  /\ Announced(x, Announce([x EXCEPT !.conn[c].mixer = TRUE], c), c, [x.conn[c] EXCEPT !.mixer = TRUE])
           /\ Announced(x, Announce([x EXCEPT !.conn[c].ice = TRUE], c), c, [x.conn[c] EXCEPT !.ice = TRUE])
<1>1. x.conn \in [Clients -> Conns] /\ x.conn[c] \in Conns /\ x.ready \in [Clients -> Nat]
    BY VocsTyping
<1>2. ASSUME NEW d \in Conns, NEW z, z = [x EXCEPT !.conn = [x.conn EXCEPT ![c] = d]]
      PROVE  Announced(x, Announce(z, c), c, d)
  <2> DEFINE C == [x.conn EXCEPT ![c] = d]
             N == [x.ready EXCEPT ![c] = x.ready[c] + 1]
  <2>1. C \in [Clients -> Conns] /\ N \in [Clients -> Nat] /\ C[c] = d
    BY <1>1
  <2> HIDE DEF C
  <2>2. /\ z \in VocsStates /\ z.up = x.up /\ z.sess = x.sess /\ z.async = x.async /\ z.parts = x.parts
        /\ z.ldap = x.ldap /\ z.be = x.be /\ z.fe = x.fe /\ z.owed = x.owed /\ z.ready = x.ready
        /\ z.conn = C
    BY <1>2, <2>1 DEF VocsStates, C
  <2>3. Announce(z, c) = IF d.ice /\ d.mixer THEN [z EXCEPT !.ready = N] ELSE z
    BY <2>1, <2>2 DEF Announce
  <2> HIDE DEF N
  <2>4. CASE d.ice /\ d.mixer
    <3>1. Announce(z, c) = [z EXCEPT !.ready = N]
        BY <2>3, <2>4
    <3>2. ASSUME NEW y, y = [z EXCEPT !.ready = N]
          PROVE  /\ y \in VocsStates /\ y.up = z.up /\ y.sess = z.sess /\ y.async = z.async
                 /\ y.parts = z.parts /\ y.ldap = z.ldap /\ y.be = z.be /\ y.fe = z.fe
                 /\ y.owed = z.owed /\ y.ready = N /\ y.conn = z.conn
        BY <2>1, <2>2, <3>2 DEF VocsStates
    <3> QED
        BY <2>2, <2>4, <3>1, <3>2 DEF Announced, C, N
  <2>5. CASE ~(d.ice /\ d.mixer)
    BY <2>2, <2>3, <2>5 DEF Announced, C
  <2> QED
    BY <2>4, <2>5
<1>3. [x.conn[c] EXCEPT !.mixer = TRUE] \in Conns /\ [x.conn[c] EXCEPT !.ice = TRUE] \in Conns
    BY <1>1 DEF Conns
<1>4. /\ [x EXCEPT !.conn[c].mixer = TRUE] =
           [x EXCEPT !.conn = [x.conn EXCEPT ![c] = [x.conn[c] EXCEPT !.mixer = TRUE]]]
      /\ [x EXCEPT !.conn[c].ice = TRUE] =
           [x EXCEPT !.conn = [x.conn EXCEPT ![c] = [x.conn[c] EXCEPT !.ice = TRUE]]]
    OBVIOUS
<1> QED
    BY <1>2, <1>3, <1>4

(* What is announced is kept in the base invariant.                        *)
LEMMA BaseAnnounced ==
    ASSUME NEW x, NEW iss, NEW mk, NEW c \in Clients, Base(x, iss, mk)
    PROVE  /\ Base(Announce([x EXCEPT !.conn[c].mixer = TRUE], c), iss, mk)
           /\ Base(Announce([x EXCEPT !.conn[c].ice = TRUE], c), iss, mk)
<1>0. x \in VocsStates /\ x.conn \in [Clients -> Conns]
    BY VocsTyping DEF Base
<1> DEFINE y == Announce([x EXCEPT !.conn[c].mixer = TRUE], c)
           z == Announce([x EXCEPT !.conn[c].ice = TRUE], c)
<1>1. /\ Announced(x, y, c, [x.conn[c] EXCEPT !.mixer = TRUE])
      /\ Announced(x, z, c, [x.conn[c] EXCEPT !.ice = TRUE])
    BY <1>0, AnnounceFields
<1> HIDE DEF y, z
<1>2. \A k \in Clients : y.conn[k].session = x.conn[k].session /\ z.conn[k].session = x.conn[k].session
    BY <1>0, <1>1 DEF Announced, Conns
<1>3. Kept(x, y) /\ y.async \subseteq x.async /\ y.ldap \subseteq x.ldap
    BY <1>1, <1>2 DEF Announced, Kept
<1>4. Kept(x, z) /\ z.async \subseteq x.async /\ z.ldap \subseteq x.ldap
    BY <1>1, <1>2 DEF Announced, Kept
<1> QED
    BY <1>3, <1>4, BasePlain DEF y, z

(* A mixer that is released for a session nobody has any more.             *)
LEMMA BaseReleased ==
    ASSUME NEW x, NEW iss, NEW mk, NEW S \in mk, Base(x, iss, mk)
    PROVE  LET y == [x EXCEPT !.be = ReleaseMixer(x.be, S, S)] IN
           Base(y, iss, mk) /\ y.be = ReleaseMixer(x.be, S, S) /\ ButBe(x, y)
<1> DEFINE g == ReleaseMixer(x.be, S, S)
           y == [x EXCEPT !.be = g]
<1>0. /\ x \in VocsStates /\ x.be \in BackendStates /\ x.fe.wire \in ProxyQueues /\ S \in Users
      /\ Tokens(x.be.wire, x.fe.wire)
    BY VocsTyping, FrontendTyping DEF Base, ProxyQueues
<1>1. /\ g \in BackendStates /\ g.mix = x.be.mix /\ Tokens(g.wire, x.fe.wire)
      /\ g.users = [x.be.users EXCEPT ![S] = NoSlot] /\ g.slot = Emptied(x.be, S)
      /\ \A s \in Sockets : \A m \in In(g.wire[s]) : m \in In(x.be.wire[s]) \/ m = ReleaseMessage(S)
  <2>1. BeReleased(x.be, g, S, x.fe.wire)
    BY <1>0, BeReleasedFacts
  <2> QED
    BY <2>1 DEF BeReleased
<1> HIDE DEF g
<1>2. y \in VocsStates /\ y.be = g /\ ButBe(x, y)
    BY <1>0, <1>1, WithBe
<1> HIDE DEF y
<1>3. QuietMessages(x, y, mk)
    BY <1>0, <1>1, <1>2 DEF QuietMessages, ButBe, ReleaseMessage, Message
<1>4. QuietSessions(x, y, mk)
  <2>1. x.be.users \in [Users -> Sockets \cup {NoSlot}]
    BY <1>0, BackendTyping
  <2> QED
    BY <1>1, <1>2, <2>1 DEF QuietSessions, ButBe, Emptied
<1>5. Quiet(x, y, mk)
    BY <1>1, <1>2, <1>3, <1>4 DEF Quiet, ButBe, Permitted, Base
<1>6. Base(y, iss, mk)
    BY <1>5, BaseQuiet
<1> QED
    BY <1>2, <1>6 DEF y, g

(* A mixer that was asked for, and one that was released.                  *)
LEMMA BaseMixerAcquired ==
    ASSUME NEW x, NEW iss, NEW mk, NEW r, NEW S \in mk, NEW code, Base(x, iss, mk)
    PROVE  Base(MixerAcquired(x, r, S, code), iss, mk) /\ Base(MixerReleased(x, S), iss, mk)
<1> DEFINE c == SocketOf(x, S)
           y == AsyncUnset(x, r)
<1>0. x \in VocsStates /\ S \in Users
    BY DEF Base
<1>1. c \in Clients \cup {NoSocket}
    BY <1>0, VocsTyping DEF SocketOf
<1>2. MixerReleased(x, S) = DropConnection(x, c, TRUE, FALSE)
    BY DEF MixerReleased
<1>3. MixerAcquired(x, r, S, code) =
        IF c = NoSocket THEN [x EXCEPT !.be = ReleaseMixer(x.be, S, S)]
        ELSE IF code # "ok" THEN DropConnection(y, c, TRUE, FALSE)
        ELSE Announce([y EXCEPT !.conn[c].mixer = TRUE], c)
    BY DEF MixerAcquired
<1>4. Base(y, iss, mk)
    BY BaseTaken
<1> HIDE DEF c, y
<1>5. Base(DropConnection(x, c, TRUE, FALSE), iss, mk) /\ Base(DropConnection(y, c, TRUE, FALSE), iss, mk)
    BY <1>1, <1>4, BaseDropConnection
<1>6. Base([x EXCEPT !.be = ReleaseMixer(x.be, S, S)], iss, mk)
    BY BaseReleased
<1>7. c # NoSocket => Base(Announce([y EXCEPT !.conn[c].mixer = TRUE], c), iss, mk)
    BY <1>1, <1>4, BaseAnnounced
<1> QED
    BY <1>2, <1>3, <1>5, <1>6, <1>7

(* A mixer is told to leave a loop.                                        *)
LEMMA BaseLeaveLoop ==
    ASSUME NEW x, NEW iss, NEW mk, NEW r \in iss, NEW S \in mk \cup {None}, NEW l \in Loops,
           Base(x, iss, mk), Unused(x.be.wire, x.fe.wire, r),
           \A e \in x.async : e.id = r => e.loop = l
    PROVE  Base(LeaveLoop(x, r, S, l), iss, mk)
<1>0. x \in VocsStates /\ x.be \in BackendStates /\ r \in Reqs /\ mk \subseteq Users
    BY VocsTyping DEF Base, ClientReqs
<1>1. CASE S = None
  <2> DEFINE g == RegisterCallback(x.be, r)
             y == [x EXCEPT !.be = g]
  <2>1. LeaveLoop(x, r, S, l) = y
    BY <1>1 DEF LeaveLoop
  <2>2. g \in BackendStates /\ g.slot = x.be.slot /\ g.users = x.be.users /\ g.wire = x.be.wire /\ g.mix = x.be.mix
    BY <1>0, CallbackFields
  <2> HIDE DEF g
  <2>3. y \in VocsStates /\ y.be = g /\ ButBe(x, y)
    BY <1>0, <2>2, WithBe
  <2> HIDE DEF y
  <2>4. OtherBackend(x, y, mk) /\ y.be.wire = x.be.wire
    BY <2>2, <2>3 DEF OtherBackend
  <2> QED
    BY <2>1, <2>4, BaseCallbacks
<1>2. CASE S # None
  <2> DEFINE m == Message("leave", r, S, l)
  <2>0. S \in mk /\ S \in Users
    BY <1>0, <1>2
  <2>1. LeaveLoop(x, r, S, l) = [x EXCEPT !.be = LoopRequest(x.be, "leave", r, S, l)]
    BY <1>2 DEF LeaveLoop
  <2>2. m.op = "leave" /\ m.id = r /\ m.user = S /\ m.loop = l
    BY DEF Message
  <2> HIDE DEF m
  <2>3. BeFits(x, m, iss, mk)
    BY <2>0, <2>2 DEF BeFits, BeWorded, BeAwaited, LoopOps
  <2>4. "leave" \in LoopOps
    BY DEF LoopOps
  <2>5. Base([x EXCEPT !.be = LoopRequest(x.be, "leave", r, S, l)], iss, mk)
    BY <2>0, <2>3, <2>4, BaseLoopRequest DEF m
  <2> QED
    BY <2>1, <2>5
<1> QED
    BY <1>1, <1>2

(* An answer to join.                                                      *)
LEMMA BaseMixerJoin ==
    ASSUME NEW x, NEW iss, NEW mk, NEW m, BeHeard(x, m, iss, mk), m.op = "join",
           NEW S \in mk \cup {None}, NEW code
    PROVE  Base(MixerJoin(x, m.id, S, m.loop, code), iss, mk)
<1> DEFINE r == m.id
           l == m.loop
           c == SocketOf(x, S)
           e == AsyncGet(x, r)
           y == AsyncUnset(x, r)
           want == e.want
           Q == y.parts \cup {<<l, c>>}
           j == [y EXCEPT !.conn[c].loops[l] = "recv", !.parts = y.parts \cup {<<l, c>>}]
           a == AsyncSet(j, Entry(r, c, l, want))
           t == PerformSwitch(a, r, S, l, "recv", want)
<1>0. /\ x \in VocsStates /\ Base(x, iss, mk) /\ Unused(x.be.wire, x.fe.wire, r)
      /\ r \in iss /\ r \in Reqs /\ r \in ClientReqs /\ l \in Loops /\ mk \subseteq Users
    BY DEF Base, BeHeard, BeWorded, LoopOps, ClientReqs
<1>1. c \in Clients \cup {NoSocket}
    BY <1>0, VocsTyping DEF SocketOf
<1>2. MixerJoin(x, r, S, l, code) =
        IF ~AsyncHas(x, r) THEN LeaveLoop(x, r, S, l)
        ELSE IF code # "ok" THEN Respond(y, r, c)
        ELSE IF ~KnownClient(x, c) THEN DropConnection(y, c, TRUE, TRUE)
        ELSE IF want = "recv" THEN Respond(j, r, c)
        ELSE IF CanPerform(j, S, "recv", want) THEN t
        ELSE DropConnection(t, c, TRUE, TRUE)
    BY DEF MixerJoin
<1>3. CASE ~AsyncHas(x, r)
  <2>1. \A g \in x.async : g.id = r => g.loop = l
    BY <1>3 DEF AsyncHas
  <2>2. Base(LeaveLoop(x, r, S, l), iss, mk)
    BY <1>0, <2>1, BaseLeaveLoop
  <2> QED
    BY <1>2, <1>3, <2>2
<1>4. CASE AsyncHas(x, r)
  <2>1. e \in x.async /\ e.id = r /\ e \in Entries
    BY <1>0, <1>4, AsyncFound
  <2>2. e.loop = l /\ want \in {"recv", "send"} /\ Granted(Permission[l], want)
    BY <2>1 DEF BeHeard, BeAwaited
  <2>3. Base(y, iss, mk) /\ Base(Respond(y, r, c), iss, mk)
    BY <1>0, BaseTaken
  <2>4. Taken(x, y, r)
    BY <1>0, TakenFields
  <2> HIDE DEF c, e, want, y
  <2>5. Base(DropConnection(y, c, TRUE, TRUE), iss, mk)
    BY <1>1, <2>3, BaseDropConnection
  <2>6. ASSUME KnownClient(x, c)
        PROVE  /\ Base(Respond(j, r, c), iss, mk)
               /\ want # "recv" => Base(t, iss, mk) /\ Base(DropConnection(t, c, TRUE, TRUE), iss, mk)
    <3>1. c \in Clients /\ S \in Users /\ S \in mk
        BY <1>0, <1>1, <2>6 DEF KnownClient, SocketOf, c
    <3>2. y \in VocsStates /\ y.parts \in SUBSET (Loops \X Clients)
        BY <2>3, VocsTyping DEF Base
    <3>3. LoopSet(y, j, c, l, "recv")
      <4>1. Q \in SUBSET (Loops \X Clients) /\ "recv" \in LoopStates
        BY <1>0, <3>1, <3>2 DEF LoopStates
      <4> DEFINE q == Q
      <4> HIDE DEF q
      <4>2. LoopSet(y, [y EXCEPT !.conn[c].loops[l] = "recv", !.parts = q], c, l, "recv")
        BY <1>0, <3>1, <3>2, <4>1, LoopSetFields DEF q
      <4> QED
        BY <4>2 DEF q
    <3> HIDE DEF j
    <3>4. Base(j, iss, mk)
        BY <2>3, <3>1, <3>3, BaseLoopSet
    <3>5. Base(Respond(j, r, c), iss, mk)
      <4> DEFINE z == Respond(j, r, c)
      <4>1. j \in VocsStates
        BY <3>4 DEF Base
      <4>2. Kept(j, z) /\ z.async \subseteq j.async /\ z.ldap \subseteq j.ldap
        BY <4>1 DEF Kept, VocsStates, Respond
      <4> HIDE DEF z
      <4>3. Base(z, iss, mk)
        BY <3>4, <4>2, BasePlain
      <4> QED
        BY <4>3 DEF z
    <3>6. ASSUME want # "recv"
          PROVE  Base(t, iss, mk) /\ Base(DropConnection(t, c, TRUE, TRUE), iss, mk)
      <4> DEFINE k == Entry(r, c, l, want)
                 n == TalkMessage(r, S, TRUE, l)
                 f == FE!Talk(a.fe, r, S, TRUE, l)
      <4>1. want = "send" /\ Permission[l] = "send"
        BY <2>2, <3>6 DEF Granted
      <4>2. /\ k \in Entries /\ k.id = r /\ k.sock = c /\ k.loop = l /\ k.want = "send"
        BY <1>0, <3>1, <4>1, EntryType DEF LoopStates
      <4>3. t = [a EXCEPT !.fe = f]
        BY <4>1 DEF PerformSwitch
      <4>4. /\ \A g \in j.async : g.id # r
            /\ Unused(j.be.wire, j.fe.wire, r)
            /\ r \notin j.ldap
        <5>1. r \notin x.ldap
          BY <1>0, <2>1, <2>2, NoneAssumption DEF Base, Stored
        <5> QED
          BY <1>0, <2>4, <3>3, <5>1 DEF LoopSet, Taken, ButStore
      <4> HIDE DEF k
      <4>5. Suits(j, k)
        BY <1>0, <4>2, <4>4 DEF Suits, Unused, Absent
      <4>6. a = AsyncSet(j, k)
        BY DEF a, k
      <4> HIDE DEF a
      <4>7. Base(a, iss, mk)
        BY <1>0, <3>4, <4>2, <4>4, <4>5, <4>6, BaseAsked
      <4>8. ButStore(j, a) /\ a.async = j.async \cup {k}
        <5>1. j \in VocsStates
          BY <3>4 DEF Base
        <5> QED
          BY <4>2, <4>6, <5>1, AskedFields
      <4>9. /\ n \in FE!ProxyMessages /\ n.id = r /\ n.session = S /\ n.loop = l /\ n.op = "talk on"
        BY <1>0, <3>1 DEF FE!FrontendOps, FE!ProxyMessages, FE!ProxyMessage, TalkMessage
      <4>10. a.fe \in FE!FrontendStates
        BY <4>7, VocsTyping DEF Base
      <4>11. SentHome(a.fe, f, S, n)
        BY <1>0, <3>1, <4>10, TalkFields
      <4> HIDE DEF n, f
      <4>12. FeWorded(n, iss, mk)
        BY <1>0, <3>1, <4>1, <4>9 DEF FeWorded, TalkOps
      <4>13. FeAwaited(n, k, a.ldap)
        BY <4>2, <4>4, <4>8, <4>9 DEF FeAwaited, ButStore
      <4>14. FeFits(a, n, iss, mk)
        BY <4>2, <4>4, <4>8, <4>9, <4>12, <4>13 DEF FeFits, ButStore
      <4>15. Base([a EXCEPT !.fe = f], iss, mk)
        BY <4>7, <4>9, <4>11, <4>14, BaseSendHome
      <4> HIDE DEF t
      <4>16. Base(t, iss, mk)
        BY <4>3, <4>15
      <4> QED
        BY <3>1, <4>16, BaseDropConnection
    <3> QED
        BY <3>5, <3>6
  <2> HIDE DEF j, t
  <2>7. CASE ~KnownClient(x, c)
    BY <1>2, <1>4, <2>3, <2>5, <2>7
  <2>8. CASE KnownClient(x, c)
    BY <1>2, <1>4, <2>3, <2>6, <2>8
  <2> QED
    BY <2>7, <2>8
<1> QED
    BY <1>3, <1>4

(* An answer to leave.                                                     *)
LEMMA BaseMixerLeave ==
    ASSUME NEW x, NEW iss, NEW mk, NEW r, NEW S \in mk \cup {None}, NEW l \in Loops, Base(x, iss, mk)
    PROVE  Base(MixerLeave(x, r, S, l), iss, mk) /\ Base(MixerVolume(x, r, S), iss, mk)
<1> DEFINE c == SocketOf(x, S)
           y == AsyncUnset(x, r)
           j == [y EXCEPT !.conn[c].loops[l] = "none", !.parts = y.parts \ {<<l, c>>}]
<1>0. x \in VocsStates /\ mk \subseteq Users
    BY DEF Base
<1>1. c \in Clients \cup {NoSocket}
    BY <1>0, VocsTyping DEF SocketOf
<1>2. /\ MixerLeave(x, r, S, l) \in {y, DropConnection(y, c, TRUE, TRUE), Respond(j, r, c)}
      /\ MixerVolume(x, r, S) \in {y, DropConnection(y, c, TRUE, TRUE), Respond(y, r, c)}
      /\ c = NoSocket => MixerLeave(x, r, S, l) = y
    BY DEF MixerLeave, MixerVolume
<1>3. Base(y, iss, mk) /\ Base(Respond(y, r, c), iss, mk)
    BY BaseTaken
<1> HIDE DEF c, y
<1>4. Base(DropConnection(y, c, TRUE, TRUE), iss, mk)
    BY <1>1, <1>3, BaseDropConnection
<1>5. ASSUME c # NoSocket PROVE Base(Respond(j, r, c), iss, mk)
  <2>1. c \in Clients
    BY <1>1, <1>5
  <2>2. y \in VocsStates /\ y.parts \in SUBSET (Loops \X Clients)
    BY <1>3, VocsTyping DEF Base
  <2>3. LoopSet(y, j, c, l, "none")
    <3> DEFINE q == y.parts \ {<<l, c>>}
    <3>1. q \in SUBSET (Loops \X Clients) /\ "none" \in LoopStates
        BY <2>2 DEF LoopStates
    <3>2. j = [y EXCEPT !.conn[c].loops[l] = "none", !.parts = q]
        OBVIOUS
    <3> HIDE DEF q, j
    <3> QED
        BY <2>1, <2>2, <3>1, <3>2, LoopSetFields
  <2> HIDE DEF j
  <2>4. Base(j, iss, mk)
    BY <1>3, <2>1, <2>3, BaseLoopSet
  <2> DEFINE z == Respond(j, r, c)
  <2>5. j \in VocsStates
    BY <2>4 DEF Base
  <2>6. Kept(j, z) /\ z.async \subseteq j.async /\ z.ldap \subseteq j.ldap
    BY <2>5 DEF Kept, VocsStates, Respond
  <2> HIDE DEF z
  <2>7. Base(z, iss, mk)
    BY <2>4, <2>6, BasePlain
  <2> QED
    BY <2>7 DEF z
<1> HIDE DEF j
<1> QED
    BY <1>2, <1>3, <1>4, <1>5

(* The session in the slot of a mixer, None if there is none.              *)
Occupant(b, s) == IF LostUser(b, s) = {} THEN None ELSE CHOOSE u \in LostUser(b, s) : TRUE

(* The session in a slot has been made.                                    *)
LEMMA OccupantFacts ==
    ASSUME NEW x, NEW iss, NEW mk, NEW s \in Sockets, Base(x, iss, mk)
    PROVE  /\ Occupant(x.be, s) \in mk \cup {None}
           /\ Occupant(x.be, s) # None => x.be.slot[s] = Occupant(x.be, s) /\ Occupant(x.be, s) \in Users
           /\ \A u \in Users : x.be.slot[s] = u => Occupant(x.be, s) = u
<1> DEFINE O == Occupant(x.be, s)
<1>1. LostUser(x.be, s) = {u \in Users : x.be.slot[s] = u}
    BY DEF LostUser
<1>2. CASE LostUser(x.be, s) = {}
    BY <1>1, <1>2 DEF Occupant
<1>3. CASE LostUser(x.be, s) # {}
  <2>1. O \in LostUser(x.be, s)
    BY <1>3 DEF Occupant
  <2>2. O \in Users /\ x.be.slot[s] = O
    BY <1>1, <2>1
  <2>3. O \in mk
    BY <2>2 DEF Base, Unknown
  <2> QED
    BY <2>2, <2>3
<1> QED
    BY <1>2, <1>3

(* The handler of an answer of a mixer, by what the answer is.             *)
LEMMA OnMixerAnswerCases ==
    ASSUME NEW x, NEW s, NEW code
    PROVE  LET m == Head(x.be.wire[s])
               y == [x EXCEPT !.be = HandleAnswer(x.be, s, code)]
               S == Occupant(x.be, s)
               z == OnMixerAnswer(x, s, code)
           IN /\ ForcesReconnect(x.be, s) => z = SlotLost(y, LostUser(AnswerRegistry(x.be, s, code), s))
              /\ ~ForcesReconnect(x.be, s) /\ ~HasCallback(x.be, s) => z = y
              /\ ~ForcesReconnect(x.be, s) /\ HasCallback(x.be, s) =>
                   /\ m.op = "acquire" => z = MixerAcquired(y, m.id, m.user, code)
                   /\ m.op = "release" => z = MixerReleased(y, m.user)
                   /\ m.op = "join" => z = MixerJoin(y, m.id, S, m.loop, code)
                   /\ m.op = "leave" => z = MixerLeave(y, m.id, S, m.loop)
                   /\ m.op = "volume" => z = MixerVolume(y, m.id, S)
<1> DEFINE m == Head(x.be.wire[s])
           y == [x EXCEPT !.be = HandleAnswer(x.be, s, code)]
           S == Occupant(x.be, s)
           lost == LostUser(AnswerRegistry(x.be, s, code), s)
           z == OnMixerAnswer(x, s, code)
<1>1. z = IF ForcesReconnect(x.be, s) THEN SlotLost(y, lost)
          ELSE IF ~HasCallback(x.be, s) THEN y
          ELSE CASE m.op = "acquire" -> MixerAcquired(y, m.id, m.user, code)
                 [] m.op = "release" -> MixerReleased(y, m.user)
                 [] m.op = "join"    -> MixerJoin(y, m.id, S, m.loop, code)
                 [] m.op = "leave"   -> MixerLeave(y, m.id, S, m.loop)
                 [] m.op = "volume"  -> MixerVolume(y, m.id, S)
    BY DEF OnMixerAnswer, Occupant
<1> HIDE DEF m, y, S, lost, z
<1>2. /\ ForcesReconnect(x.be, s) => z = SlotLost(y, lost)
      /\ ~ForcesReconnect(x.be, s) /\ ~HasCallback(x.be, s) => z = y
      /\ ~ForcesReconnect(x.be, s) /\ HasCallback(x.be, s) =>
           /\ m.op = "acquire" => z = MixerAcquired(y, m.id, m.user, code)
           /\ m.op = "release" => z = MixerReleased(y, m.user)
           /\ m.op = "join" => z = MixerJoin(y, m.id, S, m.loop, code)
           /\ m.op = "leave" => z = MixerLeave(y, m.id, S, m.loop)
           /\ m.op = "volume" => z = MixerVolume(y, m.id, S)
    BY <1>1
<1> QED
    BY <1>2 DEF m, y, S, lost, z

(* An answer of a mixer.                                                   *)
LEMMA BaseMixerAnswer ==
    ASSUME NEW x, NEW iss, NEW mk, NEW s \in Sockets, NEW code, Base(x, iss, mk), x.be.wire[s] # <<>>
    PROVE  Base(OnMixerAnswer(x, s, code), iss, mk)
<1> DEFINE m == Head(x.be.wire[s])
           y == [x EXCEPT !.be = HandleAnswer(x.be, s, code)]
           S == Occupant(x.be, s)
           lost == LostUser(AnswerRegistry(x.be, s, code), s)
           z == OnMixerAnswer(x, s, code)
<1>1. BeHeard(y, m, iss, mk)
    BY BaseAnswered
<1>2. /\ ForcesReconnect(x.be, s) => z = SlotLost(y, lost)
      /\ ~ForcesReconnect(x.be, s) /\ ~HasCallback(x.be, s) => z = y
      /\ ~ForcesReconnect(x.be, s) /\ HasCallback(x.be, s) =>
           /\ m.op = "acquire" => z = MixerAcquired(y, m.id, m.user, code)
           /\ m.op = "release" => z = MixerReleased(y, m.user)
           /\ m.op = "join" => z = MixerJoin(y, m.id, S, m.loop, code)
           /\ m.op = "leave" => z = MixerLeave(y, m.id, S, m.loop)
           /\ m.op = "volume" => z = MixerVolume(y, m.id, S)
    BY OnMixerAnswerCases
<1>3. S \in mk \cup {None}
    BY OccupantFacts
<1>4. lost \in SUBSET Users
    BY DEF LostUser
<1> HIDE DEF m, y, S, lost, z
<1>5. Base(y, iss, mk) /\ m.user \in mk /\ (m.op \in LoopOps => m.loop \in Loops)
    BY <1>1 DEF BeHeard, BeWorded
<1>6. m.op \in {"acquire", "release"} \cup LoopOps
    BY <1>1 DEF BeHeard, BeWorded
<1>7. Base(SlotLost(y, lost), iss, mk)
    BY <1>4, <1>5, BaseSlotLost
<1>8. Base(MixerAcquired(y, m.id, m.user, code), iss, mk) /\ Base(MixerReleased(y, m.user), iss, mk)
    BY <1>5, BaseMixerAcquired
<1>9. m.op = "join" => Base(MixerJoin(y, m.id, S, m.loop, code), iss, mk)
    BY <1>1, <1>3, BaseMixerJoin
<1>10. m.op \in {"leave", "volume"} =>
          Base(MixerLeave(y, m.id, S, m.loop), iss, mk) /\ Base(MixerVolume(y, m.id, S), iss, mk)
    BY <1>3, <1>5, BaseMixerLeave DEF LoopOps
<1>11. Base(z, iss, mk)
    BY <1>2, <1>5, <1>6, <1>7, <1>8, <1>9, <1>10 DEF LoopOps
<1> QED
    BY <1>11 DEF z

(* A mixer that is lost.                                                   *)
LEMMA BaseMixerClose ==
    ASSUME NEW x, NEW iss, NEW mk, NEW s \in Sockets, Base(x, iss, mk)
    PROVE  Base(OnMixerClose(x, s), iss, mk)
<1>1. LostUser(x.be, s) \in SUBSET Users
    BY DEF LostUser
<1>2. Base([x EXCEPT !.be = CloseMixer(x.be, s)], iss, mk)
    BY BaseMixerConnection
<1> DEFINE y == [x EXCEPT !.be = CloseMixer(x.be, s)]
           lost == LostUser(x.be, s)
<1>3. OnMixerClose(x, s) = SlotLost(y, lost)
    BY DEF OnMixerClose
<1> HIDE DEF y, lost
<1> QED
    BY <1>1, <1>2, <1>3, BaseSlotLost DEF y, lost

-----------------------------------------------------------------------------
(* What proxies say keeps the base invariant.                              *)

(* The frontend forgets, ends and forwards what it may.                    *)
Milder(f, g, mk) ==
    /\ \A S \in Users \ mk : g.home[S] \in {f.home[S], NoSocket}
    /\ \A S \in Users \ mk : g.talk[S] \subseteq f.talk[S]
    /\ \A p \in Proxies : g.live[p] \subseteq f.live[p] \cup mk
    /\ \A p \in Proxies : g.owned[p] \subseteq f.owned[p] \cup mk
    /\ \A S \in Users : \A l \in g.talk[S] : Permission[l] = "send"
    /\ FiniteTables(g)

(* It asks for nothing but the end of sessions.                            *)
FeQuieter(f, g, mk) ==
    /\ \A p \in Proxies : \A m \in In(g.wire[p]) :
          m \in In(f.wire[p]) \/ (m.op \in {"drop", "failed"} /\ m.id = None /\ m.session \in mk)
    /\ Milder(f, g, mk)

(* A step of the frontend that asks for nothing.                           *)
LEMMA BaseFrontend ==
    ASSUME NEW x, NEW iss, NEW mk, NEW g \in FE!FrontendStates, Base(x, iss, mk),
           FeQuieter(x.fe, g, mk), Tokens(x.be.wire, g.wire)
    PROVE  LET y == [x EXCEPT !.fe = g] IN Base(y, iss, mk) /\ y.fe = g /\ ButFe(x, y)
<1> DEFINE y == [x EXCEPT !.fe = g]
<1>0. x \in VocsStates
    BY DEF Base
<1>1. y \in VocsStates /\ y.fe = g /\ ButFe(x, y)
    BY <1>0, WithFe
<1> HIDE DEF y
<1>2. QuietMessages(x, y, mk) /\ QuietSessions(x, y, mk)
    BY <1>1 DEF QuietMessages, QuietSessions, FeQuieter, Milder, ButFe
<1>3. Permitted(y.be, y.fe) /\ FiniteTables(y.fe)
    BY <1>1 DEF Permitted, Base, FeQuieter, Milder, ButFe
<1>4. Quiet(x, y, mk)
    BY <1>1, <1>2, <1>3 DEF Quiet, ButFe
<1>5. Base(y, iss, mk)
    BY <1>4, BaseQuiet
<1> QED
    BY <1>1, <1>5 DEF y

(* Tables that lose sessions stay finite.                                  *)
LEMMA FiniteTablesKept ==
    ASSUME NEW f, NEW g, FiniteTables(f), \A p \in Proxies : g.owned[p] \subseteq f.owned[p]
    PROVE  FiniteTables(g)
<1> SUFFICES ASSUME NEW p \in Proxies PROVE IsFiniteSet(g.owned[p])
    BY DEF FiniteTables
<1>1. IsFiniteSet(f.owned[p]) /\ g.owned[p] \subseteq f.owned[p]
    BY DEF FiniteTables
<1> QED
    BY <1>1, FS_Subset

(* A proxy connects, or its connection ends.                               *)
LEMMA BaseProxyConnection ==
    ASSUME NEW x, NEW iss, NEW mk, NEW p \in Proxies, NEW kept \in SUBSET Users, Base(x, iss, mk),
           kept \subseteq x.fe.live[p]
    PROVE  /\ Base([x EXCEPT !.fe = FE!RegisterProxy(x.fe, p)], iss, mk)
           /\ Base([x EXCEPT !.fe = FE!UnregisterProxy(x.fe, p, kept)], iss, mk)
<1> DEFINE f == x.fe
<1>0. /\ f \in FE!FrontendStates /\ Tokens(x.be.wire, f.wire) /\ Permitted(x.be, f) /\ FiniteTables(f)
      /\ f.wire \in [Proxies -> Seq(FE!ProxyMessages)] /\ f.owned \in [Proxies -> SUBSET Users]
      /\ f.live \in [Proxies -> SUBSET Users]
    BY VocsTyping, FrontendTyping DEF Base
<1>1. ASSUME NEW g \in FE!FrontendStates, g.wire = [f.wire EXCEPT ![p] = <<>>],
             g.home = f.home, g.talk = f.talk,
             \A q \in Proxies : g.live[q] \subseteq f.live[q] /\ g.owned[q] \subseteq f.owned[q]
      PROVE  FeQuieter(f, g, mk) /\ Tokens(x.be.wire, g.wire)
  <2>1. \A q \in Proxies : g.wire[q] = f.wire[q] \/ g.wire[q] = <<>>
    BY <1>0, <1>1
  <2>2. Tokens(x.be.wire, g.wire)
    <3> DEFINE W == x.be.wire
               V == f.wire
               Z == g.wire
    <3>1. Tokens(W, V) /\ \A q \in Proxies : Z[q] = V[q] \/ Z[q] = <<>>
        BY <1>0, <2>1
    <3> HIDE DEF W, V, Z
    <3>2. Tokens(W, Z)
        BY <3>1, TokensProxyCleared
    <3> QED
        BY <3>2 DEF W, Z
  <2>3. \A q \in Proxies : In(g.wire[q]) \subseteq In(f.wire[q])
    BY <2>1, EmptyQueue
  <2>4. FiniteTables(g)
    BY <1>0, <1>1, FiniteTablesKept
  <2>5. \A S \in Users : \A l \in g.talk[S] : Permission[l] = "send"
    BY <1>0, <1>1 DEF Permitted
  <2> QED
    BY <1>1, <2>2, <2>3, <2>4, <2>5 DEF FeQuieter, Milder
<1> HIDE DEF f
<1>2. Base([x EXCEPT !.fe = FE!RegisterProxy(f, p)], iss, mk)
  <2> DEFINE g == FE!RegisterProxy(f, p)
  <2>1. /\ g \in FE!FrontendStates /\ g.wire = [f.wire EXCEPT ![p] = <<>>] /\ g.home = f.home
        /\ g.talk = f.talk /\ g.live = f.live /\ g.owned = f.owned
    BY <1>0, RegisterProxyFields
  <2> HIDE DEF g
  <2>2. FeQuieter(x.fe, g, mk) /\ Tokens(x.be.wire, g.wire)
    BY <1>1, <2>1 DEF f
  <2>3. Base([x EXCEPT !.fe = g], iss, mk)
    BY <2>1, <2>2, BaseFrontend
  <2> QED
    BY <2>3 DEF g
<1>3. Base([x EXCEPT !.fe = FE!UnregisterProxy(f, p, kept)], iss, mk)
  <2> DEFINE g == FE!UnregisterProxy(f, p, kept)
  <2>0. ProxyGone(f, g, p, kept)
    BY <1>0, UnregisterProxyFields
  <2> HIDE DEF g
  <2>1. /\ g \in FE!FrontendStates /\ g.wire = [f.wire EXCEPT ![p] = <<>>] /\ g.home = f.home
        /\ g.talk = f.talk /\ g.live = [f.live EXCEPT ![p] = kept] /\ g.owned = [f.owned EXCEPT ![p] = {}]
    BY <2>0 DEF ProxyGone
  <2>2. \A q \in Proxies : g.live[q] \subseteq f.live[q] /\ g.owned[q] \subseteq f.owned[q]
    BY <1>0, <2>1 DEF f
  <2>3. FeQuieter(x.fe, g, mk) /\ Tokens(x.be.wire, g.wire)
    BY <1>1, <2>1, <2>2 DEF f
  <2>4. Base([x EXCEPT !.fe = g], iss, mk)
    BY <2>1, <2>3, BaseFrontend
  <2> QED
    BY <2>4 DEF g
<1> QED
    BY <1>2, <1>3 DEF f

(* What is known when a message with this head has been taken off.         *)
FeHeard(y, m, iss, mk) ==
    /\ Base(y, iss, mk) /\ m \in FE!ProxyMessages /\ FeWorded(m, iss, mk)
    /\ Unused(y.be.wire, y.fe.wire, m.id)
    /\ \A e \in y.async : e.id = m.id => FeAwaited(m, e, y.ldap)

(* g is f with the head of the queue of p taken off, and what follows.     *)
HeardAt(f, g, p) ==
    /\ f.wire[p] # <<>> /\ g \in FE!FrontendStates /\ Shortened(g.wire, f.wire, p)

(* The frontend has handled a message, if it does nothing else to queues.  *)
LEMMA BaseHeard ==
    ASSUME NEW x, NEW iss, NEW mk, NEW p \in Proxies, NEW g, Base(x, iss, mk), HeardAt(x.fe, g, p),
           Milder(x.fe, g, mk)
    PROVE  LET y == [x EXCEPT !.fe = g] IN
           FeHeard(y, Head(x.fe.wire[p]), iss, mk) /\ ButFe(x, y) /\ y.fe = g
<1> DEFINE f == x.fe
           m == Head(f.wire[p])
           y == [x EXCEPT !.fe = g]
<1>0. /\ f \in FE!FrontendStates /\ Tokens(x.be.wire, f.wire) /\ g \in FE!FrontendStates
      /\ x.be.wire \in MixerQueues /\ f.wire \in ProxyQueues /\ f.wire[p] # <<>>
      /\ Shortened(g.wire, f.wire, p)
    BY VocsTyping, BackendTyping, FrontendTyping DEF Base, MixerQueues, ProxyQueues, HeardAt
<1>1. /\ Tokens(x.be.wire, g.wire) /\ In(f.wire[p]) = In(g.wire[p]) \cup {m}
      /\ \A q \in Proxies : q # p => g.wire[q] = f.wire[q]
      /\ Unused(x.be.wire, g.wire, m.id)
    BY <1>0, TokensFeAnswer
<1>2. f.wire[p] \in Seq(FE!ProxyMessages)
    BY <1>0 DEF ProxyQueues
<1>3. m \in FE!ProxyMessages
    BY <1>0, <1>2, QueueFacts
<1>4. FeWorded(m, iss, mk) /\ \A e \in x.async : e.id = m.id => FeAwaited(m, e, x.ldap)
  <2>1. m \in In(f.wire[p])
    BY <1>1
  <2> QED
    BY <2>1 DEF Base, FeMeant
<1>5. FeQuieter(x.fe, g, mk)
  <2>1. \A q \in Proxies : In(g.wire[q]) \subseteq In(f.wire[q])
    BY <1>1
  <2> QED
    BY <2>1 DEF FeQuieter
<1> HIDE DEF m
<1>6. Base(y, iss, mk) /\ y.fe = g /\ ButFe(x, y)
    BY <1>0, <1>1, <1>5, BaseFrontend
<1> HIDE DEF y
<1>7. FeHeard(y, m, iss, mk)
    BY <1>1, <1>3, <1>4, <1>6 DEF FeHeard, ButFe
<1> QED
    BY <1>6, <1>7 DEF y, m, f

(* A message that changes nothing in the frontend.                         *)
LEMMA BaseConsumed ==
    ASSUME NEW x, NEW iss, NEW mk, NEW p \in Proxies, Base(x, iss, mk), x.fe.wire[p] # <<>>
    PROVE  LET y == [x EXCEPT !.fe = FE!Consume(x.fe, p)] IN
           FeHeard(y, Head(x.fe.wire[p]), iss, mk) /\ ButFe(x, y) /\ y.fe = FE!Consume(x.fe, p)
<1> DEFINE g == FE!Consume(x.fe, p)
<1>0. x.fe \in FE!FrontendStates /\ Permitted(x.be, x.fe) /\ FiniteTables(x.fe)
    BY VocsTyping DEF Base
<1>1. /\ g \in FE!FrontendStates /\ OtherwiseSame(x.fe, g) /\ g.wire = [x.fe.wire EXCEPT ![p] = Tail(x.fe.wire[p])]
    BY <1>0, ConsumeFields
<1> HIDE DEF g
<1>2. HeardAt(x.fe, g, p)
    BY <1>1 DEF HeardAt, Shortened
<1>3. Milder(x.fe, g, mk)
    BY <1>0, <1>1 DEF OtherwiseSame, Permitted, FiniteTables, Milder
<1>4. LET y == [x EXCEPT !.fe = g] IN FeHeard(y, Head(x.fe.wire[p]), iss, mk) /\ ButFe(x, y) /\ y.fe = g
    BY <1>2, <1>3, BaseHeard
<1> QED
    BY <1>4 DEF g

(* What a proxy says first is worded as it should be.                      *)
LEMMA SaidWorded ==
    ASSUME NEW x, NEW iss, NEW mk, NEW p \in Proxies, Base(x, iss, mk), x.fe.wire[p] # <<>>
    PROVE  /\ Head(x.fe.wire[p]) \in FE!ProxyMessages /\ FeWorded(Head(x.fe.wire[p]), iss, mk)
           /\ Head(x.fe.wire[p]) \in In(x.fe.wire[p]) /\ FE!Said(x.fe, p) = Head(x.fe.wire[p])
<1>1. x.fe.wire[p] \in Seq(FE!ProxyMessages)
    BY VocsTyping, FrontendTyping DEF Base
<1>2. Head(x.fe.wire[p]) \in FE!ProxyMessages /\ Head(x.fe.wire[p]) \in In(x.fe.wire[p])
    BY <1>1, QueueFacts
<1> QED
    BY <1>2 DEF Base, FeMeant, FE!Said

(* A confirmed drop.                                                       *)
LEMMA BaseDropHeard ==
    ASSUME NEW x, NEW iss, NEW mk, NEW p \in Proxies, Base(x, iss, mk), x.fe.wire[p] # <<>>,
           FE!Said(x.fe, p).op = "drop"
    PROVE  LET y == [x EXCEPT !.fe = FE!SessionDropped(x.fe, p)] IN
           FeHeard(y, Head(x.fe.wire[p]), iss, mk) /\ ButFe(x, y) /\ y.fe = FE!SessionDropped(x.fe, p)
<1> DEFINE f == x.fe
           g == FE!SessionDropped(x.fe, p)
           S == FE!Said(x.fe, p).session
<1>0. /\ f \in FE!FrontendStates /\ Permitted(x.be, f) /\ FiniteTables(f) /\ mk \subseteq Users
      /\ f.home \in [Users -> Proxies \cup {NoSocket}]
    BY VocsTyping, FrontendTyping DEF Base
<1>1. S \in mk
    BY SaidWorded DEF FeWorded
<1>2. S \in Users
    BY <1>0, <1>1
<1>3. DropHandled(f, g, p, S)
    BY <1>0, <1>2, SessionDroppedFields
<1> HIDE DEF f, g, S
<1>4. HeardAt(f, g, p)
    BY <1>3 DEF HeardAt, Shortened, DropHandled, f
<1>5. FiniteTables(g)
  <2>1. \A q \in Proxies : g.owned[q] \subseteq f.owned[q]
    BY <1>3 DEF DropHandled
  <2> QED
    BY <1>0, <2>1, FiniteTablesKept
<1>6. Milder(f, g, mk)
    BY <1>0, <1>1, <1>3, <1>5 DEF DropHandled, Milder, Permitted
<1>7. LET y == [x EXCEPT !.fe = g] IN FeHeard(y, Head(x.fe.wire[p]), iss, mk) /\ ButFe(x, y) /\ y.fe = g
    BY <1>4, <1>6, BaseHeard DEF f
<1> QED
    BY <1>7 DEF g

(* An executed talk request.                                               *)
LEMMA BaseTalkHeard ==
    ASSUME NEW x, NEW iss, NEW mk, NEW p \in Proxies, Base(x, iss, mk), x.fe.wire[p] # <<>>,
           FE!Said(x.fe, p).op \in TalkOps
    PROVE  LET y == [x EXCEPT !.fe = FE!Talked(x.fe, p)] IN
           FeHeard(y, Head(x.fe.wire[p]), iss, mk) /\ ButFe(x, y) /\ y.fe = FE!Talked(x.fe, p)
<1> DEFINE f == x.fe
           g == FE!Talked(x.fe, p)
           m == FE!Said(x.fe, p)
<1>0. /\ f \in FE!FrontendStates /\ Permitted(x.be, f) /\ FiniteTables(f) /\ mk \subseteq Users
      /\ f.talk \in [Users -> SUBSET Loops]
    BY VocsTyping, FrontendTyping DEF Base
<1>1. m.session \in mk /\ m.loop \in Loops /\ (m.op = "talk on" => Permission[m.loop] = "send")
  <2>1. FeWorded(m, iss, mk) /\ m.op \in TalkOps
    BY SaidWorded
  <2> HIDE DEF m
  <2> QED
    BY <2>1 DEF FeWorded, TalkOps
<1>2. m.session \in Users
    BY <1>0, <1>1
<1>3. TalkHandled(f, g, p, m)
    BY <1>0, <1>1, <1>2, TalkedFields
<1> HIDE DEF f, g, m
<1>4. HeardAt(f, g, p)
    BY <1>3 DEF HeardAt, Shortened, TalkHandled, f
<1>5. FiniteTables(g)
    BY <1>0, <1>3 DEF TalkHandled, FiniteTables
<1>6. \A S \in Users : \A l \in g.talk[S] : Permission[l] = "send"
  <2>1. \A S \in Users : g.talk[S] \subseteq f.talk[S] \cup (IF m.op = "talk on" THEN {m.loop} ELSE {})
    BY <1>0, <1>3 DEF TalkHandled
  <2> QED
    BY <1>0, <1>1, <2>1 DEF Permitted
<1>7. \A S \in Users \ mk : g.talk[S] = f.talk[S]
    BY <1>0, <1>1, <1>3 DEF TalkHandled
<1>8. Milder(f, g, mk)
    BY <1>3, <1>5, <1>6, <1>7 DEF TalkHandled, Milder
<1>9. LET y == [x EXCEPT !.fe = g] IN FeHeard(y, Head(x.fe.wire[p]), iss, mk) /\ ButFe(x, y) /\ y.fe = g
    BY <1>4, <1>8, BaseHeard DEF f
<1> QED
    BY <1>9 DEF g

(* A session that a proxy ends, after a drop or because ICE failed.        *)
LEMMA BaseEnded ==
    ASSUME NEW x, NEW iss, NEW mk, NEW p \in Proxies, NEW S \in mk, Base(x, iss, mk)
    PROVE  /\ Base([x EXCEPT !.fe = FE!EndSession(x.fe, p, S)], iss, mk)
           /\ Base([x EXCEPT !.fe = FE!IceFailed(x.fe, p, S)], iss, mk)
<1> DEFINE f == x.fe
           n == FE!ProxyMessage("failed", None, S, None)
<1>0. /\ f \in FE!FrontendStates /\ Permitted(x.be, f) /\ FiniteTables(f) /\ S \in Users
      /\ f.talk \in [Users -> SUBSET Loops] /\ f.live \in [Proxies -> SUBSET Users]
      /\ f.wire \in ProxyQueues /\ x.be.wire \in MixerQueues /\ Tokens(x.be.wire, f.wire)
    BY VocsTyping, FrontendTyping, BackendTyping DEF Base, ProxyQueues, MixerQueues
<1>1. ASSUME NEW g, SessionEnded(f, g, p, S) PROVE Milder(f, g, mk)
  <2>1. FiniteTables(g)
    BY <1>0, <1>1 DEF SessionEnded, FiniteTables
  <2>2. \A T \in Users : g.talk[T] \subseteq f.talk[T]
    BY <1>0, <1>1 DEF SessionEnded
  <2>3. \A q \in Proxies : g.live[q] \subseteq f.live[q]
    BY <1>0, <1>1 DEF SessionEnded
  <2> QED
    BY <1>0, <1>1, <2>1, <2>2, <2>3 DEF SessionEnded, Milder, Permitted
<1> HIDE DEF f
<1>2. Base([x EXCEPT !.fe = FE!EndSession(f, p, S)], iss, mk)
  <2> DEFINE g == FE!EndSession(f, p, S)
  <2>1. SessionEnded(f, g, p, S) /\ g.wire = f.wire
    BY <1>0, EndSessionFields
  <2> HIDE DEF g
  <2>2. FeQuieter(x.fe, g, mk) /\ Tokens(x.be.wire, g.wire) /\ g \in FE!FrontendStates
    BY <1>0, <1>1, <2>1 DEF FeQuieter, SessionEnded, f
  <2>3. Base([x EXCEPT !.fe = g], iss, mk)
    BY <2>2, BaseFrontend
  <2> QED
    BY <2>3 DEF g
<1>3. Base([x EXCEPT !.fe = FE!IceFailed(f, p, S)], iss, mk)
  <2> DEFINE g == FE!IceFailed(f, p, S)
  <2>1. n \in FE!ProxyMessages /\ n.op = "failed" /\ n.id = None /\ n.session = S
    BY <1>0 DEF FE!FrontendOps, FE!ProxyMessages, FE!ProxyMessage
  <2>2. SessionEnded(f, g, p, S) /\ g.wire = [f.wire EXCEPT ![p] = <<n>> \o f.wire[p]]
    BY <1>0, IceFailedFields
  <2> HIDE DEF g, n
  <2>3. Unused(x.be.wire, f.wire, n.id)
    BY <2>1, NoRequestAssumption DEF Unused, ClientReqs
  <2>4. Prefixed(g.wire, f.wire, p, n)
    BY <2>2 DEF Prefixed
  <2>5. FeGrown(g.wire, x.be.wire, f.wire, p, n)
    BY <1>0, <2>1, <2>3, <2>4, TokensFeSend
  <2>6. FeQuieter(x.fe, g, mk) /\ Tokens(x.be.wire, g.wire) /\ g \in FE!FrontendStates
    BY <1>1, <2>1, <2>2, <2>5 DEF FeQuieter, SessionEnded, FeGrown, f
  <2>7. Base([x EXCEPT !.fe = g], iss, mk)
    BY <2>6, BaseFrontend
  <2> QED
    BY <2>7 DEF g
<1> QED
    BY <1>2, <1>3 DEF f

(* A session that is dropped at its proxy.                                 *)
LEMMA BaseFrontendDrop ==
    ASSUME NEW x, NEW iss, NEW mk, NEW S \in mk, Base(x, iss, mk)
    PROVE  Base(FrontendDrop(x, S), iss, mk)
<1> DEFINE f == FE!DropSession(x.fe, S)
           m == DropMessage(S)
<1>0. x.fe \in FE!FrontendStates /\ S \in Users /\ iss \subseteq ClientReqs
    BY VocsTyping DEF Base
<1>1. SentHome(x.fe, f, S, m) /\ m \in FE!ProxyMessages /\ m.op = "drop" /\ m.id = None /\ m.session = S
    BY <1>0, DropSessionFields
<1>2. FrontendDrop(x, S) = [x EXCEPT !.fe = f]
    BY DEF FrontendDrop
<1> HIDE DEF f, m
<1>3. None \notin ClientReqs
    BY NoRequestAssumption DEF ClientReqs
<1>4. \A e \in x.async : e.id # None
    BY <1>0, <1>3 DEF Base, Stored
<1>5. FeFits(x, m, iss, mk)
    BY <1>1, <1>3, <1>4 DEF FeFits, FeWorded, Unused, TalkOps
<1>6. Base([x EXCEPT !.fe = f], iss, mk)
    BY <1>1, <1>5, BaseSendHome
<1> QED
    BY <1>2, <1>6

(* The callbacks about the end of a session, and about ICE.                *)
LEMMA BaseCompleted ==
    ASSUME NEW x, NEW iss, NEW mk, NEW S \in Users \cup {None}, NEW success \in BOOLEAN, Base(x, iss, mk)
    PROVE  Base(SessionDropped(x, S), iss, mk) /\ Base(SessionCompleted(x, S, success), iss, mk)
<1> DEFINE c == SocketOf(x, S)
<1>1. c \in Clients \cup {NoSocket}
    BY VocsTyping DEF SocketOf, Base
<1>2. /\ SessionDropped(x, S) = DropConnection(x, c, FALSE, TRUE)
      /\ SessionCompleted(x, S, success) =
           IF ~success THEN DropConnection(x, c, FALSE, TRUE)
           ELSE IF c = NoSocket \/ x.conn[c].ice THEN x
           ELSE Announce([x EXCEPT !.conn[c].ice = TRUE], c)
    BY DEF SessionDropped, SessionCompleted
<1> HIDE DEF c
<1>3. Base(DropConnection(x, c, FALSE, TRUE), iss, mk)
    BY <1>1, BaseDropConnection
<1>4. c # NoSocket => Base(Announce([x EXCEPT !.conn[c].ice = TRUE], c), iss, mk)
    BY <1>1, BaseAnnounced
<1> QED
    BY <1>2, <1>3, <1>4

(* A session that is made has one home, its proxy.                         *)
LEMMA BaseCreateHeard ==
    ASSUME NEW x, NEW iss, NEW mk, NEW p \in Proxies, NEW S \in Users \ mk, Base(x, iss, mk),
           x.fe.wire[p] # <<>>
    PROVE  LET y == [x EXCEPT !.fe = FE!SessionCreated(x.fe, p, S)] IN
           /\ FeHeard(y, Head(x.fe.wire[p]), iss, mk \cup {S}) /\ NotAcquired(y.be.wire, S)
           /\ ButFe(x, y) /\ y.fe = FE!SessionCreated(x.fe, p, S)
<1> DEFINE f == x.fe
           g == FE!SessionCreated(x.fe, p, S)
           mm == mk \cup {S}
           y == [x EXCEPT !.fe = g]
<1>0. /\ f \in FE!FrontendStates /\ Permitted(x.be, f) /\ FiniteTables(f) /\ mk \subseteq Users
      /\ f.home \in [Users -> Proxies \cup {NoSocket}] /\ f.live \in [Proxies -> SUBSET Users]
      /\ f.owned \in [Proxies -> SUBSET Users]
    BY VocsTyping, FrontendTyping DEF Base
<1>1. Base(x, iss, mm)
    BY BaseMade
<1>2. CreateHandled(f, g, p, S)
    BY <1>0, SessionCreatedFields
<1>3. NotAcquired(x.be.wire, S)
    BY DEF NotAcquired, Base, BeMeant, BeWorded
<1>4. S \in mm /\ mk \subseteq mm
    OBVIOUS
<1> HIDE DEF f, g, mm
<1>5. HeardAt(f, g, p)
    BY <1>2 DEF HeardAt, Shortened, CreateHandled, f
<1>6. FiniteTables(g)
  <2>1. ASSUME NEW q \in Proxies PROVE IsFiniteSet(g.owned[q])
    <3>1. IsFiniteSet(f.owned[q]) /\ IsFiniteSet(f.owned[q] \cup {S})
        BY <1>0, FS_AddElement DEF FiniteTables
    <3>2. g.owned[q] = f.owned[q] \/ g.owned[q] = f.owned[q] \cup {S}
        BY <1>0, <1>2 DEF CreateHandled
    <3> QED
        BY <3>1, <3>2
  <2> QED
    BY <2>1 DEF FiniteTables
<1>7. Milder(f, g, mm)
    BY <1>0, <1>2, <1>4, <1>6 DEF CreateHandled, Milder, Permitted
<1>8. FeHeard(y, Head(x.fe.wire[p]), iss, mm) /\ ButFe(x, y) /\ y.fe = g
    BY <1>1, <1>5, <1>7, BaseHeard DEF f
<1> HIDE DEF y
<1>9. NotAcquired(y.be.wire, S)
    BY <1>3, <1>8 DEF ButFe
<1> QED
    BY <1>8, <1>9 DEF g, mm, y

(* y is x with session S bound to connection c and request r taken out.    *)
Binding(x, y, r, S, c) ==
    /\ y \in VocsStates /\ y.up = x.up /\ y.parts = x.parts /\ y.ldap = x.ldap
    /\ y.be = x.be /\ y.fe = x.fe /\ y.owed = x.owed /\ y.ready = x.ready
    /\ y.async = {e \in x.async : e.id # r}
    /\ y.sess = [x.sess EXCEPT ![S] = c]
    /\ y.conn = [x.conn EXCEPT ![c] = [x.conn[c] EXCEPT !.session = S]]

(* The fields after binding.                                               *)
LEMMA BindingFields ==
    ASSUME NEW x \in VocsStates, NEW r, NEW S \in Users, NEW c \in Clients
    PROVE  Binding(x, [AsyncUnset(x, r) EXCEPT !.sess[S] = c, !.conn[c].session = S], r, S, c)
<1> DEFINE u == AsyncUnset(x, r)
           d == [x.conn[c] EXCEPT !.session = S]
           y == [u EXCEPT !.sess[S] = c, !.conn[c].session = S]
           C == [x.conn EXCEPT ![c] = d]
           D == [x.sess EXCEPT ![S] = c]
<1>1. Taken(x, u, r)
    BY TakenFields
<1> HIDE DEF u
<1>2. x.conn[c] \in Conns /\ x.conn \in [Clients -> Conns] /\ x.sess \in [Users -> Clients \cup {NoSocket}]
    BY VocsTyping
<1>3. d \in Conns
    BY <1>2 DEF Conns
<1>4. u.conn = x.conn /\ u.sess = x.sess /\ u \in VocsStates
    BY <1>1 DEF Taken, ButStore
<1>5. y = [u EXCEPT !.sess = D, !.conn = C]
    BY <1>4
<1> HIDE DEF d, y
<1>6. C \in [Clients -> Conns] /\ D \in [Users -> Clients \cup {NoSocket}]
    BY <1>2, <1>3
<1> HIDE DEF C, D
<1>7. /\ y \in VocsStates /\ y.conn = C /\ y.sess = D
      /\ y.up = u.up /\ y.parts = u.parts /\ y.ldap = u.ldap /\ y.async = u.async
      /\ y.be = u.be /\ y.fe = u.fe /\ y.owed = u.owed /\ y.ready = u.ready
    BY <1>4, <1>5, <1>6 DEF VocsStates
<1>8. Binding(x, y, r, S, c)
    BY <1>1, <1>7 DEF Binding, Taken, ButStore, C, D, d
<1> QED
    BY <1>8 DEF y, u

(* Binding keeps the base invariant.                                       *)
LEMMA BaseBinding ==
    ASSUME NEW x, NEW y, NEW iss, NEW mk, NEW r, NEW S \in mk, NEW c \in Clients, Base(x, iss, mk),
           Binding(x, y, r, S, c)
    PROVE  Base(y, iss, mk)
<1>0. /\ x.conn \in [Clients -> Conns] /\ x.sess \in [Users -> Clients \cup {NoSocket}]
      /\ Tokens(x.be.wire, x.fe.wire) /\ Permitted(x.be, x.fe) /\ FiniteTables(x.fe)
    BY VocsTyping DEF Base
<1>1. QuietMessages(x, y, mk)
    BY DEF QuietMessages, Binding
<1>2. \A k \in Clients : y.conn[k].session \in {x.conn[k].session, None} \cup mk
    BY <1>0 DEF Binding, Conns
<1>3. \A T \in Users \ mk : y.sess[T] \in {x.sess[T], NoSocket}
    BY <1>0 DEF Binding
<1>4. QuietSessions(x, y, mk)
    BY <1>2, <1>3 DEF QuietSessions, Binding
<1>5. Quiet(x, y, mk)
    BY <1>0, <1>1, <1>4 DEF Quiet, Binding
<1> QED
    BY <1>5, BaseQuiet

(* The mixer that was free and is asked for.                               *)
LEMMA BaseAcquire ==
    ASSUME NEW x, NEW iss, NEW mk, NEW r \in iss, NEW S \in mk, Base(x, iss, mk), MixerAvailable(x.be),
           Unused(x.be.wire, x.fe.wire, r), NotAcquired(x.be.wire, S), \A e \in x.async : e.id # r
    PROVE  Base([x EXCEPT !.be = AcquireMixer(x.be, r, S)], iss, mk)
<1> DEFINE b == x.be
           g == AcquireMixer(b, r, S)
           s == FirstFree(b)
           m == Message("acquire", r, S, None)
           y == [x EXCEPT !.be = g]
<1>0. x \in VocsStates /\ b \in BackendStates /\ r \in Reqs /\ S \in Users
    BY VocsTyping DEF Base, ClientReqs
<1>1. /\ g \in BackendStates /\ s \in Sockets /\ b.slot[s] = Free
      /\ g.slot = [b.slot EXCEPT ![s] = S] /\ g.users = [b.users EXCEPT ![S] = s]
      /\ g.mix = b.mix /\ g.wire = [b.wire EXCEPT ![s] = Append(@, m)]
    BY <1>0, AcquireMixerFields, SMTT(20)
<1>2. m \in Messages /\ m.op = "acquire" /\ m.id = r /\ m.user = S
    BY <1>0, NoneAssumption DEF Message, Messages, BackendOps
<1> HIDE DEF g, s, m, b
<1>3. y \in VocsStates /\ y.be = g /\ ButBe(x, y)
    BY <1>0, <1>1, WithBe
<1> HIDE DEF y
<1>4. BeFits(x, m, iss, mk)
    BY <1>2 DEF BeFits, BeWorded, LoopOps
<1>5. OtherBackend(x, y, mk)
  <2>1. b.slot \in [Sockets -> Users \cup {Closed, Free}] /\ b.users \in [Users -> Sockets \cup {NoSlot}]
    BY <1>0, BackendTyping
  <2>2. \A T \in Users \ mk : g.users[T] = b.users[T]
    BY <1>1, <2>1
  <2>3. \A t \in Sockets : g.slot[t] = b.slot[t] \/ g.slot[t] \in mk
    BY <1>1, <2>1
  <2> QED
    BY <1>1, <1>3, <2>2, <2>3 DEF OtherBackend, b
<1>6. Appended(y.be.wire, x.be.wire, s, m)
    BY <1>1, <1>3 DEF Appended, b
<1>7. Base(y, iss, mk)
    BY <1>1, <1>2, <1>4, <1>5, <1>6, BaseBeSend
<1> QED
    BY <1>7 DEF y, g, b

(* A response is bookkeeping.                                              *)
LEMMA BaseRespond ==
    ASSUME NEW x, NEW iss, NEW mk, NEW r, NEW c, Base(x, iss, mk)
    PROVE  Base(Respond(x, r, c), iss, mk)
<1> DEFINE z == Respond(x, r, c)
<1>1. x \in VocsStates
    BY DEF Base
<1>2. Kept(x, z) /\ z.async \subseteq x.async /\ z.ldap \subseteq x.ldap
    BY <1>1 DEF Kept, VocsStates, Respond
<1> HIDE DEF z
<1>3. Base(z, iss, mk)
    BY <1>2, BasePlain
<1> QED
    BY <1>3 DEF z

(* A session that a proxy has made is bound, or dropped again.             *)
LEMMA BaseSessionCreated ==
    ASSUME NEW x, NEW iss, NEW mk, NEW m, NEW S \in mk, FeHeard(x, m, iss, mk), m.op = "create",
           NotAcquired(x.be.wire, S)
    PROVE  Base(SessionCreated(x, m.id, S), iss, mk)
<1> DEFINE r == m.id
           c == AsyncGet(x, r).sock
           b == [AsyncUnset(x, r) EXCEPT !.sess[S] = c, !.conn[c].session = S]
           q == [b EXCEPT !.be = AcquireMixer(b.be, r, S)]
           n == MixerAcquired(b, r, S, "error")
           y == IF MixerAvailable(x.be) THEN q ELSE n
<1>0. /\ x \in VocsStates /\ Base(x, iss, mk) /\ Unused(x.be.wire, x.fe.wire, r) /\ r \in iss
      /\ S \in Users
    BY DEF Base, FeHeard, FeWorded
<1>1. SessionCreated(x, r, S) = IF ~AsyncHas(x, r) THEN FrontendDrop(x, S)
                                ELSE IF y.up[c] THEN Respond(y, r, c) ELSE FrontendDrop(y, S)
    BY DEF SessionCreated
<1>2. Base(FrontendDrop(x, S), iss, mk)
    BY <1>0, BaseFrontendDrop
<1>3. CASE AsyncHas(x, r)
  <2>1. c \in Clients
    BY <1>0, <1>3, AsyncFound
  <2> HIDE DEF c, r
  <2>2. Binding(x, b, r, S, c)
    BY <1>0, <2>1, BindingFields
  <2> HIDE DEF b
  <2>3. Base(b, iss, mk)
    BY <1>0, <2>1, <2>2, BaseBinding
  <2>4. Base(n, iss, mk)
    BY <2>3, BaseMixerAcquired
  <2>5. MixerAvailable(x.be) => Base(q, iss, mk)
    <3>1. b.be = x.be /\ b.fe = x.fe /\ \A e \in b.async : e.id # r
        BY <2>2 DEF Binding
    <3> QED
        BY <1>0, <2>3, <3>1, BaseAcquire
  <2> HIDE DEF n, q
  <2>6. Base(y, iss, mk)
    BY <2>4, <2>5
  <2> HIDE DEF y
  <2>7. Base(Respond(y, r, c), iss, mk) /\ Base(FrontendDrop(y, S), iss, mk)
    BY <2>6, BaseRespond, BaseFrontendDrop
  <2> QED
    BY <1>1, <1>3, <2>7 DEF r
<1> QED
    BY <1>1, <1>2, <1>3

(* An answer to a request to talk or to stop talking.                      *)
LEMMA BaseFrontendTalk ==
    ASSUME NEW x, NEW iss, NEW mk, NEW m, FeHeard(x, m, iss, mk), m.op \in TalkOps,
           NEW on \in BOOLEAN, NEW ok \in BOOLEAN
    PROVE  Base(FrontendTalk(x, m.id, m.session, m.loop, on, ok), iss, mk)
<1> DEFINE r == m.id
           S == m.session
           l == m.loop
           e == AsyncGet(x, r)
           c == e.sock
           st == IF on THEN "send" ELSE "recv"
           y == AsyncUnset(x, r)
           w == [y EXCEPT !.conn[c].loops[l] = st]
           a == AsyncSet(w, e)
           v1 == LeaveLoop(a, r, S, l)
<1>0. /\ x \in VocsStates /\ Base(x, iss, mk) /\ Unused(x.be.wire, x.fe.wire, r) /\ r \in iss
      /\ S \in mk /\ l \in Loops /\ r \in ClientReqs
  <2>1. FeWorded(m, iss, mk) /\ m.op \in TalkOps /\ Base(x, iss, mk) /\ Unused(x.be.wire, x.fe.wire, r)
    BY DEF FeHeard
  <2> QED
    BY <2>1 DEF FeWorded, TalkOps, Base
<1>1. FrontendTalk(x, r, S, l, on, ok) =
        IF ~AsyncHas(x, r) THEN x
        ELSE IF ~ok THEN Respond(y, r, c)
        ELSE IF ~KnownClient(x, c) THEN DropConnection(y, c, TRUE, TRUE)
        ELSE IF e.want # "none" THEN Respond(w, r, c)
        ELSE IF HasMixer(x.be, S) THEN v1
        ELSE DropConnection(v1, c, TRUE, TRUE)
    BY DEF FrontendTalk
<1>2. CASE ~AsyncHas(x, r)
    BY <1>0, <1>1, <1>2
<1>3. CASE AsyncHas(x, r)
  <2>1. e \in x.async /\ e.id = r /\ e \in Entries /\ c \in Clients
    BY <1>0, <1>3, AsyncFound
  <2>2. e.loop = l /\ r \notin x.ldap
    BY <2>1 DEF FeHeard, FeAwaited
  <2>3. Base(y, iss, mk) /\ Base(Respond(y, r, c), iss, mk) /\ Taken(x, y, r)
    BY <1>0, BaseTaken, TakenFields
  <2> HIDE DEF r, S, l, e, c, y
  <2>4. Base(DropConnection(y, c, TRUE, TRUE), iss, mk)
    BY <2>1, <2>3, BaseDropConnection
  <2>5. LoopSet(y, w, c, l, st)
    <3>1. y \in VocsStates /\ st \in LoopStates /\ y.parts \in SUBSET (Loops \X Clients)
        BY <2>3, VocsTyping DEF Base, LoopStates
    <3> HIDE DEF st
    <3> QED
        BY <1>0, <2>1, <3>1, LoopSetFields
  <2> HIDE DEF w
  <2>6. Base(w, iss, mk)
    BY <2>1, <2>3, <2>5, BaseLoopSet
  <2>7. Base(Respond(w, r, c), iss, mk)
    BY <2>6, BaseRespond
  <2>8. /\ w.be = x.be /\ w.fe = x.fe /\ w.ldap = x.ldap /\ \A g \in w.async : g.id # r
    BY <2>3, <2>5 DEF LoopSet, Taken, ButStore
  <2>9. Suits(w, e)
    BY <1>0, <2>1, <2>8 DEF Suits, Unused, Absent
  <2>10. Base(a, iss, mk)
    BY <1>0, <2>1, <2>2, <2>6, <2>8, <2>9, BaseAsked
  <2>11. ButStore(w, a) /\ a.async = w.async \cup {e}
    <3>1. w \in VocsStates
        BY <2>6 DEF Base
    <3> QED
        BY <2>1, <3>1, AskedFields
  <2> HIDE DEF a
  <2>12. Unused(a.be.wire, a.fe.wire, r) /\ \A g \in a.async : g.id = r => g.loop = l
    BY <1>0, <2>2, <2>8, <2>11 DEF ButStore
  <2>13. Base(v1, iss, mk)
    BY <1>0, <2>10, <2>12, BaseLeaveLoop
  <2> HIDE DEF v1
  <2>14. Base(DropConnection(v1, c, TRUE, TRUE), iss, mk)
    BY <2>1, <2>13, BaseDropConnection
  <2>15. FrontendTalk(x, r, S, l, on, ok) \in
            {Respond(y, r, c), DropConnection(y, c, TRUE, TRUE), Respond(w, r, c), v1,
             DropConnection(v1, c, TRUE, TRUE)}
    BY <1>1, <1>3
  <2>16. Base(FrontendTalk(x, r, S, l, on, ok), iss, mk)
    BY <2>3, <2>4, <2>7, <2>13, <2>14, <2>15
  <2> QED
    BY <2>16 DEF r, S, l
<1> QED
    BY <1>2, <1>3

(* The handler of what a proxy says, by what it is.                        *)
LEMMA OnProxyAnswerCases ==
    ASSUME NEW x, NEW p
    PROVE  LET m == FE!Said(x.fe, p)
               z == OnProxyAnswer(x, p)
           IN /\ m.op = "drop" /\ FE!DropFails(x.fe, p) =>
                   z = SessionCompleted([x EXCEPT !.fe = FE!EndSession(x.fe, p, m.session)], m.session, FALSE)
              /\ m.op = "drop" /\ ~FE!DropFails(x.fe, p) =>
                   z = SessionDropped([x EXCEPT !.fe = FE!SessionDropped(x.fe, p)], m.session)
              /\ m.op = "failed" =>
                   z = SessionCompleted([x EXCEPT !.fe = FE!Consume(x.fe, p)], m.session, FALSE)
              /\ m.op \in TalkOps =>
                   z = FrontendTalk([x EXCEPT !.fe = FE!Talked(x.fe, p)], m.id, m.session, m.loop,
                                    m.op = "talk on", FE!TalkSucceeds(x.fe, p))
<1> DEFINE m == FE!Said(x.fe, p)
           k == FE!DropFails(x.fe, p)
           z1 == SessionCompleted([x EXCEPT !.fe = FE!EndSession(x.fe, p, m.session)], m.session, FALSE)
           z2 == SessionDropped([x EXCEPT !.fe = FE!SessionDropped(x.fe, p)], m.session)
           z3 == SessionCompleted([x EXCEPT !.fe = FE!Consume(x.fe, p)], m.session, FALSE)
           z4 == FrontendTalk([x EXCEPT !.fe = FE!Talked(x.fe, p)], m.id, m.session, m.loop,
                              m.op = "talk on", FE!TalkSucceeds(x.fe, p))
<1>1. OnProxyAnswer(x, p) = CASE m.op = "drop" /\ k -> z1
                              [] m.op = "drop" /\ ~k -> z2
                              [] m.op = "failed" -> z3
                              [] m.op \in {"talk on", "talk off"} -> z4
    BY DEF OnProxyAnswer
<1> DEFINE o == m.op
<1> HIDE DEF z1, z2, z3, z4, k, o
<1>2. OnProxyAnswer(x, p) = CASE o = "drop" /\ k -> z1
                              [] o = "drop" /\ ~k -> z2
                              [] o = "failed" -> z3
                              [] o \in {"talk on", "talk off"} -> z4
    BY <1>1 DEF o
<1>3. /\ o = "drop" /\ k => OnProxyAnswer(x, p) = z1
      /\ o = "drop" /\ ~k => OnProxyAnswer(x, p) = z2
      /\ o = "failed" => OnProxyAnswer(x, p) = z3
      /\ o \in TalkOps => OnProxyAnswer(x, p) = z4
    BY <1>2 DEF TalkOps
<1> QED
    BY <1>3 DEF z1, z2, z3, z4, k, o

(* Something a proxy says, other than about a request of ICE or create.    *)
LEMMA BaseProxyAnswer ==
    ASSUME NEW x, NEW iss, NEW mk, NEW p \in Proxies, Base(x, iss, mk), x.fe.wire[p] # <<>>,
           FE!Said(x.fe, p).op \notin {"create", "update", "candidate"}
    PROVE  Base(OnProxyAnswer(x, p), iss, mk)
<1> DEFINE m == FE!Said(x.fe, p)
           S == m.session
<1>0. FeWorded(m, iss, mk) /\ m \in FE!ProxyMessages /\ m = Head(x.fe.wire[p])
    BY SaidWorded
<1>1. m.op \in {"drop", "failed"} \cup TalkOps
    BY <1>0 DEF FE!ProxyMessages, FE!FrontendOps, TalkOps
<1>2. S \in mk /\ S \in Users
    BY <1>0 DEF FeWorded, Base
<1>3. CASE m.op = "drop" /\ FE!DropFails(x.fe, p)
  <2> DEFINE y == [x EXCEPT !.fe = FE!EndSession(x.fe, p, S)]
  <2>1. Base(y, iss, mk)
    BY <1>2, BaseEnded
  <2>2. OnProxyAnswer(x, p) = SessionCompleted(y, S, FALSE)
    BY <1>3, OnProxyAnswerCases
  <2> HIDE DEF y
  <2> QED
    BY <1>2, <2>1, <2>2, BaseCompleted
<1>4. CASE m.op = "drop" /\ ~FE!DropFails(x.fe, p)
  <2> DEFINE y == [x EXCEPT !.fe = FE!SessionDropped(x.fe, p)]
  <2>1. FeHeard(y, Head(x.fe.wire[p]), iss, mk)
    BY <1>4, BaseDropHeard
  <2>2. OnProxyAnswer(x, p) = SessionDropped(y, S)
    BY <1>4, OnProxyAnswerCases
  <2> HIDE DEF y
  <2>3. Base(y, iss, mk)
    BY <2>1 DEF FeHeard
  <2> QED
    BY <1>2, <2>2, <2>3, BaseCompleted
<1>5. CASE m.op = "failed"
  <2> DEFINE y == [x EXCEPT !.fe = FE!Consume(x.fe, p)]
  <2>1. FeHeard(y, Head(x.fe.wire[p]), iss, mk)
    BY BaseConsumed
  <2>2. OnProxyAnswer(x, p) = SessionCompleted(y, S, FALSE)
    BY <1>5, OnProxyAnswerCases
  <2> HIDE DEF y
  <2>3. Base(y, iss, mk)
    BY <2>1 DEF FeHeard
  <2> QED
    BY <1>2, <2>2, <2>3, BaseCompleted
<1>6. CASE m.op \in TalkOps
  <2> DEFINE y == [x EXCEPT !.fe = FE!Talked(x.fe, p)]
             on == m.op = "talk on"
             ok == FE!TalkSucceeds(x.fe, p)
  <2>1. FeHeard(y, m, iss, mk)
    BY <1>0, <1>6, BaseTalkHeard
  <2>2. OnProxyAnswer(x, p) = FrontendTalk(y, m.id, m.session, m.loop, on, ok)
    BY <1>6, OnProxyAnswerCases
  <2>3. on \in BOOLEAN /\ ok \in BOOLEAN
    BY DEF FE!TalkSucceeds
  <2> HIDE DEF y, on, ok, m
  <2> QED
    BY <1>6, <2>1, <2>2, <2>3, BaseFrontendTalk
<1> QED
    BY <1>1, <1>3, <1>4, <1>5, <1>6

(* Answers to create, update and candidate, and ICE that fails.            *)
LEMMA BaseProxyMore ==
    ASSUME NEW x, NEW iss, NEW mk, NEW p \in Proxies, Base(x, iss, mk)
    PROVE  /\ x.fe.wire[p] # <<>> => /\ Base(OnProxyRefused(x, p), iss, mk)
                                     /\ Base(OnProxyUpdated(x, p), iss, mk)
                                     /\ \A ok \in BOOLEAN : Base(OnProxyCandidate(x, p, ok), iss, mk)
           /\ \A S \in mk : Base(OnIceFailed(x, p, S), iss, mk)
<1>1. ASSUME x.fe.wire[p] # <<>>, NEW ok \in BOOLEAN
      PROVE  /\ Base(OnProxyRefused(x, p), iss, mk) /\ Base(OnProxyUpdated(x, p), iss, mk)
             /\ Base(OnProxyCandidate(x, p, ok), iss, mk)
  <2> DEFINE y == [x EXCEPT !.fe = FE!Consume(x.fe, p)]
             r == FE!Said(x.fe, p).id
             c == AsyncGet(y, r).sock
             k == IF ok THEN SocketOf(y, FE!Said(x.fe, p).session) ELSE NoSocket
  <2>1. Base(y, iss, mk)
    BY <1>1, BaseConsumed DEF FeHeard
  <2>2. /\ OnProxyRefused(x, p) \in {y, Respond(AsyncUnset(y, r), r, c)}
        /\ OnProxyUpdated(x, p) \in {y, Respond(AsyncUnset(y, r), r, c)}
        /\ OnProxyCandidate(x, p, ok) = Respond(AsyncUnset(y, r), r, k)
    BY DEF OnProxyRefused, OnProxyUpdated, OnProxyCandidate, SessionRefused, SessionUpdated, CandidateAnswered
  <2> HIDE DEF y, r, c, k
  <2>3. Base(Respond(AsyncUnset(y, r), r, c), iss, mk) /\ Base(Respond(AsyncUnset(y, r), r, k), iss, mk)
    BY <2>1, BaseTaken
  <2> QED
    BY <2>1, <2>2, <2>3
<1>2. ASSUME NEW S \in mk PROVE Base(OnIceFailed(x, p, S), iss, mk)
  <2> DEFINE y == [x EXCEPT !.fe = FE!IceFailed(x.fe, p, S)]
  <2>1. Base(y, iss, mk) /\ S \in Users
    BY BaseEnded DEF Base
  <2>2. OnIceFailed(x, p, S) = SessionCompleted(y, S, FALSE)
    BY DEF OnIceFailed
  <2> HIDE DEF y
  <2> QED
    BY <2>1, <2>2, BaseCompleted
<1> QED
    BY <1>1, <1>2

(* A session that was asked for.                                           *)
LEMMA BaseProxyCreated ==
    ASSUME NEW x, NEW iss, NEW mk, NEW p \in Proxies, NEW S \in Users \ mk, Base(x, iss, mk),
           x.fe.wire[p] # <<>>, FE!Said(x.fe, p).op = "create"
    PROVE  Base(OnProxyCreated(x, p, S), iss, mk \cup {S})
<1> DEFINE y == [x EXCEPT !.fe = FE!SessionCreated(x.fe, p, S)]
           m == FE!Said(x.fe, p)
           mm == mk \cup {S}
<1>1. FeHeard(y, m, iss, mm) /\ NotAcquired(y.be.wire, S)
    BY BaseCreateHeard DEF FE!Said
<1>2. OnProxyCreated(x, p, S) = SessionCreated(y, m.id, S) /\ m.op = "create" /\ S \in mm
    BY DEF OnProxyCreated
<1> HIDE DEF y, m, mm
<1>3. Base(SessionCreated(y, m.id, S), iss, mm)
    BY <1>1, <1>2, BaseSessionCreated
<1> QED
    BY <1>2, <1>3 DEF mm

-----------------------------------------------------------------------------
(* The sessions of a lost proxy are dropped one after the other.           *)

Picked(A) == CHOOSE u \in A : TRUE

(* F[A] is the state when the sessions in A have been dropped, for those A *)
(* that are in D.                                                          *)
DropsFrom(F, x, D) ==
    F = [A \in D |-> IF A = {} THEN x ELSE SessionDropped(F[A \ {Picked(A)}], Picked(A))]

AfterDrops(x, Ss) == CHOOSE F : DropsFrom(F, x, SUBSET Ss)

(* The handler of a lost proxy is that iteration.                          *)
LEMMA LostIsIteration ==
    ASSUME NEW x, NEW p, NEW kept
    PROVE  OnProxyLost(x, p, kept) =
             AfterDrops([x EXCEPT !.fe = FE!UnregisterProxy(x.fe, p, kept)], x.fe.owned[p])[x.fe.owned[p]]
    BY DEF OnProxyLost, FoldSet, MapThenFoldSet, AfterDrops, DropsFrom, Picked

UpTo(Ss, n) == {A \in SUBSET Ss : Cardinality(A) <= n}

(* Taking an element out.                                                  *)
LEMMA PickedFacts ==
    ASSUME NEW Ss, IsFiniteSet(Ss), NEW A \in SUBSET Ss
    PROVE  /\ IsFiniteSet(A) /\ Cardinality(A) \in Nat /\ A \in UpTo(Ss, Cardinality(A))
           /\ Cardinality(A) <= Cardinality(Ss) /\ Cardinality(Ss) \in Nat
           /\ A # {} => /\ Picked(A) \in A /\ A \ {Picked(A)} \in SUBSET Ss
                        /\ Cardinality(A \ {Picked(A)}) = Cardinality(A) - 1
           /\ A # {} => Cardinality(A) # 0
<1>1. IsFiniteSet(A) /\ Cardinality(A) <= Cardinality(Ss)
    BY FS_Subset
<1>2. Cardinality(A) \in Nat /\ Cardinality(Ss) \in Nat
    BY <1>1, FS_CardinalityType
<1>3. A # {} => Picked(A) \in A
    BY DEF Picked
<1>4. A # {} => Cardinality(A \ {Picked(A)}) = Cardinality(A) - 1
    BY <1>1, <1>3, FS_RemoveElement
<1>5. A # {} => Cardinality(A) # 0
    BY <1>1, FS_EmptySet
<1> QED
    BY <1>1, <1>2, <1>3, <1>4, <1>5 DEF UpTo

(* The iteration exists for sets of any size.                              *)
LEMMA DropsExist ==
    ASSUME NEW x, NEW Ss, IsFiniteSet(Ss)
    PROVE  \E F : DropsFrom(F, x, SUBSET Ss)
<1> DEFINE Bad == {n \in Nat : ~ \E F : DropsFrom(F, x, UpTo(Ss, n))}
<1>1. Bad = {}
  <2> SUFFICES ASSUME Bad # {} PROVE FALSE
    OBVIOUS
  <2>1. PICK n \in Bad : \A k \in Bad : n <= k
    <3>1. Bad \in SUBSET Nat
        OBVIOUS
    <3> HIDE DEF Bad
    <3> QED
        BY <3>1, LeastNumber
  <2>2. n \in Nat
    OBVIOUS
  <2>3. CASE n = 0
    <3> DEFINE F == [A \in UpTo(Ss, 0) |-> x]
    <3>1. ASSUME NEW A \in UpTo(Ss, 0) PROVE A = {}
      <4>1. A \in SUBSET Ss /\ Cardinality(A) <= 0
        BY DEF UpTo
      <4>2. Cardinality(A) \in Nat /\ (A # {} => Cardinality(A) # 0)
        BY <4>1, PickedFacts
      <4> QED
        BY <4>1, <4>2
    <3>2. DropsFrom(F, x, UpTo(Ss, 0))
        BY <3>1 DEF DropsFrom
    <3> QED
        BY <2>3, <3>2
  <2>4. CASE n # 0
    <3>1. n - 1 \in Nat /\ n - 1 \notin Bad
        BY <2>1, <2>2, <2>4
    <3>2. PICK G : DropsFrom(G, x, UpTo(Ss, n - 1))
        BY <3>1
    <3> DEFINE F == [A \in UpTo(Ss, n) |-> IF A = {} THEN x
                                           ELSE SessionDropped(G[A \ {Picked(A)}], Picked(A))]
    <3>3. ASSUME NEW A \in UpTo(Ss, n - 1) PROVE A \in UpTo(Ss, n)
      <4>1. A \in SUBSET Ss /\ Cardinality(A) <= n - 1
        BY DEF UpTo
      <4>2. Cardinality(A) \in Nat
        BY <4>1, PickedFacts
      <4> QED
        BY <2>2, <4>1, <4>2 DEF UpTo
    <3>4. ASSUME NEW A \in UpTo(Ss, n), A # {} PROVE A \ {Picked(A)} \in UpTo(Ss, n - 1)
      <4>1. A \in SUBSET Ss /\ Cardinality(A) <= n
        BY DEF UpTo
      <4>2. /\ Cardinality(A) \in Nat /\ A \ {Picked(A)} \in SUBSET Ss
            /\ Cardinality(A \ {Picked(A)}) = Cardinality(A) - 1
        BY <3>4, <4>1, PickedFacts
      <4>3. Cardinality(A \ {Picked(A)}) <= n - 1
        BY <2>2, <4>1, <4>2
      <4> QED
        BY <4>2, <4>3 DEF UpTo
    <3>5. \A A \in UpTo(Ss, n - 1) : F[A] = G[A]
        BY <3>2, <3>3 DEF DropsFrom
    <3>6. DropsFrom(F, x, UpTo(Ss, n))
      <4>1. \A A \in UpTo(Ss, n) : A # {} => F[A \ {Picked(A)}] = G[A \ {Picked(A)}]
        BY <3>4, <3>5
      <4> QED
        BY <4>1 DEF DropsFrom
    <3> QED
        BY <3>6
  <2> QED
    BY <2>3, <2>4
<1>2. Cardinality(Ss) \in Nat /\ UpTo(Ss, Cardinality(Ss)) = SUBSET Ss
    BY PickedFacts DEF UpTo
<1> QED
    BY <1>1, <1>2

(* What holds before and is kept by each drop holds in the end.            *)
LEMMA DropsStay ==
    ASSUME NEW x, NEW Ss, IsFiniteSet(Ss), NEW T, x \in T,
           \A z \in T, S \in Ss : SessionDropped(z, S) \in T
    PROVE  AfterDrops(x, Ss)[Ss] \in T
<1> DEFINE F == AfterDrops(x, Ss)
<1>1. DropsFrom(F, x, SUBSET Ss)
    BY DropsExist DEF AfterDrops
<1> HIDE DEF F
<1>2. \A A \in SUBSET Ss : F[A] = IF A = {} THEN x ELSE SessionDropped(F[A \ {Picked(A)}], Picked(A))
    BY <1>1 DEF DropsFrom
<1> DEFINE Bad == {n \in Nat : \E A \in SUBSET Ss : Cardinality(A) = n /\ F[A] \notin T}
<1>3. Bad = {}
  <2> SUFFICES ASSUME Bad # {} PROVE FALSE
    OBVIOUS
  <2>1. PICK n \in Bad : \A k \in Bad : n <= k
    <3>1. Bad \in SUBSET Nat
        OBVIOUS
    <3> HIDE DEF Bad
    <3> QED
        BY <3>1, LeastNumber
  <2>2. PICK A \in SUBSET Ss : Cardinality(A) = n /\ F[A] \notin T
    OBVIOUS
  <2>3. A # {}
    BY <1>2, <2>2
  <2> DEFINE B == A \ {Picked(A)}
  <2>4. Picked(A) \in Ss /\ B \in SUBSET Ss /\ Cardinality(B) = n - 1 /\ n \in Nat /\ n # 0
    BY <2>2, <2>3, PickedFacts
  <2>5. F[A] = SessionDropped(F[B], Picked(A))
    BY <1>2, <2>3
  <2> HIDE DEF B
  <2>6. n - 1 \in Nat /\ n - 1 \notin Bad
    BY <2>1, <2>4
  <2>7. F[B] \in T
    BY <2>4, <2>6
  <2> QED
    BY <2>2, <2>4, <2>5, <2>7
<1>4. Ss \in SUBSET Ss /\ Cardinality(Ss) \in Nat
    BY PickedFacts
<1>5. F[Ss] \in T
    BY <1>3, <1>4
<1> QED
    BY <1>5 DEF F

(* A proxy that is lost.                                                   *)
LEMMA BaseProxyLost ==
    ASSUME NEW x, NEW iss, NEW mk, NEW p \in Proxies, NEW kept \in SUBSET x.fe.live[p], Base(x, iss, mk)
    PROVE  Base(OnProxyLost(x, p, kept), iss, mk)
<1> DEFINE y == [x EXCEPT !.fe = FE!UnregisterProxy(x.fe, p, kept)]
           Ss == x.fe.owned[p]
           T == {z \in VocsStates : Base(z, iss, mk)}
<1>0. x.fe \in FE!FrontendStates /\ kept \in SUBSET Users /\ IsFiniteSet(Ss) /\ Ss \subseteq Users
    BY VocsTyping, FrontendTyping DEF Base, FiniteTables
<1>1. Base(y, iss, mk)
    BY <1>0, BaseProxyConnection
<1>2. OnProxyLost(x, p, kept) = AfterDrops(y, Ss)[Ss]
    BY LostIsIteration
<1> HIDE DEF y, Ss
<1>3. y \in T
    BY <1>1 DEF Base
<1>4. \A z \in T, S \in Ss : SessionDropped(z, S) \in T
  <2> SUFFICES ASSUME NEW z \in T, NEW S \in Ss PROVE SessionDropped(z, S) \in T
    OBVIOUS
  <2>1. Base(SessionDropped(z, S), iss, mk)
    BY <1>0, BaseCompleted
  <2> QED
    BY <2>1 DEF Base
<1> HIDE DEF T
<1>5. AfterDrops(y, Ss)[Ss] \in T
    BY <1>0, <1>3, <1>4, DropsStay
<1> QED
    BY <1>2, <1>5 DEF T

-----------------------------------------------------------------------------
(* The base invariant from the first state on.                             *)

(* Nothing is stored or under way, and no session is known but to proxies. *)
Fresher(y) ==
    /\ y \in VocsStates /\ y.async = {} /\ y.ldap = {} /\ y.owed = {} /\ y.parts = {}
    /\ y.up = [c \in Clients |-> FALSE] /\ y.conn = [c \in Clients |-> NoData]
    /\ y.sess = [S \in Users |-> NoSocket] /\ y.ready = [c \in Clients |-> 0]
    /\ y.be = BackendInit /\ y.fe.wire = [p \in Proxies |-> <<>>]
    /\ y.fe.owned = [p \in Proxies |-> {}] /\ y.fe.home = [S \in Users |-> NoSocket]
    /\ y.fe.open = [p \in Proxies |-> FALSE]

(* The initial state of the backend.                                       *)
LEMMA BackendInitFields ==
    /\ BackendInit \in BackendStates /\ BackendInit.slot = [s \in Sockets |-> Closed]
    /\ BackendInit.users = [S \in Users |-> NoSlot] /\ BackendInit.cbs = {}
    /\ BackendInit.wire = [s \in Sockets |-> <<>>] /\ BackendInit.mix = [s \in Sockets |-> Idle]
<1>1. <<>> \in Seq(Messages) /\ Idle \in [name : Users \cup {None}, loops : SUBSET Loops]
    BY DEF Idle
<1> QED
    BY <1>1 DEF BackendInit, EmptyRegistry, BackendStates

(* The service that is started, for the first time or again.               *)
LEMMA StartFields ==
    ASSUME NEW x, NEW kept
    PROVE  /\ Fresher(VocsInit) /\ VocsInit.fe.live = [p \in Proxies |-> {}]
           /\ VocsInit.fe.talk = [S \in Users |-> {}]
           /\ x \in VocsStates /\ kept \in [Proxies -> SUBSET Users] =>
                LET y == OnProxyUpdateRefused(x, kept) IN
                Fresher(y) /\ y.fe.live = kept /\ y.fe.talk = x.fe.talk
<1> DEFINE i == FE!FrontendInit
           g == [i EXCEPT !.live = kept, !.talk = x.fe.talk]
           y == OnProxyUpdateRefused(x, kept)
<1>1. /\ i \in FE!FrontendStates /\ i.wire = [p \in Proxies |-> <<>>] /\ i.owned = [p \in Proxies |-> {}]
      /\ i.home = [S \in Users |-> NoSocket] /\ i.open = [p \in Proxies |-> FALSE]
      /\ i.live = [p \in Proxies |-> {}] /\ i.talk = [S \in Users |-> {}]
  <2>1. <<>> \in Seq(FE!ProxyMessages)
    OBVIOUS
  <2> QED
    BY <2>1 DEF FE!FrontendInit, FE!FrontendStates, FE!NoProxy, NoSocket
<1> HIDE DEF i
<1>2. BackendInit \in BackendStates /\ NoData \in Conns
    BY BackendInitFields, NoDataType
<1>3. Fresher(VocsInit) /\ VocsInit.fe = i
    BY <1>1, <1>2 DEF VocsInit, VocsStates, Fresher, i
<1>4. ASSUME x \in VocsStates, kept \in [Proxies -> SUBSET Users]
      PROVE  Fresher(y) /\ y.fe.live = kept /\ y.fe.talk = x.fe.talk
  <2>1. x.fe.talk \in [Users -> SUBSET Loops]
    BY <1>4, VocsTyping, FrontendTyping
  <2>2. /\ g \in FE!FrontendStates /\ g.wire = i.wire /\ g.owned = i.owned /\ g.home = i.home
        /\ g.open = i.open /\ g.live = kept /\ g.talk = x.fe.talk
    BY <1>1, <1>4, <2>1 DEF FE!FrontendStates
  <2>3. y = [VocsInit EXCEPT !.fe = g]
    BY <1>3 DEF OnProxyUpdateRefused
  <2> HIDE DEF g
  <2>4. y \in VocsStates /\ y.fe = g /\ ButFe(VocsInit, y)
    BY <1>3, <2>2, <2>3, WithFe DEF Fresher
  <2> HIDE DEF y
  <2> QED
    BY <1>1, <1>3, <2>2, <2>4 DEF Fresher, ButFe
<1> QED
    BY <1>1, <1>3, <1>4

(* It has the base invariant if the proxies have kept what they may.       *)
LEMMA BaseFresher ==
    ASSUME NEW y, NEW iss \in SUBSET ClientReqs, NEW mk \in SUBSET Users, Fresher(y),
           \A S \in Users : \A l \in y.fe.talk[S] : Permission[l] = "send",
           \A S \in Users \ mk : y.fe.talk[S] = {},
           \A S \in Users \ mk, p \in Proxies : S \notin y.fe.live[p]
    PROVE  Base(y, iss, mk)
<1>1. \A s \in Sockets : y.be.wire[s] = <<>> /\ y.be.slot[s] = Closed /\ y.be.mix[s].loops = {}
    BY BackendInitFields DEF Fresher, Idle
<1>2. \A p \in Proxies : y.fe.wire[p] = <<>> /\ y.fe.owned[p] = {}
    BY DEF Fresher
<1>3. \A s \in Sockets : In(y.be.wire[s]) = {} /\ Once(y.be.wire[s])
    BY <1>1, EmptyQueue DEF Once
<1>4. \A p \in Proxies : In(y.fe.wire[p]) = {} /\ Once(y.fe.wire[p])
    BY <1>2, EmptyQueue DEF Once
<1>5. Tokens(y.be.wire, y.fe.wire)
    BY <1>3, <1>4 DEF Tokens, Apart
<1>6. FiniteTables(y.fe)
    BY <1>2, FS_EmptySet DEF FiniteTables
<1>7. ASSUME NEW S \in Users \ mk PROVE Unknown(y, S)
  <2>1. \A c \in Clients : y.conn[c].session # S
    BY NoDataType, NoneAssumption DEF Fresher
  <2>2. y.be.users[S] = NoSlot /\ \A s \in Sockets : y.be.slot[s] # S
    BY <1>1, BackendInitFields, SlotStatesAssumption DEF Fresher
  <2> QED
    BY <1>2, <2>1, <2>2 DEF Unknown, Fresher
<1>8. BeMeant(y.be.wire, y.async, iss, mk) /\ AcquireOnce(y.be.wire)
    BY <1>3 DEF BeMeant, AcquireOnce
<1>9. FeMeant(y.fe.wire, y.async, y.ldap, iss, mk)
    BY <1>4 DEF FeMeant
<1>10. Stored(y.async, y.ldap, iss) /\ Permitted(y.be, y.fe) /\ y \in VocsStates
    BY <1>1 DEF Stored, Permitted, Fresher
<1> QED
    BY <1>5, <1>6, <1>7, <1>8, <1>9, <1>10 DEF Base

(* A client connects.                                                      *)
LEMMA BaseConnect ==
    ASSUME NEW x, NEW iss, NEW mk, NEW c \in Clients, Base(x, iss, mk)
    PROVE  Base([x EXCEPT !.up[c] = TRUE], iss, mk)
<1> DEFINE y == [x EXCEPT !.up[c] = TRUE]
<1>1. x \in VocsStates
    BY DEF Base
<1>2. Kept(x, y) /\ y.async \subseteq x.async /\ y.ldap \subseteq x.ldap
    BY <1>1 DEF Kept, VocsStates
<1> HIDE DEF y
<1>3. Base(y, iss, mk)
    BY <1>2, BasePlain
<1> QED
    BY <1>3 DEF y

(* A request that is too old, and a callback that is.                      *)
LEMMA BaseTimeouts ==
    ASSUME NEW x, NEW iss, NEW mk, NEW r \in Reqs, Base(x, iss, mk)
    PROVE  /\ AsyncHas(x, r) => Base(AsyncTimedout(x, r), iss, mk)
           /\ Base([x EXCEPT !.be = UnregisterCallback(x.be, r)], iss, mk)
<1>0. x \in VocsStates /\ x.be \in BackendStates
    BY VocsTyping DEF Base
<1>1. ASSUME AsyncHas(x, r) PROVE Base(AsyncTimedout(x, r), iss, mk)
  <2> DEFINE c == AsyncGet(x, r).sock
             y == Respond(AsyncUnset(x, r), r, c)
  <2>1. c \in Clients
    BY <1>0, <1>1, AsyncFound
  <2>2. Base(y, iss, mk)
    BY BaseTaken
  <2>3. AsyncTimedout(x, r) = DropLocked(y, c, TRUE, TRUE)
    BY DEF AsyncTimedout
  <2> HIDE DEF c, y
  <2> QED
    BY <2>1, <2>2, <2>3, BaseDropConnection
<1>2. Base([x EXCEPT !.be = UnregisterCallback(x.be, r)], iss, mk)
  <2> DEFINE g == UnregisterCallback(x.be, r)
             y == [x EXCEPT !.be = g]
  <2>1. g \in BackendStates /\ g.slot = x.be.slot /\ g.users = x.be.users /\ g.wire = x.be.wire /\ g.mix = x.be.mix
    BY <1>0, CallbackFields
  <2> HIDE DEF g
  <2>2. y \in VocsStates /\ y.be = g /\ ButBe(x, y)
    BY <1>0, <2>1, WithBe
  <2> HIDE DEF y
  <2>3. OtherBackend(x, y, mk) /\ y.be.wire = x.be.wire
    BY <2>1, <2>2 DEF OtherBackend
  <2>4. Base(y, iss, mk)
    BY <2>3, BaseCallbacks
  <2> QED
    BY <2>4 DEF y, g
<1> QED
    BY <1>1, <1>2

(* The service fails and is started again.                                 *)
LEMMA BaseRestart ==
    ASSUME NEW x, NEW iss, NEW mk, NEW kept \in [Proxies -> SUBSET Users], Base(x, iss, mk),
           \A q \in Proxies : kept[q] \subseteq x.fe.live[q]
    PROVE  Base(OnProxyUpdateRefused(x, kept), iss, mk)
<1> DEFINE y == OnProxyUpdateRefused(x, kept)
<1>0. x \in VocsStates /\ iss \in SUBSET ClientReqs /\ mk \in SUBSET Users /\ Permitted(x.be, x.fe)
    BY DEF Base
<1>1. Fresher(y) /\ y.fe.live = kept /\ y.fe.talk = x.fe.talk
    BY <1>0, StartFields
<1> HIDE DEF y
<1>2. \A S \in Users : \A l \in y.fe.talk[S] : Permission[l] = "send"
    BY <1>0, <1>1 DEF Permitted
<1>3. \A S \in Users \ mk : y.fe.talk[S] = {}
    BY <1>1 DEF Base, Unknown
<1>4. \A S \in Users \ mk, p \in Proxies : S \notin y.fe.live[p]
    BY <1>1 DEF Base, Unknown
<1>5. Base(y, iss, mk)
    BY <1>0, <1>1, <1>2, <1>3, <1>4, BaseFresher
<1> QED
    BY <1>5 DEF y

(* The base invariant of the specification.                                *)
BaseInv == Base(v, issued, made) /\ stranded \subseteq Users

(* It holds at first.                                                      *)
LEMMA BaseInit == Init => BaseInv
<1> SUFFICES ASSUME Init PROVE BaseInv
    OBVIOUS
<1>1. /\ Fresher(VocsInit) /\ VocsInit.fe.live = [p \in Proxies |-> {}]
      /\ VocsInit.fe.talk = [S \in Users |-> {}]
    BY StartFields
<1>2. Fresher(v) /\ v.fe.live = [p \in Proxies |-> {}] /\ v.fe.talk = [S \in Users |-> {}]
    BY <1>1 DEF Init
<1>3. /\ \A S \in Users : v.fe.talk[S] = {}
      /\ \A S \in Users, p \in Proxies : S \notin v.fe.live[p]
    BY <1>2
<1>4. issued \in SUBSET ClientReqs /\ made \in SUBSET Users /\ stranded \subseteq Users
    BY DEF Init
<1>5. Base(v, issued, made)
    BY <1>2, <1>3, <1>4, BaseFresher
<1> QED
    BY <1>4, <1>5 DEF BaseInv

(* A request of a client uses a new uuid.                                  *)
LEMMA BaseRequests ==
    ASSUME BaseInv, NEW r \in Reqs, NEW c \in Clients,
           \/ LoginLdap(r, c) \/ Media(r, c) \/ \E l \in Loops : SwitchLoopVolume(r, c, l)
           \/ \E l \in Loops, want \in Wants : SwitchLoopState(r, c, l, want)
           \/ \E op \in Signals : Signal(op, r, c)
    PROVE  BaseInv'
<1> DEFINE iss == issued \cup {r}
<1>1. r \in ClientReqs \ issued /\ issued' = iss /\ made' = made /\ stranded' = stranded
    BY DEF LoginLdap, Media, SwitchLoopVolume, SwitchLoopState, Signal, Request
<1>2. Base(v, iss, made) /\ Fresh(v, r) /\ r \in iss
    BY <1>1, BaseFresh DEF BaseInv
<1> HIDE DEF iss
<1>3. CASE LoginLdap(r, c)
  <2>1. v' = ClientLoginLdap(v, r, c)
    BY <1>3 DEF LoginLdap, Request
  <2>2. Base(v', iss, made)
    BY <1>2, <2>1, BaseLoginLdap
  <2> QED
    BY <1>1, <2>2 DEF BaseInv
<1>4. CASE Media(r, c)
  <2>1. v' = ClientMedia(v, r, c)
    BY <1>4 DEF Media, Request
  <2>2. Base(v', iss, made)
    BY <1>2, <2>1, BaseMedia
  <2> QED
    BY <1>1, <2>2 DEF BaseInv
<1>5. ASSUME NEW l \in Loops, SwitchLoopVolume(r, c, l) PROVE BaseInv'
  <2>1. v' = ClientSwitchLoopVolume(v, r, c, l)
    BY <1>5 DEF SwitchLoopVolume, Request
  <2>2. Base(v', iss, made)
    BY <1>2, <2>1, BaseVolume
  <2> QED
    BY <1>1, <2>2 DEF BaseInv
<1>6. ASSUME NEW l \in Loops, NEW want \in Wants, SwitchLoopState(r, c, l, want) PROVE BaseInv'
  <2>1. v' = ClientSwitchLoopState(v, r, c, l, want) /\ want \in LoopStates
    BY <1>6, SwitchesAssumption DEF SwitchLoopState, Request
  <2>2. Base(v', iss, made)
    BY <1>2, <2>1, BaseSwitch
  <2> QED
    BY <1>1, <2>2 DEF BaseInv
<1>7. ASSUME NEW op \in Signals, Signal(op, r, c) PROVE BaseInv'
  <2>1. v' \in {ClientUpdate(v, r, c), ClientCandidate(v, r, c)}
    BY <1>7 DEF Signal, Request
  <2>2. Base(v', iss, made)
    BY <1>2, <2>1, BaseSignal
  <2> QED
    BY <1>1, <2>2 DEF BaseInv
<1> QED
    BY <1>3, <1>4, <1>5, <1>6, <1>7

(* Every step keeps it, one case for each action.                          *)
LEMMA BaseStep == BaseInv /\ [Next]_vars => BaseInv'
<1> SUFFICES ASSUME BaseInv, [Next]_vars PROVE BaseInv'
    OBVIOUS
<1>0. Base(v, issued, made) /\ stranded \subseteq Users /\ v \in VocsStates /\ made \subseteq Users
    BY DEF BaseInv, Base
<1>1. ASSUME NEW c \in Clients, Connect(c) PROVE BaseInv'
    BY <1>0, <1>1, BaseConnect DEF Connect, BaseInv
<1>2. ASSUME NEW c \in Clients, Disconnect(c) PROVE BaseInv'
    BY <1>0, <1>2, BaseLogin DEF Disconnect, BaseInv
<1>3. ASSUME NEW c \in Clients, Login(c) PROVE BaseInv'
    BY <1>0, <1>3, BaseLogin DEF Login, Send, BaseInv
<1>4. ASSUME NEW r \in Reqs, LdapAnswers(r) PROVE BaseInv'
    BY <1>0, <1>4, BaseLdapAnswer DEF LdapAnswers, BaseInv
<1>5. ASSUME NEW c \in Clients, Authorize(c) PROVE BaseInv'
    BY <1>0, <1>5, BaseLogin DEF Authorize, Send, BaseInv
<1>6. ASSUME NEW c \in Clients, Logout(c) PROVE BaseInv'
    BY <1>0, <1>6, BaseLogin DEF Logout, Send, BaseInv
<1>7. ASSUME NEW s \in Sockets, MixerConnect(s) PROVE BaseInv'
    BY <1>0, <1>7, BaseMixerConnection DEF MixerConnect, BaseInv
<1>8. ASSUME NEW s \in Sockets, MixerClose(s) PROVE BaseInv'
    BY <1>0, <1>8, BaseMixerClose DEF MixerClose, BaseInv
<1>9. ASSUME NEW s \in Sockets, MixerAnswers(s) PROVE BaseInv'
    BY <1>0, <1>9, BaseMixerAnswer DEF MixerAnswers, BaseInv
<1>10. ASSUME NEW p \in Proxies, ProxyConnect(p) PROVE BaseInv'
  <2>1. {} \in SUBSET Users /\ {} \subseteq v.fe.live[p]
    OBVIOUS
  <2> QED
    BY <1>0, <1>10, <2>1, BaseProxyConnection DEF ProxyConnect, BaseInv
<1>11. ASSUME NEW p \in Proxies, ProxyLost(p) PROVE BaseInv'
  <2>1. PICK kept \in SUBSET v.fe.live[p] : v' = OnProxyLost(v, p, kept) /\ stranded' = stranded \cup kept
    BY <1>11 DEF ProxyLost
  <2>2. v.fe.live[p] \subseteq Users
    BY <1>0, VocsTyping, FrontendTyping
  <2>3. Base(v', issued, made)
    BY <1>0, <2>1, BaseProxyLost
  <2> QED
    BY <1>0, <1>11, <2>1, <2>2, <2>3 DEF ProxyLost, BaseInv
<1>12. ASSUME NEW p \in Proxies, NEW S \in Users, ProxyCreates(p, S) PROVE BaseInv'
    BY <1>0, <1>12, BaseProxyCreated DEF ProxyCreates, BaseInv
<1>13. ASSUME NEW p \in Proxies, ProxyRefuses(p) PROVE BaseInv'
    BY <1>0, <1>13, BaseProxyMore DEF ProxyRefuses, BaseInv
<1>14. ASSUME NEW p \in Proxies, ProxyAnswers(p) PROVE BaseInv'
    BY <1>0, <1>14, BaseProxyAnswer DEF ProxyAnswers, BaseInv
<1>15. ASSUME NEW p \in Proxies, ProxyUpdates(p) PROVE BaseInv'
    BY <1>0, <1>15, BaseProxyMore DEF ProxyUpdates, ProxySays, BaseInv
<1>16. ASSUME NEW p \in Proxies, ProxyUpdateRefused(p) PROVE BaseInv'
  <2>1. PICK kept \in [Proxies -> SUBSET Users] :
            /\ \A q \in Proxies : kept[q] \subseteq v.fe.live[q]
            /\ v' = OnProxyUpdateRefused(v, kept)
            /\ stranded' = stranded \cup UNION {kept[q] : q \in Proxies}
    BY <1>16 DEF ProxyUpdateRefused
  <2>2. UNION {kept[q] : q \in Proxies} \subseteq Users
    OBVIOUS
  <2>3. Base(v', issued, made)
    BY <1>0, <2>1, BaseRestart
  <2> QED
    BY <1>0, <1>16, <2>1, <2>2, <2>3 DEF ProxyUpdateRefused, BaseInv
<1>17. ASSUME NEW p \in Proxies, ProxyCandidate(p) PROVE BaseInv'
  <2>1. PICK ok \in FE!SignalResults(v.fe, p) : v' = OnProxyCandidate(v, p, ok)
    BY <1>17 DEF ProxyCandidate
  <2>2. ok \in BOOLEAN
    BY <2>1 DEF FE!SignalResults
  <2> QED
    BY <1>0, <1>17, <2>1, <2>2, BaseProxyMore DEF ProxyCandidate, ProxySays, BaseInv
<1>18. ASSUME NEW p \in Proxies, NEW S \in Users, IceCompletes(p, S) PROVE BaseInv'
    BY <1>0, <1>18, BaseCompleted DEF IceCompletes, BaseInv
<1>19. ASSUME NEW p \in Proxies, NEW S \in Users, IceFails(p, S) PROVE BaseInv'
  <2>1. S \in made
    BY <1>0, <1>19 DEF IceFails, Base, Unknown
  <2> QED
    BY <1>0, <1>19, <2>1, BaseProxyMore DEF IceFails, BaseInv
<1>20. ASSUME NEW r \in Reqs, Timeout(r) PROVE BaseInv'
    BY <1>0, <1>20, BaseTimeouts DEF Timeout, BaseInv
<1>21. ASSUME NEW r \in Reqs, CallbackExpires(r) PROVE BaseInv'
    BY <1>0, <1>21, BaseTimeouts DEF CallbackExpires, BaseInv
<1>22. CASE UNCHANGED vars
    BY <1>22 DEF vars, BaseInv
<1>23. CASE Next
    BY <1>1, <1>2, <1>3, <1>4, <1>5, <1>6, <1>7, <1>8, <1>9, <1>10, <1>11, <1>12, <1>13, <1>14, <1>15,
       <1>16, <1>17, <1>18, <1>19, <1>20, <1>21, <1>23, BaseRequests DEF Next
<1> QED
    BY <1>22, <1>23

(* The base invariant of every behaviour.                                  *)
LEMMA BaseAlways == Spec => []BaseInv
    BY BaseInit, BaseStep, PTL DEF Spec

(* Every field of the service's state keeps its type: what handlers store  *)
(* and send, in whichever order clients, mixers, proxies, LDAP and timers  *)
(* make them run, is never read as something else.                         *)
THEOREM VocsTypeOK == Spec => []TypeOK
<1>1. BaseInv => TypeOK
    BY DEF BaseInv, Base, TypeOK
<1> QED
    BY <1>1, BaseAlways, PTL

(* Nobody hears or speaks without permission, whatever clients send and    *)
(* whatever is lost or late: the permission that client_switch_loop_state  *)
(* looks at once holds for the join and the talk that follow from it.      *)
THEOREM NobodyUnpermitted == Spec => []AudioPermitted
<1>1. BaseInv => AudioPermitted
    BY DEF BaseInv, Base, Permitted, AudioPermitted
<1> QED
    BY <1>1, BaseAlways, PTL
-----------------------------------------------------------------------------
(* Sessions: what the dictionary, the connections and the client know of   *)
(* them.                                                                   *)

Bound(x) == \A S \in Users, c \in Clients : (x.sess[S] = c) <=> (x.conn[c].session = S)

(* A session is asked for on behalf of entry e.                            *)
CreateAwaited(x, e) ==
    e \in x.async /\ \E p \in Proxies : \E m \in In(x.fe.wire[p]) : m.op = "create" /\ m.id = e.id

(* Who waits for a session has none and waits for one only.                *)
Creating(x) ==
    \A e \in x.async : CreateAwaited(x, e) =>
        /\ x.conn[e.sock].session = None
        /\ \A g \in x.async : CreateAwaited(x, g) /\ g.sock = e.sock => g = e

MediaTold(x) ==
    \A c \in Clients :
        /\ x.ready[c] = IF x.conn[c].ice /\ x.conn[c].mixer THEN 1 ELSE 0
        /\ x.conn[c].session = None => ~x.conn[c].ice /\ ~x.conn[c].mixer

(* While its mixer is asked for a client has none.                         *)
Acquiring(x) ==
    \A s \in Sockets : \A m \in In(x.be.wire[s]) :
        m.op = "acquire" /\ x.sess[m.user] # NoSocket => ~x.conn[x.sess[m.user]].mixer

Sess(x) == x \in VocsStates /\ Bound(x) /\ Creating(x) /\ MediaTold(x) /\ Acquiring(x)

-----------------------------------------------------------------------------
(* Steps that change nothing it speaks of.                                 *)

(* No request to create in Z is new, no request to acquire in Z is new.    *)
NoNewCreate(V, Z) ==
    \A p \in Proxies : \A m \in In(Z[p]) : m.op = "create" => \E q \in Proxies : m \in In(V[q])

NoNewAcquire(W, Z) ==
    \A s \in Sockets : \A m \in In(Z[s]) : m.op = "acquire" => \E t \in Sockets : m \in In(W[t])

(* The sessions, and what is known about their media, are the same.        *)
SameMedia(x, y) ==
    /\ y.sess = x.sess /\ y.ready = x.ready
    /\ \A c \in Clients : /\ y.conn[c].session = x.conn[c].session
                          /\ y.conn[c].ice = x.conn[c].ice /\ y.conn[c].mixer = x.conn[c].mixer

Calm(x, y) ==
    /\ y \in VocsStates /\ SameMedia(x, y)
    /\ \A e : CreateAwaited(y, e) => CreateAwaited(x, e)
    /\ NoNewAcquire(x.be.wire, y.be.wire)

(* Such a step keeps the invariant.                                        *)
LEMMA SessCalm ==
    ASSUME NEW x, NEW y, Sess(x), Calm(x, y)
    PROVE  Sess(y)
<1>0. x \in VocsStates /\ y \in VocsStates
    BY DEF Sess, Calm
<1>1. Bound(y)
    BY DEF Sess, Bound, Calm, SameMedia
<1>2. Creating(y)
  <2> SUFFICES ASSUME NEW e \in y.async, CreateAwaited(y, e)
               PROVE  /\ y.conn[e.sock].session = None
                      /\ \A g \in y.async : CreateAwaited(y, g) /\ g.sock = e.sock => g = e
    BY DEF Creating
  <2>1. CreateAwaited(x, e) /\ \A g : CreateAwaited(y, g) => CreateAwaited(x, g)
    BY DEF Calm
  <2>2. e \in x.async /\ \A g : CreateAwaited(y, g) => g \in x.async
    BY <2>1 DEF CreateAwaited
  <2>3. e.sock \in Clients
    BY <1>0, <2>2, VocsTyping DEF Entries
  <2> QED
    BY <2>1, <2>2, <2>3 DEF Sess, Creating, Calm, SameMedia
<1>3. MediaTold(y)
    BY DEF Sess, MediaTold, Calm, SameMedia
<1>4. Acquiring(y)
  <2> SUFFICES ASSUME NEW s \in Sockets, NEW m \in In(y.be.wire[s]), m.op = "acquire",
                      y.sess[m.user] # NoSocket
               PROVE  ~y.conn[y.sess[m.user]].mixer
    BY DEF Acquiring
  <2>1. PICK t \in Sockets : m \in In(x.be.wire[t])
    BY DEF Calm, NoNewAcquire
  <2>2. m \in Messages
    BY <1>0, <2>1, VocsTyping, BackendTyping, QueueFacts
  <2>3. y.sess = x.sess /\ x.sess[m.user] \in Clients
    BY <1>0, <2>2, VocsTyping DEF Calm, SameMedia, Messages
  <2> QED
    BY <2>1, <2>3 DEF Sess, Acquiring, Calm, SameMedia
<1> QED
    BY <1>0, <1>1, <1>2, <1>3, <1>4 DEF Sess

(* Frontend, backend and store as they were.                               *)
LEMMA AwaitedStill ==
    ASSUME NEW x, NEW y, y.async \subseteq x.async, NoNewCreate(x.fe.wire, y.fe.wire)
    PROVE  \A e : CreateAwaited(y, e) => CreateAwaited(x, e)
    BY DEF CreateAwaited, NoNewCreate

(* The same queues.                                                        *)
LEMMA NothingNew ==
    \A V : NoNewCreate(V, V) /\ NoNewAcquire(V, V)
    BY DEF NoNewCreate, NoNewAcquire

(* Nothing but bookkeeping.                                                *)
LEMMA SessPlain ==
    ASSUME NEW x, NEW y, Sess(x), y \in VocsStates, SameMedia(x, y), y.async \subseteq x.async,
           y.be = x.be, y.fe = x.fe
    PROVE  Sess(y)
<1>1. Calm(x, y)
    BY NothingNew, AwaitedStill DEF Calm
<1> QED
    BY <1>1, SessCalm

(* The store, and marks at a connection.                                   *)
LEMMA SessStore ==
    ASSUME NEW x, NEW r, NEW c, Sess(x)
    PROVE  /\ Sess(AsyncUnset(x, r)) /\ Sess(Respond(x, r, c)) /\ Sess(Respond(AsyncUnset(x, r), r, c))
           /\ c \in Clients => Sess(Authenticated(x, c)) /\ Sess([x EXCEPT !.conn[c].role = TRUE])
<1>0. x \in VocsStates
    BY DEF Sess
<1>1. \A y : ButStore(x, y) /\ y.async \subseteq x.async => Sess(y)
    BY SessPlain DEF ButStore, SameMedia
<1>2. Taken(x, AsyncUnset(x, r), r) /\ Settled(x, Respond(AsyncUnset(x, r), r, c), r, c)
    BY <1>0, TakenFields
<1>3. ButStore(x, Respond(x, r, c)) /\ Respond(x, r, c).async = x.async
    BY <1>0 DEF ButStore, Respond, VocsStates
<1>4. ASSUME c \in Clients PROVE Sess(Authenticated(x, c)) /\ Sess([x EXCEPT !.conn[c].role = TRUE])
  <2> DEFINE y == Authenticated(x, c)
             z == [x EXCEPT !.conn[c].role = TRUE]
  <2>1. /\ ButConn(x, y) /\ y.conn = [x.conn EXCEPT ![c] = [x.conn[c] EXCEPT !.user = TRUE]]
        /\ ButConn(x, z) /\ z.conn = [x.conn EXCEPT ![c] = [x.conn[c] EXCEPT !.role = TRUE]]
    BY <1>0, <1>4, MarkedFields
  <2> HIDE DEF y, z
  <2>2. x.conn \in [Clients -> Conns]
    BY <1>0, VocsTyping
  <2>3. SameMedia(x, y) /\ SameMedia(x, z)
    BY <2>1, <2>2 DEF ButConn, SameMedia, Conns
  <2>4. Sess(y) /\ Sess(z)
    BY <2>1, <2>3, SessPlain DEF ButConn
  <2> QED
    BY <2>4 DEF y, z
<1> QED
    BY <1>1, <1>2, <1>3, <1>4 DEF Taken, Settled

(* A loop's state that is stored.                                          *)
LEMMA SessLoopSet ==
    ASSUME NEW x, NEW y, NEW c, NEW l, NEW st, Sess(x), c \in Clients, LoopSet(x, y, c, l, st)
    PROVE  Sess(y)
<1>0. x \in VocsStates /\ x.conn \in [Clients -> Conns]
    BY VocsTyping DEF Sess
<1>1. SameMedia(x, y)
    BY <1>0 DEF SameMedia, LoopSet, WithLoop, Conns
<1> QED
    BY <1>1, SessPlain DEF LoopSet

(* No request to create has uuid r.                                        *)
Unmade(V, r) == \A p \in Proxies : \A m \in In(V[p]) : m.op = "create" => m.id # r

(* A request that is stored, other than for a session.                     *)
LEMMA SessSet ==
    ASSUME NEW x, NEW e \in Entries, Sess(x), Unmade(x.fe.wire, e.id)
    PROVE  Sess(AsyncSet(x, e)) /\ Sess(AsyncSet(Owe(x, e.id, e.sock), e))
<1>0. x \in VocsStates
    BY DEF Sess
<1>1. \A y : ButStore(x, y) /\ y.async = x.async \cup {e} => Calm(x, y)
  <2> SUFFICES ASSUME NEW y, ButStore(x, y), y.async = x.async \cup {e} PROVE Calm(x, y)
    OBVIOUS
  <2>1. SameMedia(x, y) /\ y.fe = x.fe /\ y.be = x.be
    BY DEF ButStore, SameMedia
  <2>2. ASSUME NEW g, CreateAwaited(y, g) PROVE CreateAwaited(x, g)
    BY <2>1, <2>2 DEF CreateAwaited, Unmade
  <2> QED
    BY <2>1, <2>2, NothingNew DEF Calm, ButStore
<1>2. /\ Asked(x, AsyncSet(Owe(x, e.id, e.sock), e), e)
      /\ ButStore(x, AsyncSet(x, e)) /\ AsyncSet(x, e).async = x.async \cup {e}
    BY <1>0, AskedFields
<1> QED
    BY <1>1, <1>2, SessCalm DEF Asked

(* A step of the frontend.                                                 *)
LEMMA SessFe ==
    ASSUME NEW x, NEW f \in FE!FrontendStates, Sess(x), NoNewCreate(x.fe.wire, f.wire)
    PROVE  Sess([x EXCEPT !.fe = f]) /\ [x EXCEPT !.fe = f].fe = f /\ ButFe(x, [x EXCEPT !.fe = f])
<1> DEFINE y == [x EXCEPT !.fe = f]
<1>1. y \in VocsStates /\ y.fe = f /\ ButFe(x, y)
    BY WithFe DEF Sess
<1> HIDE DEF y
<1>2. Calm(x, y)
    BY <1>1, NothingNew, AwaitedStill DEF Calm, ButFe, SameMedia
<1>3. Sess(y)
    BY <1>2, SessCalm
<1> QED
    BY <1>1, <1>3 DEF y

(* A step of the backend.                                                  *)
LEMMA SessBe ==
    ASSUME NEW x, NEW b \in BackendStates, Sess(x), NoNewAcquire(x.be.wire, b.wire)
    PROVE  Sess([x EXCEPT !.be = b]) /\ [x EXCEPT !.be = b].be = b /\ ButBe(x, [x EXCEPT !.be = b])
<1> DEFINE y == [x EXCEPT !.be = b]
<1>1. y \in VocsStates /\ y.be = b /\ ButBe(x, y)
    BY WithBe DEF Sess
<1> HIDE DEF y
<1>2. Calm(x, y)
    BY <1>1, NothingNew, AwaitedStill DEF Calm, ButBe, SameMedia
<1>3. Sess(y)
    BY <1>2, SessCalm
<1> QED
    BY <1>1, <1>3 DEF y

-----------------------------------------------------------------------------
(* What is sent that is neither a request to create nor one to acquire.    *)

(* Steps of the queues may follow each other.                              *)
LEMMA NothingNewTwice ==
    ASSUME NEW U, NEW V, NEW Z
    PROVE  /\ NoNewCreate(U, V) /\ NoNewCreate(V, Z) => NoNewCreate(U, Z)
           /\ \A r : NoNewCreate(U, V) /\ Unmade(U, r) => Unmade(V, r)
<1>1. ASSUME NoNewCreate(U, V), NoNewCreate(V, Z) PROVE NoNewCreate(U, Z)
    BY <1>1 DEF NoNewCreate
<1>2. ASSUME NEW r, NoNewCreate(U, V), Unmade(U, r) PROVE Unmade(V, r)
    BY <1>2 DEF NoNewCreate, Unmade
<1> QED
    BY <1>1, <1>2

(* A message to the proxy of a session.                                    *)
LEMMA HomeNothingNew ==
    ASSUME NEW f \in FE!FrontendStates, NEW g, NEW S, NEW m \in FE!ProxyMessages,
           SentHome(f, g, S, m), m.op # "create"
    PROVE  NoNewCreate(f.wire, g.wire)
<1>1. AlsoHome(f, g, S, m)
    BY SentIn
<1> QED
    BY <1>1 DEF AlsoHome, NoNewCreate

(* A message to the mixer of a session.                                    *)
LEMMA MixerNothingNew ==
    ASSUME NEW b \in BackendStates, NEW g, NEW S, NEW m \in Messages, SentToMixer(b, g, S, m),
           m.op # "acquire"
    PROVE  NoNewAcquire(b.wire, g.wire)
<1>1. AlsoAtMixer(b, g, S, m)
    BY SentInMixer
<1> QED
    BY <1>1 DEF AlsoAtMixer, NoNewAcquire

(* The end of a session at its proxy and its mixer.                        *)
LEMMA EndNothingNew ==
    ASSUME NEW S \in Users
    PROVE  /\ \A f \in FE!FrontendStates : /\ FE!DropSession(f, S) \in FE!FrontendStates
                                           /\ NoNewCreate(f.wire, FE!DropSession(f, S).wire)
           /\ \A b \in BackendStates : /\ ReleaseMixer(b, S, S) \in BackendStates
                                       /\ NoNewAcquire(b.wire, ReleaseMixer(b, S, S).wire)
<1>1. ASSUME NEW f \in FE!FrontendStates
      PROVE  /\ FE!DropSession(f, S) \in FE!FrontendStates
             /\ NoNewCreate(f.wire, FE!DropSession(f, S).wire)
  <2>1. /\ SentHome(f, FE!DropSession(f, S), S, DropMessage(S))
        /\ DropMessage(S) \in FE!ProxyMessages /\ DropMessage(S).op = "drop"
    BY DropSessionFields
  <2> QED
    BY <2>1, HomeNothingNew DEF SentHome
<1>2. ASSUME NEW b \in BackendStates
      PROVE  /\ ReleaseMixer(b, S, S) \in BackendStates
             /\ NoNewAcquire(b.wire, ReleaseMixer(b, S, S).wire)
  <2> DEFINE g == ReleaseMixer(b, S, S)
  <2>1. /\ g \in BackendStates /\ (HasMixer(b, S) => b.users[S] \in Sockets)
        /\ g.wire = IF HasMixer(b, S)
                    THEN [b.wire EXCEPT ![b.users[S]] = Append(@, Message("release", S, S, None))]
                    ELSE b.wire
    BY ReleaseMixerFields
  <2>2. b.wire \in [Sockets -> Seq(Messages)]
    BY BackendTyping
  <2>3. Message("release", S, S, None) \in Messages /\ Message("release", S, S, None).op = "release"
    BY ReleaseIdsAssumption, MessageType DEF BackendOps
  <2> HIDE DEF g
  <2>4. \A t \in Sockets : \A m \in In(g.wire[t]) : m \in In(b.wire[t]) \/ m.op = "release"
    BY <2>1, <2>2, <2>3, QueueFacts
  <2>5. NoNewAcquire(b.wire, g.wire)
    BY <2>4 DEF NoNewAcquire
  <2> QED
    BY <2>1, <2>5 DEF g
<1> QED
    BY <1>1, <1>2

-----------------------------------------------------------------------------
(* Connections that end.                                                   *)

(* What a dropped connection leaves behind agrees.                         *)
LEMMA SessDrop ==
    ASSUME NEW x, NEW y, NEW c \in Clients, NEW frontend \in BOOLEAN, NEW backend \in BOOLEAN,
           Sess(x), Dropped(x, y, c, frontend, backend), y.async \subseteq x.async
    PROVE  Sess(y)
<1> DEFINE S == x.conn[c].session
<1>0. x \in VocsStates /\ y \in VocsStates
    BY DEF Sess, Dropped
<1>1. /\ x.conn \in [Clients -> Conns] /\ x.sess \in [Users -> Clients \cup {NoSocket}]
      /\ x.be \in BackendStates /\ x.fe \in FE!FrontendStates /\ x.async \subseteq Entries
      /\ x.ready \in [Clients -> Nat] /\ NoSocket \notin Clients
    BY <1>0, VocsTyping
<1>2. S \in Users \cup {None} /\ None \notin Users
    BY <1>1, FrontendTyping DEF Conns
<1>3. /\ y.conn = [x.conn EXCEPT ![c] = NoData] /\ y.ready = [x.ready EXCEPT ![c] = 0]
      /\ y.sess = IF S = None THEN x.sess ELSE [x.sess EXCEPT ![S] = NoSocket]
      /\ y.be = IF S # None /\ backend THEN ReleaseMixer(x.be, S, S) ELSE x.be
      /\ FeDropped(x.fe, y.fe, S, frontend)
    BY DEF Dropped
<1>4. Bound(x) /\ Creating(x) /\ MediaTold(x) /\ Acquiring(x)
    BY DEF Sess
<1> HIDE DEF S
<1>5. NoNewCreate(x.fe.wire, y.fe.wire)
  <2>1. CASE y.fe = x.fe
    BY <2>1, NothingNew
  <2>2. CASE S \in Users
    <3>1. /\ FE!DropSession(x.fe, S) \in FE!FrontendStates
          /\ NoNewCreate(x.fe.wire, FE!DropSession(x.fe, S).wire)
      BY <1>1, <2>2, EndNothingNew
    <3>2. NoNewCreate(FE!DropSession(x.fe, S).wire, FE!DropSession(FE!DropSession(x.fe, S), S).wire)
      BY <2>2, <3>1, EndNothingNew
    <3>3. NoNewCreate(x.fe.wire, FE!DropSession(FE!DropSession(x.fe, S), S).wire)
      BY <3>1, <3>2, NothingNewTwice
    <3> QED
      BY <1>3, <2>1, <3>1, <3>3 DEF FeDropped
  <2> QED
    BY <1>2, <1>3, <2>1, <2>2 DEF FeDropped
<1>6. NoNewAcquire(x.be.wire, y.be.wire)
    BY <1>1, <1>2, <1>3, EndNothingNew, NothingNew
<1>7. Bound(y)
    BY <1>1, <1>2, <1>3, <1>4, NoDataType DEF Bound, S
<1>8. Creating(y)
  <2> SUFFICES ASSUME NEW e \in y.async, CreateAwaited(y, e)
               PROVE  /\ y.conn[e.sock].session = None
                      /\ \A g \in y.async : CreateAwaited(y, g) /\ g.sock = e.sock => g = e
    BY DEF Creating
  <2>1. \A g : CreateAwaited(y, g) => CreateAwaited(x, g)
    BY <1>5, AwaitedStill
  <2>2. e \in x.async /\ y.async \subseteq x.async /\ CreateAwaited(x, e) /\ e.sock \in Clients
    BY <1>1, <2>1 DEF Entries
  <2>3. x.conn[e.sock].session = None /\ \A g \in x.async : CreateAwaited(x, g) /\ g.sock = e.sock => g = e
    BY <1>4, <2>2 DEF Creating
  <2> QED
    BY <1>1, <1>3, <2>1, <2>2, <2>3, NoDataType
<1>9. MediaTold(y)
    BY <1>1, <1>3, <1>4, NoDataType DEF MediaTold
<1>10. Acquiring(y)
  <2> SUFFICES ASSUME NEW s \in Sockets, NEW m \in In(y.be.wire[s]), m.op = "acquire",
                      y.sess[m.user] # NoSocket
               PROVE  ~y.conn[y.sess[m.user]].mixer
    BY DEF Acquiring
  <2>1. PICK t \in Sockets : m \in In(x.be.wire[t])
    BY <1>6 DEF NoNewAcquire
  <2>2. m \in Messages
    BY <1>1, <2>1, BackendTyping, QueueFacts
  <2>3. m.user \in Users
    BY <2>2 DEF Messages
  <2>4. y.sess[m.user] = x.sess[m.user] /\ x.sess[m.user] \in Clients /\ m.user # S
    BY <1>1, <1>2, <1>3, <2>3
  <2>5. x.sess[m.user] # c
    BY <1>4, <2>3, <2>4 DEF Bound, S
  <2>6. ~x.conn[x.sess[m.user]].mixer
    BY <1>4, <2>1, <2>4 DEF Acquiring
  <2> QED
    BY <1>1, <1>3, <2>4, <2>5, <2>6
<1> QED
    BY <1>0, <1>7, <1>8, <1>9, <1>10 DEF Sess

(* drop_connection and its variant, socket 0 included.                     *)
LEMMA SessDropConnection ==
    ASSUME NEW x, NEW c \in Clients \cup {NoSocket}, NEW frontend \in BOOLEAN,
           NEW backend \in BOOLEAN, Sess(x)
    PROVE  /\ Sess(DropConnection(x, c, frontend, backend))
           /\ Sess(DropLocked(x, c, frontend, backend))
<1>1. CASE c = NoSocket
    BY <1>1 DEF DropConnection, DropLocked
<1>2. CASE c \in Clients
  <2> DEFINE y == DropConnection(x, c, frontend, backend)
             z == DropLocked(x, c, frontend, backend)
  <2>0. x \in VocsStates
    BY DEF Sess
  <2>1. /\ Dropped(x, y, c, frontend, backend) /\ y.async \subseteq x.async
        /\ Dropped(x, z, c, frontend, backend) /\ z.async \subseteq x.async
    BY <1>2, <2>0, DropFields
  <2> HIDE DEF y, z
  <2>2. Sess(y) /\ Sess(z)
    BY <1>2, <2>1, SessDrop
  <2> QED
    BY <2>2 DEF y, z
<1> QED
    BY <1>1, <1>2

-----------------------------------------------------------------------------
(* Requests of clients.                                                    *)

(* Logins by a local password, authorization, logout.                      *)
LEMMA SessLogin ==
    ASSUME NEW x, NEW c \in Clients, NEW valid \in BOOLEAN, Sess(x)
    PROVE  /\ Sess(Close(x, c)) /\ Sess(ClientLogin(x, c, valid))
           /\ Sess(ClientAuthorize(x, c, valid)) /\ Sess(ClientLogout(x, c))
<1>1. Sess(Close(x, c))
    BY SessDropConnection DEF Close
<1>2. Sess(Authenticated(x, c)) /\ Sess([x EXCEPT !.conn[c].role = TRUE])
    BY SessStore
<1>3. ClientLogin(x, c, valid) \in {Close(x, c), Authenticated(x, c)}
    BY DEF ClientLogin
<1>4. ClientAuthorize(x, c, valid) \in {Close(x, c), [x EXCEPT !.conn[c].role = TRUE]}
    BY DEF ClientAuthorize
<1>5. ClientLogout(x, c) = Close(x, c)
    BY DEF ClientLogout, Close
<1> QED
    BY <1>1, <1>2, <1>3, <1>4, <1>5

(* Nothing under way has a fresh uuid.                                     *)
LEMMA FreshUnmade ==
    ASSUME NEW x, NEW r \in ClientReqs, Fresh(x, r) \/ Unused(x.be.wire, x.fe.wire, r)
    PROVE  Unmade(x.fe.wire, r)
    BY DEF Fresh, Unused, Absent, Unmade

(* Logins that LDAP is asked about, the work of the threads.               *)
LEMMA SessLdapStep ==
    ASSUME NEW x, NEW D \in SUBSET Reqs, Sess(x)
    PROVE  Sess([x EXCEPT !.ldap = D]) /\ [x EXCEPT !.ldap = D].fe = x.fe
<1> DEFINE y == [x EXCEPT !.ldap = D]
<1>0. x \in VocsStates
    BY DEF Sess
<1>1. y \in VocsStates /\ SameMedia(x, y) /\ y.async = x.async /\ y.be = x.be /\ y.fe = x.fe
    BY <1>0 DEF VocsStates, SameMedia
<1> HIDE DEF y
<1>2. Sess(y)
    BY <1>1, SessPlain
<1> QED
    BY <1>1, <1>2 DEF y

(* A login by LDAP.                                                        *)
LEMMA SessLoginLdap ==
    ASSUME NEW x, NEW c \in Clients, NEW r \in ClientReqs, Sess(x), Fresh(x, r)
    PROVE  Sess(ClientLoginLdap(x, r, c))
<1> DEFINE e == Entry(r, c, None, None)
           w == [x EXCEPT !.ldap = x.ldap \cup {r}]
<1>0. x \in VocsStates /\ r \in Reqs /\ x.ldap \cup {r} \in SUBSET Reqs
    BY VocsTyping DEF Sess, ClientReqs
<1>1. e \in Entries /\ e.id = r /\ e.sock = c
    BY <1>0, EntryType
<1>2. Sess(w) /\ w.fe = x.fe
    BY <1>0, SessLdapStep
<1>3. ClientLoginLdap(x, r, c) \in {Close(x, c), AsyncSet(Owe(w, r, c), e)}
    BY DEF ClientLoginLdap
<1> HIDE DEF e, w
<1>4. Unmade(w.fe.wire, e.id)
    BY <1>1, <1>2, FreshUnmade
<1>5. Sess(AsyncSet(Owe(w, e.id, e.sock), e))
    BY <1>1, <1>2, <1>4, SessSet
<1>6. Sess(Close(x, c))
    BY SessLogin
<1> QED
    BY <1>1, <1>3, <1>5, <1>6

(* The answer of LDAP.                                                     *)
LEMMA SessLdapAnswer ==
    ASSUME NEW x, NEW r, NEW granted \in BOOLEAN, Sess(x)
    PROVE  Sess(LdapAuthentication(x, r, granted))
<1> DEFINE a == AsyncUnset(x, r)
           y == [a EXCEPT !.ldap = a.ldap \ {r}]
           c == AsyncGet(x, r).sock
           z == Respond(y, r, c)
<1>0. x \in VocsStates
    BY DEF Sess
<1>1. LdapAuthentication(x, r, granted) =
        IF ~AsyncHas(x, r) THEN y ELSE IF granted THEN Authenticated(z, c) ELSE Close(y, c)
    BY DEF LdapAuthentication
<1>2. AsyncHas(x, r) => c \in Clients
    BY <1>0, AsyncFound
<1>3. Sess(a)
    BY SessStore
<1> HIDE DEF a, c
<1>4. Sess(y)
  <2>1. a.ldap \ {r} \in SUBSET Reqs
    BY <1>3, VocsTyping DEF Sess
  <2> QED
    BY <1>3, <2>1, SessLdapStep
<1> HIDE DEF y
<1>5. Sess(z)
    BY <1>4, SessStore
<1> HIDE DEF z
<1>6. CASE ~AsyncHas(x, r)
    BY <1>1, <1>4, <1>6
<1>7. CASE AsyncHas(x, r)
  <2>1. Sess(Authenticated(z, c)) /\ Sess(Close(y, c))
    BY <1>2, <1>4, <1>5, <1>7, SessStore, SessLogin
  <2> QED
    BY <1>1, <1>7, <2>1
<1> QED
    BY <1>6, <1>7

(* A request to the proxy of a session, and that it is stored.             *)
LEMMA SessSendHome ==
    ASSUME NEW x, NEW f, NEW S, NEW m \in FE!ProxyMessages, NEW e \in Entries,
           Sess(x), SentHome(x.fe, f, S, m), m.op # "create", Unmade(x.fe.wire, e.id)
    PROVE  /\ Sess([x EXCEPT !.fe = f])
           /\ Sess(AsyncSet(Owe([x EXCEPT !.fe = f], e.id, e.sock), e))
<1> DEFINE y == [x EXCEPT !.fe = f]
<1>1. x.fe \in FE!FrontendStates /\ f \in FE!FrontendStates
    BY VocsTyping DEF Sess, SentHome
<1>2. NoNewCreate(x.fe.wire, f.wire)
    BY <1>1, HomeNothingNew
<1>3. Sess(y) /\ y.fe = f
    BY <1>1, <1>2, SessFe
<1> HIDE DEF y
<1>4. Unmade(y.fe.wire, e.id)
    BY <1>2, <1>3, NothingNewTwice
<1>5. Sess(AsyncSet(Owe(y, e.id, e.sock), e))
    BY <1>3, <1>4, SessSet
<1> QED
    BY <1>3, <1>5 DEF y

(* A request to the mixer of a session, and that it is stored.             *)
LEMMA SessLoopRequest ==
    ASSUME NEW x, NEW S \in Users, NEW op \in LoopOps, NEW l \in Loops, NEW r \in Reqs, Sess(x)
    PROVE  LET y == [x EXCEPT !.be = LoopRequest(x.be, op, r, S, l)] IN
           /\ Sess(y) /\ y.fe = x.fe
           /\ \A e \in Entries : Unmade(x.fe.wire, e.id) => Sess(AsyncSet(Owe(y, e.id, e.sock), e))
<1> DEFINE m == Message(op, r, S, l)
           b == LoopRequest(x.be, op, r, S, l)
           y == [x EXCEPT !.be = b]
<1>1. x.be \in BackendStates
    BY VocsTyping DEF Sess
<1>2. m \in Messages /\ m.op # "acquire"
    BY MessageType DEF BackendOps, LoopOps
<1>3. SentToMixer(x.be, b, S, m)
    BY <1>1, LoopRequestFields
<1>4. b \in BackendStates /\ NoNewAcquire(x.be.wire, b.wire)
    BY <1>1, <1>2, <1>3, MixerNothingNew DEF SentToMixer
<1> HIDE DEF b
<1>5. Sess(y) /\ y.fe = x.fe
    BY <1>4, SessBe DEF ButBe
<1> HIDE DEF y
<1>6. \A e \in Entries : Unmade(x.fe.wire, e.id) => Sess(AsyncSet(Owe(y, e.id, e.sock), e))
    BY <1>5, SessSet
<1> QED
    BY <1>5, <1>6 DEF y, b

(* Something about session S and loop l goes to its mixer or its proxy.    *)
Switching(x, y, r, S, l) ==
    \/ \E op \in LoopOps : y = [x EXCEPT !.be = LoopRequest(x.be, op, r, S, l)]
    \/ \E on \in BOOLEAN : y = [x EXCEPT !.fe = FE!Talk(x.fe, r, S, on, l)]

(* perform_switch_loop_request sends one of these.                         *)
LEMMA SwitchSends ==
    ASSUME NEW x, NEW r, NEW S, NEW l, NEW current \in LoopStates, NEW want \in LoopStates,
           current # want
    PROVE  Switching(x, PerformSwitch(x, r, S, l, current, want), r, S, l)
<1> DEFINE y == PerformSwitch(x, r, S, l, current, want)
<1>1. CASE current = "none"
  <2>1. "join" \in LoopOps /\ y = [x EXCEPT !.be = LoopRequest(x.be, "join", r, S, l)]
    BY <1>1 DEF PerformSwitch, LoopOps
  <2> QED
    BY <2>1 DEF Switching
<1>2. CASE current = "recv" /\ want = "none"
  <2>1. "leave" \in LoopOps /\ y = [x EXCEPT !.be = LoopRequest(x.be, "leave", r, S, l)]
    BY <1>2 DEF PerformSwitch, LoopOps
  <2> QED
    BY <2>1 DEF Switching
<1>3. CASE current = "recv" /\ want = "send"
  <2>1. y = [x EXCEPT !.fe = FE!Talk(x.fe, r, S, TRUE, l)]
    BY <1>3 DEF PerformSwitch
  <2> QED
    BY <2>1 DEF Switching
<1>4. CASE current = "send"
  <2>1. y = [x EXCEPT !.fe = FE!Talk(x.fe, r, S, FALSE, l)]
    BY <1>4 DEF PerformSwitch
  <2> QED
    BY <2>1 DEF Switching
<1> QED
    BY <1>1, <1>2, <1>3, <1>4 DEF LoopStates

(* What is sent for a loop, and that it is stored.                         *)
LEMMA SessSwitching ==
    ASSUME NEW x, NEW y, NEW r \in Reqs, NEW S \in Users, NEW l \in Loops, NEW e \in Entries,
           Sess(x), Switching(x, y, r, S, l), Unmade(x.fe.wire, e.id)
    PROVE  Sess(y) /\ Sess(AsyncSet(Owe(y, e.id, e.sock), e))
<1>1. CASE \E op \in LoopOps : y = [x EXCEPT !.be = LoopRequest(x.be, op, r, S, l)]
    BY <1>1, SessLoopRequest
<1>2. ASSUME NEW on \in BOOLEAN, y = [x EXCEPT !.fe = FE!Talk(x.fe, r, S, on, l)]
      PROVE  Sess(y) /\ Sess(AsyncSet(Owe(y, e.id, e.sock), e))
  <2> DEFINE m == TalkMessage(r, S, on, l)
             f == FE!Talk(x.fe, r, S, on, l)
  <2>1. SentHome(x.fe, f, S, m)
    BY VocsTyping, TalkFields DEF Sess
  <2>2. m \in FE!ProxyMessages /\ m.op # "create"
    BY DEF FE!FrontendOps, FE!ProxyMessages, FE!ProxyMessage, TalkMessage
  <2> HIDE DEF m, f
  <2>3. y = [x EXCEPT !.fe = f]
    BY <1>2 DEF f
  <2> QED
    BY <2>1, <2>2, <2>3, SessSendHome
<1> QED
    BY <1>1, <1>2 DEF Switching

(* The client of a connection without a session asks for none yet.         *)
NoMedia(x, c) ==
    /\ x.conn[c].session = None
    /\ \A e \in x.async : e.sock = c /\ e.loop = None => e.id \in x.ldap

(* A request for a session: the first of its connection.                   *)
LEMMA SessMedia ==
    ASSUME NEW x, NEW iss, NEW mk, NEW c \in Clients, NEW r \in iss, Base(x, iss, mk), Fresh(x, r),
           Sess(x), NoMedia(x, c)
    PROVE  Sess(ClientMedia(x, r, c))
<1>0. x \in VocsStates /\ x.fe \in FE!FrontendStates /\ r \in Reqs /\ r \in ClientReqs
    BY VocsTyping DEF Base, ClientReqs
<1> DEFINE e == Entry(r, c, None, None)
           m == FE!ProxyMessage("create", r, None, None)
           f == FE!CreateSession(x.fe, r)
           y == [x EXCEPT !.fe = f]
           z == AsyncSet(Owe(y, r, c), e)
<1>1. CASE ~x.conn[c].user \/ ~FE!ProxyAvailable(x.fe)
  <2>1. ClientMedia(x, r, c) = Close(x, c)
    BY <1>1 DEF ClientMedia
  <2> QED
    BY <2>1, SessLogin
<1>2. CASE ~(~x.conn[c].user \/ ~FE!ProxyAvailable(x.fe))
  <2>1. ClientMedia(x, r, c) = z
    BY <1>2 DEF ClientMedia
  <2>2. e \in Entries /\ e.id = r /\ e.sock = c
    BY <1>0, EntryType
  <2>3. m \in FE!ProxyMessages /\ m.id = r
    BY <1>0 DEF FE!FrontendOps, FE!ProxyMessages, FE!ProxyMessage
  <2>4. PICK p \in Proxies : /\ f \in FE!FrontendStates /\ OtherwiseSame(x.fe, f)
                             /\ f.wire = [x.fe.wire EXCEPT ![p] = Append(x.fe.wire[p], m)]
    BY <1>0, <1>2, CreateSessionFields
  <2> HIDE DEF e, m, f
  <2>5. y \in VocsStates /\ y.fe = f /\ ButFe(x, y)
    BY <1>0, <2>4, WithFe
  <2> HIDE DEF y
  <2>6. Asked(y, z, e)
    BY <2>2, <2>5, AskedFields
  <2> HIDE DEF z
  <2>7. /\ z \in VocsStates /\ z.conn = x.conn /\ z.sess = x.sess /\ z.ready = x.ready /\ z.be = x.be
        /\ z.fe = f /\ z.async = x.async \cup {e}
    BY <2>5, <2>6 DEF Asked, ButStore, ButFe
  <2>8. \A q \in Proxies : \A n \in In(z.fe.wire[q]) : n \in In(x.fe.wire[q]) \/ n = m
    <3>1. x.fe.wire \in [Proxies -> Seq(FE!ProxyMessages)] /\ x.fe.wire[p] \in Seq(FE!ProxyMessages)
      BY <1>0, FrontendTyping
    <3>2. In(Append(x.fe.wire[p], m)) = In(x.fe.wire[p]) \cup {m}
      BY <2>3, <3>1, QueueFacts
    <3>3. \A q \in Proxies : z.fe.wire[q] = IF q = p THEN Append(x.fe.wire[p], m) ELSE x.fe.wire[q]
      BY <2>4, <2>7, <3>1
    <3> QED
      BY <3>2, <3>3
  <2>9. ASSUME NEW g, CreateAwaited(z, g) PROVE g = e \/ CreateAwaited(x, g)
    <3>1. PICK q \in Proxies : \E n \in In(z.fe.wire[q]) : n.op = "create" /\ n.id = g.id
      BY <2>9 DEF CreateAwaited
    <3>2. g \in x.async \cup {e}
      BY <2>7, <2>9 DEF CreateAwaited
    <3>3. g \in x.async => g.id # r
      BY DEF Fresh
    <3> QED
      BY <2>3, <2>8, <3>1, <3>2, <3>3 DEF CreateAwaited
  <2>10. ASSUME NEW g, CreateAwaited(x, g) PROVE g \in x.async /\ g.sock # c /\ x.conn[g.sock].session = None
    <3>1. g \in x.async
      BY <2>10 DEF CreateAwaited
    <3>2. PICK q \in Proxies : \E k \in In(x.fe.wire[q]) : k.op = "create" /\ k.id = g.id
      BY <2>10 DEF CreateAwaited
    <3> PICK n \in In(x.fe.wire[q]) : n.op = "create" /\ n.id = g.id
      BY <3>2
    <3>3. FeAwaited(n, g, x.ldap)
      BY <3>1, <3>2 DEF Base, FeMeant
    <3>4. g.loop = None /\ g.id \notin x.ldap
      BY <3>2, <3>3 DEF FeAwaited
    <3> QED
      BY <2>10, <3>1, <3>4 DEF NoMedia, Sess, Creating
  <2>11. Creating(z)
    <3> SUFFICES ASSUME NEW g \in z.async, CreateAwaited(z, g)
                 PROVE  /\ z.conn[g.sock].session = None
                        /\ \A h \in z.async : CreateAwaited(z, h) /\ h.sock = g.sock => h = g
      BY DEF Creating
    <3>1. CASE g = e
      BY <2>2, <2>7, <2>9, <2>10, <3>1 DEF NoMedia
    <3>2. CASE CreateAwaited(x, g)
      BY <2>2, <2>7, <2>9, <2>10, <3>2 DEF Sess, Creating
    <3> QED
      BY <2>9, <3>1, <3>2
  <2>12. Bound(z) /\ MediaTold(z) /\ Acquiring(z)
    BY <2>7 DEF Sess, Bound, MediaTold, Acquiring
  <2> QED
    BY <2>1, <2>7, <2>11, <2>12 DEF Sess
<1> QED
    BY <1>1, <1>2

(* What a client sends for ICE.                                            *)
LEMMA SessSignal ==
    ASSUME NEW x, NEW c \in Clients, NEW r \in ClientReqs, Sess(x), Fresh(x, r)
    PROVE  Sess(ClientUpdate(x, r, c)) /\ Sess(ClientCandidate(x, r, c))
<1>0. x \in VocsStates /\ x.fe \in FE!FrontendStates /\ r \in Reqs
    BY VocsTyping DEF Sess, ClientReqs
<1>1. CASE ~MaySignal(x, c)
  <2>1. ClientUpdate(x, r, c) = Close(x, c) /\ ClientCandidate(x, r, c) = Close(x, c)
    BY <1>1 DEF ClientUpdate, ClientCandidate
  <2> QED
    BY <2>1, SessLogin
<1>2. CASE MaySignal(x, c)
  <2> DEFINE S == x.conn[c].session
             e == Entry(r, c, None, None)
             u == FE!UpdateSession(x.fe, r, S)
             k == FE!Candidate(x.fe, r, S)
             m == FE!ProxyMessage("update", r, S, None)
             n == FE!ProxyMessage("candidate", r, S, None)
  <2>1. S \in Users
    BY <1>0, <1>2, VocsTyping DEF MaySignal, Conns
  <2>2. /\ ClientUpdate(x, r, c) = AsyncSet(Owe([x EXCEPT !.fe = u], r, c), e)
        /\ ClientCandidate(x, r, c) = AsyncSet(Owe([x EXCEPT !.fe = k], r, c), e)
    BY <1>2 DEF ClientUpdate, ClientCandidate
  <2>3. e \in Entries /\ e.id = r /\ e.sock = c
    BY <1>0, EntryType
  <2> HIDE DEF S
  <2>4. /\ m \in FE!ProxyMessages /\ m.op # "create" /\ n \in FE!ProxyMessages /\ n.op # "create"
    BY <1>0, <2>1 DEF FE!FrontendOps, FE!ProxyMessages, FE!ProxyMessage
  <2>5. SentHome(x.fe, u, S, m) /\ SentHome(x.fe, k, S, n)
    BY <1>0, <2>1, SignalFields
  <2> HIDE DEF e, m, n, u, k
  <2>6. Unmade(x.fe.wire, e.id)
    BY <2>3, FreshUnmade
  <2>7. /\ Sess(AsyncSet(Owe([x EXCEPT !.fe = u], e.id, e.sock), e))
        /\ Sess(AsyncSet(Owe([x EXCEPT !.fe = k], e.id, e.sock), e))
    BY <2>3, <2>4, <2>5, <2>6, SessSendHome
  <2> QED
    BY <2>2, <2>3, <2>7
<1> QED
    BY <1>1, <1>2

(* A request for another state of a loop, for another volume.              *)
LEMMA SessSwitch ==
    ASSUME NEW x, NEW c \in Clients, NEW r \in ClientReqs, NEW l \in Loops,
           NEW want \in LoopStates, Sess(x), Fresh(x, r)
    PROVE  /\ Sess(ClientSwitchLoopState(x, r, c, l, want))
           /\ Sess(ClientSwitchLoopVolume(x, r, c, l))
<1> DEFINE d == x.conn[c]
           S == d.session
           cur == d.loops[l]
           y == PerformSwitch(x, r, S, l, cur, want)
           z == [x EXCEPT !.be = LoopRequest(x.be, "volume", r, S, l)]
           e == Entry(r, c, l, want)
           g == Entry(r, c, l, None)
<1>0. x \in VocsStates /\ r \in Reqs /\ d \in Conns
    BY VocsTyping DEF Sess, ClientReqs
<1>1. S \in Users \cup {None} /\ cur \in LoopStates
    BY <1>0 DEF Conns
<1>2. e \in Entries /\ e.id = r /\ e.sock = c /\ g \in Entries /\ g.id = r /\ g.sock = c
    BY <1>0, EntryType
<1>3. Sess(Close(x, c)) /\ Unmade(x.fe.wire, r)
    BY SessLogin, FreshUnmade
<1>4. /\ ClientSwitchLoopState(x, r, c, l, want) \in
           IF S # None /\ cur # want THEN {Close(x, c), Close(y, c), AsyncSet(Owe(y, r, c), e)}
           ELSE {x, Close(x, c)}
      /\ ClientSwitchLoopVolume(x, r, c, l) \in
           IF S # None THEN {Close(x, c), Close(z, c), AsyncSet(Owe(z, r, c), g)} ELSE {Close(x, c)}
    BY DEF ClientSwitchLoopState, ClientSwitchLoopVolume, MaySwitch
<1>5. S # None => Switching(x, z, r, S, l)
    BY DEF Switching, LoopOps
<1> HIDE DEF d, S, cur, z, e, g
<1>6. cur # want => Switching(x, y, r, S, l)
    BY <1>1, SwitchSends
<1> HIDE DEF y
<1>7. ASSUME NEW w, NEW h \in Entries, Switching(x, w, r, S, l), S # None, h.id = r, h.sock = c
      PROVE  Sess(Close(w, c)) /\ Sess(AsyncSet(Owe(w, r, c), h))
  <2>1. Sess(w) /\ Sess(AsyncSet(Owe(w, h.id, h.sock), h))
    BY <1>0, <1>1, <1>3, <1>7, SessSwitching
  <2> QED
    BY <1>7, <2>1, SessLogin
<1>8. Sess(ClientSwitchLoopState(x, r, c, l, want))
    BY <1>2, <1>3, <1>4, <1>6, <1>7
<1>9. Sess(ClientSwitchLoopVolume(x, r, c, l))
    BY <1>2, <1>3, <1>4, <1>5, <1>7
<1> QED
    BY <1>8, <1>9

-----------------------------------------------------------------------------
(* What mixers say.                                                        *)

(* The second of ICE and mixer, or the first of them.                      *)
LEMMA SessAnnounced ==
    ASSUME NEW x, NEW y, NEW c \in Clients, NEW d \in Conns, Sess(x), Announced(x, y, c, d),
           x.conn[c].session # None, d.session = x.conn[c].session,
           \/ ~x.conn[c].ice /\ d.ice /\ d.mixer = x.conn[c].mixer
           \/ /\ ~x.conn[c].mixer /\ d.mixer /\ d.ice = x.conn[c].ice
              /\ NotAcquired(x.be.wire, x.conn[c].session)
    PROVE  Sess(y)
<1>0. x \in VocsStates /\ y \in VocsStates
    BY DEF Sess, Announced
<1>1. /\ x.conn \in [Clients -> Conns] /\ x.sess \in [Users -> Clients \cup {NoSocket}]
      /\ x.be \in BackendStates /\ x.async \subseteq Entries /\ x.ready \in [Clients -> Nat]
    BY <1>0, VocsTyping
<1>2. /\ y.conn = [x.conn EXCEPT ![c] = d] /\ y.sess = x.sess /\ y.async = x.async
      /\ y.be = x.be /\ y.fe = x.fe
      /\ y.ready = IF d.ice /\ d.mixer THEN [x.ready EXCEPT ![c] = @ + 1] ELSE x.ready
    BY DEF Announced
<1>3. Bound(x) /\ Creating(x) /\ MediaTold(x) /\ Acquiring(x)
    BY DEF Sess
<1>4. Bound(y)
    BY <1>1, <1>2, <1>3 DEF Bound
<1>5. Creating(y)
  <2>1. \A e : CreateAwaited(y, e) <=> CreateAwaited(x, e)
    BY <1>2 DEF CreateAwaited
  <2>2. \A e \in x.async : e.sock \in Clients
    BY <1>1 DEF Entries
  <2> QED
    BY <1>1, <1>2, <1>3, <2>1, <2>2 DEF Creating
<1>6. MediaTold(y)
    BY <1>1, <1>2, <1>3 DEF MediaTold
<1>7. Acquiring(y)
  <2> SUFFICES ASSUME NEW s \in Sockets, NEW m \in In(y.be.wire[s]), m.op = "acquire",
                      y.sess[m.user] # NoSocket
               PROVE  ~y.conn[y.sess[m.user]].mixer
    BY DEF Acquiring
  <2>1. m \in Messages
    BY <1>1, <1>2, BackendTyping, QueueFacts
  <2>2. m.user \in Users /\ x.sess[m.user] \in Clients
    BY <1>1, <1>2, <2>1 DEF Messages
  <2>3. ~x.conn[x.sess[m.user]].mixer
    BY <1>2, <1>3 DEF Acquiring
  <2>4. x.sess[m.user] = c => x.conn[c].session = m.user
    BY <1>3, <2>2 DEF Bound
  <2> QED
    BY <1>1, <1>2, <2>2, <2>3, <2>4 DEF NotAcquired
<1> QED
    BY <1>0, <1>4, <1>5, <1>6, <1>7 DEF Sess

(* A session leads to a connection that has it.                            *)
LEMMA SocketBound ==
    ASSUME NEW x, NEW S \in Users \cup {None}, Sess(x)
    PROVE  /\ SocketOf(x, S) \in Clients \cup {NoSocket}
           /\ SocketOf(x, S) # NoSocket => /\ S \in Users /\ SocketOf(x, S) = x.sess[S]
                                           /\ x.conn[SocketOf(x, S)].session = S /\ S # None
<1>1. x.sess \in [Users -> Clients \cup {NoSocket}] /\ x.fe \in FE!FrontendStates
    BY VocsTyping DEF Sess
<1>2. None \notin Users
    BY <1>1, FrontendTyping
<1> QED
    BY <1>1, <1>2 DEF SocketOf, Sess, Bound

(* The answer to acquire.                                                  *)
LEMMA SessMixerAcquired ==
    ASSUME NEW x, NEW r, NEW S \in Users, NEW code, Sess(x), NotAcquired(x.be.wire, S),
           x.sess[S] # NoSocket => ~x.conn[x.sess[S]].mixer
    PROVE  Sess(MixerAcquired(x, r, S, code))
<1> DEFINE c == SocketOf(x, S)
           y == AsyncUnset(x, r)
           z == Announce([y EXCEPT !.conn[c].mixer = TRUE], c)
           d == [y.conn[c] EXCEPT !.mixer = TRUE]
<1>0. x \in VocsStates /\ x.be \in BackendStates
    BY VocsTyping DEF Sess
<1>1. /\ c \in Clients \cup {NoSocket}
      /\ c # NoSocket => c = x.sess[S] /\ x.conn[c].session = S /\ S # None
    BY SocketBound
<1>2. MixerAcquired(x, r, S, code) \in
        IF c = NoSocket THEN {[x EXCEPT !.be = ReleaseMixer(x.be, S, S)]}
        ELSE {DropConnection(y, c, TRUE, FALSE), z}
    BY DEF MixerAcquired
<1>3. Sess(y) /\ Taken(x, y, r)
    BY <1>0, SessStore, TakenFields
<1> HIDE DEF c, y
<1>4. Sess(DropConnection(y, c, TRUE, FALSE))
    BY <1>1, <1>3, SessDropConnection
<1>5. Sess([x EXCEPT !.be = ReleaseMixer(x.be, S, S)])
  <2> DEFINE b == ReleaseMixer(x.be, S, S)
  <2>1. b \in BackendStates /\ NoNewAcquire(x.be.wire, b.wire)
    BY <1>0, EndNothingNew
  <2> HIDE DEF b
  <2>2. Sess([x EXCEPT !.be = b])
    BY <2>1, SessBe
  <2> QED
    BY <2>2 DEF b
<1>6. ASSUME c # NoSocket PROVE Sess(z)
  <2>1. c \in Clients /\ y \in VocsStates /\ y.conn[c] \in Conns
    BY <1>1, <1>3, <1>6, VocsTyping DEF Sess
  <2>2. Announced(y, z, c, d)
    BY <2>1, AnnounceFields
  <2>3. d \in Conns /\ d.session = y.conn[c].session /\ d.mixer /\ d.ice = y.conn[c].ice
    BY <2>1 DEF Conns
  <2>4. y.conn[c].session = S /\ y.conn[c].session # None /\ ~y.conn[c].mixer /\ NotAcquired(y.be.wire, y.conn[c].session)
    BY <1>1, <1>3, <1>6 DEF Taken, ButStore
  <2> HIDE DEF d, z
  <2> QED
    BY <1>3, <2>1, <2>2, <2>3, <2>4, SessAnnounced
<1> HIDE DEF z
<1> QED
    BY <1>2, <1>4, <1>5, <1>6

(* A loop's state that is stored, with the participants of the loop.       *)
LEMMA SessLoopState ==
    ASSUME NEW y, NEW c \in Clients, NEW l \in Loops, NEW st \in LoopStates,
           NEW Q \in SUBSET (Loops \X Clients), Sess(y)
    PROVE  /\ Sess([y EXCEPT !.conn[c].loops[l] = st, !.parts = Q])
           /\ Sess([y EXCEPT !.conn[c].loops[l] = st])
<1> DEFINE j == [y EXCEPT !.conn[c].loops[l] = st, !.parts = Q]
           k == [y EXCEPT !.conn[c].loops[l] = st]
<1>1. LoopSet(y, j, c, l, st) /\ LoopSet(y, k, c, l, st)
    BY LoopSetFields DEF Sess
<1> HIDE DEF j, k
<1>2. Sess(j) /\ Sess(k)
    BY <1>1, SessLoopSet
<1> QED
    BY <1>2 DEF j, k

(* A mixer is told to leave a loop.                                        *)
LEMMA SessLeaveLoop ==
    ASSUME NEW x, NEW r \in Reqs, NEW S \in Users \cup {None}, NEW l \in Loops, Sess(x)
    PROVE  Sess(LeaveLoop(x, r, S, l))
<1>1. CASE S = None
  <2> DEFINE g == RegisterCallback(x.be, r)
  <2>1. LeaveLoop(x, r, S, l) = [x EXCEPT !.be = g]
    BY <1>1 DEF LeaveLoop
  <2>2. g \in BackendStates /\ g.wire = x.be.wire
    BY CallbackFields, VocsTyping DEF Sess
  <2> HIDE DEF g
  <2>3. NoNewAcquire(x.be.wire, g.wire)
    BY <2>2, NothingNew
  <2> QED
    BY <2>1, <2>2, <2>3, SessBe
<1>2. CASE S # None
  <2>1. LeaveLoop(x, r, S, l) = [x EXCEPT !.be = LoopRequest(x.be, "leave", r, S, l)]
    BY <1>2 DEF LeaveLoop
  <2>2. "leave" \in LoopOps /\ S \in Users
    BY <1>2 DEF LoopOps
  <2> QED
    BY <2>1, <2>2, SessLoopRequest
<1> QED
    BY <1>1, <1>2

(* An answer to join.                                                      *)
LEMMA SessMixerJoin ==
    ASSUME NEW x, NEW iss, NEW mk, NEW m, BeHeard(x, m, iss, mk), m.op = "join",
           NEW S \in mk \cup {None}, NEW code, Sess(x)
    PROVE  Sess(MixerJoin(x, m.id, S, m.loop, code))
<1> DEFINE r == m.id
           l == m.loop
           c == SocketOf(x, S)
           y == AsyncUnset(x, r)
           want == AsyncGet(x, r).want
           Q == y.parts \cup {<<l, c>>}
           j == [y EXCEPT !.conn[c].loops[l] = "recv", !.parts = Q]
           k == Entry(r, c, l, want)
           a == AsyncSet(j, k)
           t == PerformSwitch(a, r, S, l, "recv", want)
<1>0. /\ x \in VocsStates /\ Unused(x.be.wire, x.fe.wire, r) /\ r \in Reqs /\ r \in ClientReqs
      /\ l \in Loops /\ mk \subseteq Users /\ S \in Users \cup {None}
    BY DEF Base, BeHeard, BeWorded, LoopOps, ClientReqs
<1>1. c \in Clients \cup {NoSocket} /\ (c # NoSocket => S \in Users)
    BY <1>0, SocketBound
<1>2. MixerJoin(x, r, S, l, code) =
        IF ~AsyncHas(x, r) THEN LeaveLoop(x, r, S, l)
        ELSE IF code # "ok" THEN Respond(y, r, c)
        ELSE IF ~KnownClient(x, c) THEN DropConnection(y, c, TRUE, TRUE)
        ELSE IF want = "recv" THEN Respond(j, r, c)
        ELSE IF CanPerform(j, S, "recv", want) THEN t
        ELSE DropConnection(t, c, TRUE, TRUE)
    BY DEF MixerJoin
<1>3. Sess(LeaveLoop(x, r, S, l))
    BY <1>0, SessLeaveLoop
<1>4. Sess(y) /\ Sess(Respond(y, r, c)) /\ Taken(x, y, r)
    BY <1>0, SessStore, TakenFields
<1>5. AsyncHas(x, r) => want \in {"recv", "send"}
  <2> SUFFICES ASSUME AsyncHas(x, r) PROVE want \in {"recv", "send"}
    OBVIOUS
  <2>1. AsyncGet(x, r) \in x.async /\ AsyncGet(x, r).id = r
    BY <1>0, AsyncFound
  <2> QED
    BY <2>1 DEF BeHeard, BeAwaited
<1> HIDE DEF c, y, want
<1>6. Sess(DropConnection(y, c, TRUE, TRUE))
    BY <1>1, <1>4, SessDropConnection
<1>7. ASSUME c # NoSocket, want \in {"recv", "send"}
      PROVE  /\ Sess(Respond(j, r, c))
             /\ want # "recv" => Sess(t) /\ Sess(DropConnection(t, c, TRUE, TRUE))
  <2>1. c \in Clients /\ S \in Users /\ "recv" \in LoopStates /\ want \in LoopStates
    BY <1>1, <1>7 DEF LoopStates
  <2>2. Q \in SUBSET (Loops \X Clients)
    BY <1>0, <1>4, <2>1, VocsTyping DEF Sess
  <2>3. k \in Entries /\ k.id = r
    BY <1>0, <2>1, EntryType
  <2> HIDE DEF Q, k, l
  <2>4. Sess(j) /\ j.fe = y.fe
    <3>1. Sess(y) /\ c \in Clients /\ l \in Loops /\ "recv" \in LoopStates
      BY <1>0, <1>4, <2>1
    <3>2. Sess(j)
      BY <2>2, <3>1, SessLoopState
    <3>3. LoopSet(y, j, c, l, "recv")
      BY <2>2, <3>1, LoopSetFields DEF Sess
    <3> HIDE DEF j
    <3> QED
      BY <3>2, <3>3 DEF LoopSet
  <2> HIDE DEF j
  <2>5. Sess(Respond(j, r, c))
    BY <2>4, SessStore
  <2>6. Unmade(j.fe.wire, r)
    BY <1>0, <1>4, <2>4, FreshUnmade DEF Taken, ButStore
  <2>7. Sess(a) /\ a.fe = j.fe
    BY <2>3, <2>4, <2>6, SessSet DEF AsyncSet, Sess, VocsStates
  <2> HIDE DEF a
  <2>8. want # "recv" => Switching(a, t, r, S, l)
    BY <2>1, SwitchSends
  <2> HIDE DEF t
  <2>9. want # "recv" => Sess(t)
    BY <1>0, <2>1, <2>3, <2>6, <2>7, <2>8, SessSwitching
  <2> QED
    BY <2>1, <2>5, <2>9, SessDropConnection
<1> HIDE DEF j, t
<1> QED
    BY <1>2, <1>3, <1>4, <1>5, <1>6, <1>7 DEF KnownClient

(* An answer to leave, to volume.                                          *)
LEMMA SessMixerLeave ==
    ASSUME NEW x, NEW r, NEW S \in Users \cup {None}, NEW l \in Loops, Sess(x)
    PROVE  /\ Sess(MixerLeave(x, r, S, l)) /\ Sess(MixerVolume(x, r, S))
           /\ S # None => Sess(MixerReleased(x, S)) /\ Sess(MixerLost(x, S))
<1> DEFINE c == SocketOf(x, S)
           y == AsyncUnset(x, r)
           Q == y.parts \ {<<l, c>>}
           j == [y EXCEPT !.conn[c].loops[l] = "none", !.parts = Q]
<1>0. x \in VocsStates
    BY DEF Sess
<1>1. c \in Clients \cup {NoSocket}
    BY SocketBound
<1>2. /\ MixerLeave(x, r, S, l) \in IF c = NoSocket THEN {y}
                                    ELSE {DropConnection(y, c, TRUE, TRUE), Respond(j, r, c)}
      /\ MixerVolume(x, r, S) \in {y, DropConnection(y, c, TRUE, TRUE), Respond(y, r, c)}
      /\ MixerReleased(x, S) = DropConnection(x, c, TRUE, FALSE)
      /\ MixerLost(x, S) = DropConnection(x, c, TRUE, FALSE)
    BY DEF MixerLeave, MixerVolume, MixerReleased, MixerLost
<1>3. Sess(y) /\ Sess(Respond(y, r, c))
    BY SessStore
<1> HIDE DEF c, y
<1>4. Sess(DropConnection(y, c, TRUE, TRUE)) /\ Sess(DropConnection(x, c, TRUE, FALSE))
    BY <1>1, <1>3, SessDropConnection
<1>5. ASSUME c # NoSocket PROVE Sess(Respond(j, r, c))
  <2>1. c \in Clients /\ "none" \in LoopStates
    BY <1>1, <1>5 DEF LoopStates
  <2>2. Q \in SUBSET (Loops \X Clients)
    BY <1>3, VocsTyping DEF Sess
  <2> HIDE DEF Q
  <2>3. Sess(j)
    BY <1>3, <2>1, <2>2, SessLoopState
  <2> QED
    BY <2>3, SessStore
<1> HIDE DEF j
<1> QED
    BY <1>2, <1>3, <1>4, <1>5

(* Queues that get shorter.                                                *)
LEMMA ShorterNothingNew ==
    ASSUME NEW P, NEW T, NEW W \in [P -> Seq(T)], NEW s \in P, NEW Z,
           \/ Z = [W EXCEPT ![s] = <<>>]
           \/ W[s] # <<>> /\ Z = [W EXCEPT ![s] = Tail(W[s])]
    PROVE  /\ \A t \in P : In(Z[t]) \subseteq In(W[t])
           /\ P = Sockets => NoNewAcquire(W, Z)
           /\ P = Proxies => NoNewCreate(W, Z)
<1>1. In(<<>>) \subseteq In(W[s])
    BY EmptyQueue
<1>2. W[s] # <<>> => In(Tail(W[s])) \subseteq In(W[s])
    BY QueueFacts
<1>3. \A t \in P : In(Z[t]) \subseteq In(W[t])
    BY <1>1, <1>2
<1> QED
    BY <1>3 DEF NoNewAcquire, NoNewCreate

(* Mixers that connect and disconnect, callbacks that expire.              *)
LEMMA SessMixerConnection ==
    ASSUME NEW x, NEW s \in Sockets, Sess(x)
    PROVE  /\ Sess([x EXCEPT !.be = CbEventRegister(x.be, s)])
           /\ Sess([x EXCEPT !.be = CloseMixer(x.be, s)])
           /\ \A r \in Reqs : Sess([x EXCEPT !.be = UnregisterCallback(x.be, r)])
           /\ \A code : x.be.wire[s] # <<>> => Sess([x EXCEPT !.be = HandleAnswer(x.be, s, code)])
<1>0. x.be \in BackendStates
    BY VocsTyping DEF Sess
<1>1. x.be.wire \in [Sockets -> Seq(Messages)]
    BY <1>0, BackendTyping
<1>2. ASSUME NEW b \in BackendStates, NoNewAcquire(x.be.wire, b.wire) PROVE Sess([x EXCEPT !.be = b])
    BY <1>2, SessBe
<1>3. Sess([x EXCEPT !.be = CbEventRegister(x.be, s)])
  <2> DEFINE b == CbEventRegister(x.be, s)
  <2>1. b \in BackendStates /\ b.wire = [x.be.wire EXCEPT ![s] = <<>>]
    BY <1>0, RegisterFields
  <2> HIDE DEF b
  <2>2. NoNewAcquire(x.be.wire, b.wire)
    BY <1>1, <2>1, ShorterNothingNew
  <2>3. Sess([x EXCEPT !.be = b])
    BY <1>2, <2>1, <2>2
  <2> QED
    BY <2>3 DEF b
<1>4. Sess([x EXCEPT !.be = CloseMixer(x.be, s)])
  <2> DEFINE b == CloseMixer(x.be, s)
  <2>1. b \in BackendStates /\ b.wire = [x.be.wire EXCEPT ![s] = <<>>]
    BY <1>0, CloseMixerFields
  <2> HIDE DEF b
  <2>2. NoNewAcquire(x.be.wire, b.wire)
    BY <1>1, <2>1, ShorterNothingNew
  <2>3. Sess([x EXCEPT !.be = b])
    BY <1>2, <2>1, <2>2
  <2> QED
    BY <2>3 DEF b
<1>5. ASSUME NEW r \in Reqs PROVE Sess([x EXCEPT !.be = UnregisterCallback(x.be, r)])
  <2> DEFINE b == UnregisterCallback(x.be, r)
  <2>1. b \in BackendStates /\ b.wire = x.be.wire
    BY <1>0, CallbackFields
  <2> HIDE DEF b
  <2>2. NoNewAcquire(x.be.wire, b.wire)
    BY <2>1, NothingNew
  <2>3. Sess([x EXCEPT !.be = b])
    BY <1>2, <2>1, <2>2
  <2> QED
    BY <2>3 DEF b
<1>6. ASSUME NEW code, x.be.wire[s] # <<>> PROVE Sess([x EXCEPT !.be = HandleAnswer(x.be, s, code)])
  <2> DEFINE b == HandleAnswer(x.be, s, code)
  <2>1. AnswerHandled(x.be, s, code)
    BY <1>0, <1>6, HandleAnswerFields
  <2>2. /\ b \in BackendStates
        /\ b.wire = [x.be.wire EXCEPT ![s] = IF ForcesReconnect(x.be, s) THEN <<>> ELSE Tail(x.be.wire[s])]
    BY <2>1 DEF AnswerHandled
  <2> HIDE DEF b
  <2>3. \/ b.wire = [x.be.wire EXCEPT ![s] = <<>>]
        \/ b.wire = [x.be.wire EXCEPT ![s] = Tail(x.be.wire[s])]
    BY <2>2
  <2>4. NoNewAcquire(x.be.wire, b.wire)
    BY <1>1, <1>6, <2>3, ShorterNothingNew
  <2>5. Sess([x EXCEPT !.be = b])
    BY <1>2, <2>2, <2>4
  <2> QED
    BY <2>5 DEF b
<1> QED
    BY <1>3, <1>4, <1>5, <1>6

(* The session in the slot of a mixer that is lost.                        *)
LEMMA SessSlotLost ==
    ASSUME NEW x, NEW lost \in SUBSET Users, Sess(x)
    PROVE  Sess(SlotLost(x, lost))
<1>1. CASE lost = {}
    BY <1>1 DEF SlotLost
<1>2. CASE lost # {}
  <2> DEFINE S == CHOOSE u \in lost : TRUE
  <2>1. S \in Users /\ SlotLost(x, lost) = MixerLost(x, S)
    BY <1>2 DEF SlotLost
  <2> HIDE DEF S
  <2>2. SocketOf(x, S) \in Clients \cup {NoSocket}
    BY <2>1, SocketBound
  <2>3. Sess(MixerLost(x, S))
    BY <2>2, SessDropConnection DEF MixerLost
  <2> QED
    BY <2>1, <2>3
<1> QED
    BY <1>1, <1>2

(* An answer of a mixer.                                                   *)
LEMMA SessMixerAnswer ==
    ASSUME NEW x, NEW iss, NEW mk, NEW s \in Sockets, NEW code, Base(x, iss, mk), x.be.wire[s] # <<>>,
           Sess(x)
    PROVE  Sess(OnMixerAnswer(x, s, code))
<1> DEFINE m == Head(x.be.wire[s])
           y == [x EXCEPT !.be = HandleAnswer(x.be, s, code)]
           S == Occupant(x.be, s)
           lost == LostUser(AnswerRegistry(x.be, s, code), s)
           z == OnMixerAnswer(x, s, code)
<1>1. BeHeard(y, m, iss, mk) /\ ButBe(x, y)
    BY BaseAnswered
<1>2. /\ ForcesReconnect(x.be, s) => z = SlotLost(y, lost)
      /\ ~ForcesReconnect(x.be, s) /\ ~HasCallback(x.be, s) => z = y
      /\ ~ForcesReconnect(x.be, s) /\ HasCallback(x.be, s) =>
           /\ m.op = "acquire" => z = MixerAcquired(y, m.id, m.user, code)
           /\ m.op = "release" => z = MixerReleased(y, m.user)
           /\ m.op = "join" => z = MixerJoin(y, m.id, S, m.loop, code)
           /\ m.op = "leave" => z = MixerLeave(y, m.id, S, m.loop)
           /\ m.op = "volume" => z = MixerVolume(y, m.id, S)
    BY OnMixerAnswerCases
<1>3. S \in mk \cup {None} /\ S \in Users \cup {None}
    BY OccupantFacts DEF Base
<1>4. lost \in SUBSET Users
    BY DEF LostUser
<1>5. Sess(y)
    BY SessMixerConnection
<1>6. m \in In(x.be.wire[s])
  <2>1. x.be.wire[s] \in Seq(Messages)
    BY VocsTyping, BackendTyping DEF Sess
  <2> QED
    BY <2>1, QueueFacts
<1> HIDE DEF m, y, S, lost, z
<1>7. /\ m.user \in Users /\ m.user # None /\ (m.op \in LoopOps => m.loop \in Loops)
      /\ m.op \in {"acquire", "release"} \cup LoopOps
    BY <1>1, NoneAssumption DEF BeHeard, BeWorded, Base
<1>8. Sess(SlotLost(y, lost))
    BY <1>4, <1>5, SessSlotLost
<1>9. m.op = "acquire" => Sess(MixerAcquired(y, m.id, m.user, code))
  <2> SUFFICES ASSUME m.op = "acquire" PROVE Sess(MixerAcquired(y, m.id, m.user, code))
    OBVIOUS
  <2>1. NotAcquired(y.be.wire, m.user)
    BY <1>1 DEF BeHeard
  <2>2. y.sess[m.user] # NoSocket => ~y.conn[y.sess[m.user]].mixer
    BY <1>1, <1>6 DEF ButBe, Sess, Acquiring
  <2> QED
    BY <1>5, <1>7, <2>1, <2>2, SessMixerAcquired
<1>10. Sess(MixerReleased(y, m.user))
  <2>1. SocketOf(y, m.user) \in Clients \cup {NoSocket}
    BY <1>5, <1>7, SocketBound
  <2> QED
    BY <1>5, <2>1, SessDropConnection DEF MixerReleased
<1>11. m.op = "join" => Sess(MixerJoin(y, m.id, S, m.loop, code))
    BY <1>1, <1>3, <1>5, SessMixerJoin
<1>12. m.op \in {"leave", "volume"} => Sess(MixerLeave(y, m.id, S, m.loop)) /\ Sess(MixerVolume(y, m.id, S))
    BY <1>3, <1>5, <1>7, SessMixerLeave DEF LoopOps
<1>13. Sess(z)
    BY <1>2, <1>5, <1>7, <1>8, <1>9, <1>10, <1>11, <1>12 DEF LoopOps
<1> QED
    BY <1>13 DEF z

(* A mixer that is lost.                                                   *)
LEMMA SessMixerClose ==
    ASSUME NEW x, NEW s \in Sockets, Sess(x)
    PROVE  Sess(OnMixerClose(x, s))
<1> DEFINE y == [x EXCEPT !.be = CloseMixer(x.be, s)]
           lost == LostUser(x.be, s)
<1>1. lost \in SUBSET Users
    BY DEF LostUser
<1>2. Sess(y)
    BY SessMixerConnection
<1>3. OnMixerClose(x, s) = SlotLost(y, lost)
    BY DEF OnMixerClose
<1> HIDE DEF y, lost
<1> QED
    BY <1>1, <1>2, <1>3, SessSlotLost

-----------------------------------------------------------------------------
(* What proxies say.                                                       *)

(* Whatever has been said is taken off the queue, and its session is       *)
(* refused, updated or failed.                                             *)
LEMMA SessConsumed ==
    ASSUME NEW x, NEW p \in Proxies, x.fe.wire[p] # <<>>, Sess(x)
    PROVE  Sess([x EXCEPT !.fe = FE!Consume(x.fe, p)])
<1> DEFINE V == x.fe.wire
           f == FE!Consume(x.fe, p)
<1>1. f \in FE!FrontendStates /\ f.wire = [V EXCEPT ![p] = Tail(V[p])] /\ V \in [Proxies -> Seq(FE!ProxyMessages)]
    BY VocsTyping, FrontendTyping, ConsumeFields DEF Sess
<1> HIDE DEF f
<1>2. NoNewCreate(V, f.wire)
    BY <1>1, ShorterNothingNew
<1>3. Sess([x EXCEPT !.fe = f])
    BY <1>1, <1>2, SessFe
<1> QED
    BY <1>3 DEF f

(* The frontend's part of an answer of a proxy.                            *)
LEMMA SessFrontendHears ==
    ASSUME NEW x, NEW p \in Proxies, NEW S \in Users, x.fe.wire[p] # <<>>, Sess(x)
    PROVE  /\ NoNewCreate(x.fe.wire, FE!SessionCreated(x.fe, p, S).wire)
           /\ Sess([x EXCEPT !.fe = FE!SessionCreated(x.fe, p, S)])
           /\ FE!Said(x.fe, p).session \in Users =>
                /\ Sess([x EXCEPT !.fe = FE!SessionDropped(x.fe, p)])
                /\ FE!Said(x.fe, p).loop \in Loops => Sess([x EXCEPT !.fe = FE!Talked(x.fe, p)])
<1> DEFINE V == x.fe.wire
<1>0. x.fe \in FE!FrontendStates
    BY VocsTyping DEF Sess
<1>1. V \in [Proxies -> Seq(FE!ProxyMessages)]
    BY <1>0, FrontendTyping
<1>2. ASSUME NEW f \in FE!FrontendStates, f.wire = [V EXCEPT ![p] = Tail(V[p])]
      PROVE  NoNewCreate(V, f.wire) /\ Sess([x EXCEPT !.fe = f])
  <2>1. NoNewCreate(V, f.wire)
    BY <1>1, <1>2, ShorterNothingNew
  <2> QED
    BY <2>1, SessFe
<1>3. CreateHandled(x.fe, FE!SessionCreated(x.fe, p, S), p, S)
    BY <1>0, SessionCreatedFields
<1>4. ASSUME FE!Said(x.fe, p).session \in Users
      PROVE  /\ Sess([x EXCEPT !.fe = FE!SessionDropped(x.fe, p)])
             /\ FE!Said(x.fe, p).loop \in Loops => Sess([x EXCEPT !.fe = FE!Talked(x.fe, p)])
  <2>1. /\ DropHandled(x.fe, FE!SessionDropped(x.fe, p), p, FE!Said(x.fe, p).session)
        /\ FE!Said(x.fe, p).loop \in Loops =>
             TalkHandled(x.fe, FE!Talked(x.fe, p), p, FE!Said(x.fe, p))
    BY <1>0, <1>4, SessionDroppedFields, TalkedFields
  <2> DEFINE g == FE!SessionDropped(x.fe, p)
             h == FE!Talked(x.fe, p)
  <2>2. /\ g \in FE!FrontendStates /\ g.wire = [V EXCEPT ![p] = Tail(V[p])]
        /\ FE!Said(x.fe, p).loop \in Loops =>
             h \in FE!FrontendStates /\ h.wire = [V EXCEPT ![p] = Tail(V[p])]
    BY <2>1 DEF DropHandled, TalkHandled
  <2> HIDE DEF g, h, V
  <2>3. Sess([x EXCEPT !.fe = g]) /\ (FE!Said(x.fe, p).loop \in Loops => Sess([x EXCEPT !.fe = h]))
    BY <1>2, <2>2
  <2> QED
    BY <2>3 DEF g, h
<1>5. FE!SessionCreated(x.fe, p, S) \in FE!FrontendStates /\ FE!SessionCreated(x.fe, p, S).wire = [V EXCEPT ![p] = Tail(V[p])]
    BY <1>3 DEF CreateHandled
<1> DEFINE a == FE!SessionCreated(x.fe, p, S)
<1> HIDE DEF a, V
<1>6. NoNewCreate(V, a.wire) /\ Sess([x EXCEPT !.fe = a])
    BY <1>2, <1>5 DEF a
<1> QED
    BY <1>4, <1>6 DEF a, V

(* A session is dropped at its proxy.                                      *)
LEMMA SessFrontendDrops ==
    ASSUME NEW x, NEW S \in Users, Sess(x)
    PROVE  Sess(FrontendDrop(x, S))
<1> DEFINE f == FE!DropSession(x.fe, S)
           V == x.fe.wire
<1>0. x.fe \in FE!FrontendStates
    BY VocsTyping DEF Sess
<1>1. f \in FE!FrontendStates /\ NoNewCreate(V, f.wire)
    BY <1>0, EndNothingNew
<1>2. FrontendDrop(x, S) = [x EXCEPT !.fe = f]
    BY DEF FrontendDrop
<1> HIDE DEF f
<1> QED
    BY <1>1, <1>2, SessFe

(* A proxy connects, a proxy is lost.                                      *)
LEMMA SessProxyConnection ==
    ASSUME NEW x, NEW p \in Proxies, NEW kept \in SUBSET Users, Sess(x)
    PROVE  /\ Sess([x EXCEPT !.fe = FE!RegisterProxy(x.fe, p)])
           /\ Sess([x EXCEPT !.fe = FE!UnregisterProxy(x.fe, p, kept)])
<1> DEFINE V == x.fe.wire
<1>0. x.fe \in FE!FrontendStates
    BY VocsTyping DEF Sess
<1>1. V \in [Proxies -> Seq(FE!ProxyMessages)]
    BY <1>0, FrontendTyping
<1>2. ASSUME NEW f \in FE!FrontendStates, NoNewCreate(V, f.wire) PROVE Sess([x EXCEPT !.fe = f])
    BY <1>2, SessFe
<1>3. Sess([x EXCEPT !.fe = FE!RegisterProxy(x.fe, p)])
  <2> DEFINE f == FE!RegisterProxy(x.fe, p)
  <2>1. f \in FE!FrontendStates /\ f.wire = [V EXCEPT ![p] = <<>>]
    BY <1>0, RegisterProxyFields
  <2> HIDE DEF f, V
  <2>2. NoNewCreate(V, f.wire)
    BY <1>1, <2>1, ShorterNothingNew
  <2>3. Sess([x EXCEPT !.fe = f])
    BY <1>2, <2>1, <2>2
  <2> QED
    BY <2>3 DEF f
<1>4. Sess([x EXCEPT !.fe = FE!UnregisterProxy(x.fe, p, kept)])
  <2> DEFINE f == FE!UnregisterProxy(x.fe, p, kept)
  <2>0. ProxyGone(x.fe, f, p, kept)
    BY <1>0, UnregisterProxyFields
  <2> HIDE DEF f
  <2>1. f \in FE!FrontendStates /\ f.wire = [V EXCEPT ![p] = <<>>]
    BY <2>0 DEF ProxyGone
  <2> HIDE DEF V
  <2>2. NoNewCreate(V, f.wire)
    BY <1>1, <2>1, ShorterNothingNew
  <2>3. Sess([x EXCEPT !.fe = f])
    BY <1>2, <2>1, <2>2
  <2> QED
    BY <2>3 DEF f
<1> QED
    BY <1>3, <1>4

(* Sessions that end.                                                      *)
LEMMA SessFrontendStep ==
    ASSUME NEW x, NEW p \in Proxies, NEW S \in Users, Sess(x)
    PROVE  /\ Sess([x EXCEPT !.fe = FE!EndSession(x.fe, p, S)])
           /\ Sess([x EXCEPT !.fe = FE!IceFailed(x.fe, p, S)])
           /\ Sess(FrontendDrop(x, S))
<1> DEFINE V == x.fe.wire
<1>0. x.fe \in FE!FrontendStates
    BY VocsTyping DEF Sess
<1>1. V \in [Proxies -> Seq(FE!ProxyMessages)]
    BY <1>0, FrontendTyping
<1>2. ASSUME NEW f \in FE!FrontendStates, NoNewCreate(V, f.wire) PROVE Sess([x EXCEPT !.fe = f])
    BY <1>2, SessFe
<1>5. Sess([x EXCEPT !.fe = FE!EndSession(x.fe, p, S)])
  <2> DEFINE f == FE!EndSession(x.fe, p, S)
  <2>1. f \in FE!FrontendStates /\ f.wire = V
    BY <1>0, EndSessionFields, ZenonT(30) DEF SessionEnded
  <2> HIDE DEF f, V
  <2>2. NoNewCreate(V, f.wire)
    BY <2>1, NothingNew
  <2>3. Sess([x EXCEPT !.fe = f])
    BY <1>2, <2>1, <2>2
  <2> QED
    BY <2>3 DEF f
<1>6. Sess([x EXCEPT !.fe = FE!IceFailed(x.fe, p, S)])
  <2> DEFINE f == FE!IceFailed(x.fe, p, S)
             m == FE!ProxyMessage("failed", None, S, None)
  <2>a. SessionEnded(x.fe, f, p, S)
    BY <1>0, IceFailedFields, Zenon
  <2>b. f.wire = [V EXCEPT ![p] = <<m>> \o V[p]]
    BY <1>0, IceFailedFields, Zenon
  <2>0. SessionEnded(x.fe, f, p, S) /\ f.wire = [V EXCEPT ![p] = <<m>> \o V[p]]
    BY <2>a, <2>b
  <2>2. m \in FE!ProxyMessages /\ m.op = "failed"
    BY DEF FE!FrontendOps, FE!ProxyMessages, FE!ProxyMessage
  <2> HIDE DEF f, V, m
  <2>1. f \in FE!FrontendStates /\ f.wire = [V EXCEPT ![p] = <<m>> \o V[p]]
    BY <2>0 DEF SessionEnded
  <2>3. In(<<m>> \o V[p]) = In(V[p]) \cup {m}
    BY <1>1, <2>2, QueueFacts
  <2>4. \A q \in Proxies : f.wire[q] = IF q = p THEN <<m>> \o V[p] ELSE V[q]
    BY <1>1, <2>1
  <2>5. NoNewCreate(V, f.wire)
    BY <2>2, <2>3, <2>4 DEF NoNewCreate
  <2>6. Sess([x EXCEPT !.fe = f])
    BY <1>2, <2>1, <2>5
  <2> QED
    BY <2>6 DEF f
<1>7. Sess(FrontendDrop(x, S))
    BY SessFrontendDrops
<1> QED
    BY <1>5, <1>6, <1>7

(* The end of a session, and ICE that completes or fails.                  *)
LEMMA SessCompleted ==
    ASSUME NEW x, NEW S \in Users \cup {None}, NEW success \in BOOLEAN, Sess(x)
    PROVE  Sess(SessionDropped(x, S)) /\ Sess(SessionCompleted(x, S, success))
<1> DEFINE c == SocketOf(x, S)
           z == Announce([x EXCEPT !.conn[c].ice = TRUE], c)
           d == [x.conn[c] EXCEPT !.ice = TRUE]
<1>1. c \in Clients \cup {NoSocket} /\ (c # NoSocket => x.conn[c].session # None)
    BY SocketBound
<1>2. /\ SessionDropped(x, S) = DropConnection(x, c, FALSE, TRUE)
      /\ SessionCompleted(x, S, success) =
           IF ~success THEN DropConnection(x, c, FALSE, TRUE)
           ELSE IF c = NoSocket \/ x.conn[c].ice THEN x ELSE z
    BY DEF SessionDropped, SessionCompleted
<1> HIDE DEF c
<1>3. Sess(DropConnection(x, c, FALSE, TRUE))
    BY <1>1, SessDropConnection
<1>4. ASSUME c # NoSocket, ~x.conn[c].ice PROVE Sess(z)
  <2>1. c \in Clients /\ x \in VocsStates /\ x.conn[c] \in Conns /\ x.conn[c].session # None
    BY <1>1, <1>4, VocsTyping DEF Sess
  <2>2. Announced(x, z, c, d)
    BY <2>1, AnnounceFields
  <2>3. d \in Conns /\ d.session = x.conn[c].session /\ d.ice /\ d.mixer = x.conn[c].mixer
    BY <2>1 DEF Conns
  <2> HIDE DEF d, z
  <2> QED
    BY <1>4, <2>1, <2>2, <2>3, SessAnnounced
<1> HIDE DEF z
<1> QED
    BY <1>2, <1>3, <1>4

(* A session is bound to the connection that waits for it and has none.    *)
LEMMA SessBinding ==
    ASSUME NEW x, NEW y, NEW r, NEW S \in Users, NEW c \in Clients, Sess(x), Binding(x, y, r, S, c),
           x.conn[c].session = None, x.sess[S] = NoSocket, NotAcquired(x.be.wire, S),
           \A g \in y.async : CreateAwaited(x, g) => g.sock # c
    PROVE  Sess(y) /\ ~y.conn[c].mixer /\ y.sess[S] = c
<1>0. x \in VocsStates /\ y \in VocsStates
    BY DEF Sess, Binding
<1>1. /\ x.conn \in [Clients -> Conns] /\ x.sess \in [Users -> Clients \cup {NoSocket}]
      /\ x.be \in BackendStates /\ x.async \subseteq Entries /\ NoSocket \notin Clients
      /\ None \notin Users /\ x.conn[c] \in Conns
    BY <1>0, VocsTyping, NoneAssumption
<1>2. /\ y.conn = [x.conn EXCEPT ![c] = [x.conn[c] EXCEPT !.session = S]]
      /\ y.sess = [x.sess EXCEPT ![S] = c] /\ y.async \subseteq x.async
      /\ y.be = x.be /\ y.fe = x.fe /\ y.ready = x.ready
    BY DEF Binding
<1>3. Bound(x) /\ Creating(x) /\ MediaTold(x) /\ Acquiring(x)
    BY DEF Sess
<1>4. /\ \A k \in Clients : k # c => y.conn[k] = x.conn[k]
      /\ y.conn[c].session = S /\ y.conn[c].ice = x.conn[c].ice /\ y.conn[c].mixer = x.conn[c].mixer
      /\ \A T \in Users : T # S => y.sess[T] = x.sess[T]
      /\ y.sess[S] = c
    BY <1>1, <1>2 DEF Conns
<1>5. Bound(y)
    BY <1>1, <1>3, <1>4 DEF Bound
<1>6. Creating(y)
  <2>1. \A g : CreateAwaited(y, g) => CreateAwaited(x, g) /\ g \in x.async /\ g.sock \in Clients
    BY <1>1, <1>2 DEF CreateAwaited, Entries
  <2> QED
    BY <1>2, <1>3, <1>4, <2>1 DEF Creating
<1>7. MediaTold(y)
    BY <1>2, <1>3, <1>4 DEF MediaTold
<1>8. Acquiring(y)
  <2> SUFFICES ASSUME NEW s \in Sockets, NEW m \in In(y.be.wire[s]), m.op = "acquire",
                      y.sess[m.user] # NoSocket
               PROVE  ~y.conn[y.sess[m.user]].mixer
    BY DEF Acquiring
  <2>1. m \in Messages /\ m \in In(x.be.wire[s])
    BY <1>1, <1>2, BackendTyping, QueueFacts
  <2>2. m.user \in Users /\ m.user # S
    BY <2>1 DEF Messages, NotAcquired
  <2>3. y.sess[m.user] = x.sess[m.user] /\ x.sess[m.user] \in Clients
    BY <1>1, <1>4, <2>2
  <2>4. x.sess[m.user] # c
    BY <1>1, <1>3, <2>2, <2>3 DEF Bound
  <2> QED
    BY <1>3, <1>4, <2>1, <2>3, <2>4 DEF Acquiring
<1>9. ~y.conn[c].mixer
    BY <1>3, <1>4 DEF MediaTold
<1> QED
    BY <1>0, <1>4, <1>5, <1>6, <1>7, <1>8, <1>9 DEF Sess

(* The mixer that was free and is asked for.                               *)
LEMMA SessAcquire ==
    ASSUME NEW x, NEW r \in Reqs, NEW S \in Users, NEW c \in Clients, Sess(x), MixerAvailable(x.be),
           x.sess[S] = c, ~x.conn[c].mixer
    PROVE  Sess([x EXCEPT !.be = AcquireMixer(x.be, r, S)])
<1> DEFINE b == AcquireMixer(x.be, r, S)
           s == FirstFree(x.be)
           m == Message("acquire", r, S, None)
           y == [x EXCEPT !.be = b]
<1>0. x \in VocsStates /\ x.be \in BackendStates
    BY VocsTyping DEF Sess
<1>1. /\ b \in BackendStates /\ s \in Sockets /\ x.be.slot[s] = Free
      /\ b.slot = [x.be.slot EXCEPT ![s] = S] /\ b.users = [x.be.users EXCEPT ![S] = s]
      /\ b.mix = x.be.mix /\ b.wire = [x.be.wire EXCEPT ![s] = Append(@, m)]
    BY <1>0, AcquireMixerFields, SMTT(20)
<1>2. m \in Messages /\ m.op = "acquire" /\ m.user = S
    BY NoneAssumption DEF Message, Messages, BackendOps
<1> HIDE DEF b, s, m
<1>3. y \in VocsStates /\ y.be = b /\ ButBe(x, y)
    BY <1>0, <1>1, WithBe
<1> HIDE DEF y
<1>4. \A t \in Sockets : \A n \in In(b.wire[t]) : n \in In(x.be.wire[t]) \/ n = m
  <2>1. x.be.wire \in [Sockets -> Seq(Messages)] /\ x.be.wire[s] \in Seq(Messages)
    BY <1>0, <1>1, BackendTyping
  <2>2. In(Append(x.be.wire[s], m)) = In(x.be.wire[s]) \cup {m}
    BY <1>2, <2>1, QueueFacts
  <2>3. \A t \in Sockets : b.wire[t] = IF t = s THEN Append(x.be.wire[s], m) ELSE x.be.wire[t]
    BY <1>1, <2>1
  <2> QED
    BY <2>2, <2>3
<1>5. Acquiring(y)
    BY <1>2, <1>3, <1>4 DEF Acquiring, Sess, ButBe
<1>6. Bound(y) /\ MediaTold(y)
    BY <1>3 DEF Sess, Bound, MediaTold, ButBe
<1>7. Creating(y)
  <2>1. \A g : CreateAwaited(y, g) <=> CreateAwaited(x, g)
    BY <1>3 DEF CreateAwaited, ButBe
  <2> QED
    BY <1>3, <2>1 DEF Sess, Creating, ButBe
<1> QED
    BY <1>3, <1>5, <1>6, <1>7 DEF Sess, y, b

(* Who waits with uuid r has no session, and nobody waits on its behalf    *)
(* with another uuid.                                                      *)
WaitsAlone(x, r) ==
    AsyncHas(x, r) =>
        /\ x.conn[AsyncGet(x, r).sock].session = None
        /\ \A g \in x.async : CreateAwaited(x, g) /\ g.id # r => g.sock # AsyncGet(x, r).sock

(* A session is made for who waits for it, or for nobody any more.         *)
LEMMA SessSessionCreated ==
    ASSUME NEW x, NEW r \in Reqs, NEW S \in Users, Sess(x), NotAcquired(x.be.wire, S),
           x.sess[S] = NoSocket, WaitsAlone(x, r)
    PROVE  Sess(SessionCreated(x, r, S))
<1> DEFINE c == AsyncGet(x, r).sock
           b == [AsyncUnset(x, r) EXCEPT !.sess[S] = c, !.conn[c].session = S]
           q == [b EXCEPT !.be = AcquireMixer(b.be, r, S)]
           n == MixerAcquired(b, r, S, "error")
           y == IF MixerAvailable(x.be) THEN q ELSE n
<1>0. x \in VocsStates
    BY DEF Sess
<1>1. SessionCreated(x, r, S) = IF ~AsyncHas(x, r) THEN FrontendDrop(x, S)
                                ELSE IF y.up[c] THEN Respond(y, r, c) ELSE FrontendDrop(y, S)
    BY DEF SessionCreated
<1>2. Sess(FrontendDrop(x, S))
    BY SessFrontendDrops
<1>3. CASE AsyncHas(x, r)
  <2>1. c \in Clients
    BY <1>0, <1>3, AsyncFound
  <2>a. x.conn[c].session = None /\ \A g \in x.async : CreateAwaited(x, g) /\ g.id # r => g.sock # c
    BY <1>3 DEF WaitsAlone
  <2> HIDE DEF c
  <2>2. Binding(x, b, r, S, c)
    BY <1>0, <2>1, BindingFields
  <2> HIDE DEF b
  <2>b. b.be = x.be /\ b.async = {e \in x.async : e.id # r}
    BY <2>2 DEF Binding
  <2>c. \A g \in b.async : CreateAwaited(x, g) => g.sock # c
    BY <2>a, <2>b
  <2>3. Sess(b) /\ ~b.conn[c].mixer /\ b.sess[S] = c
    BY <2>1, <2>2, <2>a, <2>c, SessBinding
  <2>4. Sess(n)
    BY <2>3, <2>b, SessMixerAcquired
  <2>5. MixerAvailable(x.be) => Sess(q)
    BY <2>1, <2>3, <2>b, SessAcquire
  <2> HIDE DEF n, q
  <2>6. Sess(y)
    BY <2>4, <2>5
  <2> HIDE DEF y
  <2>7. Sess(Respond(y, r, c)) /\ Sess(FrontendDrop(y, S))
    BY <2>6, SessStore, SessFrontendDrops
  <2> QED
    BY <1>1, <1>3, <2>7
<1> QED
    BY <1>1, <1>2, <1>3

(* An answer to a create that succeeds.                                    *)
LEMMA SessProxyCreated ==
    ASSUME NEW x, NEW iss, NEW mk, NEW p \in Proxies, NEW S \in Users \ mk, Base(x, iss, mk), Sess(x),
           x.fe.wire[p] # <<>>, FE!Said(x.fe, p).op = "create"
    PROVE  Sess(OnProxyCreated(x, p, S))
<1> DEFINE y == [x EXCEPT !.fe = FE!SessionCreated(x.fe, p, S)]
           m == FE!Said(x.fe, p)
           r == m.id
           e == AsyncGet(x, r)
<1>0. m \in In(x.fe.wire[p]) /\ FeWorded(m, iss, mk)
    BY SaidWorded
<1>a. NotAcquired(y.be.wire, S)
    BY BaseCreateHeard
<1>b. ButFe(x, y) /\ y.fe = FE!SessionCreated(x.fe, p, S)
    BY DEF ButFe, Sess, VocsStates
<1>1. NotAcquired(y.be.wire, S) /\ ButFe(x, y) /\ y.fe = FE!SessionCreated(x.fe, p, S)
    BY <1>a, <1>b
<1>2. OnProxyCreated(x, p, S) = SessionCreated(y, r, S) /\ m.op = "create"
    BY DEF OnProxyCreated
<1>3. Sess(y) /\ NoNewCreate(x.fe.wire, FE!SessionCreated(x.fe, p, S).wire)
    BY SessFrontendHears
<1> HIDE DEF y, m
<1>4. y.sess[S] = NoSocket /\ r \in Reqs
    BY <1>0, <1>1, <1>2 DEF Base, Unknown, ButFe, FeWorded, ClientReqs
<1>5. y.async = x.async /\ AsyncGet(y, r) = e /\ (AsyncHas(y, r) <=> AsyncHas(x, r)) /\ y.conn = x.conn
    BY <1>1 DEF ButFe, AsyncGet, AsyncHas
<1>6. \A g : CreateAwaited(y, g) => CreateAwaited(x, g)
    BY <1>1, <1>3, <1>5, AwaitedStill
<1>7. WaitsAlone(y, r)
  <2> SUFFICES ASSUME AsyncHas(x, r)
               PROVE  /\ x.conn[e.sock].session = None
                      /\ \A g \in x.async : CreateAwaited(x, g) /\ g.id # r => g.sock # e.sock
    BY <1>5, <1>6 DEF WaitsAlone
  <2>1. e \in x.async /\ e.id = r
    BY AsyncFound DEF Sess
  <2> HIDE DEF e
  <2>2. CreateAwaited(x, e)
    BY <1>0, <1>2, <2>1 DEF CreateAwaited
  <2>3. x.conn[e.sock].session = None /\ \A g \in x.async : CreateAwaited(x, g) /\ g.sock = e.sock => g = e
    BY <2>1, <2>2 DEF Sess, Creating
  <2> QED
    BY <2>1, <2>3
<1> HIDE DEF r
<1>8. Sess(SessionCreated(y, r, S))
    BY <1>1, <1>3, <1>4, <1>7, SessSessionCreated
<1> QED
    BY <1>2, <1>8

(* An answer to a request to talk or to stop talking.                      *)
LEMMA SessFrontendTalk ==
    ASSUME NEW x, NEW iss, NEW mk, NEW m, FeHeard(x, m, iss, mk), m.op \in TalkOps,
           NEW on \in BOOLEAN, NEW ok \in BOOLEAN, Sess(x)
    PROVE  Sess(FrontendTalk(x, m.id, m.session, m.loop, on, ok))
<1> DEFINE r == m.id
           S == m.session
           l == m.loop
           e == AsyncGet(x, r)
           c == e.sock
           st == IF on THEN "send" ELSE "recv"
           y == AsyncUnset(x, r)
           w == [y EXCEPT !.conn[c].loops[l] = st]
           a == AsyncSet(w, e)
           v1 == LeaveLoop(a, r, S, l)
<1>0. /\ x \in VocsStates /\ Unused(x.be.wire, x.fe.wire, r) /\ r \in ClientReqs /\ r \in Reqs
      /\ S \in Users /\ l \in Loops
  <2>1. FeWorded(m, iss, mk) /\ m.op \in TalkOps /\ Base(x, iss, mk) /\ Unused(x.be.wire, x.fe.wire, r)
    BY DEF FeHeard
  <2> QED
    BY <2>1 DEF FeWorded, TalkOps, Base, ClientReqs
<1>1. FrontendTalk(x, r, S, l, on, ok) =
        IF ~AsyncHas(x, r) THEN x
        ELSE IF ~ok THEN Respond(y, r, c)
        ELSE IF ~KnownClient(x, c) THEN DropConnection(y, c, TRUE, TRUE)
        ELSE IF e.want # "none" THEN Respond(w, r, c)
        ELSE IF HasMixer(x.be, S) THEN v1
        ELSE DropConnection(v1, c, TRUE, TRUE)
    BY DEF FrontendTalk
<1>2. CASE ~AsyncHas(x, r)
    BY <1>1, <1>2
<1>3. CASE AsyncHas(x, r)
  <2>1. e \in x.async /\ e.id = r /\ e \in Entries /\ c \in Clients
    BY <1>0, <1>3, AsyncFound
  <2>3. Sess(y) /\ Sess(Respond(y, r, c)) /\ Taken(x, y, r)
    BY <1>0, SessStore, TakenFields
  <2> HIDE DEF r, S, l, e, c, y
  <2>4. Sess(DropConnection(y, c, TRUE, TRUE))
    BY <2>1, <2>3, SessDropConnection
  <2>5. LoopSet(y, w, c, l, st) /\ Sess(w)
    <3>1. y \in VocsStates /\ st \in LoopStates /\ y.parts \in SUBSET (Loops \X Clients)
        BY <2>3, VocsTyping DEF Sess, LoopStates
    <3> HIDE DEF st
    <3> QED
        BY <1>0, <2>1, <2>3, <3>1, LoopSetFields, SessLoopState
  <2> HIDE DEF w
  <2>6. Sess(Respond(w, r, c))
    BY <2>5, SessStore
  <2>7. w.fe = x.fe
    BY <2>3, <2>5 DEF LoopSet, Taken, ButStore
  <2>8. Unmade(w.fe.wire, e.id)
    BY <1>0, <2>1, <2>7, FreshUnmade
  <2>9. Sess(a)
    BY <2>1, <2>5, <2>8, SessSet
  <2> HIDE DEF a
  <2>10. Sess(v1)
    BY <1>0, <2>9, SessLeaveLoop
  <2> HIDE DEF v1
  <2>11. Sess(DropConnection(v1, c, TRUE, TRUE))
    BY <2>1, <2>10, SessDropConnection
  <2>12. FrontendTalk(x, r, S, l, on, ok) \in
            {Respond(y, r, c), DropConnection(y, c, TRUE, TRUE), Respond(w, r, c), v1,
             DropConnection(v1, c, TRUE, TRUE)}
    BY <1>1, <1>3
  <2>13. Sess(FrontendTalk(x, r, S, l, on, ok))
    BY <2>3, <2>4, <2>6, <2>10, <2>11, <2>12
  <2> QED
    BY <2>13 DEF r, S, l
<1> QED
    BY <1>2, <1>3

(* Something a proxy says, other than about a request of ICE or create.    *)
LEMMA SessProxyAnswer ==
    ASSUME NEW x, NEW iss, NEW mk, NEW p \in Proxies, Base(x, iss, mk), Sess(x), x.fe.wire[p] # <<>>,
           FE!Said(x.fe, p).op \notin {"create", "update", "candidate"}
    PROVE  Sess(OnProxyAnswer(x, p))
<1> DEFINE m == FE!Said(x.fe, p)
           S == m.session
<1>0. FeWorded(m, iss, mk) /\ m \in FE!ProxyMessages /\ m = Head(x.fe.wire[p])
    BY SaidWorded
<1>1. m.op \in {"drop", "failed"} \cup TalkOps
    BY <1>0 DEF FE!ProxyMessages, FE!FrontendOps, TalkOps
<1>2. S \in Users /\ FALSE \in BOOLEAN /\ {} \in SUBSET Users
    BY <1>0 DEF FeWorded, Base
<1>3. CASE m.op = "drop" /\ FE!DropFails(x.fe, p)
  <2> DEFINE y == [x EXCEPT !.fe = FE!EndSession(x.fe, p, S)]
  <2>1. Sess(y)
    BY <1>2, SessFrontendStep
  <2>2. OnProxyAnswer(x, p) = SessionCompleted(y, S, FALSE)
    BY <1>3, OnProxyAnswerCases
  <2> HIDE DEF y
  <2> QED
    BY <1>2, <2>1, <2>2, SessCompleted
<1>4. CASE m.op = "drop" /\ ~FE!DropFails(x.fe, p)
  <2> DEFINE y == [x EXCEPT !.fe = FE!SessionDropped(x.fe, p)]
  <2>1. Sess(y)
    BY <1>2, SessFrontendHears
  <2>2. OnProxyAnswer(x, p) = SessionDropped(y, S)
    BY <1>4, OnProxyAnswerCases
  <2> HIDE DEF y
  <2> QED
    BY <1>2, <2>1, <2>2, SessCompleted
<1>5. CASE m.op = "failed"
  <2> DEFINE y == [x EXCEPT !.fe = FE!Consume(x.fe, p)]
  <2>1. Sess(y)
    BY SessConsumed
  <2>2. OnProxyAnswer(x, p) = SessionCompleted(y, S, FALSE)
    BY <1>5, OnProxyAnswerCases
  <2> HIDE DEF y
  <2> QED
    BY <1>2, <2>1, <2>2, SessCompleted
<1>6. CASE m.op \in TalkOps
  <2> DEFINE y == [x EXCEPT !.fe = FE!Talked(x.fe, p)]
             on == m.op = "talk on"
             ok == FE!TalkSucceeds(x.fe, p)
  <2>0. m.loop \in Loops
    BY <1>0, <1>6 DEF FeWorded
  <2>1. FeHeard(y, m, iss, mk)
    BY <1>0, <1>6, BaseTalkHeard
  <2>2. Sess(y)
    BY <1>2, <2>0, SessFrontendHears
  <2>3. OnProxyAnswer(x, p) = FrontendTalk(y, m.id, m.session, m.loop, on, ok)
    BY <1>6, OnProxyAnswerCases
  <2>4. on \in BOOLEAN /\ ok \in BOOLEAN
    BY DEF FE!TalkSucceeds
  <2> HIDE DEF y, on, ok, m
  <2> QED
    BY <1>6, <2>1, <2>2, <2>3, <2>4, SessFrontendTalk
<1> QED
    BY <1>1, <1>3, <1>4, <1>5, <1>6

(* Answers to create, update and candidate, and ICE that fails.            *)
LEMMA SessProxyMore ==
    ASSUME NEW x, NEW p \in Proxies, NEW ok, Sess(x)
    PROVE  /\ x.fe.wire[p] # <<>> => /\ Sess(OnProxyRefused(x, p)) /\ Sess(OnProxyUpdated(x, p))
                                     /\ Sess(OnProxyCandidate(x, p, ok))
           /\ \A S \in Users : Sess(OnIceFailed(x, p, S))
<1>1. ASSUME x.fe.wire[p] # <<>>
      PROVE  /\ Sess(OnProxyRefused(x, p)) /\ Sess(OnProxyUpdated(x, p))
             /\ Sess(OnProxyCandidate(x, p, ok))
  <2> DEFINE y == [x EXCEPT !.fe = FE!Consume(x.fe, p)]
             r == FE!Said(x.fe, p).id
             c == AsyncGet(y, r).sock
             k == IF ok THEN SocketOf(y, FE!Said(x.fe, p).session) ELSE NoSocket
  <2>1. Sess(y)
    BY <1>1, SessConsumed
  <2>2. /\ OnProxyRefused(x, p) \in {y, Respond(AsyncUnset(y, r), r, c)}
        /\ OnProxyUpdated(x, p) \in {y, Respond(AsyncUnset(y, r), r, c)}
        /\ OnProxyCandidate(x, p, ok) = Respond(AsyncUnset(y, r), r, k)
    BY DEF OnProxyRefused, OnProxyUpdated, OnProxyCandidate, SessionRefused, SessionUpdated, CandidateAnswered
  <2> HIDE DEF y, r, c, k
  <2>3. Sess(Respond(AsyncUnset(y, r), r, c)) /\ Sess(Respond(AsyncUnset(y, r), r, k))
    BY <2>1, SessStore
  <2> QED
    BY <2>1, <2>2, <2>3
<1>2. ASSUME NEW S \in Users PROVE Sess(OnIceFailed(x, p, S))
  <2> DEFINE y == [x EXCEPT !.fe = FE!IceFailed(x.fe, p, S)]
  <2>0. {} \in SUBSET Users /\ FALSE \in BOOLEAN
    OBVIOUS
  <2>1. Sess(y)
    BY <2>0, SessFrontendStep
  <2>2. OnIceFailed(x, p, S) = SessionCompleted(y, S, FALSE)
    BY DEF OnIceFailed
  <2> HIDE DEF y
  <2> QED
    BY <2>0, <2>1, <2>2, SessCompleted
<1> QED
    BY <1>1, <1>2

(* A proxy is lost and its sessions are dropped one after the other.       *)
LEMMA SessProxyLost ==
    ASSUME NEW x, NEW iss, NEW mk, NEW p \in Proxies, NEW kept \in SUBSET x.fe.live[p], Base(x, iss, mk),
           Sess(x)
    PROVE  Sess(OnProxyLost(x, p, kept))
<1> DEFINE y == [x EXCEPT !.fe = FE!UnregisterProxy(x.fe, p, kept)]
           Ss == x.fe.owned[p]
           T == {z \in VocsStates : Sess(z)}
<1>0. x.fe \in FE!FrontendStates /\ kept \in SUBSET Users /\ IsFiniteSet(Ss) /\ Ss \subseteq Users
    BY VocsTyping, FrontendTyping DEF Base, FiniteTables
<1>1. Sess(y)
    BY <1>0, SessProxyConnection
<1>2. OnProxyLost(x, p, kept) = AfterDrops(y, Ss)[Ss]
    BY LostIsIteration
<1> HIDE DEF y, Ss
<1>3. y \in T
    BY <1>1 DEF Sess
<1>4. \A z \in T, S \in Ss : SessionDropped(z, S) \in T
  <2> SUFFICES ASSUME NEW z \in T, NEW S \in Ss PROVE SessionDropped(z, S) \in T
    OBVIOUS
  <2>1. Sess(SessionDropped(z, S))
    BY <1>0, SessCompleted
  <2> QED
    BY <2>1 DEF Sess
<1> HIDE DEF T
<1>5. AfterDrops(y, Ss)[Ss] \in T
    BY <1>0, <1>3, <1>4, DropsStay
<1> QED
    BY <1>2, <1>5 DEF T

-----------------------------------------------------------------------------
(* The invariant of sessions from the first state on.                      *)

(* Nothing is under way and no session is known.                           *)
LEMMA SessFresher ==
    ASSUME NEW y, Fresher(y)
    PROVE  Sess(y)
<1>0. /\ y \in VocsStates /\ y.async = {} /\ y.ready = [c \in Clients |-> 0]
      /\ y.conn = [c \in Clients |-> NoData] /\ y.sess = [S \in Users |-> NoSocket]
      /\ y.be = BackendInit
    BY DEF Fresher
<1>1. \A c \in Clients : /\ y.conn[c].session = None /\ ~y.conn[c].ice /\ ~y.conn[c].mixer
                         /\ y.ready[c] = 0 /\ c # NoSocket
    BY <1>0, ClientsAssumption DEF NoData, NoSocket
<1>2. \A s \in Sockets : In(y.be.wire[s]) = {}
    BY <1>0, BackendInitFields, EmptyQueue
<1>3. \A S \in Users : y.sess[S] = NoSocket /\ S # None
    BY <1>0, NoneAssumption
<1>4. Bound(y)
    BY <1>1, <1>3 DEF Bound
<1>5. MediaTold(y)
    BY <1>1 DEF MediaTold
<1> QED
    BY <1>0, <1>2, <1>4, <1>5 DEF Sess, Creating, Acquiring

(* A client connects.                                                      *)
LEMMA SessConnect ==
    ASSUME NEW x, NEW c \in Clients, Sess(x)
    PROVE  Sess([x EXCEPT !.up[c] = TRUE])
<1> DEFINE y == [x EXCEPT !.up[c] = TRUE]
<1>1. x \in VocsStates
    BY DEF Sess
<1>2. /\ y \in VocsStates /\ y.sess = x.sess /\ y.ready = x.ready /\ y.conn = x.conn /\ y.async = x.async
      /\ y.be = x.be /\ y.fe = x.fe
    BY <1>1 DEF VocsStates
<1> HIDE DEF y
<1>3. Sess(y)
    BY <1>2, SessPlain DEF SameMedia
<1> QED
    BY <1>3 DEF y

(* A request that is too old, and a callback that is.                      *)
LEMMA SessTimeouts ==
    ASSUME NEW x, NEW r \in Reqs, Sess(x)
    PROVE  /\ AsyncHas(x, r) => Sess(AsyncTimedout(x, r))
           /\ Sess([x EXCEPT !.be = UnregisterCallback(x.be, r)])
<1>0. x \in VocsStates /\ x.be \in BackendStates
    BY VocsTyping DEF Sess
<1>1. ASSUME AsyncHas(x, r) PROVE Sess(AsyncTimedout(x, r))
  <2> DEFINE c == AsyncGet(x, r).sock
             y == Respond(AsyncUnset(x, r), r, c)
  <2>1. c \in Clients /\ TRUE \in BOOLEAN
    BY <1>0, <1>1, AsyncFound
  <2>2. Sess(y)
    BY SessStore
  <2>3. AsyncTimedout(x, r) = DropLocked(y, c, TRUE, TRUE)
    BY DEF AsyncTimedout
  <2> HIDE DEF c, y
  <2> QED
    BY <2>1, <2>2, <2>3, SessDropConnection
<1>2. Sess([x EXCEPT !.be = UnregisterCallback(x.be, r)])
  <2> DEFINE g == UnregisterCallback(x.be, r)
  <2>1. g \in BackendStates /\ g.wire = x.be.wire
    BY <1>0, CallbackFields
  <2> HIDE DEF g
  <2>2. NoNewAcquire(x.be.wire, g.wire)
    BY <2>1, NothingNew
  <2>3. Sess([x EXCEPT !.be = g])
    BY <2>1, <2>2, SessBe
  <2> QED
    BY <2>3 DEF g
<1> QED
    BY <1>1, <1>2

(* The invariant of the specification.                                     *)
SessInv == BaseInv /\ Sess(v)

(* It holds at first.                                                      *)
LEMMA SessInit == Init => SessInv
<1>1. Init => Sess(v)
    BY StartFields, SessFresher DEF Init
<1> QED
    BY <1>1, BaseInit DEF SessInv

(* A request of a client, if none is for a second session.                 *)
LEMMA SessRequests ==
    ASSUME SessInv, ~RepeatMedia, NEW r \in Reqs, NEW c \in Clients,
           \/ LoginLdap(r, c) \/ Media(r, c) \/ \E l \in Loops : SwitchLoopVolume(r, c, l)
           \/ \E l \in Loops, want \in Wants : SwitchLoopState(r, c, l, want)
           \/ \E op \in Signals : Signal(op, r, c)
    PROVE  Sess(v')
<1> DEFINE iss == issued \cup {r}
<1>1. r \in ClientReqs \ issued /\ Sess(v)
    BY DEF LoginLdap, Media, SwitchLoopVolume, SwitchLoopState, Signal, Request, SessInv
<1>2. Base(v, iss, made) /\ Fresh(v, r) /\ r \in iss
    BY <1>1, BaseFresh DEF SessInv, BaseInv
<1> HIDE DEF iss
<1>3. CASE LoginLdap(r, c)
  <2>1. v' = ClientLoginLdap(v, r, c)
    BY <1>3 DEF LoginLdap, Request
  <2> QED
    BY <1>1, <1>2, <2>1, SessLoginLdap
<1>4. CASE Media(r, c)
  <2>1. v' = ClientMedia(v, r, c) /\ NoMedia(v, c)
    BY <1>4 DEF Media, Request, MediaAsked, NoMedia
  <2> QED
    BY <1>1, <1>2, <2>1, SessMedia
<1>5. ASSUME NEW l \in Loops, SwitchLoopVolume(r, c, l) PROVE Sess(v')
  <2>1. v' = ClientSwitchLoopVolume(v, r, c, l) /\ "none" \in LoopStates
    BY <1>5 DEF SwitchLoopVolume, Request, LoopStates
  <2> QED
    BY <1>1, <1>2, <2>1, SessSwitch
<1>6. ASSUME NEW l \in Loops, NEW want \in Wants, SwitchLoopState(r, c, l, want) PROVE Sess(v')
  <2>1. v' = ClientSwitchLoopState(v, r, c, l, want) /\ want \in LoopStates
    BY <1>6, SwitchesAssumption DEF SwitchLoopState, Request
  <2> QED
    BY <1>1, <1>2, <2>1, SessSwitch
<1>7. ASSUME NEW op \in Signals, Signal(op, r, c) PROVE Sess(v')
  <2>1. v' \in {ClientUpdate(v, r, c), ClientCandidate(v, r, c)}
    BY <1>7 DEF Signal, Request
  <2> QED
    BY <1>1, <1>2, <2>1, SessSignal
<1> QED
    BY <1>3, <1>4, <1>5, <1>6, <1>7

(* Every step keeps it, one case for each action.                          *)
LEMMA SessStep ==
    ASSUME ~RepeatMedia
    PROVE  SessInv /\ [Next]_vars => SessInv'
<1> SUFFICES ASSUME SessInv, [Next]_vars PROVE Sess(v')
    BY BaseStep DEF SessInv
<1>0. Base(v, issued, made) /\ Sess(v)
    BY DEF SessInv, BaseInv
<1>1. ASSUME NEW c \in Clients, Connect(c) PROVE Sess(v')
    BY <1>0, <1>1, SessConnect DEF Connect
<1>2. ASSUME NEW c \in Clients, Disconnect(c) PROVE Sess(v')
  <2>1. TRUE \in BOOLEAN
    OBVIOUS
  <2> QED
    BY <1>0, <1>2, <2>1, SessLogin DEF Disconnect
<1>3. ASSUME NEW c \in Clients, Login(c) PROVE Sess(v')
    BY <1>0, <1>3, SessLogin DEF Login, Send
<1>4. ASSUME NEW r \in Reqs, LdapAnswers(r) PROVE Sess(v')
    BY <1>0, <1>4, SessLdapAnswer DEF LdapAnswers
<1>5. ASSUME NEW c \in Clients, Authorize(c) PROVE Sess(v')
    BY <1>0, <1>5, SessLogin DEF Authorize, Send
<1>6. ASSUME NEW c \in Clients, Logout(c) PROVE Sess(v')
  <2>1. TRUE \in BOOLEAN
    OBVIOUS
  <2> QED
    BY <1>0, <1>6, <2>1, SessLogin DEF Logout, Send
<1>7. ASSUME NEW s \in Sockets, MixerConnect(s) PROVE Sess(v')
    BY <1>0, <1>7, SessMixerConnection DEF MixerConnect
<1>8. ASSUME NEW s \in Sockets, MixerClose(s) PROVE Sess(v')
    BY <1>0, <1>8, SessMixerClose DEF MixerClose
<1>9. ASSUME NEW s \in Sockets, MixerAnswers(s) PROVE Sess(v')
    BY <1>0, <1>9, SessMixerAnswer DEF MixerAnswers
<1>10. ASSUME NEW p \in Proxies, ProxyConnect(p) PROVE Sess(v')
  <2>1. {} \in SUBSET Users
    OBVIOUS
  <2> QED
    BY <1>0, <1>10, <2>1, SessProxyConnection DEF ProxyConnect
<1>11. ASSUME NEW p \in Proxies, ProxyLost(p) PROVE Sess(v')
    BY <1>0, <1>11, SessProxyLost DEF ProxyLost
<1>12. ASSUME NEW p \in Proxies, NEW S \in Users, ProxyCreates(p, S) PROVE Sess(v')
    BY <1>0, <1>12, SessProxyCreated DEF ProxyCreates
<1>13. ASSUME NEW p \in Proxies, ProxyRefuses(p) \/ ProxyUpdates(p) PROVE Sess(v')
  <2>1. v.fe.wire[p] # <<>> /\ v' \in {OnProxyRefused(v, p), OnProxyUpdated(v, p)}
    BY <1>13 DEF ProxyRefuses, ProxyUpdates, ProxySays
  <2> QED
    BY <1>0, <2>1, SessProxyMore
<1>14. ASSUME NEW p \in Proxies, ProxyAnswers(p) PROVE Sess(v')
    BY <1>0, <1>14, SessProxyAnswer DEF ProxyAnswers
<1>16. ASSUME NEW p \in Proxies, ProxyUpdateRefused(p) PROVE Sess(v')
  <2>1. PICK kept \in [Proxies -> SUBSET Users] : v' = OnProxyUpdateRefused(v, kept)
    BY <1>16 DEF ProxyUpdateRefused
  <2>2. Fresher(v')
    BY <1>0, <2>1, StartFields DEF Sess
  <2> QED
    BY <2>2, SessFresher
<1>17. ASSUME NEW p \in Proxies, ProxyCandidate(p) PROVE Sess(v')
  <2>1. PICK ok : v' = OnProxyCandidate(v, p, ok)
    BY <1>17 DEF ProxyCandidate
  <2> QED
    BY <1>0, <1>17, <2>1, SessProxyMore DEF ProxyCandidate, ProxySays
<1>18. ASSUME NEW p \in Proxies, NEW S \in Users, IceCompletes(p, S) PROVE Sess(v')
  <2>1. TRUE \in BOOLEAN
    OBVIOUS
  <2> QED
    BY <1>0, <1>18, <2>1, SessCompleted DEF IceCompletes
<1>19. ASSUME NEW p \in Proxies, NEW S \in Users, IceFails(p, S) PROVE Sess(v')
    BY <1>0, <1>19, SessProxyMore DEF IceFails
<1>20. ASSUME NEW r \in Reqs, Timeout(r) \/ CallbackExpires(r) PROVE Sess(v')
    BY <1>0, <1>20, SessTimeouts DEF Timeout, CallbackExpires
<1>22. CASE UNCHANGED vars
    BY <1>0, <1>22 DEF vars
<1>23. CASE Next
    BY <1>1, <1>2, <1>3, <1>4, <1>5, <1>6, <1>7, <1>8, <1>9, <1>10, <1>11, <1>12, <1>13, <1>14,
       <1>16, <1>17, <1>18, <1>19, <1>20, <1>23, SessRequests DEF Next
<1> QED
    BY <1>22, <1>23

(* The invariant of every behaviour in which no client asks again for what *)
(* it has.                                                                 *)
LEMMA SessAlways ==
    ASSUME ~RepeatMedia
    PROVE  Spec => []SessInv
    BY SessInit, SessStep, PTL DEF Spec

(* A session belongs to one connection and leads back to it, whichever of  *)
(* client, proxy, mixer and timer ends it, and whatever is under way then: *)
(* ov_vocs.c keeps the dictionary of sessions and the data of connections  *)
(* in step, as long as no client asks for media twice.                     *)
THEOREM SessionsStayBound ==
    ASSUME ~RepeatMedia
    PROVE  Spec => []SessionsAgree
<1>1. SessInv => SessionsAgree
    BY DEF SessInv, Sess, Bound, SessionsAgree
<1> QED
    BY <1>1, SessAlways, PTL

(* media_ready is sent once, when ICE and mixer are both there, in         *)
(* whichever order they become so, and again only for a new session.       *)
THEOREM MediaReadyIsSentOnce ==
    ASSUME ~RepeatMedia
    PROVE  Spec => []MediaReadyOnce
<1>1. SessInv => MediaReadyOnce
    BY DEF SessInv, Sess, MediaTold, MediaReadyOnce
<1> QED
    BY <1>1, SessAlways, PTL
=============================================================================
