-------------------------- MODULE McFrontendProofs --------------------------
(***************************************************************************)
(* Proofs about McFrontendSystem for any number of proxies, sessions,      *)
(* loops and requests, with proxies that are lost and connect again and    *)
(* ICE failures at any time.                                               *)
(***************************************************************************)
EXTENDS McFrontendSystem, WellFoundedInduction, SequenceTheorems, FiniteSetTheorems, TLAPS

-----------------------------------------------------------------------------
(* The inductive invariant.                                                *)

In(w) == {w[i] : i \in 1..Len(w)}

At(p) == {S \in Sessions : fe.home[S] = p}

(* Nothing is sent to a proxy that is not connected.                       *)
ClosedIsSilent == \A p \in Proxies : ~fe.open[p] => fe.wire[p] = <<>>

(* Uuids of sessions are fresh: nobody has heard of a session before the   *)
(* proxy has made it.                                                      *)
NewUnheard ==
    \A S \in Sessions : told[S] = "new" =>
        /\ fe.home[S] = NoProxy
        /\ \A p \in Proxies : S \notin fe.live[p] /\ \A m \in In(fe.wire[p]) : m.session # S

(* The dictionary, the messages and the processes place a session at one   *)
(* proxy.                                                                  *)
AbsentFrom(q, S) ==
    fe.home[S] # q /\ S \notin fe.live[q] /\ \A m \in In(fe.wire[q]) : m.session # S

OnePlace ==
    \A S \in Sessions : \E p \in Proxies \cup {NoProxy} : \A q \in Proxies \ {p} : AbsentFrom(q, S)

(* Messages about sessions name one, and the loop to talk on; what a proxy *)
(* has announced as failed it no longer has.                               *)
Worded(m) == m.op = "talk on" => m.loop \in Loops

MessagesMeant ==
    \A p \in Proxies : \A m \in In(fe.wire[p]) :
        /\ m.op \in {"drop", "failed", "talk on", "talk off"} => m.session \in Sessions
        /\ m.op = "failed" => m.session \notin fe.live[p]
        /\ Worded(m)

LoadsFinite == \A p \in Proxies : IsFiniteSet(At(p))

IndInv ==
    /\ TypeOK /\ LoadCountsSessions /\ LoadsFinite
    /\ KnownIsServed /\ NoOrphanSessions /\ OwnedAtHome
    /\ ClosedIsSilent /\ NewUnheard /\ OnePlace /\ MessagesMeant

-----------------------------------------------------------------------------
(* Lemmas about queues and about the operators of the frontend.            *)

(* What is in a queue after it has grown or has lost its head.             *)
LEMMA QueueFacts ==
    ASSUME NEW T, NEW w \in Seq(T)
    PROVE  /\ In(w) \subseteq T
           /\ \A m \in T : Append(w, m) \in Seq(T) /\ In(Append(w, m)) = In(w) \cup {m}
           /\ \A m \in T : <<m>> \o w \in Seq(T) /\ In(<<m>> \o w) = In(w) \cup {m}
           /\ w # <<>> => /\ Head(w) \in T /\ Tail(w) \in Seq(T)
                          /\ In(w) = In(Tail(w)) \cup {Head(w)}
<1>0. Len(w) \in Nat /\ In(w) \subseteq T
    BY DEF In
<1>1. ASSUME NEW m \in T
      PROVE  Append(w, m) \in Seq(T) /\ In(Append(w, m)) = In(w) \cup {m}
  <2>1. /\ Append(w, m) \in Seq(T) /\ Len(Append(w, m)) = Len(w) + 1
        /\ \A i \in 1..Len(w) : Append(w, m)[i] = w[i]
        /\ Append(w, m)[Len(w) + 1] = m
    BY AppendProperties
  <2>2. ASSUME NEW i \in 1..Len(w) + 1 PROVE Append(w, m)[i] \in In(w) \cup {m}
    BY <1>0, <2>1 DEF In
  <2>3. ASSUME NEW i \in 1..Len(w) PROVE w[i] \in In(Append(w, m))
    <3>1. i \in 1..Len(Append(w, m)) /\ Append(w, m)[i] = w[i]
        BY <1>0, <2>1
    <3> QED
        BY <3>1 DEF In
  <2>4. m \in In(Append(w, m))
    <3>1. Len(w) + 1 \in 1..Len(Append(w, m))
        BY <1>0, <2>1
    <3> QED
        BY <2>1, <3>1, Zenon DEF In
  <2> QED
    BY <2>1, <2>2, <2>3, <2>4 DEF In
<1>2. ASSUME NEW m \in T
      PROVE  <<m>> \o w \in Seq(T) /\ In(<<m>> \o w) = In(w) \cup {m}
  <2>1. /\ <<m>> \in Seq(T) /\ Len(<<m>>) = 1 /\ <<m>>[1] = m
    OBVIOUS
  <2>2. /\ <<m>> \o w \in Seq(T) /\ Len(<<m>> \o w) = Len(w) + 1
        /\ \A i \in 1..Len(w) + 1 : (<<m>> \o w)[i] = IF i <= 1 THEN <<m>>[i] ELSE w[i - 1]
    BY <1>0, <2>1, ConcatProperties
  <2>3. ASSUME NEW i \in 1..Len(w) + 1 PROVE (<<m>> \o w)[i] \in In(w) \cup {m}
    <3>1. CASE i = 1
        BY <2>1, <2>2, <3>1
    <3>2. CASE i # 1
      <4>1. (<<m>> \o w)[i] = w[i - 1] /\ i - 1 \in 1..Len(w)
        BY <1>0, <2>2, <3>2
      <4> QED
        BY <4>1 DEF In
    <3> QED
        BY <3>1, <3>2
  <2>4. ASSUME NEW i \in 1..Len(w) PROVE w[i] \in In(<<m>> \o w)
    <3>1. i + 1 \in 1..Len(<<m>> \o w) /\ (<<m>> \o w)[i + 1] = w[i]
        BY <1>0, <2>2
    <3> QED
        BY <3>1, Zenon DEF In
  <2>5. m \in In(<<m>> \o w)
    <3>1. 1 \in 1..Len(<<m>> \o w) /\ (<<m>> \o w)[1] = m
        BY <1>0, <2>1, <2>2
    <3> QED
        BY <3>1, Zenon DEF In
  <2> QED
    BY <2>2, <2>3, <2>4, <2>5 DEF In
<1>3. ASSUME w # <<>>
      PROVE  Head(w) \in T /\ Tail(w) \in Seq(T) /\ In(w) = In(Tail(w)) \cup {Head(w)}
  <2>1. /\ Head(w) \in T /\ Tail(w) \in Seq(T) /\ Head(w) = w[1]
        /\ Len(Tail(w)) = Len(w) - 1 /\ Len(w) >= 1
        /\ \A i \in 1..Len(Tail(w)) : Tail(w)[i] = w[i + 1]
    BY <1>3, HeadTailProperties
  <2>2. ASSUME NEW i \in 1..Len(w) PROVE w[i] \in In(Tail(w)) \cup {Head(w)}
    <3>1. CASE i = 1
        BY <2>1, <3>1
    <3>2. CASE i # 1
      <4>1. i - 1 \in 1..Len(Tail(w)) /\ Tail(w)[i - 1] = w[i]
        BY <1>0, <2>1, <3>2
      <4> QED
        BY <4>1, Zenon DEF In
    <3> QED
        BY <3>1, <3>2
  <2>3. ASSUME NEW i \in 1..Len(Tail(w)) PROVE Tail(w)[i] \in In(w)
    <3>1. i + 1 \in 1..Len(w) /\ Tail(w)[i] = w[i + 1]
        BY <1>0, <2>1
    <3> QED
        BY <3>1, Zenon DEF In
  <2>4. Head(w) \in In(w)
    <3>1. 1 \in 1..Len(w)
        BY <1>0, <2>1
    <3> QED
        BY <2>1, <3>1, Zenon DEF In
  <2> QED
    BY <2>1, <2>2, <2>3, <2>4 DEF In
<1> QED
    BY <1>0, <1>1, <1>2, <1>3

(* Nothing is in an empty queue.                                            *)
LEMMA EmptyQueue == In(<<>>) = {}
    BY DEF In

(* Requests are sent along the wire of one proxy.                          *)
LEMMA SendProxyFields ==
    ASSUME NEW f \in FrontendStates, NEW p \in Proxies, NEW m \in ProxyMessages
    PROVE  /\ SendProxy(f, p, m) \in FrontendStates
           /\ SendProxy(f, p, m).open = f.open /\ SendProxy(f, p, m).load = f.load
           /\ SendProxy(f, p, m).owned = f.owned /\ SendProxy(f, p, m).home = f.home
           /\ SendProxy(f, p, m).live = f.live
           /\ In(SendProxy(f, p, m).wire[p]) = In(f.wire[p]) \cup {m}
           /\ \A q \in Proxies \ {p} : SendProxy(f, p, m).wire[q] = f.wire[q]
<1>1. f.wire[p] \in Seq(ProxyMessages)
    BY DEF FrontendStates
<1>2. Append(f.wire[p], m) \in Seq(ProxyMessages) /\ In(Append(f.wire[p], m)) = In(f.wire[p]) \cup {m}
    BY <1>1, QueueFacts
<1>3. SendProxy(f, p, m).wire = [f.wire EXCEPT ![p] = Append(f.wire[p], m)]
    BY DEF SendProxy, FrontendStates
<1>4. In(SendProxy(f, p, m).wire[p]) = In(f.wire[p]) \cup {m}
    BY <1>2, <1>3 DEF FrontendStates
<1>5. \A q \in Proxies \ {p} : SendProxy(f, p, m).wire[q] = f.wire[q]
    BY <1>3 DEF FrontendStates
<1> HIDE DEF In
<1> QED
    BY <1>2, <1>4, <1>5 DEF SendProxy, FrontendStates

(* Taking an answer off the wire.                                          *)
LEMMA ConsumeFields ==
    ASSUME NEW f \in FrontendStates, NEW p \in Proxies, f.wire[p] # <<>>
    PROVE  /\ Consume(f, p) \in FrontendStates
           /\ Consume(f, p).open = f.open /\ Consume(f, p).load = f.load
           /\ Consume(f, p).owned = f.owned /\ Consume(f, p).home = f.home
           /\ Consume(f, p).live = f.live /\ Consume(f, p).talk = f.talk
           /\ Said(f, p) \in ProxyMessages
           /\ Consume(f, p).wire = [f.wire EXCEPT ![p] = Tail(f.wire[p])]
           /\ In(f.wire[p]) = In(Consume(f, p).wire[p]) \cup {Said(f, p)}
           /\ \A q \in Proxies \ {p} : Consume(f, p).wire[q] = f.wire[q]
<1>1. f.wire[p] \in Seq(ProxyMessages)
    BY DEF FrontendStates
<1>2. /\ Head(f.wire[p]) \in ProxyMessages /\ Tail(f.wire[p]) \in Seq(ProxyMessages)
      /\ In(f.wire[p]) = In(Tail(f.wire[p])) \cup {Head(f.wire[p])}
    BY <1>1, QueueFacts
<1>3. Consume(f, p).wire = [f.wire EXCEPT ![p] = Tail(f.wire[p])]
    BY DEF Consume, FrontendStates
<1>4. Consume(f, p).wire[p] = Tail(f.wire[p]) /\ \A q \in Proxies \ {p} : Consume(f, p).wire[q] = f.wire[q]
    BY <1>3 DEF FrontendStates
<1> QED
    BY <1>2, <1>3, <1>4 DEF Consume, FrontendStates, Said

(* Taking a session out of the dictionary, the table and the load.         *)
LEMMA UnregisterSessionFields ==
    ASSUME NEW f \in FrontendStates, NEW S \in Sessions
    PROVE  /\ UnregisterSession(f, S) \in FrontendStates
           /\ UnregisterSession(f, S).open = f.open /\ UnregisterSession(f, S).wire = f.wire
           /\ UnregisterSession(f, S).live = f.live
           /\ UnregisterSession(f, S).home = [f.home EXCEPT ![S] = NoProxy]
           /\ \A p \in Proxies : p # f.home[S] =>
                /\ UnregisterSession(f, S).owned[p] = f.owned[p]
                /\ UnregisterSession(f, S).load[p] = f.load[p]
           /\ \A p \in Proxies : p = f.home[S] =>
                /\ UnregisterSession(f, S).owned[p] = f.owned[p] \ {S}
                /\ f.load[p] > 0 => UnregisterSession(f, S).load[p] = f.load[p] - 1
<1>1. CASE f.home[S] = NoProxy
  <2>1. UnregisterSession(f, S) = f /\ f.home \in [Sessions -> Proxies \cup {NoProxy}]
    BY <1>1 DEF UnregisterSession, FrontendStates
  <2>2. [f.home EXCEPT ![S] = NoProxy] = f.home /\ NoProxy \notin Proxies
    BY <1>1, <2>1, ProxiesAssumption DEF NoProxy
  <2> QED
    BY <1>1, <2>1, <2>2
<1>2. CASE f.home[S] # NoProxy
  <2> DEFINE p == f.home[S]
             n == IF f.load[p] > 0 THEN f.load[p] - 1 ELSE 0
             g == UnregisterSession(f, S)
  <2>1. p \in Proxies /\ f.load[p] \in Nat /\ n \in Nat
    BY <1>2 DEF FrontendStates
  <2>2. g = [f EXCEPT !.owned = [f.owned EXCEPT ![p] = f.owned[p] \ {S}],
                      !.home = [f.home EXCEPT ![S] = NoProxy], !.load = [f.load EXCEPT ![p] = n]]
    BY <1>2 DEF UnregisterSession, FrontendStates
  <2> HIDE DEF n, p, g
  <2>3. /\ g.owned = [f.owned EXCEPT ![p] = f.owned[p] \ {S}] /\ g.load = [f.load EXCEPT ![p] = n]
        /\ g.home = [f.home EXCEPT ![S] = NoProxy]
        /\ g.open = f.open /\ g.wire = f.wire /\ g.live = f.live
    BY <2>2 DEF FrontendStates
  <2>4. g \in FrontendStates
    BY <2>1, <2>2 DEF FrontendStates
  <2>5. f.load[p] > 0 => n = f.load[p] - 1
    BY <2>1 DEF n
  <2>6. /\ g.owned[p] = f.owned[p] \ {S} /\ (f.load[p] > 0 => g.load[p] = f.load[p] - 1)
        /\ \A q \in Proxies : q # p => g.owned[q] = f.owned[q] /\ g.load[q] = f.load[q]
    BY <2>1, <2>3, <2>5 DEF FrontendStates
  <2>7. \A q \in Proxies : q = p =>
            g.owned[q] = f.owned[q] \ {S} /\ (f.load[q] > 0 => g.load[q] = f.load[q] - 1)
    BY <2>6
  <2> QED
    BY <2>3, <2>4, <2>6, <2>7, Zenon DEF g, p
<1> QED
    BY <1>1, <1>2

(* A non-empty set of numbers has a least element.                         *)
LEMMA LeastNumber ==
    ASSUME NEW T \in SUBSET Nat, T # {}
    PROVE  \E x \in T : \A y \in T : x <= y
<1>1. PICK x \in T : \A y \in T : ~ (<<y, x>> \in OpToRel(<, Nat))
    BY WFMin, NatLessThanWellFounded, Zenon
<1>2. \A y \in T : ~ (y < x)
    BY <1>1, Zenon DEF OpToRel
<1>3. x \in Nat /\ \A y \in T : y \in Nat
    OBVIOUS
<1> QED
    BY <1>2, <1>3

(* The balancer finds a connected proxy if there is one.                   *)
LEMMA GetProxySocketIsOpen ==
    ASSUME NEW f \in FrontendStates, ProxyAvailable(f)
    PROVE  GetProxySocket(f) \in Proxies /\ f.open[GetProxySocket(f)]
<1> DEFINE O == OpenProxies(f)
           L == {f.load[p] : p \in O}
<1>1. O # {} /\ O \in SUBSET Nat /\ O \subseteq Proxies /\ \A p \in O : f.open[p] /\ f.load[p] \in Nat
    BY ProxiesAssumption DEF ProxyAvailable, OpenProxies, FrontendStates
<1> HIDE DEF O
<1>2. L # {} /\ L \in SUBSET Nat
    BY <1>1
<1>3. PICK x \in L : \A y \in L : x <= y
    BY <1>2, LeastNumber, Zenon
<1> DEFINE M == {p \in O : f.load[p] = x}
<1>4. M # {} /\ M \in SUBSET Nat
    BY <1>1, <1>3
<1>5. PICK p \in M : \A q \in M : p <= q
    BY <1>4, LeastNumber, Zenon
<1>6. \A q \in O : f.load[p] < f.load[q] \/ (f.load[p] = f.load[q] /\ p <= q)
  <2> TAKE q \in O
  <2>1. f.load[p] = x /\ f.load[q] \in L /\ x <= f.load[q] /\ x \in Nat /\ f.load[q] \in Nat
    BY <1>1, <1>3, <1>5
  <2>2. f.load[q] = x => p <= q
    BY <1>5
  <2> QED
    BY <2>1, <2>2
<1>7. p \in O
    BY <1>5
<1>8. GetProxySocket(f) \in O
    BY <1>6, <1>7, Zenon DEF GetProxySocket, O
<1> QED
    BY <1>1, <1>8

-----------------------------------------------------------------------------
(* Facts about a state of the invariant and about steps in general.        *)

(* What the type invariant says of each field.                             *)
LEMMA Typing ==
    ASSUME TypeOK
    PROVE  /\ fe \in FrontendStates /\ told \in [Sessions -> {"new", "known", "gone"}]
           /\ fe.open \in [Proxies -> BOOLEAN] /\ fe.load \in [Proxies -> Nat]
           /\ fe.owned \in [Proxies -> SUBSET Sessions]
           /\ fe.home \in [Sessions -> Proxies \cup {NoProxy}]
           /\ fe.wire \in [Proxies -> Seq(ProxyMessages)]
           /\ fe.live \in [Proxies -> SUBSET Sessions]
           /\ NoProxy \notin Proxies
    BY ProxiesAssumption DEF TypeOK, FrontendStates, NoProxy

(* A drop is pending if one is in the queue.                               *)
LEMMA DropPendingIn ==
    ASSUME TypeOK, NEW p \in Proxies, NEW S
    PROVE  DropPending(p, S) <=> \E m \in In(fe.wire[p]) : m.op = "drop" /\ m.session = S
<1>1. DOMAIN fe.wire[p] = 1..Len(fe.wire[p])
    BY Typing
<1> QED
    BY <1>1, Zenon DEF DropPending, In

(* Steps that make no session: nothing is heard of a new one, and what     *)
(* happens to a session happens where it is.                               *)
LEMMA QuietStep ==
    ASSUME IndInv,
           \A S \in Sessions : told'[S] = "new" => told[S] = "new",
           \A S \in Sessions : fe'.home[S] \in {fe.home[S], NoProxy},
           \A q \in Proxies : fe'.live[q] \subseteq fe.live[q],
           \A q \in Proxies : \A m \in In(fe'.wire[q]) :
                \/ m \in In(fe.wire[q])
                \/ m.op = "create" /\ m.session = None
                \/ /\ m.session \in Sessions /\ ~AbsentFrom(q, m.session)
                   /\ m.op = "failed" => m.session \notin fe'.live[q]
                   /\ Worded(m)
    PROVE  NewUnheard' /\ OnePlace' /\ MessagesMeant'
<1>0. None \notin Sessions /\ NoProxy \notin Proxies
    BY FrontendNoneAssumption, ProxiesAssumption DEF NoProxy
<1>1. ASSUME NEW q \in Proxies, NEW S \in Sessions, AbsentFrom(q, S)
      PROVE  AbsentFrom(q, S)'
    BY <1>0, <1>1 DEF AbsentFrom
<1>2. NewUnheard'
  <2> SUFFICES ASSUME NEW S \in Sessions, told'[S] = "new"
               PROVE  /\ fe'.home[S] = NoProxy
                      /\ \A p \in Proxies : S \notin fe'.live[p] /\ \A m \in In(fe'.wire[p]) : m.session # S
    BY DEF NewUnheard
  <2>1. /\ fe.home[S] = NoProxy
        /\ \A p \in Proxies : S \notin fe.live[p] /\ \A m \in In(fe.wire[p]) : m.session # S
    BY DEF IndInv, NewUnheard
  <2>2. \A p \in Proxies : AbsentFrom(p, S)
    BY <1>0, <2>1 DEF AbsentFrom
  <2>3. \A p \in Proxies : AbsentFrom(p, S)'
    BY <1>1, <2>2
  <2> QED
    BY <2>1, <2>3 DEF AbsentFrom
<1>3. OnePlace'
  <2> SUFFICES ASSUME NEW S \in Sessions
               PROVE  \E p \in Proxies \cup {NoProxy} : \A q \in Proxies \ {p} : AbsentFrom(q, S)'
    BY DEF OnePlace
  <2>1. PICK p \in Proxies \cup {NoProxy} : \A q \in Proxies \ {p} : AbsentFrom(q, S)
    BY DEF IndInv, OnePlace
  <2> QED
    BY <1>1, <2>1
<1>4. MessagesMeant'
  <2> SUFFICES ASSUME NEW p \in Proxies, NEW m \in In(fe'.wire[p])
               PROVE  /\ m.op \in {"drop", "failed", "talk on", "talk off"} => m.session \in Sessions
                      /\ m.op = "failed" => m.session \notin fe'.live[p]
                      /\ Worded(m)
    BY DEF MessagesMeant
  <2>1. CASE m \in In(fe.wire[p])
    BY <2>1 DEF IndInv, MessagesMeant
  <2>2. CASE m \notin In(fe.wire[p])
    <3>1. CASE m.op = "create"
        BY <3>1 DEF Worded
    <3>2. CASE m.op # "create"
        BY <2>2, <3>2
    <3> QED
        BY <3>1, <3>2
  <2> QED
    BY <2>1, <2>2
<1> QED
    BY <1>2, <1>3, <1>4

(* Where a session is, it is not elsewhere.                                *)
LEMMA ElsewhereAbsent ==
    ASSUME IndInv, NEW S \in Sessions, NEW p \in Proxies, ~AbsentFrom(p, S), NEW q \in Proxies, q # p
    PROVE  AbsentFrom(q, S)
    BY DEF IndInv, OnePlace

(* The loads after a step that leaves dictionary and loads alone.          *)
LEMMA SameLoads ==
    ASSUME IndInv, fe'.home = fe.home, fe'.load = fe.load
    PROVE  LoadCountsSessions' /\ LoadsFinite'
    BY DEF IndInv, LoadCountsSessions, LoadsFinite, At

(* Steps that change nothing but one proxy's queue, where no drop is lost. *)
LEMMA WireStep ==
    ASSUME IndInv, TypeOK', UNCHANGED <<told, stranded>>,
           fe'.open = fe.open, fe'.load = fe.load, fe'.owned = fe.owned,
           fe'.home = fe.home, fe'.live = fe.live,
           \A q \in Proxies : ~fe.open[q] => fe'.wire[q] = fe.wire[q],
           \A q \in Proxies : \A m \in In(fe.wire[q]) : m.op = "drop" => m \in In(fe'.wire[q]),
           \A q \in Proxies : \A m \in In(fe'.wire[q]) :
                \/ m \in In(fe.wire[q])
                \/ m.op = "create" /\ m.session = None
                \/ /\ m.op # "failed" /\ m.session \in Sessions /\ ~AbsentFrom(q, m.session)
                   /\ Worded(m)
    PROVE  IndInv'
<1>1. NewUnheard' /\ OnePlace' /\ MessagesMeant'
    BY QuietStep
<1>2. LoadCountsSessions' /\ LoadsFinite'
    BY SameLoads
<1>3. ClosedIsSilent'
    BY DEF IndInv, ClosedIsSilent
<1>4. KnownIsServed' /\ OwnedAtHome'
    BY DEF IndInv, KnownIsServed, OwnedAtHome, HasProxy
<1>5. NoOrphanSessions'
  <2> SUFFICES ASSUME NEW p \in Proxies, NEW S \in fe.live[p], told[S] # "known", S \notin stranded
               PROVE  DropPending(p, S)'
    BY DEF NoOrphanSessions
  <2>1. DropPending(p, S)
    BY DEF IndInv, NoOrphanSessions
  <2>2. PICK m \in In(fe.wire[p]) : m.op = "drop" /\ m.session = S
    BY <2>1, DropPendingIn DEF IndInv
  <2>3. m \in In(fe'.wire[p])
    BY <2>2
  <2>4. DOMAIN fe'.wire[p] = 1..Len(fe'.wire[p])
    BY DEF TypeOK, FrontendStates
  <2> QED
    BY <2>2, <2>3, <2>4, Zenon DEF DropPending, In
<1> QED
    BY <1>1, <1>2, <1>3, <1>4, <1>5 DEF IndInv

-----------------------------------------------------------------------------
(* Every action preserves the invariant.                                   *)

(* A proxy connects: its queue was empty and stays so.                     *)
LEMMA ConnectStep ==
    ASSUME IndInv, NEW p \in Proxies, ProxyConnect(p)
    PROVE  IndInv'
<1>0. TypeOK
    BY DEF IndInv
<1>1. ~fe.open[p] /\ fe.wire[p] = <<>> /\ UNCHANGED <<told, stranded>>
    BY DEF ProxyConnect, IndInv, ClosedIsSilent
<1>2. /\ fe' \in FrontendStates
      /\ fe'.open = [fe.open EXCEPT ![p] = TRUE] /\ fe'.load = fe.load /\ fe'.owned = fe.owned
      /\ fe'.home = fe.home /\ fe'.live = fe.live /\ fe'.wire = fe.wire
    BY <1>0, <1>1 DEF ProxyConnect, RegisterProxy, TypeOK, FrontendStates
<1>3. TypeOK'
    BY <1>0, <1>2 DEF ProxyConnect, TypeOK
<1>4. NewUnheard' /\ OnePlace' /\ MessagesMeant'
    BY <1>1, <1>2, QuietStep
<1>5. LoadCountsSessions' /\ LoadsFinite'
    BY <1>2, SameLoads
<1>6. ClosedIsSilent'
    BY <1>0, <1>2, Typing DEF IndInv, ClosedIsSilent
<1>7. KnownIsServed' /\ OwnedAtHome'
    BY <1>0, <1>1, <1>2, Typing DEF IndInv, KnownIsServed, OwnedAtHome, HasProxy
<1>8. NoOrphanSessions'
    BY <1>1, <1>2 DEF IndInv, NoOrphanSessions, DropPending
<1> QED
    BY <1>3, <1>4, <1>5, <1>6, <1>7, <1>8 DEF IndInv

(* A proxy is lost: its sessions are given up, what it keeps is stranded.  *)
LEMMA LostStep ==
    ASSUME IndInv, NEW p \in Proxies, ProxyLost(p)
    PROVE  IndInv'
<1>0. TypeOK
    BY DEF IndInv
<1>1. PICK kept \in SUBSET fe.live[p] :
        fe' = UnregisterProxy(fe, p, kept) /\ stranded' = stranded \cup kept
    BY DEF ProxyLost
<1>2. kept \in SUBSET Sessions
    BY <1>0, Typing
<1>3. /\ fe' \in FrontendStates
      /\ fe'.open = [fe.open EXCEPT ![p] = FALSE] /\ fe'.load = fe.load
      /\ fe'.owned = [fe.owned EXCEPT ![p] = {}] /\ fe'.home = fe.home
      /\ fe'.live = [fe.live EXCEPT ![p] = kept] /\ fe'.wire = [fe.wire EXCEPT ![p] = <<>>]
  <2>1. <<>> \in Seq(ProxyMessages) /\ {} \in SUBSET Sessions /\ FALSE \in BOOLEAN
    OBVIOUS
  <2>2. fe' = [fe EXCEPT !.open = [fe.open EXCEPT ![p] = FALSE], !.owned = [fe.owned EXCEPT ![p] = {}],
                         !.wire = [fe.wire EXCEPT ![p] = <<>>], !.live = [fe.live EXCEPT ![p] = kept]]
    BY <1>0, <1>1, Typing DEF UnregisterProxy, FrontendStates
  <2> QED
    BY <1>0, <1>2, <2>1, <2>2, Typing DEF FrontendStates
<1>4. \A S \in Sessions : told'[S] = IF S \in fe.owned[p] THEN "gone" ELSE told[S]
    BY DEF ProxyLost, Gone
<1>5. TypeOK'
  <2>1. told' \in [Sessions -> {"new", "known", "gone"}] /\ lost' \in 0..Losses
    BY <1>0, LossesAssumption DEF ProxyLost, Gone, TypeOK
  <2> QED
    BY <1>0, <1>1, <1>2, <1>3, <2>1 DEF ProxyLost, TypeOK
<1>6. /\ fe'.wire[p] = <<>> /\ fe'.live[p] = kept /\ fe'.owned[p] = {} /\ ~fe'.open[p]
      /\ \A q \in Proxies \ {p} : /\ fe'.wire[q] = fe.wire[q] /\ fe'.live[q] = fe.live[q]
                                  /\ fe'.owned[q] = fe.owned[q] /\ fe'.open[q] = fe.open[q]
    BY <1>0, <1>3, Typing
<1>7. NewUnheard' /\ OnePlace' /\ MessagesMeant'
  <2>1. \A q \in Proxies : fe'.live[q] \subseteq fe.live[q] /\ In(fe'.wire[q]) \subseteq In(fe.wire[q])
    BY <1>6, EmptyQueue
  <2> QED
    BY <1>3, <1>4, <2>1, QuietStep
<1>8. LoadCountsSessions' /\ LoadsFinite'
    BY <1>3, SameLoads
<1>9. ClosedIsSilent'
    BY <1>6 DEF IndInv, ClosedIsSilent
<1>10. OwnedAtHome'
    BY <1>3, <1>6 DEF IndInv, OwnedAtHome
<1>11. KnownIsServed'
  <2> SUFFICES ASSUME NEW S \in Sessions, told'[S] = "known"
               PROVE  HasProxy(fe', S) /\ S \in fe'.owned[fe'.home[S]] \cap fe'.live[fe'.home[S]]
    BY DEF KnownIsServed
  <2>1. told[S] = "known" /\ S \notin fe.owned[p]
    BY <1>4
  <2>2. HasProxy(fe, S) /\ S \in fe.owned[fe.home[S]] \cap fe.live[fe.home[S]]
    BY <2>1 DEF IndInv, KnownIsServed
  <2>3. fe.home[S] # p /\ fe.home[S] \in Proxies
    BY <1>0, <2>1, <2>2, Typing DEF HasProxy
  <2> QED
    BY <1>3, <1>6, <2>2, <2>3 DEF HasProxy
<1>12. NoOrphanSessions'
  <2> SUFFICES ASSUME NEW q \in Proxies, NEW S \in fe'.live[q], S \notin stranded', told'[S] # "known"
               PROVE  DropPending(q, S)'
    BY DEF NoOrphanSessions
  <2>1. q # p /\ S \in fe.live[q] /\ S \in Sessions /\ S \notin stranded
    BY <1>0, <1>1, <1>6, Typing
  <2>2. told[S] # "known"
    <3>1. SUFFICES ASSUME told[S] = "known" PROVE FALSE
        OBVIOUS
    <3>2. S \in fe.owned[p] /\ fe.home[S] = p
        BY <1>4, <2>1, <3>1 DEF IndInv, OwnedAtHome
    <3>3. ~AbsentFrom(p, S) /\ ~AbsentFrom(q, S)
        BY <2>1, <3>2 DEF AbsentFrom
    <3> QED
        BY <2>1, <3>3, ElsewhereAbsent
  <2>3. DropPending(q, S)
    BY <2>1, <2>2 DEF IndInv, NoOrphanSessions
  <2> QED
    BY <1>6, <2>1, <2>3 DEF DropPending
<1> QED
    BY <1>5, <1>7, <1>8, <1>9, <1>10, <1>11, <1>12 DEF IndInv

(* A session is asked for.                                                 *)
LEMMA CreateStep ==
    ASSUME IndInv, NEW r \in Reqs, Create(r)
    PROVE  IndInv'
<1> DEFINE p == GetProxySocket(fe)
           m == ProxyMessage("create", r, None, None)
<1>0. TypeOK
    BY DEF IndInv
<1>1. m \in ProxyMessages /\ m.op = "create" /\ m.session = None
    BY DEF ProxyMessage, ProxyMessages, FrontendOps
<1> HIDE DEF p, m
<1>2. CASE ~ProxyAvailable(fe)
  <2>1. fe' = fe /\ TypeOK'
    BY <1>0, <1>2 DEF Create, CreateSession, TypeOK
  <2> QED
    BY <2>1, WireStep DEF Create
<1>3. CASE ProxyAvailable(fe)
  <2>1. fe' = SendProxy(fe, p, m)
    BY <1>3 DEF Create, CreateSession, p, m
  <2>2. p \in Proxies /\ fe.open[p]
    BY <1>0, <1>3, GetProxySocketIsOpen, Typing DEF p
  <2>3. /\ fe' \in FrontendStates /\ fe'.open = fe.open /\ fe'.load = fe.load /\ fe'.owned = fe.owned
        /\ fe'.home = fe.home /\ fe'.live = fe.live
        /\ In(fe'.wire[p]) = In(fe.wire[p]) \cup {m}
        /\ \A q \in Proxies \ {p} : fe'.wire[q] = fe.wire[q]
    <3>1. fe \in FrontendStates
        BY <1>0, Typing
    <3> QED
        BY <1>1, <2>1, <2>2, <3>1, SendProxyFields
  <2>5. TypeOK'
    BY <1>0, <2>3 DEF Create, TypeOK
  <2> QED
    BY <1>1, <2>2, <2>3, <2>5, WireStep DEF Create
<1> QED
    BY <1>2, <1>3

(* A request about a session is sent to the proxy it is at.                *)
LEMMA SendAboutStep ==
    ASSUME IndInv, NEW S \in Sessions, NEW p \in Proxies, fe.open[p], ~AbsentFrom(p, S),
           NEW m \in ProxyMessages, m.session = S, m.op # "failed", Worded(m),
           fe' = SendProxy(fe, p, m), UNCHANGED <<told, lost, stranded>>, issued' \subseteq Reqs
    PROVE  IndInv'
<1>0. TypeOK /\ fe \in FrontendStates
    BY Typing DEF IndInv
<1>1. /\ fe' \in FrontendStates /\ fe'.open = fe.open /\ fe'.load = fe.load /\ fe'.owned = fe.owned
      /\ fe'.home = fe.home /\ fe'.live = fe.live
      /\ In(fe'.wire[p]) = In(fe.wire[p]) \cup {m}
      /\ \A q \in Proxies \ {p} : fe'.wire[q] = fe.wire[q]
    BY <1>0, SendProxyFields
<1>2. TypeOK'
    BY <1>0, <1>1 DEF TypeOK
<1>3. \A q \in Proxies : ~fe.open[q] => fe'.wire[q] = fe.wire[q]
    BY <1>1
<1>4. \A q \in Proxies : \A n \in In(fe.wire[q]) : n.op = "drop" => n \in In(fe'.wire[q])
    BY <1>1
<1>5. \A q \in Proxies : \A n \in In(fe'.wire[q]) :
        \/ n \in In(fe.wire[q])
        \/ /\ n.op # "failed" /\ n.session \in Sessions /\ ~AbsentFrom(q, n.session)
           /\ Worded(n)
  <2> TAKE q \in Proxies
  <2> TAKE n \in In(fe'.wire[q])
  <2>1. n \in In(fe.wire[q]) \/ (q = p /\ n = m)
    BY <1>1
  <2> QED
    BY <2>1
<1> QED
    BY <1>1, <1>2, <1>3, <1>4, <1>5, WireStep

(* A session the caller may use is at the proxy the dictionary names.      *)
LEMMA KnownHome ==
    ASSUME IndInv, NEW S \in Sessions, told[S] = "known"
    PROVE  /\ HasProxy(fe, S) /\ fe.home[S] \in Proxies /\ fe.open[fe.home[S]]
           /\ ~AbsentFrom(fe.home[S], S)
<1>1. HasProxy(fe, S)
    BY DEF IndInv, KnownIsServed
<1>2. fe.home[S] \in Proxies
    BY <1>1, Typing DEF IndInv, HasProxy
<1> QED
    BY <1>1, <1>2 DEF HasProxy, AbsentFrom

(* The caller switches a loop on or off.                                   *)
LEMMA TalkStep ==
    ASSUME IndInv, NEW r \in Reqs, NEW S \in Sessions, NEW on \in BOOLEAN, NEW l \in Loops,
           SwitchTalk(r, S, on, l)
    PROVE  IndInv'
<1>1. PICK op \in {"talk on", "talk off"} : fe' = SendProxy(fe, fe.home[S], ProxyMessage(op, r, S, l))
    BY KnownHome DEF SwitchTalk, Talk
<1> DEFINE p == fe.home[S]
           m == ProxyMessage(op, r, S, l)
<1>2. m \in ProxyMessages /\ m.op # "failed" /\ m.session = S /\ Worded(m)
    BY DEF ProxyMessage, ProxyMessages, FrontendOps, Worded
<1>3. p \in Proxies /\ fe.open[p] /\ ~AbsentFrom(p, S)
    BY KnownHome DEF SwitchTalk
<1>4. fe' = SendProxy(fe, p, m)
    BY <1>1
<1>5. issued' \subseteq Reqs /\ UNCHANGED <<told, lost, stranded>>
    BY DEF SwitchTalk, IndInv, TypeOK
<1> HIDE DEF p, m
<1> QED
    BY <1>2, <1>3, <1>4, <1>5, SendAboutStep

(* Steps in which the caller gives up one session that the dictionary and  *)
(* the tables keep: it ends in its proxy or is being dropped.              *)
LEMMA GiveUpStep ==
    ASSUME IndInv, TypeOK', NEW S \in Sessions,
           told'[S] = "gone", \A T \in Sessions \ {S} : told'[T] = told[T], stranded' = stranded,
           fe'.open = fe.open, fe'.load = fe.load, fe'.owned = fe.owned, fe'.home = fe.home,
           \A q \in Proxies : fe'.live[q] \subseteq fe.live[q] /\ fe.live[q] \ {S} \subseteq fe'.live[q],
           \A q \in Proxies : S \in fe'.live[q] => \E m \in In(fe'.wire[q]) : m.op = "drop" /\ m.session = S,
           \A q \in Proxies : ~fe.open[q] => fe'.wire[q] = fe.wire[q],
           \A q \in Proxies : \A m \in In(fe.wire[q]) :
                m.op = "drop" /\ m.session # S => m \in In(fe'.wire[q]),
           \A q \in Proxies : \A m \in In(fe'.wire[q]) :
                \/ m \in In(fe.wire[q])
                \/ /\ m.session \in Sessions /\ ~AbsentFrom(q, m.session)
                   /\ m.op = "failed" => m.session \notin fe'.live[q]
                   /\ Worded(m)
    PROVE  IndInv'
<1>0. TypeOK /\ \A q \in Proxies : fe'.live[q] \subseteq Sessions
    BY DEF IndInv, TypeOK, FrontendStates
<1>1. NewUnheard' /\ OnePlace' /\ MessagesMeant'
    BY QuietStep
<1>2. LoadCountsSessions' /\ LoadsFinite'
    BY SameLoads
<1>3. ClosedIsSilent'
    BY DEF IndInv, ClosedIsSilent
<1>4. OwnedAtHome'
    BY DEF IndInv, OwnedAtHome
<1>5. KnownIsServed'
  <2> SUFFICES ASSUME NEW T \in Sessions, told'[T] = "known"
               PROVE  HasProxy(fe', T) /\ T \in fe'.owned[fe'.home[T]] \cap fe'.live[fe'.home[T]]
    BY DEF KnownIsServed
  <2>1. T # S /\ told[T] = "known"
    OBVIOUS
  <2>2. HasProxy(fe, T) /\ T \in fe.owned[fe.home[T]] \cap fe.live[fe.home[T]]
    BY <2>1 DEF IndInv, KnownIsServed
  <2>3. fe.home[T] \in Proxies
    BY <1>0, <2>2, Typing DEF HasProxy
  <2> QED
    BY <2>1, <2>2, <2>3 DEF HasProxy
<1>6. NoOrphanSessions'
  <2> SUFFICES ASSUME NEW q \in Proxies, NEW T \in fe'.live[q], told'[T] # "known", T \notin stranded'
               PROVE  DropPending(q, T)'
    BY DEF NoOrphanSessions
  <2>1. \E m \in In(fe'.wire[q]) : m.op = "drop" /\ m.session = T
    <3>1. CASE T = S
        BY <3>1
    <3>2. CASE T # S
      <4>1. DropPending(q, T)
        BY <1>0, <3>2 DEF IndInv, NoOrphanSessions
      <4> QED
        BY <1>0, <3>2, <4>1, DropPendingIn
    <3> QED
        BY <3>1, <3>2
  <2>2. DOMAIN fe'.wire[q] = 1..Len(fe'.wire[q])
    BY DEF TypeOK, FrontendStates
  <2>3. PICK m \in In(fe'.wire[q]) : m.op = "drop" /\ m.session = T
    BY <2>1
  <2>4. PICK i \in DOMAIN fe'.wire[q] : fe'.wire[q][i] = m
    BY <2>2, Zenon DEF In
  <2>5. fe'.wire[q][i].op = "drop" /\ fe'.wire[q][i].session = T
    BY <2>3, <2>4
  <2> QED
    BY <2>4, <2>5, Zenon DEF DropPending
<1> QED
    BY <1>1, <1>2, <1>3, <1>4, <1>5, <1>6 DEF IndInv

(* What the caller knows after giving up one session.                      *)
LEMMA GoneFacts ==
    ASSUME TypeOK, NEW S \in Sessions, told' = Gone({S})
    PROVE  /\ told' \in [Sessions -> {"new", "known", "gone"}]
           /\ told'[S] = "gone" /\ \A T \in Sessions \ {S} : told'[T] = told[T]
    BY DEF Gone, TypeOK

(* The caller drops a session, with one request or two.                    *)
LEMMA DropsStep ==
    ASSUME IndInv, NEW S \in Sessions, told[S] = "known", told' = Gone({S}),
           UNCHANGED <<issued, lost, stranded>>, NEW p \in Proxies, fe.open[p], ~AbsentFrom(p, S),
           NEW m \in ProxyMessages, m.op = "drop", m.session = S,
           fe' = SendProxy(fe, p, m) \/ fe' = SendProxy(SendProxy(fe, p, m), p, m)
    PROVE  IndInv'
<1>0. TypeOK /\ fe \in FrontendStates
    BY Typing DEF IndInv
<1>1. /\ fe' \in FrontendStates /\ fe'.open = fe.open /\ fe'.load = fe.load /\ fe'.owned = fe.owned
      /\ fe'.home = fe.home /\ fe'.live = fe.live
      /\ In(fe'.wire[p]) = In(fe.wire[p]) \cup {m}
      /\ \A q \in Proxies \ {p} : fe'.wire[q] = fe.wire[q]
  <2> DEFINE g == SendProxy(fe, p, m)
  <2>1. /\ g \in FrontendStates /\ g.open = fe.open /\ g.load = fe.load /\ g.owned = fe.owned
        /\ g.home = fe.home /\ g.live = fe.live
        /\ In(g.wire[p]) = In(fe.wire[p]) \cup {m}
        /\ \A q \in Proxies \ {p} : g.wire[q] = fe.wire[q]
    BY <1>0, SendProxyFields
  <2> HIDE DEF g
  <2>2. CASE fe' = g
    BY <2>1, <2>2
  <2>3. CASE fe' = SendProxy(g, p, m)
    BY <2>1, <2>3, SendProxyFields
  <2> QED
    BY <2>2, <2>3 DEF g
<1>2. /\ told' \in [Sessions -> {"new", "known", "gone"}]
      /\ told'[S] = "gone" /\ \A T \in Sessions \ {S} : told'[T] = told[T]
    BY <1>0, GoneFacts
<1>3. TypeOK'
    BY <1>0, <1>1, <1>2 DEF TypeOK
<1>4. \A q \in Proxies : S \in fe'.live[q] => \E n \in In(fe'.wire[q]) : n.op = "drop" /\ n.session = S
  <2> SUFFICES ASSUME NEW q \in Proxies, S \in fe'.live[q]
               PROVE  \E n \in In(fe'.wire[q]) : n.op = "drop" /\ n.session = S
    OBVIOUS
  <2>1. q = p
    BY <1>1, ElsewhereAbsent DEF AbsentFrom
  <2> QED
    BY <1>1, <2>1
<1>5. \A q \in Proxies : ~fe.open[q] => fe'.wire[q] = fe.wire[q]
    BY <1>1
<1>6. \A q \in Proxies : \A n \in In(fe'.wire[q]) :
        \/ n \in In(fe.wire[q])
        \/ n.session \in Sessions /\ ~AbsentFrom(q, n.session) /\ n.op = "drop" /\ Worded(n)
  <2> TAKE q \in Proxies
  <2> TAKE n \in In(fe'.wire[q])
  <2>1. n \in In(fe.wire[q]) \/ (q = p /\ n = m)
    BY <1>1
  <2> QED
    BY <2>1 DEF Worded
<1>7. \A q \in Proxies : \A n \in In(fe.wire[q]) : n \in In(fe'.wire[q])
    BY <1>1
<1> QED
    BY <1>1, <1>2, <1>3, <1>4, <1>5, <1>6, <1>7, GiveUpStep

(* The caller drops a session; the second request of a core that asks      *)
(* twice finds the proxy as the first did.                                 *)
LEMMA DropStep ==
    ASSUME IndInv, NEW S \in Sessions, NEW again \in BOOLEAN, Drop(S, again)
    PROVE  IndInv'
<1> DEFINE p == fe.home[S]
           m == ProxyMessage("drop", None, S, None)
<1>1. m \in ProxyMessages /\ m.op = "drop" /\ m.session = S
    BY DEF ProxyMessage, ProxyMessages, FrontendOps
<1>2. told[S] = "known" /\ told' = Gone({S}) /\ UNCHANGED <<issued, lost, stranded>>
    BY DEF Drop
<1>3. p \in Proxies /\ fe.open[p] /\ ~AbsentFrom(p, S) /\ HasProxy(fe, S)
    BY <1>2, KnownHome
<1>4. DropSession(fe, S) = SendProxy(fe, p, m)
    BY <1>3 DEF DropSession
<1> HIDE DEF m
<1>5. fe \in FrontendStates
    BY Typing DEF IndInv
<1>6. SendProxy(fe, p, m).home = fe.home /\ SendProxy(fe, p, m).open = fe.open
    BY <1>1, <1>3, <1>5, SendProxyFields
<1>7. DropSession(SendProxy(fe, p, m), S) = SendProxy(SendProxy(fe, p, m), p, m)
    BY <1>3, <1>6 DEF DropSession, HasProxy, m
<1>8. fe' = SendProxy(fe, p, m) \/ fe' = SendProxy(SendProxy(fe, p, m), p, m)
    BY <1>4, <1>7, Zenon DEF Drop
<1> HIDE DEF p
<1> QED
    BY <1>1, <1>2, <1>3, <1>8, DropsStep

(* An answer is taken off the wire of a proxy, which is connected.         *)
LEMMA AnswerTaken ==
    ASSUME IndInv, NEW p \in Proxies, fe.wire[p] # <<>>
    PROVE  /\ TypeOK /\ fe \in FrontendStates /\ fe.open[p]
           /\ Said(fe, p) \in ProxyMessages /\ Said(fe, p) \in In(fe.wire[p])
           /\ Consume(fe, p) \in FrontendStates
           /\ Consume(fe, p).open = fe.open /\ Consume(fe, p).load = fe.load
           /\ Consume(fe, p).owned = fe.owned /\ Consume(fe, p).home = fe.home
           /\ Consume(fe, p).live = fe.live /\ Consume(fe, p).talk = fe.talk
           /\ \A q \in Proxies : In(Consume(fe, p).wire[q]) \subseteq In(fe.wire[q])
           /\ \A q \in Proxies : ~fe.open[q] => Consume(fe, p).wire[q] = fe.wire[q]
           /\ \A q \in Proxies : \A m \in In(fe.wire[q]) :
                m = Said(fe, p) \/ m \in In(Consume(fe, p).wire[q])
<1>1. TypeOK /\ fe \in FrontendStates /\ fe.open[p]
    BY Typing DEF IndInv, ClosedIsSilent
<1> DEFINE g == Consume(fe, p)
           m == Said(fe, p)
<1>2. /\ g \in FrontendStates /\ m \in ProxyMessages
      /\ g.open = fe.open /\ g.load = fe.load /\ g.owned = fe.owned /\ g.home = fe.home
      /\ g.live = fe.live /\ g.talk = fe.talk
      /\ In(fe.wire[p]) = In(g.wire[p]) \cup {m}
      /\ \A q \in Proxies \ {p} : g.wire[q] = fe.wire[q]
    BY <1>1, ConsumeFields
<1> HIDE DEF g, m
<1>3. /\ \A q \in Proxies : In(g.wire[q]) \subseteq In(fe.wire[q])
      /\ \A q \in Proxies : ~fe.open[q] => g.wire[q] = fe.wire[q]
      /\ \A q \in Proxies : \A n \in In(fe.wire[q]) : n = m \/ n \in In(g.wire[q])
      /\ m \in In(fe.wire[p])
    BY <1>1, <1>2
<1> QED
    BY <1>1, <1>2, <1>3, Zenon DEF g, m

(* What is said about a session is said by the proxy it is at.             *)
LEMMA SaidAbout ==
    ASSUME IndInv, NEW p \in Proxies, fe.wire[p] # <<>>,
           Said(fe, p).op \in {"drop", "failed", "talk on", "talk off"}
    PROVE  /\ Said(fe, p).session \in Sessions /\ ~AbsentFrom(p, Said(fe, p).session)
           /\ Said(fe, p).op = "failed" => Said(fe, p).session \notin fe.live[p]
<1> DEFINE m == Said(fe, p)
<1>1. m \in In(fe.wire[p]) /\ m.op \in {"drop", "failed", "talk on", "talk off"}
    BY AnswerTaken
<1> HIDE DEF m
<1>2. m.session \in Sessions /\ (m.op = "failed" => m.session \notin fe.live[p])
    BY <1>1 DEF IndInv, MessagesMeant
<1>3. ~AbsentFrom(p, m.session)
    BY <1>1 DEF AbsentFrom
<1> QED
    BY <1>2, <1>3 DEF m

(* A create request is refused.                                            *)
LEMMA RefusedStep ==
    ASSUME IndInv, NEW p \in Proxies, fe.wire[p] # <<>>, Said(fe, p).op = "create",
           fe' = Consume(fe, p), UNCHANGED <<told, issued, lost, stranded>>
    PROVE  IndInv'
<1>1. TypeOK'
    BY AnswerTaken DEF TypeOK
<1>2. \A q \in Proxies : \A m \in In(fe.wire[q]) : m.op = "drop" => m \in In(fe'.wire[q])
    BY AnswerTaken
<1> QED
    BY <1>1, <1>2, AnswerTaken, WireStep

(* The answer to a talk request changes the queue and what is forwarded.   *)
LEMMA TalkedStep ==
    ASSUME IndInv, NEW p \in Proxies, fe.wire[p] # <<>>, AnswerTalk(p), UNCHANGED <<issued, lost, stranded>>
    PROVE  IndInv'
<1> DEFINE m == Said(fe, p)
           g == Consume(fe, p)
           t == IF m.op = "talk on" THEN fe.talk[m.session] \cup {m.loop} ELSE fe.talk[m.session] \ {m.loop}
<1>1. m \in ProxyMessages /\ m.session \in Sessions /\ m.op \in {"talk on", "talk off"}
    BY AnswerTaken, SaidAbout DEF AnswerTalk
<1>2. g \in FrontendStates /\ g.talk = fe.talk
    BY AnswerTaken
<1>3. fe' = g \/ fe' = [g EXCEPT !.talk = [g.talk EXCEPT ![m.session] = t]]
    BY <1>2 DEF AnswerTalk, Talked, FrontendStates
<1>4. t \in SUBSET Loops
  <2>1. m.loop \in Loops \cup {None} /\ fe.talk[m.session] \in SUBSET Loops
    BY <1>1, AnswerTaken DEF ProxyMessages, FrontendStates
  <2>2. Worded(m)
    BY <1>1, AnswerTaken DEF IndInv, MessagesMeant
  <2> QED
    BY <1>1, <2>1, <2>2 DEF Worded
<1> HIDE DEF m, g, t
<1>5. /\ fe' \in FrontendStates /\ fe'.open = g.open /\ fe'.load = g.load /\ fe'.owned = g.owned
      /\ fe'.home = g.home /\ fe'.live = g.live /\ fe'.wire = g.wire
  <2>1. CASE fe' = g
    BY <1>2, <2>1
  <2>2. CASE fe' = [g EXCEPT !.talk = [g.talk EXCEPT ![m.session] = t]]
    <3>1. g.talk \in [Sessions -> SUBSET Loops]
        BY <1>2 DEF FrontendStates
    <3>2. [g.talk EXCEPT ![m.session] = t] \in [Sessions -> SUBSET Loops]
        BY <1>1, <1>4, <3>1
    <3> QED
        BY <1>2, <2>2, <3>2 DEF FrontendStates
  <2> QED
    BY <1>3, <2>1, <2>2
<1>6. UNCHANGED <<told, issued, lost, stranded>>
    BY DEF AnswerTalk
<1>7. TypeOK'
    BY <1>5, <1>6, AnswerTaken DEF TypeOK
<1>8. \A q \in Proxies : \A n \in In(fe.wire[q]) : n.op = "drop" => n \in In(fe'.wire[q])
    BY <1>1, <1>5, AnswerTaken DEF g, m
<1>9. \A q \in Proxies : In(fe'.wire[q]) \subseteq In(fe.wire[q])
    BY <1>5, AnswerTaken DEF g
<1> QED
    BY <1>5, <1>6, <1>7, <1>8, <1>9, AnswerTaken, WireStep DEF g

(* The second event about a session whose ICE failed.                      *)
LEMMA SecondFailureStep ==
    ASSUME IndInv, NEW p \in Proxies, fe.wire[p] # <<>>, SecondFailure(p), UNCHANGED <<issued, lost, stranded>>
    PROVE  IndInv'
<1> DEFINE S == Said(fe, p).session
<1>1. S \in Sessions /\ ~AbsentFrom(p, S) /\ S \notin fe.live[p]
    BY SaidAbout DEF SecondFailure
<1>2. told' = Gone({S}) /\ fe' = Consume(fe, p) /\ Said(fe, p).op = "failed"
    BY DEF SecondFailure
<1> HIDE DEF S
<1>3. /\ told' \in [Sessions -> {"new", "known", "gone"}]
      /\ told'[S] = "gone" /\ \A T \in Sessions \ {S} : told'[T] = told[T]
    BY <1>1, <1>2, AnswerTaken, GoneFacts
<1>4. TypeOK'
    BY <1>2, <1>3, AnswerTaken DEF TypeOK
<1>5. \A q \in Proxies : S \notin fe.live[q]
    BY <1>1, ElsewhereAbsent DEF AbsentFrom
<1>6. \A q \in Proxies : \A m \in In(fe.wire[q]) : m.op = "drop" => m \in In(fe'.wire[q])
    BY <1>2, AnswerTaken
<1>7. /\ fe'.open = fe.open /\ fe'.load = fe.load /\ fe'.owned = fe.owned /\ fe'.home = fe.home
      /\ fe'.live = fe.live
      /\ \A q \in Proxies : In(fe'.wire[q]) \subseteq In(fe.wire[q])
      /\ \A q \in Proxies : ~fe.open[q] => fe'.wire[q] = fe.wire[q]
    BY <1>2, AnswerTaken
<1> QED
    BY <1>1, <1>3, <1>4, <1>5, <1>6, <1>7, GiveUpStep

(* The fields after a session has ended in its proxy.                      *)
LEMMA EndSessionFields ==
    ASSUME NEW f \in FrontendStates, NEW p \in Proxies, NEW S \in Sessions
    PROVE  /\ EndSession(f, p, S) \in FrontendStates
           /\ EndSession(f, p, S).open = f.open /\ EndSession(f, p, S).load = f.load
           /\ EndSession(f, p, S).owned = f.owned /\ EndSession(f, p, S).home = f.home
           /\ EndSession(f, p, S).wire = f.wire
           /\ EndSession(f, p, S).live = [f.live EXCEPT ![p] = f.live[p] \ {S}]
<1>1. EndSession(f, p, S) = [f EXCEPT !.live = [f.live EXCEPT ![p] = f.live[p] \ {S}],
                                      !.talk = [f.talk EXCEPT ![S] = {}]]
    BY DEF EndSession, FrontendStates
<1>2. /\ [f.live EXCEPT ![p] = f.live[p] \ {S}] \in [Proxies -> SUBSET Sessions]
      /\ [f.talk EXCEPT ![S] = {}] \in [Sessions -> SUBSET Loops]
    BY DEF FrontendStates
<1> QED
    BY <1>1, <1>2 DEF FrontendStates

(* ICE of a session fails: it ends, and the second event is queued.        *)
LEMMA IceFailsStep ==
    ASSUME IndInv, NEW p \in Proxies, NEW S \in Sessions, IceFails(p, S)
    PROVE  IndInv'
<1> DEFINE m == ProxyMessage("failed", None, S, None)
           g == EndSession(fe, p, S)
<1>0. TypeOK /\ fe \in FrontendStates /\ fe.open[p] /\ S \in fe.live[p] /\ fe.wire \in [Proxies -> Seq(ProxyMessages)]
    BY Typing DEF IndInv, IceFails
<1>1. m \in ProxyMessages /\ m.op = "failed" /\ m.session = S
    BY DEF ProxyMessage, ProxyMessages, FrontendOps
<1>2. /\ g \in FrontendStates /\ g.open = fe.open /\ g.load = fe.load /\ g.owned = fe.owned
      /\ g.home = fe.home /\ g.wire = fe.wire /\ g.live = [fe.live EXCEPT ![p] = fe.live[p] \ {S}]
    BY <1>0, EndSessionFields
<1>3. fe' = [g EXCEPT !.wire[p] = <<m>> \o @]
    BY DEF IceFails, IceFailed
<1> HIDE DEF m, g
<1>4. <<m>> \o fe.wire[p] \in Seq(ProxyMessages) /\ In(<<m>> \o fe.wire[p]) = In(fe.wire[p]) \cup {m}
    BY <1>0, <1>1, QueueFacts
<1>5. fe' = [g EXCEPT !.wire = [fe.wire EXCEPT ![p] = <<m>> \o fe.wire[p]]]
    BY <1>2, <1>3 DEF FrontendStates
<1>6. [fe.wire EXCEPT ![p] = <<m>> \o fe.wire[p]] \in [Proxies -> Seq(ProxyMessages)]
    BY <1>0, <1>4
<1>7. /\ fe' \in FrontendStates /\ fe'.open = fe.open /\ fe'.load = fe.load /\ fe'.owned = fe.owned
      /\ fe'.home = fe.home /\ fe'.live = [fe.live EXCEPT ![p] = fe.live[p] \ {S}]
      /\ fe'.wire = [fe.wire EXCEPT ![p] = <<m>> \o fe.wire[p]]
    BY <1>2, <1>5, <1>6 DEF FrontendStates
<1>8. /\ In(fe'.wire[p]) = In(fe.wire[p]) \cup {m} /\ fe'.live[p] = fe.live[p] \ {S}
      /\ \A q \in Proxies \ {p} : fe'.wire[q] = fe.wire[q] /\ fe'.live[q] = fe.live[q]
  <2>1. fe'.wire[p] = <<m>> \o fe.wire[p] /\ \A q \in Proxies \ {p} : fe'.wire[q] = fe.wire[q]
    BY <1>0, <1>7
  <2>2. fe'.live[p] = fe.live[p] \ {S} /\ \A q \in Proxies \ {p} : fe'.live[q] = fe.live[q]
    BY <1>0, <1>7, Typing
  <2> QED
    BY <1>4, <2>1, <2>2
<1>9. told' = Gone({S}) /\ UNCHANGED <<issued, lost, stranded>>
    BY DEF IceFails
<1>10. /\ told' \in [Sessions -> {"new", "known", "gone"}]
       /\ told'[S] = "gone" /\ \A T \in Sessions \ {S} : told'[T] = told[T]
    BY <1>0, <1>9, GoneFacts
<1>11. TypeOK'
    BY <1>0, <1>7, <1>9, <1>10 DEF TypeOK
<1>12. ~AbsentFrom(p, S)
    BY <1>0 DEF AbsentFrom
<1>13. \A q \in Proxies : S \notin fe'.live[q]
    BY <1>8, <1>12, ElsewhereAbsent DEF AbsentFrom
<1>14. \A q \in Proxies : \A n \in In(fe'.wire[q]) :
        \/ n \in In(fe.wire[q])
        \/ /\ n.session \in Sessions /\ ~AbsentFrom(q, n.session)
           /\ n.op = "failed" /\ n.session \notin fe'.live[q] /\ Worded(n)
  <2> TAKE q \in Proxies
  <2> TAKE n \in In(fe'.wire[q])
  <2>1. n \in In(fe.wire[q]) \/ (q = p /\ n = m)
    BY <1>8
  <2> QED
    BY <1>1, <1>12, <1>13, <2>1 DEF Worded
<1>15. \A q \in Proxies : /\ ~fe.open[q] => fe'.wire[q] = fe.wire[q]
                          /\ fe'.live[q] \subseteq fe.live[q] /\ fe.live[q] \ {S} \subseteq fe'.live[q]
                          /\ In(fe.wire[q]) \subseteq In(fe'.wire[q])
    BY <1>0, <1>8
<1> QED
    BY <1>7, <1>9, <1>10, <1>11, <1>13, <1>14, <1>15, GiveUpStep

(* A drop ends the session in the proxy; its answer is still to come.      *)
LEMMA DropFailsStep ==
    ASSUME IndInv, NEW p \in Proxies, NEW S \in Sessions, ~AbsentFrom(p, S), fe' = EndSession(fe, p, S),
           told' = Gone({S}), UNCHANGED <<issued, lost, stranded>>
    PROVE  IndInv'
<1>0. TypeOK /\ fe \in FrontendStates
    BY Typing DEF IndInv
<1>1. /\ fe' \in FrontendStates /\ fe'.open = fe.open /\ fe'.load = fe.load /\ fe'.owned = fe.owned
      /\ fe'.home = fe.home /\ fe'.wire = fe.wire /\ fe'.live = [fe.live EXCEPT ![p] = fe.live[p] \ {S}]
    BY <1>0, EndSessionFields
<1>2. fe'.live[p] = fe.live[p] \ {S} /\ \A q \in Proxies \ {p} : fe'.live[q] = fe.live[q]
    BY <1>0, <1>1, Typing
<1>3. /\ told' \in [Sessions -> {"new", "known", "gone"}]
      /\ told'[S] = "gone" /\ \A T \in Sessions \ {S} : told'[T] = told[T]
    BY <1>0, GoneFacts
<1>4. TypeOK'
    BY <1>0, <1>1, <1>3 DEF TypeOK
<1>5. \A q \in Proxies : S \notin fe'.live[q]
    BY <1>2, ElsewhereAbsent DEF AbsentFrom
<1>6. \A q \in Proxies : fe'.live[q] \subseteq fe.live[q] /\ fe.live[q] \ {S} \subseteq fe'.live[q]
    BY <1>2
<1> QED
    BY <1>1, <1>3, <1>4, <1>5, <1>6, GiveUpStep

(* The answer to a drop takes the session out of the registry.             *)
LEMMA DroppedStep ==
    ASSUME IndInv, NEW p \in Proxies, fe.wire[p] # <<>>, NEW S \in Sessions, Said(fe, p).session = S,
           Said(fe, p).op = "drop", S \notin fe.live[p], fe' = UnregisterSession(Consume(fe, p), S),
           told' = Gone({S}), UNCHANGED <<issued, lost, stranded>>
    PROVE  IndInv'
<1> DEFINE g == Consume(fe, p)
           h == fe.home[S]
<1>0. TypeOK
    BY DEF IndInv
<1>1. /\ g \in FrontendStates /\ g.open = fe.open /\ g.load = fe.load /\ g.owned = fe.owned
      /\ g.home = fe.home /\ g.live = fe.live
      /\ \A q \in Proxies : In(g.wire[q]) \subseteq In(fe.wire[q])
      /\ \A q \in Proxies : ~fe.open[q] => g.wire[q] = fe.wire[q]
    BY AnswerTaken
<1>2. \A q \in Proxies : \A m \in In(fe.wire[q]) : m.session # S => m \in In(g.wire[q])
    BY AnswerTaken
<1> HIDE DEF g
<1>3. /\ fe' \in FrontendStates /\ fe'.open = fe.open /\ fe'.wire = g.wire /\ fe'.live = fe.live
      /\ fe'.home = [fe.home EXCEPT ![S] = NoProxy]
      /\ \A q \in Proxies : q # h => fe'.owned[q] = fe.owned[q] /\ fe'.load[q] = fe.load[q]
      /\ \A q \in Proxies : q = h => /\ fe'.owned[q] = fe.owned[q] \ {S}
                                     /\ fe.load[q] > 0 => fe'.load[q] = fe.load[q] - 1
  <2> DEFINE z == UnregisterSession(g, S)
  <2>1. /\ z \in FrontendStates /\ z.open = g.open /\ z.wire = g.wire /\ z.live = g.live
        /\ z.home = [g.home EXCEPT ![S] = NoProxy]
        /\ \A q \in Proxies : q # g.home[S] => z.owned[q] = g.owned[q] /\ z.load[q] = g.load[q]
        /\ \A q \in Proxies : q = g.home[S] => /\ z.owned[q] = g.owned[q] \ {S}
                                               /\ g.load[q] > 0 => z.load[q] = g.load[q] - 1
    BY <1>1, UnregisterSessionFields
  <2> HIDE DEF z
  <2>2. fe' = z
    BY DEF z, g
  <2>3. /\ z \in FrontendStates /\ z.open = fe.open /\ z.wire = g.wire /\ z.live = fe.live
        /\ z.home = [fe.home EXCEPT ![S] = NoProxy]
    BY <1>1, <2>1
  <2>4. \A q \in Proxies : q # h => z.owned[q] = fe.owned[q] /\ z.load[q] = fe.load[q]
    BY <1>1, <2>1
  <2>5. \A q \in Proxies : q = h => /\ z.owned[q] = fe.owned[q] \ {S}
                                    /\ fe.load[q] > 0 => z.load[q] = fe.load[q] - 1
    BY <1>1, <2>1
  <2> QED
    BY <2>2, <2>3, <2>4, <2>5, ZenonT(60)
<1> HIDE DEF h
<1>4. fe'.home[S] = NoProxy /\ \A T \in Sessions \ {S} : fe'.home[T] = fe.home[T]
    BY <1>0, <1>3, Typing
<1>5. /\ told' \in [Sessions -> {"new", "known", "gone"}]
      /\ told'[S] = "gone" /\ \A T \in Sessions \ {S} : told'[T] = told[T]
    BY <1>0, GoneFacts
<1>6. TypeOK'
    BY <1>0, <1>3, <1>5 DEF TypeOK
<1>7. \A q \in Proxies : S \notin fe.live[q]
  <2>1. ~AbsentFrom(p, S)
    BY SaidAbout
  <2> QED
    BY <2>1, ElsewhereAbsent DEF AbsentFrom
<1>8. NewUnheard' /\ OnePlace' /\ MessagesMeant'
  <2>1. \A T \in Sessions : told'[T] = "new" => told[T] = "new"
    BY <1>5
  <2>2. \A T \in Sessions : fe'.home[T] \in {fe.home[T], NoProxy}
    BY <1>4
  <2>3. \A q \in Proxies : fe'.live[q] \subseteq fe.live[q] /\ In(fe'.wire[q]) \subseteq In(fe.wire[q])
    BY <1>1, <1>3
  <2> QED
    BY <2>1, <2>2, <2>3, QuietStep
<1>9. LoadCountsSessions' /\ LoadsFinite'
  <2> SUFFICES ASSUME NEW q \in Proxies
               PROVE  IsFiniteSet(At(q)') /\ fe'.load[q] = Cardinality(At(q)')
    BY DEF LoadCountsSessions, LoadsFinite, At
  <2>1. IsFiniteSet(At(q)) /\ fe.load[q] = Cardinality(At(q)) /\ Cardinality(At(q)) \in Nat
    BY FS_CardinalityType DEF IndInv, LoadsFinite, LoadCountsSessions, At
  <2>2. CASE q # h
    <3>1. At(q)' = At(q)
        BY <1>4, <2>2, ProxiesAssumption DEF At, NoProxy, h
    <3> QED
        BY <1>3, <2>1, <2>2, <3>1
  <2>3. CASE q = h
    <3>1. At(q)' = At(q) \ {S} /\ S \in At(q)
        BY <1>4, <2>3, ProxiesAssumption DEF At, NoProxy, h
    <3>2. /\ IsFiniteSet(At(q) \ {S}) /\ Cardinality(At(q) \ {S}) = Cardinality(At(q)) - 1
          /\ Cardinality(At(q) \ {S}) \in Nat
        BY <2>1, <3>1, FS_RemoveElement, FS_CardinalityType
    <3>3. fe'.load[q] = fe.load[q] - 1
        BY <1>3, <2>1, <2>3, <3>2
    <3> QED
        BY <2>1, <3>1, <3>2, <3>3
  <2> QED
    BY <2>2, <2>3
<1>10. ClosedIsSilent'
    BY <1>1, <1>3 DEF IndInv, ClosedIsSilent
<1>11. OwnedAtHome'
  <2> SUFFICES ASSUME NEW q \in Proxies, NEW T \in fe'.owned[q]
               PROVE  fe'.home[T] = q /\ fe'.open[q]
    BY DEF OwnedAtHome
  <2>1. T \in fe.owned[q] /\ T \in Sessions
    <3>1. fe'.owned[q] \subseteq fe.owned[q]
      <4>1. CASE q = h
        BY <1>3, <4>1
      <4>2. CASE q # h
        BY <1>3, <4>2
      <4> QED
        BY <4>1, <4>2
    <3> QED
        BY <1>0, <3>1, Typing
  <2>2. fe.home[T] = q /\ fe.open[q]
    BY <2>1 DEF IndInv, OwnedAtHome
  <2>3. T # S
    BY <1>3, <2>2 DEF h
  <2> QED
    BY <1>3, <1>4, <2>1, <2>2, <2>3
<1>12. KnownIsServed'
  <2> SUFFICES ASSUME NEW T \in Sessions, told'[T] = "known"
               PROVE  HasProxy(fe', T) /\ T \in fe'.owned[fe'.home[T]] \cap fe'.live[fe'.home[T]]
    BY DEF KnownIsServed
  <2>1. T # S /\ told[T] = "known"
    BY <1>5
  <2>2. HasProxy(fe, T) /\ T \in fe.owned[fe.home[T]] \cap fe.live[fe.home[T]]
    BY <2>1 DEF IndInv, KnownIsServed
  <2>3. fe.home[T] \in Proxies /\ fe'.home[T] = fe.home[T]
    BY <1>0, <1>4, <2>1, <2>2, Typing DEF HasProxy
  <2> QED
    <3>1. T \in fe'.owned[fe.home[T]]
      <4> DEFINE x == fe.home[T]
      <4>1. x \in Proxies /\ T \in fe.owned[x]
        BY <2>2, <2>3
      <4> HIDE DEF x
      <4>2. T \in fe'.owned[x]
        BY <1>3, <2>1, <4>1
      <4> QED
        BY <4>2 DEF x
    <3> QED
        BY <1>3, <2>2, <2>3, <3>1 DEF HasProxy
<1>13. NoOrphanSessions'
  <2> SUFFICES ASSUME NEW q \in Proxies, NEW T \in fe'.live[q], told'[T] # "known", T \notin stranded'
               PROVE  DropPending(q, T)'
    BY DEF NoOrphanSessions
  <2>1. T \in fe.live[q] /\ T \in Sessions /\ T # S
    BY <1>0, <1>3, <1>7, Typing
  <2>2. DropPending(q, T)
    BY <1>5, <2>1 DEF IndInv, NoOrphanSessions
  <2>3. PICK m \in In(fe.wire[q]) : m.op = "drop" /\ m.session = T
    BY <1>0, <2>2, DropPendingIn
  <2>4. m \in In(fe'.wire[q])
    BY <1>2, <1>3, <2>1, <2>3
  <2>5. DOMAIN fe'.wire[q] = 1..Len(fe'.wire[q])
    BY <1>3 DEF FrontendStates
  <2> QED
    BY <2>3, <2>4, <2>5, Zenon DEF DropPending, In
<1> QED
    BY <1>6, <1>8, <1>9, <1>10, <1>11, <1>12, <1>13 DEF IndInv

(* The fields after a fresh session has been made and entered.             *)
Created(f, p, S, z) ==
    /\ z \in FrontendStates /\ z.open = f.open /\ z.wire = Consume(f, p).wire
    /\ z.home = [f.home EXCEPT ![S] = p] /\ z.load = [f.load EXCEPT ![p] = f.load[p] + 1]
    /\ z.owned = [f.owned EXCEPT ![p] = f.owned[p] \cup {S}]
    /\ z.live = [f.live EXCEPT ![p] = f.live[p] \cup {S}]

(* The session is entered at the proxy that made it.                       *)
LEMMA SessionCreatedFields ==
    ASSUME NEW f \in FrontendStates, NEW p \in Proxies, NEW S \in Sessions, f.wire[p] # <<>>
    PROVE  Created(f, p, S, SessionCreated(f, p, S))
<1> DEFINE g == Consume(f, p)
           k == [g EXCEPT !.live = [f.live EXCEPT ![p] = f.live[p] \cup {S}]]
<1>1. /\ g \in FrontendStates /\ g.open = f.open /\ g.load = f.load /\ g.owned = f.owned
      /\ g.home = f.home /\ g.live = f.live
    BY ConsumeFields
<1> HIDE DEF g
<1>2. SessionCreated(f, p, S) = RegisterSession(k, p, S)
    BY <1>1 DEF SessionCreated, g, FrontendStates
<1>3. /\ k.open = f.open /\ k.load = f.load /\ k.owned = f.owned /\ k.home = f.home
      /\ k.wire = g.wire /\ k.live = [f.live EXCEPT ![p] = f.live[p] \cup {S}]
    BY <1>1 DEF FrontendStates
<1>4. k \in FrontendStates
    BY <1>1 DEF FrontendStates
<1> HIDE DEF k
<1>5. RegisterSession(k, p, S) = [k EXCEPT !.owned = [f.owned EXCEPT ![p] = f.owned[p] \cup {S}],
            !.home = [f.home EXCEPT ![S] = p], !.load = [f.load EXCEPT ![p] = f.load[p] + 1]]
    BY <1>3, <1>4 DEF RegisterSession, FrontendStates
<1>6. /\ [f.owned EXCEPT ![p] = f.owned[p] \cup {S}] \in [Proxies -> SUBSET Sessions]
      /\ [f.home EXCEPT ![S] = p] \in [Sessions -> Proxies \cup {NoProxy}]
      /\ [f.load EXCEPT ![p] = f.load[p] + 1] \in [Proxies -> Nat]
    BY DEF FrontendStates
<1> DEFINE z == RegisterSession(k, p, S)
<1>7. z \in FrontendStates
    BY <1>4, <1>5, <1>6 DEF FrontendStates
<1>8. /\ z.open = k.open /\ z.wire = k.wire /\ z.live = k.live
      /\ z.home = [f.home EXCEPT ![S] = p] /\ z.load = [f.load EXCEPT ![p] = f.load[p] + 1]
      /\ z.owned = [f.owned EXCEPT ![p] = f.owned[p] \cup {S}]
    BY <1>4, <1>5 DEF FrontendStates
<1> HIDE DEF z
<1>9. Created(f, p, S, z)
    BY <1>3, <1>7, <1>8 DEF Created, g
<1> QED
    BY <1>2, <1>9 DEF z

(* A fresh session is made, entered in the registry and told to the caller.*)
LEMMA CreatedStep ==
    ASSUME IndInv, NEW p \in Proxies, fe.wire[p] # <<>>, Said(fe, p).op = "create",
           NEW S \in Sessions, told[S] = "new", fe' = SessionCreated(fe, p, S),
           told' = [told EXCEPT ![S] = "known"], UNCHANGED <<issued, lost, stranded>>
    PROVE  IndInv'
<1> DEFINE w == Consume(fe, p).wire
<1>0. TypeOK /\ fe \in FrontendStates /\ fe.open[p] /\ NoProxy \notin Proxies
    BY AnswerTaken, Typing
<1>1. /\ fe' \in FrontendStates /\ fe'.open = fe.open /\ fe'.wire = w
      /\ fe'.home = [fe.home EXCEPT ![S] = p] /\ fe'.load = [fe.load EXCEPT ![p] = fe.load[p] + 1]
      /\ fe'.owned = [fe.owned EXCEPT ![p] = fe.owned[p] \cup {S}]
      /\ fe'.live = [fe.live EXCEPT ![p] = fe.live[p] \cup {S}]
  <2>1. Created(fe, p, S, fe')
    BY <1>0, SessionCreatedFields
  <2> QED
    BY <2>1 DEF Created
<1>2. /\ \A q \in Proxies : In(w[q]) \subseteq In(fe.wire[q])
      /\ \A q \in Proxies : ~fe.open[q] => w[q] = fe.wire[q]
      /\ \A q \in Proxies : \A m \in In(fe.wire[q]) : m.op = "drop" => m \in In(w[q])
    BY AnswerTaken
<1> HIDE DEF w
<1>3. /\ fe'.home[S] = p /\ \A T \in Sessions \ {S} : fe'.home[T] = fe.home[T]
      /\ fe'.load[p] = fe.load[p] + 1 /\ fe'.owned[p] = fe.owned[p] \cup {S}
      /\ fe'.live[p] = fe.live[p] \cup {S}
      /\ \A q \in Proxies \ {p} : /\ fe'.load[q] = fe.load[q] /\ fe'.owned[q] = fe.owned[q]
                                  /\ fe'.live[q] = fe.live[q]
    BY <1>0, <1>1, Typing
<1>4. /\ told' \in [Sessions -> {"new", "known", "gone"}]
      /\ told'[S] = "known" /\ \A T \in Sessions \ {S} : told'[T] = told[T]
    BY <1>0, Typing
<1>5. TypeOK'
    BY <1>0, <1>1, <1>4 DEF TypeOK
<1>6. /\ fe.home[S] = NoProxy
      /\ \A q \in Proxies : S \notin fe.live[q] /\ \A m \in In(fe.wire[q]) : m.session # S
    BY DEF IndInv, NewUnheard
<1>7. ASSUME NEW q \in Proxies, NEW T \in Sessions \ {S}, AbsentFrom(q, T)
      PROVE  AbsentFrom(q, T)'
    BY <1>1, <1>2, <1>3, <1>7 DEF AbsentFrom
<1>8. NewUnheard'
  <2> SUFFICES ASSUME NEW T \in Sessions, told'[T] = "new"
               PROVE  /\ fe'.home[T] = NoProxy
                      /\ \A q \in Proxies : T \notin fe'.live[q] /\ \A m \in In(fe'.wire[q]) : m.session # T
    BY DEF NewUnheard
  <2>1. T # S /\ told[T] = "new"
    BY <1>4
  <2>2. /\ fe.home[T] = NoProxy
        /\ \A q \in Proxies : T \notin fe.live[q] /\ \A m \in In(fe.wire[q]) : m.session # T
    BY <2>1 DEF IndInv, NewUnheard
  <2>3. \A q \in Proxies : T \notin fe'.live[q]
    BY <1>3, <2>1, <2>2
  <2>4. \A q \in Proxies : \A m \in In(fe'.wire[q]) : m.session # T
    BY <1>1, <1>2, <2>2, SMTT(60)
  <2> QED
    BY <1>3, <2>1, <2>2, <2>3, <2>4
<1>9. OnePlace'
  <2> SUFFICES ASSUME NEW T \in Sessions
               PROVE  \E q \in Proxies \cup {NoProxy} : \A x \in Proxies \ {q} : AbsentFrom(x, T)'
    BY DEF OnePlace
  <2>1. CASE T = S
    <3>1. ASSUME NEW x \in Proxies \ {p} PROVE AbsentFrom(x, S)'
      <4>1. fe'.home[S] # x /\ S \notin fe'.live[x]
        BY <1>3, <1>6
      <4>2. \A m \in In(fe'.wire[x]) : m.session # S
        BY <1>1, <1>2, <1>6
      <4> QED
        BY <4>1, <4>2 DEF AbsentFrom
    <3> QED
        BY <2>1, <3>1
  <2>2. CASE T # S
    <3>1. PICK q \in Proxies \cup {NoProxy} : \A x \in Proxies \ {q} : AbsentFrom(x, T)
        BY DEF IndInv, OnePlace
    <3> QED
        BY <1>7, <2>2, <3>1
  <2> QED
    BY <2>1, <2>2
<1>10. MessagesMeant'
  <2> SUFFICES ASSUME NEW q \in Proxies, NEW m \in In(fe'.wire[q])
               PROVE  /\ m.op \in {"drop", "failed", "talk on", "talk off"} => m.session \in Sessions
                      /\ m.op = "failed" => m.session \notin fe'.live[q]
                      /\ Worded(m)
    BY DEF MessagesMeant
  <2>1. m \in In(fe.wire[q])
    BY <1>1, <1>2
  <2>2. /\ m.op \in {"drop", "failed", "talk on", "talk off"} => m.session \in Sessions
        /\ m.op = "failed" => m.session \notin fe.live[q]
        /\ Worded(m) /\ m.session # S
    BY <1>6, <2>1 DEF IndInv, MessagesMeant
  <2> QED
    BY <1>3, <2>2
<1>11. LoadCountsSessions' /\ LoadsFinite'
  <2> SUFFICES ASSUME NEW q \in Proxies
               PROVE  IsFiniteSet(At(q)') /\ fe'.load[q] = Cardinality(At(q)')
    BY DEF LoadCountsSessions, LoadsFinite, At
  <2>1. IsFiniteSet(At(q)) /\ fe.load[q] = Cardinality(At(q)) /\ Cardinality(At(q)) \in Nat
    BY FS_CardinalityType DEF IndInv, LoadsFinite, LoadCountsSessions, At
  <2>2. CASE q # p
    <3>1. At(q)' = At(q)
        BY <1>0, <1>3, <1>6, <2>2 DEF At
    <3> QED
        BY <1>3, <2>1, <2>2, <3>1
  <2>3. CASE q = p
    <3>1. At(q)' = At(q) \cup {S} /\ S \notin At(q)
        BY <1>0, <1>3, <1>6, <2>3 DEF At
    <3>2. IsFiniteSet(At(q) \cup {S}) /\ Cardinality(At(q) \cup {S}) = Cardinality(At(q)) + 1
        BY <2>1, <3>1, FS_AddElement
    <3> QED
        BY <1>3, <2>1, <2>3, <3>1, <3>2
  <2> QED
    BY <2>2, <2>3
<1>12. ClosedIsSilent'
    BY <1>1, <1>2 DEF IndInv, ClosedIsSilent
<1>13. OwnedAtHome'
  <2> SUFFICES ASSUME NEW q \in Proxies, NEW T \in fe'.owned[q]
               PROVE  fe'.home[T] = q /\ fe'.open[q]
    BY DEF OwnedAtHome
  <2>1. CASE T \in fe.owned[q]
    <3>1. fe.home[T] = q /\ fe.open[q] /\ T \in Sessions
        BY <1>0, <2>1, Typing DEF IndInv, OwnedAtHome
    <3> QED
        BY <1>0, <1>1, <1>3, <1>6, <3>1
  <2>2. CASE T \notin fe.owned[q]
    <3>1. q = p /\ T = S
        BY <1>3, <2>2
    <3> QED
        BY <1>0, <1>1, <1>3, <3>1
  <2> QED
    BY <2>1, <2>2
<1>14. KnownIsServed'
  <2> SUFFICES ASSUME NEW T \in Sessions, told'[T] = "known"
               PROVE  HasProxy(fe', T) /\ T \in fe'.owned[fe'.home[T]] \cap fe'.live[fe'.home[T]]
    BY DEF KnownIsServed
  <2>1. CASE T = S
    BY <1>0, <1>1, <1>3, <2>1 DEF HasProxy
  <2>2. CASE T # S
    <3>1. HasProxy(fe, T) /\ T \in fe.owned[fe.home[T]] \cap fe.live[fe.home[T]]
        BY <1>4, <2>2 DEF IndInv, KnownIsServed
    <3>2. fe.home[T] \in Proxies /\ fe'.home[T] = fe.home[T]
        BY <1>0, <1>3, <2>2, <3>1, Typing DEF HasProxy
    <3> QED
        BY <1>1, <1>3, <3>1, <3>2 DEF HasProxy
  <2> QED
    BY <2>1, <2>2
<1>15. NoOrphanSessions'
  <2> SUFFICES ASSUME NEW q \in Proxies, NEW T \in fe'.live[q], told'[T] # "known", T \notin stranded'
               PROVE  DropPending(q, T)'
    BY DEF NoOrphanSessions
  <2>1. T \in fe.live[q] /\ T \in Sessions /\ T # S
    BY <1>0, <1>3, <1>4, Typing
  <2>2. DropPending(q, T)
    BY <1>4, <2>1 DEF IndInv, NoOrphanSessions
  <2>3. PICK m \in In(fe.wire[q]) : m.op = "drop" /\ m.session = T
    BY <1>0, <2>2, DropPendingIn
  <2>4. m \in In(fe'.wire[q])
    BY <1>1, <1>2, <2>3
  <2>5. DOMAIN fe'.wire[q] = 1..Len(fe'.wire[q])
    BY <1>1 DEF FrontendStates
  <2> QED
    BY <2>3, <2>4, <2>5, Zenon DEF DropPending, In
<1> QED
    BY <1>5, <1>8, <1>9, <1>10, <1>11, <1>12, <1>13, <1>14, <1>15 DEF IndInv

(* What a proxy says next preserves the invariant, whatever it is.         *)
LEMMA AnswersStep ==
    ASSUME IndInv, NEW p \in Proxies, ProxyAnswers(p)
    PROVE  IndInv'
<1>1. fe.wire[p] # <<>> /\ UNCHANGED <<issued, lost, stranded>>
    BY DEF ProxyAnswers
<1>2. CASE AnswerCreate(p)
    BY <1>1, <1>2, CreatedStep, RefusedStep DEF AnswerCreate
<1>3. CASE AnswerDrop(p)
  <2> DEFINE S == Said(fe, p).session
  <2>1. Said(fe, p).op = "drop" /\ told' = Gone({S})
    BY <1>3 DEF AnswerDrop
  <2>2. S \in Sessions /\ ~AbsentFrom(p, S)
    BY <1>1, <2>1, SaidAbout
  <2>3. fe' = IF DropFails(fe, p) THEN EndSession(fe, p, S) ELSE SessionDropped(fe, p)
    BY <1>3 DEF AnswerDrop
  <2>4. CASE DropFails(fe, p)
    <3>1. fe' = EndSession(fe, p, S)
        BY <2>3, <2>4
    <3> HIDE DEF S
    <3> QED
        BY <1>1, <2>1, <2>2, <3>1, DropFailsStep
  <2>5. CASE ~DropFails(fe, p)
    <3>1. fe' = UnregisterSession(Consume(fe, p), S)
        BY <2>3, <2>5 DEF SessionDropped
    <3>2. S \notin fe.live[p] /\ Said(fe, p).session = S
        BY <2>1, <2>5 DEF DropFails
    <3> HIDE DEF S
    <3> QED
        BY <1>1, <2>1, <2>2, <3>1, <3>2, DroppedStep
  <2> QED
    BY <2>4, <2>5
<1>4. CASE AnswerTalk(p)
    BY <1>1, <1>4, TalkedStep
<1>5. CASE SecondFailure(p)
    BY <1>1, <1>5, SecondFailureStep
<1> QED
    BY <1>2, <1>3, <1>4, <1>5 DEF ProxyAnswers

-----------------------------------------------------------------------------
(* The theorems.                                                           *)

(* No proxy, no session and no message at the start.                       *)
LEMMA InitIndInv == Init => IndInv
<1> SUFFICES ASSUME Init PROVE IndInv
    OBVIOUS
<1>1. /\ fe = FrontendInit /\ told = [S \in Sessions |-> "new"]
      /\ issued = {} /\ lost = 0 /\ stranded = {} /\ NoProxy \notin Proxies
    BY ProxiesAssumption DEF Init, NoProxy
<1>2. /\ \A p \in Proxies : /\ fe.open[p] = FALSE /\ fe.load[p] = 0 /\ fe.owned[p] = {}
                            /\ fe.wire[p] = <<>> /\ fe.live[p] = {}
      /\ \A S \in Sessions : fe.home[S] = NoProxy
    BY <1>1 DEF FrontendInit
<1>3. TypeOK
    BY <1>1, LossesAssumption DEF TypeOK, FrontendInit, FrontendStates
<1>4. LoadCountsSessions /\ LoadsFinite
  <2>1. \A p \in Proxies : At(p) = {}
    BY <1>1, <1>2 DEF At
  <2> QED
    BY <1>2, <2>1, FS_EmptySet DEF LoadCountsSessions, LoadsFinite, At
<1>5. KnownIsServed /\ NoOrphanSessions /\ OwnedAtHome /\ ClosedIsSilent
    BY <1>1, <1>2 DEF KnownIsServed, NoOrphanSessions, OwnedAtHome, ClosedIsSilent
<1>6. NewUnheard /\ MessagesMeant
    BY <1>2, EmptyQueue DEF NewUnheard, MessagesMeant
<1>7. \A S \in Sessions : \A q \in Proxies : AbsentFrom(q, S)
    BY <1>1, <1>2, EmptyQueue DEF AbsentFrom
<1> QED
    BY <1>3, <1>4, <1>5, <1>6, <1>7 DEF IndInv, OnePlace

(* Every step preserves the invariant.                                     *)
LEMMA NextIndInv ==
    ASSUME IndInv, [Next]_vars
    PROVE  IndInv'
<1>1. CASE UNCHANGED vars
  <2>1. UNCHANGED <<fe, told, issued, lost, stranded>>
    BY <1>1 DEF vars
  <2>2. TypeOK'
    BY <2>1 DEF IndInv, TypeOK
  <2> QED
    BY <2>1, <2>2, WireStep
<1>2. ASSUME NEW p \in Proxies, ProxyConnect(p) PROVE IndInv'
    BY <1>2, ConnectStep
<1>3. ASSUME NEW p \in Proxies, ProxyLost(p) PROVE IndInv'
    BY <1>3, LostStep
<1>4. ASSUME NEW p \in Proxies, ProxyAnswers(p) PROVE IndInv'
    BY <1>4, AnswersStep
<1>5. ASSUME NEW p \in Proxies, NEW S \in Sessions, IceFails(p, S) PROVE IndInv'
    BY <1>5, IceFailsStep
<1>6. ASSUME NEW r \in Reqs, Create(r) PROVE IndInv'
    BY <1>6, CreateStep
<1>7. ASSUME NEW S \in Sessions, NEW again \in BOOLEAN, Drop(S, again) PROVE IndInv'
    BY <1>7, DropStep
<1>8. ASSUME NEW r \in Reqs, NEW S \in Sessions, NEW on \in BOOLEAN, NEW l \in Loops,
             SwitchTalk(r, S, on, l)
      PROVE  IndInv'
    BY <1>8, TalkStep
<1> QED
    BY <1>1, <1>2, <1>3, <1>4, <1>5, <1>6, <1>7, <1>8, Zenon DEF Next

(* The inductive invariant holds in every state of the frontend.           *)
THEOREM IndInvHolds == Spec => []IndInv
<1>1. IndInv /\ [Next]_vars => IndInv'
    BY NextIndInv
<1> QED
    BY <1>1, InitIndInv, PTL DEF Spec

(* Every field of the frontend keeps the type the C structs give it.       *)
THEOREM TypeCorrect == Spec => []TypeOK
<1>1. IndInv => TypeOK
    BY DEF IndInv
<1> QED
    BY <1>1, IndInvHolds, PTL

(* The load the balancer compares counts the sessions of the dictionary at *)
(* the proxy, however many connections are lost and sessions dropped twice *)
(* or failed: ov_mc_frontend_registry never counts one twice or below 0.   *)
THEOREM LoadsCount == Spec => []LoadCountsSessions
<1>1. IndInv => LoadCountsSessions
    BY DEF IndInv
<1> QED
    BY <1>1, IndInvHolds, PTL

(* A session the caller may use is served by the connected proxy that the  *)
(* dictionary and the connection's table name.                             *)
THEOREM KnownServed == Spec => []KnownIsServed
<1>1. IndInv => KnownIsServed
    BY DEF IndInv
<1> QED
    BY <1>1, IndInvHolds, PTL

(* A session the caller has given up is being dropped in its proxy or was  *)
(* kept by a proxy over a lost connection; there is no other leak.         *)
THEOREM NoOrphans == Spec => []NoOrphanSessions
<1>1. IndInv => NoOrphanSessions
    BY DEF IndInv
<1> QED
    BY <1>1, IndInvHolds, PTL

(* Losing a connection gives up the sessions of that proxy and no others.  *)
THEOREM TablesAgree == Spec => []OwnedAtHome
<1>1. IndInv => OwnedAtHome
    BY DEF IndInv
<1> QED
    BY <1>1, IndInvHolds, PTL
=============================================================================
