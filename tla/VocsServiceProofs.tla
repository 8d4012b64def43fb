------------------------- MODULE VocsServiceProofs --------------------------
(***************************************************************************)
(* Proofs about what VocsSystem reserves and stores for its clients: at    *)
(* the proxies, at the mixers, in the store of requests.                   *)
(***************************************************************************)
EXTENDS VocsProofs

-----------------------------------------------------------------------------
(* Sessions at the proxies.                                                *)

(* Sessions live where they are registered, and what is said about them is *)
(* said there, but for those in str that a proxy kept for itself.          *)
Homes(f, str) ==
    /\ \A p \in Proxies : ~f.open[p] => In(f.wire[p]) = {}
    /\ \A p \in Proxies : \A S \in f.live[p] :
          f.home[S] \in {p, NoSocket} /\ (S \notin str => f.open[p] /\ f.home[S] = p)
    /\ \A p \in Proxies : \A S \in f.owned[p] : f.home[S] = p
    /\ \A p \in Proxies : \A m \in In(f.wire[p]) : m.op # "create" =>
          f.home[m.session] \in {p, NoSocket} /\ (m.op = "failed" => m.session \notin f.live[p])

DropUnderWay(f, S) == \E p \in Proxies : \E m \in In(f.wire[p]) : m.op = "drop" /\ m.session = S

(* A session that lives in a proxy, but for those in T, has a connection   *)
(* or is being dropped.                                                    *)
Accounted(x, T) ==
    \A p \in Proxies : \A S \in x.fe.live[p] :
        S \in T \/ x.sess[S] # NoSocket \/ DropUnderWay(x.fe, S)

Placed(x, T, str) == x \in VocsStates /\ Homes(x.fe, str) /\ Accounted(x, T) /\ str \subseteq T

(* From f to g only requests to the homes of sessions are sent.            *)
Sends(f, g) ==
    /\ OtherwiseSame(f, g)
    /\ \A p \in Proxies : In(f.wire[p]) \subseteq In(g.wire[p])
    /\ \A p \in Proxies : \A m \in In(g.wire[p]) \ In(f.wire[p]) :
          f.open[p] /\ (m.op = "create" \/ (f.home[m.session] = p /\ m.op # "failed"))

(* From x to y requests are sent, and who loses its connection is dropped. *)
Onward(x, y) ==
    /\ x \in VocsStates /\ y \in VocsStates /\ Sends(x.fe, y.fe)
    /\ \A S \in Users : x.sess[S] # NoSocket =>
          y.sess[S] # NoSocket \/ (FE!HasProxy(x.fe, S) => DropUnderWay(y.fe, S))

(* Steps of the frontend that only send may follow each other.             *)
LEMMA SendsTwice ==
    ASSUME NEW f, NEW g, NEW h, Sends(f, g), Sends(g, h)
    PROVE  /\ Sends(f, h) /\ \A S : FE!HasProxy(f, S) <=> FE!HasProxy(g, S)
           /\ \A S : DropUnderWay(f, S) => DropUnderWay(g, S)
<1>1. OtherwiseSame(f, h) /\ g.open = f.open /\ g.home = f.home
    BY DEF Sends, OtherwiseSame
<1>2. ASSUME NEW p \in Proxies, NEW m \in In(h.wire[p]) \ In(f.wire[p])
      PROVE  f.open[p] /\ (m.op = "create" \/ (f.home[m.session] = p /\ m.op # "failed"))
    BY <1>1, <1>2 DEF Sends
<1>3. \A p \in Proxies : In(f.wire[p]) \subseteq In(h.wire[p])
    BY DEF Sends
<1> QED
    BY <1>1, <1>2, <1>3 DEF Sends, FE!HasProxy, DropUnderWay

(* So may steps of the service.                                            *)
LEMMA OnwardTwice ==
    ASSUME NEW x, NEW y, NEW z, Onward(x, y), Onward(y, z)
    PROVE  Onward(x, z)
<1>1. Sends(x.fe, y.fe) /\ Sends(y.fe, z.fe)
    BY DEF Onward
<1>2. /\ Sends(x.fe, z.fe) /\ \A S : FE!HasProxy(x.fe, S) <=> FE!HasProxy(y.fe, S)
    BY <1>1, SendsTwice
<1>3. \A S : DropUnderWay(y.fe, S) => DropUnderWay(z.fe, S)
    BY <1>1 DEF Sends, DropUnderWay
<1> QED
    BY <1>2, <1>3 DEF Onward

(* Nothing is sent.                                                        *)
LEMMA OnwardPlain ==
    ASSUME NEW x, NEW y, x \in VocsStates, y \in VocsStates, y.fe = x.fe, y.sess = x.sess
    PROVE  Onward(x, y)
    BY DEF Onward, Sends, OtherwiseSame

(* Nobody loses its connection.                                            *)
LEMMA OnwardSent ==
    ASSUME NEW x, NEW y, x \in VocsStates, y \in VocsStates, Sends(x.fe, y.fe), y.sess = x.sess
    PROVE  Onward(x, y)
    BY DEF Onward

(* A request to the home of a session.                                     *)
LEMMA HomeSends ==
    ASSUME NEW f \in FE!FrontendStates, NEW g, NEW S, NEW m \in FE!ProxyMessages,
           SentHome(f, g, S, m), m.session = S, m.op # "failed"
    PROVE  Sends(f, g) /\ (FE!HasProxy(f, S) /\ m.op = "drop" => DropUnderWay(g, S))
<1>1. AlsoHome(f, g, S, m)
    BY SentIn
<1>2. /\ OtherwiseSame(f, g)
      /\ FE!HasProxy(f, S) => f.home[S] \in Proxies /\ f.open[f.home[S]]
    BY DEF SentHome
<1>3. Sends(f, g)
    BY <1>1, <1>2 DEF AlsoHome, Sends
<1>4. FE!HasProxy(f, S) => \E p \in Proxies : m \in In(g.wire[p])
    BY <1>1, <1>2 DEF AlsoHome
<1> QED
    BY <1>3, <1>4 DEF DropUnderWay

(* The drop of a session.                                                  *)
LEMMA DropSends ==
    ASSUME NEW f \in FE!FrontendStates, NEW S \in Users
    PROVE  /\ FE!DropSession(f, S) \in FE!FrontendStates /\ Sends(f, FE!DropSession(f, S))
           /\ FE!HasProxy(f, S) => DropUnderWay(FE!DropSession(f, S), S)
<1>1. /\ SentHome(f, FE!DropSession(f, S), S, DropMessage(S)) /\ DropMessage(S) \in FE!ProxyMessages
      /\ DropMessage(S).op = "drop" /\ DropMessage(S).session = S
    BY DropSessionFields
<1> QED
    BY <1>1, HomeSends DEF SentHome

(* What drop_connection does to the frontend.                              *)
LEMMA FeDroppedSends ==
    ASSUME NEW f \in FE!FrontendStates, NEW g, NEW S \in Users \cup {None}, NEW frontend \in BOOLEAN,
           FeDropped(f, g, S, frontend)
    PROVE  Sends(f, g) /\ (S \in Users /\ frontend /\ FE!HasProxy(f, S) => DropUnderWay(g, S))
<1> DEFINE D(k) == FE!DropSession(k, S)
<1>1. Sends(f, f) /\ None \notin Users
    BY FrontendTyping DEF Sends, OtherwiseSame
<1>2. CASE S = None
    BY <1>1, <1>2 DEF FeDropped
<1>3. CASE S \in Users
  <2>1. D(f) \in FE!FrontendStates /\ Sends(f, D(f)) /\ (FE!HasProxy(f, S) => DropUnderWay(D(f), S))
    BY <1>3, DropSends
  <2>2. Sends(D(f), D(D(f)))
    BY <1>3, <2>1, DropSends
  <2>3. Sends(f, D(D(f))) /\ (DropUnderWay(D(f), S) => DropUnderWay(D(D(f)), S))
    <3>1. Sends(f, D(D(f)))
      BY <2>1, <2>2, SendsTwice
    <3> QED
      BY <2>2, <3>1 DEF Sends, DropUnderWay
  <2>4. g \in IF frontend THEN {D(f), D(D(f))} ELSE {f, D(f)}
    BY <1>1, <1>3 DEF FeDropped
  <2> HIDE DEF D
  <2> QED
    BY <1>1, <2>1, <2>3, <2>4
<1> QED
    BY <1>2, <1>3


(* Steps of this kind keep the sessions placed.                            *)
LEMMA PlacedOnward ==
    ASSUME NEW x, NEW y, NEW T, NEW str, Placed(x, T, str), Onward(x, y)
    PROVE  Placed(y, T, str)
<1>0. /\ x \in VocsStates /\ y \in VocsStates /\ Homes(x.fe, str) /\ Accounted(x, T) /\ str \subseteq T
      /\ Sends(x.fe, y.fe)
    BY DEF Placed, Onward
<1>1. /\ y.fe.open = x.fe.open /\ y.fe.home = x.fe.home /\ y.fe.live = x.fe.live
      /\ y.fe.owned = x.fe.owned
    BY <1>0 DEF Sends, OtherwiseSame
<1>2. x.fe.live \in [Proxies -> SUBSET Users] /\ NoSocket \notin Proxies /\ FE!NoProxy = NoSocket
    BY <1>0, VocsTyping, FrontendTyping
<1>3. Homes(y.fe, str)
  <2>1. \A p \in Proxies : ~y.fe.open[p] => In(y.fe.wire[p]) = {}
    BY <1>0, <1>1 DEF Homes, Sends
  <2>2. ASSUME NEW p \in Proxies, NEW m \in In(y.fe.wire[p]), m.op # "create"
        PROVE  /\ y.fe.home[m.session] \in {p, NoSocket}
               /\ m.op = "failed" => m.session \notin y.fe.live[p]
    <3>1. CASE m \in In(x.fe.wire[p])
      BY <1>0, <1>1, <2>2, <3>1 DEF Homes
    <3>2. CASE m \notin In(x.fe.wire[p])
      BY <1>0, <1>1, <2>2, <3>2 DEF Sends
    <3> QED
      BY <3>1, <3>2
  <2>3. /\ \A p \in Proxies : \A S \in y.fe.live[p] :
             y.fe.home[S] \in {p, NoSocket} /\ (S \notin str => y.fe.open[p] /\ y.fe.home[S] = p)
        /\ \A p \in Proxies : \A S \in y.fe.owned[p] : y.fe.home[S] = p
    BY <1>0, <1>1 DEF Homes
  <2> QED
    BY <2>1, <2>2, <2>3 DEF Homes
<1>4. Accounted(y, T)
  <2> SUFFICES ASSUME NEW p \in Proxies, NEW S \in y.fe.live[p], S \notin T
               PROVE  y.sess[S] # NoSocket \/ DropUnderWay(y.fe, S)
    BY DEF Accounted
  <2>1. S \in Users /\ S \in x.fe.live[p]
    BY <1>1, <1>2
  <2>2. FE!HasProxy(x.fe, S)
    BY <1>0, <1>2, <2>1 DEF Homes, FE!HasProxy
  <2>3. CASE x.sess[S] # NoSocket
    BY <2>1, <2>2, <2>3 DEF Onward
  <2>4. CASE DropUnderWay(x.fe, S)
    BY <1>0, <2>4 DEF Sends, DropUnderWay
  <2> QED
    BY <1>0, <2>1, <2>3, <2>4 DEF Accounted
<1> QED
    BY <1>0, <1>3, <1>4 DEF Placed

(* drop_connection is one of them if it drops the session at its proxy.    *)
LEMMA OnwardDropped ==
    ASSUME NEW x \in VocsStates, NEW y, NEW c \in Clients, NEW frontend \in BOOLEAN,
           NEW backend \in BOOLEAN, Dropped(x, y, c, frontend, backend)
    PROVE  frontend => Onward(x, y)
<1> DEFINE S == x.conn[c].session
<1>1. /\ y \in VocsStates /\ FeDropped(x.fe, y.fe, S, frontend)
      /\ y.sess = IF S = None THEN x.sess ELSE [x.sess EXCEPT ![S] = NoSocket]
    BY DEF Dropped
<1>2. S \in Users \cup {None} /\ x.fe \in FE!FrontendStates /\ x.sess \in [Users -> Clients \cup {NoSocket}]
    BY VocsTyping DEF Conns
<1> HIDE DEF S
<1>4. Sends(x.fe, y.fe) /\ (S \in Users /\ frontend /\ FE!HasProxy(x.fe, S) => DropUnderWay(y.fe, S))
    BY <1>1, <1>2, FeDroppedSends
<1> QED
    BY <1>1, <1>2, <1>4 DEF Onward

(* With its variant, socket 0 included.                                    *)
LEMMA OnwardDrop ==
    ASSUME NEW x \in VocsStates, NEW c \in Clients \cup {NoSocket}, NEW frontend \in BOOLEAN,
           NEW backend \in BOOLEAN
    PROVE  frontend => /\ Onward(x, DropConnection(x, c, frontend, backend))
                       /\ Onward(x, DropLocked(x, c, frontend, backend))
<1>1. CASE c = NoSocket
  <2>1. Onward(x, x)
    BY OnwardPlain
  <2> QED
    BY <1>1, <2>1 DEF DropConnection, DropLocked
<1>2. CASE c \in Clients
  <2> DEFINE y == DropConnection(x, c, frontend, backend)
             z == DropLocked(x, c, frontend, backend)
  <2>1. x \in VocsStates
    OBVIOUS
  <2>2. Dropped(x, y, c, frontend, backend) /\ Dropped(x, z, c, frontend, backend)
    BY <1>2, <2>1, DropFields
  <2> HIDE DEF y, z
  <2>3. frontend => Onward(x, y) /\ Onward(x, z)
    BY <1>2, <2>2, OnwardDropped
  <2> QED
    BY <2>3 DEF y, z
<1> QED
    BY <1>1, <1>2

(* Nothing of S lives in a proxy, unless the proxy kept it for itself.     *)
Lifeless(f, S, T) == \A p \in Proxies : S \in f.live[p] => S \in T

(* A connection whose session has ended is dropped without the proxy.      *)
LEMMA PlacedDropped ==
    ASSUME NEW x, NEW y, NEW T, NEW str, NEW c \in Clients, NEW frontend \in BOOLEAN,
           NEW backend \in BOOLEAN, NEW S, Placed(x, T, str), Dropped(x, y, c, frontend, backend),
           S = x.conn[c].session, Lifeless(x.fe, S, T)
    PROVE  Placed(y, T, str) /\ y.fe.live = x.fe.live
<1> DEFINE z == [x EXCEPT !.fe = y.fe]
<1>0. x \in VocsStates /\ Homes(x.fe, str) /\ Accounted(x, T) /\ str \subseteq T
    BY DEF Placed
<1>1. /\ y \in VocsStates /\ FeDropped(x.fe, y.fe, S, frontend)
      /\ y.sess = IF S = None THEN x.sess ELSE [x.sess EXCEPT ![S] = NoSocket]
    BY DEF Dropped
<1>2. /\ S \in Users \cup {None} /\ x.fe \in FE!FrontendStates /\ y.fe \in FE!FrontendStates
      /\ x.sess \in [Users -> Clients \cup {NoSocket}]
    BY <1>0, <1>1, VocsTyping DEF Conns
<1>4. Sends(x.fe, y.fe)
    BY <1>1, <1>2, FeDroppedSends
<1>5. z \in VocsStates /\ z.fe = y.fe /\ z.sess = x.sess
    BY <1>0, <1>2, WithFe DEF ButFe
<1> HIDE DEF z
<1>6. Placed(z, T, str)
  <2>1. Onward(x, z)
    BY <1>0, <1>4, <1>5, OnwardSent
  <2> QED
    BY <2>1, PlacedOnward
<1>7. y.fe.live = x.fe.live
    BY <1>4 DEF Sends, OtherwiseSame
<1>8. Accounted(y, T)
  <2> SUFFICES ASSUME NEW p \in Proxies, NEW u \in y.fe.live[p], u \notin T
               PROVE  y.sess[u] # NoSocket \/ DropUnderWay(y.fe, u)
    BY DEF Accounted
  <2>1. z.sess[u] # NoSocket \/ DropUnderWay(z.fe, u)
    BY <1>5, <1>6 DEF Placed, Accounted
  <2>2. u # S /\ u \in Users
    BY <1>2, <1>7, FrontendTyping DEF Lifeless
  <2> QED
    BY <1>1, <1>2, <1>5, <2>1, <2>2
<1> QED
    BY <1>0, <1>1, <1>5, <1>6, <1>7, <1>8 DEF Placed

(* The connection of session S, if it has one.                             *)
LEMMA PlacedDropOf ==
    ASSUME NEW x, NEW T, NEW str, NEW S \in Users, NEW frontend \in BOOLEAN, NEW backend \in BOOLEAN,
           Placed(x, T, str), Sess(x), Lifeless(x.fe, S, T)
    PROVE  /\ Placed(DropConnection(x, SocketOf(x, S), frontend, backend), T, str)
           /\ DropConnection(x, SocketOf(x, S), frontend, backend).fe.live = x.fe.live
<1> DEFINE c == SocketOf(x, S)
           y == DropConnection(x, c, frontend, backend)
<1>1. /\ c \in Clients \cup {NoSocket} /\ (c # NoSocket => x.conn[c].session = S)
    BY SocketBound
<1> HIDE DEF c
<1>2. CASE c = NoSocket
  <2>1. y = x
    BY <1>2 DEF DropConnection
  <2> QED
    BY <2>1 DEF c
<1>3. CASE c \in Clients
  <2>1. x \in VocsStates /\ c # NoSocket
    BY <1>3, VocsTyping DEF Placed
  <2>2. Dropped(x, y, c, frontend, backend) /\ x.conn[c].session = S
    BY <1>1, <1>3, <2>1, DropFields
  <2> HIDE DEF y
  <2>3. Placed(y, T, str) /\ y.fe.live = x.fe.live
    BY <1>3, <2>2, PlacedDropped
  <2> QED
    BY <2>3 DEF y, c
<1> QED
    BY <1>1, <1>2, <1>3

-----------------------------------------------------------------------------
(* Handlers that go onward.  w is the state they started from.             *)

(* The store, marks at a connection, the LDAP threads.                     *)
LEMMA OnStore ==
    ASSUME NEW w, NEW x, NEW r, NEW c, Onward(w, x)
    PROVE  /\ Onward(w, AsyncUnset(x, r)) /\ Onward(w, Respond(x, r, c))
           /\ Onward(w, Respond(AsyncUnset(x, r), r, c))
           /\ c \in Clients => Onward(w, Authenticated(x, c)) /\ Onward(w, [x EXCEPT !.conn[c].role = TRUE])
           /\ \A D \in SUBSET Reqs : Onward(w, [x EXCEPT !.ldap = D])
<1>0. x \in VocsStates
    BY DEF Onward
<1>1. \A y \in VocsStates : y.fe = x.fe /\ y.sess = x.sess => Onward(w, y)
    BY <1>0, OnwardPlain, OnwardTwice
<1>2. Taken(x, AsyncUnset(x, r), r) /\ Settled(x, Respond(AsyncUnset(x, r), r, c), r, c)
    BY <1>0, TakenFields
<1>3. ButStore(x, Respond(x, r, c)) /\ Respond(x, r, c).async = x.async
    BY <1>0 DEF ButStore, Respond, VocsStates
<1>4. ASSUME c \in Clients
      PROVE  Onward(w, Authenticated(x, c)) /\ Onward(w, [x EXCEPT !.conn[c].role = TRUE])
  <2>1. ButConn(x, Authenticated(x, c)) /\ ButConn(x, [x EXCEPT !.conn[c].role = TRUE])
    BY <1>0, <1>4, MarkedFields
  <2> QED
    BY <1>1, <2>1 DEF ButConn
<1>5. ASSUME NEW D \in SUBSET Reqs PROVE Onward(w, [x EXCEPT !.ldap = D])
  <2> DEFINE y == [x EXCEPT !.ldap = D]
  <2>1. y \in VocsStates /\ y.fe = x.fe /\ y.sess = x.sess
    BY <1>0 DEF VocsStates
  <2> HIDE DEF y
  <2>2. Onward(w, y)
    BY <1>1, <2>1
  <2> QED
    BY <2>2 DEF y
<1>6. /\ Onward(w, AsyncUnset(x, r)) /\ Onward(w, Respond(x, r, c))
      /\ Onward(w, Respond(AsyncUnset(x, r), r, c))
    BY <1>1, <1>2, <1>3 DEF Taken, Settled, ButStore
<1> QED
    BY <1>4, <1>5, <1>6

(* Requests that are stored, states of loops, a mixer or ICE that is ready. *)
LEMMA OnStored ==
    ASSUME NEW w, NEW x, Onward(w, x)
    PROVE  /\ \A e \in Entries : Onward(w, AsyncSet(x, e)) /\ Onward(w, AsyncSet(Owe(x, e.id, e.sock), e))
           /\ \A c \in Clients : /\ Onward(w, Announce([x EXCEPT !.conn[c].mixer = TRUE], c))
                                 /\ Onward(w, Announce([x EXCEPT !.conn[c].ice = TRUE], c))
           /\ \A y, c, l, st : LoopSet(x, y, c, l, st) => Onward(w, y)
<1>0. x \in VocsStates
    BY DEF Onward
<1>1. \A y \in VocsStates : y.fe = x.fe /\ y.sess = x.sess => Onward(w, y)
    BY <1>0, OnwardPlain, OnwardTwice
<1>2. ASSUME NEW e \in Entries
      PROVE  Onward(w, AsyncSet(x, e)) /\ Onward(w, AsyncSet(Owe(x, e.id, e.sock), e))
  <2>1. Asked(x, AsyncSet(Owe(x, e.id, e.sock), e), e) /\ ButStore(x, AsyncSet(x, e))
    BY <1>0, AskedFields
  <2> QED
    BY <1>1, <2>1 DEF Asked, ButStore
<1>3. ASSUME NEW c \in Clients
      PROVE  /\ Onward(w, Announce([x EXCEPT !.conn[c].mixer = TRUE], c))
             /\ Onward(w, Announce([x EXCEPT !.conn[c].ice = TRUE], c))
  <2> DEFINE y == Announce([x EXCEPT !.conn[c].mixer = TRUE], c)
             z == Announce([x EXCEPT !.conn[c].ice = TRUE], c)
             d == [x.conn[c] EXCEPT !.mixer = TRUE]
             k == [x.conn[c] EXCEPT !.ice = TRUE]
  <2>1. Announced(x, y, c, d) /\ Announced(x, z, c, k)
    BY <1>0, AnnounceFields
  <2> HIDE DEF y, z, d, k
  <2>2. Onward(w, y) /\ Onward(w, z)
    BY <1>1, <2>1 DEF Announced
  <2> QED
    BY <2>2 DEF y, z
<1>4. \A y, c, l, st : LoopSet(x, y, c, l, st) => Onward(w, y)
    BY <1>1 DEF LoopSet
<1> QED
    BY <1>2, <1>3, <1>4

(* Steps of the frontend that send, steps of the backend.                  *)
LEMMA OnSteps ==
    ASSUME NEW w, NEW x, Onward(w, x)
    PROVE  /\ \A f \in FE!FrontendStates : Sends(x.fe, f) => Onward(w, [x EXCEPT !.fe = f])
           /\ \A b \in BackendStates : Onward(w, [x EXCEPT !.be = b])
<1>0. x \in VocsStates
    BY DEF Onward
<1>1. ASSUME NEW f \in FE!FrontendStates, Sends(x.fe, f) PROVE Onward(w, [x EXCEPT !.fe = f])
  <2> DEFINE y == [x EXCEPT !.fe = f]
  <2>1. y \in VocsStates /\ y.fe = f /\ ButFe(x, y)
    BY <1>0, WithFe
  <2> HIDE DEF y
  <2>2. Onward(x, y)
    BY <1>0, <1>1, <2>1, OnwardSent DEF ButFe
  <2>3. Onward(w, y)
    BY <2>2, OnwardTwice
  <2> QED
    BY <2>3 DEF y
<1>2. ASSUME NEW b \in BackendStates PROVE Onward(w, [x EXCEPT !.be = b])
  <2> DEFINE y == [x EXCEPT !.be = b]
  <2>1. y \in VocsStates /\ ButBe(x, y)
    BY <1>0, WithBe
  <2> HIDE DEF y
  <2>2. Onward(x, y)
    BY <1>0, <2>1, OnwardPlain DEF ButBe
  <2>3. Onward(w, y)
    BY <2>2, OnwardTwice
  <2> QED
    BY <2>3 DEF y
<1> QED
    BY <1>1, <1>2

(* The end of a connection, with its session at the proxy.                 *)
LEMMA OnDrop ==
    ASSUME NEW w, NEW x, NEW c \in Clients \cup {NoSocket}, Onward(w, x)
    PROVE  /\ Onward(w, DropConnection(x, c, TRUE, TRUE)) /\ Onward(w, DropConnection(x, c, TRUE, FALSE))
           /\ Onward(w, DropLocked(x, c, TRUE, TRUE)) /\ Onward(w, Close(x, c))
<1>0. x \in VocsStates
    BY DEF Onward
<1>1. ASSUME NEW frontend \in BOOLEAN, NEW backend \in BOOLEAN, frontend = TRUE
      PROVE  /\ Onward(w, DropConnection(x, c, frontend, backend))
             /\ Onward(w, DropLocked(x, c, frontend, backend))
  <2>1. frontend => /\ Onward(x, DropConnection(x, c, frontend, backend))
                    /\ Onward(x, DropLocked(x, c, frontend, backend))
    BY <1>0, OnwardDrop
  <2>2. /\ Onward(x, DropConnection(x, c, frontend, backend))
        /\ Onward(x, DropLocked(x, c, frontend, backend))
    BY <1>1, <2>1
  <2> QED
    BY <2>2, OnwardTwice
<1>2. TRUE \in BOOLEAN /\ FALSE \in BOOLEAN
    OBVIOUS
<1>3. /\ Onward(w, DropConnection(x, c, TRUE, TRUE)) /\ Onward(w, DropConnection(x, c, TRUE, FALSE))
      /\ Onward(w, DropLocked(x, c, TRUE, TRUE))
    BY <1>1, <1>2
<1> QED
    BY <1>3 DEF Close

(* The drop of a session.                                                  *)
LEMMA OnFrontendDrop ==
    ASSUME NEW w, NEW x, NEW S \in Users, Onward(w, x)
    PROVE  Onward(w, FrontendDrop(x, S))
<1> DEFINE f == FE!DropSession(x.fe, S)
<1>1. f \in FE!FrontendStates /\ Sends(x.fe, f)
    BY VocsTyping, DropSends DEF Onward
<1>2. FrontendDrop(x, S) = [x EXCEPT !.fe = f]
    BY DEF FrontendDrop
<1> HIDE DEF f
<1> QED
    BY <1>1, <1>2, OnSteps

(* What is sent for a loop.                                                *)
LEMMA OnSwitching ==
    ASSUME NEW w, NEW x, NEW y, NEW r \in Reqs, NEW S \in Users, NEW l \in Loops,
           Onward(w, x), Switching(x, y, r, S, l)
    PROVE  Onward(w, y)
<1>0. x.fe \in FE!FrontendStates /\ x.be \in BackendStates
    BY VocsTyping DEF Onward
<1>1. ASSUME NEW op \in LoopOps, y = [x EXCEPT !.be = LoopRequest(x.be, op, r, S, l)]
      PROVE  Onward(w, y)
  <2>1. LoopRequest(x.be, op, r, S, l) \in BackendStates
    BY <1>0, LoopRequestFields DEF SentToMixer
  <2> QED
    BY <1>1, <2>1, OnSteps
<1>2. ASSUME NEW on \in BOOLEAN, y = [x EXCEPT !.fe = FE!Talk(x.fe, r, S, on, l)]
      PROVE  Onward(w, y)
  <2> DEFINE m == TalkMessage(r, S, on, l)
             f == FE!Talk(x.fe, r, S, on, l)
  <2>1. SentHome(x.fe, f, S, m)
    BY <1>0, TalkFields
  <2>2. m \in FE!ProxyMessages /\ m.op # "failed" /\ m.session = S
    BY DEF FE!FrontendOps, FE!ProxyMessages, FE!ProxyMessage, TalkMessage
  <2> HIDE DEF m, f
  <2>3. f \in FE!FrontendStates /\ Sends(x.fe, f)
    BY <1>0, <2>1, <2>2, HomeSends DEF SentHome
  <2> QED
    BY <1>2, <2>3, OnSteps DEF f
<1> QED
    BY <1>1, <1>2 DEF Switching

-----------------------------------------------------------------------------
(* What is reserved, queued and stored for whom.                           *)

(* Sessions and stored requests are those of open connections.             *)
OpenOnly(x) ==
    /\ \A c \in Clients : x.conn[c].session # None => x.up[c]
    /\ \A e \in x.async : x.up[e.sock]

(* A slot is reserved for a session that has a connection, and found from  *)
(* it, but for the connections in X that are about to be closed.           *)
Slots(x, X) ==
    /\ \A s \in Sockets, S \in Users :
          x.be.slot[s] = S => x.be.users[S] = s /\ x.sess[S] # NoSocket
    /\ \A S \in Users : x.sess[S] \notin X \cup {NoSocket} =>
          x.be.users[S] = NoSlot \/ x.be.slot[x.be.users[S]] = S
    /\ \A c \in Clients : c \notin X /\ x.conn[c].mixer => x.be.users[x.conn[c].session] # NoSlot

(* Nothing is left of a session.                                           *)
Over(x, S) == x.be.users[S] = NoSlot /\ x.sess[S] = NoSocket

(* Request m to the mixer at s is about the session in the slot, or about  *)
(* one that is over; whoever waits for it owns that session.               *)
MixerFits(x, X, s, m) ==
    /\ m.op = "acquire" => x.be.slot[s] = m.user \/ Over(x, m.user)
    /\ m.op = "release" => Over(x, m.user)
    /\ m.op \in LoopOps => \A e \in x.async :
          e.id = m.id /\ e.sock \notin X => x.be.slot[s] = m.user /\ x.sess[m.user] = e.sock

Queued(x, X) == \A s \in Sockets : \A m \in In(x.be.wire[s]) : MixerFits(x, X, s, m)

(* Whoever waits for m of a proxy to talk owns its session and takes part  *)
(* in its loop.                                                            *)
TalkFits(x, m) ==
    m.op \in TalkOps => m.session \in Users /\ \A e \in x.async : e.id = m.id =>
        x.sess[m.session] = e.sock /\ (~Pipelining => x.conn[e.sock].loops[m.loop] # "none")

Told(x) == \A p \in Proxies : \A m \in In(x.fe.wire[p]) : TalkFits(x, m)

(* One request of a client at a time.                                      *)
Single(x) ==
    /\ \A e \in x.async : <<e.id, e.sock>> \in x.owed
    /\ \A o, q \in x.owed : o[2] = q[2] => o = q

Listed(x) ==
    \A l \in Loops, c \in Clients : (<<l, c>> \in x.parts) <=> (x.conn[c].loops[l] # "none")

Lease(x, X) ==
    /\ OpenOnly(x) /\ Slots(x, X) /\ Queued(x, X) /\ Told(x)
    /\ ~Pipelining => Single(x) /\ Listed(x)

(* Every response a client waits for, but those in O, has its entry.       *)
Watch(x, O) ==
    "candidate" \notin Signals =>
        /\ \A o \in x.owed \ O : \E e \in x.async : e.id = o[1] /\ e.sock = o[2]
        /\ \A p \in Proxies : \A m \in In(x.fe.wire[p]) : m.op # "candidate"

(* Everything about a state on the way of a handler that started from w.   *)
Fit(w, x, X, O) == Sess(x) /\ Lease(x, X) /\ Watch(x, O) /\ Onward(w, x)

-----------------------------------------------------------------------------
(* Steps that change little of it.                                         *)

SameClients(x, y) ==
    /\ y.up = x.up /\ y.sess = x.sess /\ y.parts = x.parts
    /\ \A c \in Clients : /\ y.conn[c].session = x.conn[c].session
                          /\ y.conn[c].mixer = x.conn[c].mixer /\ y.conn[c].loops = x.conn[c].loops

SameSlots(x, y) == y.be.slot = x.be.slot /\ y.be.users = x.be.users

(* Nothing new is sent to mixers; nothing of interest to proxies.          *)
MixersUntold(x, y) == \A s \in Sockets : In(y.be.wire[s]) \subseteq In(x.be.wire[s])

ProxiesUntold(f, g) ==
    \A p \in Proxies : \A m \in In(g.wire[p]) :
        m.op \in TalkOps \/ (m.op = "candidate" /\ "candidate" \notin Signals) => m \in In(f.wire[p])

(* No entry is new, and those that stay are still owed.                    *)
FewerStored(x, y) ==
    /\ y.async \subseteq x.async /\ y.owed \subseteq x.owed
    /\ \A e \in y.async : <<e.id, e.sock>> \in x.owed => <<e.id, e.sock>> \in y.owed

(* Such a step keeps what is reserved.                                     *)
LEMMA LeaseSteady ==
    ASSUME NEW x, NEW y, NEW X, x \in VocsStates, Lease(x, X), SameClients(x, y), SameSlots(x, y), MixersUntold(x, y),
           ProxiesUntold(x.fe, y.fe), FewerStored(x, y)
    PROVE  Lease(y, X)
<1>0. \A e \in x.async : e.sock \in Clients
    BY VocsTyping DEF Entries
<1>1. OpenOnly(y)
    BY DEF Lease, OpenOnly, SameClients, FewerStored
<1>2. Slots(y, X)
    BY DEF Lease, Slots, SameClients, SameSlots
<1>3. Queued(y, X)
  <2> SUFFICES ASSUME NEW s \in Sockets, NEW m \in In(y.be.wire[s]) PROVE MixerFits(y, X, s, m)
    BY DEF Queued
  <2>1. MixerFits(x, X, s, m)
    BY DEF Lease, Queued, MixersUntold
  <2> QED
    BY <2>1 DEF MixerFits, Over, SameClients, SameSlots, FewerStored
<1>4. Told(y)
  <2> SUFFICES ASSUME NEW p \in Proxies, NEW m \in In(y.fe.wire[p]), m.op \in TalkOps PROVE TalkFits(y, m)
    BY DEF Told, TalkFits
  <2>1. TalkFits(x, m)
    BY DEF Lease, Told, ProxiesUntold
  <2> QED
    BY <1>0, <2>1 DEF TalkFits, SameClients, FewerStored
<1>5. ~Pipelining => Single(y) /\ Listed(y)
  <2> SUFFICES ASSUME ~Pipelining PROVE Single(y) /\ Listed(y)
    OBVIOUS
  <2>1. Single(x) /\ Listed(x)
    BY DEF Lease
  <2> QED
    BY <2>1 DEF Single, Listed, SameClients, FewerStored
<1> QED
    BY <1>1, <1>2, <1>3, <1>4, <1>5 DEF Lease

(* Nobody gets to wait for anything else.                                  *)
LEMMA WatchSteady ==
    ASSUME NEW x, NEW y, NEW O, Watch(x, O), ProxiesUntold(x.fe, y.fe), y.owed \subseteq x.owed,
           x.async \subseteq y.async
    PROVE  Watch(y, O)
    BY DEF Watch, ProxiesUntold

(* What is the same in a state with the same queues.                       *)
LEMMA QueuesSame ==
    ASSUME NEW x, NEW y
    PROVE  /\ y.be.wire = x.be.wire => MixersUntold(x, y)
           /\ y.fe.wire = x.fe.wire => ProxiesUntold(x.fe, y.fe)
    BY DEF MixersUntold, ProxiesUntold

(* Whatever is stored with uuid r is a request of c.                       *)
Waits(x, r, c) == \A e \in x.async : e.id = r => e.sock = c

(* An entry is taken out, and its client gets its response.                *)
LEMMA FitTaken ==
    ASSUME NEW w, NEW x, NEW X, NEW O, NEW r, NEW c, Fit(w, x, X, O), Waits(x, r, c)
    PROVE  /\ Fit(w, AsyncUnset(x, r), X, O \cup {<<r, c>>})
           /\ Fit(w, Respond(AsyncUnset(x, r), r, c), X, O)
           /\ ~AsyncHas(x, r) => Fit(w, AsyncUnset(x, r), X, O)
<1> DEFINE y == AsyncUnset(x, r)
           z == Respond(y, r, c)
<1>0. x \in VocsStates /\ Sess(x) /\ Lease(x, X) /\ Watch(x, O) /\ Onward(w, x)
    BY DEF Fit, Sess
<1>1. Taken(x, y, r) /\ Settled(x, z, r, c)
    BY <1>0, TakenFields
<1>2. Sess(y) /\ Sess(z) /\ Onward(w, y) /\ Onward(w, z)
    BY <1>0, SessStore, OnStore
<1> HIDE DEF y, z
<1>3. /\ SameClients(x, y) /\ SameSlots(x, y) /\ MixersUntold(x, y) /\ ProxiesUntold(x.fe, y.fe)
      /\ SameClients(x, z) /\ SameSlots(x, z) /\ MixersUntold(x, z) /\ ProxiesUntold(x.fe, z.fe)
    BY <1>1, QueuesSame DEF Taken, Settled, ButStore, SameClients, SameSlots
<1>4. FewerStored(x, y) /\ FewerStored(x, z)
    BY <1>1 DEF Taken, Settled, FewerStored
<1>5. Lease(y, X) /\ Lease(z, X)
    BY <1>0, <1>3, <1>4, LeaseSteady
<1>6. Watch(y, O \cup {<<r, c>>}) /\ Watch(z, O) /\ (~AsyncHas(x, r) => Watch(y, O))
  <2> SUFFICES ASSUME "candidate" \notin Signals
               PROVE  Watch(y, O \cup {<<r, c>>}) /\ Watch(z, O) /\ (~AsyncHas(x, r) => Watch(y, O))
    BY DEF Watch
  <2>1. /\ \A p \in Proxies : \A m \in In(x.fe.wire[p]) : m.op # "candidate"
        /\ y.fe = x.fe /\ z.fe = x.fe
    BY <1>0, <1>1 DEF Watch, Taken, Settled, ButStore
  <2>2. ASSUME NEW o \in x.owed \ O, o # <<r, c>> PROVE \E e \in y.async : e.id = o[1] /\ e.sock = o[2]
    <3>1. PICK e \in x.async : e.id = o[1] /\ e.sock = o[2]
      BY <1>0, <2>2 DEF Watch
    <3>2. x.owed \subseteq Reqs \X Clients /\ o = <<o[1], o[2]>>
      BY <1>0, <2>2, VocsTyping
    <3>3. e.id # r
      BY <2>2, <3>1, <3>2 DEF Waits
    <3> QED
      BY <1>1, <3>1, <3>3 DEF Taken
  <2>3. y.async = z.async /\ y.owed = x.owed /\ z.owed = x.owed \ {<<r, c>>}
    BY <1>1 DEF Taken, Settled
  <2>4. ~AsyncHas(x, r) => x.async \subseteq y.async
    BY <1>1 DEF Taken, AsyncHas
  <2> QED
    BY <1>0, <2>1, <2>2, <2>3, <2>4 DEF Watch
<1> QED
    BY <1>2, <1>5, <1>6 DEF Fit, y, z

(* A response to a request that is not stored any more.                    *)
LEMMA FitResponded ==
    ASSUME NEW w, NEW x, NEW X, NEW O, NEW r, NEW c, Fit(w, x, X, O), \A e \in x.async : e.id # r
    PROVE  Fit(w, Respond(x, r, c), X, O \ {<<r, c>>})
<1> DEFINE y == Respond(x, r, c)
<1>0. x \in VocsStates /\ Sess(x) /\ Lease(x, X) /\ Watch(x, O) /\ Onward(w, x)
    BY DEF Fit, Sess
<1>1. ButStore(x, y) /\ y.async = x.async /\ y.owed = x.owed \ {<<r, c>>}
    BY <1>0 DEF ButStore, Respond, VocsStates
<1>2. Sess(y) /\ Onward(w, y)
    BY <1>0, SessStore, OnStore
<1> HIDE DEF y
<1>3. SameClients(x, y) /\ SameSlots(x, y) /\ MixersUntold(x, y) /\ ProxiesUntold(x.fe, y.fe)
    BY <1>1, QueuesSame DEF ButStore, SameClients, SameSlots
<1>4. FewerStored(x, y)
    BY <1>1 DEF FewerStored
<1>5. Lease(y, X)
    BY <1>0, <1>3, <1>4, LeaseSteady
<1>6. Watch(y, O \ {<<r, c>>})
    BY <1>0, <1>1 DEF Watch, ButStore
<1> QED
    BY <1>2, <1>5, <1>6 DEF Fit, y

(* Marks at a connection, the LDAP threads.                                *)
LEMMA FitMarked ==
    ASSUME NEW w, NEW x, NEW X, NEW O, Fit(w, x, X, O)
    PROVE  /\ \A c \in Clients : Fit(w, Authenticated(x, c), X, O) /\ Fit(w, [x EXCEPT !.conn[c].role = TRUE], X, O)
           /\ \A D \in SUBSET Reqs : Fit(w, [x EXCEPT !.ldap = D], X, O)
<1>0. x \in VocsStates /\ Sess(x) /\ Lease(x, X) /\ Watch(x, O) /\ Onward(w, x)
    BY DEF Fit, Sess
<1>1. ASSUME NEW y, Sess(y), Onward(w, y), SameClients(x, y), y.be = x.be, y.fe = x.fe,
             y.async = x.async, y.owed = x.owed
      PROVE  Fit(w, y, X, O)
  <2>1. SameSlots(x, y) /\ MixersUntold(x, y) /\ ProxiesUntold(x.fe, y.fe) /\ FewerStored(x, y)
    BY <1>1, QueuesSame DEF SameSlots, FewerStored
  <2>2. Lease(y, X) /\ Watch(y, O)
    BY <1>0, <1>1, <2>1, LeaseSteady, WatchSteady
  <2> QED
    BY <1>1, <2>2 DEF Fit
<1>2. ASSUME NEW c \in Clients
      PROVE  Fit(w, Authenticated(x, c), X, O) /\ Fit(w, [x EXCEPT !.conn[c].role = TRUE], X, O)
  <2> DEFINE y == Authenticated(x, c)
             z == [x EXCEPT !.conn[c].role = TRUE]
  <2>1. Sess(y) /\ Sess(z) /\ Onward(w, y) /\ Onward(w, z)
    BY <1>0, SessStore, OnStore
  <2>2. /\ ButConn(x, y) /\ y.conn = [x.conn EXCEPT ![c] = [x.conn[c] EXCEPT !.user = TRUE]]
        /\ ButConn(x, z) /\ z.conn = [x.conn EXCEPT ![c] = [x.conn[c] EXCEPT !.role = TRUE]]
    BY <1>0, MarkedFields
  <2> HIDE DEF y, z
  <2>3. x.conn \in [Clients -> Conns]
    BY <1>0, VocsTyping
  <2>4. SameClients(x, y) /\ SameClients(x, z)
    BY <2>2, <2>3 DEF ButConn, SameClients, Conns
  <2>5. Fit(w, y, X, O) /\ Fit(w, z, X, O)
    BY <1>1, <2>1, <2>2, <2>4 DEF ButConn
  <2> QED
    BY <2>5 DEF y, z
<1>3. ASSUME NEW D \in SUBSET Reqs PROVE Fit(w, [x EXCEPT !.ldap = D], X, O)
  <2> DEFINE y == [x EXCEPT !.ldap = D]
  <2>1. Sess(y) /\ Onward(w, y)
    BY <1>0, SessLdapStep, OnStore
  <2>2. /\ y.up = x.up /\ y.conn = x.conn /\ y.sess = x.sess /\ y.parts = x.parts /\ y.be = x.be
        /\ y.fe = x.fe /\ y.async = x.async /\ y.owed = x.owed
    BY <1>0 DEF VocsStates
  <2> HIDE DEF y
  <2>3. Fit(w, y, X, O)
    BY <1>1, <2>1, <2>2 DEF SameClients
  <2> QED
    BY <2>3 DEF y
<1> QED
    BY <1>2, <1>3

-----------------------------------------------------------------------------
(* Requests that are stored.                                               *)

(* With no message about e under way, what is reserved fits e as well.     *)
LEMMA LeaseStored ==
    ASSUME NEW x, NEW y, NEW X, NEW e \in Entries, x \in VocsStates, Lease(x, X), ButStore(x, y),
           y.async = x.async \cup {e}, e.id \in ClientReqs, Unused(x.be.wire, x.fe.wire, e.id),
           x.up[e.sock], ~Pipelining => Single(y)
    PROVE  Lease(y, X)
<1>0. /\ y.up = x.up /\ y.conn = x.conn /\ y.sess = x.sess /\ y.parts = x.parts /\ y.be = x.be
      /\ y.fe = x.fe
    BY DEF ButStore
<1>1. OpenOnly(y)
    BY <1>0 DEF Lease, OpenOnly
<1>2. Slots(y, X)
    BY <1>0 DEF Lease, Slots
<1>3. Absent(x.be.wire, x.fe.wire, e.id)
    BY DEF Unused
<1>4. Queued(y, X)
  <2> SUFFICES ASSUME NEW s \in Sockets, NEW m \in In(x.be.wire[s]) PROVE MixerFits(y, X, s, m)
    BY <1>0 DEF Queued
  <2>1. MixerFits(x, X, s, m) /\ m.id # e.id
    BY <1>3 DEF Lease, Queued, Absent
  <2> QED
    BY <1>0, <2>1 DEF MixerFits, Over
<1>5. Told(y)
  <2> SUFFICES ASSUME NEW p \in Proxies, NEW m \in In(x.fe.wire[p]) PROVE TalkFits(y, m)
    BY <1>0 DEF Told
  <2>1. TalkFits(x, m) /\ m.id # e.id
    BY <1>3 DEF Lease, Told, Absent
  <2> QED
    BY <1>0, <2>1 DEF TalkFits
<1>6. ~Pipelining => Listed(y)
    BY <1>0 DEF Lease, Listed
<1> QED
    BY <1>1, <1>2, <1>4, <1>5, <1>6 DEF Lease

(* The first time, with a response to wait for.                            *)
LEMMA FitAsked ==
    ASSUME NEW w, NEW x, NEW X, NEW O, NEW e \in Entries, Fit(w, x, X, O), e.id \in ClientReqs,
           Fresh(x, e.id), x.up[e.sock], ~Pipelining => \A o \in x.owed : o[2] # e.sock
    PROVE  Fit(w, AsyncSet(Owe(x, e.id, e.sock), e), X, O)
<1> DEFINE y == AsyncSet(Owe(x, e.id, e.sock), e)
<1>0. x \in VocsStates /\ Sess(x) /\ Lease(x, X) /\ Watch(x, O) /\ Onward(w, x)
    BY DEF Fit, Sess
<1>1. Asked(x, y, e) /\ Onward(w, y)
    BY <1>0, AskedFields, OnStored
<1>2. Unused(x.be.wire, x.fe.wire, e.id) /\ Unmade(x.fe.wire, e.id)
    BY FreshUnmade DEF Fresh
<1>3. Sess(y)
    BY <1>0, <1>2, SessSet
<1> HIDE DEF y
<1>4. ButStore(x, y) /\ y.async = x.async \cup {e} /\ y.owed = x.owed \cup {<<e.id, e.sock>>}
    BY <1>1 DEF Asked
<1>5. ~Pipelining => Single(y)
  <2> SUFFICES ASSUME ~Pipelining PROVE Single(y)
    OBVIOUS
  <2>1. Single(x) /\ \A o \in x.owed : o[2] # e.sock
    BY <1>0 DEF Lease
  <2> QED
    BY <1>4, <2>1 DEF Single
<1>6. Lease(y, X)
    BY <1>0, <1>2, <1>4, <1>5, LeaseStored
<1>7. Watch(y, O)
    BY <1>0, <1>4 DEF Watch, ButStore
<1> QED
    BY <1>1, <1>3, <1>6, <1>7 DEF Fit, y

(* Once more, for the next step of the same request.                       *)
LEMMA FitReset ==
    ASSUME NEW w, NEW x, NEW X, NEW O, NEW e \in Entries, Fit(w, x, X, O), e.id \in ClientReqs,
           Unused(x.be.wire, x.fe.wire, e.id), x.up[e.sock],
           ~Pipelining => <<e.id, e.sock>> \in x.owed
    PROVE  Fit(w, AsyncSet(x, e), X, O \ {<<e.id, e.sock>>})
<1> DEFINE y == AsyncSet(x, e)
<1>0. x \in VocsStates /\ Sess(x) /\ Lease(x, X) /\ Watch(x, O) /\ Onward(w, x)
    BY DEF Fit, Sess
<1>1. ButStore(x, y) /\ y.async = x.async \cup {e} /\ y.owed = x.owed /\ Onward(w, y)
    BY <1>0, AskedFields, OnStored
<1>2. Unmade(x.fe.wire, e.id)
    BY FreshUnmade
<1>3. Sess(y)
    BY <1>0, <1>2, SessSet
<1> HIDE DEF y
<1>5. ~Pipelining => Single(y)
    BY <1>0, <1>1 DEF Lease, Single
<1>6. Lease(y, X)
    BY <1>0, <1>1, <1>5, LeaseStored
<1>7. Watch(y, O \ {<<e.id, e.sock>>})
  <2> SUFFICES ASSUME "candidate" \notin Signals, NEW o \in x.owed \ (O \ {<<e.id, e.sock>>})
               PROVE  \E g \in y.async : g.id = o[1] /\ g.sock = o[2]
    BY <1>0, <1>1 DEF Watch, ButStore
  <2>1. CASE o = <<e.id, e.sock>>
    BY <1>1, <2>1
  <2>2. CASE o \notin O
    BY <1>0, <1>1, <2>2 DEF Watch
  <2> QED
    BY <2>1, <2>2
<1> QED
    BY <1>1, <1>3, <1>6, <1>7 DEF Fit, y

(* It does not matter whether a request is stored before or after it is    *)
(* sent.                                                                   *)
LEMMA StoredBefore ==
    ASSUME NEW x \in VocsStates, NEW e, NEW r, NEW c
    PROVE  /\ \A b : AsyncSet(Owe([x EXCEPT !.be = b], r, c), e) = [AsyncSet(Owe(x, r, c), e) EXCEPT !.be = b]
           /\ \A f : AsyncSet(Owe([x EXCEPT !.fe = f], r, c), e) = [AsyncSet(Owe(x, r, c), e) EXCEPT !.fe = f]
           /\ AsyncSet(Owe(x, r, c), e).be = x.be /\ AsyncSet(Owe(x, r, c), e).fe = x.fe
    BY DEF AsyncSet, Owe, VocsStates

-----------------------------------------------------------------------------
(* What is sent on the way.                                                *)

(* Whoever waits for r owns session S.                                     *)
Owns(x, r, S) == \A e \in x.async : e.id = r => x.sess[S] = e.sock

(* A step of the backend that keeps the slots.                             *)
LEMMA FitBackend ==
    ASSUME NEW w, NEW x, NEW X, NEW O, NEW b \in BackendStates, Fit(w, x, X, O),
           b.slot = x.be.slot, b.users = x.be.users, NoNewAcquire(x.be.wire, b.wire),
           \A s \in Sockets : \A m \in In(b.wire[s]) : m \in In(x.be.wire[s]) \/ MixerFits(x, X, s, m)
    PROVE  Fit(w, [x EXCEPT !.be = b], X, O) /\ [x EXCEPT !.be = b].be = b /\ ButBe(x, [x EXCEPT !.be = b])
<1> DEFINE y == [x EXCEPT !.be = b]
<1>0. x \in VocsStates /\ Sess(x) /\ Lease(x, X) /\ Watch(x, O) /\ Onward(w, x)
    BY DEF Fit, Sess
<1>1. Sess(y) /\ y.be = b /\ ButBe(x, y) /\ Onward(w, y)
    BY <1>0, SessBe, OnSteps
<1> HIDE DEF y
<1>2. Slots(y, X)
    BY <1>0, <1>1 DEF Lease, Slots, ButBe
<1>3. Queued(y, X)
  <2> SUFFICES ASSUME NEW s \in Sockets, NEW m \in In(y.be.wire[s]) PROVE MixerFits(y, X, s, m)
    BY DEF Queued
  <2>1. MixerFits(x, X, s, m)
    BY <1>0, <1>1 DEF Lease, Queued
  <2> QED
    BY <1>1, <2>1 DEF MixerFits, Over, ButBe
<1>4. Told(y)
    BY <1>0, <1>1 DEF Lease, Told, TalkFits, ButBe
<1>5. OpenOnly(y) /\ (~Pipelining => Single(y) /\ Listed(y))
    BY <1>0, <1>1 DEF Lease, OpenOnly, Single, Listed, ButBe
<1>6. Watch(y, O)
    BY <1>0, <1>1 DEF Watch, ButBe
<1> QED
    BY <1>1, <1>2, <1>3, <1>4, <1>5, <1>6 DEF Fit, Lease, y

(* A request to the mixer of a session.                                    *)
LEMMA FitLoopSent ==
    ASSUME NEW w, NEW x, NEW O, NEW op \in LoopOps, NEW r \in Reqs, NEW S \in Users, NEW l \in Loops,
           Fit(w, x, {}, O), Owns(x, r, S)
    PROVE  Fit(w, [x EXCEPT !.be = LoopRequest(x.be, op, r, S, l)], {}, O)
<1> DEFINE m == Message(op, r, S, l)
           b == LoopRequest(x.be, op, r, S, l)
<1>0. x \in VocsStates /\ x.be \in BackendStates /\ Lease(x, {})
    BY VocsTyping DEF Fit, Sess
<1>1. m \in Messages /\ m.op = op /\ m.id = r /\ m.user = S /\ op \notin {"acquire", "release"}
    BY MessageType DEF BackendOps, LoopOps
<1>2. SentToMixer(x.be, b, S, m)
    BY <1>0, LoopRequestFields
<1> HIDE DEF m, b
<1>3. AlsoAtMixer(x.be, b, S, m) /\ NoNewAcquire(x.be.wire, b.wire)
    BY <1>0, <1>1, <1>2, SentInMixer, MixerNothingNew
<1>4. b \in BackendStates /\ b.slot = x.be.slot /\ b.users = x.be.users
    BY <1>2 DEF SentToMixer
<1>5. ASSUME HasMixer(x.be, S) PROVE MixerFits(x, {}, x.be.users[S], m)
  <2> SUFFICES ASSUME NEW e \in x.async, e.id = r PROVE x.be.slot[x.be.users[S]] = S /\ x.sess[S] = e.sock
    BY <1>1 DEF MixerFits
  <2>1. x.sess[S] = e.sock /\ e.sock \in Clients /\ NoSocket \notin Clients
    BY <1>0, VocsTyping DEF Owns, Entries
  <2>2. x.be.users[S] # NoSlot
    BY <1>0, <1>5, GetUserType
  <2> QED
    BY <1>0, <2>1, <2>2 DEF Lease, Slots
<1>6. \A s \in Sockets : \A n \in In(b.wire[s]) : n \in In(x.be.wire[s]) \/ MixerFits(x, {}, s, n)
    BY <1>3, <1>5 DEF AlsoAtMixer
<1>7. Fit(w, [x EXCEPT !.be = b], {}, O)
    BY <1>3, <1>4, <1>6, FitBackend
<1> QED
    BY <1>7 DEF b

(* A mixer is told to leave a loop.                                        *)
LEMMA FitLeaveLoop ==
    ASSUME NEW w, NEW x, NEW O, NEW r \in Reqs, NEW S \in Users \cup {None}, NEW l \in Loops,
           Fit(w, x, {}, O), S # None => Owns(x, r, S)
    PROVE  Fit(w, LeaveLoop(x, r, S, l), {}, O)
<1>1. CASE S = None
  <2> DEFINE g == RegisterCallback(x.be, r)
  <2>1. LeaveLoop(x, r, S, l) = [x EXCEPT !.be = g]
    BY <1>1 DEF LeaveLoop
  <2>2. g \in BackendStates /\ g.wire = x.be.wire /\ g.slot = x.be.slot /\ g.users = x.be.users
    BY CallbackFields, VocsTyping DEF Fit, Sess
  <2> HIDE DEF g
  <2>3. NoNewAcquire(x.be.wire, g.wire)
    BY <2>2, NothingNew
  <2> QED
    BY <2>1, <2>2, <2>3, FitBackend
<1>2. CASE S # None
  <2>1. LeaveLoop(x, r, S, l) = [x EXCEPT !.be = LoopRequest(x.be, "leave", r, S, l)]
    BY <1>2 DEF LeaveLoop
  <2>2. "leave" \in LoopOps /\ S \in Users
    BY <1>2 DEF LoopOps
  <2> QED
    BY <1>2, <2>1, <2>2, FitLoopSent
<1> QED
    BY <1>1, <1>2

(* A request to a proxy.                                                   *)
LEMMA FitFrontend ==
    ASSUME NEW w, NEW x, NEW X, NEW O, NEW f \in FE!FrontendStates, Fit(w, x, X, O), Sends(x.fe, f),
           Sess([x EXCEPT !.fe = f]),
           \A p \in Proxies : \A m \in In(f.wire[p]) : m \in In(x.fe.wire[p])
               \/ (TalkFits(x, m) /\ (m.op = "candidate" => "candidate" \in Signals))
    PROVE  Fit(w, [x EXCEPT !.fe = f], X, O)
<1> DEFINE y == [x EXCEPT !.fe = f]
<1>0. x \in VocsStates /\ Sess(x) /\ Lease(x, X) /\ Watch(x, O) /\ Onward(w, x)
    BY DEF Fit, Sess
<1>1. Sess(y) /\ y.fe = f /\ ButFe(x, y) /\ Onward(w, y)
    BY <1>0, WithFe, OnSteps
<1> HIDE DEF y
<1>2. Slots(y, X) /\ OpenOnly(y) /\ (~Pipelining => Single(y) /\ Listed(y))
    BY <1>0, <1>1 DEF Lease, Slots, OpenOnly, Single, Listed, ButFe
<1>3. Queued(y, X)
    BY <1>0, <1>1 DEF Lease, Queued, MixerFits, Over, ButFe
<1>4. Told(y)
  <2> SUFFICES ASSUME NEW p \in Proxies, NEW m \in In(y.fe.wire[p]) PROVE TalkFits(y, m)
    BY DEF Told
  <2>1. TalkFits(x, m)
    BY <1>0, <1>1 DEF Lease, Told
  <2> QED
    BY <1>1, <2>1 DEF TalkFits, ButFe
<1>5. Watch(y, O)
    BY <1>0, <1>1 DEF Watch, ButFe
<1> QED
    BY <1>1, <1>2, <1>3, <1>4, <1>5 DEF Fit, Lease, y

(* A request to the home of a session.                                     *)
LEMMA FitHome ==
    ASSUME NEW w, NEW x, NEW X, NEW O, NEW f, NEW S, NEW m \in FE!ProxyMessages, Fit(w, x, X, O),
           SentHome(x.fe, f, S, m), m.session = S, m.op \notin {"create", "failed"}, TalkFits(x, m),
           m.op = "candidate" => "candidate" \in Signals
    PROVE  Fit(w, [x EXCEPT !.fe = f], X, O)
<1>0. x.fe \in FE!FrontendStates /\ f \in FE!FrontendStates /\ Sess(x)
    BY VocsTyping DEF Fit, Sess, SentHome
<1>1. AlsoHome(x.fe, f, S, m) /\ Sends(x.fe, f) /\ NoNewCreate(x.fe.wire, f.wire)
    BY <1>0, SentIn, HomeSends, HomeNothingNew
<1>2. Sess([x EXCEPT !.fe = f])
    BY <1>0, <1>1, SessFe
<1>3. \A p \in Proxies : \A n \in In(f.wire[p]) : n \in In(x.fe.wire[p]) \/ n = m
    BY <1>1 DEF AlsoHome
<1> QED
    BY <1>0, <1>1, <1>2, <1>3, FitFrontend

(* Talk.                                                                   *)
LEMMA FitTalkSent ==
    ASSUME NEW w, NEW x, NEW X, NEW O, NEW r \in Reqs, NEW S \in Users, NEW l \in Loops, NEW on \in BOOLEAN,
           Fit(w, x, X, O), Owns(x, r, S),
           \A e \in x.async : e.id = r /\ ~Pipelining => x.conn[e.sock].loops[l] # "none"
    PROVE  Fit(w, [x EXCEPT !.fe = FE!Talk(x.fe, r, S, on, l)], X, O)
<1> DEFINE m == TalkMessage(r, S, on, l)
           f == FE!Talk(x.fe, r, S, on, l)
<1>1. SentHome(x.fe, f, S, m)
    BY VocsTyping, TalkFields DEF Fit, Sess
<1>2. /\ m \in FE!ProxyMessages /\ m.op \in TalkOps /\ m.op \notin {"create", "failed", "candidate"}
      /\ m.session = S /\ m.id = r /\ m.loop = l
    BY DEF FE!FrontendOps, FE!ProxyMessages, FE!ProxyMessage, TalkMessage, TalkOps
<1> HIDE DEF m, f
<1>3. TalkFits(x, m)
    BY <1>2 DEF TalkFits, Owns
<1>4. Fit(w, [x EXCEPT !.fe = f], X, O)
    BY <1>1, <1>2, <1>3, FitHome
<1> QED
    BY <1>4 DEF f

(* A session is dropped at its proxy.                                      *)
LEMMA FitFrontendDrop ==
    ASSUME NEW w, NEW x, NEW X, NEW O, NEW S \in Users, Fit(w, x, X, O)
    PROVE  Fit(w, FrontendDrop(x, S), X, O)
<1> DEFINE m == DropMessage(S)
           f == FE!DropSession(x.fe, S)
<1>1. SentHome(x.fe, f, S, m) /\ m \in FE!ProxyMessages /\ m.op = "drop" /\ m.session = S
    BY VocsTyping, DropSessionFields DEF Fit, Sess
<1>2. FrontendDrop(x, S) = [x EXCEPT !.fe = f]
    BY DEF FrontendDrop
<1> HIDE DEF m, f
<1>3. TalkFits(x, m)
    BY <1>1 DEF TalkFits, TalkOps
<1> QED
    BY <1>1, <1>2, <1>3, FitHome

-----------------------------------------------------------------------------
(* What is stored at a connection.                                         *)

(* The state of a loop, with the roster of the loop.                       *)
LEMMA FitLoopSet ==
    ASSUME NEW w, NEW x, NEW y, NEW X, NEW O, NEW c \in Clients, NEW l \in Loops, NEW st \in LoopStates,
           Fit(w, x, X, O), LoopSet(x, y, c, l, st),
           ~Pipelining => y.parts = IF st = "none" THEN x.parts \ {<<l, c>>} ELSE x.parts \cup {<<l, c>>},
           ~Pipelining /\ st = "none" => \A e \in x.async : e.sock # c
    PROVE  Fit(w, y, X, O)
<1>0. x \in VocsStates /\ Sess(x) /\ Lease(x, X) /\ Watch(x, O) /\ Onward(w, x)
    BY DEF Fit, Sess
<1>1. Sess(y) /\ Onward(w, y)
    BY <1>0, SessLoopSet, OnStored
<1>2. /\ y.up = x.up /\ y.sess = x.sess /\ y.async = x.async /\ y.be = x.be /\ y.fe = x.fe
      /\ y.owed = x.owed /\ y.conn = [x.conn EXCEPT ![c] = WithLoop(x.conn[c], l, st)]
    BY DEF LoopSet
<1>3. /\ x.conn \in [Clients -> Conns] /\ x.async \subseteq Entries /\ x.parts \subseteq Loops \X Clients
    BY <1>0, VocsTyping
<1>4. /\ \A k \in Clients : y.conn[k].session = x.conn[k].session /\ y.conn[k].mixer = x.conn[k].mixer
      /\ \A k \in Clients, i \in Loops : y.conn[k].loops[i] = IF k = c /\ i = l THEN st ELSE x.conn[k].loops[i]
    BY <1>2, <1>3 DEF WithLoop, Conns
<1>5. OpenOnly(y) /\ Slots(y, X) /\ (~Pipelining => Single(y))
    BY <1>0, <1>2, <1>4 DEF Lease, OpenOnly, Slots, Single
<1>6. Queued(y, X)
    BY <1>0, <1>2 DEF Lease, Queued, MixerFits, Over
<1>7. Told(y)
  <2> SUFFICES ASSUME NEW p \in Proxies, NEW m \in In(y.fe.wire[p]) PROVE TalkFits(y, m)
    BY DEF Told
  <2>1. TalkFits(x, m) /\ m \in FE!ProxyMessages
    <3>1. x.fe.wire[p] \in Seq(FE!ProxyMessages)
      BY <1>0, VocsTyping, FrontendTyping
    <3> QED
      BY <1>0, <1>2, <3>1, QueueFacts DEF Lease, Told
  <2> SUFFICES ASSUME m.op \in TalkOps, NEW e \in x.async, e.id = m.id
               PROVE  y.sess[m.session] = e.sock /\ (~Pipelining => y.conn[e.sock].loops[m.loop] # "none")
    BY <1>2, <2>1 DEF TalkFits
  <2>2. x.sess[m.session] = e.sock /\ (~Pipelining => x.conn[e.sock].loops[m.loop] # "none")
    BY <2>1 DEF TalkFits
  <2>3. e.sock \in Clients
    BY <1>3 DEF Entries
  <2>4. CASE e.sock = c /\ m.loop = l
    BY <1>2, <1>4, <2>2, <2>3, <2>4
  <2>5. CASE e.sock # c \/ m.loop # l
    BY <1>2, <1>3, <2>2, <2>3, <2>5 DEF WithLoop, Conns
  <2> QED
    BY <2>4, <2>5
<1>8. ~Pipelining => Listed(y)
  <2> SUFFICES ASSUME ~Pipelining, NEW i \in Loops, NEW k \in Clients
               PROVE  (<<i, k>> \in y.parts) <=> (y.conn[k].loops[i] # "none")
    BY DEF Listed
  <2>1. (<<i, k>> \in x.parts) <=> (x.conn[k].loops[i] # "none")
    BY <1>0 DEF Lease, Listed
  <2> QED
    BY <1>4, <2>1
<1>9. Watch(y, O)
    BY <1>0, <1>2 DEF Watch
<1> QED
    BY <1>1, <1>5, <1>6, <1>7, <1>8, <1>9 DEF Fit, Lease

(* A mixer or ICE that is ready.                                           *)
LEMMA FitAnnounced ==
    ASSUME NEW w, NEW x, NEW y, NEW X, NEW O, NEW c \in Clients, NEW d \in Conns, Fit(w, x, X, O),
           Announced(x, y, c, d), Sess(y), d.session = x.conn[c].session, d.loops = x.conn[c].loops,
           d.mixer => x.conn[c].mixer \/ x.be.users[d.session] # NoSlot
    PROVE  Fit(w, y, X, O)
<1>0. x \in VocsStates /\ Sess(x) /\ Lease(x, X) /\ Watch(x, O) /\ Onward(w, x)
    BY DEF Fit, Sess
<1>1. /\ y \in VocsStates /\ y.up = x.up /\ y.sess = x.sess /\ y.async = x.async /\ y.be = x.be
      /\ y.parts = x.parts /\ y.fe = x.fe /\ y.owed = x.owed /\ y.conn = [x.conn EXCEPT ![c] = d]
    BY DEF Announced
<1>2. x.conn \in [Clients -> Conns]
    BY <1>0, VocsTyping
<1>3. Onward(w, y)
    BY <1>0, <1>1, OnwardPlain, OnwardTwice
<1>4. /\ \A k \in Clients : y.conn[k].session = x.conn[k].session /\ y.conn[k].loops = x.conn[k].loops
      /\ \A k \in Clients : y.conn[k].mixer => x.conn[k].mixer \/ x.be.users[x.conn[k].session] # NoSlot
    BY <1>1, <1>2
<1>5. OpenOnly(y) /\ Slots(y, X) /\ (~Pipelining => Single(y) /\ Listed(y))
    BY <1>0, <1>1, <1>4 DEF Lease, OpenOnly, Slots, Single, Listed
<1>6. Queued(y, X)
    BY <1>0, <1>1 DEF Lease, Queued, MixerFits, Over
<1>7. Told(y)
  <2>1. \A e \in x.async : e.sock \in Clients
    BY <1>0, VocsTyping DEF Entries
  <2> QED
    BY <1>0, <1>1, <1>4, <2>1 DEF Lease, Told, TalkFits
<1>8. Watch(y, O)
    BY <1>0, <1>1 DEF Watch
<1> QED
    BY <1>3, <1>5, <1>6, <1>7, <1>8 DEF Fit, Lease

-----------------------------------------------------------------------------
(* Connections that end.                                                   *)

(* What drop_connection tells proxies.                                     *)
LEMMA FeDroppedUntold ==
    ASSUME NEW f \in FE!FrontendStates, NEW g, NEW S \in Users \cup {None}, NEW frontend \in BOOLEAN,
           FeDropped(f, g, S, frontend)
    PROVE  ProxiesUntold(f, g)
<1>1. ASSUME NEW h \in FE!FrontendStates, S \in Users
      PROVE  FE!DropSession(h, S) \in FE!FrontendStates /\ ProxiesUntold(h, FE!DropSession(h, S))
  <2> DEFINE m == DropMessage(S)
             k == FE!DropSession(h, S)
  <2>1. SentHome(h, k, S, m) /\ m \in FE!ProxyMessages /\ m.op = "drop"
    BY <1>1, DropSessionFields
  <2> HIDE DEF m, k
  <2>2. AlsoHome(h, k, S, m) /\ k \in FE!FrontendStates
    BY <2>1, SentIn DEF SentHome
  <2>3. ProxiesUntold(h, k)
    BY <2>1, <2>2 DEF AlsoHome, ProxiesUntold, TalkOps
  <2> QED
    BY <2>2, <2>3 DEF k
<1>2. \A h, k, j : ProxiesUntold(h, k) /\ ProxiesUntold(k, j) => ProxiesUntold(h, j)
    BY DEF ProxiesUntold
<1>3. ProxiesUntold(f, f)
    BY DEF ProxiesUntold
<1>4. CASE S = None
    BY <1>3, <1>4 DEF FeDropped
<1>5. CASE S \in Users
  <2> DEFINE k == FE!DropSession(f, S)
             j == FE!DropSession(k, S)
  <2>1. k \in FE!FrontendStates /\ ProxiesUntold(f, k)
    BY <1>1, <1>5
  <2>2. ProxiesUntold(k, j)
    BY <1>1, <1>5, <2>1
  <2>3. g \in {f, k, j}
    BY DEF FeDropped
  <2> HIDE DEF k, j
  <2> QED
    BY <1>2, <1>3, <2>1, <2>2, <2>3
<1> QED
    BY <1>4, <1>5

(* What is left at the mixers when session S is released there.            *)
Unslotted(x, y, S, backend) ==
    /\ \A s \in Sockets, T \in Users : T # S /\ (backend => x.be.users[S] # s) /\ x.be.slot[s] = T => y.be.slot[s] = T
    /\ \A s \in Sockets, T \in Users : y.be.slot[s] = T => x.be.slot[s] = T /\ (backend => x.be.users[S] # s)
    /\ \A T \in Users : T # S => y.be.users[T] = x.be.users[T]
    /\ x.be.users[S] = NoSlot \/ backend => y.be.users[S] = NoSlot
    /\ \A s \in Sockets : \A m \in In(y.be.wire[s]) :
          m \in In(x.be.wire[s]) \/ (backend /\ m.op = "release" /\ m.user = S)

(* drop_connection does that.                                              *)
LEMMA DropUnslots ==
    ASSUME NEW x \in VocsStates, NEW y, NEW S \in Users, NEW backend \in BOOLEAN,
           y.be = IF backend THEN ReleaseMixer(x.be, S, S) ELSE x.be
    PROVE  Unslotted(x, y, S, backend)
<1>0. x.be \in BackendStates
    BY VocsTyping
<1>1. CASE ~backend
    BY <1>1 DEF Unslotted
<1>2. CASE backend
  <2> DEFINE g == ReleaseMixer(x.be, S, S)
  <2>1. /\ g \in BackendStates /\ g.slot = Emptied(x.be, S) /\ g.users = [x.be.users EXCEPT ![S] = NoSlot]
        /\ HasMixer(x.be, S) => x.be.users[S] \in Sockets
        /\ g.wire = IF HasMixer(x.be, S)
                    THEN [x.be.wire EXCEPT ![x.be.users[S]] = Append(@, Message("release", S, S, None))]
                    ELSE x.be.wire
    BY <1>0, ReleaseMixerFields
  <2>2. /\ x.be.wire \in [Sockets -> Seq(Messages)] /\ x.be.users \in [Users -> Sockets \cup {NoSlot}]
        /\ Closed \notin Users /\ Free \notin Users
    BY <1>0, BackendTyping
  <2>3. /\ Message("release", S, S, None) \in Messages /\ Message("release", S, S, None).op = "release"
        /\ Message("release", S, S, None).user = S
    BY ReleaseIdsAssumption, MessageType DEF BackendOps
  <2> HIDE DEF g
  <2>4. \A t \in Sockets : \A m \in In(g.wire[t]) : m \in In(x.be.wire[t]) \/ (m.op = "release" /\ m.user = S)
    BY <2>1, <2>2, <2>3, QueueFacts
  <2>5. y.be = g
    BY <1>2 DEF g
  <2>6. \A s \in Sockets : g.slot[s] = IF s = x.be.users[S] /\ x.be.slot[s] # Closed THEN Free ELSE x.be.slot[s]
    BY <2>1 DEF Emptied
  <2>7. \A s \in Sockets, T \in Users : T # S /\ x.be.users[S] # s /\ x.be.slot[s] = T => g.slot[s] = T
    BY <2>6
  <2>8. \A s \in Sockets, T \in Users : g.slot[s] = T => x.be.slot[s] = T /\ x.be.users[S] # s
    BY <2>2, <2>6
  <2>9. \A T \in Users : T # S => g.users[T] = x.be.users[T]
    BY <2>1, <2>2
  <2>10. g.users[S] = NoSlot
    BY <2>1, <2>2
  <2> QED
    BY <1>2, <2>4, <2>5, <2>7, <2>8, <2>9, <2>10, ZenonT(30) DEF Unslotted
<1> QED
    BY <1>1, <1>2

(* What remains of the others when session S of connection c is gone.      *)
Parted(x, y, S, c) ==
    /\ \A s \in Sockets, T \in Users : y.be.slot[s] = T => x.be.slot[s] = T /\ T # S
    /\ \A s \in Sockets, T \in Users : T # S /\ x.be.slot[s] = T => y.be.slot[s] = T
    /\ \A T \in Users : T # S => y.be.users[T] = x.be.users[T] /\ y.sess[T] = x.sess[T]
    /\ \A T \in Users : x.sess[T] = c => T = S
    /\ S \in Users => y.sess[S] = NoSocket /\ (Over(y, S) \/ \A s \in Sockets : x.be.slot[s] # S)
    /\ \A s \in Sockets : \A m \in In(y.be.wire[s]) :
          m \in In(x.be.wire[s]) \/ (m.op = "release" /\ m.user \in Users /\ Over(y, m.user))

(* drop_connection leaves the others as they were: a slot is given back by *)
(* the session it is reserved for.                                         *)
LEMMA DropParts ==
    ASSUME NEW x, NEW y, NEW X, NEW S, NEW c \in Clients, NEW frontend \in BOOLEAN, NEW backend \in BOOLEAN,
           x \in VocsStates, Bound(x), Slots(x, X), Dropped(x, y, c, frontend, backend), S = x.conn[c].session,
           backend => X = {},
           ~backend => \A s \in Sockets : S \in Users => x.be.slot[s] # S
    PROVE  Parted(x, y, S, c)
<1>1. x.conn[c] \in Conns /\ c # NoSocket /\ None \notin Users
    BY VocsTyping, NoneAssumption
<1>2. S \in Users \cup {None}
    BY <1>1 DEF Conns
<1>3. x.sess \in [Users -> Clients \cup {NoSocket}]
    BY VocsTyping
<1>4. \A T \in Users : x.sess[T] = c => T = S
    BY DEF Bound
<1>5. CASE S = None
  <2>1. y.be = x.be /\ y.sess = x.sess
    BY <1>5 DEF Dropped
  <2> QED
    BY <1>1, <1>4, <1>5, <2>1 DEF Parted
<1>6. CASE S \in Users
  <2>1. y.be = IF backend THEN ReleaseMixer(x.be, S, S) ELSE x.be
    BY <1>1, <1>6 DEF Dropped
  <2>2. Unslotted(x, y, S, backend)
    BY <1>6, <2>1, DropUnslots
  <2>3. y.sess = [x.sess EXCEPT ![S] = NoSocket] /\ y \in VocsStates
    BY <1>1, <1>6 DEF Dropped
  <2>4. y.sess[S] = NoSocket /\ \A T \in Users : T # S => y.sess[T] = x.sess[T]
    BY <1>3, <1>6, <2>3
  <2>5. x.sess[S] = c
    BY <1>6 DEF Bound
  <2>6. backend => x.be.users[S] = NoSlot \/ x.be.slot[x.be.users[S]] = S
    BY <1>1, <1>6, <2>5 DEF Slots
  <2>7. x.be.users \in [Users -> Sockets \cup {NoSlot}] /\ NoSlot \notin Sockets
    BY VocsTyping, BackendTyping
  <2>8. \A s \in Sockets, T \in Users : x.be.slot[s] = T => x.be.users[T] = s
    BY DEF Slots
  <2>9. \A s \in Sockets, T \in Users : y.be.slot[s] = T => x.be.slot[s] = T /\ T # S
    BY <1>6, <2>2, <2>8 DEF Unslotted
  <2>10. \A s \in Sockets, T \in Users : T # S /\ x.be.slot[s] = T => y.be.slot[s] = T
    BY <1>6, <2>2, <2>6, <2>7 DEF Unslotted
  <2>11. \A T \in Users : T # S => y.be.users[T] = x.be.users[T] /\ y.sess[T] = x.sess[T]
    BY <2>2, <2>4 DEF Unslotted
  <2>12. backend => Over(y, S)
    BY <2>2, <2>4 DEF Unslotted, Over
  <2>13. \A s \in Sockets : \A m \in In(y.be.wire[s]) :
            m \in In(x.be.wire[s]) \/ (m.op = "release" /\ m.user \in Users /\ Over(y, m.user))
    BY <1>6, <2>2, <2>12 DEF Unslotted
  <2>14. Over(y, S) \/ \A s \in Sockets : x.be.slot[s] # S
    BY <1>6, <2>12
  <2> QED
    BY <1>4, <2>4, <2>9, <2>10, <2>11, <2>13, <2>14, Zenon DEF Parted
<1> QED
    BY <1>2, <1>5, <1>6

(* The slots of the others.                                                *)
LEMMA PartedSlots ==
    ASSUME NEW x, NEW y, NEW X, NEW S, NEW c \in Clients, Sess(x), Slots(x, X), X \subseteq {c},
           Parted(x, y, S, c), S = x.conn[c].session, y.conn = [x.conn EXCEPT ![c] = NoData],
           y.sess \in [Users -> Clients \cup {NoSocket}]
    PROVE  Slots(y, {})
<1>1. x \in VocsStates /\ Bound(x) /\ x.conn \in [Clients -> Conns] /\ NoSocket \notin Clients
    BY VocsTyping DEF Sess
<1>2. ASSUME NEW s \in Sockets, NEW T \in Users, y.be.slot[s] = T
      PROVE  y.be.users[T] = s /\ y.sess[T] # NoSocket
    BY <1>2 DEF Parted, Slots
<1>3. ASSUME NEW T \in Users, y.sess[T] # NoSocket
      PROVE  y.be.users[T] = NoSlot \/ y.be.slot[y.be.users[T]] = T
  <2>1. T # S
    BY <1>3 DEF Parted
  <2>2. y.sess[T] = x.sess[T] /\ y.be.users[T] = x.be.users[T] /\ x.sess[T] # c
    BY <2>1 DEF Parted
  <2>3. x.be.users[T] = NoSlot \/ x.be.slot[x.be.users[T]] = T
    BY <1>3, <2>2 DEF Slots
  <2>4. x.be.users[T] \in Sockets \cup {NoSlot}
    BY <1>1, VocsTyping, BackendTyping
  <2> QED
    BY <2>1, <2>2, <2>3, <2>4 DEF Parted
<1>4. ASSUME NEW d \in Clients, y.conn[d].mixer
      PROVE  y.be.users[y.conn[d].session] # NoSlot
  <2>1. d # c
    BY <1>1, <1>4, NoDataType
  <2>2. y.conn[d] = x.conn[d]
    BY <1>1, <2>1
  <2>3. x.conn[d].session # None
    BY <1>4, <2>2 DEF Sess, MediaTold
  <2>4. x.conn[d] \in Conns
    BY <1>1
  <2>5. x.conn[d].session \in Users
    BY <2>3, <2>4 DEF Conns
  <2>6. x.sess[x.conn[d].session] = d
    BY <1>1, <2>5 DEF Bound
  <2>7. x.conn[d].session # S
    BY <1>1, <2>1, <2>5, <2>6 DEF Bound
  <2>8. x.be.users[x.conn[d].session] # NoSlot
    BY <1>4, <2>1, <2>2 DEF Slots
  <2> QED
    BY <2>2, <2>5, <2>7, <2>8 DEF Parted
<1> QED
    BY <1>2, <1>3, <1>4 DEF Slots

(* What the mixers have been asked for the others.                         *)
LEMMA PartedQueued ==
    ASSUME NEW x, NEW y, NEW X, NEW S, NEW c \in Clients, Sess(x), Queued(x, X), X \subseteq {c},
           \A s \in Sockets : \A m \in In(x.be.wire[s]) : m.user \in Users,
           Parted(x, y, S, c), S = x.conn[c].session, y.async = {e \in x.async : e.sock # c}
    PROVE  Queued(y, {})
<1>1. x \in VocsStates /\ Bound(x) /\ NoSocket \notin Clients
    BY VocsTyping DEF Sess
<1>2. S \in Users => x.sess[S] = c
    BY <1>1 DEF Bound
<1>3. ASSUME NEW s \in Sockets, NEW m \in In(y.be.wire[s])
      PROVE  MixerFits(y, {}, s, m)
  <2>1. CASE m.op = "release" /\ m.user \in Users /\ Over(y, m.user)
    BY <2>1 DEF MixerFits, LoopOps
  <2>2. CASE m \in In(x.be.wire[s])
    <3>1. MixerFits(x, X, s, m) /\ m.user \in Users
      BY <2>2 DEF Queued
    <3>2. Over(x, m.user) => Over(y, m.user)
      BY <1>1, <1>2, <3>1 DEF Over, Parted
    <3>3. m.op = "acquire" => y.be.slot[s] = m.user \/ Over(y, m.user)
      BY <3>1, <3>2 DEF MixerFits, Parted
    <3>4. m.op = "release" => Over(y, m.user)
      BY <3>1, <3>2 DEF MixerFits
    <3>5. ASSUME m.op \in LoopOps, NEW e \in y.async, e.id = m.id
          PROVE  y.be.slot[s] = m.user /\ y.sess[m.user] = e.sock
      <4>1. e \in x.async /\ e.sock # c
        OBVIOUS
      <4>2. x.be.slot[s] = m.user /\ x.sess[m.user] = e.sock
        BY <3>1, <3>5, <4>1 DEF MixerFits
      <4>3. m.user # S
        BY <1>2, <3>1, <4>1, <4>2
      <4> QED
        BY <3>1, <4>2, <4>3 DEF Parted
    <3> QED
      BY <3>3, <3>4, <3>5 DEF MixerFits
  <2> QED
    BY <2>1, <2>2 DEF Parted
<1> QED
    BY <1>3 DEF Queued

(* Who waits to talk is one of the others.                                 *)
LEMMA PartedTold ==
    ASSUME NEW x, NEW y, NEW S, NEW c \in Clients, Sess(x), Told(x), ProxiesUntold(x.fe, y.fe),
           Parted(x, y, S, c), S = x.conn[c].session, y.conn = [x.conn EXCEPT ![c] = NoData],
           y.async = {e \in x.async : e.sock # c}
    PROVE  Told(y)
<1>1. x \in VocsStates /\ Bound(x) /\ x.conn \in [Clients -> Conns] /\ x.async \subseteq Entries
    BY VocsTyping DEF Sess
<1>2. S \in Users => x.sess[S] = c
    BY <1>1 DEF Bound
<1> SUFFICES ASSUME NEW p \in Proxies, NEW m \in In(y.fe.wire[p]), m.op \in TalkOps PROVE TalkFits(y, m)
    BY DEF Told, TalkFits
<1>3. TalkFits(x, m) /\ m.session \in Users
    BY DEF Told, ProxiesUntold, TalkFits
<1>4. ASSUME NEW e \in y.async, e.id = m.id
      PROVE  y.sess[m.session] = e.sock /\ (~Pipelining => y.conn[e.sock].loops[m.loop] # "none")
  <2>1. e \in x.async /\ e.sock # c /\ e.sock \in Clients
    BY <1>1 DEF Entries
  <2>2. x.sess[m.session] = e.sock /\ (~Pipelining => x.conn[e.sock].loops[m.loop] # "none")
    BY <1>3, <1>4, <2>1 DEF TalkFits
  <2>3. m.session # S /\ y.conn[e.sock] = x.conn[e.sock]
    BY <1>1, <1>2, <1>3, <2>1, <2>2
  <2> QED
    BY <1>3, <2>2, <2>3 DEF Parted
<1> QED
    BY <1>3, <1>4 DEF TalkFits

(* What is stored for the others, and listed.                              *)
LEMMA DropStored ==
    ASSUME NEW x, NEW y, NEW c \in Clients, NEW frontend \in BOOLEAN, NEW backend \in BOOLEAN,
           Sess(x), OpenOnly(x), Dropped(x, y, c, frontend, backend), y.async = {e \in x.async : e.sock # c}
    PROVE  /\ OpenOnly(y)
           /\ Single(x) => Single(y)
           /\ Listed(x) => Listed(y)
<1>1. x \in VocsStates /\ x.conn \in [Clients -> Conns] /\ x.async \subseteq Entries /\ x.up \in [Clients -> BOOLEAN]
    BY VocsTyping DEF Sess
<1>2. /\ y.up = [x.up EXCEPT ![c] = FALSE] /\ y.conn = [x.conn EXCEPT ![c] = NoData]
      /\ y.parts = {q \in x.parts : q[2] # c} /\ y.owed = {o \in x.owed : o[2] # c}
    BY DEF Dropped
<1>3. OpenOnly(y)
  <2>1. ASSUME NEW d \in Clients, y.conn[d].session # None PROVE y.up[d]
    BY <1>1, <1>2, <2>1, NoDataType DEF OpenOnly
  <2>2. ASSUME NEW e \in y.async PROVE y.up[e.sock]
    <3>1. e \in x.async /\ e.sock # c /\ e.sock \in Clients
      BY <1>1 DEF Entries
    <3> QED
      BY <1>1, <1>2, <3>1 DEF OpenOnly
  <2> QED
    BY <2>1, <2>2 DEF OpenOnly
<1>4. Single(x) => Single(y)
    BY <1>2 DEF Single
<1>5. Listed(x) => Listed(y)
  <2> SUFFICES ASSUME Listed(x), NEW l \in Loops, NEW d \in Clients
               PROVE  (<<l, d>> \in y.parts) <=> (y.conn[d].loops[l] # "none")
    BY DEF Listed
  <2>1. (<<l, d>> \in x.parts) <=> (x.conn[d].loops[l] # "none")
    BY DEF Listed
  <2> QED
    BY <1>1, <1>2, <2>1, NoDataType
<1> QED
    BY <1>3, <1>4, <1>5

(* drop_connection keeps everything about the others; what was wrong about *)
(* the connection itself is gone.                                          *)
LEMMA LeaseDropped ==
    ASSUME NEW x, NEW y, NEW X, NEW O, NEW c \in Clients, NEW frontend \in BOOLEAN, NEW backend \in BOOLEAN,
           Sess(x), Lease(x, X), Watch(x, O), Dropped(x, y, c, frontend, backend),
           y.async = {e \in x.async : e.sock # c}, X \subseteq {c}, \A o \in O : o[2] = c,
           backend => X = {}, ~backend => \A s \in Sockets : x.be.slot[s] # x.conn[c].session
    PROVE  Lease(y, {}) /\ Watch(y, {})
<1> DEFINE S == x.conn[c].session
<1>1. x \in VocsStates /\ y \in VocsStates /\ Bound(x) /\ S \in Users \cup {None}
  <2>1. x \in VocsStates /\ y \in VocsStates /\ Bound(x)
    BY DEF Sess, Dropped
  <2>2. x.conn[c] \in Conns
    BY <2>1, VocsTyping
  <2> QED
    BY <2>1, <2>2 DEF Conns
<1>2. OpenOnly(x) /\ Slots(x, X) /\ Queued(x, X) /\ Told(x) /\ (~Pipelining => Single(x) /\ Listed(x))
    BY DEF Lease
<1>3. Parted(x, y, S, c)
    BY <1>1, <1>2, DropParts
<1>4. y.sess \in [Users -> Clients \cup {NoSocket}] /\ y.conn = [x.conn EXCEPT ![c] = NoData]
    BY <1>1, VocsTyping DEF Dropped
<1>5. Slots(y, {})
    BY <1>2, <1>3, <1>4, PartedSlots
<1>6. \A s \in Sockets : \A m \in In(x.be.wire[s]) : m.user \in Users
  <2>1. x.be.wire \in [Sockets -> Seq(Messages)]
    BY <1>1, VocsTyping, BackendTyping
  <2> SUFFICES ASSUME NEW s \in Sockets, NEW m \in In(x.be.wire[s]) PROVE m.user \in Users
    OBVIOUS
  <2>2. m \in Messages
    BY <2>1, QueueFacts
  <2> QED
    BY <2>2 DEF Messages
<1>7. Queued(y, {})
    BY <1>2, <1>3, <1>6, PartedQueued
<1>8. ProxiesUntold(x.fe, y.fe)
  <2>1. FeDropped(x.fe, y.fe, S, frontend) /\ x.fe \in FE!FrontendStates
    BY <1>1, VocsTyping DEF Dropped
  <2> QED
    BY <1>1, <2>1, FeDroppedUntold
<1>9. Told(y)
    BY <1>2, <1>3, <1>4, <1>8, PartedTold
<1>10. OpenOnly(y) /\ (Single(x) => Single(y)) /\ (Listed(x) => Listed(y))
    BY <1>2, DropStored
<1>11. Watch(y, {})
  <2>1. y.owed = {o \in x.owed : o[2] # c}
    BY DEF Dropped
  <2>2. ASSUME "candidate" \notin Signals, NEW o \in y.owed PROVE \E e \in y.async : e.id = o[1] /\ e.sock = o[2]
    <3>1. o \in x.owed \ O /\ o[2] # c
      BY <2>1
    <3>2. PICK e \in x.async : e.id = o[1] /\ e.sock = o[2]
      BY <2>2, <3>1 DEF Watch
    <3> QED
      BY <3>1, <3>2
  <2> QED
    BY <1>8, <2>2 DEF Watch, ProxiesUntold
<1> QED
    BY <1>2, <1>5, <1>7, <1>9, <1>10, <1>11 DEF Lease

(* What holds between two handlers.                                        *)
Good(x) == Sess(x) /\ Lease(x, {}) /\ Watch(x, {})

(* A handler starts from it and ends with it.                              *)
LEMMA FitGood ==
    ASSUME NEW w
    PROVE  /\ Good(w) => Fit(w, w, {}, {})
           /\ \A z : Fit(w, z, {}, {}) => Good(z) /\ Onward(w, z)
<1>1. Good(w) => Onward(w, w)
    BY OnwardPlain DEF Good, Sess
<1> QED
    BY <1>1 DEF Good, Fit

(* The end of a connection in the course of a handler, whatever is wrong   *)
(* about this connection.                                                  *)
LEMMA FitDrop ==
    ASSUME NEW w, NEW x, NEW X, NEW O, NEW c \in Clients, Fit(w, x, X, O), X \subseteq {c}, \A o \in O : o[2] = c
    PROVE  /\ X = {} => Fit(w, DropConnection(x, c, TRUE, TRUE), {}, {}) /\ Fit(w, Close(x, c), {}, {})
           /\ (\A s \in Sockets : x.be.slot[s] # x.conn[c].session) =>
                Fit(w, DropConnection(x, c, TRUE, FALSE), {}, {})
           /\ X = {} /\ (\A e \in x.async : e.sock # c) => Fit(w, DropLocked(x, c, TRUE, TRUE), {}, {})
<1>0. x \in VocsStates /\ Sess(x) /\ Lease(x, X) /\ Watch(x, O) /\ Onward(w, x)
    BY DEF Fit, Sess
<1>1. TRUE \in BOOLEAN /\ FALSE \in BOOLEAN /\ c \in Clients \cup {NoSocket}
    OBVIOUS
<1>2. ASSUME X = {}
      PROVE  Fit(w, DropConnection(x, c, TRUE, TRUE), {}, {}) /\ Fit(w, Close(x, c), {}, {})
  <2> DEFINE y == DropConnection(x, c, TRUE, TRUE)
  <2>1. Dropped(x, y, c, TRUE, TRUE) /\ y.async = {e \in x.async : e.sock # c}
    BY <1>0, <1>1, DropFields
  <2>2. Sess(y) /\ Onward(w, y)
    BY <1>0, <1>1, SessDropConnection, OnDrop
  <2> HIDE DEF y
  <2>3. Lease(y, {}) /\ Watch(y, {})
    BY <1>0, <1>1, <1>2, <2>1, LeaseDropped
  <2>4. Fit(w, y, {}, {})
    BY <2>2, <2>3 DEF Fit
  <2> QED
    BY <2>4 DEF y, Close
<1>3. ASSUME \A s \in Sockets : x.be.slot[s] # x.conn[c].session
      PROVE  Fit(w, DropConnection(x, c, TRUE, FALSE), {}, {})
  <2> DEFINE y == DropConnection(x, c, TRUE, FALSE)
  <2>1. Dropped(x, y, c, TRUE, FALSE) /\ y.async = {e \in x.async : e.sock # c}
    BY <1>0, <1>1, DropFields
  <2>2. Sess(y) /\ Onward(w, y)
    BY <1>0, <1>1, SessDropConnection, OnDrop
  <2> HIDE DEF y
  <2>3. Lease(y, {}) /\ Watch(y, {})
    BY <1>0, <1>1, <1>3, <2>1, LeaseDropped
  <2>4. Fit(w, y, {}, {})
    BY <2>2, <2>3 DEF Fit
  <2> QED
    BY <2>4 DEF y
<1>4. ASSUME X = {}, \A e \in x.async : e.sock # c
      PROVE  Fit(w, DropLocked(x, c, TRUE, TRUE), {}, {})
  <2> DEFINE y == DropLocked(x, c, TRUE, TRUE)
  <2>1. Dropped(x, y, c, TRUE, TRUE) /\ y.async = {e \in x.async : e.sock # c}
    BY <1>0, <1>1, <1>4, DropFields
  <2>2. Sess(y) /\ Onward(w, y)
    BY <1>0, <1>1, SessDropConnection, OnDrop
  <2> HIDE DEF y
  <2>3. Lease(y, {}) /\ Watch(y, {})
    BY <1>0, <1>1, <1>4, <2>1, LeaseDropped
  <2>4. Fit(w, y, {}, {})
    BY <2>2, <2>3 DEF Fit
  <2> QED
    BY <2>4 DEF y
<1> QED
    BY <1>2, <1>3, <1>4

(* The connection of a session that has ended at its proxy, if there is    *)
(* one: nothing is sent to the proxy.                                      *)
LEMMA GoodDropOf ==
    ASSUME NEW x, NEW c \in Clients \cup {NoSocket}, Good(x)
    PROVE  Good(DropConnection(x, c, FALSE, TRUE))
<1>0. x \in VocsStates /\ Sess(x) /\ Lease(x, {}) /\ Watch(x, {})
    BY DEF Good, Sess
<1>1. TRUE \in BOOLEAN /\ FALSE \in BOOLEAN
    OBVIOUS
<1>2. CASE c = NoSocket
    BY <1>2 DEF DropConnection
<1>3. CASE c \in Clients
  <2> DEFINE y == DropConnection(x, c, FALSE, TRUE)
  <2>1. Dropped(x, y, c, FALSE, TRUE) /\ y.async = {e \in x.async : e.sock # c}
    BY <1>0, <1>1, <1>3, DropFields
  <2>2. Sess(y)
    BY <1>0, <1>1, <1>3, SessDropConnection
  <2> HIDE DEF y
  <2> DEFINE X == {}
  <2>3. Lease(x, X) /\ Watch(x, X) /\ X = {} /\ X \subseteq {c} /\ \A o \in X : o[2] = c
    BY <1>0
  <2> HIDE DEF X
  <2>4. Lease(y, {}) /\ Watch(y, {})
    BY <1>0, <1>1, <1>3, <2>1, <2>3, LeaseDropped
  <2> QED
    BY <2>2, <2>4 DEF Good, y
<1> QED
    BY <1>2, <1>3

(* The same when nothing is wrong yet, socket 0 included.                  *)
LEMMA FitClose ==
    ASSUME NEW w, NEW x, NEW c \in Clients \cup {NoSocket}, Fit(w, x, {}, {})
    PROVE  /\ Fit(w, DropConnection(x, c, TRUE, TRUE), {}, {})
           /\ c \in Clients => Fit(w, Close(x, c), {}, {})
<1>1. CASE c = NoSocket
  <2>1. NoSocket \notin Clients
    BY ClientsAssumption DEF NoSocket
  <2> QED
    BY <1>1, <2>1 DEF DropConnection
<1>2. CASE c \in Clients
  <2> DEFINE X == {}
  <2>1. Fit(w, x, X, X) /\ X = {} /\ X \subseteq {c} /\ \A o \in X : o[2] = c
    OBVIOUS
  <2> HIDE DEF X
  <2> QED
    BY <1>2, <2>1, FitDrop
<1> QED
    BY <1>1, <1>2

(* The same when the connection has just been taken out of the store.      *)
LEMMA FitCloseTaken ==
    ASSUME NEW w, NEW x, NEW r, NEW c \in Clients, Fit(w, x, {}, {<<r, c>>})
    PROVE  Fit(w, DropConnection(x, c, TRUE, TRUE), {}, {}) /\ Fit(w, Close(x, c), {}, {})
<1> DEFINE X == {}
           O == {<<r, c>>}
<1>1. Fit(w, x, X, O) /\ X = {} /\ X \subseteq {c} /\ \A o \in O : o[2] = c
    OBVIOUS
<1> HIDE DEF X, O
<1> QED
    BY <1>1, FitDrop

-----------------------------------------------------------------------------
(* Requests of clients.                                                    *)

(* Logins by a local password, authorization, logout.                      *)
LEMMA FitLogin ==
    ASSUME NEW w, NEW x, NEW c \in Clients, NEW valid \in BOOLEAN, Fit(w, x, {}, {})
    PROVE  /\ Fit(w, Close(x, c), {}, {}) /\ Fit(w, ClientLogin(x, c, valid), {}, {})
           /\ Fit(w, ClientAuthorize(x, c, valid), {}, {}) /\ Fit(w, ClientLogout(x, c), {}, {})
<1>1. Fit(w, Close(x, c), {}, {})
    BY FitClose
<1>2. Fit(w, Authenticated(x, c), {}, {}) /\ Fit(w, [x EXCEPT !.conn[c].role = TRUE], {}, {})
    BY FitMarked
<1>3. ClientLogin(x, c, valid) \in {Close(x, c), Authenticated(x, c)}
    BY DEF ClientLogin
<1>4. ClientAuthorize(x, c, valid) \in {Close(x, c), [x EXCEPT !.conn[c].role = TRUE]}
    BY DEF ClientAuthorize
<1>5. ClientLogout(x, c) = Close(x, c)
    BY DEF ClientLogout, Close
<1> QED
    BY <1>1, <1>2, <1>3, <1>4, <1>5

(* The client at c may send a request with uuid r.                         *)
Asking(x, r, c) ==
    /\ r \in ClientReqs /\ Fresh(x, r) /\ x.up[c]
    /\ ~Pipelining => \A o \in x.owed : o[2] # c

(* Its request is stored.                                                  *)
LEMMA FitEntered ==
    ASSUME NEW w, NEW x, NEW r, NEW c \in Clients, NEW l \in Loops \cup {None},
           NEW want \in LoopStates \cup {None}, Fit(w, x, {}, {}), Asking(x, r, c)
    PROVE  LET z == AsyncSet(Owe(x, r, c), Entry(r, c, l, want)) IN
           /\ Fit(w, z, {}, {}) /\ ButStore(x, z)
           /\ \A e \in z.async : e.id = r => e.sock = c
<1> DEFINE e == Entry(r, c, l, want)
           z == AsyncSet(Owe(x, r, c), e)
<1>1. r \in Reqs
    BY DEF Asking, ClientReqs
<1>2. e \in Entries /\ e.id = r /\ e.sock = c
    BY <1>1, EntryType
<1> HIDE DEF e
<1>3. Fit(w, z, {}, {})
    BY <1>2, FitAsked DEF Asking
<1>4. Asked(x, z, e)
    BY <1>2, AskedFields DEF Fit, Sess
<1> HIDE DEF z
<1>5. \A g \in z.async : g.id = r => g.sock = c
    BY <1>2, <1>4 DEF Asked, Asking, Fresh
<1> QED
    BY <1>3, <1>4, <1>5 DEF Asked, z, e

(* A login by LDAP.                                                        *)
LEMMA FitLoginLdap ==
    ASSUME NEW w, NEW x, NEW r, NEW c \in Clients, Fit(w, x, {}, {}), Asking(x, r, c)
    PROVE  Fit(w, ClientLoginLdap(x, r, c), {}, {})
<1> DEFINE e == Entry(r, c, None, None)
           z == AsyncSet(Owe(x, r, c), e)
           D == x.ldap \cup {r}
<1>0. x \in VocsStates /\ r \in Reqs /\ D \in SUBSET Reqs
    BY VocsTyping DEF Fit, Sess, Asking, ClientReqs
<1>1. Fit(w, z, {}, {})
    BY FitEntered
<1>2. Fit(w, [z EXCEPT !.ldap = D], {}, {})
    BY <1>0, <1>1, FitMarked
<1>3. AsyncSet(Owe([x EXCEPT !.ldap = D], r, c), e) = [z EXCEPT !.ldap = D]
    BY <1>0 DEF AsyncSet, Owe, VocsStates
<1>4. ClientLoginLdap(x, r, c) \in {Close(x, c), AsyncSet(Owe([x EXCEPT !.ldap = D], r, c), e)}
    BY DEF ClientLoginLdap
<1>5. Fit(w, Close(x, c), {}, {})
    BY FitClose
<1> QED
    BY <1>2, <1>3, <1>4, <1>5

(* One request has one entry.                                              *)
LEMMA WaitsFound ==
    ASSUME NEW x, NEW iss, NEW mk, NEW r, Base(x, iss, mk), AsyncHas(x, r)
    PROVE  Waits(x, r, AsyncGet(x, r).sock) /\ AsyncGet(x, r).sock \in Clients
<1>1. x \in VocsStates /\ \A e, g \in x.async : e.id = g.id => e = g
    BY DEF Base, Stored
<1>2. AsyncGet(x, r) \in x.async /\ AsyncGet(x, r).id = r /\ AsyncGet(x, r).sock \in Clients
    BY <1>1, AsyncFound
<1> QED
    BY <1>1, <1>2 DEF Waits

(* The answer of LDAP.                                                     *)
LEMMA FitLdapAnswer ==
    ASSUME NEW w, NEW x, NEW iss, NEW mk, NEW r, NEW granted \in BOOLEAN, Base(x, iss, mk), Fit(w, x, {}, {})
    PROVE  Fit(w, LdapAuthentication(x, r, granted), {}, {})
<1> DEFINE a == AsyncUnset(x, r)
           D == a.ldap \ {r}
           y == [a EXCEPT !.ldap = D]
           c == AsyncGet(x, r).sock
           z == Respond(y, r, c)
           O == {} \cup {<<r, c>>}
<1>0. x \in VocsStates
    BY DEF Base
<1>1. LdapAuthentication(x, r, granted) =
        IF ~AsyncHas(x, r) THEN y ELSE IF granted THEN Authenticated(z, c) ELSE Close(y, c)
    BY DEF LdapAuthentication
<1>2. AsyncHas(x, r) => c \in Clients /\ Waits(x, r, c)
    BY WaitsFound
<1>3. a \in VocsStates /\ a.async = {e \in x.async : e.id # r}
    BY <1>0, TakenFields DEF Taken, ButStore
<1>4. y.async = a.async /\ D \in SUBSET Reqs
    BY <1>3, VocsTyping DEF VocsStates
<1>5. CASE ~AsyncHas(x, r)
  <2>1. Waits(x, r, c)
    BY <1>5 DEF AsyncHas, Waits
  <2>2. Fit(w, a, {}, {})
    BY <1>5, <2>1, FitTaken
  <2> HIDE DEF a, D
  <2>3. Fit(w, y, {}, {})
    BY <1>4, <2>2, FitMarked
  <2> QED
    BY <1>1, <1>5, <2>3
<1>6. CASE AsyncHas(x, r)
  <2>1. Fit(w, a, {}, O)
    BY <1>2, <1>6, FitTaken
  <2> HIDE DEF a, c, D, O
  <2>2. Fit(w, y, {}, O)
    BY <1>4, <2>1, FitMarked
  <2>3. \A e \in y.async : e.id # r
    BY <1>3, <1>4
  <2> HIDE DEF y
  <2>4. Fit(w, z, {}, O \ {<<r, c>>})
    BY <2>2, <2>3, FitResponded
  <2>5. O = {<<r, c>>} /\ O \ {<<r, c>>} = {}
    BY DEF O
  <2> HIDE DEF z
  <2>6. Fit(w, Authenticated(z, c), {}, {})
    BY <1>2, <1>6, <2>4, <2>5, FitMarked
  <2>7. Fit(w, Close(y, c), {}, {})
    BY <1>2, <1>6, <2>2, <2>5, FitCloseTaken
  <2> QED
    BY <1>1, <1>6, <2>6, <2>7
<1> QED
    BY <1>5, <1>6

(* A request for a session: the first of its connection.                   *)
LEMMA FitMedia ==
    ASSUME NEW w, NEW x, NEW iss, NEW mk, NEW r \in iss, NEW c \in Clients, Base(x, iss, mk),
           Fit(w, x, {}, {}), Asking(x, r, c), NoMedia(x, c)
    PROVE  Fit(w, ClientMedia(x, r, c), {}, {})
<1> DEFINE e == Entry(r, c, None, None)
           m == FE!ProxyMessage("create", r, None, None)
           f == FE!CreateSession(x.fe, r)
           z == AsyncSet(Owe(x, r, c), e)
<1>0. x \in VocsStates /\ x.fe \in FE!FrontendStates /\ r \in Reqs /\ Sess(x)
    BY VocsTyping DEF Fit, Sess, Asking, ClientReqs
<1>1. CASE ~x.conn[c].user \/ ~FE!ProxyAvailable(x.fe)
  <2>1. ClientMedia(x, r, c) = Close(x, c)
    BY <1>1 DEF ClientMedia
  <2> QED
    BY <2>1, FitClose
<1>2. CASE ~(~x.conn[c].user \/ ~FE!ProxyAvailable(x.fe))
  <2>1. ClientMedia(x, r, c) = AsyncSet(Owe([x EXCEPT !.fe = f], r, c), e)
    BY <1>2 DEF ClientMedia
  <2>2. ClientMedia(x, r, c) = [z EXCEPT !.fe = f] /\ z.fe = x.fe
    BY <1>0, <2>1, StoredBefore
  <2>3. Sess([z EXCEPT !.fe = f])
    BY <1>0, <2>2, SessMedia DEF Asking
  <2>4. Fit(w, z, {}, {})
    BY FitEntered
  <2>5. m \in FE!ProxyMessages /\ m.op = "create"
    BY <1>0 DEF FE!FrontendOps, FE!ProxyMessages, FE!ProxyMessage
  <2>6. PICK p \in Proxies : /\ x.fe.open[p] /\ f \in FE!FrontendStates /\ OtherwiseSame(x.fe, f)
                             /\ f.wire = [x.fe.wire EXCEPT ![p] = Append(x.fe.wire[p], m)]
    BY <1>0, <1>2, CreateSessionFields
  <2> HIDE DEF z, f, m, e
  <2>7. /\ \A q \in Proxies : In(x.fe.wire[q]) \subseteq In(f.wire[q])
        /\ \A q \in Proxies : \A n \in In(f.wire[q]) : n \in In(x.fe.wire[q]) \/ (n = m /\ q = p)
    <3>1. x.fe.wire \in [Proxies -> Seq(FE!ProxyMessages)] /\ x.fe.wire[p] \in Seq(FE!ProxyMessages)
      BY <1>0, FrontendTyping
    <3>2. In(Append(x.fe.wire[p], m)) = In(x.fe.wire[p]) \cup {m}
      BY <2>5, <3>1, QueueFacts
    <3>3. \A q \in Proxies : f.wire[q] = IF q = p THEN Append(x.fe.wire[p], m) ELSE x.fe.wire[q]
      BY <2>6, <3>1
    <3> QED
      BY <3>2, <3>3
  <2>8. Sends(z.fe, f)
    BY <2>2, <2>5, <2>6, <2>7 DEF Sends
  <2>9. TalkFits(z, m) /\ m.op # "candidate"
    BY <2>5 DEF TalkFits, TalkOps
  <2>10. \A q \in Proxies : \A n \in In(f.wire[q]) : n \in In(z.fe.wire[q])
               \/ (TalkFits(z, n) /\ (n.op = "candidate" => "candidate" \in Signals))
    BY <2>2, <2>7, <2>9
  <2>11. Fit(w, [z EXCEPT !.fe = f], {}, {})
    BY <2>3, <2>4, <2>6, <2>8, <2>10, FitFrontend
  <2> QED
    BY <2>2, <2>11
<1> QED
    BY <1>1, <1>2

(* What a client sends for ICE.                                            *)
LEMMA FitSignal ==
    ASSUME NEW w, NEW x, NEW r, NEW c \in Clients, Fit(w, x, {}, {}), Asking(x, r, c)
    PROVE  /\ Fit(w, ClientUpdate(x, r, c), {}, {})
           /\ "candidate" \in Signals => Fit(w, ClientCandidate(x, r, c), {}, {})
<1>0. x \in VocsStates /\ x.fe \in FE!FrontendStates /\ r \in Reqs /\ Sess(x)
    BY VocsTyping DEF Fit, Sess, Asking, ClientReqs
<1>1. CASE ~MaySignal(x, c)
  <2>1. ClientUpdate(x, r, c) = Close(x, c) /\ ClientCandidate(x, r, c) = Close(x, c)
    BY <1>1 DEF ClientUpdate, ClientCandidate
  <2> QED
    BY <2>1, FitClose
<1>2. CASE MaySignal(x, c)
  <2> DEFINE S == x.conn[c].session
             e == Entry(r, c, None, None)
             z == AsyncSet(Owe(x, r, c), e)
             u == FE!UpdateSession(x.fe, r, S)
             k == FE!Candidate(x.fe, r, S)
             m == FE!ProxyMessage("update", r, S, None)
             n == FE!ProxyMessage("candidate", r, S, None)
  <2>1. S \in Users
    BY <1>0, <1>2, VocsTyping DEF MaySignal, Conns
  <2>2. /\ ClientUpdate(x, r, c) = AsyncSet(Owe([x EXCEPT !.fe = u], r, c), e)
        /\ ClientCandidate(x, r, c) = AsyncSet(Owe([x EXCEPT !.fe = k], r, c), e)
    BY <1>2 DEF ClientUpdate, ClientCandidate
  <2>3. /\ ClientUpdate(x, r, c) = [z EXCEPT !.fe = u] /\ ClientCandidate(x, r, c) = [z EXCEPT !.fe = k]
        /\ z.fe = x.fe
    BY <1>0, <2>2, StoredBefore
  <2>4. Fit(w, z, {}, {})
    BY FitEntered
  <2> HIDE DEF S
  <2>5. /\ m \in FE!ProxyMessages /\ m.op = "update" /\ m.session = S
        /\ n \in FE!ProxyMessages /\ n.op = "candidate" /\ n.session = S
    BY <1>0, <2>1 DEF FE!FrontendOps, FE!ProxyMessages, FE!ProxyMessage
  <2>6. SentHome(z.fe, u, S, m) /\ SentHome(z.fe, k, S, n)
    BY <1>0, <2>1, <2>3, SignalFields
  <2> HIDE DEF e, m, n, u, k, z
  <2>7. TalkFits(z, m) /\ TalkFits(z, n)
    BY <2>5 DEF TalkFits, TalkOps
  <2>8. Fit(w, [z EXCEPT !.fe = u], {}, {})
    BY <2>4, <2>5, <2>6, <2>7, FitHome
  <2>9. "candidate" \in Signals => Fit(w, [z EXCEPT !.fe = k], {}, {})
    BY <2>4, <2>5, <2>6, <2>7, FitHome
  <2> QED
    BY <2>3, <2>8, <2>9
<1> QED
    BY <1>1, <1>2

(* perform_switch_loop_request on behalf of the owner of session S.        *)
LEMMA FitPerform ==
    ASSUME NEW w, NEW x, NEW O, NEW r \in Reqs, NEW S \in Users, NEW l \in Loops,
           NEW current \in LoopStates, NEW want \in LoopStates, current # want, Fit(w, x, {}, O), Owns(x, r, S),
           \A e \in x.async : e.id = r /\ ~Pipelining /\ current # "none" => x.conn[e.sock].loops[l] # "none"
    PROVE  Fit(w, PerformSwitch(x, r, S, l, current, want), {}, O)
<1> DEFINE y == PerformSwitch(x, r, S, l, current, want)
<1>0. "join" \in LoopOps /\ "leave" \in LoopOps
    BY DEF LoopOps
<1>1. ASSUME current # "none", NEW on \in BOOLEAN
      PROVE  Fit(w, [x EXCEPT !.fe = FE!Talk(x.fe, r, S, on, l)], {}, O)
  <2>1. \A e \in x.async : e.id = r /\ ~Pipelining => x.conn[e.sock].loops[l] # "none"
    BY <1>1
  <2> QED
    BY <2>1, FitTalkSent
<1>2. CASE current = "none"
  <2>1. y = [x EXCEPT !.be = LoopRequest(x.be, "join", r, S, l)]
    BY <1>2 DEF PerformSwitch
  <2> QED
    BY <1>0, <2>1, FitLoopSent
<1>3. CASE current = "recv" /\ want = "none"
  <2>1. y = [x EXCEPT !.be = LoopRequest(x.be, "leave", r, S, l)]
    BY <1>3 DEF PerformSwitch
  <2> QED
    BY <1>0, <2>1, FitLoopSent
<1>4. CASE current = "recv" /\ want = "send"
  <2>1. y = [x EXCEPT !.fe = FE!Talk(x.fe, r, S, TRUE, l)]
    BY <1>4 DEF PerformSwitch
  <2> QED
    BY <1>4, <1>1, <2>1
<1>5. CASE current = "send"
  <2>1. y = [x EXCEPT !.fe = FE!Talk(x.fe, r, S, FALSE, l)]
    BY <1>5 DEF PerformSwitch
  <2> QED
    BY <1>5, <1>1, <2>1
<1> QED
    BY <1>2, <1>3, <1>4, <1>5 DEF LoopStates

(* It does not matter whether the request is stored before or after it.    *)
LEMMA PerformStored ==
    ASSUME NEW x \in VocsStates, NEW e, NEW r, NEW c, NEW S, NEW l, NEW current \in LoopStates,
           NEW want \in LoopStates, current # want
    PROVE  AsyncSet(Owe(PerformSwitch(x, r, S, l, current, want), r, c), e) =
             PerformSwitch(AsyncSet(Owe(x, r, c), e), r, S, l, current, want)
<1> DEFINE z == AsyncSet(Owe(x, r, c), e)
<1>0. /\ \A b : AsyncSet(Owe([x EXCEPT !.be = b], r, c), e) = [z EXCEPT !.be = b]
      /\ \A f : AsyncSet(Owe([x EXCEPT !.fe = f], r, c), e) = [z EXCEPT !.fe = f]
      /\ z.be = x.be /\ z.fe = x.fe
    BY StoredBefore
<1> HIDE DEF z
<1>1. CASE current = "none"
  <2>1. /\ PerformSwitch(x, r, S, l, current, want) = [x EXCEPT !.be = LoopRequest(x.be, "join", r, S, l)]
        /\ PerformSwitch(z, r, S, l, current, want) = [z EXCEPT !.be = LoopRequest(z.be, "join", r, S, l)]
    BY <1>1 DEF PerformSwitch
  <2> QED
    BY <1>0, <2>1 DEF z
<1>2. CASE current = "recv" /\ want = "none"
  <2>1. /\ PerformSwitch(x, r, S, l, current, want) = [x EXCEPT !.be = LoopRequest(x.be, "leave", r, S, l)]
        /\ PerformSwitch(z, r, S, l, current, want) = [z EXCEPT !.be = LoopRequest(z.be, "leave", r, S, l)]
    BY <1>2 DEF PerformSwitch
  <2> QED
    BY <1>0, <2>1 DEF z
<1>3. CASE current = "recv" /\ want = "send"
  <2>1. /\ PerformSwitch(x, r, S, l, current, want) = [x EXCEPT !.fe = FE!Talk(x.fe, r, S, TRUE, l)]
        /\ PerformSwitch(z, r, S, l, current, want) = [z EXCEPT !.fe = FE!Talk(z.fe, r, S, TRUE, l)]
    BY <1>3 DEF PerformSwitch
  <2> QED
    BY <1>0, <2>1 DEF z
<1>4. CASE current = "send"
  <2>1. /\ PerformSwitch(x, r, S, l, current, want) = [x EXCEPT !.fe = FE!Talk(x.fe, r, S, FALSE, l)]
        /\ PerformSwitch(z, r, S, l, current, want) = [z EXCEPT !.fe = FE!Talk(z.fe, r, S, FALSE, l)]
    BY <1>4 DEF PerformSwitch
  <2> QED
    BY <1>0, <2>1 DEF z
<1> QED
    BY <1>1, <1>2, <1>3, <1>4 DEF LoopStates

(* A request for another state of a loop, for another volume.              *)
LEMMA FitSwitch ==
    ASSUME NEW w, NEW x, NEW r, NEW c \in Clients, NEW l \in Loops, NEW want \in LoopStates,
           Fit(w, x, {}, {}), Asking(x, r, c)
    PROVE  /\ Fit(w, ClientSwitchLoopState(x, r, c, l, want), {}, {})
           /\ Fit(w, ClientSwitchLoopVolume(x, r, c, l), {}, {})
<1> DEFINE d == x.conn[c]
           S == d.session
           cur == d.loops[l]
           y == PerformSwitch(x, r, S, l, cur, want)
           u == [x EXCEPT !.be = LoopRequest(x.be, "volume", r, S, l)]
           e == Entry(r, c, l, want)
           g == Entry(r, c, l, None)
           a == AsyncSet(Owe(x, r, c), e)
           b == AsyncSet(Owe(x, r, c), g)
<1>0. x \in VocsStates /\ r \in Reqs /\ d \in Conns /\ Bound(x)
    BY VocsTyping DEF Fit, Sess, Asking, ClientReqs
<1>1. S \in Users \cup {None} /\ cur \in LoopStates
    BY <1>0 DEF Conns
<1>2. /\ Fit(w, a, {}, {}) /\ ButStore(x, a) /\ \A h \in a.async : h.id = r => h.sock = c
      /\ Fit(w, b, {}, {}) /\ ButStore(x, b) /\ \A h \in b.async : h.id = r => h.sock = c
    BY FitEntered
<1>3. Fit(w, Close(x, c), {}, {}) /\ \A h \in x.async : h.id # r
    BY FitClose DEF Asking, Fresh
<1>4. /\ ClientSwitchLoopState(x, r, c, l, want) \in
           IF S # None /\ cur # want THEN {Close(x, c), Close(y, c), AsyncSet(Owe(y, r, c), e)}
           ELSE {x, Close(x, c)}
      /\ ClientSwitchLoopVolume(x, r, c, l) \in
           IF S # None THEN {Close(x, c), Close(u, c), AsyncSet(Owe(u, r, c), g)} ELSE {Close(x, c)}
    BY DEF ClientSwitchLoopState, ClientSwitchLoopVolume, MaySwitch
<1>5. cur # want => AsyncSet(Owe(y, r, c), e) = PerformSwitch(a, r, S, l, cur, want)
    BY <1>0, <1>1, PerformStored
<1>6. AsyncSet(Owe(u, r, c), g) = [b EXCEPT !.be = LoopRequest(b.be, "volume", r, S, l)]
    BY <1>0, StoredBefore
<1>7. S \in Users => x.sess[S] = c
    BY <1>0 DEF Bound
<1> HIDE DEF S, e, g, a, b
<1>8. S \in Users => Owns(x, r, S) /\ Owns(a, r, S) /\ Owns(b, r, S)
    BY <1>2, <1>3, <1>7 DEF Owns, ButStore
<1>9. \A h \in a.async : h.id = r /\ ~Pipelining /\ cur # "none" => a.conn[h.sock].loops[l] # "none"
    BY <1>2 DEF ButStore
<1>10. \A h \in x.async : h.id = r /\ ~Pipelining /\ cur # "none" => x.conn[h.sock].loops[l] # "none"
    BY <1>3
<1>11. ASSUME S \in Users
       PROVE  /\ cur # want => Fit(w, Close(y, c), {}, {}) /\ Fit(w, AsyncSet(Owe(y, r, c), e), {}, {})
              /\ Fit(w, Close(u, c), {}, {}) /\ Fit(w, AsyncSet(Owe(u, r, c), g), {}, {})
  <2> HIDE DEF cur
  <2>1. "volume" \in LoopOps
    BY DEF LoopOps
  <2>2. cur # want => Fit(w, y, {}, {})
    BY <1>0, <1>1, <1>8, <1>10, <1>11, FitPerform
  <2>3. cur # want => Fit(w, AsyncSet(Owe(y, r, c), e), {}, {})
    BY <1>0, <1>1, <1>2, <1>5, <1>8, <1>9, <1>11, FitPerform
  <2>4. Fit(w, u, {}, {})
    BY <1>0, <1>8, <1>11, <2>1, FitLoopSent
  <2>5. Fit(w, AsyncSet(Owe(u, r, c), g), {}, {})
    BY <1>0, <1>2, <1>6, <1>8, <1>11, <2>1, FitLoopSent
  <2> HIDE DEF y, u
  <2> QED
    BY <2>2, <2>3, <2>4, <2>5, FitClose
<1> HIDE DEF y, u, cur
<1>12. Fit(w, ClientSwitchLoopState(x, r, c, l, want), {}, {})
    BY <1>1, <1>3, <1>4, <1>11
<1>13. Fit(w, ClientSwitchLoopVolume(x, r, c, l), {}, {})
    BY <1>1, <1>3, <1>4, <1>11
<1> QED
    BY <1>12, <1>13

-----------------------------------------------------------------------------
(* What mixers say.                                                        *)

(* The slot of s is given up, and maybe its session is forgotten; X are    *)
(* the connections that are left without the mixer they were asked for.    *)
Vacated(x, g, s, X) ==
    /\ \A t \in Sockets : t # s => g.slot[t] = x.be.slot[t]
    /\ g.slot[s] \notin Users
    /\ \A T \in Users : g.users[T] = x.be.users[T]
                        \/ (g.users[T] = NoSlot /\ x.be.slot[s] = T /\ ~x.conn[x.sess[T]].mixer)
    /\ \A t \in Sockets : In(g.wire[t]) \subseteq In(x.be.wire[t])
    /\ \A m \in In(g.wire[s]) : m.op = "acquire" => m.user # x.be.slot[s]
    /\ \A T \in Users : x.be.slot[s] = T => x.sess[T] \in X \/ (In(g.wire[s]) = {} /\ g.users[T] = NoSlot)

(* The slots that remain.                                                  *)
LEMMA VacatedSlots ==
    ASSUME NEW x, NEW y, NEW s \in Sockets, NEW X, Sess(x), Slots(x, {}), ButBe(x, y), Vacated(x, y.be, s, X),
           y.be \in BackendStates
    PROVE  Slots(y, X)
<1>0. x \in VocsStates /\ Bound(x)
    BY DEF Sess
<1>1. /\ x.be.users \in [Users -> Sockets \cup {NoSlot}] /\ NoSlot \notin Sockets
      /\ x.conn \in [Clients -> Conns] /\ y.be.users \in [Users -> Sockets \cup {NoSlot}]
    BY <1>0, VocsTyping, BackendTyping
<1>2. y.sess = x.sess /\ y.conn = x.conn
    BY DEF ButBe
<1>3. ASSUME NEW t \in Sockets, NEW T \in Users, y.be.slot[t] = T
      PROVE  y.be.users[T] = t /\ y.sess[T] # NoSocket
  <2>1. t # s /\ x.be.slot[t] = T
    BY <1>3 DEF Vacated
  <2>2. x.be.users[T] = t /\ x.sess[T] # NoSocket
    BY <2>1 DEF Slots
  <2>3. x.be.slot[s] # T
    BY <2>1, <2>2 DEF Slots
  <2> QED
    BY <1>2, <2>2, <2>3 DEF Vacated
<1>4. ASSUME NEW T \in Users, y.sess[T] \notin X \cup {NoSocket}
      PROVE  y.be.users[T] = NoSlot \/ y.be.slot[y.be.users[T]] = T
  <2>1. x.be.users[T] = NoSlot \/ x.be.slot[x.be.users[T]] = T
    BY <1>2, <1>4 DEF Slots
  <2>2. CASE y.be.users[T] = NoSlot
    BY <2>2
  <2>3. CASE y.be.users[T] # NoSlot
    <3>1. y.be.users[T] = x.be.users[T] /\ x.be.users[T] \in Sockets
      BY <1>1, <2>3 DEF Vacated
    <3>2. x.be.slot[s] # T
      BY <1>2, <1>4, <2>3 DEF Vacated
    <3> QED
      BY <2>1, <2>3, <3>1, <3>2 DEF Vacated
  <2> QED
    BY <2>2, <2>3
<1>5. ASSUME NEW c \in Clients, c \notin X, y.conn[c].mixer
      PROVE  y.be.users[y.conn[c].session] # NoSlot
  <2> DEFINE S == x.conn[c].session
  <2>1. S # None /\ x.conn[c] \in Conns /\ x.conn[c].mixer
    BY <1>1, <1>2, <1>5 DEF Sess, MediaTold
  <2>2. S \in Users
    BY <2>1 DEF Conns
  <2>3. x.sess[S] = c
    BY <1>0, <2>2 DEF Bound
  <2>4. x.be.users[S] # NoSlot
    BY <2>1 DEF Slots
  <2> HIDE DEF S
  <2>5. y.be.users[S] # NoSlot
    BY <2>1, <2>2, <2>3, <2>4 DEF Vacated
  <2> QED
    BY <1>2, <2>5 DEF S
<1> QED
    BY <1>3, <1>4, <1>5 DEF Slots

(* What is queued for them.                                                *)
LEMMA VacatedQueued ==
    ASSUME NEW x, NEW y, NEW s \in Sockets, NEW X, x \in VocsStates, Queued(x, {}), ButBe(x, y),
           Vacated(x, y.be, s, X)
    PROVE  Queued(y, X)
<1>1. x.be.wire \in [Sockets -> Seq(Messages)]
    BY VocsTyping, BackendTyping
<1>2. y.sess = x.sess /\ y.async = x.async
    BY DEF ButBe
<1> SUFFICES ASSUME NEW t \in Sockets, NEW m \in In(y.be.wire[t]) PROVE MixerFits(y, X, t, m)
    BY DEF Queued
<1>3. m \in In(x.be.wire[t])
    BY DEF Vacated
<1>4. m \in Messages
    BY <1>1, <1>3, QueueFacts
<1>5. m.user \in Users /\ MixerFits(x, {}, t, m)
    BY <1>3, <1>4 DEF Messages, Queued
<1>6. Over(x, m.user) => Over(y, m.user)
    BY <1>2, <1>5 DEF Over, Vacated
<1>7. m.op = "acquire" => y.be.slot[t] = m.user \/ Over(y, m.user)
    BY <1>5, <1>6 DEF MixerFits, Vacated
<1>8. m.op = "release" => Over(y, m.user)
    BY <1>5, <1>6 DEF MixerFits
<1>9. ASSUME m.op \in LoopOps, NEW e \in y.async, e.id = m.id, e.sock \notin X
      PROVE  y.be.slot[t] = m.user /\ y.sess[m.user] = e.sock
  <2>1. x.be.slot[t] = m.user /\ x.sess[m.user] = e.sock
    BY <1>2, <1>5, <1>9 DEF MixerFits
  <2>2. t # s
    BY <1>5, <1>9, <2>1 DEF Vacated
  <2> QED
    BY <1>2, <2>1, <2>2 DEF Vacated
<1> QED
    BY <1>7, <1>8, <1>9 DEF MixerFits

(* The whole step of the backend.                                          *)
LEMMA FitVacated ==
    ASSUME NEW w, NEW x, NEW O, NEW s \in Sockets, NEW X, NEW g \in BackendStates, Fit(w, x, {}, O),
           Vacated(x, g, s, X)
    PROVE  LET y == [x EXCEPT !.be = g] IN Fit(w, y, X, O) /\ y.be = g /\ ButBe(x, y)
<1> DEFINE y == [x EXCEPT !.be = g]
<1>0. x \in VocsStates /\ Sess(x) /\ Lease(x, {}) /\ Watch(x, O) /\ Onward(w, x)
    BY DEF Fit, Sess
<1>1. NoNewAcquire(x.be.wire, g.wire)
    BY DEF NoNewAcquire, Vacated
<1>2. Sess(y) /\ y.be = g /\ ButBe(x, y)
    BY <1>0, <1>1, SessBe
<1>3. Onward(w, y)
    BY <1>0, OnSteps
<1> HIDE DEF y
<1>4. Slots(y, X)
    BY <1>0, <1>2, VacatedSlots DEF Lease
<1>5. Queued(y, X)
    BY <1>0, <1>2, VacatedQueued DEF Lease
<1>6. OpenOnly(y) /\ Told(y) /\ (~Pipelining => Single(y) /\ Listed(y))
    BY <1>0, <1>2 DEF Lease, ButBe, OpenOnly, Told, TalkFits, Single, Listed
<1>7. Watch(y, O)
    BY <1>0, <1>2 DEF Watch, ButBe
<1> QED
    BY <1>2, <1>3, <1>4, <1>5, <1>6, <1>7 DEF Fit, Lease, y

(* The session that was in the slot is told.                               *)
LEMMA FitSlotLost ==
    ASSUME NEW w, NEW y, NEW X, NEW lost \in SUBSET Users, Fit(w, y, X, {}), lost = {} => X = {},
           \A T \in lost : /\ X = {y.sess[T]} /\ y.sess[T] # NoSocket
                           /\ \A t \in Sockets : y.be.slot[t] # T
    PROVE  Fit(w, SlotLost(y, lost), {}, {})
<1>1. CASE lost = {}
    BY <1>1 DEF SlotLost
<1>2. CASE lost # {}
  <2> DEFINE T == CHOOSE u \in lost : TRUE
             c == SocketOf(y, T)
  <2>1. T \in lost /\ T \in Users
    BY <1>2
  <2>2. SlotLost(y, lost) = DropConnection(y, c, TRUE, FALSE)
    BY <1>2 DEF SlotLost, MixerLost
  <2> HIDE DEF T
  <2>3. X = {y.sess[T]} /\ y.sess[T] # NoSocket /\ \A t \in Sockets : y.be.slot[t] # T
    BY <2>1
  <2>4. Sess(y)
    BY DEF Fit
  <2>5. T # None
    BY <2>1, NoneAssumption
  <2>6. c = y.sess[T]
    BY <2>5 DEF SocketOf
  <2>7. c \in Clients /\ y.conn[c].session = T
    BY <2>1, <2>3, <2>4, <2>6, SocketBound
  <2> HIDE DEF c
  <2> DEFINE O == {}
  <2>8. X \subseteq {c} /\ Fit(w, y, X, O) /\ \A o \in O : o[2] = c
    BY <2>3, <2>6
  <2> HIDE DEF O
  <2>9. Fit(w, DropConnection(y, c, TRUE, FALSE), {}, {})
    BY <2>3, <2>7, <2>8, FitDrop
  <2> QED
    BY <2>2, <2>9
<1> QED
    BY <1>1, <1>2

(* The connections of the session in the slot of s.                        *)
Bereft(x, s) == {x.sess[T] : T \in LostUser(x.be, s)}

(* The mixer at s is gone, with all that was queued for it.                *)
LEMMA FitGone ==
    ASSUME NEW w, NEW x, NEW s \in Sockets, NEW g \in BackendStates, Fit(w, x, {}, {}),
           g.slot = [x.be.slot EXCEPT ![s] = Closed], g.users = x.be.users,
           g.wire = [x.be.wire EXCEPT ![s] = <<>>]
    PROVE  Fit(w, SlotLost([x EXCEPT !.be = g], LostUser(x.be, s)), {}, {})
<1> DEFINE y == [x EXCEPT !.be = g]
           X == Bereft(x, s)
           lost == LostUser(x.be, s)
<1>0. x \in VocsStates /\ Slots(x, {})
    BY DEF Fit, Sess, Lease
<1>1. /\ x.be.slot \in [Sockets -> Users \cup {Closed, Free}] /\ x.be.wire \in [Sockets -> Seq(Messages)]
      /\ Closed \notin Users
    BY <1>0, VocsTyping, BackendTyping
<1>2. In(g.wire[s]) = {} /\ \A t \in Sockets : In(g.wire[t]) \subseteq In(x.be.wire[t])
    BY <1>1, EmptyQueue
<1>3. g.slot[s] = Closed /\ \A t \in Sockets : t # s => g.slot[t] = x.be.slot[t]
    BY <1>1
<1>4. Vacated(x, g, s, X)
    BY <1>1, <1>2, <1>3 DEF Vacated, Bereft, LostUser
<1> HIDE DEF X
<1>5. Fit(w, y, X, {}) /\ y.be = g /\ ButBe(x, y)
    BY <1>4, FitVacated
<1> HIDE DEF y
<1>6. lost = {} => X = {}
    BY DEF X, Bereft
<1>7. ASSUME NEW T \in lost
      PROVE  X = {y.sess[T]} /\ y.sess[T] # NoSocket /\ \A t \in Sockets : y.be.slot[t] # T
  <2>1. T \in Users /\ x.be.slot[s] = T /\ lost = {T}
    BY DEF LostUser
  <2>2. x.be.users[T] = s /\ x.sess[T] # NoSocket
    BY <1>0, <2>1 DEF Slots
  <2>3. X = {x.sess[T]}
    BY <2>1 DEF X, Bereft
  <2>4. \A t \in Sockets : g.slot[t] # T
    BY <1>0, <1>1, <1>3, <2>1, <2>2 DEF Slots
  <2> QED
    BY <1>5, <2>2, <2>3, <2>4 DEF ButBe
<1>8. lost \in SUBSET Users
    BY DEF LostUser
<1> HIDE DEF lost
<1>9. Fit(w, SlotLost(y, lost), {}, {})
    BY <1>5, <1>6, <1>7, <1>8, FitSlotLost
<1> QED
    BY <1>9 DEF y, lost

(* Mixers that connect and disconnect.                                     *)
LEMMA FitMixerConnection ==
    ASSUME NEW w, NEW x, NEW s \in Sockets, Fit(w, x, {}, {})
    PROVE  /\ x.be.slot[s] = Closed => Fit(w, [x EXCEPT !.be = CbEventRegister(x.be, s)], {}, {})
           /\ Fit(w, OnMixerClose(x, s), {}, {})
<1>0. x \in VocsStates /\ x.be \in BackendStates
    BY VocsTyping DEF Fit, Sess
<1>1. /\ x.be.slot \in [Sockets -> Users \cup {Closed, Free}] /\ x.be.wire \in [Sockets -> Seq(Messages)]
      /\ Closed \notin Users /\ Free \notin Users
    BY <1>0, BackendTyping
<1>2. ASSUME x.be.slot[s] = Closed PROVE Fit(w, [x EXCEPT !.be = CbEventRegister(x.be, s)], {}, {})
  <2> DEFINE g == CbEventRegister(x.be, s)
  <2>1. /\ g \in BackendStates /\ g.slot = [x.be.slot EXCEPT ![s] = Free] /\ g.users = x.be.users
        /\ g.wire = [x.be.wire EXCEPT ![s] = <<>>]
    BY <1>0, RegisterFields
  <2> HIDE DEF g
  <2>2. In(g.wire[s]) = {} /\ \A t \in Sockets : In(g.wire[t]) \subseteq In(x.be.wire[t])
    BY <1>1, <2>1, EmptyQueue
  <2>3. g.slot[s] = Free /\ \A t \in Sockets : t # s => g.slot[t] = x.be.slot[t]
    BY <1>1, <2>1
  <2>4. Vacated(x, g, s, {})
    BY <1>1, <1>2, <2>1, <2>2, <2>3 DEF Vacated
  <2>5. Fit(w, [x EXCEPT !.be = g], {}, {})
    BY <2>1, <2>4, FitVacated
  <2> QED
    BY <2>5 DEF g
<1>3. Fit(w, OnMixerClose(x, s), {}, {})
  <2> DEFINE g == CloseMixer(x.be, s)
  <2>1. /\ g \in BackendStates /\ g.slot = [x.be.slot EXCEPT ![s] = Closed] /\ g.users = x.be.users
        /\ g.wire = [x.be.wire EXCEPT ![s] = <<>>]
    BY <1>0, CloseMixerFields
  <2>2. OnMixerClose(x, s) = SlotLost([x EXCEPT !.be = g], LostUser(x.be, s))
    BY DEF OnMixerClose
  <2> HIDE DEF g
  <2>3. Fit(w, SlotLost([x EXCEPT !.be = g], LostUser(x.be, s)), {}, {})
    BY <2>1, FitGone
  <2> QED
    BY <2>2, <2>3
<1> QED
    BY <1>2, <1>3

(* A callback that expires.                                                *)
LEMMA FitCallback ==
    ASSUME NEW w, NEW x, NEW r \in Reqs, Fit(w, x, {}, {})
    PROVE  Fit(w, [x EXCEPT !.be = UnregisterCallback(x.be, r)], {}, {})
<1> DEFINE g == UnregisterCallback(x.be, r)
<1>0. x.be \in BackendStates
    BY VocsTyping DEF Fit, Sess
<1>1. g \in BackendStates /\ g.slot = x.be.slot /\ g.users = x.be.users /\ g.wire = x.be.wire
    BY <1>0, CallbackFields
<1> HIDE DEF g
<1>2. NoNewAcquire(x.be.wire, g.wire)
    BY <1>1, NothingNew
<1>3. Fit(w, [x EXCEPT !.be = g], {}, {})
    BY <1>1, <1>2, FitBackend
<1> QED
    BY <1>3 DEF g

(* A session that is not in the dictionary gives nothing back.             *)
LEMMA NothingReleased ==
    ASSUME NEW b \in BackendStates, NEW u \in Users, b.users[u] = NoSlot
    PROVE  Emptied(b, u) = b.slot /\ [b.users EXCEPT ![u] = NoSlot] = b.users
    BY BackendTyping DEF Emptied

(* What is known of the answer at the head of a mixer's connection.        *)
LEMMA HeadFits ==
    ASSUME NEW w, NEW x, NEW s \in Sockets, NEW code, Fit(w, x, {}, {}), x.be.wire[s] # <<>>
    PROVE  LET m == Head(x.be.wire[s]) IN
           /\ x.be \in BackendStates /\ AnswerHandled(x.be, s, code) /\ MixerFits(x, {}, s, m)
           /\ m \in Messages /\ m.user \in Users /\ m \in In(x.be.wire[s])
           /\ In(Tail(x.be.wire[s])) \subseteq In(x.be.wire[s])
<1>0. x \in VocsStates /\ x.be \in BackendStates /\ Queued(x, {})
    BY VocsTyping DEF Fit, Sess, Lease
<1>1. x.be.wire[s] \in Seq(Messages)
    BY <1>0, BackendTyping
<1>2. /\ Head(x.be.wire[s]) \in Messages /\ Head(x.be.wire[s]) \in In(x.be.wire[s])
      /\ In(Tail(x.be.wire[s])) \subseteq In(x.be.wire[s])
    BY <1>1, QueueFacts
<1>3. AnswerHandled(x.be, s, code)
    BY <1>0, HandleAnswerFields
<1>4. MixerFits(x, {}, s, Head(x.be.wire[s]))
    BY <1>0, <1>2 DEF Queued
<1>5. Head(x.be.wire[s]).user \in Users
    BY <1>2 DEF Messages
<1> QED
    BY <1>0, <1>2, <1>3, <1>4, <1>5

(* An answer that leaves the slots as they are: all but the refusal of a   *)
(* mixer, as a session that is released has none any more.                 *)
LEMMA FitHeard ==
    ASSUME NEW w, NEW x, NEW s \in Sockets, NEW code, Fit(w, x, {}, {}), x.be.wire[s] # <<>>,
           ~ForcesReconnect(x.be, s),
           Head(x.be.wire[s]).op = "acquire" /\ code = "error" => Over(x, Head(x.be.wire[s]).user)
    PROVE  LET y == [x EXCEPT !.be = HandleAnswer(x.be, s, code)] IN
           /\ Fit(w, y, {}, {}) /\ SameSlots(x, y) /\ ButBe(x, y)
           /\ MixerFits(y, {}, s, Head(x.be.wire[s])) /\ Head(x.be.wire[s]).user \in Users
<1> DEFINE m == Head(x.be.wire[s])
           g == HandleAnswer(x.be, s, code)
           y == [x EXCEPT !.be = g]
<1>1. /\ x.be \in BackendStates /\ AnswerHandled(x.be, s, code) /\ MixerFits(x, {}, s, m)
      /\ m \in Messages /\ m.user \in Users /\ In(Tail(x.be.wire[s])) \subseteq In(x.be.wire[s])
    BY HeadFits
<1>2. AnswerReleases(m, code) => x.be.users[m.user] = NoSlot
    BY <1>1 DEF AnswerReleases, MixerFits, Over
<1>3. /\ g \in BackendStates /\ g.slot = SlotAfter(x.be, s, code)
      /\ g.users = IF AnswerReleases(m, code) THEN [x.be.users EXCEPT ![m.user] = NoSlot] ELSE x.be.users
      /\ g.wire = [x.be.wire EXCEPT ![s] = Tail(x.be.wire[s])]
    BY <1>1 DEF AnswerHandled
<1>4. SlotAfter(x.be, s, code) = IF AnswerReleases(m, code) THEN Emptied(x.be, m.user) ELSE x.be.slot
    BY DEF SlotAfter
<1> HIDE DEF g, m
<1>5. g.slot = x.be.slot /\ g.users = x.be.users
    BY <1>1, <1>2, <1>3, <1>4, NothingReleased
<1>6. x.be.wire \in [Sockets -> Seq(Messages)]
    BY <1>1, BackendTyping
<1>7. \A t \in Sockets : In(g.wire[t]) \subseteq In(x.be.wire[t])
    BY <1>1, <1>3, <1>6
<1>8. NoNewAcquire(x.be.wire, g.wire)
    BY <1>7 DEF NoNewAcquire
<1>9. Fit(w, y, {}, {}) /\ y.be = g /\ ButBe(x, y)
    BY <1>3, <1>5, <1>7, <1>8, FitBackend
<1> HIDE DEF y
<1>10. MixerFits(y, {}, s, m) /\ SameSlots(x, y)
    BY <1>1, <1>5, <1>9 DEF MixerFits, Over, ButBe, SameSlots
<1> QED
    BY <1>1, <1>9, <1>10 DEF y, g, m

(* A mixer is refused: its slot is free again.                             *)
LEMMA FitRefused ==
    ASSUME NEW w, NEW x, NEW s \in Sockets, NEW code, NEW S, Fit(w, x, {}, {}), x.be.wire[s] # <<>>,
           Head(x.be.wire[s]).op = "acquire", code = "error", S = Head(x.be.wire[s]).user, ~Over(x, S),
           NotAcquired(HandleAnswer(x.be, s, code).wire, S)
    PROVE  LET y == [x EXCEPT !.be = HandleAnswer(x.be, s, code)] IN
           /\ Fit(w, y, IF ForcesReconnect(x.be, s) THEN {} ELSE {x.sess[S]}, {}) /\ ButBe(x, y)
           /\ S \in Users /\ x.sess[S] # NoSocket /\ \A t \in Sockets : y.be.slot[t] # S
           /\ LostUser(AnswerRegistry(x.be, s, code), s) = {}
<1> DEFINE m == Head(x.be.wire[s])
           g == HandleAnswer(x.be, s, code)
           y == [x EXCEPT !.be = g]
           b == x.be
           X == IF ForcesReconnect(x.be, s) THEN {} ELSE {x.sess[S]}
<1>0. Sess(x) /\ Slots(x, {}) /\ Acquiring(x)
    BY DEF Fit, Lease, Sess
<1>1. /\ b \in BackendStates /\ AnswerHandled(b, s, code) /\ MixerFits(x, {}, s, m)
      /\ m \in Messages /\ S \in Users /\ m \in In(b.wire[s]) /\ In(Tail(b.wire[s])) \subseteq In(b.wire[s])
    BY HeadFits
<1>2. b.slot[s] = S
    BY <1>1 DEF MixerFits
<1>3. b.users[S] = s /\ x.sess[S] # NoSocket
    BY <1>0, <1>1, <1>2 DEF Slots
<1>4. AnswerReleases(m, code)
    BY DEF AnswerReleases
<1>5. SlotAfter(b, s, code) = Emptied(b, S)
    BY <1>4 DEF SlotAfter
<1>6. /\ g \in BackendStates
      /\ g.slot = IF ForcesReconnect(b, s) THEN [Emptied(b, S) EXCEPT ![s] = Closed] ELSE Emptied(b, S)
      /\ g.users = [b.users EXCEPT ![S] = NoSlot]
      /\ g.wire = [b.wire EXCEPT ![s] = IF ForcesReconnect(b, s) THEN <<>> ELSE Tail(b.wire[s])]
      /\ AnswerRegistry(b, s, code).slot = Emptied(b, S)
    BY <1>1, <1>4, <1>5 DEF AnswerHandled
<1>7. /\ b.slot \in [Sockets -> Users \cup {Closed, Free}] /\ b.users \in [Users -> Sockets \cup {NoSlot}]
      /\ b.wire \in [Sockets -> Seq(Messages)] /\ Closed \notin Users /\ Free \notin Users
    BY <1>1, BackendTyping
<1>8. Emptied(b, S)[s] = Free /\ \A t \in Sockets : t # s => Emptied(b, S)[t] = b.slot[t]
    BY <1>1, <1>2, <1>3, <1>7 DEF Emptied
<1>9. Emptied(b, S) \in [Sockets -> Users \cup {Closed, Free}]
    BY <1>7 DEF Emptied
<1> HIDE DEF g, b, m
<1>10. g.slot[s] \in {Closed, Free} /\ \A t \in Sockets : t # s => g.slot[t] = b.slot[t]
    BY <1>6, <1>8, <1>9
<1>11. g.users[S] = NoSlot /\ \A T \in Users : T # S => g.users[T] = b.users[T]
    BY <1>1, <1>6, <1>7
<1>12. \A t \in Sockets : In(g.wire[t]) \subseteq In(b.wire[t])
    BY <1>1, <1>6, <1>7, EmptyQueue
<1>13. ForcesReconnect(b, s) => In(g.wire[s]) = {}
    BY <1>6, <1>7, EmptyQueue
<1>14. \A n \in In(g.wire[s]) : n.op = "acquire" => n.user # S
    BY DEF NotAcquired, g
<1>15. ~x.conn[x.sess[S]].mixer
    BY <1>0, <1>1, <1>3 DEF Acquiring, b, m
<1>16. Vacated(x, g, s, X)
    BY <1>1, <1>2, <1>7, <1>10, <1>11, <1>12, <1>13, <1>14, <1>15 DEF Vacated, b
<1> HIDE DEF X
<1>17. Fit(w, y, X, {}) /\ y.be = g /\ ButBe(x, y)
    BY <1>6, <1>16, FitVacated
<1>18. \A t \in Sockets : g.slot[t] # S
  <2>1. ASSUME NEW t \in Sockets, t # s PROVE b.slot[t] # S
    BY <1>0, <1>1, <1>3, <2>1 DEF Slots, b
  <2> QED
    BY <1>1, <1>7, <1>10, <2>1
<1>19. LostUser(AnswerRegistry(b, s, code), s) = {}
    BY <1>6, <1>7, <1>8, SMTT(20) DEF LostUser
<1> QED
    BY <1>1, <1>3, <1>17, <1>18, <1>19 DEF y, g, X, b

(* The mixer shall connect again, nobody waits for its answer.             *)
LEMMA FitReconnected ==
    ASSUME NEW w, NEW x, NEW s \in Sockets, NEW code, Fit(w, x, {}, {}), x.be.wire[s] # <<>>,
           ForcesReconnect(x.be, s), Head(x.be.wire[s]).op = "acquire" =>
               NotAcquired(HandleAnswer(x.be, s, code).wire, Head(x.be.wire[s]).user)
    PROVE  Fit(w, SlotLost([x EXCEPT !.be = HandleAnswer(x.be, s, code)],
                           LostUser(AnswerRegistry(x.be, s, code), s)), {}, {})
<1> DEFINE m == Head(x.be.wire[s])
           g == HandleAnswer(x.be, s, code)
           y == [x EXCEPT !.be = g]
           lost == LostUser(AnswerRegistry(x.be, s, code), s)
<1>1. CASE m.op = "acquire" /\ code = "error" /\ ~Over(x, m.user)
  <2> DEFINE S == m.user
  <2>1. S = m.user
    OBVIOUS
  <2> HIDE DEF S
  <2>2. Fit(w, y, IF ForcesReconnect(x.be, s) THEN {} ELSE {x.sess[S]}, {}) /\ lost = {}
    BY <1>1, <2>1, FitRefused
  <2>3. Fit(w, y, {}, {})
    BY <2>2
  <2> QED
    BY <2>2, <2>3 DEF SlotLost
<1>2. CASE ~(m.op = "acquire" /\ code = "error" /\ ~Over(x, m.user))
  <2>1. /\ x.be \in BackendStates /\ AnswerHandled(x.be, s, code) /\ m.user \in Users
    BY HeadFits
  <2>2. AnswerReleases(m, code) => x.be.users[m.user] = NoSlot
    BY <1>2 DEF AnswerReleases, Over, ForcesReconnect
  <2>3. SlotAfter(x.be, s, code) = IF AnswerReleases(m, code) THEN Emptied(x.be, m.user) ELSE x.be.slot
    BY DEF SlotAfter
  <2>4. /\ g \in BackendStates /\ g.slot = [SlotAfter(x.be, s, code) EXCEPT ![s] = Closed]
        /\ AnswerRegistry(x.be, s, code).slot = SlotAfter(x.be, s, code)
        /\ g.users = IF AnswerReleases(m, code) THEN [x.be.users EXCEPT ![m.user] = NoSlot] ELSE x.be.users
        /\ g.wire = [x.be.wire EXCEPT ![s] = <<>>]
    BY <2>1 DEF AnswerHandled
  <2> HIDE DEF g, m
  <2>5. SlotAfter(x.be, s, code) = x.be.slot /\ g.users = x.be.users
    BY <2>1, <2>2, <2>3, <2>4, NothingReleased
  <2>6. lost = LostUser(x.be, s)
    BY <2>4, <2>5 DEF LostUser
  <2> HIDE DEF lost
  <2>7. Fit(w, SlotLost(y, LostUser(x.be, s)), {}, {})
    BY <2>4, <2>5, FitGone
  <2> QED
    BY <2>6, <2>7 DEF g, lost
<1> QED
    BY <1>1, <1>2

(* There is no mixer for a session: its connection is dropped.             *)
LEMMA FitNoMixer ==
    ASSUME NEW w, NEW x, NEW X, NEW O, NEW r, NEW S \in Users, NEW code, NEW c, Fit(w, x, X, O),
           ~AsyncHas(x, r), code # "ok", c = x.sess[S], c # NoSocket, X \subseteq {c}, \A o \in O : o[2] = c,
           \A t \in Sockets : x.be.slot[t] # S
    PROVE  Fit(w, MixerAcquired(x, r, S, code), {}, {})
<1> DEFINE y == AsyncUnset(x, r)
<1>0. Sess(x) /\ x \in VocsStates /\ S # None
    BY NoneAssumption DEF Fit, Sess
<1>1. c = SocketOf(x, S)
    BY <1>0 DEF SocketOf
<1>2. c \in Clients /\ x.conn[c].session = S
    BY <1>0, <1>1, SocketBound
<1>3. MixerAcquired(x, r, S, code) = DropConnection(y, c, TRUE, FALSE)
    BY <1>1 DEF MixerAcquired
<1>4. Waits(x, r, c)
    BY DEF Waits, AsyncHas
<1>5. Fit(w, y, X, O)
    BY <1>4, FitTaken
<1>6. Taken(x, y, r)
    BY <1>0, TakenFields
<1> HIDE DEF y
<1>7. \A t \in Sockets : y.be.slot[t] # y.conn[c].session
    BY <1>2, <1>6 DEF Taken, ButStore
<1>8. Fit(w, DropConnection(y, c, TRUE, FALSE), {}, {})
    BY <1>2, <1>5, <1>7, FitDrop
<1> QED
    BY <1>3, <1>8

(* An answer to acquire that leaves the slots as they are.                 *)
LEMMA FitMixerAcquired ==
    ASSUME NEW w, NEW x, NEW r, NEW S \in Users, Fit(w, x, {}, {}), ~AsyncHas(x, r),
           NotAcquired(x.be.wire, S), x.sess[S] # NoSocket => ~x.conn[x.sess[S]].mixer
    PROVE  /\ x.sess[S] # NoSocket /\ x.be.users[S] # NoSlot => Fit(w, MixerAcquired(x, r, S, "ok"), {}, {})
           /\ \A code : Over(x, S) => Fit(w, MixerAcquired(x, r, S, code), {}, {})
<1>0. Sess(x) /\ x \in VocsStates /\ x.be \in BackendStates /\ S # None
    BY VocsTyping, NoneAssumption DEF Fit, Sess
<1>1. ASSUME NEW code, Over(x, S) PROVE Fit(w, MixerAcquired(x, r, S, code), {}, {})
  <2> DEFINE g == ReleaseMixer(x.be, S, S)
  <2>1. SocketOf(x, S) = NoSocket /\ x.be.users[S] = NoSlot
    BY <1>0, <1>1 DEF SocketOf, Over
  <2>2. MixerAcquired(x, r, S, code) = [x EXCEPT !.be = g]
    BY <2>1 DEF MixerAcquired
  <2>3. ~HasMixer(x.be, S)
    BY <1>0, <2>1, GetUserType
  <2>a. /\ g \in BackendStates /\ g.slot = Emptied(x.be, S) /\ g.users = [x.be.users EXCEPT ![S] = NoSlot]
        /\ g.wire = x.be.wire
    BY <1>0, <2>3, ReleaseMixerFields
  <2> HIDE DEF g
  <2>4. g \in BackendStates /\ g.slot = x.be.slot /\ g.users = x.be.users /\ g.wire = x.be.wire
    BY <1>0, <2>1, <2>a, NothingReleased
  <2>5. NoNewAcquire(x.be.wire, g.wire)
    BY <2>4, NothingNew
  <2>6. Fit(w, [x EXCEPT !.be = g], {}, {})
    BY <2>4, <2>5, FitBackend
  <2> QED
    BY <2>2, <2>6
<1>2. ASSUME x.sess[S] # NoSocket, x.be.users[S] # NoSlot
      PROVE  Fit(w, MixerAcquired(x, r, S, "ok"), {}, {})
  <2> DEFINE c == SocketOf(x, S)
             y == AsyncUnset(x, r)
             z == Announce([y EXCEPT !.conn[c].mixer = TRUE], c)
             d == [y.conn[c] EXCEPT !.mixer = TRUE]
  <2>1. c = x.sess[S]
    BY <1>0 DEF SocketOf
  <2>2. c \in Clients /\ x.conn[c].session = S
    BY <1>0, <1>2, <2>1, SocketBound
  <2>3. MixerAcquired(x, r, S, "ok") = z
    BY <1>2, <2>1 DEF MixerAcquired
  <2>4. Waits(x, r, c)
    BY DEF Waits, AsyncHas
  <2>5. Fit(w, y, {}, {}) /\ Taken(x, y, r)
    BY <1>0, <2>4, FitTaken, TakenFields
  <2> HIDE DEF c, y
  <2>6. y \in VocsStates /\ y.conn[c] \in Conns /\ Sess(y)
    BY <2>2, <2>5, VocsTyping DEF Fit, Sess
  <2>7. Announced(y, z, c, d)
    BY <2>2, <2>6, AnnounceFields
  <2>8. /\ d \in Conns /\ d.session = y.conn[c].session /\ d.mixer /\ d.ice = y.conn[c].ice
        /\ d.loops = y.conn[c].loops
    BY <2>6 DEF Conns
  <2>9. /\ y.conn[c].session = S /\ y.conn[c].session # None /\ ~y.conn[c].mixer
        /\ NotAcquired(y.be.wire, y.conn[c].session) /\ y.be.users[S] # NoSlot
    BY <1>0, <1>2, <2>1, <2>2, <2>5 DEF Taken, ButStore
  <2> HIDE DEF d, z
  <2>10. Sess(z)
    BY <2>2, <2>6, <2>7, <2>8, <2>9, SessAnnounced
  <2>11. Fit(w, z, {}, {})
    BY <2>2, <2>5, <2>7, <2>8, <2>9, <2>10, FitAnnounced
  <2> QED
    BY <2>3, <2>11
<1> QED
    BY <1>1, <1>2

(* The session S in the slot of a mixer whose answer somebody waits for.   *)
Answers(x, m, s, S) ==
    /\ m.op \in LoopOps /\ m.user \in Users /\ m.id \in ClientReqs /\ MixerFits(x, {}, s, m)
    /\ S \in Users \cup {None} /\ \A u \in Users : x.be.slot[s] = u => S = u

(* The connection at c waits for r only.                                   *)
Alone(x, r, c) == \A e \in x.async : e.sock = c => e.id = r

(* It is the session of the connection that waits.                         *)
LEMMA AnswerAwaited ==
    ASSUME NEW w, NEW x, NEW iss, NEW mk, NEW m, NEW s \in Sockets, NEW S, NEW c, Base(x, iss, mk), Fit(w, x, {}, {}),
           Answers(x, m, s, S), AsyncHas(x, m.id), c = SocketOf(x, S)
    PROVE  /\ S \in Users /\ c \in Clients /\ x.sess[S] = c /\ Waits(x, m.id, c) /\ x.up[c]
           /\ ~Pipelining => <<m.id, c>> \in x.owed /\ Alone(x, m.id, c)
<1> DEFINE e == AsyncGet(x, m.id)
<1>0. x \in VocsStates /\ OpenOnly(x) /\ (~Pipelining => Single(x))
    BY DEF Fit, Sess, Lease
<1>1. e \in x.async /\ e.id = m.id /\ e.sock \in Clients
    BY <1>0, AsyncFound
<1>2. Waits(x, m.id, e.sock)
    BY WaitsFound
<1> HIDE DEF e
<1>3. x.be.slot[s] = m.user /\ x.sess[m.user] = e.sock
    BY <1>1 DEF Answers, MixerFits
<1>4. S = m.user /\ S \in Users
    BY <1>3 DEF Answers
<1>5. c = e.sock
    BY <1>3, <1>4, NoneAssumption DEF SocketOf
<1>6. x.up[c]
    BY <1>0, <1>1, <1>5 DEF OpenOnly
<1>7. ASSUME ~Pipelining
      PROVE  <<m.id, c>> \in x.owed /\ Alone(x, m.id, c)
  <2>1. Single(x)
    BY <1>0, <1>7
  <2>2. <<m.id, c>> \in x.owed
    BY <1>1, <1>5, <2>1 DEF Single
  <2>3. ASSUME NEW g \in x.async, g.sock = c PROVE g.id = m.id
    <3>1. <<g.id, c>> \in x.owed
      BY <2>1, <2>3 DEF Single
    <3>2. <<g.id, c>>[2] = <<m.id, c>>[2]
      OBVIOUS
    <3>3. <<g.id, c>> = <<m.id, c>>
      BY <2>1, <2>2, <3>1, <3>2 DEF Single
    <3> QED
      BY <3>3
  <2> QED
    BY <2>2, <2>3 DEF Alone
<1> QED
    BY <1>1, <1>2, <1>3, <1>4, <1>5, <1>6, <1>7

(* An answer to leave, to volume.                                          *)
LEMMA FitMixerLeave ==
    ASSUME NEW w, NEW x, NEW iss, NEW mk, NEW m, NEW s \in Sockets, NEW S, Base(x, iss, mk), Fit(w, x, {}, {}),
           Answers(x, m, s, S), m.loop \in Loops
    PROVE  /\ Fit(w, MixerLeave(x, m.id, S, m.loop), {}, {})
           /\ Fit(w, MixerVolume(x, m.id, S), {}, {})
<1> DEFINE r == m.id
           l == m.loop
           c == SocketOf(x, S)
           y == AsyncUnset(x, r)
           Q == y.parts \ {<<l, c>>}
           j == [y EXCEPT !.conn[c].loops[l] = "none", !.parts = Q]
           O == {<<r, c>>}
<1>0. x \in VocsStates /\ Sess(x) /\ S \in Users \cup {None} /\ l \in Loops
    BY DEF Fit, Sess, Answers
<1>1. c \in Clients \cup {NoSocket}
    BY <1>0, SocketBound
<1>2. /\ MixerLeave(x, r, S, l) =
           IF c = NoSocket THEN y
           ELSE IF ~AsyncHas(x, r) \/ ~KnownClient(x, c) THEN DropConnection(y, c, TRUE, TRUE)
           ELSE Respond(j, r, c)
      /\ MixerVolume(x, r, S) =
           IF c = NoSocket THEN y
           ELSE IF ~AsyncHas(x, r) THEN DropConnection(y, c, TRUE, TRUE)
           ELSE Respond(y, r, c)
    BY DEF MixerLeave, MixerVolume
<1>3. AsyncHas(x, r) =>
        /\ c \in Clients /\ Waits(x, r, c)
        /\ ~Pipelining => \A e \in x.async : e.sock = c => e.id = r
  <2> SUFFICES ASSUME AsyncHas(x, r)
               PROVE  c \in Clients /\ Waits(x, r, c) /\ (~Pipelining => Alone(x, r, c))
    BY DEF Alone
  <2>1. c = SocketOf(x, S) /\ AsyncHas(x, m.id)
    OBVIOUS
  <2> HIDE DEF c
  <2> QED
    BY <2>1, AnswerAwaited
<1>4. ~AsyncHas(x, r) => Waits(x, r, c)
    BY DEF AsyncHas, Waits
<1>5. /\ Fit(w, y, {}, {} \cup {<<r, c>>}) /\ Fit(w, Respond(y, r, c), {}, {})
      /\ ~AsyncHas(x, r) => Fit(w, y, {}, {})
    BY <1>3, <1>4, FitTaken
<1>6. Taken(x, y, r) /\ NoSocket \notin Clients
    BY <1>0, TakenFields, VocsTyping
<1>7. Fit(w, y, {}, O)
  <2>1. {} \cup {<<r, c>>} = O
    OBVIOUS
  <2> QED
    BY <1>5, <2>1
<1>8. \A e \in y.async : e.id # r
    BY <1>6 DEF Taken
<1> HIDE DEF r, l, c, y, O
<1>9. ASSUME ~AsyncHas(x, r) PROVE Fit(w, y, {}, {}) /\ Fit(w, DropConnection(y, c, TRUE, TRUE), {}, {})
    BY <1>1, <1>5, <1>9, FitClose
<1>10. ASSUME AsyncHas(x, r), c \in Clients
       PROVE  Fit(w, DropConnection(y, c, TRUE, TRUE), {}, {}) /\ Fit(w, Respond(j, r, c), {}, {})
  <2>1. Fit(w, DropConnection(y, c, TRUE, TRUE), {}, {})
    BY <1>7, <1>10, FitCloseTaken DEF O
  <2>2. y \in VocsStates
    BY <1>6 DEF Taken, ButStore
  <2>3. Q \in SUBSET (Loops \X Clients) /\ "none" \in LoopStates
    BY <2>2, VocsTyping DEF LoopStates
  <2>4. Q = IF "none" = "none" THEN y.parts \ {<<l, c>>} ELSE y.parts \cup {<<l, c>>}
    OBVIOUS
  <2> HIDE DEF Q
  <2>5. LoopSet(y, j, c, l, "none") /\ j.parts = Q
    <3>1. y \in VocsStates /\ c \in Clients /\ l \in Loops /\ "none" \in LoopStates /\ Q \in SUBSET (Loops \X Clients)
      BY <1>0, <1>10, <2>2, <2>3
    <3>2. LoopSet(y, j, c, l, "none")
      BY <3>1, LoopSetFields
    <3>3. j.parts = Q
      BY <3>1 DEF VocsStates
    <3> QED
      BY <3>2, <3>3
  <2>6. ~Pipelining => \A e \in y.async : e.sock # c
    BY <1>3, <1>6, <1>8, <1>10 DEF Taken
  <2> HIDE DEF j
  <2>7. Fit(w, j, {}, O)
    BY <1>0, <1>7, <1>10, <2>3, <2>4, <2>5, <2>6, FitLoopSet
  <2>8. \A e \in j.async : e.id # r
    BY <1>8, <2>5 DEF LoopSet
  <2>9. Fit(w, Respond(j, r, c), {}, O \ {<<r, c>>})
    BY <2>7, <2>8, FitResponded
  <2>10. O \ {<<r, c>>} = {}
    BY DEF O
  <2> QED
    BY <2>1, <2>9, <2>10
<1> HIDE DEF j
<1>11. Fit(w, MixerLeave(x, r, S, l), {}, {})
    BY <1>1, <1>2, <1>3, <1>6, <1>9, <1>10
<1>12. Fit(w, MixerVolume(x, r, S), {}, {})
    BY <1>1, <1>2, <1>3, <1>5, <1>6, <1>9
<1> QED
    BY <1>11, <1>12 DEF r, l

(* An answer to join.                                                      *)
LEMMA FitMixerJoin ==
    ASSUME NEW w, NEW x, NEW iss, NEW mk, NEW m, NEW s \in Sockets, NEW S, NEW code, BeHeard(x, m, iss, mk),
           Fit(w, x, {}, {}), Answers(x, m, s, S), m.op = "join"
    PROVE  Fit(w, MixerJoin(x, m.id, S, m.loop, code), {}, {})
<1> DEFINE r == m.id
           l == m.loop
           c == SocketOf(x, S)
           y == AsyncUnset(x, r)
           want == AsyncGet(x, r).want
           Q == y.parts \cup {<<l, c>>}
           j == [y EXCEPT !.conn[c].loops[l] = "recv", !.parts = Q]
           k == Entry(r, c, l, want)
           a == AsyncSet(j, k)
           t == PerformSwitch(a, r, S, l, "recv", want)
           O == {<<r, c>>}
<1>0. /\ x \in VocsStates /\ Base(x, iss, mk) /\ Unused(x.be.wire, x.fe.wire, r) /\ r \in Reqs /\ r \in ClientReqs
      /\ l \in Loops /\ S \in Users \cup {None}
    BY DEF Base, BeHeard, BeWorded, LoopOps, ClientReqs, Answers
<1>1. MixerJoin(x, r, S, l, code) =
        IF ~AsyncHas(x, r) THEN LeaveLoop(x, r, S, l)
        ELSE IF code # "ok" THEN Respond(y, r, c)
        ELSE IF ~KnownClient(x, c) THEN DropConnection(y, c, TRUE, TRUE)
        ELSE IF want = "recv" THEN Respond(j, r, c)
        ELSE IF CanPerform(j, S, "recv", want) THEN t
        ELSE DropConnection(t, c, TRUE, TRUE)
    BY DEF MixerJoin
<1>2. ASSUME ~AsyncHas(x, r) PROVE Fit(w, LeaveLoop(x, r, S, l), {}, {})
  <2>1. Owns(x, r, S)
    BY <1>2 DEF Owns, AsyncHas
  <2> HIDE DEF r, l
  <2> QED
    BY <1>0, <2>1, FitLeaveLoop
<1>3. ASSUME AsyncHas(x, r)
      PROVE  /\ Fit(w, Respond(y, r, c), {}, {}) /\ Fit(w, DropConnection(y, c, TRUE, TRUE), {}, {})
             /\ want = "recv" => Fit(w, Respond(j, r, c), {}, {})
             /\ want # "recv" => Fit(w, t, {}, {}) /\ Fit(w, DropConnection(t, c, TRUE, TRUE), {}, {})
  <2>1. /\ S \in Users /\ c \in Clients /\ x.sess[S] = c /\ Waits(x, r, c) /\ x.up[c]
        /\ ~Pipelining => <<r, c>> \in x.owed
    BY <1>0, <1>3, AnswerAwaited
  <2>2. want \in {"recv", "send"}
    <3>1. AsyncGet(x, r) \in x.async /\ AsyncGet(x, r).id = r
      BY <1>0, <1>3, AsyncFound
    <3> QED
      BY <3>1 DEF BeHeard, BeAwaited
  <2>3. Fit(w, y, {}, {} \cup {<<r, c>>}) /\ Fit(w, Respond(y, r, c), {}, {}) /\ Taken(x, y, r)
    BY <1>0, <2>1, FitTaken, TakenFields
  <2>4. Fit(w, y, {}, O)
    <3>1. {} \cup {<<r, c>>} = O
      OBVIOUS
    <3> QED
      BY <2>3, <3>1
  <2>5. k \in Entries /\ k.id = r /\ k.sock = c
    BY <1>0, <2>1, <2>2, EntryType DEF LoopStates
  <2> HIDE DEF r, l, c, y, want, O, k
  <2>6. Fit(w, DropConnection(y, c, TRUE, TRUE), {}, {})
    BY <2>1, <2>4, FitCloseTaken DEF O
  <2>7. y \in VocsStates /\ "recv" \in LoopStates /\ want \in LoopStates
    BY <2>2, <2>3 DEF Taken, ButStore, LoopStates
  <2>8. Q \in SUBSET (Loops \X Clients)
    BY <1>0, <2>1, <2>7, VocsTyping
  <2>9. Q = IF "recv" = "none" THEN y.parts \ {<<l, c>>} ELSE y.parts \cup {<<l, c>>}
    OBVIOUS
  <2> HIDE DEF Q
  <2>10. LoopSet(y, j, c, l, "recv") /\ j.parts = Q
    <3>1. y \in VocsStates /\ c \in Clients /\ l \in Loops /\ "recv" \in LoopStates /\ Q \in SUBSET (Loops \X Clients)
      BY <1>0, <2>1, <2>7, <2>8
    <3>2. LoopSet(y, j, c, l, "recv")
      BY <3>1, LoopSetFields
    <3>3. j.parts = Q
      BY <3>1 DEF VocsStates
    <3> QED
      BY <3>2, <3>3
  <2> HIDE DEF j
  <2>11. Fit(w, j, {}, O)
    BY <1>0, <2>1, <2>4, <2>7, <2>9, <2>10, FitLoopSet
  <2>12. \A e \in j.async : e.id # r
    BY <2>3, <2>10 DEF LoopSet, Taken
  <2>13. O \ {<<r, c>>} = {}
    BY DEF O
  <2>14. Fit(w, Respond(j, r, c), {}, {})
    BY <2>11, <2>12, <2>13, FitResponded
  <2>15. /\ Unused(j.be.wire, j.fe.wire, k.id) /\ j.up[k.sock] /\ (~Pipelining => <<k.id, k.sock>> \in j.owed)
         /\ j.sess[S] = c /\ k.id \in ClientReqs
    BY <1>0, <2>1, <2>3, <2>5, <2>10 DEF LoopSet, Taken, ButStore
  <2>16. j.conn[c].loops[l] = "recv"
    <3>1. y.conn \in [Clients -> Conns]
      BY <2>7, VocsTyping
    <3>2. y.conn[c] \in Conns
      BY <2>1, <3>1
    <3>3. y.conn[c].loops \in [Loops -> LoopStates] /\ y.conn[c] = [y.conn[c] EXCEPT !.loops = @]
      BY <3>2 DEF Conns
    <3>4. j.conn[c] = WithLoop(y.conn[c], l, "recv")
      BY <2>1, <2>10, <3>1 DEF LoopSet
    <3> QED
      BY <1>0, <3>2, <3>3, <3>4 DEF WithLoop, Conns
  <2>17. Fit(w, a, {}, O \ {<<k.id, k.sock>>})
    BY <2>5, <2>11, <2>15, FitReset
  <2>18. Fit(w, a, {}, {})
    BY <2>5, <2>13, <2>17
  <2>19. j \in VocsStates
    BY <2>10 DEF LoopSet
  <2>20. ButStore(j, a) /\ a.async = j.async \cup {k}
    BY <2>5, <2>19, AskedFields
  <2> HIDE DEF a
  <2>21. Owns(a, r, S)
    BY <2>5, <2>12, <2>15, <2>20 DEF Owns, ButStore
  <2>22. \A e \in a.async : e.id = r /\ ~Pipelining /\ "recv" # "none" => a.conn[e.sock].loops[l] # "none"
    BY <2>5, <2>12, <2>16, <2>20 DEF ButStore
  <2>23. want # "recv" => Fit(w, t, {}, {})
    BY <1>0, <2>1, <2>7, <2>18, <2>21, <2>22, FitPerform
  <2> HIDE DEF t
  <2>24. want # "recv" => Fit(w, DropConnection(t, c, TRUE, TRUE), {}, {})
    BY <2>1, <2>23, FitClose
  <2> QED
    BY <2>3, <2>6, <2>14, <2>23, <2>24
<1> HIDE DEF r, l, c, y, want, j, t
<1>4. Fit(w, MixerJoin(x, r, S, l, code), {}, {})
    BY <1>1, <1>2, <1>3
<1> QED
    BY <1>4 DEF r, l

(* An answer of a mixer.                                                   *)
LEMMA FitMixerAnswer ==
    ASSUME NEW w, NEW x, NEW iss, NEW mk, NEW s \in Sockets, NEW code \in {"ok", "error"}, Base(x, iss, mk),
           Fit(w, x, {}, {}), x.be.wire[s] # <<>>
    PROVE  Fit(w, OnMixerAnswer(x, s, code), {}, {})
<1> DEFINE m == Head(x.be.wire[s])
           g == HandleAnswer(x.be, s, code)
           y == [x EXCEPT !.be = g]
           S == Occupant(x.be, s)
           lost == LostUser(AnswerRegistry(x.be, s, code), s)
           z == OnMixerAnswer(x, s, code)
<1>a. BeHeard(y, m, iss, mk) /\ ButBe(x, y)
    BY BaseAnswered
<1>b. y.be = g
    BY BaseAnswered
<1>1. BeHeard(y, m, iss, mk) /\ ButBe(x, y) /\ y.be = g
    BY <1>a, <1>b
<1>2. /\ ForcesReconnect(x.be, s) => z = SlotLost(y, lost)
      /\ ~ForcesReconnect(x.be, s) /\ ~HasCallback(x.be, s) => z = y
      /\ ~ForcesReconnect(x.be, s) /\ HasCallback(x.be, s) =>
           /\ m.op = "acquire" => z = MixerAcquired(y, m.id, m.user, code)
           /\ m.op = "release" => z = MixerReleased(y, m.user)
           /\ m.op = "join" => z = MixerJoin(y, m.id, S, m.loop, code)
           /\ m.op = "leave" => z = MixerLeave(y, m.id, S, m.loop)
           /\ m.op = "volume" => z = MixerVolume(y, m.id, S)
    BY OnMixerAnswerCases
<1>3. /\ S \in mk \cup {None} /\ S \in Users \cup {None}
      /\ \A u \in Users : x.be.slot[s] = u => S = u
    BY OccupantFacts DEF Base
<1>4. m.user \in Users /\ m \in In(x.be.wire[s])
    BY HeadFits
<1>5. ForcesReconnect(x.be, s) <=> m.op \in {"acquire", "join"} /\ ~HasCallback(x.be, s)
    BY DEF ForcesReconnect
<1>6. m.op = "acquire" => NotAcquired(g.wire, m.user)
    BY <1>1 DEF BeHeard
<1>7. m.op = "acquire" => ~AsyncHas(y, m.id)
    BY <1>1 DEF BeHeard, BeAwaited, AsyncHas, LoopOps
<1>8. ASSUME ForcesReconnect(x.be, s) PROVE Fit(w, SlotLost(y, lost), {}, {})
    BY <1>6, <1>8, FitReconnected
<1>9. ASSUME ~ForcesReconnect(x.be, s), m.op = "acquire", code = "error", ~Over(x, m.user)
      PROVE  Fit(w, MixerAcquired(y, m.id, m.user, code), {}, {})
  <2> DEFINE T == m.user
             X == {x.sess[T]}
             O == {}
  <2>1. T = m.user
    OBVIOUS
  <2> HIDE DEF T
  <2>2. /\ Fit(w, y, IF ForcesReconnect(x.be, s) THEN {} ELSE {x.sess[T]}, {})
        /\ T \in Users /\ x.sess[T] # NoSocket /\ \A t \in Sockets : y.be.slot[t] # T
    BY <1>6, <1>9, <2>1, FitRefused
  <2>3. Fit(w, y, X, O) /\ \A o \in O : o[2] = x.sess[T]
    BY <1>9, <2>2
  <2>4. y.sess[T] = x.sess[T] /\ X \subseteq {x.sess[T]} /\ code # "ok" /\ ~AsyncHas(y, m.id)
    BY <1>1, <1>7, <1>9 DEF ButBe
  <2> HIDE DEF X, O, y, m
  <2>5. Fit(w, MixerAcquired(y, m.id, T, code), {}, {})
    BY <2>2, <2>3, <2>4, FitNoMixer
  <2> QED
    BY <2>1, <2>5
<1>10. ASSUME ~ForcesReconnect(x.be, s), m.op = "acquire" /\ code = "error" => Over(x, m.user)
       PROVE  /\ Fit(w, y, {}, {})
              /\ m.op = "acquire" => Fit(w, MixerAcquired(y, m.id, m.user, code), {}, {})
              /\ m.op = "release" => Fit(w, MixerReleased(y, m.user), {}, {})
              /\ m.op = "join" => Fit(w, MixerJoin(y, m.id, S, m.loop, code), {}, {})
              /\ m.op = "leave" => Fit(w, MixerLeave(y, m.id, S, m.loop), {}, {})
              /\ m.op = "volume" => Fit(w, MixerVolume(y, m.id, S), {}, {})
  <2>1. Fit(w, y, {}, {}) /\ SameSlots(x, y) /\ MixerFits(y, {}, s, m)
    BY <1>10, FitHeard
  <2>2. Over(x, m.user) => Over(y, m.user)
    BY <1>1, <2>1 DEF Over, ButBe, SameSlots
  <2> HIDE DEF y, m, S, g
  <2>3. m.op = "acquire" => Fit(w, MixerAcquired(y, m.id, m.user, code), {}, {})
    <3> SUFFICES ASSUME m.op = "acquire" PROVE Fit(w, MixerAcquired(y, m.id, m.user, code), {}, {})
      OBVIOUS
    <3>1. NotAcquired(y.be.wire, m.user) /\ ~AsyncHas(y, m.id)
      BY <1>1, <1>6, <1>7
    <3>2. y.sess[m.user] # NoSocket => ~y.conn[y.sess[m.user]].mixer
      BY <1>1, <1>4 DEF ButBe, Fit, Sess, Acquiring
    <3>3. y.be.slot[s] = m.user \/ Over(y, m.user)
      BY <2>1 DEF MixerFits
    <3>4. CASE Over(y, m.user)
      BY <1>4, <2>1, <3>1, <3>2, <3>4, FitMixerAcquired
    <3>5. CASE ~Over(y, m.user)
      <4>1. y.be.slot[s] = m.user /\ code = "ok"
        BY <1>10, <2>2, <3>3, <3>5
      <4>2. Slots(y, {}) /\ NoSlot \notin Sockets
        BY <2>1, VocsTyping, BackendTyping DEF Fit, Lease, Sess
      <4>3. y.sess[m.user] # NoSocket /\ y.be.users[m.user] # NoSlot
        BY <1>4, <4>1, <4>2 DEF Slots
      <4> QED
        BY <1>4, <2>1, <3>1, <3>2, <4>1, <4>3, FitMixerAcquired
    <3> QED
      BY <3>4, <3>5
  <2>4. m.op = "release" => Fit(w, MixerReleased(y, m.user), {}, {})
    BY <2>1 DEF MixerFits, Over, MixerReleased, SocketOf, DropConnection
  <2>5. m.op \in LoopOps => Answers(y, m, s, S) /\ m.loop \in Loops
    BY <1>1, <1>3, <1>4, <2>1 DEF Answers, SameSlots, BeHeard, BeWorded, Base, LoopOps
  <2>6. Base(y, iss, mk)
    BY <1>1 DEF BeHeard
  <2>7. m.op \in {"leave", "volume"} => /\ Fit(w, MixerLeave(y, m.id, S, m.loop), {}, {})
                                        /\ Fit(w, MixerVolume(y, m.id, S), {}, {})
    BY <2>1, <2>5, <2>6, FitMixerLeave DEF LoopOps
  <2>8. m.op = "join" => Fit(w, MixerJoin(y, m.id, S, m.loop, code), {}, {})
    BY <1>1, <2>1, <2>5, FitMixerJoin DEF LoopOps
  <2> QED
    BY <2>1, <2>3, <2>4, <2>7, <2>8
<1>11. m.op \in {"acquire", "release"} \cup LoopOps
    BY <1>1 DEF BeHeard, BeWorded
<1> HIDE DEF m, y, S, lost, z
<1>12. Fit(w, z, {}, {})
    BY <1>2, <1>5, <1>8, <1>9, <1>10, <1>11 DEF LoopOps
<1> QED
    BY <1>12 DEF z

-----------------------------------------------------------------------------
(* What proxies say.                                                       *)

(* A step of the frontend that tells proxies nothing.                      *)
LEMMA GoodFe ==
    ASSUME NEW x, NEW f \in FE!FrontendStates, Good(x), NoNewCreate(x.fe.wire, f.wire), ProxiesUntold(x.fe, f)
    PROVE  Good([x EXCEPT !.fe = f]) /\ [x EXCEPT !.fe = f].fe = f /\ ButFe(x, [x EXCEPT !.fe = f])
<1> DEFINE y == [x EXCEPT !.fe = f]
           O == {}
<1>0. Sess(x) /\ x \in VocsStates /\ Lease(x, {}) /\ Watch(x, O)
    BY DEF Good, Sess
<1>1. Sess(y) /\ y.fe = f /\ ButFe(x, y)
    BY <1>0, SessFe
<1> HIDE DEF y
<1>2. SameClients(x, y) /\ SameSlots(x, y) /\ FewerStored(x, y)
    BY <1>1 DEF SameClients, SameSlots, FewerStored, ButFe
<1>3. MixersUntold(x, y) /\ ProxiesUntold(x.fe, y.fe)
    BY <1>1, QueuesSame DEF ButFe
<1>4. Lease(y, {})
    BY <1>0, <1>2, <1>3, LeaseSteady
<1>5. y.owed \subseteq x.owed /\ x.async \subseteq y.async
    BY <1>1 DEF ButFe
<1> HIDE DEF O
<1>6. Watch(y, O)
    BY <1>0, <1>3, <1>5, WatchSteady
<1> QED
    BY <1>1, <1>4, <1>6 DEF Good, y, O

(* Queues from which something is taken.                                   *)
LEMMA GoodShorter ==
    ASSUME NEW x, NEW f \in FE!FrontendStates, Good(x), NEW p \in Proxies,
           \/ f.wire = x.fe.wire
           \/ f.wire = [x.fe.wire EXCEPT ![p] = <<>>]
           \/ x.fe.wire[p] # <<>> /\ f.wire = [x.fe.wire EXCEPT ![p] = Tail(x.fe.wire[p])]
    PROVE  /\ Good([x EXCEPT !.fe = f]) /\ [x EXCEPT !.fe = f].fe = f /\ ButFe(x, [x EXCEPT !.fe = f])
           /\ \A q \in Proxies : In(f.wire[q]) \subseteq In(x.fe.wire[q])
<1>1. x.fe.wire \in [Proxies -> Seq(FE!ProxyMessages)]
    BY VocsTyping, FrontendTyping DEF Good, Sess
<1>2. (\A q \in Proxies : In(f.wire[q]) \subseteq In(x.fe.wire[q])) /\ NoNewCreate(x.fe.wire, f.wire)
  <2>1. CASE f.wire = x.fe.wire
    BY <2>1, NothingNew
  <2>2. CASE f.wire # x.fe.wire
    <3> DEFINE V == x.fe.wire
               Z == f.wire
    <3>1. V \in [Proxies -> Seq(FE!ProxyMessages)]
      BY <1>1
    <3>2. Z = [V EXCEPT ![p] = <<>>] \/ (V[p] # <<>> /\ Z = [V EXCEPT ![p] = Tail(V[p])])
      BY <2>2
    <3> HIDE DEF V, Z
    <3>3. \A q \in Proxies : In(Z[q]) \subseteq In(V[q])
      BY <3>1, <3>2, ShorterNothingNew
    <3>4. NoNewCreate(V, Z)
      BY <3>1, <3>2, ShorterNothingNew
    <3> QED
      BY <3>3, <3>4 DEF V, Z
  <2> QED
    BY <2>1, <2>2
<1>3. ProxiesUntold(x.fe, f)
    BY <1>2 DEF ProxiesUntold
<1> QED
    BY <1>2, <1>3, GoodFe

(* An answer to a request to talk or to stop talking.                      *)
LEMMA FitFrontendTalk ==
    ASSUME NEW w, NEW x, NEW iss, NEW mk, NEW m, FeHeard(x, m, iss, mk), m.op \in TalkOps,
           NEW on \in BOOLEAN, NEW ok \in BOOLEAN, Fit(w, x, {}, {}), TalkFits(x, m)
    PROVE  Fit(w, FrontendTalk(x, m.id, m.session, m.loop, on, ok), {}, {})
<1> DEFINE r == m.id
           S == m.session
           l == m.loop
           e == AsyncGet(x, r)
           c == e.sock
           st == IF on THEN "send" ELSE "recv"
           y == AsyncUnset(x, r)
           u == [y EXCEPT !.conn[c].loops[l] = st]
           a == AsyncSet(u, e)
           z == LeaveLoop(a, r, S, l)
           O == {<<r, c>>}
<1>0. /\ x \in VocsStates /\ Unused(x.be.wire, x.fe.wire, r) /\ r \in ClientReqs /\ r \in Reqs
      /\ S \in Users /\ l \in Loops /\ Base(x, iss, mk)
  <2>1. FeWorded(m, iss, mk) /\ m.op \in TalkOps /\ Base(x, iss, mk) /\ Unused(x.be.wire, x.fe.wire, r)
    BY DEF FeHeard
  <2> QED
    BY <2>1 DEF FeWorded, TalkOps, Base, ClientReqs
<1>1. FrontendTalk(x, r, S, l, on, ok) =
        IF ~AsyncHas(x, r) THEN x
        ELSE IF ~ok THEN Respond(y, r, c)
        ELSE IF ~KnownClient(x, c) THEN DropConnection(y, c, TRUE, TRUE)
        ELSE IF e.want # "none" THEN Respond(u, r, c)
        ELSE IF HasMixer(x.be, S) THEN z
        ELSE DropConnection(z, c, TRUE, TRUE)
    BY DEF FrontendTalk
<1>2. CASE ~AsyncHas(x, r)
    BY <1>1, <1>2
<1>3. CASE AsyncHas(x, r)
  <2>1. e \in x.async /\ e.id = r /\ e \in Entries /\ c \in Clients /\ Waits(x, r, c)
    BY <1>0, <1>3, AsyncFound, WaitsFound
  <2>2. x.sess[S] = c /\ (~Pipelining => x.conn[c].loops[l] # "none")
    BY <2>1 DEF TalkFits
  <2>3. x.up[c] /\ (~Pipelining => <<r, c>> \in x.owed /\ <<l, c>> \in x.parts)
    BY <1>0, <2>1, <2>2 DEF Fit, Lease, OpenOnly, Single, Listed
  <2>4. Fit(w, y, {}, {} \cup {<<r, c>>}) /\ Fit(w, Respond(y, r, c), {}, {}) /\ Taken(x, y, r)
    BY <1>0, <2>1, FitTaken, TakenFields
  <2>5. Fit(w, y, {}, O)
    <3>1. {} \cup {<<r, c>>} = O
      OBVIOUS
    <3> QED
      BY <2>4, <3>1
  <2>6. y \in VocsStates /\ st \in LoopStates /\ st # "none"
    BY <2>4 DEF Taken, ButStore, LoopStates
  <2> HIDE DEF r, S, l, e, c, y, O, st
  <2>7. Fit(w, DropConnection(y, c, TRUE, TRUE), {}, {})
    BY <2>1, <2>5, FitCloseTaken DEF O
  <2>8. LoopSet(y, u, c, l, st) /\ u.parts = y.parts
    <3>1. y.parts \in SUBSET (Loops \X Clients)
      BY <2>6, VocsTyping
    <3>2. LoopSet(y, u, c, l, st)
      BY <1>0, <2>1, <2>6, <3>1, LoopSetFields
    <3>3. u.parts = y.parts
      BY <2>6 DEF VocsStates
    <3> QED
      BY <3>2, <3>3
  <2> HIDE DEF u
  <2>9. ~Pipelining => u.parts = IF st = "none" THEN y.parts \ {<<l, c>>} ELSE y.parts \cup {<<l, c>>}
    BY <2>3, <2>4, <2>6, <2>8 DEF Taken, ButStore
  <2>10. Fit(w, u, {}, O)
    BY <1>0, <2>1, <2>5, <2>6, <2>8, <2>9, FitLoopSet
  <2>11. \A g \in u.async : g.id # r
    BY <2>4, <2>8 DEF LoopSet, Taken
  <2>12. O \ {<<r, c>>} = {} /\ O \ {<<e.id, e.sock>>} = {}
    BY <2>1 DEF O, c
  <2>13. Fit(w, Respond(u, r, c), {}, {})
    BY <2>10, <2>11, <2>12, FitResponded
  <2>14. /\ Unused(u.be.wire, u.fe.wire, e.id) /\ u.up[e.sock] /\ (~Pipelining => <<e.id, e.sock>> \in u.owed)
         /\ u.sess[S] = c /\ e.id \in ClientReqs
    BY <1>0, <2>1, <2>2, <2>3, <2>4, <2>8 DEF LoopSet, Taken, ButStore, c
  <2>15. Fit(w, a, {}, O \ {<<e.id, e.sock>>})
    BY <2>1, <2>10, <2>14, FitReset
  <2>16. Fit(w, a, {}, {})
    BY <2>12, <2>15
  <2>17. u \in VocsStates
    BY <2>8 DEF LoopSet
  <2>18. ButStore(u, a) /\ a.async = u.async \cup {e}
    BY <2>1, <2>17, AskedFields
  <2> HIDE DEF a
  <2>19. Owns(a, r, S)
    BY <2>1, <2>11, <2>14, <2>18 DEF Owns, ButStore, c
  <2>20. Fit(w, z, {}, {})
    BY <1>0, <2>16, <2>19, FitLeaveLoop
  <2> HIDE DEF z
  <2>21. Fit(w, DropConnection(z, c, TRUE, TRUE), {}, {})
    BY <2>1, <2>20, FitClose
  <2>22. FrontendTalk(x, r, S, l, on, ok) \in
            {Respond(y, r, c), DropConnection(y, c, TRUE, TRUE), Respond(u, r, c), z,
             DropConnection(z, c, TRUE, TRUE)}
    BY <1>1, <1>3
  <2>23. Fit(w, FrontendTalk(x, r, S, l, on, ok), {}, {})
    BY <2>4, <2>7, <2>13, <2>20, <2>21, <2>22
  <2> QED
    BY <2>23 DEF r, S, l
<1> QED
    BY <1>2, <1>3

-----------------------------------------------------------------------------
(* Where sessions are when a proxy has said something.                     *)

(* Less is queued, nothing but sessions that are dropped is forgotten.     *)
Quieted(f, g) ==
    /\ g.open = f.open /\ g.owned = f.owned /\ g.home = f.home
    /\ \A p \in Proxies : g.live[p] \subseteq f.live[p] /\ In(g.wire[p]) \subseteq In(f.wire[p])
    /\ \A p \in Proxies : \A m \in In(f.wire[p]) : m.op = "drop" => m \in In(g.wire[p])

(* Such a step of the frontend.                                            *)
LEMMA PlacedQuieted ==
    ASSUME NEW x, NEW y, NEW T, NEW str, Placed(x, T, str), y \in VocsStates, y.sess = x.sess,
           Quieted(x.fe, y.fe)
    PROVE  Placed(y, T, str)
<1>1. Homes(y.fe, str)
    BY DEF Placed, Homes, Quieted
<1>2. \A S : DropUnderWay(x.fe, S) => DropUnderWay(y.fe, S)
    BY DEF DropUnderWay, Quieted
<1>3. Accounted(y, T)
    BY <1>2 DEF Placed, Accounted, Quieted
<1> QED
    BY <1>1, <1>3 DEF Placed

(* A session that is spoken of on one connection is live nowhere else,     *)
(* stranded sessions aside.                                                *)
LEMMA SpokenOf ==
    ASSUME NEW f, NEW str, Homes(f, str), NEW p \in Proxies, NEW m \in In(f.wire[p]), m.op # "create"
    PROVE  /\ \A q \in Proxies : q # p /\ m.session \in f.live[q] => m.session \in str
           /\ m.op = "failed" => m.session \notin f.live[p]
           /\ f.open[p] /\ f.home[m.session] \in {p, NoSocket}
<1>1. \A q \in Proxies : q # NoSocket
    BY ProxiesAssumption DEF NoSocket
<1> QED
    BY <1>1 DEF Homes

(* The head of a queue and what is left.                                   *)
LEMMA HeadLeft ==
    ASSUME NEW W \in ProxyQueues, NEW p \in Proxies, W[p] # <<>>, NEW Z, Shortened(Z, W, p)
    PROVE  /\ In(W[p]) = In(Z[p]) \cup {Head(W[p])}
           /\ \A q \in Proxies : q # p => Z[q] = W[q]
           /\ Head(W[p]) \in In(W[p])
<1>1. W \in [Proxies -> Seq(FE!ProxyMessages)] /\ W[p] \in Seq(FE!ProxyMessages)
    BY DEF ProxyQueues
<1>2. In(W[p]) = In(Tail(W[p])) \cup {Head(W[p])}
    BY <1>1, QueueFacts
<1>3. Z[p] = Tail(W[p]) /\ \A q \in Proxies : q # p => Z[q] = W[q]
    BY <1>1 DEF Shortened
<1> QED
    BY <1>2, <1>3

(* A message other than a drop has been handled.                           *)
LEMMA QuietedHeard ==
    ASSUME NEW f \in FE!FrontendStates, NEW g, NEW p \in Proxies, f.wire[p] # <<>>, Head(f.wire[p]).op # "drop",
           g.open = f.open, g.owned = f.owned, g.home = f.home, g.live = f.live,
           g.wire = [f.wire EXCEPT ![p] = Tail(f.wire[p])]
    PROVE  Quieted(f, g)
<1> DEFINE Z == g.wire
           W == f.wire
<1>0. Shortened(Z, W, p) /\ W \in ProxyQueues /\ W[p] # <<>>
    BY FrontendTyping DEF Shortened, ProxyQueues
<1> HIDE DEF Z, W
<1>1. In(W[p]) = In(Z[p]) \cup {Head(W[p])} /\ \A q \in Proxies : q # p => Z[q] = W[q]
    BY <1>0, HeadLeft
<1> QED
    BY <1>1 DEF Quieted, Z, W

(* The drop of a session the proxy does not have is confirmed.             *)
LEMMA PlacedDropHeard ==
    ASSUME NEW x, NEW y, NEW str, NEW p \in Proxies, NEW m, Placed(x, str, str), y \in VocsStates,
           y.sess = x.sess, x.fe.wire[p] # <<>>, m = Head(x.fe.wire[p]), m.op = "drop", m.session \in Users,
           m.session \notin x.fe.live[p], DropHandled(x.fe, y.fe, p, m.session)
    PROVE  Placed(y, str, str) /\ Lifeless(y.fe, m.session, str)
<1> DEFINE f == x.fe
           g == y.fe
           S == m.session
<1>0. f \in FE!FrontendStates /\ Homes(f, str) /\ Accounted(x, str) /\ S \in Users
    BY VocsTyping DEF Placed
<1>1. /\ f.home \in [Users -> Proxies \cup {NoSocket}] /\ f.live \in [Proxies -> SUBSET Users]
      /\ f.owned \in [Proxies -> SUBSET Users] /\ NoSocket \notin Proxies
    BY <1>0, FrontendTyping
<1>2. /\ g.open = f.open /\ g.live = f.live /\ g.wire = [f.wire EXCEPT ![p] = Tail(f.wire[p])]
      /\ g.home = [f.home EXCEPT ![S] = NoSocket]
      /\ \A q \in Proxies : g.owned[q] = IF q = f.home[S] THEN f.owned[q] \ {S} ELSE f.owned[q]
    BY DEF DropHandled
<1>3. /\ In(f.wire[p]) = In(g.wire[p]) \cup {m} /\ m \in In(f.wire[p])
      /\ \A q \in Proxies : q # p => g.wire[q] = f.wire[q]
  <2> DEFINE Z == g.wire
             W == f.wire
  <2>1. Shortened(Z, W, p) /\ W \in ProxyQueues /\ W[p] # <<>> /\ m = Head(W[p])
    BY <1>0, <1>2, FrontendTyping DEF Shortened, ProxyQueues
  <2> HIDE DEF Z, W
  <2>2. In(W[p]) = In(Z[p]) \cup {m} /\ m \in In(W[p]) /\ \A q \in Proxies : q # p => Z[q] = W[q]
    BY <2>1, HeadLeft
  <2> QED
    BY <2>2 DEF Z, W
<1>4. \A q \in Proxies : S \in f.live[q] => S \in str
    BY <1>0, <1>3, SpokenOf
<1>5. \A R \in Users : g.home[R] = IF R = S THEN NoSocket ELSE f.home[R]
    BY <1>1, <1>2
<1> HIDE DEF f, g, S
<1>6. Homes(g, str)
  <2>1. \A q \in Proxies : In(g.wire[q]) \subseteq In(f.wire[q])
    BY <1>3
  <2>2. \A q \in Proxies : ~g.open[q] => In(g.wire[q]) = {}
    BY <1>0, <1>2, <2>1 DEF Homes
  <2>3. \A q \in Proxies : \A R \in g.live[q] :
          g.home[R] \in {q, NoSocket} /\ (R \notin str => g.open[q] /\ g.home[R] = q)
    BY <1>0, <1>1, <1>2, <1>4, <1>5 DEF Homes
  <2>4. \A q \in Proxies : \A R \in g.owned[q] : g.home[R] = q
    <3> SUFFICES ASSUME NEW q \in Proxies, NEW R \in g.owned[q] PROVE g.home[R] = q
      OBVIOUS
    <3>1. R \in f.owned[q] /\ (q = f.home[S] => R # S)
      BY <1>2
    <3>2. R \in Users /\ f.home[R] = q
      BY <1>0, <1>1, <3>1 DEF Homes
    <3> QED
      BY <1>5, <3>1, <3>2
  <2>5. \A q \in Proxies : \A n \in In(g.wire[q]) : n.op # "create" =>
          g.home[n.session] \in {q, NoSocket} /\ (n.op = "failed" => n.session \notin g.live[q])
    <3> SUFFICES ASSUME NEW q \in Proxies, NEW n \in In(g.wire[q]), n.op # "create"
                 PROVE  /\ g.home[n.session] \in {q, NoSocket}
                        /\ n.op = "failed" => n.session \notin g.live[q]
      OBVIOUS
    <3>1. f.home[n.session] \in {q, NoSocket} /\ (n.op = "failed" => n.session \notin f.live[q])
      BY <1>0, <2>1 DEF Homes
    <3>2. g.home[n.session] \in {f.home[n.session], NoSocket}
      BY <1>1, <1>2, <1>0
    <3> QED
      BY <1>2, <3>1, <3>2
  <2> QED
    BY <2>2, <2>3, <2>4, <2>5 DEF Homes
<1>7. Accounted(y, str)
  <2> SUFFICES ASSUME NEW q \in Proxies, NEW R \in y.fe.live[q]
               PROVE  R \in str \/ y.sess[R] # NoSocket \/ DropUnderWay(y.fe, R)
    BY DEF Accounted
  <2>1. R \in f.live[q]
    BY <1>2 DEF g
  <2>2. CASE R = S
    BY <1>4, <2>1, <2>2
  <2>3. CASE R # S
    <3>1. R \in str \/ x.sess[R] # NoSocket \/ DropUnderWay(f, R)
      BY <1>0, <2>1 DEF Accounted, f
    <3>2. DropUnderWay(f, R) => DropUnderWay(g, R)
      BY <1>3, <2>3 DEF DropUnderWay, S
    <3> QED
      BY <3>1, <3>2 DEF g
  <2> QED
    BY <2>2, <2>3
<1> QED
    BY <1>2, <1>4, <1>6, <1>7 DEF Placed, Lifeless, f, g, S

(* A session ends at its proxy, while it is being dropped or because ICE   *)
(* has failed.                                                             *)
LEMMA PlacedEnded ==
    ASSUME NEW x, NEW y, NEW str, NEW p \in Proxies, NEW S \in Users, Placed(x, str, str), y \in VocsStates,
           y.sess = x.sess, x.fe.open[p], x.fe.home[S] \in {p, NoSocket},
           SessionEnded(x.fe, y.fe, p, S),
           \A q \in Proxies : In(x.fe.wire[q]) \subseteq In(y.fe.wire[q]),
           \A q \in Proxies : \A m \in In(y.fe.wire[q]) : m \in In(x.fe.wire[q])
               \/ (q = p /\ m.op = "failed" /\ m.session = S)
    PROVE  Placed(y, str, str) /\ Lifeless(y.fe, S, str)
<1> DEFINE f == x.fe
           g == y.fe
<1>0. f \in FE!FrontendStates /\ Homes(f, str) /\ Accounted(x, str)
    BY VocsTyping DEF Placed
<1>1. f.live \in [Proxies -> SUBSET Users] /\ NoSocket \notin Proxies
    BY <1>0, FrontendTyping
<1>2. g.open = f.open /\ g.owned = f.owned /\ g.home = f.home /\ g.live = [f.live EXCEPT ![p] = @ \ {S}]
    BY DEF SessionEnded
<1>3. \A q \in Proxies : g.live[q] \subseteq f.live[q] /\ (S \in g.live[q] => q # p)
    BY <1>1, <1>2
<1>4. \A q \in Proxies : S \in g.live[q] => S \in str
    BY <1>0, <1>1, <1>3 DEF Homes
<1>5. \A q \in Proxies : \A m \in In(g.wire[q]) : m \in In(f.wire[q]) \/ (q = p /\ m.op = "failed" /\ m.session = S)
    OBVIOUS
<1>6. \A q \in Proxies : In(f.wire[q]) \subseteq In(g.wire[q])
    OBVIOUS
<1>a. f.open[p] /\ f.home[S] \in {p, NoSocket}
    OBVIOUS
<1> HIDE DEF f, g
<1>7. Homes(g, str)
  <2>1. \A q \in Proxies : ~g.open[q] => In(g.wire[q]) = {}
    <3> SUFFICES ASSUME NEW q \in Proxies, ~g.open[q], NEW m \in In(g.wire[q]) PROVE FALSE
      OBVIOUS
    <3>1. q # p
      BY <1>2, <1>a
    <3> QED
      BY <1>0, <1>2, <1>5, <3>1 DEF Homes
  <2>2. \A q \in Proxies : \A R \in g.live[q] :
          g.home[R] \in {q, NoSocket} /\ (R \notin str => g.open[q] /\ g.home[R] = q)
    BY <1>0, <1>2, <1>3 DEF Homes
  <2>3. \A q \in Proxies : \A R \in g.owned[q] : g.home[R] = q
    BY <1>0, <1>2 DEF Homes
  <2>4. \A q \in Proxies : \A n \in In(g.wire[q]) : n.op # "create" =>
          g.home[n.session] \in {q, NoSocket} /\ (n.op = "failed" => n.session \notin g.live[q])
    <3> SUFFICES ASSUME NEW q \in Proxies, NEW n \in In(g.wire[q]), n.op # "create"
                 PROVE  /\ g.home[n.session] \in {q, NoSocket}
                        /\ n.op = "failed" => n.session \notin g.live[q]
      OBVIOUS
    <3>1. CASE n \in In(f.wire[q])
      BY <1>0, <1>2, <1>3, <3>1 DEF Homes
    <3>2. CASE q = p /\ n.op = "failed" /\ n.session = S
      BY <1>2, <1>3, <1>a, <3>2
    <3> QED
      BY <1>5, <3>1, <3>2
  <2> QED
    BY <2>1, <2>2, <2>3, <2>4 DEF Homes
<1>8. Accounted(y, str)
  <2>1. \A R : DropUnderWay(f, R) => DropUnderWay(g, R)
    BY <1>6 DEF DropUnderWay
  <2> QED
    BY <1>0, <1>3, <2>1 DEF Accounted, f, g
<1> QED
    BY <1>4, <1>7, <1>8 DEF Placed, Lifeless, g

(* The invariant of the service: Good, and every session in its place.     *)
Whole(x, str) == Good(x) /\ Placed(x, str, str)

(* Steps that only send.                                                   *)
LEMMA WholeOnward ==
    ASSUME NEW y, NEW z, NEW str, Placed(y, str, str), Fit(y, z, {}, {})
    PROVE  Whole(z, str)
<1>1. Good(z) /\ Onward(y, z)
    BY FitGood
<1> QED
    BY <1>1, PlacedOnward DEF Whole

(* The connection of a session that has ended at its proxy is dropped.     *)
LEMMA WholeDrop ==
    ASSUME NEW x, NEW str, NEW S \in Users, Whole(x, str), Lifeless(x.fe, S, str)
    PROVE  /\ Whole(SessionDropped(x, S), str) /\ Whole(SessionCompleted(x, S, FALSE), str)
           /\ SessionDropped(x, S).fe.live = x.fe.live
<1> DEFINE c == SocketOf(x, S)
           z == DropConnection(x, c, FALSE, TRUE)
<1>0. Sess(x) /\ Good(x) /\ Placed(x, str, str) /\ TRUE \in BOOLEAN /\ FALSE \in BOOLEAN
    BY DEF Whole, Good
<1>1. SessionDropped(x, S) = z /\ SessionCompleted(x, S, FALSE) = z
    BY DEF SessionDropped, SessionCompleted
<1>2. Placed(z, str, str) /\ z.fe.live = x.fe.live
  <2>1. ASSUME NEW frontend \in BOOLEAN, NEW backend \in BOOLEAN
        PROVE  /\ Placed(DropConnection(x, c, frontend, backend), str, str)
               /\ DropConnection(x, c, frontend, backend).fe.live = x.fe.live
    BY <1>0, PlacedDropOf
  <2> HIDE DEF c
  <2> QED
    BY <1>0, <2>1, Zenon
<1>3. c \in Clients \cup {NoSocket}
    BY <1>0, SocketBound
<1> HIDE DEF c
<1>4. Good(z)
    BY <1>0, <1>3, GoodDropOf
<1> HIDE DEF z
<1> QED
    BY <1>1, <1>2, <1>4 DEF Whole

(* A message other than a drop is taken off, perhaps with an effect on     *)
(* what is forwarded.                                                      *)
Hears(f, g, p) ==
    /\ f.wire[p] # <<>> /\ Head(f.wire[p]).op # "drop" /\ g \in FE!FrontendStates
    /\ g.open = f.open /\ g.owned = f.owned /\ g.home = f.home /\ g.live = f.live
    /\ g.wire = [f.wire EXCEPT ![p] = Tail(f.wire[p])]

(* Such a step.                                                            *)
LEMMA WholeHeard ==
    ASSUME NEW x, NEW str, NEW p \in Proxies, NEW g, Whole(x, str), Hears(x.fe, g, p)
    PROVE  LET y == [x EXCEPT !.fe = g] IN Whole(y, str) /\ y.fe = g /\ ButFe(x, y)
<1> DEFINE y == [x EXCEPT !.fe = g]
<1>0. Good(x) /\ Placed(x, str, str) /\ x.fe \in FE!FrontendStates
    BY VocsTyping DEF Whole, Placed
<1>a. /\ x.fe.wire[p] # <<>> /\ g.wire = [x.fe.wire EXCEPT ![p] = Tail(x.fe.wire[p])]
      /\ g \in FE!FrontendStates
    BY DEF Hears
<1>1. Good(y) /\ y.fe = g /\ ButFe(x, y)
    BY <1>0, <1>a, GoodShorter
<1>2. Quieted(x.fe, g)
    BY <1>0, QuietedHeard DEF Hears
<1> HIDE DEF y
<1>3. y \in VocsStates /\ y.sess = x.sess /\ Quieted(x.fe, y.fe)
    BY <1>1, <1>2 DEF Good, Sess, ButFe
<1>4. Placed(y, str, str)
    BY <1>0, <1>3, PlacedQuieted
<1> QED
    BY <1>1, <1>4 DEF Whole, y

(* Taken off without an effect.                                            *)
LEMMA WholeConsumed ==
    ASSUME NEW x, NEW str, NEW p \in Proxies, Whole(x, str), x.fe.wire[p] # <<>>, Head(x.fe.wire[p]).op # "drop"
    PROVE  LET y == [x EXCEPT !.fe = FE!Consume(x.fe, p)] IN
           Whole(y, str) /\ y.fe = FE!Consume(x.fe, p) /\ ButFe(x, y)
<1> DEFINE g == FE!Consume(x.fe, p)
<1>0. x.fe \in FE!FrontendStates
    BY VocsTyping DEF Whole, Placed
<1>1. /\ g \in FE!FrontendStates /\ OtherwiseSame(x.fe, g)
      /\ g.wire = [x.fe.wire EXCEPT ![p] = Tail(x.fe.wire[p])]
    BY <1>0, ConsumeFields
<1>2. Hears(x.fe, g, p)
    BY <1>1 DEF OtherwiseSame, Hears
<1> HIDE DEF g
<1>3. LET y == [x EXCEPT !.fe = g] IN Whole(y, str) /\ y.fe = g /\ ButFe(x, y)
    BY <1>2, WholeHeard
<1> QED
    BY <1>3 DEF g

(* What a proxy says about drops, failures and talking.                    *)
LEMMA WholeProxyAnswer ==
    ASSUME NEW x, NEW iss, NEW mk, NEW str, NEW p \in Proxies, Base(x, iss, mk), Whole(x, str),
           x.fe.wire[p] # <<>>, FE!Said(x.fe, p).op \notin {"create", "update", "candidate"}
    PROVE  Whole(OnProxyAnswer(x, p), str)
<1> DEFINE m == FE!Said(x.fe, p)
           S == m.session
<1>0. /\ FeWorded(m, iss, mk) /\ m \in FE!ProxyMessages /\ m = Head(x.fe.wire[p]) /\ m \in In(x.fe.wire[p])
    BY SaidWorded
<1>1. m.op \in {"drop", "failed"} \cup TalkOps /\ m.op # "create"
    BY <1>0 DEF FE!ProxyMessages, FE!FrontendOps, TalkOps
<1>2. /\ S \in Users /\ Homes(x.fe, str) /\ x.fe \in FE!FrontendStates /\ x \in VocsStates
      /\ Good(x) /\ Placed(x, str, str) /\ x.fe.wire \in [Proxies -> Seq(FE!ProxyMessages)]
    BY <1>0, <1>1, VocsTyping, FrontendTyping DEF FeWorded, Base, Whole, Placed
<1>a. /\ \A q \in Proxies : q # p /\ S \in x.fe.live[q] => S \in str
      /\ m.op = "failed" => S \notin x.fe.live[p]
      /\ x.fe.open[p] /\ x.fe.home[S] \in {p, NoSocket}
  <2> HIDE DEF m
  <2> QED
    BY <1>0, <1>1, <1>2, SpokenOf, SMTT(20)
<1>3. CASE m.op = "drop" /\ FE!DropFails(x.fe, p)
  <2> DEFINE g == FE!EndSession(x.fe, p, S)
             y == [x EXCEPT !.fe = g]
  <2>1. SessionEnded(x.fe, g, p, S) /\ g.wire = x.fe.wire
    BY <1>2, EndSessionFields
  <2>2. OnProxyAnswer(x, p) = SessionCompleted(y, S, FALSE)
    BY <1>3, OnProxyAnswerCases
  <2>3. g \in FE!FrontendStates
    BY <2>1 DEF SessionEnded
  <2> HIDE DEF g, m
  <2>4. Good(y) /\ y.fe = g /\ ButFe(x, y)
    BY <1>2, <2>1, <2>3, GoodShorter
  <2> HIDE DEF y, S
  <2>5. y \in VocsStates /\ y.sess = x.sess /\ SessionEnded(x.fe, y.fe, p, S) /\ y.fe.wire = x.fe.wire
    BY <2>1, <2>4 DEF Good, Sess, ButFe
  <2>6. Placed(y, str, str) /\ Lifeless(y.fe, S, str)
    BY <1>2, <1>a, <2>5, PlacedEnded
  <2> QED
    BY <1>2, <2>2, <2>4, <2>6, WholeDrop DEF Whole
<1>4. CASE m.op = "drop" /\ ~FE!DropFails(x.fe, p)
  <2> DEFINE g == FE!SessionDropped(x.fe, p)
             y == [x EXCEPT !.fe = g]
  <2>1. DropHandled(x.fe, g, p, S) /\ S \notin x.fe.live[p]
    BY <1>2, <1>4, SessionDroppedFields DEF FE!DropFails
  <2>2. OnProxyAnswer(x, p) = SessionDropped(y, S)
    BY <1>4, OnProxyAnswerCases
  <2>3. g \in FE!FrontendStates /\ g.wire = [x.fe.wire EXCEPT ![p] = Tail(x.fe.wire[p])]
    BY <2>1 DEF DropHandled
  <2> HIDE DEF g
  <2>4. Good(y) /\ y.fe = g /\ ButFe(x, y)
    BY <1>2, <2>3, GoodShorter
  <2> HIDE DEF y, m
  <2>5. y \in VocsStates /\ y.sess = x.sess /\ DropHandled(x.fe, y.fe, p, m.session)
    BY <2>1, <2>4 DEF Good, Sess, ButFe
  <2>6. Placed(y, str, str) /\ Lifeless(y.fe, m.session, str)
    <3>1. /\ Placed(x, str, str) /\ m = Head(x.fe.wire[p]) /\ m.op = "drop" /\ m.session \in Users
          /\ m.session \notin x.fe.live[p]
      BY <1>0, <1>2, <1>4, <2>1
    <3>2. Placed(y, str, str)
      BY <2>5, <3>1, PlacedDropHeard
    <3>3. Lifeless(y.fe, m.session, str)
      BY <1>a, <2>5, <3>1 DEF Lifeless, DropHandled
    <3> QED
      BY <3>2, <3>3
  <2> QED
    BY <1>2, <2>2, <2>4, <2>6, WholeDrop DEF Whole
<1>5. CASE m.op = "failed"
  <2> DEFINE y == [x EXCEPT !.fe = FE!Consume(x.fe, p)]
  <2>1. Whole(y, str) /\ y.fe = FE!Consume(x.fe, p)
    BY <1>0, <1>5, WholeConsumed
  <2>2. OnProxyAnswer(x, p) = SessionCompleted(y, S, FALSE)
    BY <1>5, OnProxyAnswerCases
  <2>3. y.fe.live = x.fe.live
    <3>1. OtherwiseSame(x.fe, FE!Consume(x.fe, p))
      BY <1>2, ConsumeFields
    <3> QED
      BY <2>1, <3>1 DEF OtherwiseSame
  <2> HIDE DEF y, m, S
  <2>4. Lifeless(y.fe, S, str)
    BY <1>a, <1>5, <2>3 DEF Lifeless
  <2> QED
    BY <1>2, <2>1, <2>2, <2>4, WholeDrop
<1>6. CASE m.op \in TalkOps
  <2> DEFINE g == FE!Talked(x.fe, p)
             y == [x EXCEPT !.fe = g]
             on == m.op = "talk on"
             ok == FE!TalkSucceeds(x.fe, p)
  <2>0. m.loop \in Loops /\ m.op # "drop"
    BY <1>0, <1>6 DEF FeWorded, TalkOps
  <2>1. FeHeard(y, m, iss, mk)
    BY <1>0, <1>6, BaseTalkHeard
  <2>2. TalkHandled(x.fe, g, p, m)
    BY <1>2, <2>0, TalkedFields
  <2>3. OnProxyAnswer(x, p) = FrontendTalk(y, m.id, m.session, m.loop, on, ok)
    BY <1>6, OnProxyAnswerCases
  <2>4. on \in BOOLEAN /\ ok \in BOOLEAN
    BY DEF FE!TalkSucceeds
  <2>5. Hears(x.fe, g, p)
    BY <1>0, <2>0, <2>2 DEF TalkHandled, Hears
  <2> HIDE DEF g
  <2>6. Whole(y, str) /\ ButFe(x, y)
    BY <2>5, WholeHeard
  <2> HIDE DEF y, on, ok, m
  <2>7. TalkFits(x, m)
    BY <1>0, <1>2 DEF Good, Lease, Told
  <2>8. TalkFits(y, m)
    BY <2>6, <2>7 DEF TalkFits, ButFe
  <2>9. Fit(y, y, {}, {}) /\ Placed(y, str, str)
    BY <2>6, FitGood DEF Whole
  <2>10. Fit(y, FrontendTalk(y, m.id, m.session, m.loop, on, ok), {}, {})
    BY <1>6, <2>1, <2>4, <2>8, <2>9, FitFrontendTalk
  <2> QED
    BY <2>3, <2>9, <2>10, WholeOnward
<1> QED
    BY <1>1, <1>3, <1>4, <1>5, <1>6

(* The answer to a candidate settles whatever is waiting for it.           *)
LEMMA FitCandidate ==
    ASSUME NEW w, NEW x, NEW r, NEW c, Fit(w, x, {}, {}), "candidate" \in Signals
    PROVE  Fit(w, Respond(AsyncUnset(x, r), r, c), {}, {})
<1> DEFINE y == Respond(AsyncUnset(x, r), r, c)
           X == {}
<1>0. x \in VocsStates /\ Sess(x) /\ Lease(x, X) /\ Onward(w, x)
    BY DEF Fit, Sess
<1>1. Settled(x, y, r, c) /\ Sess(y) /\ Onward(w, y)
    BY <1>0, TakenFields, SessStore, OnStore
<1> HIDE DEF y, X
<1>2. ButStore(x, y) /\ y.async = {e \in x.async : e.id # r} /\ y.owed = x.owed \ {<<r, c>>}
    BY <1>1 DEF Settled
<1>3. SameClients(x, y) /\ SameSlots(x, y)
    BY <1>2 DEF ButStore, SameClients, SameSlots
<1>4. MixersUntold(x, y) /\ ProxiesUntold(x.fe, y.fe)
    BY <1>2, QueuesSame DEF ButStore
<1>5. FewerStored(x, y)
    BY <1>2 DEF FewerStored
<1>6. Lease(y, X)
    BY <1>0, <1>3, <1>4, <1>5, LeaseSteady
<1> QED
    BY <1>1, <1>6 DEF Fit, Watch, X, y

(* Answers to create, update and candidate.                                *)
LEMMA WholeProxyMore ==
    ASSUME NEW x, NEW iss, NEW mk, NEW str, NEW p \in Proxies, Base(x, iss, mk), Whole(x, str),
           x.fe.wire[p] # <<>>
    PROVE  /\ FE!Said(x.fe, p).op = "create" => Whole(OnProxyRefused(x, p), str)
           /\ FE!Said(x.fe, p).op = "update" => Whole(OnProxyUpdated(x, p), str)
           /\ FE!Said(x.fe, p).op = "candidate" => \A ok : Whole(OnProxyCandidate(x, p, ok), str)
<1> DEFINE m == FE!Said(x.fe, p)
           y == [x EXCEPT !.fe = FE!Consume(x.fe, p)]
           r == m.id
           c == AsyncGet(y, r).sock
           k(ok) == IF ok THEN SocketOf(y, m.session) ELSE NoSocket
<1> SUFFICES ASSUME m.op \in {"create", "update", "candidate"}
             PROVE  /\ m.op # "candidate" => Whole(OnProxyRefused(x, p), str) /\ Whole(OnProxyUpdated(x, p), str)
                    /\ m.op = "candidate" => \A ok : Whole(OnProxyCandidate(x, p, ok), str)
    OBVIOUS
<1>0. m = Head(x.fe.wire[p]) /\ m \in In(x.fe.wire[p]) /\ m.op # "drop"
    BY SaidWorded
<1>1. Whole(y, str)
    BY <1>0, WholeConsumed
<1>2. Base(y, iss, mk)
    BY BaseConsumed DEF FeHeard
<1>3. /\ OnProxyRefused(x, p) = IF ~AsyncHas(y, r) THEN y ELSE Respond(AsyncUnset(y, r), r, c)
      /\ OnProxyUpdated(x, p) = IF ~AsyncHas(y, r) THEN y ELSE Respond(AsyncUnset(y, r), r, c)
      /\ \A ok : OnProxyCandidate(x, p, ok) = Respond(AsyncUnset(y, r), r, k(ok))
    BY DEF OnProxyRefused, OnProxyUpdated, OnProxyCandidate, SessionRefused, SessionUpdated, CandidateAnswered
<1>4. m.op = "candidate" => "candidate" \in Signals
    BY <1>0 DEF Whole, Good, Watch
<1> HIDE DEF m, y, r, c, k
<1>5. Fit(y, y, {}, {}) /\ Placed(y, str, str)
    BY <1>1, FitGood DEF Whole
<1>6. AsyncHas(y, r) => Fit(y, Respond(AsyncUnset(y, r), r, c), {}, {})
  <2> SUFFICES ASSUME AsyncHas(y, r) PROVE Fit(y, Respond(AsyncUnset(y, r), r, c), {}, {})
    OBVIOUS
  <2>1. Waits(y, r, c)
    BY <1>2, WaitsFound DEF c
  <2> QED
    BY <1>5, <2>1, FitTaken
<1>7. ASSUME NEW z, Fit(y, z, {}, {}) PROVE Whole(z, str)
    BY <1>5, <1>7, WholeOnward
<1>8. ASSUME m.op = "candidate", NEW ok PROVE Whole(OnProxyCandidate(x, p, ok), str)
  <2>1. Fit(y, Respond(AsyncUnset(y, r), r, k(ok)), {}, {})
    BY <1>4, <1>5, <1>8, FitCandidate
  <2> QED
    BY <1>3, <1>7, <2>1
<1> QED
    BY <1>1, <1>3, <1>6, <1>7, <1>8

(* ICE of a session has failed.                                            *)
LEMMA WholeIceFailed ==
    ASSUME NEW x, NEW str, NEW p \in Proxies, NEW S \in Users, Whole(x, str), x.fe.open[p], S \in x.fe.live[p]
    PROVE  Whole(OnIceFailed(x, p, S), str)
<1> DEFINE g == FE!IceFailed(x.fe, p, S)
           y == [x EXCEPT !.fe = g]
           n == FE!ProxyMessage("failed", None, S, None)
<1>0. /\ x.fe \in FE!FrontendStates /\ x \in VocsStates /\ Good(x) /\ Placed(x, str, str)
      /\ x.fe.wire \in [Proxies -> Seq(FE!ProxyMessages)] /\ Homes(x.fe, str)
    BY VocsTyping, FrontendTyping DEF Whole, Placed
<1>1. SessionEnded(x.fe, g, p, S)
    BY <1>0, IceFailedFields
<1>2. g.wire = [x.fe.wire EXCEPT ![p] = <<n>> \o x.fe.wire[p]]
    BY <1>0, IceFailedFields
<1>3. n \in FE!ProxyMessages /\ n.op = "failed" /\ n.session = S
  <2>1. "failed" \in FE!FrontendOps
    BY DEF FE!FrontendOps
  <2> QED
    BY <2>1, ProxyMessageType
<1>4. OnIceFailed(x, p, S) = SessionCompleted(y, S, FALSE)
    BY DEF OnIceFailed
<1> HIDE DEF g, n
<1>5. /\ \A q \in Proxies : In(x.fe.wire[q]) \subseteq In(g.wire[q])
      /\ \A q \in Proxies : \A m \in In(g.wire[q]) : m \in In(x.fe.wire[q]) \/ (q = p /\ m = n)
  <2>1. In(<<n>> \o x.fe.wire[p]) = In(x.fe.wire[p]) \cup {n}
    BY <1>0, <1>3, QueueFacts
  <2>2. \A q \in Proxies : g.wire[q] = IF q = p THEN <<n>> \o x.fe.wire[p] ELSE x.fe.wire[q]
    BY <1>0, <1>2
  <2> QED
    BY <2>1, <2>2
<1>6. g \in FE!FrontendStates /\ x.fe.home[S] \in {p, NoSocket}
    BY <1>0, <1>1 DEF SessionEnded, Homes
<1>7. NoNewCreate(x.fe.wire, g.wire) /\ ProxiesUntold(x.fe, g)
    BY <1>3, <1>5 DEF NoNewCreate, ProxiesUntold, TalkOps
<1>8. Good(y) /\ y.fe = g /\ ButFe(x, y)
    BY <1>0, <1>6, <1>7, GoodFe
<1> HIDE DEF y
<1>9. y \in VocsStates /\ y.sess = x.sess
    BY <1>8 DEF Good, Sess, ButFe
<1>10. /\ \A q \in Proxies : In(x.fe.wire[q]) \subseteq In(y.fe.wire[q])
       /\ \A q \in Proxies : \A m \in In(y.fe.wire[q]) : m \in In(x.fe.wire[q])
               \/ (q = p /\ m.op = "failed" /\ m.session = S)
       /\ SessionEnded(x.fe, y.fe, p, S)
    BY <1>1, <1>3, <1>5, <1>8
<1>11. Placed(y, str, str) /\ Lifeless(y.fe, S, str)
    BY <1>0, <1>6, <1>9, <1>10, PlacedEnded, ZenonT(30)
<1> QED
    BY <1>4, <1>8, <1>11, WholeDrop DEF Whole

(* ICE of a session has completed.                                         *)
LEMMA WholeIceCompleted ==
    ASSUME NEW x, NEW str, NEW S \in Users, Whole(x, str)
    PROVE  Whole(SessionCompleted(x, S, TRUE), str)
<1> DEFINE c == SocketOf(x, S)
           z == Announce([x EXCEPT !.conn[c].ice = TRUE], c)
           d == [x.conn[c] EXCEPT !.ice = TRUE]
<1>0. Sess(x) /\ x \in VocsStates /\ Fit(x, x, {}, {}) /\ Placed(x, str, str)
    BY FitGood DEF Whole, Good, Sess
<1>1. c \in Clients \cup {NoSocket} /\ (c # NoSocket => x.conn[c].session # None)
    BY <1>0, SocketBound
<1>2. SessionCompleted(x, S, TRUE) = IF c = NoSocket \/ x.conn[c].ice THEN x ELSE z
    BY DEF SessionCompleted
<1> HIDE DEF c
<1>3. ASSUME c # NoSocket, ~x.conn[c].ice PROVE Fit(x, z, {}, {})
  <2>1. c \in Clients /\ x.conn[c] \in Conns /\ x.conn[c].session # None
    BY <1>0, <1>1, <1>3, VocsTyping
  <2>2. Announced(x, z, c, d)
    BY <1>0, <2>1, AnnounceFields
  <2>3. /\ d \in Conns /\ d.session = x.conn[c].session /\ d.ice /\ d.mixer = x.conn[c].mixer
        /\ d.loops = x.conn[c].loops
    BY <2>1 DEF Conns
  <2> HIDE DEF d, z
  <2>4. Sess(z)
    BY <1>0, <1>3, <2>1, <2>2, <2>3, SessAnnounced
  <2> QED
    BY <1>0, <2>1, <2>2, <2>3, <2>4, FitAnnounced
<1> HIDE DEF z
<1>4. Fit(x, SessionCompleted(x, S, TRUE), {}, {})
    BY <1>0, <1>2, <1>3
<1> QED
    BY <1>0, <1>4, WholeOnward

-----------------------------------------------------------------------------
(* Proxies come and go, and the service starts again.                      *)

(* A proxy connects.                                                       *)
LEMMA WholeProxyConnect ==
    ASSUME NEW x, NEW str, NEW p \in Proxies, Whole(x, str), ~x.fe.open[p]
    PROVE  Whole([x EXCEPT !.fe = FE!RegisterProxy(x.fe, p)], str)
<1> DEFINE f == x.fe
           g == FE!RegisterProxy(f, p)
           y == [x EXCEPT !.fe = g]
<1>0. /\ f \in FE!FrontendStates /\ x \in VocsStates /\ Good(x) /\ Placed(x, str, str) /\ Homes(f, str)
      /\ f.open \in [Proxies -> BOOLEAN]
    BY VocsTyping, FrontendTyping DEF Whole, Placed
<1>1. /\ g \in FE!FrontendStates /\ g.open = [f.open EXCEPT ![p] = TRUE]
      /\ g.wire = [f.wire EXCEPT ![p] = <<>>] /\ g.owned = f.owned /\ g.home = f.home /\ g.live = f.live
    BY <1>0, RegisterProxyFields
<1> HIDE DEF g
<1>2. Good(y) /\ y.fe = g /\ ButFe(x, y)
  <2>1. Good(x) /\ g \in FE!FrontendStates /\ g.wire = [x.fe.wire EXCEPT ![p] = <<>>]
    BY <1>0, <1>1
  <2> QED
    BY <2>1, GoodShorter
<1>3. \A q \in Proxies : In(g.wire[q]) \subseteq In(f.wire[q])
  <2> DEFINE V == f.wire
             Z == g.wire
  <2>1. V \in [Proxies -> Seq(FE!ProxyMessages)] /\ Z = [V EXCEPT ![p] = <<>>]
    BY <1>0, <1>1, FrontendTyping
  <2> HIDE DEF V, Z
  <2>2. \A q \in Proxies : In(Z[q]) \subseteq In(V[q])
    BY <2>1, ShorterNothingNew
  <2> QED
    BY <2>2 DEF V, Z
<1>4. In(f.wire[p]) = {} /\ \A q \in Proxies : q # p => g.wire[q] = f.wire[q] /\ g.open[q] = f.open[q]
  <2>1. f.wire \in [Proxies -> Seq(FE!ProxyMessages)]
    BY <1>0, FrontendTyping
  <2> QED
    BY <1>0, <1>1, <2>1 DEF Homes
<1>5. g.open[p]
    BY <1>0, <1>1
<1> HIDE DEF y, f
<1>6. Homes(g, str)
  <2>1. \A q \in Proxies : ~g.open[q] => In(g.wire[q]) = {}
    BY <1>0, <1>4, <1>5 DEF Homes
  <2>2. \A q \in Proxies : \A R \in g.live[q] :
          g.home[R] \in {q, NoSocket} /\ (R \notin str => g.open[q] /\ g.home[R] = q)
    BY <1>0, <1>1, <1>4, <1>5 DEF Homes
  <2>3. \A q \in Proxies : \A R \in g.owned[q] : g.home[R] = q
    BY <1>0, <1>1 DEF Homes
  <2>4. \A q \in Proxies : \A n \in In(g.wire[q]) : n.op # "create" =>
          g.home[n.session] \in {q, NoSocket} /\ (n.op = "failed" => n.session \notin g.live[q])
    BY <1>0, <1>1, <1>3 DEF Homes
  <2> QED
    BY <2>1, <2>2, <2>3, <2>4 DEF Homes
<1>7. \A R : DropUnderWay(f, R) => DropUnderWay(g, R)
    BY <1>4 DEF DropUnderWay
<1>8. y.sess = x.sess /\ y \in VocsStates
    BY <1>2 DEF ButFe, Good, Sess
<1>9. Accounted(y, str)
    BY <1>0, <1>1, <1>2, <1>7, <1>8 DEF Accounted, Placed, f
<1>10. Whole(y, str)
    BY <1>0, <1>2, <1>6, <1>8, <1>9 DEF Placed, Whole
<1> QED
    BY <1>10 DEF y, g, f

(* A proxy is gone, and keeps some of its sessions.                        *)
LEMMA WholeProxyGone ==
    ASSUME NEW x, NEW y, NEW str, NEW p \in Proxies, NEW kept \in SUBSET x.fe.live[p], Placed(x, str, str),
           Good(y), ButFe(x, y), ProxyGone(x.fe, y.fe, p, kept),
           \A q \in Proxies : In(y.fe.wire[q]) \subseteq In(x.fe.wire[q])
    PROVE  /\ Whole(y, str \cup kept)
           /\ \A S \in x.fe.owned[p] : Lifeless(y.fe, S, str \cup kept)
<1> DEFINE f == x.fe
           g == y.fe
           all == str \cup kept
<1>0. /\ f \in FE!FrontendStates /\ Homes(f, str) /\ Accounted(x, str) /\ y \in VocsStates /\ y.sess = x.sess
      /\ kept \subseteq f.live[p]
    BY VocsTyping DEF Placed, Good, Sess, ButFe
<1>1. /\ f.open \in [Proxies -> BOOLEAN] /\ f.live \in [Proxies -> SUBSET Users]
      /\ f.owned \in [Proxies -> SUBSET Users] /\ f.wire \in [Proxies -> Seq(FE!ProxyMessages)]
      /\ NoSocket \notin Proxies
    BY <1>0, FrontendTyping
<1>2. /\ g.open = [f.open EXCEPT ![p] = FALSE] /\ g.wire = [f.wire EXCEPT ![p] = <<>>]
      /\ g.owned = [f.owned EXCEPT ![p] = {}] /\ g.live = [f.live EXCEPT ![p] = kept] /\ g.home = f.home
    BY DEF ProxyGone
<1>3. /\ \A q \in Proxies : q # p => /\ g.open[q] = f.open[q] /\ g.wire[q] = f.wire[q]
                                     /\ g.owned[q] = f.owned[q] /\ g.live[q] = f.live[q]
      /\ g.owned[p] = {} /\ g.live[p] = kept /\ In(g.wire[p]) = {}
    BY <1>1, <1>2, EmptyQueue
<1>4. str \subseteq all /\ kept \subseteq all
    OBVIOUS
<1> HIDE DEF f, g, all
<1>5. Homes(g, all)
  <2>1. \A q \in Proxies : ~g.open[q] => In(g.wire[q]) = {}
    BY <1>0, <1>3 DEF Homes
  <2>2. \A q \in Proxies : \A R \in g.live[q] :
          g.home[R] \in {q, NoSocket} /\ (R \notin all => g.open[q] /\ g.home[R] = q)
    BY <1>0, <1>2, <1>3, <1>4 DEF Homes
  <2>3. \A q \in Proxies : \A R \in g.owned[q] : g.home[R] = q
    BY <1>0, <1>2, <1>3 DEF Homes
  <2>4. \A q \in Proxies : \A n \in In(g.wire[q]) : n.op # "create" =>
          g.home[n.session] \in {q, NoSocket} /\ (n.op = "failed" => n.session \notin g.live[q])
    BY <1>0, <1>2, <1>3 DEF Homes
  <2> QED
    BY <2>1, <2>2, <2>3, <2>4 DEF Homes
<1>6. Accounted(y, all)
  <2> SUFFICES ASSUME NEW q \in Proxies, NEW R \in g.live[q], R \notin all, x.sess[R] = NoSocket
               PROVE  DropUnderWay(g, R)
    BY <1>0 DEF Accounted, g
  <2>1. q # p /\ R \in f.live[q] /\ R \notin str
    BY <1>3, <1>4
  <2>2. DropUnderWay(f, R) /\ f.home[R] = q
    BY <1>0, <2>1 DEF Accounted, Homes, f
  <2>3. PICK t \in Proxies : \E m \in In(f.wire[t]) : m.op = "drop" /\ m.session = R
    BY <2>2 DEF DropUnderWay
  <2>4. t = q
    <3>1. PICK m \in In(f.wire[t]) : m.op = "drop" /\ m.session = R
      BY <2>3
    <3>2. f.home[m.session] \in {t, NoSocket}
      BY <1>0, <3>1 DEF Homes
    <3> QED
      BY <1>1, <2>2, <3>1, <3>2
  <2> QED
    BY <1>3, <2>1, <2>3, <2>4 DEF DropUnderWay
<1>7. ASSUME NEW S \in f.owned[p], NEW q \in Proxies, S \in g.live[q] PROVE S \in all
  <2>1. CASE q = p
    BY <1>3, <1>4, <1>7, <2>1
  <2>2. CASE q # p
    <3>1. S \in f.live[q] /\ f.home[S] = p
      BY <1>0, <1>3, <1>7, <2>2 DEF Homes
    <3> QED
      BY <1>0, <1>4, <2>2, <3>1 DEF Homes
  <2> QED
    BY <2>1, <2>2
<1>8. Whole(y, all)
    BY <1>0, <1>5, <1>6 DEF Whole, Placed, g
<1> QED
    BY <1>7, <1>8 DEF Lifeless, all, f, g

(* A proxy is lost: its sessions are dropped one after the other.          *)
LEMMA WholeProxyLost ==
    ASSUME NEW x, NEW iss, NEW mk, NEW str, NEW p \in Proxies, NEW kept \in SUBSET x.fe.live[p],
           Base(x, iss, mk), Whole(x, str)
    PROVE  Whole(OnProxyLost(x, p, kept), str \cup kept)
<1> DEFINE g == FE!UnregisterProxy(x.fe, p, kept)
           y == [x EXCEPT !.fe = g]
           Ss == x.fe.owned[p]
           all == str \cup kept
           T == {z \in VocsStates : Whole(z, all) /\ z.fe.live = y.fe.live}
<1>0. /\ x.fe \in FE!FrontendStates /\ kept \in SUBSET Users /\ IsFiniteSet(Ss) /\ Ss \subseteq Users
      /\ Good(x) /\ Placed(x, str, str)
    BY VocsTyping, FrontendTyping DEF Base, FiniteTables, Whole
<1>1. ProxyGone(x.fe, g, p, kept)
    BY <1>0, UnregisterProxyFields
<1>2. OnProxyLost(x, p, kept) = AfterDrops(y, Ss)[Ss]
    BY LostIsIteration
<1> HIDE DEF g
<1>3. g \in FE!FrontendStates /\ g.wire = [x.fe.wire EXCEPT ![p] = <<>>]
    BY <1>1 DEF ProxyGone
<1>4. Good(y) /\ y.fe = g /\ ButFe(x, y)
    BY <1>0, <1>3, GoodShorter
<1>5. \A q \in Proxies : In(g.wire[q]) \subseteq In(x.fe.wire[q])
    BY <1>0, <1>3, GoodShorter
<1> HIDE DEF y
<1>6. ProxyGone(x.fe, y.fe, p, kept) /\ \A q \in Proxies : In(y.fe.wire[q]) \subseteq In(x.fe.wire[q])
    BY <1>1, <1>4, <1>5
<1>7. Whole(y, all)
    BY <1>0, <1>4, <1>6, WholeProxyGone
<1>8. \A S \in Ss : Lifeless(y.fe, S, all)
    BY <1>0, <1>4, <1>6, WholeProxyGone
<1> HIDE DEF Ss, all
<1>9. y \in T
    BY <1>7 DEF Whole, Placed
<1>10. \A z \in T, S \in Ss : SessionDropped(z, S) \in T
  <2> SUFFICES ASSUME NEW z \in T, NEW S \in Ss PROVE SessionDropped(z, S) \in T
    OBVIOUS
  <2>1. S \in Users /\ Whole(z, all) /\ z.fe.live = y.fe.live
    BY <1>0
  <2>2. Lifeless(z.fe, S, all)
    BY <1>8, <2>1 DEF Lifeless
  <2>3. Whole(SessionDropped(z, S), all) /\ SessionDropped(z, S).fe.live = z.fe.live
    BY <2>1, <2>2, WholeDrop
  <2> QED
    BY <2>1, <2>3 DEF Whole, Placed
<1> HIDE DEF T
<1>11. AfterDrops(y, Ss)[Ss] \in T
    BY <1>0, <1>9, <1>10, DropsStay
<1> QED
    BY <1>2, <1>11 DEF T, all

(* Nothing is under way, and the proxies' sessions are all stranded.       *)
LEMMA WholeFresher ==
    ASSUME NEW y, NEW str, Fresher(y), \A p \in Proxies : y.fe.live[p] \subseteq str
    PROVE  Whole(y, str)
<1>0. /\ y \in VocsStates /\ y.async = {} /\ y.owed = {} /\ y.parts = {}
      /\ y.conn = [c \in Clients |-> NoData] /\ y.sess = [S \in Users |-> NoSocket] /\ y.be = BackendInit
      /\ y.fe.wire = [p \in Proxies |-> <<>>] /\ y.fe.owned = [p \in Proxies |-> {}]
      /\ y.fe.home = [S \in Users |-> NoSocket] /\ y.fe \in FE!FrontendStates
    BY VocsTyping DEF Fresher
<1>1. /\ \A c \in Clients : y.conn[c] = NoData
      /\ \A s \in Sockets : y.be.slot[s] = Closed /\ In(y.be.wire[s]) = {}
      /\ \A S \in Users : y.be.users[S] = NoSlot /\ y.sess[S] = NoSocket /\ y.fe.home[S] = NoSocket
      /\ \A p \in Proxies : In(y.fe.wire[p]) = {} /\ y.fe.owned[p] = {}
    BY <1>0, BackendInitFields, EmptyQueue
<1>2. Closed \notin Users /\ \A p \in Proxies : y.fe.live[p] \subseteq Users
    BY <1>0, BackendInitFields, BackendTyping, FrontendTyping
<1>3. OpenOnly(y)
    BY <1>0, <1>1, NoDataType DEF OpenOnly
<1>4. Slots(y, {})
    BY <1>1, <1>2, NoDataType DEF Slots
<1>5. Queued(y, {}) /\ Told(y)
    BY <1>1 DEF Queued, Told
<1>6. Single(y) /\ Listed(y)
    BY <1>0, <1>1, NoDataType DEF Single, Listed
<1>7. Watch(y, {})
    BY <1>0, <1>1 DEF Watch
<1>8. Good(y)
    BY <1>3, <1>4, <1>5, <1>6, <1>7, SessFresher DEF Good, Lease
<1>9. Homes(y.fe, str)
    BY <1>1, <1>2 DEF Homes
<1>10. Accounted(y, str)
    BY DEF Accounted
<1> QED
    BY <1>0, <1>8, <1>9, <1>10 DEF Whole, Placed

(* A client connects.                                                      *)
LEMMA WholeConnect ==
    ASSUME NEW x, NEW str, NEW c \in Clients, Whole(x, str)
    PROVE  Whole([x EXCEPT !.up[c] = TRUE], str)
<1> DEFINE y == [x EXCEPT !.up[c] = TRUE]
<1>1. x \in VocsStates /\ Good(x) /\ Placed(x, str, str) /\ Sess(y)
    BY SessConnect DEF Whole, Placed, Good
<1>2. /\ y \in VocsStates /\ y.sess = x.sess /\ y.conn = x.conn /\ y.async = x.async
      /\ y.be = x.be /\ y.fe = x.fe /\ y.parts = x.parts /\ y.owed = x.owed
      /\ y.up = [x.up EXCEPT ![c] = TRUE]
    BY <1>1 DEF VocsStates
<1> HIDE DEF y
<1>3. \A k \in Clients : x.up[k] => y.up[k]
    BY <1>1, <1>2, VocsTyping
<1>4. \A e \in x.async : e.sock \in Clients
    BY <1>1, VocsTyping DEF Entries
<1>5. OpenOnly(y)
    BY <1>1, <1>2, <1>3, <1>4 DEF Good, Lease, OpenOnly
<1>6. Slots(y, {})
    BY <1>1, <1>2 DEF Good, Lease, Slots
<1>7. Queued(y, {}) /\ Told(y)
    BY <1>1, <1>2 DEF Good, Lease, Queued, MixerFits, Over, Told, TalkFits
<1>8. ~Pipelining => Single(y) /\ Listed(y)
    BY <1>1, <1>2 DEF Good, Lease, Single, Listed
<1>9. Watch(y, {})
    BY <1>1, <1>2 DEF Good, Watch
<1>10. Good(y)
    BY <1>1, <1>5, <1>6, <1>7, <1>8, <1>9 DEF Good, Lease
<1>11. Onward(x, y)
    BY <1>1, <1>2, OnwardPlain
<1>12. Whole(y, str)
    BY <1>1, <1>10, <1>11, PlacedOnward DEF Whole
<1> QED
    BY <1>12 DEF y

(* A request is too old, if its client has sent no other.                  *)
LEMMA FitTimeout ==
    ASSUME NEW x, NEW iss, NEW mk, NEW r, ~Pipelining, Base(x, iss, mk), Fit(x, x, {}, {}), AsyncHas(x, r)
    PROVE  Fit(x, AsyncTimedout(x, r), {}, {})
<1> DEFINE c == AsyncGet(x, r).sock
           y == Respond(AsyncUnset(x, r), r, c)
           X == {}
           O == {}
<1>0. x \in VocsStates
    BY DEF Base
<1>1. c \in Clients /\ Waits(x, r, c)
    BY WaitsFound
<1>2. AsyncGet(x, r) \in x.async /\ AsyncGet(x, r).id = r
    BY <1>0, AsyncFound
<1>3. Settled(x, y, r, c) /\ AsyncTimedout(x, r) = DropLocked(y, c, TRUE, TRUE)
    BY <1>0, TakenFields DEF AsyncTimedout
<1>4. <<r, c>> \in x.owed /\ \A e \in x.async : e.sock = c => e.id = r
  <2>1. Single(x)
    BY DEF Fit, Lease
  <2>2. <<r, c>> \in x.owed
    BY <1>2, <2>1 DEF Single
  <2> QED
    BY <2>1, <2>2 DEF Single
<1> HIDE DEF c
<1>5. Fit(x, y, {}, {})
    BY <1>1, FitTaken
<1> HIDE DEF y
<1>6. \A e \in y.async : e.sock # c
    BY <1>3, <1>4 DEF Settled
<1>7. Fit(x, y, X, O) /\ X \subseteq {c} /\ X = {} /\ \A o \in O : o[2] = c
    BY <1>5
<1> HIDE DEF X, O
<1>8. Fit(x, DropLocked(y, c, TRUE, TRUE), {}, {})
    BY <1>1, <1>6, <1>7, FitDrop
<1> QED
    BY <1>3, <1>8

-----------------------------------------------------------------------------
(* A session is made.                                                      *)

(* No mixer knows of session S, and no proxy is told of it.                *)
Unmixed(x, S) ==
    /\ x.be.users[S] = NoSlot /\ \A s \in Sockets : x.be.slot[s] # S
    /\ \A s \in Sockets : \A m \in In(x.be.wire[s]) : m.user # S

Newcomer(x, S) ==
    /\ x.sess[S] = NoSocket /\ Unmixed(x, S)
    /\ \A p \in Proxies : \A m \in In(x.fe.wire[p]) : m.op # "create" => m.session # S

(* A session that no proxy has made before.                                *)
LEMMA NewcomerFound ==
    ASSUME NEW x, NEW iss, NEW mk, NEW S \in Users \ mk, Base(x, iss, mk)
    PROVE  Newcomer(x, S) /\ Unknown(x, S)
<1>1. Unknown(x, S)
    BY DEF Base
<1>2. \A s \in Sockets : \A m \in In(x.be.wire[s]) : m.user # S
    BY DEF Base, BeMeant, BeWorded
<1>3. \A p \in Proxies : \A m \in In(x.fe.wire[p]) : m.op # "create" => m.session # S
    BY DEF Base, FeMeant, FeWorded
<1> QED
    BY <1>1, <1>2, <1>3 DEF Newcomer, Unmixed, Unknown

(* Request r of c, which has waited for it alone, gets the new session S.  *)
BindsFirst(x, b, r, S, c) ==
    /\ Good(x) /\ Newcomer(x, S) /\ Binding(x, b, r, S, c)
    /\ x.conn[c].session = None /\ Waits(x, r, c) /\ x.up[c]
    /\ \A g \in b.async : CreateAwaited(x, g) => g.sock # c

(* It is bound to the connection that waits for it.                        *)
LEMMA FitBinding ==
    ASSUME NEW x, NEW b, NEW r, NEW S \in Users, NEW c \in Clients, BindsFirst(x, b, r, S, c)
    PROVE  /\ Fit(b, b, {}, {<<r, c>>}) /\ Onward(x, b) /\ Unmixed(b, S)
           /\ ~b.conn[c].mixer /\ b.sess[S] = c
<1> USE DEF BindsFirst
<1> DEFINE O == {<<r, c>>}
<1>0. /\ x \in VocsStates /\ b \in VocsStates /\ Sess(x) /\ Lease(x, {}) /\ Watch(x, {})
      /\ x.sess[S] = NoSocket
    BY DEF Good, Sess, Binding, Newcomer
<1>1. /\ x.conn \in [Clients -> Conns] /\ x.sess \in [Users -> Clients \cup {NoSocket}]
      /\ x.async \subseteq Entries /\ NoSocket \notin Clients /\ None \notin Users /\ x.conn[c] \in Conns
      /\ x.owed \subseteq Reqs \X Clients /\ x.be \in BackendStates
      /\ x.be.wire \in [Sockets -> Seq(Messages)] /\ x.fe \in FE!FrontendStates
      /\ x.be.slot \in [Sockets -> Users \cup {Closed, Free}]
    BY <1>0, VocsTyping, NoneAssumption, BackendTyping
<1>2. /\ b.conn = [x.conn EXCEPT ![c] = [x.conn[c] EXCEPT !.session = S]]
      /\ b.sess = [x.sess EXCEPT ![S] = c] /\ b.async = {e \in x.async : e.id # r}
      /\ b.be = x.be /\ b.fe = x.fe /\ b.up = x.up /\ b.owed = x.owed /\ b.parts = x.parts
    BY DEF Binding
<1>3. NotAcquired(x.be.wire, S)
    BY DEF Newcomer, Unmixed, NotAcquired
<1>4. Sess(b) /\ ~b.conn[c].mixer /\ b.sess[S] = c
    BY <1>0, <1>3, SessBinding
<1>5. /\ \A k \in Clients : k # c => b.conn[k] = x.conn[k]
      /\ b.conn[c].session = S /\ b.conn[c].loops = x.conn[c].loops
      /\ \A T \in Users : T # S => b.sess[T] = x.sess[T]
    BY <1>1, <1>2 DEF Conns
<1>6. OpenOnly(b)
    BY <1>0, <1>2, <1>5 DEF Lease, OpenOnly
<1>7. Slots(b, {})
  <2>1. Slots(x, {}) /\ Newcomer(x, S)
    BY <1>0 DEF Lease
  <2>2. \A s \in Sockets, T \in Users :
          b.be.slot[s] = T => b.be.users[T] = s /\ b.sess[T] # NoSocket
    BY <1>2, <1>5, <2>1 DEF Slots, Newcomer, Unmixed
  <2>3. \A T \in Users : b.sess[T] # NoSocket =>
          b.be.users[T] = NoSlot \/ b.be.slot[b.be.users[T]] = T
    BY <1>2, <1>5, <2>1 DEF Slots, Newcomer, Unmixed
  <2>4. \A k \in Clients : b.conn[k].mixer => b.be.users[b.conn[k].session] # NoSlot
    BY <1>2, <1>4, <1>5, <2>1 DEF Slots
  <2> QED
    BY <2>2, <2>3, <2>4 DEF Slots
<1>8. Queued(b, {})
  <2> SUFFICES ASSUME NEW s \in Sockets, NEW m \in In(b.be.wire[s]) PROVE MixerFits(b, {}, s, m)
    BY DEF Queued
  <2>1. MixerFits(x, {}, s, m) /\ m.user # S
    BY <1>0, <1>2 DEF Lease, Queued, Newcomer, Unmixed
  <2>2. m.user \in Users
    <3>1. m \in Messages
      BY <1>1, <1>2, QueueFacts
    <3> QED
      BY <3>1 DEF Messages
  <2>3. b.sess[m.user] = x.sess[m.user] /\ b.async \subseteq x.async
    BY <1>2, <1>5, <2>1, <2>2
  <2> QED
    BY <1>2, <2>1, <2>3 DEF MixerFits, Over
<1>9. Told(b)
  <2> SUFFICES ASSUME NEW p \in Proxies, NEW m \in In(b.fe.wire[p]) PROVE TalkFits(b, m)
    BY DEF Told
  <2>1. TalkFits(x, m) /\ (m.op \in TalkOps => m.session # S)
    BY <1>0, <1>2 DEF Lease, Told, Newcomer, TalkOps
  <2>2. \A e \in b.async : e \in x.async /\ e.sock \in Clients /\ b.conn[e.sock].loops = x.conn[e.sock].loops
    BY <1>1, <1>2, <1>5 DEF Entries
  <2> QED
    BY <1>5, <2>1, <2>2 DEF TalkFits
<1>10. ~Pipelining => Single(b) /\ Listed(b)
    BY <1>0, <1>2, <1>5 DEF Lease, Single, Listed
<1>11. Watch(b, O)
  <2> SUFFICES ASSUME "candidate" \notin Signals PROVE Watch(b, O)
    BY DEF Watch
  <2>1. ASSUME NEW o \in b.owed \ O PROVE \E e \in b.async : e.id = o[1] /\ e.sock = o[2]
    <3>1. PICK e \in x.async : e.id = o[1] /\ e.sock = o[2]
      BY <1>0, <1>2, <2>1 DEF Watch
    <3>2. o = <<o[1], o[2]>>
      BY <1>1, <1>2
    <3>3. e.id # r
      BY <3>1, <3>2 DEF Waits, O
    <3> QED
      BY <1>2, <3>1, <3>3
  <2>2. \A p \in Proxies : \A m \in In(b.fe.wire[p]) : m.op # "candidate"
    BY <1>0, <1>2 DEF Watch
  <2> QED
    BY <2>1, <2>2 DEF Watch
<1>12. Onward(b, b)
    BY <1>0, OnwardPlain
<1>13. Onward(x, b)
  <2>1. Sends(x.fe, b.fe)
    BY <1>2 DEF Sends, OtherwiseSame
  <2> QED
    BY <1>0, <1>1, <1>2, <1>5, <2>1 DEF Onward
<1>14. Unmixed(b, S)
    BY <1>2 DEF Newcomer, Unmixed
<1> QED
    BY <1>4, <1>6, <1>7, <1>8, <1>9, <1>10, <1>11, <1>12, <1>13, <1>14 DEF Fit, Lease, O

(* A free mixer is asked for.                                              *)
LEMMA FitAcquire ==
    ASSUME NEW w, NEW x, NEW O, NEW r \in Reqs, NEW S \in Users, NEW c \in Clients, Fit(w, x, {}, O),
           MixerAvailable(x.be), x.sess[S] = c, ~x.conn[c].mixer, Unmixed(x, S)
    PROVE  LET y == [x EXCEPT !.be = AcquireMixer(x.be, r, S)] IN
           Fit(w, y, {}, O) /\ y.up = x.up /\ y.async = x.async
<1> DEFINE b == AcquireMixer(x.be, r, S)
           t == FirstFree(x.be)
           n == Message("acquire", r, S, None)
           y == [x EXCEPT !.be = b]
<1>0. /\ x \in VocsStates /\ x.be \in BackendStates /\ Sess(x) /\ Lease(x, {}) /\ Watch(x, O) /\ Onward(w, x)
      /\ NoSocket \notin Clients
    BY VocsTyping DEF Fit, Sess
<1>a. x.be \in BackendStates
    BY <1>0
<1>1. /\ b \in BackendStates /\ t \in Sockets /\ x.be.slot[t] = Free
      /\ b.slot = [x.be.slot EXCEPT ![t] = S] /\ b.users = [x.be.users EXCEPT ![S] = t]
      /\ b.mix = x.be.mix /\ b.wire = [x.be.wire EXCEPT ![t] = Append(@, n)]
    BY <1>a, AcquireMixerFields, SMTT(20)
<1>2. n \in Messages /\ n.op = "acquire" /\ n.user = S
    BY NoneAssumption DEF Message, Messages, BackendOps
<1>3. Sess(y)
    BY <1>0, SessAcquire
<1> HIDE DEF b, t, n
<1>4. y \in VocsStates /\ y.be = b /\ ButBe(x, y)
    BY <1>0, <1>1, WithBe
<1>5. Onward(w, y)
    BY <1>0, <1>1, OnSteps
<1> HIDE DEF y
<1>6. /\ x.be.slot \in [Sockets -> Users \cup {Closed, Free}] /\ x.be.users \in [Users -> Sockets \cup {NoSlot}]
      /\ x.be.wire \in [Sockets -> Seq(Messages)] /\ Free \notin Users /\ NoSlot \notin Sockets
    BY <1>0, BackendTyping
<1>7. /\ \A s \in Sockets : b.slot[s] = IF s = t THEN S ELSE x.be.slot[s]
      /\ \A T \in Users : b.users[T] = IF T = S THEN t ELSE x.be.users[T]
    BY <1>1, <1>6
<1>8. \A s \in Sockets : \A m \in In(b.wire[s]) : m \in In(x.be.wire[s]) \/ (m = n /\ s = t)
  <2>1. In(Append(x.be.wire[t], n)) = In(x.be.wire[t]) \cup {n}
    BY <1>1, <1>2, <1>6, QueueFacts
  <2>2. \A s \in Sockets : b.wire[s] = IF s = t THEN Append(x.be.wire[t], n) ELSE x.be.wire[s]
    BY <1>1, <1>6
  <2> QED
    BY <2>1, <2>2
<1>9. /\ y.sess = x.sess /\ y.conn = x.conn /\ y.async = x.async /\ y.up = x.up /\ y.fe = x.fe
      /\ y.parts = x.parts /\ y.owed = x.owed
    BY <1>4 DEF ButBe
<1>10. Slots(y, {})
  <2>1. Slots(x, {})
    BY <1>0 DEF Lease
  <2>2. \A s \in Sockets, T \in Users : y.be.slot[s] = T => y.be.users[T] = s /\ y.sess[T] # NoSocket
    <3> SUFFICES ASSUME NEW s \in Sockets, NEW T \in Users, b.slot[s] = T
                 PROVE  b.users[T] = s /\ x.sess[T] # NoSocket
      BY <1>4, <1>9
    <3>1. CASE s = t
      BY <1>0, <1>7, <3>1
    <3>2. CASE s # t
      BY <1>7, <2>1, <3>2 DEF Slots, Unmixed
    <3> QED
      BY <3>1, <3>2
  <2>3. \A T \in Users : y.sess[T] # NoSocket => y.be.users[T] = NoSlot \/ y.be.slot[y.be.users[T]] = T
    <3> SUFFICES ASSUME NEW T \in Users, x.sess[T] # NoSocket, b.users[T] # NoSlot
                 PROVE  b.slot[b.users[T]] = T
      BY <1>4, <1>9
    <3>1. CASE T = S
      BY <1>1, <1>7, <3>1
    <3>2. CASE T # S
      <4>1. b.users[T] = x.be.users[T] /\ x.be.slot[x.be.users[T]] = T /\ x.be.users[T] \in Sockets
        BY <1>6, <1>7, <2>1, <3>2 DEF Slots
      <4> QED
        BY <1>1, <1>6, <1>7, <4>1
    <3> QED
      BY <3>1, <3>2
  <2>4. \A k \in Clients : y.conn[k].mixer => y.be.users[y.conn[k].session] # NoSlot
    <3> SUFFICES ASSUME NEW k \in Clients, x.conn[k].mixer PROVE b.users[x.conn[k].session] # NoSlot
      BY <1>4, <1>9
    <3>1. x.conn[k].session \in Users
      <4>1. x.conn[k] \in Conns /\ x.conn[k].session # None
        BY <1>0, VocsTyping DEF Sess, MediaTold
      <4> QED
        BY <4>1 DEF Conns
    <3>2. x.be.users[x.conn[k].session] # NoSlot
      BY <2>1 DEF Slots
    <3> QED
      BY <1>1, <1>6, <1>7, <3>1, <3>2
  <2> QED
    BY <2>2, <2>3, <2>4 DEF Slots
<1>11. Queued(y, {})
  <2> SUFFICES ASSUME NEW s \in Sockets, NEW m \in In(b.wire[s]) PROVE MixerFits(y, {}, s, m)
    BY <1>4 DEF Queued
  <2>1. CASE m = n /\ s = t
    BY <1>2, <1>4, <1>7, <2>1 DEF MixerFits, LoopOps
  <2>2. CASE m \in In(x.be.wire[s])
    <3>1. MixerFits(x, {}, s, m) /\ m.user # S
      BY <1>0, <2>2 DEF Lease, Queued, Unmixed
    <3>2. m.user \in Users
      <4>1. m \in Messages
        BY <1>6, <2>2, QueueFacts
      <4> QED
        BY <4>1 DEF Messages
    <3>3. Over(x, m.user) => Over(y, m.user)
      BY <1>4, <1>7, <1>9, <3>1, <3>2 DEF Over
    <3>4. x.be.slot[s] = m.user => y.be.slot[s] = m.user
      BY <1>1, <1>4, <1>6, <1>7, <3>2
    <3> QED
      BY <1>9, <3>1, <3>3, <3>4 DEF MixerFits
  <2> QED
    BY <1>8, <2>1, <2>2
<1>12. OpenOnly(y) /\ Told(y) /\ (~Pipelining => Single(y) /\ Listed(y))
    BY <1>0, <1>9 DEF Lease, OpenOnly, Told, TalkFits, Single, Listed
<1>13. Watch(y, O)
    BY <1>0, <1>9 DEF Watch
<1>14. Fit(w, y, {}, O)
    BY <1>3, <1>5, <1>10, <1>11, <1>12, <1>13 DEF Fit, Lease
<1> QED
    BY <1>9, <1>14 DEF y, b

(* A session is accounted for in another way.                              *)
LEMMA PlacedLess ==
    ASSUME NEW x, NEW S, NEW str, Placed(x, str \cup {S}, str), x.sess[S] # NoSocket \/ DropUnderWay(x.fe, S)
    PROVE  Placed(x, str, str)
    BY DEF Placed, Accounted

(* The frontend knows the new session: who waits for it is given it and a  *)
(* mixer, or it is dropped.                                                *)
LEMMA WholeSessionCreated ==
    ASSUME NEW x, NEW str, NEW r \in Reqs, NEW S \in Users, Good(x), Placed(x, str \cup {S}, str),
           Newcomer(x, S), FE!HasProxy(x.fe, S), WaitsAlone(x, r),
           AsyncHas(x, r) => Waits(x, r, AsyncGet(x, r).sock)
    PROVE  Whole(SessionCreated(x, r, S), str)
<1> DEFINE c == AsyncGet(x, r).sock
           b == [AsyncUnset(x, r) EXCEPT !.sess[S] = c, !.conn[c].session = S]
           q == [b EXCEPT !.be = AcquireMixer(b.be, r, S)]
           n == MixerAcquired(b, r, S, "error")
           y == IF MixerAvailable(x.be) THEN q ELSE n
           O == {<<r, c>>}
           X == {}
<1>0. x \in VocsStates /\ x.fe \in FE!FrontendStates
    BY VocsTyping DEF Good, Sess
<1>1. SessionCreated(x, r, S) = IF ~AsyncHas(x, r) THEN FrontendDrop(x, S)
                                ELSE IF y.up[c] THEN Respond(y, r, c) ELSE FrontendDrop(y, S)
    BY DEF SessionCreated
<1>2. CASE ~AsyncHas(x, r)
  <2> DEFINE z == FrontendDrop(x, S)
  <2>1. Fit(x, x, {}, {})
    BY FitGood
  <2>2. Fit(x, z, {}, {})
    BY <2>1, FitFrontendDrop
  <2>3. DropUnderWay(FE!DropSession(x.fe, S), S) /\ z.fe = FE!DropSession(x.fe, S)
    BY <1>0, DropSends, WithFe DEF FrontendDrop
  <2> HIDE DEF z
  <2>4. Good(z) /\ Onward(x, z)
    BY <2>2, FitGood
  <2>5. Placed(z, str \cup {S}, str)
    BY <2>4, PlacedOnward
  <2>6. Placed(z, str, str)
    BY <2>3, <2>5, PlacedLess
  <2>7. Whole(z, str)
    BY <2>4, <2>6 DEF Whole
  <2> QED
    BY <1>1, <1>2, <2>7 DEF z
<1>3. CASE AsyncHas(x, r)
  <2>1. c \in Clients /\ AsyncGet(x, r) \in x.async /\ NoSocket \notin Clients
    BY <1>0, <1>3, AsyncFound, VocsTyping
  <2>2. /\ x.conn[c].session = None /\ Waits(x, r, c)
        /\ \A g \in x.async : CreateAwaited(x, g) /\ g.id # r => g.sock # c
    BY <1>3 DEF WaitsAlone
  <2>3. x.up[c]
    BY <2>1 DEF Good, Lease, OpenOnly
  <2> HIDE DEF c
  <2>4. Binding(x, b, r, S, c)
    BY <1>0, <2>1, BindingFields
  <2> HIDE DEF b
  <2>5. b.be = x.be /\ b.async = {e \in x.async : e.id # r} /\ b.up = x.up
    BY <2>4 DEF Binding
  <2>6. \A g \in b.async : CreateAwaited(x, g) => g.sock # c
    BY <2>2, <2>5
  <2>7. /\ Fit(b, b, {}, {<<r, c>>}) /\ Onward(x, b) /\ Unmixed(b, S)
        /\ ~b.conn[c].mixer /\ b.sess[S] = c
    <3> HIDE DEF q, n, y, O, X
    <3>1. BindsFirst(x, b, r, S, c)
      BY <2>2, <2>3, <2>4, <2>6 DEF BindsFirst
    <3> QED
      BY <2>1, <3>1, FitBinding
  <2>8. Onward(x, b) /\ Unmixed(b, S) /\ ~b.conn[c].mixer /\ b.sess[S] = c
    BY <2>7
  <2>9. Placed(b, str, str)
    <3>1. Placed(b, str \cup {S}, str)
      BY <2>8, PlacedOnward
    <3> QED
      BY <2>1, <2>8, <3>1, PlacedLess
  <2>10. ~AsyncHas(b, r) /\ b \in VocsStates
    BY <2>4, <2>5 DEF AsyncHas, Binding
  <2>11. CASE MixerAvailable(x.be)
    <3>1. Fit(b, q, {}, O)
      BY <2>1, <2>5, <2>7, <2>8, <2>11, FitAcquire
    <3>2. q.up = b.up /\ q.async = b.async
      BY <2>1, <2>5, <2>7, <2>8, <2>11, FitAcquire
    <3> HIDE DEF q
    <3>3. y = q /\ y.up[c] /\ \A e \in q.async : e.id # r
      BY <2>3, <2>5, <2>11, <3>2
    <3>4. Fit(b, Respond(q, r, c), {}, O \ {<<r, c>>}) /\ O \ {<<r, c>>} = {}
      BY <3>1, <3>3, FitResponded
    <3>5. Whole(Respond(q, r, c), str)
      BY <2>9, <3>4, WholeOnward
    <3> QED
      BY <1>1, <1>3, <3>3, <3>5
  <2>12. CASE ~MixerAvailable(x.be)
    <3>1. \A t \in Sockets : b.be.slot[t] # S
      BY <2>8 DEF Unmixed
    <3>2. Fit(b, b, X, O) /\ X \subseteq {c} /\ (\A o \in O : o[2] = c) /\ c = b.sess[S] /\ c # NoSocket
      BY <2>1, <2>7, <2>8
    <3> HIDE DEF X, O
    <3>3. Fit(b, n, {}, {})
      BY <2>10, <3>1, <3>2, FitNoMixer
    <3>4. ~n.up[c]
      <4> DEFINE a == AsyncUnset(b, r)
      <4>1. SocketOf(b, S) = c
        BY <2>8, NoneAssumption DEF SocketOf
      <4>2. n = DropConnection(a, c, TRUE, FALSE)
        BY <2>1, <4>1 DEF MixerAcquired
      <4>3. a \in VocsStates /\ a.up \in [Clients -> BOOLEAN]
        BY <2>10, TakenFields, VocsTyping DEF Taken, ButStore
      <4> HIDE DEF a, n
      <4>4. ASSUME NEW fr \in BOOLEAN, NEW ba \in BOOLEAN PROVE ~DropConnection(a, c, fr, ba).up[c]
        <5>1. Dropped(a, DropConnection(a, c, fr, ba), c, fr, ba)
          BY <2>1, <4>3, DropFields
        <5> QED
          BY <2>1, <4>3, <5>1 DEF Dropped
      <4>5. TRUE \in BOOLEAN /\ FALSE \in BOOLEAN
        OBVIOUS
      <4> QED
        BY <4>2, <4>4, <4>5, Zenon
    <3> HIDE DEF n
    <3>5. y = n /\ ~y.up[c]
      BY <2>12, <3>4
    <3>6. Fit(b, FrontendDrop(n, S), {}, {})
      BY <3>3, FitFrontendDrop
    <3>7. Whole(FrontendDrop(n, S), str)
      BY <2>9, <3>6, WholeOnward
    <3> QED
      BY <1>1, <1>3, <3>5, <3>7
  <2> QED
    BY <2>11, <2>12
<1> QED
    BY <1>2, <1>3

(* A new session is entered at the proxy that made it.                     *)
LEMMA PlacedCreated ==
    ASSUME NEW x, NEW y, NEW str, NEW p \in Proxies, NEW S \in Users, Placed(x, str, str), Unknown(x, S),
           Newcomer(x, S), y \in VocsStates, y.sess = x.sess, x.fe.wire[p] # <<>>,
           Head(x.fe.wire[p]).op = "create", CreateHandled(x.fe, y.fe, p, S),
           \A q \in Proxies : \A m \in In(x.fe.wire[q]) : m.op # "create" => m.session \in Users
    PROVE  Placed(y, str \cup {S}, str) /\ FE!HasProxy(y.fe, S)
<1> DEFINE f == x.fe
           g == y.fe
           W == x.fe.wire
           Z == y.fe.wire
<1>0. /\ f \in FE!FrontendStates /\ W \in ProxyQueues /\ W[p] # <<>> /\ Shortened(Z, W, p)
      /\ Head(W[p]).op = "create"
    BY VocsTyping, FrontendTyping DEF Placed, CreateHandled, Shortened, ProxyQueues
<1>1. /\ f.home \in [Users -> Proxies \cup {NoSocket}] /\ f.live \in [Proxies -> SUBSET Users]
      /\ f.owned \in [Proxies -> SUBSET Users] /\ p # NoSocket
    BY <1>0, FrontendTyping, ProxiesAssumption DEF NoSocket
<1>2. /\ In(W[p]) = In(Z[p]) \cup {Head(W[p])} /\ Head(W[p]) \in In(W[p])
      /\ \A q \in Proxies : q # p => Z[q] = W[q]
  <2> HIDE DEF W, Z
  <2> QED
    BY <1>0, HeadLeft
<1>3. /\ g.open = f.open
      /\ \A q \in Proxies : g.live[q] = IF q = p THEN f.live[q] \cup {S} ELSE f.live[q]
      /\ \A q \in Proxies : g.owned[q] = IF q = p THEN f.owned[q] \cup {S} ELSE f.owned[q]
      /\ \A T \in Users : g.home[T] = IF T = S THEN p ELSE f.home[T]
    BY <1>1 DEF CreateHandled
<1>4. Homes(f, str) /\ Accounted(x, str) /\ str \subseteq str \cup {S}
    BY DEF Placed
<1>5. /\ \A q \in Proxies : S \notin f.live[q] /\ S \notin f.owned[q]
      /\ \A q \in Proxies : \A m \in In(W[q]) : m.op # "create" => m.session # S /\ m.session \in Users
    BY DEF Unknown, Newcomer
<1>6. \A q \in Proxies : In(Z[q]) \subseteq In(W[q])
    BY <1>2
<1>7. f.open[p]
    BY <1>2, <1>4 DEF Homes
<1> HIDE DEF f, g, W, Z
<1>8. Homes(g, str)
  <2>1. \A q \in Proxies : ~g.open[q] => In(Z[q]) = {}
    BY <1>3, <1>4, <1>6 DEF Homes, W, f
  <2>2. ASSUME NEW q \in Proxies, NEW T \in g.live[q]
        PROVE  g.home[T] \in {q, NoSocket} /\ (T \notin str => g.open[q] /\ g.home[T] = q)
    <3>1. CASE T = S
      BY <1>3, <1>5, <1>7, <2>2, <3>1
    <3>2. CASE T # S
      <4>1. T \in f.live[q] /\ T \in Users
        BY <1>1, <1>3, <2>2, <3>2, ZenonT(30)
      <4> QED
        BY <1>3, <1>4, <3>2, <4>1 DEF Homes
    <3> QED
      BY <3>1, <3>2
  <2>3. ASSUME NEW q \in Proxies, NEW T \in g.owned[q] PROVE g.home[T] = q
    <3>1. CASE T = S
      BY <1>3, <1>5, <2>3, <3>1
    <3>2. CASE T # S
      <4>1. T \in f.owned[q] /\ T \in Users
        BY <1>1, <1>3, <2>3, <3>2, ZenonT(30)
      <4> QED
        BY <1>3, <1>4, <3>2, <4>1 DEF Homes
    <3> QED
      BY <3>1, <3>2
  <2>4. ASSUME NEW q \in Proxies, NEW m \in In(Z[q]), m.op # "create"
        PROVE  g.home[m.session] \in {q, NoSocket} /\ (m.op = "failed" => m.session \notin g.live[q])
    <3>1. m \in In(W[q]) /\ m.session # S /\ m.session \in Users
      BY <1>5, <1>6, <2>4
    <3>2. f.home[m.session] \in {q, NoSocket} /\ (m.op = "failed" => m.session \notin f.live[q])
      BY <1>4, <2>4, <3>1 DEF Homes, W, f
    <3> QED
      BY <1>3, <3>1, <3>2
  <2> QED
    BY <2>1, <2>2, <2>3, <2>4 DEF Homes, Z, g
<1>9. \A T : DropUnderWay(f, T) => DropUnderWay(g, T)
  <2>1. \A q \in Proxies : \A m \in In(W[q]) : m.op = "drop" => m \in In(Z[q])
    BY <1>0, <1>2
  <2> QED
    BY <2>1 DEF DropUnderWay, W, Z, f, g
<1>10. Accounted(y, str \cup {S})
    BY <1>3, <1>4, <1>9 DEF Accounted, f, g
<1>11. g.home[S] = p /\ g.open[p]
    BY <1>3, <1>7
<1> QED
    BY <1>1, <1>4, <1>8, <1>10, <1>11 DEF Placed, FE!HasProxy, FE!NoProxy, NoSocket, g

(* An answer to a create that succeeds.                                    *)
LEMMA WholeProxyCreated ==
    ASSUME NEW x, NEW iss, NEW mk, NEW str, NEW p \in Proxies, NEW S \in Users \ mk, Base(x, iss, mk),
           Whole(x, str), x.fe.wire[p] # <<>>, FE!Said(x.fe, p).op = "create"
    PROVE  Whole(OnProxyCreated(x, p, S), str)
<1> DEFINE g == FE!SessionCreated(x.fe, p, S)
           y == [x EXCEPT !.fe = g]
           m == FE!Said(x.fe, p)
           r == m.id
           e == AsyncGet(x, r)
<1>0. Good(x) /\ Sess(x) /\ Placed(x, str, str) /\ x.fe \in FE!FrontendStates /\ S \in Users /\ x \in VocsStates
    BY VocsTyping DEF Whole, Good, Sess
<1>1. m \in In(x.fe.wire[p]) /\ FeWorded(m, iss, mk) /\ m = Head(x.fe.wire[p])
    BY SaidWorded
<1>2. OnProxyCreated(x, p, S) = SessionCreated(y, r, S) /\ m.op = "create"
    BY DEF OnProxyCreated
<1>3. NoNewCreate(x.fe.wire, g.wire)
    BY <1>0, SessFrontendHears
<1>4. CreateHandled(x.fe, g, p, S)
    BY <1>0, SessionCreatedFields
<1>5. Base(y, iss, mk \cup {S})
    BY BaseCreateHeard DEF FeHeard
<1>6. Newcomer(x, S) /\ Unknown(x, S)
    BY NewcomerFound
<1> HIDE DEF g, m
<1>7. /\ g \in FE!FrontendStates /\ g.wire = [x.fe.wire EXCEPT ![p] = Tail(x.fe.wire[p])]
    BY <1>4 DEF CreateHandled
<1>8. Good(y) /\ y.fe = g /\ ButFe(x, y)
    BY <1>0, <1>7, GoodShorter
<1>8a. \A q \in Proxies : In(g.wire[q]) \subseteq In(x.fe.wire[q])
    BY <1>0, <1>7, GoodShorter
<1> HIDE DEF y
<1>9. y \in VocsStates /\ y.sess = x.sess /\ y.be = x.be /\ y.async = x.async /\ y.conn = x.conn
    BY <1>8 DEF Good, Sess, ButFe
<1>10. \A q \in Proxies : \A n \in In(x.fe.wire[q]) : n.op # "create" => n.session \in Users
    BY DEF Base, FeMeant, FeWorded
<1>11. Placed(y, str \cup {S}, str) /\ FE!HasProxy(y.fe, S)
    BY <1>0, <1>1, <1>2, <1>4, <1>6, <1>8, <1>9, <1>10, PlacedCreated
<1>12. Newcomer(y, S)
    BY <1>6, <1>8, <1>8a, <1>9 DEF Newcomer, Unmixed
<1>a. r \in Reqs
    BY <1>1, <1>2 DEF FeWorded, Base, ClientReqs
<1>b. AsyncGet(y, r) = e /\ (AsyncHas(y, r) <=> AsyncHas(x, r))
    BY <1>9 DEF AsyncGet, AsyncHas
<1>13. AsyncGet(y, r) = e /\ (AsyncHas(y, r) <=> AsyncHas(x, r)) /\ r \in Reqs
    BY <1>a, <1>b
<1>14. \A h : CreateAwaited(y, h) => CreateAwaited(x, h)
    BY <1>3, <1>8, <1>9, AwaitedStill
<1>15. WaitsAlone(y, r)
  <2> SUFFICES ASSUME AsyncHas(x, r)
               PROVE  /\ x.conn[e.sock].session = None
                      /\ \A h \in x.async : CreateAwaited(x, h) /\ h.id # r => h.sock # e.sock
    BY <1>9, <1>13, <1>14 DEF WaitsAlone
  <2>1. e \in x.async /\ e.id = r
    BY <1>0, AsyncFound
  <2> HIDE DEF e
  <2>2. CreateAwaited(x, e)
    BY <1>1, <1>2, <2>1 DEF CreateAwaited
  <2>3. x.conn[e.sock].session = None /\ \A h \in x.async : CreateAwaited(x, h) /\ h.sock = e.sock => h = e
    BY <1>0, <2>1, <2>2 DEF Sess, Creating
  <2> QED
    BY <2>1, <2>3
<1>16. AsyncHas(y, r) => Waits(y, r, AsyncGet(y, r).sock)
    BY <1>5, WaitsFound
<1> HIDE DEF r, e
<1>17. r \in Reqs /\ Good(y)
    BY <1>8, <1>13
<1>18. Whole(SessionCreated(y, r, S), str)
    BY <1>0, <1>11, <1>12, <1>15, <1>16, <1>17, WholeSessionCreated
<1> QED
    BY <1>2, <1>18

-----------------------------------------------------------------------------
(* The invariant of the specification.                                     *)
FullInv == SessInv /\ Whole(v, stranded)

(* No client asks for media twice, and requests either wait for each other *)
(* or do not time out.                                                     *)
Careful == ~RepeatMedia /\ (~Pipelining \/ ~Timeouts)

(* It holds at first.                                                      *)
LEMMA FullInit == Init => FullInv
<1> SUFFICES ASSUME Init PROVE Whole(v, stranded)
    BY SessInit DEF FullInv
<1>1. Fresher(v) /\ \A p \in Proxies : v.fe.live[p] \subseteq stranded
    BY StartFields DEF Init
<1> QED
    BY <1>1, WholeFresher

(* A state that is whole may be followed by a handler.                     *)
LEMMA WholeFit ==
    ASSUME NEW x, NEW str, Whole(x, str)
    PROVE  Fit(x, x, {}, {}) /\ \A z : Fit(x, z, {}, {}) => Whole(z, str)
<1>1. Good(x) /\ Placed(x, str, str)
    BY DEF Whole
<1> QED
    BY <1>1, FitGood, WholeOnward

(* A request of a client that may be sent.                                 *)
LEMMA RequestAsks ==
    ASSUME SessInv, NEW r \in Reqs, NEW c \in Clients, NEW after, Request(r, c, after)
    PROVE  /\ Base(v, issued \cup {r}, made) /\ Asking(v, r, c) /\ v' = after /\ stranded' = stranded
<1>1. r \in ClientReqs \ issued /\ MaySend(c) /\ v' = after /\ stranded' = stranded
    BY DEF Request
<1>2. Base(v, issued \cup {r}, made) /\ Fresh(v, r)
    BY <1>1, BaseFresh DEF SessInv, BaseInv
<1>3. v.up[c] /\ (~Pipelining => \A o \in v.owed : o[2] # c)
    BY <1>1 DEF MaySend
<1> QED
    BY <1>1, <1>2, <1>3 DEF Asking

(* Such requests, if none is for a second session.                         *)
LEMMA FullRequests ==
    ASSUME FullInv, ~RepeatMedia, NEW r \in Reqs, NEW c \in Clients,
           \/ LoginLdap(r, c) \/ Media(r, c) \/ \E l \in Loops : SwitchLoopVolume(r, c, l)
           \/ \E l \in Loops, want \in Wants : SwitchLoopState(r, c, l, want)
           \/ \E op \in Signals : Signal(op, r, c)
    PROVE  Whole(v', stranded')
<1> DEFINE iss == issued \cup {r}
<1>1. SessInv /\ Fit(v, v, {}, {}) /\ \A z : Fit(v, z, {}, {}) => Whole(z, stranded)
    BY WholeFit DEF FullInv
<1>2. PICK after : Request(r, c, after)
    BY DEF LoginLdap, Media, SwitchLoopVolume, SwitchLoopState, Signal
<1>3. Base(v, iss, made) /\ Asking(v, r, c) /\ stranded' = stranded /\ r \in iss
    BY <1>1, <1>2, RequestAsks
<1> HIDE DEF iss
<1> SUFFICES Fit(v, v', {}, {})
    BY <1>1, <1>3
<1>4. CASE LoginLdap(r, c)
  <2>1. v' = ClientLoginLdap(v, r, c)
    BY <1>4 DEF LoginLdap, Request
  <2> QED
    BY <1>1, <1>3, <2>1, FitLoginLdap
<1>5. CASE Media(r, c)
  <2>1. v' = ClientMedia(v, r, c) /\ NoMedia(v, c)
    BY <1>5 DEF Media, Request, MediaAsked, NoMedia
  <2> QED
    BY <1>1, <1>3, <2>1, FitMedia
<1>6. ASSUME NEW l \in Loops, SwitchLoopVolume(r, c, l) PROVE Fit(v, v', {}, {})
  <2>1. v' = ClientSwitchLoopVolume(v, r, c, l) /\ "none" \in LoopStates
    BY <1>6 DEF SwitchLoopVolume, Request, LoopStates
  <2> QED
    BY <1>1, <1>3, <2>1, FitSwitch
<1>7. ASSUME NEW l \in Loops, NEW want \in Wants, SwitchLoopState(r, c, l, want) PROVE Fit(v, v', {}, {})
  <2>1. v' = ClientSwitchLoopState(v, r, c, l, want) /\ want \in LoopStates
    BY <1>7, SwitchesAssumption DEF SwitchLoopState, Request
  <2> QED
    BY <1>1, <1>3, <2>1, FitSwitch
<1>8. ASSUME NEW op \in Signals, Signal(op, r, c) PROVE Fit(v, v', {}, {})
  <2>1. v' = IF op = "update" THEN ClientUpdate(v, r, c) ELSE ClientCandidate(v, r, c)
    BY <1>8 DEF Signal, Request
  <2>2. op # "update" => "candidate" \in Signals
    BY SwitchesAssumption
  <2> QED
    BY <1>1, <1>3, <2>1, <2>2, FitSignal
<1> QED
    BY <1>4, <1>5, <1>6, <1>7, <1>8

(* Every step keeps it, one case for each action.                          *)
LEMMA FullStep ==
    ASSUME Careful
    PROVE  FullInv /\ [Next]_vars => FullInv'
<1>a. ~RepeatMedia /\ (~Pipelining \/ ~Timeouts)
    BY DEF Careful
<1> SUFFICES ASSUME FullInv, [Next]_vars PROVE Whole(v', stranded')
    BY <1>a, SessStep DEF FullInv
<1>b. Base(v, issued, made) /\ Whole(v, stranded) /\ Fit(v, v, {}, {}) /\ v \in VocsStates
    BY WholeFit DEF FullInv, SessInv, BaseInv, Base
<1>c. stranded' = stranded /\ Fit(v, v', {}, {}) => Whole(v', stranded')
    BY <1>b, WholeFit
<1>1. ASSUME NEW c \in Clients, Connect(c) PROVE Whole(v', stranded')
    BY <1>b, <1>1, WholeConnect DEF Connect
<1>2. ASSUME NEW c \in Clients, Disconnect(c) PROVE Whole(v', stranded')
  <2>1. TRUE \in BOOLEAN
    OBVIOUS
  <2>2. Fit(v, Close(v, c), {}, {})
    BY <1>b, <2>1, FitLogin
  <2> QED
    BY <1>c, <1>2, <2>2 DEF Disconnect
<1>3. ASSUME NEW c \in Clients, Login(c) PROVE Whole(v', stranded')
  <2>1. \A valid \in BOOLEAN : Fit(v, ClientLogin(v, c, valid), {}, {})
    BY <1>b, FitLogin
  <2> QED
    BY <1>c, <1>3, <2>1 DEF Login, Send
<1>4. ASSUME NEW r \in Reqs, LdapAnswers(r) PROVE Whole(v', stranded')
  <2>1. \A granted \in BOOLEAN : Fit(v, LdapAuthentication(v, r, granted), {}, {})
    BY <1>b, FitLdapAnswer
  <2> QED
    BY <1>c, <1>4, <2>1 DEF LdapAnswers
<1>5. ASSUME NEW c \in Clients, Authorize(c) PROVE Whole(v', stranded')
  <2>1. \A permitted \in BOOLEAN : Fit(v, ClientAuthorize(v, c, permitted), {}, {})
    BY <1>b, FitLogin
  <2> QED
    BY <1>c, <1>5, <2>1 DEF Authorize, Send
<1>6. ASSUME NEW c \in Clients, Logout(c) PROVE Whole(v', stranded')
  <2>1. TRUE \in BOOLEAN
    OBVIOUS
  <2>2. Fit(v, ClientLogout(v, c), {}, {})
    BY <1>b, <2>1, FitLogin
  <2> QED
    BY <1>c, <1>6, <2>2 DEF Logout, Send
<1>7. ASSUME NEW s \in Sockets, MixerConnect(s) \/ MixerClose(s) PROVE Whole(v', stranded')
  <2>1. v.be.slot[s] = Closed => Fit(v, [v EXCEPT !.be = CbEventRegister(v.be, s)], {}, {})
    BY <1>b, FitMixerConnection
  <2>2. Fit(v, OnMixerClose(v, s), {}, {})
    BY <1>b, FitMixerConnection
  <2> QED
    BY <1>c, <1>7, <2>1, <2>2 DEF MixerConnect, MixerClose
<1>8. ASSUME NEW s \in Sockets, MixerAnswers(s) PROVE Whole(v', stranded')
  <2>1. PICK code \in MixerCodes(v.be.mix[s], Head(v.be.wire[s])) : v' = OnMixerAnswer(v, s, code)
    BY <1>8 DEF MixerAnswers
  <2>2. code \in {"ok", "error"}
    BY <2>1 DEF MixerCodes
  <2>3. v.be.wire[s] # <<>> /\ stranded' = stranded
    BY <1>8 DEF MixerAnswers
  <2>4. Fit(v, OnMixerAnswer(v, s, code), {}, {})
    BY <1>b, <2>2, <2>3, FitMixerAnswer
  <2> QED
    BY <1>c, <2>1, <2>3, <2>4
<1>9. ASSUME NEW p \in Proxies, ProxyConnect(p) PROVE Whole(v', stranded')
    BY <1>b, <1>9, WholeProxyConnect DEF ProxyConnect
<1>10. ASSUME NEW p \in Proxies, ProxyLost(p) PROVE Whole(v', stranded')
    BY <1>b, <1>10, WholeProxyLost DEF ProxyLost
<1>11. ASSUME NEW p \in Proxies, NEW S \in Users, ProxyCreates(p, S) PROVE Whole(v', stranded')
  <2>1. v.fe.wire[p] # <<>> /\ FE!Said(v.fe, p).op = "create" /\ S \in Users \ made
    BY <1>11 DEF ProxyCreates
  <2>2. v' = OnProxyCreated(v, p, S) /\ stranded' = stranded
    BY <1>11 DEF ProxyCreates
  <2>3. Whole(OnProxyCreated(v, p, S), stranded)
    BY <1>b, <2>1, WholeProxyCreated
  <2> QED
    BY <2>2, <2>3
<1>12. ASSUME NEW p \in Proxies, ProxyRefuses(p) PROVE Whole(v', stranded')
    BY <1>b, <1>12, WholeProxyMore DEF ProxyRefuses
<1>13. ASSUME NEW p \in Proxies, ProxyUpdates(p) PROVE Whole(v', stranded')
    BY <1>b, <1>13, WholeProxyMore DEF ProxyUpdates, ProxySays
<1>14. ASSUME NEW p \in Proxies, ProxyCandidate(p) PROVE Whole(v', stranded')
  <2>1. PICK ok : v' = OnProxyCandidate(v, p, ok)
    BY <1>14 DEF ProxyCandidate
  <2>2. v.fe.wire[p] # <<>> /\ FE!Said(v.fe, p).op = "candidate" /\ stranded' = stranded
    BY <1>14 DEF ProxyCandidate, ProxySays
  <2> QED
    BY <1>b, <2>1, <2>2, WholeProxyMore
<1>15. ASSUME NEW p \in Proxies, ProxyAnswers(p) PROVE Whole(v', stranded')
    BY <1>b, <1>15, WholeProxyAnswer DEF ProxyAnswers
<1>16. ASSUME NEW p \in Proxies, ProxyUpdateRefused(p) PROVE Whole(v', stranded')
  <2>1. PICK kept \in [Proxies -> SUBSET Users] :
            v' = OnProxyUpdateRefused(v, kept) /\ stranded' = stranded \cup UNION {kept[q] : q \in Proxies}
    BY <1>16 DEF ProxyUpdateRefused
  <2>2. Fresher(v') /\ v'.fe.live = kept
    BY <1>b, <2>1, StartFields
  <2>3. \A q \in Proxies : v'.fe.live[q] \subseteq stranded'
    BY <2>1, <2>2
  <2> QED
    BY <2>2, <2>3, WholeFresher
<1>17. ASSUME NEW p \in Proxies, NEW S \in Users, IceCompletes(p, S) PROVE Whole(v', stranded')
    BY <1>b, <1>17, WholeIceCompleted DEF IceCompletes
<1>18. ASSUME NEW p \in Proxies, NEW S \in Users, IceFails(p, S) PROVE Whole(v', stranded')
    BY <1>b, <1>18, WholeIceFailed DEF IceFails
<1>19. ASSUME NEW r \in Reqs, Timeout(r) PROVE Whole(v', stranded')
  <2>1. ~Pipelining /\ AsyncHas(v, r) /\ v' = AsyncTimedout(v, r) /\ stranded' = stranded
    BY <1>a, <1>19 DEF Timeout
  <2>2. Fit(v, AsyncTimedout(v, r), {}, {})
    BY <1>b, <2>1, FitTimeout
  <2> QED
    BY <1>c, <2>1, <2>2
<1>20. ASSUME NEW r \in Reqs, CallbackExpires(r) PROVE Whole(v', stranded')
  <2>1. CallbackExpires(r) => v' = [v EXCEPT !.be = UnregisterCallback(v.be, r)] /\ stranded' = stranded
    BY DEF CallbackExpires
  <2>2. Fit(v, [v EXCEPT !.be = UnregisterCallback(v.be, r)], {}, {})
    BY <1>b, FitCallback
  <2> QED
    BY <1>c, <1>20, <2>1, <2>2
<1>21. CASE UNCHANGED vars
    BY <1>b, <1>21 DEF vars
<1>22. ASSUME NEW r \in Reqs, NEW c \in Clients,
              \/ LoginLdap(r, c) \/ Media(r, c) \/ \E l \in Loops : SwitchLoopVolume(r, c, l)
              \/ \E l \in Loops, want \in Wants : SwitchLoopState(r, c, l, want)
              \/ \E op \in Signals : Signal(op, r, c)
       PROVE  Whole(v', stranded')
    BY <1>a, <1>22, FullRequests
<1>23. CASE Next
    BY <1>1, <1>2, <1>3, <1>4, <1>5, <1>6, <1>7, <1>8, <1>9, <1>10, <1>11, <1>12, <1>13, <1>14,
       <1>15, <1>16, <1>17, <1>18, <1>19, <1>20, <1>22, <1>23 DEF Next
<1> QED
    BY <1>21, <1>23

(* The invariant of every behaviour of careful clients.                    *)
LEMMA FullAlways ==
    ASSUME Careful
    PROVE  Spec => []FullInv
    BY FullInit, FullStep, PTL DEF Spec

-----------------------------------------------------------------------------
(* What the invariant says of a session in the dictionary, of a connection *)
(* with a mixer and of the sessions in proxies.                            *)
LEMMA FullFacts ==
    ASSUME FullInv
    PROVE  /\ \A S \in Users : v.sess[S] # NoSocket => \E c \in Clients : Holds(c, S)
           /\ \A s \in Sockets, S \in Users : v.be.slot[s] = S => v.sess[S] # NoSocket
           /\ Sess(v) /\ Lease(v, {}) /\ Watch(v, {}) /\ Accounted(v, stranded) /\ v \in VocsStates
<1>1. Sess(v) /\ Lease(v, {}) /\ Watch(v, {}) /\ Accounted(v, stranded) /\ v \in VocsStates
    BY DEF FullInv, Whole, Good, Placed
<1>2. v.sess \in [Users -> Clients \cup {NoSocket}] /\ None \notin Users
    BY <1>1, VocsTyping, NoneAssumption
<1>3. ASSUME NEW S \in Users, v.sess[S] # NoSocket PROVE \E c \in Clients : Holds(c, S)
  <2>1. v.sess[S] \in Clients /\ v.conn[v.sess[S]].session = S
    BY <1>1, <1>2, <1>3 DEF Sess, Bound
  <2>2. v.up[v.sess[S]]
    BY <1>1, <1>2, <2>1 DEF Lease, OpenOnly
  <2> QED
    BY <2>1, <2>2 DEF Holds
<1>4. \A s \in Sockets, S \in Users : v.be.slot[s] = S => v.sess[S] # NoSocket
    BY <1>1 DEF Lease, Slots
<1> QED
    BY <1>1, <1>3, <1>4

(* No mixer stays reserved for a session whose connection has gone,        *)
(* whichever of close, logout, timeout, failed ICE, lost mixer and refused *)
(* request ended it, with requests to its mixer under way or not: each of  *)
(* drop_connection's callers in ov_vocs.c gives the slot back.             *)
THEOREM NoMixerLeaks ==
    ASSUME Careful
    PROVE  Spec => []MixersAccounted
<1>1. FullInv => MixersAccounted
    BY FullFacts DEF MixersAccounted
<1> QED
    BY <1>1, FullAlways, PTL

(* A connection that has been told that its mixer is there has one: a      *)
(* mixer that is lost, or taken back, never leaves a client that believes  *)
(* itself connected to it (cb_backend_mixer_lost, drop_connection).        *)
THEOREM MixerIsThere ==
    ASSUME Careful
    PROVE  Spec => []ReadyHasMixer
<1>1. ASSUME FullInv, NEW c \in Clients, v.conn[c].mixer
      PROVE  \E s \in Sockets : v.be.slot[s] = v.conn[c].session
  <2>1. Sess(v) /\ Slots(v, {}) /\ v \in VocsStates
    BY <1>1, FullFacts DEF Lease
  <2>2. v.conn[c] \in Conns /\ v.conn[c].session # None /\ v.be \in BackendStates /\ NoSocket \notin Clients
    BY <1>1, <2>1, VocsTyping DEF Sess, MediaTold
  <2>3. v.conn[c].session \in Users /\ v.be.users \in [Users -> Sockets \cup {NoSlot}]
    BY <2>2, BackendTyping DEF Conns
  <2>4. v.sess[v.conn[c].session] = c
    BY <2>1, <2>3 DEF Sess, Bound
  <2> QED
    BY <1>1, <2>1, <2>2, <2>3, <2>4 DEF Slots
<1>2. FullInv => ReadyHasMixer
    BY <1>1 DEF ReadyHasMixer
<1> QED
    BY <1>2, FullAlways, PTL

(* The store of requests holds no request of a closed connection, as       *)
(* ov_event_async.h:148 promises of ov_event_async_drop: whoever closes a  *)
(* connection empties its requests, and no handler stores one afterwards.  *)
THEOREM AsyncIsOfOpenConnections ==
    ASSUME Careful
    PROVE  Spec => []AsyncOfOpenConnections
<1>1. FullInv => AsyncOfOpenConnections
    BY FullFacts DEF Lease, OpenOnly, AsyncOfOpenConnections
<1> QED
    BY <1>1, FullAlways, PTL

(* No session is forgotten in a proxy: one whose client has gone is being  *)
(* dropped there, unless the proxy kept it over a lost connection, in      *)
(* whatever order creates, drops, ICE failures and losses are handled.     *)
THEOREM NoSessionIsForgotten ==
    ASSUME Careful
    PROVE  Spec => []ProxySessionsAccounted
<1>1. ASSUME FullInv, NEW S \in Users, DropUnderWay(v.fe, S) PROVE DropPending(S)
  <2>1. PICK p \in Proxies : \E m \in In(v.fe.wire[p]) : m.op = "drop" /\ m.session = S
    BY <1>1 DEF DropUnderWay
  <2>2. v.fe.wire[p] \in Seq(FE!ProxyMessages)
    BY <1>1, FullFacts, VocsTyping, FrontendTyping
  <2>3. \E i \in DOMAIN v.fe.wire[p] : v.fe.wire[p][i].op = "drop" /\ v.fe.wire[p][i].session = S
    BY <2>1, <2>2 DEF In
  <2> QED
    BY <2>3 DEF DropPending
<1>2. ASSUME FullInv, NEW p \in Proxies, NEW S \in v.fe.live[p]
      PROVE  (\E c \in Clients : Holds(c, S)) \/ DropPending(S) \/ S \in stranded
  <2>1. S \in Users
    BY <1>2, FullFacts, VocsTyping, FrontendTyping
  <2>2. S \in stranded \/ v.sess[S] # NoSocket \/ DropUnderWay(v.fe, S)
    BY <1>2, FullFacts DEF Accounted
  <2> QED
    BY <1>1, <1>2, <2>1, <2>2, FullFacts
<1>3. FullInv => ProxySessionsAccounted
    BY <1>2 DEF ProxySessionsAccounted
<1> QED
    BY <1>3, FullAlways, PTL

(* The roster of a loop names exactly the connections that take part in    *)
(* it, when clients wait for their responses: ov_vocs_loop.c's             *)
(* participants and the loop states of connections change together.        *)
THEOREM RosterIsRight ==
    ASSUME Careful, ~Pipelining
    PROVE  Spec => []RosterAgrees
<1>1. FullInv => RosterAgrees
    BY FullFacts DEF Lease, Listed, RosterAgrees
<1> QED
    BY <1>1, FullAlways, PTL

(* Nobody waits unwatched: a request without a response is in the store,   *)
(* whose timer ends the wait, as long as no client sends candidates: the   *)
(* answer to one that failed takes the entry and is sent to socket 0.      *)
THEOREM NobodyWaitsUnwatched ==
    ASSUME Careful, "candidate" \notin Signals
    PROVE  Spec => []WaitingIsWatched
<1>1. FullInv => WaitingIsWatched
    BY FullFacts DEF Watch, WaitingIsWatched
<1> QED
    BY <1>1, FullAlways, PTL
=============================================================================
