-------------------------- MODULE VocsAudioProofs ---------------------------
(***************************************************************************)
(* Proofs about the audio of VocsSystem: what clients hear and where they  *)
(* are heard, against what their connections say.                          *)
(***************************************************************************)
EXTENDS VocsServiceProofs

-----------------------------------------------------------------------------
(* What clients hear and where they are heard.  The requests that follow   *)
(* the acquisition of a session's mixer are about that session's loops.    *)
Trailing(w, S) ==
    \A i, j \in 1..Len(w) :
        i < j /\ w[i].op = "acquire" /\ w[i].user = S => w[j].op \in LoopOps /\ w[j].user = S

Mine(w, S) == \A m \in In(w) : m.op \in LoopOps /\ m.user = S

(* The loops that the data d of a connection say are heard, and spoken in. *)
Played(d) == {l \in Loops : d.loops[l] # "none"}
Spoken(d) == {l \in Loops : d.loops[l] = "send"}

(* Mixer s is that of session S: once its client knows, it plays what the  *)
(* client's data say, and what it is still asked to join or to leave is    *)
(* not spoken in.                                                          *)
Heard(x, s, S) ==
    LET d == x.conn[x.sess[S]]
        w == x.be.wire[s]
    IN /\ Trailing(w, S)
       /\ d.mixer => Mine(w, S) /\ x.be.mix[s].loops = Played(d)
       /\ \A m \in In(w) : m.user = S =>
            /\ m.op = "join" => d.mixer /\ AsyncHas(x, m.id)
            /\ m.op \in {"join", "leave"} /\ AsyncHas(x, m.id) => d.loops[m.loop] # "send"

(* The proxy of session S forwards to where the client's data say, and a   *)
(* change of that is awaited.                                              *)
Voiced(x, S) ==
    /\ x.fe.talk[S] = Spoken(x.conn[x.sess[S]])
    /\ \A p \in Proxies : \A m \in In(x.fe.wire[p]) :
          m.op \in TalkOps /\ m.session = S => AsyncHas(x, m.id)

AudioOf(x, S) == Voiced(x, S) /\ \A s \in Sockets : x.be.slot[s] = S => Heard(x, s, S)

(* A connection without a mixer is in no loop; the answer to a request to  *)
(* leave a loop has a callback.                                            *)
Silent(x) == \A c \in Clients : ~x.conn[c].mixer => \A l \in Loops : x.conn[c].loops[l] = "none"
Called(x) == \A s \in Sockets : \A m \in In(x.be.wire[s]) : m.op = "leave" => m.id \in x.be.cbs

(* The invariant, where the connections in K are about to be dropped.      *)
Audio(x, K) ==
    /\ Silent(x) /\ Called(x)
    /\ \A S \in Users : x.sess[S] \notin K \cup {NoSocket} => AudioOf(x, S)

(* What the ends of a queue mean for it.                                   *)
LEMMA TrailingFacts ==
    ASSUME NEW w \in Seq(Messages), NEW S
    PROVE  /\ w # <<>> /\ Trailing(w, S) =>
                /\ Trailing(Tail(w), S)
                /\ Head(w).op = "acquire" /\ Head(w).user = S => Mine(Tail(w), S)
           /\ \A m \in Messages :
                Trailing(w, S) /\ ((m.op \in LoopOps /\ m.user = S) \/ \A n \in In(w) : n.user # S) =>
                    Trailing(Append(w, m), S)
<1>1. ASSUME w # <<>>, Trailing(w, S)
      PROVE  /\ Trailing(Tail(w), S)
             /\ Head(w).op = "acquire" /\ Head(w).user = S => Mine(Tail(w), S)
  <2>1. /\ Len(w) \in Nat /\ Len(w) > 0 /\ Len(Tail(w)) = Len(w) - 1 /\ Head(w) = w[1]
        /\ \A i \in 1..Len(Tail(w)) : Tail(w)[i] = w[i + 1]
    BY <1>1
  <2>2. \A i \in 1..Len(Tail(w)) : i + 1 \in 1..Len(w) /\ 1 < i + 1
    BY <2>1
  <2>3. Trailing(Tail(w), S)
    <3> SUFFICES ASSUME NEW i \in 1..Len(Tail(w)), NEW j \in 1..Len(Tail(w)), i < j,
                        Tail(w)[i].op = "acquire", Tail(w)[i].user = S
                 PROVE  Tail(w)[j].op \in LoopOps /\ Tail(w)[j].user = S
      BY DEF Trailing
    <3>1. i + 1 < j + 1
      BY <2>1
    <3> QED
      BY <1>1, <2>1, <2>2, <3>1 DEF Trailing
  <2>4. ASSUME Head(w).op = "acquire", Head(w).user = S, NEW m \in In(Tail(w))
        PROVE  m.op \in LoopOps /\ m.user = S
    <3>1. PICK i \in 1..Len(Tail(w)) : m = Tail(w)[i]
      BY DEF In
    <3>2. m = w[i + 1] /\ i + 1 \in 1..Len(w) /\ 1 < i + 1 /\ 1 \in 1..Len(w)
      BY <2>1, <2>2, <3>1
    <3> QED
      BY <1>1, <2>1, <2>4, <3>2 DEF Trailing
  <2> QED
    BY <2>3, <2>4 DEF Mine
<1>2. ASSUME NEW m \in Messages, Trailing(w, S), (m.op \in LoopOps /\ m.user = S) \/ \A n \in In(w) : n.user # S
      PROVE  Trailing(Append(w, m), S)
  <2>1. /\ Len(w) \in Nat /\ Len(Append(w, m)) = Len(w) + 1 /\ Append(w, m)[Len(w) + 1] = m
        /\ \A i \in 1..Len(w) : Append(w, m)[i] = w[i]
    OBVIOUS
  <2> SUFFICES ASSUME NEW i \in 1..Len(Append(w, m)), NEW j \in 1..Len(Append(w, m)), i < j,
                      Append(w, m)[i].op = "acquire", Append(w, m)[i].user = S
               PROVE  Append(w, m)[j].op \in LoopOps /\ Append(w, m)[j].user = S
    BY DEF Trailing
  <2>2. i \in 1..Len(w) /\ (j \in 1..Len(w) \/ j = Len(w) + 1)
    BY <2>1
  <2>3. w[i].op = "acquire" /\ w[i].user = S /\ w[i] \in In(w)
    BY <2>1, <2>2 DEF In
  <2> QED
    BY <1>2, <2>1, <2>2, <2>3 DEF Trailing
<1> QED
    BY <1>1, <1>2

(* y is x as far as the audio of session S goes.                           *)
Unmoved(x, y, S) ==
    /\ y.sess[S] = x.sess[S]
    /\ y.conn[y.sess[S]].loops = x.conn[x.sess[S]].loops
    /\ y.conn[y.sess[S]].mixer = x.conn[x.sess[S]].mixer
    /\ y.fe.talk[S] = x.fe.talk[S]
    /\ \A p \in Proxies : \A m \in In(y.fe.wire[p]) : m.op \in TalkOps /\ m.session = S =>
          AsyncHas(y, m.id) \/ (m \in In(x.fe.wire[p]) /\ ~AsyncHas(x, m.id))
    /\ \A s \in Sockets : y.be.slot[s] = S =>
          /\ x.be.slot[s] = S /\ y.be.wire[s] = x.be.wire[s] /\ y.be.mix[s] = x.be.mix[s]
          /\ \A m \in In(x.be.wire[s]) : m.op \in LoopOps /\ m.user = S =>
                (AsyncHas(x, m.id) <=> AsyncHas(y, m.id))

(* So it has the same audio.                                               *)
LEMMA UnmovedAudio ==
    ASSUME NEW x, NEW y, NEW S, AudioOf(x, S), Unmoved(x, y, S)
    PROVE  AudioOf(y, S)
<1>1. Voiced(y, S)
    BY DEF AudioOf, Voiced, Unmoved, Spoken
<1>2. ASSUME NEW s \in Sockets, y.be.slot[s] = S PROVE Heard(y, s, S)
  <2>1. Heard(x, s, S)
    BY <1>2 DEF AudioOf, Unmoved
  <2>2. /\ y.be.wire[s] = x.be.wire[s] /\ y.be.mix[s] = x.be.mix[s]
        /\ \A m \in In(x.be.wire[s]) : m.op \in LoopOps /\ m.user = S =>
              (AsyncHas(x, m.id) <=> AsyncHas(y, m.id))
        /\ y.conn[y.sess[S]].loops = x.conn[x.sess[S]].loops
        /\ y.conn[y.sess[S]].mixer = x.conn[x.sess[S]].mixer
    BY <1>2 DEF Unmoved
  <2>3. Played(y.conn[y.sess[S]]) = Played(x.conn[x.sess[S]])
    BY <2>2 DEF Played
  <2> QED
    BY <2>1, <2>2, <2>3 DEF Heard, LoopOps
<1> QED
    BY <1>1, <1>2 DEF AudioOf

(* Requests under way are awaited in y if they are in x.                   *)
SameWaits(x, y) ==
    /\ \A s \in Sockets : \A m \in In(x.be.wire[s]) : m.op \in LoopOps =>
          (AsyncHas(x, m.id) <=> AsyncHas(y, m.id))
    /\ \A p \in Proxies : \A m \in In(x.fe.wire[p]) : m.op \in TalkOps =>
          (AsyncHas(x, m.id) <=> AsyncHas(y, m.id))

(* The loops and mixers of connections.                                    *)
SameLoops(x, y) ==
    /\ y.sess = x.sess
    /\ \A c \in Clients : y.conn[c].mixer = x.conn[c].mixer /\ y.conn[c].loops = x.conn[c].loops

(* Nothing but bookkeeping about requests and logins.                      *)
LEMMA AudioPlain ==
    ASSUME NEW x, NEW y, NEW K, x \in VocsStates, Audio(x, K), SameLoops(x, y), y.be = x.be, y.fe = x.fe,
           SameWaits(x, y)
    PROVE  Audio(y, K)
<1>1. Silent(y) /\ Called(y)
    BY DEF Audio, Silent, Called, SameLoops
<1>2. ASSUME NEW S \in Users, y.sess[S] \notin K \cup {NoSocket} PROVE AudioOf(y, S)
  <2>1. AudioOf(x, S) /\ x.sess[S] \in Clients
    BY <1>2, VocsTyping DEF Audio, SameLoops
  <2>2. Unmoved(x, y, S)
    BY <2>1 DEF SameLoops, SameWaits, Unmoved
  <2> QED
    BY <2>1, <2>2, UnmovedAudio
<1> QED
    BY <1>1, <1>2 DEF Audio

(* A step of the frontend: those whose audio it changes are left out.      *)
LEMMA AudioFrontend ==
    ASSUME NEW x, NEW y, NEW K, NEW L, Audio(x, K), ButFe(x, y), K \subseteq L,
           \A S \in Users : x.sess[S] \notin L \cup {NoSocket} => y.fe.talk[S] = x.fe.talk[S],
           \A p \in Proxies : \A m \in In(y.fe.wire[p]) :
               m.op \in TalkOps => m \in In(x.fe.wire[p]) \/ AsyncHas(x, m.id)
    PROVE  Audio(y, L)
<1>1. Silent(y) /\ Called(y)
    BY DEF Audio, Silent, Called, ButFe
<1>2. ASSUME NEW S \in Users, y.sess[S] \notin L \cup {NoSocket} PROVE AudioOf(y, S)
  <2>1. AudioOf(x, S) /\ y.fe.talk[S] = x.fe.talk[S]
    BY <1>2 DEF Audio, ButFe
  <2>2. Unmoved(x, y, S)
    BY <2>1 DEF ButFe, AsyncHas, Unmoved
  <2> QED
    BY <2>1, <2>2, UnmovedAudio
<1> QED
    BY <1>1, <1>2 DEF Audio

(* A step of the backend.                                                  *)
LEMMA AudioBackend ==
    ASSUME NEW x, NEW y, NEW K, NEW L, Audio(x, K), ButBe(x, y), K \subseteq L, Called(y),
           \A S \in Users, s \in Sockets :
               x.sess[S] \notin L \cup {NoSocket} /\ y.be.slot[s] = S =>
                   x.be.slot[s] = S /\ y.be.wire[s] = x.be.wire[s] /\ y.be.mix[s] = x.be.mix[s]
    PROVE  Audio(y, L)
<1>1. Silent(y)
    BY DEF Audio, Silent, ButBe
<1>2. ASSUME NEW S \in Users, y.sess[S] \notin L \cup {NoSocket} PROVE AudioOf(y, S)
  <2>1. AudioOf(x, S)
    BY <1>2 DEF Audio, ButBe
  <2>2. Unmoved(x, y, S)
    BY <1>2 DEF ButBe, AsyncHas, Unmoved, AudioOf, Voiced
  <2> QED
    BY <2>1, <2>2, UnmovedAudio
<1> QED
    BY <1>1, <1>2 DEF Audio

(* The one session that was left out is as it should be after all.         *)
LEMMA AudioAll ==
    ASSUME NEW x, NEW S, NEW c, Sess(x), Audio(x, {c}), S \in Users => x.sess[S] # c \/ AudioOf(x, S),
           c \in Clients => S = x.conn[c].session
    PROVE  Audio(x, {})
<1> SUFFICES ASSUME NEW T \in Users, x.sess[T] # NoSocket, x.sess[T] = c PROVE AudioOf(x, T)
    BY DEF Audio
<1>1. x.sess[T] \in Clients
    BY VocsTyping DEF Sess
<1>2. T = S
    BY <1>1 DEF Sess, Bound
<1> QED
    BY <1>2

(* A request about a loop that is awaited is that of the session's own     *)
(* client; this and what it takes with it are what a drop needs.           *)
Owned(x) ==
    \A s \in Sockets : \A m \in In(x.be.wire[s]) : m.op \in LoopOps =>
        \A e \in x.async : e.id = m.id => x.sess[m.user] \in {e.sock, NoSocket}

Ready(x) == Sess(x) /\ Told(x) /\ Owned(x)

(* All of it is known between handlers.                                    *)
LEMMA FitReady ==
    ASSUME NEW w, NEW x, NEW O, Fit(w, x, {}, O)
    PROVE  Ready(x)
    BY DEF Fit, Lease, Queued, MixerFits, Owned, Ready

(* The mixers of others when a session's mixer is released.                *)
LEMMA ReleaseKeeps ==
    ASSUME NEW b \in BackendStates, NEW S \in Users
    PROVE  LET g == ReleaseMixer(b, S, S) IN
           /\ \A T \in Users, s \in Sockets : g.slot[s] = T =>
                b.slot[s] = T /\ g.wire[s] = b.wire[s] /\ g.mix[s] = b.mix[s]
           /\ b.cbs \subseteq g.cbs
           /\ \A s \in Sockets : \A m \in In(g.wire[s]) : m \in In(b.wire[s]) \/ m.op = "release"
<1> DEFINE g == ReleaseMixer(b, S, S)
           m == Message("release", S, S, None)
<1>0. /\ b.slot \in [Sockets -> Users \cup {Closed, Free}] /\ b.wire \in [Sockets -> Seq(Messages)]
      /\ Free \notin Users /\ Closed \notin Users
    BY BackendTyping
<1>1. /\ g.slot = Emptied(b, S) /\ g.mix = b.mix /\ b.cbs \subseteq g.cbs
      /\ HasMixer(b, S) => b.users[S] \in Sockets
      /\ g.wire = IF HasMixer(b, S) THEN [b.wire EXCEPT ![b.users[S]] = Append(@, m)] ELSE b.wire
    BY ReleaseMixerFields
<1>2. m \in Messages /\ m.op = "release"
    BY MessageType, ReleaseIdsAssumption DEF BackendOps
<1> HIDE DEF g, m
<1>3. ASSUME NEW T \in Users, NEW s \in Sockets, g.slot[s] = T
      PROVE  b.slot[s] = T /\ g.wire[s] = b.wire[s] /\ g.mix[s] = b.mix[s]
  <2>1. b.slot[s] = T /\ s # b.users[S]
    BY <1>0, <1>1, <1>3 DEF Emptied
  <2> QED
    BY <1>0, <1>1, <2>1
<1>4. ASSUME NEW s \in Sockets, NEW n \in In(g.wire[s]) PROVE n \in In(b.wire[s]) \/ n.op = "release"
  <2>1. In(Append(b.wire[s], m)) = In(b.wire[s]) \cup {m}
    BY <1>0, <1>2, QueueFacts
  <2>2. g.wire[s] \in {b.wire[s], Append(b.wire[s], m)}
    BY <1>0, <1>1
  <2> QED
    BY <1>2, <1>4, <2>1, <2>2
<1> QED
    BY <1>1, <1>3, <1>4 DEF g

(* drop_connection leaves the audio of the others alone.                   *)
LEMMA AudioDropped ==
    ASSUME NEW x, NEW y, NEW K, NEW c \in Clients, NEW frontend \in BOOLEAN, NEW backend \in BOOLEAN,
           Ready(x), Audio(x, K), K \subseteq {c}, Dropped(x, y, c, frontend, backend), y.async \subseteq x.async,
           \A e \in x.async : e.sock # c => e \in y.async
    PROVE  Audio(y, {})
<1> DEFINE S == x.conn[c].session
<1>0. /\ x \in VocsStates /\ Bound(x) /\ Told(x) /\ Owned(x) /\ x.conn \in [Clients -> Conns]
      /\ x.sess \in [Users -> Clients \cup {NoSocket}] /\ x.be \in BackendStates /\ x.fe \in FE!FrontendStates
      /\ NoSocket \notin Clients /\ S \in Users \cup {None} /\ None \notin Users
    BY VocsTyping, BackendTyping DEF Ready, Sess, Conns
<1>1. /\ y.conn = [x.conn EXCEPT ![c] = NoData]
      /\ y.sess = IF S = None THEN x.sess ELSE [x.sess EXCEPT ![S] = NoSocket]
      /\ y.be = IF S # None /\ backend THEN ReleaseMixer(x.be, S, S) ELSE x.be
      /\ FeDropped(x.fe, y.fe, S, frontend)
    BY DEF Dropped
<1>2. ProxiesUntold(x.fe, y.fe) /\ Sends(x.fe, y.fe)
  <2> HIDE DEF S
  <2>1. ProxiesUntold(x.fe, y.fe)
    BY <1>0, <1>1, FeDroppedUntold
  <2>2. Sends(x.fe, y.fe)
    BY <1>0, <1>1, FeDroppedSends
  <2> QED
    BY <2>1, <2>2
<1>3. y.fe.talk = x.fe.talk /\ \A p \in Proxies : \A m \in In(y.fe.wire[p]) : m.op \in TalkOps => m \in In(x.fe.wire[p])
    BY <1>2 DEF ProxiesUntold, Sends, OtherwiseSame
<1>4. /\ \A T \in Users, s \in Sockets : y.be.slot[s] = T =>
            x.be.slot[s] = T /\ y.be.wire[s] = x.be.wire[s] /\ y.be.mix[s] = x.be.mix[s]
      /\ x.be.cbs \subseteq y.be.cbs
      /\ \A s \in Sockets : \A m \in In(y.be.wire[s]) : m \in In(x.be.wire[s]) \/ m.op = "release"
  <2>1. CASE S # None /\ backend
    BY <1>0, <1>1, <2>1, ReleaseKeeps
  <2>2. CASE ~(S # None /\ backend)
    BY <1>1, <2>2
  <2> QED
    BY <2>1, <2>2
<1>5. Silent(y)
  <2> SUFFICES ASSUME NEW k \in Clients, ~y.conn[k].mixer, NEW l \in Loops PROVE y.conn[k].loops[l] = "none"
    BY DEF Silent
  <2> QED
    BY <1>0, <1>1, NoDataType DEF Audio, Silent
<1>6. Called(y)
    BY <1>4 DEF Audio, Called
<1>7. ASSUME NEW T \in Users, y.sess[T] # NoSocket PROVE AudioOf(y, T)
  <2>1. T # S /\ y.sess[T] = x.sess[T] /\ x.sess[T] \in Clients
    BY <1>0, <1>1, <1>7
  <2>2. x.sess[T] # c
    BY <1>0, <2>1 DEF Bound
  <2>3. AudioOf(x, T)
    BY <2>1, <2>2, <1>0 DEF Audio
  <2>4. y.conn[y.sess[T]] = x.conn[x.sess[T]]
    BY <1>0, <1>1, <2>1, <2>2
  <2>5. ASSUME NEW p \in Proxies, NEW m \in In(y.fe.wire[p]), m.op \in TalkOps, m.session = T
        PROVE  AsyncHas(y, m.id)
    <3>1. m \in In(x.fe.wire[p])
      BY <1>3, <2>5
    <3>2. PICK e \in x.async : e.id = m.id
      BY <2>3, <2>5, <3>1 DEF AudioOf, Voiced, AsyncHas
    <3>3. e.sock = x.sess[T]
      BY <1>0, <2>5, <3>1, <3>2 DEF Told, TalkFits
    <3> QED
      BY <2>2, <3>2, <3>3 DEF AsyncHas
  <2>6. ASSUME NEW s \in Sockets, NEW m \in In(x.be.wire[s]), m.op \in LoopOps, m.user = T
        PROVE  AsyncHas(x, m.id) <=> AsyncHas(y, m.id)
    <3>1. AsyncHas(y, m.id) => AsyncHas(x, m.id)
      BY DEF AsyncHas
    <3>2. ASSUME NEW e \in x.async, e.id = m.id PROVE e \in y.async
      <4>1. x.sess[T] \in {e.sock, NoSocket}
        BY <1>0, <2>6, <3>2 DEF Owned
      <4> QED
        BY <1>0, <2>1, <2>2, <4>1
    <3> QED
      BY <3>1, <3>2 DEF AsyncHas
  <2>7. Unmoved(x, y, T)
    BY <1>3, <1>4, <2>1, <2>4, <2>5, <2>6 DEF Unmoved
  <2> QED
    BY <2>3, <2>7, UnmovedAudio
<1> QED
    BY <1>5, <1>6, <1>7 DEF Audio

(* The two ways to drop a connection.                                      *)
LEMMA AudioDrop ==
    ASSUME NEW x, NEW K, NEW c \in Clients \cup {NoSocket}, NEW frontend \in BOOLEAN, NEW backend \in BOOLEAN,
           Ready(x), Audio(x, K), K \subseteq {c}
    PROVE  /\ Audio(DropConnection(x, c, frontend, backend), {})
           /\ Audio(DropLocked(x, c, frontend, backend), {})
<1>1. CASE c = NoSocket
  <2>1. DropConnection(x, c, frontend, backend) = x /\ DropLocked(x, c, frontend, backend) = x
    BY <1>1 DEF DropConnection, DropLocked
  <2> QED
    BY <1>1, <2>1 DEF Audio
<1>2. CASE c \in Clients
  <2> DEFINE y == DropConnection(x, c, frontend, backend)
             z == DropLocked(x, c, frontend, backend)
  <2>1. x \in VocsStates
    BY DEF Ready, Sess
  <2>2. /\ Dropped(x, y, c, frontend, backend) /\ y.async = {e \in x.async : e.sock # c}
        /\ Dropped(x, z, c, frontend, backend) /\ z.async = x.async
    BY <1>2, <2>1, DropFields
  <2> HIDE DEF y, z
  <2>3. Audio(y, {})
    BY <1>2, <2>2, AudioDropped
  <2>4. Audio(z, {})
    BY <1>2, <2>2, AudioDropped
  <2> QED
    BY <2>3, <2>4 DEF y, z
<1> QED
    BY <1>1, <1>2

-----------------------------------------------------------------------------
(* Bookkeeping and the requests that are about no loop.                    *)

(* No request with this uuid about a loop is under way.                    *)
Loose(x, r) ==
    /\ \A s \in Sockets : \A m \in In(x.be.wire[s]) : m.op \in LoopOps => m.id # r
    /\ \A p \in Proxies : \A m \in In(x.fe.wire[p]) : m.op \in TalkOps => m.id # r

(* None is if none at all is.                                              *)
LEMMA UnusedLoose ==
    ASSUME NEW x, NEW r \in ClientReqs, Unused(x.be.wire, x.fe.wire, r)
    PROVE  Loose(x, r)
    BY DEF Unused, Absent, Loose

(* Entries come and go.                                                    *)
LEMMA AudioStore ==
    ASSUME NEW x, NEW y, NEW K, NEW r, x \in VocsStates, Audio(x, K), ButStore(x, y), Loose(x, r),
           \A e \in x.async : e.id # r => e \in y.async, \A e \in y.async : e.id # r => e \in x.async
    PROVE  Audio(y, K)
<1>1. SameLoops(x, y) /\ y.be = x.be /\ y.fe = x.fe
    BY DEF ButStore, SameLoops
<1>2. SameWaits(x, y)
    BY DEF Loose, AsyncHas, SameWaits
<1> QED
    BY <1>1, <1>2, AudioPlain

(* An entry is stored.                                                     *)
LEMMA AudioStored ==
    ASSUME NEW x, NEW K, NEW e \in Entries, x \in VocsStates, Audio(x, K), Loose(x, e.id)
    PROVE  Audio(AsyncSet(x, e), K) /\ Audio(AsyncSet(Owe(x, e.id, e.sock), e), K)
<1> DEFINE y == AsyncSet(x, e)
           z == AsyncSet(Owe(x, e.id, e.sock), e)
<1>1. ButStore(x, y) /\ y.async = x.async \cup {e} /\ ButStore(x, z) /\ z.async = x.async \cup {e}
    BY AskedFields DEF Asked
<1> HIDE DEF y, z
<1>2. Audio(y, K)
    BY <1>1, AudioStore
<1>3. Audio(z, K)
    BY <1>1, AudioStore
<1> QED
    BY <1>2, <1>3 DEF y, z

(* An entry is taken out, when the request is answered or nothing is       *)
(* stored for it.                                                          *)
LEMMA AudioTaken ==
    ASSUME NEW x, NEW K, NEW r, NEW c, x \in VocsStates, Audio(x, K), Loose(x, r) \/ ~AsyncHas(x, r)
    PROVE  Audio(AsyncUnset(x, r), K) /\ Audio(Respond(AsyncUnset(x, r), r, c), K)
<1> DEFINE y == AsyncUnset(x, r)
           z == Respond(y, r, c)
<1>1. Taken(x, y, r) /\ Settled(x, z, r, c)
    BY TakenFields
<1> HIDE DEF y, z
<1>2. /\ SameLoops(x, y) /\ y.be = x.be /\ y.fe = x.fe /\ SameLoops(x, z) /\ z.be = x.be /\ z.fe = x.fe
      /\ y.async = {e \in x.async : e.id # r} /\ z.async = y.async
    BY <1>1 DEF Taken, Settled, ButStore, SameLoops
<1>3. SameWaits(x, y) /\ SameWaits(x, z)
    BY <1>2 DEF Loose, AsyncHas, SameWaits
<1>4. Audio(y, K)
    BY <1>2, <1>3, AudioPlain
<1>5. Audio(z, K)
    BY <1>2, <1>3, AudioPlain
<1> QED
    BY <1>4, <1>5 DEF y, z

(* A response.                                                             *)
LEMMA AudioResponded ==
    ASSUME NEW x, NEW K, NEW r, NEW c, x \in VocsStates, Audio(x, K)
    PROVE  Audio(Respond(x, r, c), K)
<1> DEFINE z == Respond(x, r, c)
<1>1. SameLoops(x, z) /\ z.be = x.be /\ z.fe = x.fe /\ z.async = x.async
    BY DEF Respond, VocsStates, SameLoops
<1> HIDE DEF z
<1>2. SameWaits(x, z)
    BY <1>1 DEF AsyncHas, SameWaits
<1>3. Audio(z, K)
    BY <1>1, <1>2, AudioPlain
<1> QED
    BY <1>3 DEF z

(* The entry of a client that is about to be dropped is taken out.         *)
LEMMA AudioForsaken ==
    ASSUME NEW x, NEW K, NEW r, NEW c, Ready(x), Audio(x, K), K \subseteq {c}, Waits(x, r, c)
    PROVE  Audio(AsyncUnset(x, r), {c}) /\ Audio(Respond(AsyncUnset(x, r), r, c), {c})
<1> DEFINE y == AsyncUnset(x, r)
<1>0. x \in VocsStates /\ Told(x) /\ Owned(x)
    BY DEF Ready, Sess
<1>1. Taken(x, y, r)
    BY <1>0, TakenFields
<1> HIDE DEF y
<1>2. /\ y \in VocsStates /\ y.sess = x.sess /\ y.conn = x.conn /\ y.be = x.be /\ y.fe = x.fe
      /\ y.async = {e \in x.async : e.id # r}
    BY <1>1 DEF Taken, ButStore
<1>3. Silent(y) /\ Called(y)
    BY <1>2 DEF Audio, Silent, Called
<1>4. ASSUME NEW T \in Users, y.sess[T] \notin {c, NoSocket} PROVE AudioOf(y, T)
  <2>1. AudioOf(x, T)
    BY <1>2, <1>4 DEF Audio
  <2>2. ASSUME NEW p \in Proxies, NEW m \in In(x.fe.wire[p]), m.op \in TalkOps, m.session = T
        PROVE  AsyncHas(y, m.id)
    <3>1. PICK e \in x.async : e.id = m.id
      BY <2>1, <2>2 DEF AudioOf, Voiced, AsyncHas
    <3>2. e.sock = x.sess[T]
      BY <1>0, <2>2, <3>1 DEF Told, TalkFits
    <3>3. e.id # r
      BY <1>2, <1>4, <3>2 DEF Waits
    <3> QED
      BY <1>2, <3>1, <3>3 DEF AsyncHas
  <2>3. ASSUME NEW s \in Sockets, NEW m \in In(x.be.wire[s]), m.op \in LoopOps, m.user = T
        PROVE  AsyncHas(x, m.id) <=> AsyncHas(y, m.id)
    <3>1. ASSUME NEW e \in x.async, e.id = m.id PROVE e \in y.async
      <4>1. x.sess[T] \in {e.sock, NoSocket}
        BY <1>0, <2>3, <3>1 DEF Owned
      <4>2. e.sock # c
        BY <1>2, <1>4, <4>1
      <4> QED
        BY <1>2, <3>1, <4>2 DEF Waits
    <3> QED
      BY <1>2, <3>1 DEF AsyncHas
  <2>4. Unmoved(x, y, T)
    BY <1>2, <2>2, <2>3 DEF Unmoved
  <2> QED
    BY <2>1, <2>4, UnmovedAudio
<1>5. Audio(y, {c})
    BY <1>3, <1>4 DEF Audio
<1>6. Audio(Respond(y, r, c), {c})
    BY <1>2, <1>5, AudioResponded
<1> QED
    BY <1>5, <1>6 DEF y

(* Marks of login and authorization, of logins under way, of a connection. *)
LEMMA AudioMarked ==
    ASSUME NEW x, NEW K, x \in VocsStates, Audio(x, K)
    PROVE  /\ \A c \in Clients : /\ Audio(Authenticated(x, c), K) /\ Audio([x EXCEPT !.conn[c].role = TRUE], K)
                                 /\ Audio([x EXCEPT !.up[c] = TRUE], K)
           /\ \A D \in SUBSET Reqs : Audio([x EXCEPT !.ldap = D], K)
<1>1. ASSUME NEW y, SameLoops(x, y), y.be = x.be, y.fe = x.fe, y.async = x.async PROVE Audio(y, K)
  <2>1. SameWaits(x, y)
    BY <1>1 DEF AsyncHas, SameWaits
  <2> QED
    BY <1>1, <2>1, AudioPlain
<1>2. ASSUME NEW c \in Clients PROVE Audio(Authenticated(x, c), K) /\ Audio([x EXCEPT !.conn[c].role = TRUE], K)
  <2> DEFINE y == Authenticated(x, c)
             z == [x EXCEPT !.conn[c].role = TRUE]
  <2>1. /\ ButConn(x, y) /\ y.conn = [x.conn EXCEPT ![c] = [x.conn[c] EXCEPT !.user = TRUE]]
        /\ ButConn(x, z) /\ z.conn = [x.conn EXCEPT ![c] = [x.conn[c] EXCEPT !.role = TRUE]]
    BY MarkedFields
  <2>2. x.conn \in [Clients -> Conns]
    BY VocsTyping
  <2> HIDE DEF y, z
  <2>3. SameLoops(x, y)
    BY <2>1, <2>2 DEF ButConn, SameLoops, Conns
  <2>4. SameLoops(x, z)
    BY <2>1, <2>2 DEF ButConn, SameLoops, Conns
  <2>5. Audio(y, K)
    BY <1>1, <2>1, <2>3 DEF ButConn
  <2>6. Audio(z, K)
    BY <1>1, <2>1, <2>4 DEF ButConn
  <2> QED
    BY <2>5, <2>6 DEF y, z
<1>3. ASSUME NEW c \in Clients PROVE Audio([x EXCEPT !.up[c] = TRUE], K)
  <2> DEFINE y == [x EXCEPT !.up[c] = TRUE]
  <2>1. SameLoops(x, y) /\ y.be = x.be /\ y.fe = x.fe /\ y.async = x.async
    BY DEF VocsStates, SameLoops
  <2> HIDE DEF y
  <2>2. Audio(y, K)
    BY <1>1, <2>1
  <2> QED
    BY <2>2 DEF y
<1>4. ASSUME NEW D \in SUBSET Reqs PROVE Audio([x EXCEPT !.ldap = D], K)
  <2> DEFINE y == [x EXCEPT !.ldap = D]
  <2>1. SameLoops(x, y) /\ y.be = x.be /\ y.fe = x.fe /\ y.async = x.async
    BY DEF VocsStates, SameLoops
  <2> HIDE DEF y
  <2>2. Audio(y, K)
    BY <1>1, <2>1
  <2> QED
    BY <2>2 DEF y
<1> QED
    BY <1>2, <1>3, <1>4

(* Login, authorization, logout.                                           *)
LEMMA AudioLogin ==
    ASSUME NEW x, NEW c \in Clients, NEW valid \in BOOLEAN, Ready(x), Audio(x, {})
    PROVE  /\ Audio(Close(x, c), {}) /\ Audio(ClientLogin(x, c, valid), {})
           /\ Audio(ClientAuthorize(x, c, valid), {}) /\ Audio(ClientLogout(x, c), {})
<1>1. x \in VocsStates /\ TRUE \in BOOLEAN /\ {} \subseteq {c} /\ c \in Clients \cup {NoSocket}
    BY DEF Ready, Sess
<1>2. Audio(DropConnection(x, c, TRUE, TRUE), {})
    BY <1>1, AudioDrop
<1>3. Audio(Authenticated(x, c), {}) /\ Audio([x EXCEPT !.conn[c].role = TRUE], {})
    BY <1>1, AudioMarked
<1> QED
    BY <1>2, <1>3 DEF Close, ClientLogin, ClientAuthorize, ClientLogout

(* A login that LDAP decides.                                              *)
LEMMA AudioLoginLdap ==
    ASSUME NEW x, NEW r, NEW c \in Clients, Ready(x), Audio(x, {}), Asking(x, r, c)
    PROVE  Audio(ClientLoginLdap(x, r, c), {})
<1> DEFINE D == x.ldap \cup {r}
           y == [x EXCEPT !.ldap = D]
           e == Entry(r, c, None, None)
           z == AsyncSet(Owe(y, r, c), e)
<1>1. x \in VocsStates /\ TRUE \in BOOLEAN /\ r \in Reqs /\ r \in ClientReqs /\ Loose(x, r)
    BY UnusedLoose DEF Ready, Sess, Asking, ClientReqs, Fresh
<1>2. D \in SUBSET Reqs
    BY <1>1, VocsTyping
<1> HIDE DEF D
<1>3. Audio(y, {})
    BY <1>1, <1>2, AudioMarked
<1>4. y \in VocsStates /\ y.be = x.be /\ y.fe = x.fe
    BY <1>1, <1>2 DEF VocsStates
<1>5. e \in Entries /\ e.id = r /\ e.sock = c
    BY <1>1, EntryType
<1> HIDE DEF y, e
<1>6. Loose(y, e.id)
    BY <1>1, <1>4, <1>5 DEF Loose
<1>7. Audio(z, {})
    BY <1>3, <1>4, <1>5, <1>6, AudioStored
<1>8. Audio(Close(x, c), {})
    BY <1>1, AudioLogin
<1> QED
    BY <1>7, <1>8 DEF ClientLoginLdap, y, e, z, D

(* Its answer.                                                             *)
LEMMA AudioLdapAnswer ==
    ASSUME NEW w, NEW x, NEW iss, NEW mk, NEW r \in x.ldap, NEW granted \in BOOLEAN, Base(x, iss, mk),
           Fit(w, x, {}, {}), Audio(x, {})
    PROVE  Audio(LdapAuthentication(x, r, granted), {})
<1> DEFINE u == AsyncUnset(x, r)
           D == u.ldap \ {r}
           y == [u EXCEPT !.ldap = D]
           c == AsyncGet(x, r).sock
<1>0. x \in VocsStates
    BY DEF Base
<1>1. Taken(x, u, r)
    BY <1>0, TakenFields
<1>2. Loose(x, r) \/ ~AsyncHas(x, r)
  <2> SUFFICES ASSUME NEW e \in x.async, e.id = r PROVE Loose(x, r)
    BY DEF AsyncHas
  <2>1. e.loop = None /\ None \notin Loops
    BY NoneAssumption DEF Base, Stored
  <2>2. \A s \in Sockets : \A m \in In(x.be.wire[s]) : m.op \in LoopOps => m.id # r
    BY <2>1 DEF Base, BeMeant, BeWorded, BeAwaited
  <2>3. \A p \in Proxies : \A m \in In(x.fe.wire[p]) : m.op \in TalkOps => m.id # r
    BY DEF Base, FeMeant, FeAwaited
  <2> QED
    BY <2>2, <2>3 DEF Loose
<1>3. Audio(u, {})
    BY <1>0, <1>2, AudioTaken
<1>4. AsyncHas(x, r) => c \in Clients /\ Waits(x, r, c)
    BY WaitsFound
<1>5. AsyncHas(x, r) => Fit(w, u, {}, {} \cup {<<r, c>>})
    BY <1>4, FitTaken
<1> HIDE DEF u, c
<1>6. u \in VocsStates /\ D \in SUBSET Reqs
    BY <1>1, VocsTyping DEF Taken, ButStore
<1> HIDE DEF D
<1>7. Audio(y, {}) /\ y \in VocsStates
    BY <1>3, <1>6, AudioMarked DEF VocsStates
<1>8. AsyncHas(x, r) => Fit(w, y, {}, {} \cup {<<r, c>>})
    BY <1>5, <1>6, FitMarked
<1> HIDE DEF y
<1>9. ASSUME AsyncHas(x, r) PROVE Audio(Close(y, c), {}) /\ Audio(Authenticated(Respond(y, r, c), c), {})
  <2>1. Ready(y) /\ c \in Clients /\ TRUE \in BOOLEAN
    BY <1>4, <1>8, <1>9, FitReady
  <2>2. Audio(Close(y, c), {})
    BY <1>7, <2>1, AudioLogin
  <2>3. Audio(Respond(y, r, c), {}) /\ Respond(y, r, c) \in VocsStates
    BY <1>7, AudioResponded DEF Respond, VocsStates
  <2> QED
    BY <2>1, <2>2, <2>3, AudioMarked
<1> QED
    BY <1>7, <1>9 DEF LdapAuthentication, y, u, c, D

(* A step of the frontend that is about no loop, with an entry if need be. *)
LEMMA AudioFeStep ==
    ASSUME NEW x, NEW K, NEW f \in FE!FrontendStates, x \in VocsStates, Audio(x, K), f.talk = x.fe.talk,
           \A p \in Proxies : \A m \in In(f.wire[p]) : m.op \in TalkOps => m \in In(x.fe.wire[p])
    PROVE  LET y == [x EXCEPT !.fe = f] IN
           /\ Audio(y, K)
           /\ \A e \in Entries : Loose(x, e.id) => Audio(AsyncSet(Owe(y, e.id, e.sock), e), K)
<1> DEFINE y == [x EXCEPT !.fe = f]
<1>1. y \in VocsStates /\ y.fe = f /\ ButFe(x, y)
    BY WithFe
<1> HIDE DEF y
<1>2. Audio(y, K)
    BY <1>1, AudioFrontend
<1>3. ASSUME NEW e \in Entries, Loose(x, e.id) PROVE Audio(AsyncSet(Owe(y, e.id, e.sock), e), K)
  <2>1. Loose(y, e.id)
    BY <1>1, <1>3 DEF Loose, ButFe
  <2> QED
    BY <1>1, <1>2, <2>1, AudioStored
<1> QED
    BY <1>2, <1>3 DEF y

(* A message to the home of a session.                                     *)
LEMMA AudioHome ==
    ASSUME NEW x, NEW K, NEW f, NEW S, NEW m \in FE!ProxyMessages, x \in VocsStates, Audio(x, K),
           SentHome(x.fe, f, S, m), m.op \notin TalkOps
    PROVE  LET y == [x EXCEPT !.fe = f] IN
           /\ Audio(y, K)
           /\ \A e \in Entries : Loose(x, e.id) => Audio(AsyncSet(Owe(y, e.id, e.sock), e), K)
<1>0. x.fe \in FE!FrontendStates /\ f \in FE!FrontendStates /\ f.talk = x.fe.talk
    BY VocsTyping DEF SentHome, OtherwiseSame
<1>1. AlsoHome(x.fe, f, S, m)
    BY <1>0, SentIn
<1>2. \A p \in Proxies : \A n \in In(f.wire[p]) : n.op \in TalkOps => n \in In(x.fe.wire[p])
    BY <1>1 DEF AlsoHome
<1> QED
    BY <1>0, <1>2, AudioFeStep

(* Dropping a session at its proxy.                                        *)
LEMMA AudioFrontendDrop ==
    ASSUME NEW x, NEW K, NEW S \in Users, x \in VocsStates, Audio(x, K)
    PROVE  Audio(FrontendDrop(x, S), K)
<1>0. x.fe \in FE!FrontendStates
    BY VocsTyping
<1>1. /\ SentHome(x.fe, FE!DropSession(x.fe, S), S, DropMessage(S))
      /\ DropMessage(S) \in FE!ProxyMessages /\ DropMessage(S).op = "drop"
    BY <1>0, DropSessionFields
<1>2. DropMessage(S).op \notin TalkOps
    BY <1>1 DEF TalkOps
<1> QED
    BY <1>1, <1>2, AudioHome DEF FrontendDrop

(* A request for media.                                                    *)
LEMMA AudioMedia ==
    ASSUME NEW x, NEW r, NEW c \in Clients, Ready(x), Audio(x, {}), Asking(x, r, c)
    PROVE  Audio(ClientMedia(x, r, c), {})
<1> DEFINE f == FE!CreateSession(x.fe, r)
           e == Entry(r, c, None, None)
           m == FE!ProxyMessage("create", r, None, None)
           z == AsyncSet(Owe([x EXCEPT !.fe = f], r, c), e)
<1>1. x \in VocsStates /\ TRUE \in BOOLEAN /\ r \in Reqs /\ r \in ClientReqs /\ Loose(x, r)
    BY UnusedLoose DEF Ready, Sess, Asking, ClientReqs, Fresh
<1>2. e \in Entries /\ e.id = r /\ e.sock = c
    BY <1>1, EntryType
<1>3. Audio(Close(x, c), {})
    BY <1>1, AudioLogin
<1>4. ASSUME FE!ProxyAvailable(x.fe) PROVE Audio(z, {})
  <2>0. x.fe \in FE!FrontendStates /\ x.fe.wire \in [Proxies -> Seq(FE!ProxyMessages)]
    BY <1>1, VocsTyping, FrontendTyping
  <2>1. PICK p \in Proxies : /\ f \in FE!FrontendStates /\ OtherwiseSame(x.fe, f)
                             /\ f.wire = [x.fe.wire EXCEPT ![p] = Append(x.fe.wire[p], m)]
    BY <1>1, <1>4, <2>0, CreateSessionFields
  <2>2. m \in FE!ProxyMessages /\ m.op \notin TalkOps
    <3>1. "create" \in FE!FrontendOps
      BY DEF FE!FrontendOps
    <3>2. r \in Reqs \cup {None} /\ None \in Users \cup {None} /\ None \in Loops \cup {None}
      BY <1>1
    <3>3. m \in FE!ProxyMessages /\ m.op = "create"
      BY <3>1, <3>2, ProxyMessageType
    <3> QED
      BY <3>3 DEF TalkOps
  <2> HIDE DEF f, m, e
  <2>3. \A q \in Proxies : \A n \in In(f.wire[q]) : n.op \in TalkOps => n \in In(x.fe.wire[q])
    <3>1. In(Append(x.fe.wire[p], m)) = In(x.fe.wire[p]) \cup {m}
      BY <2>0, <2>2, QueueFacts
    <3>2. ASSUME NEW q \in Proxies, NEW n \in In(f.wire[q]), n.op \in TalkOps PROVE n \in In(x.fe.wire[q])
      <4>1. CASE q = p
        BY <2>0, <2>1, <2>2, <3>1, <3>2, <4>1
      <4>2. CASE q # p
        BY <2>0, <2>1, <3>2, <4>2
      <4> QED
        BY <4>1, <4>2
    <3> QED
      BY <3>2
  <2>4. f.talk = x.fe.talk
    BY <2>1 DEF OtherwiseSame
  <2>5. LET y == [x EXCEPT !.fe = f] IN
        \A k \in Entries : Loose(x, k.id) => Audio(AsyncSet(Owe(y, k.id, k.sock), k), {})
    BY <1>1, <2>1, <2>3, <2>4, AudioFeStep
  <2> QED
    BY <1>1, <1>2, <2>5
<1> QED
    BY <1>3, <1>4 DEF ClientMedia

(* What ICE needs.                                                         *)
LEMMA AudioSignal ==
    ASSUME NEW x, NEW r, NEW c \in Clients, Ready(x), Audio(x, {}), Asking(x, r, c)
    PROVE  Audio(ClientUpdate(x, r, c), {}) /\ Audio(ClientCandidate(x, r, c), {})
<1> DEFINE S == x.conn[c].session
           e == Entry(r, c, None, None)
           f == FE!UpdateSession(x.fe, r, S)
           g == FE!Candidate(x.fe, r, S)
<1>1. x \in VocsStates /\ TRUE \in BOOLEAN /\ r \in Reqs /\ r \in ClientReqs /\ Loose(x, r)
    BY UnusedLoose DEF Ready, Sess, Asking, ClientReqs, Fresh
<1>2. e \in Entries /\ e.id = r /\ e.sock = c
    BY <1>1, EntryType
<1>3. Audio(Close(x, c), {})
    BY <1>1, AudioLogin
<1>4. ASSUME S # None
      PROVE  /\ Audio(AsyncSet(Owe([x EXCEPT !.fe = f], r, c), e), {})
             /\ Audio(AsyncSet(Owe([x EXCEPT !.fe = g], r, c), e), {})
  <2>0. x.fe \in FE!FrontendStates /\ S \in Users
    BY <1>1, <1>4, VocsTyping DEF Conns
  <2> DEFINE m == FE!ProxyMessage("update", r, S, None)
             n == FE!ProxyMessage("candidate", r, S, None)
  <2>1. SentHome(x.fe, f, S, m) /\ SentHome(x.fe, g, S, n)
    BY <1>1, <2>0, SignalFields
  <2> HIDE DEF S
  <2>2. m \in FE!ProxyMessages /\ m.op \notin TalkOps
    BY <1>1, <2>0, ProxyMessageType DEF FE!FrontendOps, TalkOps
  <2>3. n \in FE!ProxyMessages /\ n.op \notin TalkOps
    BY <1>1, <2>0, ProxyMessageType DEF FE!FrontendOps, TalkOps
  <2> HIDE DEF f, g, m, n, e
  <2>4. LET y == [x EXCEPT !.fe = f] IN
        \A k \in Entries : Loose(x, k.id) => Audio(AsyncSet(Owe(y, k.id, k.sock), k), {})
    BY <1>1, <2>1, <2>2, AudioHome
  <2>5. LET y == [x EXCEPT !.fe = g] IN
        \A k \in Entries : Loose(x, k.id) => Audio(AsyncSet(Owe(y, k.id, k.sock), k), {})
    BY <1>1, <2>1, <2>3, AudioHome
  <2> QED
    BY <1>1, <1>2, <2>4, <2>5
<1> QED
    BY <1>3, <1>4 DEF ClientUpdate, ClientCandidate, MaySignal

-----------------------------------------------------------------------------
(* Requests about loops.                                                   *)

(* A request to the mixer of a session is added to its queue.              *)
LEMMA AudioLoopSent ==
    ASSUME NEW x, NEW op \in LoopOps, NEW r \in Reqs, NEW S \in Users, NEW l \in Loops,
           Sess(x), Slots(x, {}), Audio(x, {}), x.sess[S] # NoSocket,
           op = "join" => AsyncHas(x, r) /\ x.conn[x.sess[S]].mixer,
           op \in {"join", "leave"} /\ AsyncHas(x, r) => x.conn[x.sess[S]].loops[l] # "send"
    PROVE  Audio([x EXCEPT !.be = LoopRequest(x.be, op, r, S, l)], {})
<1> DEFINE b == LoopRequest(x.be, op, r, S, l)
           y == [x EXCEPT !.be = b]
           m == Message(op, r, S, l)
           c == x.sess[S]
           t == x.be.users[S]
<1>0. /\ x \in VocsStates /\ x.be \in BackendStates /\ c \in Clients /\ NoSocket \notin Clients
      /\ x.be.slot \in [Sockets -> Users \cup {Closed, Free}] /\ x.be.wire \in [Sockets -> Seq(Messages)]
    BY VocsTyping, BackendTyping DEF Sess
<1>1. SentToMixer(x.be, b, S, m)
    BY <1>0, LoopRequestFields
<1>2. /\ m \in Messages /\ m.op = op /\ m.id = r /\ m.user = S /\ m.loop = l
    <2>1. op \in BackendOps /\ l \in Loops \cup {None} /\ (op = "join" => l \in Loops)
      BY DEF LoopOps, BackendOps
    <2> QED
      BY <2>1, MessageType
<1>3. Sess(y)
    BY SessLoopRequest
<1>4. y.be = b /\ ButBe(x, y)
    BY <1>0, <1>1, WithBe DEF SentToMixer
<1>5. AlsoAtMixer(x.be, b, S, m)
    BY <1>0, <1>1, <1>2, SentInMixer
<1> HIDE DEF b, y, m
<1>6. Called(y)
  <2> SUFFICES ASSUME NEW s \in Sockets, NEW n \in In(b.wire[s]), n.op = "leave" PROVE n.id \in b.cbs
    BY <1>4 DEF Called
  <2>1. n \in In(x.be.wire[s]) \/ n = m
    BY <1>5 DEF AlsoAtMixer
  <2>2. b.cbs = x.be.cbs \cup {m.id}
    BY <1>1 DEF SentToMixer
  <2> QED
    BY <2>1, <2>2 DEF Audio, Called
<1>7. CASE ~HasMixer(x.be, S)
  <2>1. b.wire = x.be.wire /\ b.slot = x.be.slot /\ b.mix = x.be.mix
    BY <1>1, <1>7 DEF SentToMixer
  <2>2. Audio(y, {})
    BY <1>4, <1>6, <2>1, AudioBackend
  <2> QED
    BY <2>2 DEF y, b
<1>8. CASE HasMixer(x.be, S)
  <2>1. t \in Sockets /\ x.be.slot[t] = S
    BY <1>0, <1>8, GetUserType DEF Slots
  <2>2. /\ b.wire = [x.be.wire EXCEPT ![t] = Append(x.be.wire[t], m)]
        /\ b.slot = x.be.slot /\ b.mix = x.be.mix
    BY <1>1, <1>8 DEF SentToMixer
  <2>3. \A s \in Sockets : x.be.slot[s] = S => s = t
    BY DEF Slots
  <2> HIDE DEF t
  <2>4. Audio(y, {c})
    <3>1. ASSUME NEW T \in Users, NEW s \in Sockets, x.sess[T] \notin {c} \cup {NoSocket}, y.be.slot[s] = T
          PROVE  x.be.slot[s] = T /\ y.be.wire[s] = x.be.wire[s] /\ y.be.mix[s] = x.be.mix[s]
      <4>1. s # t
        BY <1>4, <2>1, <2>2, <3>1
      <4> QED
        BY <1>0, <1>4, <2>1, <2>2, <3>1, <4>1
    <3>2. {} \subseteq {c}
      OBVIOUS
    <3> HIDE DEF c
    <3> QED
      BY <1>4, <1>6, <3>1, <3>2, AudioBackend
  <2>5. AudioOf(x, S) /\ y.conn = x.conn /\ y.sess = x.sess /\ y.async = x.async /\ y.fe = x.fe
    BY <1>4 DEF Audio, ButBe
  <2>6. Voiced(y, S)
    BY <2>5 DEF AudioOf, Voiced, AsyncHas
  <2>7. Heard(y, t, S)
    <3> DEFINE w == x.be.wire[t]
               d == x.conn[c]
    <3>1. /\ Trailing(w, S) /\ (d.mixer => Mine(w, S) /\ x.be.mix[t].loops = Played(d))
          /\ \A n \in In(w) : n.user = S =>
               /\ n.op = "join" => d.mixer /\ AsyncHas(x, n.id)
               /\ n.op \in {"join", "leave"} /\ AsyncHas(x, n.id) => d.loops[n.loop] # "send"
      BY <2>1, <2>5 DEF AudioOf, Heard
    <3>2. w \in Seq(Messages) /\ y.be.wire[t] = Append(w, m) /\ y.be.mix[t] = x.be.mix[t]
      BY <1>0, <1>4, <2>1, <2>2
    <3>3. In(Append(w, m)) = In(w) \cup {m}
      BY <1>2, <3>2, QueueFacts
    <3>4. y.conn[y.sess[S]] = d /\ \A i : AsyncHas(y, i) <=> AsyncHas(x, i)
      BY <2>5 DEF AsyncHas
    <3> HIDE DEF w
    <3>5. Trailing(Append(w, m), S)
      BY <1>2, <3>1, <3>2, TrailingFacts
    <3>6. d.mixer => Mine(Append(w, m), S) /\ y.be.mix[t].loops = Played(d)
      BY <1>2, <3>1, <3>2, <3>3 DEF Mine
    <3>7. ASSUME NEW n \in In(Append(w, m)), n.user = S
          PROVE  /\ n.op = "join" => d.mixer /\ AsyncHas(y, n.id)
                 /\ n.op \in {"join", "leave"} /\ AsyncHas(y, n.id) => d.loops[n.loop] # "send"
      BY <1>2, <3>1, <3>3, <3>4, <3>7
    <3> HIDE DEF d
    <3> QED
      BY <3>2, <3>4, <3>5, <3>6, <3>7 DEF Heard
  <2>8. AudioOf(y, S)
    BY <1>4, <2>2, <2>3, <2>6, <2>7 DEF AudioOf
  <2>9. S = y.conn[c].session
    BY <1>0, <1>3, <2>5 DEF Sess, Bound
  <2> HIDE DEF c
  <2>10. Audio(y, {})
    BY <1>3, <2>4, <2>8, <2>9, AudioAll
  <2> QED
    BY <2>10 DEF y, b
<1> QED
    BY <1>7, <1>8

(* So is a request to the proxy of a session.                              *)
LEMMA AudioTalkSent ==
    ASSUME NEW x, NEW r \in Reqs, NEW S \in Users, NEW l \in Loops, NEW on \in BOOLEAN, x \in VocsStates,
           Audio(x, {}), AsyncHas(x, r)
    PROVE  Audio([x EXCEPT !.fe = FE!Talk(x.fe, r, S, on, l)], {})
<1> DEFINE f == FE!Talk(x.fe, r, S, on, l)
           y == [x EXCEPT !.fe = f]
           m == TalkMessage(r, S, on, l)
<1>0. x.fe \in FE!FrontendStates
    BY VocsTyping
<1>1. SentHome(x.fe, f, S, m)
    BY <1>0, TalkFields
<1>2. m \in FE!ProxyMessages /\ m.id = r
  <2> DEFINE o == IF on THEN "talk on" ELSE "talk off"
  <2>1. o \in FE!FrontendOps /\ r \in Reqs \cup {None} /\ S \in Users \cup {None} /\ l \in Loops \cup {None}
    BY DEF FE!FrontendOps
  <2> HIDE DEF o
  <2>2. FE!ProxyMessage(o, r, S, l) \in FE!ProxyMessages /\ FE!ProxyMessage(o, r, S, l).id = r
    BY <2>1, ProxyMessageType
  <2> QED
    BY <2>2 DEF o, TalkMessage
<1>3. y.fe = f /\ ButFe(x, y)
    BY <1>0, <1>1, WithFe DEF SentHome
<1> HIDE DEF f, m, y
<1>4. AlsoHome(x.fe, f, S, m) /\ f.talk = x.fe.talk
    BY <1>0, <1>1, <1>2, SentIn DEF SentHome, OtherwiseSame
<1>5. \A p \in Proxies : \A n \in In(y.fe.wire[p]) : n.op \in TalkOps => n \in In(x.fe.wire[p]) \/ AsyncHas(x, n.id)
    BY <1>2, <1>3, <1>4 DEF AlsoHome
<1>6. Audio(y, {})
    BY <1>3, <1>4, <1>5, AudioFrontend
<1> QED
    BY <1>6 DEF y, f

(* perform_switch_loop_request for a stored request.                       *)
LEMMA AudioPerform ==
    ASSUME NEW x, NEW r \in Reqs, NEW S \in Users, NEW l \in Loops, NEW current \in LoopStates,
           NEW want \in LoopStates, current # want, Sess(x), Slots(x, {}), Audio(x, {}), x.sess[S] # NoSocket,
           x.conn[x.sess[S]].mixer, x.conn[x.sess[S]].loops[l] = current, AsyncHas(x, r)
    PROVE  Audio(PerformSwitch(x, r, S, l, current, want), {})
<1> DEFINE y == PerformSwitch(x, r, S, l, current, want)
<1>0. "join" \in LoopOps /\ "leave" \in LoopOps /\ x \in VocsStates /\ TRUE \in BOOLEAN /\ FALSE \in BOOLEAN
    BY DEF LoopOps, Sess
<1>t. ASSUME NEW on \in BOOLEAN PROVE Audio([x EXCEPT !.fe = FE!Talk(x.fe, r, S, on, l)], {})
    BY <1>0, AudioTalkSent
<1>1. CASE current = "none"
  <2>1. y = [x EXCEPT !.be = LoopRequest(x.be, "join", r, S, l)]
    BY <1>1 DEF PerformSwitch
  <2> QED
    BY <1>0, <1>1, <2>1, AudioLoopSent
<1>2. CASE current = "recv" /\ want = "none"
  <2>1. y = [x EXCEPT !.be = LoopRequest(x.be, "leave", r, S, l)]
    BY <1>2 DEF PerformSwitch
  <2> QED
    BY <1>0, <1>2, <2>1, AudioLoopSent
<1>3. CASE current = "recv" /\ want = "send"
  <2>1. y = [x EXCEPT !.fe = FE!Talk(x.fe, r, S, TRUE, l)]
    BY <1>3 DEF PerformSwitch
  <2> QED
    BY <1>t, <2>1
<1>4. CASE current = "send"
  <2>1. y = [x EXCEPT !.fe = FE!Talk(x.fe, r, S, FALSE, l)]
    BY <1>4 DEF PerformSwitch
  <2> QED
    BY <1>t, <2>1
<1> QED
    BY <1>1, <1>2, <1>3, <1>4 DEF LoopStates

(* A callback is registered.                                               *)
LEMMA AudioCallback ==
    ASSUME NEW x, NEW K, NEW r \in Reqs, x \in VocsStates, Audio(x, K)
    PROVE  Audio([x EXCEPT !.be = RegisterCallback(x.be, r)], K)
<1> DEFINE b == RegisterCallback(x.be, r)
           y == [x EXCEPT !.be = b]
<1>0. x.be \in BackendStates
    BY VocsTyping
<1>1. /\ b \in BackendStates /\ b.slot = x.be.slot /\ b.wire = x.be.wire /\ b.mix = x.be.mix
      /\ b.cbs = x.be.cbs \cup {r}
    BY <1>0, CallbackFields
<1>2. y.be = b /\ ButBe(x, y)
    BY <1>1, WithBe
<1> HIDE DEF b, y
<1>3. Called(y)
    BY <1>1, <1>2 DEF Audio, Called
<1>4. Audio(y, K)
    BY <1>1, <1>2, <1>3, AudioBackend
<1> QED
    BY <1>4 DEF y, b

(* When it cannot send anything.                                           *)
LEMMA AudioUnperformed ==
    ASSUME NEW x, NEW K, NEW r \in Reqs, NEW S, NEW l, NEW current \in LoopStates, NEW want \in LoopStates,
           current # want, x \in VocsStates, Audio(x, K), ~CanPerform(x, S, current, want)
    PROVE  Audio(PerformSwitch(x, r, S, l, current, want), K)
<1> DEFINE y == PerformSwitch(x, r, S, l, current, want)
<1>1. Audio([x EXCEPT !.be = RegisterCallback(x.be, r)], K) /\ [x EXCEPT !.fe = x.fe] = x
    BY AudioCallback DEF VocsStates
<1>2. CASE current = "none"
  <2>1. y = [x EXCEPT !.be = RegisterCallback(x.be, r)]
    BY <1>2 DEF PerformSwitch, CanPerform, LoopRequest
  <2> QED
    BY <1>1, <2>1
<1>3. CASE current = "recv" /\ want = "none"
  <2>1. y = [x EXCEPT !.be = RegisterCallback(x.be, r)]
    BY <1>3 DEF PerformSwitch, CanPerform, LoopRequest
  <2> QED
    BY <1>1, <2>1
<1>4. CASE current = "recv" /\ want = "send"
  <2>1. y = [x EXCEPT !.fe = FE!Talk(x.fe, r, S, TRUE, l)]
    BY <1>4 DEF PerformSwitch
  <2>2. FE!Talk(x.fe, r, S, TRUE, l) = x.fe
    BY <1>4 DEF CanPerform, FE!Talk
  <2> QED
    BY <1>1, <2>1, <2>2
<1>5. CASE current = "send"
  <2>1. y = [x EXCEPT !.fe = FE!Talk(x.fe, r, S, FALSE, l)]
    BY <1>5 DEF PerformSwitch
  <2>2. FE!Talk(x.fe, r, S, FALSE, l) = x.fe
    BY <1>5 DEF CanPerform, FE!Talk
  <2> QED
    BY <1>1, <2>1, <2>2
<1> QED
    BY <1>2, <1>3, <1>4, <1>5 DEF LoopStates

(* A request for another state of a loop, for another volume.              *)
LEMMA AudioSwitch ==
    ASSUME NEW w, NEW x, NEW r, NEW c \in Clients, NEW l \in Loops, NEW want \in LoopStates,
           Fit(w, x, {}, {}), Asking(x, r, c), Audio(x, {})
    PROVE  /\ Audio(ClientSwitchLoopState(x, r, c, l, want), {})
           /\ Audio(ClientSwitchLoopVolume(x, r, c, l), {})
<1> DEFINE d == x.conn[c]
           S == d.session
           cur == d.loops[l]
           y == PerformSwitch(x, r, S, l, cur, want)
           u == [x EXCEPT !.be = LoopRequest(x.be, "volume", r, S, l)]
           e == Entry(r, c, l, want)
           g == Entry(r, c, l, None)
           a == AsyncSet(Owe(x, r, c), e)
           b == AsyncSet(Owe(x, r, c), g)
<1>0. x \in VocsStates /\ r \in Reqs /\ d \in Conns /\ Bound(x) /\ Ready(x) /\ Sess(x) /\ Slots(x, {})
    BY VocsTyping, FitReady DEF Fit, Sess, Asking, ClientReqs, Lease
<1>1. S \in Users \cup {None} /\ cur \in LoopStates /\ None \notin Users /\ Loose(x, r)
    BY <1>0, BackendTyping, VocsTyping, UnusedLoose DEF Conns, Asking, Fresh
<1>2. /\ Fit(w, a, {}, {}) /\ ButStore(x, a) /\ Fit(w, b, {}, {}) /\ ButStore(x, b)
    BY FitEntered
<1>3. Audio(Close(x, c), {}) /\ \A h \in x.async : h.id # r
    BY <1>0, AudioLogin DEF Asking, Fresh
<1>4. cur # want => AsyncSet(Owe(y, r, c), e) = PerformSwitch(a, r, S, l, cur, want)
    BY <1>0, <1>1, PerformStored
<1>5. AsyncSet(Owe(u, r, c), g) = [b EXCEPT !.be = LoopRequest(b.be, "volume", r, S, l)]
    BY <1>0, StoredBefore
<1>6. S \in Users => x.sess[S] = c
    BY <1>0 DEF Bound
<1>7. e \in Entries /\ e.id = r /\ e.sock = c /\ g \in Entries /\ g.id = r /\ g.sock = c
    BY <1>0, EntryType
<1>8. /\ Sess(a) /\ Slots(a, {}) /\ Sess(b) /\ Slots(b, {}) /\ AsyncHas(a, r)
  <2>1. a.async = x.async \cup {e}
    BY <1>0, <1>7, AskedFields DEF Asked
  <2> QED
    BY <1>2, <1>7, <2>1 DEF Fit, Lease, AsyncHas
<1>9. Audio(a, {}) /\ Audio(b, {})
  <2> HIDE DEF e, g
  <2> QED
    BY <1>0, <1>1, <1>7, AudioStored
<1>10. ClientSwitchLoopState(x, r, c, l, want) =
         IF ~MaySwitch(d, l, want) THEN Close(x, c) ELSE IF cur = want THEN x
         ELSE IF ~CanPerform(x, S, cur, want) THEN Close(y, c) ELSE AsyncSet(Owe(y, r, c), e)
    BY DEF ClientSwitchLoopState
<1>11. MaySwitch(d, l, want) => S # None /\ d.mixer
    BY DEF MaySwitch
<1>12. ClientSwitchLoopVolume(x, r, c, l) =
         IF ~(d.user /\ d.role /\ S # None) THEN Close(x, c)
         ELSE IF ~HasMixer(x.be, S) THEN Close(u, c) ELSE AsyncSet(Owe(u, r, c), g)
    BY DEF ClientSwitchLoopVolume
<1>13. a.sess = x.sess /\ a.conn = x.conn /\ b.sess = x.sess
    BY <1>2 DEF ButStore
<1>14. c # NoSocket
    BY <1>0, VocsTyping
<1>15. Owns(x, r, S)
    BY <1>3 DEF Owns
<1> HIDE DEF S, e, g, a, b
<1>16. \A h \in x.async : h.id = r /\ ~Pipelining /\ cur # "none" => x.conn[h.sock].loops[l] # "none"
    BY <1>3
<1>17. ASSUME S \in Users, d.mixer, cur # want
       PROVE  /\ ~CanPerform(x, S, cur, want) => Audio(Close(y, c), {})
              /\ Audio(AsyncSet(Owe(y, r, c), e), {})
  <2>1. Audio(PerformSwitch(a, r, S, l, cur, want), {})
    <3>1. a.sess[S] # NoSocket /\ a.conn[a.sess[S]].mixer /\ a.conn[a.sess[S]].loops[l] = cur
      BY <1>6, <1>13, <1>14, <1>17
    <3> HIDE DEF cur, d
    <3> QED
      BY <1>0, <1>1, <1>8, <1>9, <1>17, <3>1, AudioPerform
  <2> HIDE DEF cur
  <2>2. Fit(w, y, {}, {})
    BY <1>0, <1>1, <1>15, <1>16, <1>17, FitPerform
  <2>3. Ready(y)
    BY <2>2, FitReady
  <2>4. ASSUME ~CanPerform(x, S, cur, want) PROVE Audio(Close(y, c), {})
    <3>1. Audio(y, {})
      BY <1>0, <1>1, <1>17, <2>4, AudioUnperformed
    <3> HIDE DEF y
    <3> QED
      BY <2>3, <3>1, AudioLogin
  <2> QED
    BY <1>4, <1>17, <2>1, <2>4
<1>18. ASSUME S \in Users
       PROVE  Audio(Close(u, c), {}) /\ Audio(AsyncSet(Owe(u, r, c), g), {})
  <2>1. "volume" \in LoopOps /\ "volume" \notin {"join", "leave"} /\ "volume" # "join"
    BY DEF LoopOps
  <2>2. x.sess[S] # NoSocket /\ b.sess[S] # NoSocket
    BY <1>6, <1>13, <1>14, <1>18
  <2>3. Audio(u, {})
    BY <1>0, <1>18, <2>1, <2>2, AudioLoopSent
  <2>4. Audio([b EXCEPT !.be = LoopRequest(b.be, "volume", r, S, l)], {})
    BY <1>0, <1>8, <1>9, <1>18, <2>1, <2>2, AudioLoopSent
  <2>5. Ready(u)
    BY <1>0, <1>15, <1>18, <2>1, FitLoopSent, FitReady
  <2> HIDE DEF u
  <2>6. Audio(Close(u, c), {})
    BY <2>3, <2>5, AudioLogin
  <2> QED
    BY <1>5, <2>4, <2>6
<1> HIDE DEF y, u, cur, d
<1> QED
    BY <1>1, <1>3, <1>10, <1>11, <1>12, <1>17, <1>18

-----------------------------------------------------------------------------
(* What mixers say.                                                        *)

(* Less is under way and less is stored.                                   *)
LEMMA ReadyLess ==
    ASSUME NEW x, NEW y, Ready(x), Sess(y), y.sess = x.sess, y.async \subseteq x.async,
           \A c \in Clients : y.conn[c].loops = x.conn[c].loops, MixersUntold(x, y),
           \A p \in Proxies : In(y.fe.wire[p]) \subseteq In(x.fe.wire[p])
    PROVE  Ready(y)
<1>0. \A e \in x.async : e.sock \in Clients
    BY VocsTyping DEF Ready, Sess, Entries
<1>1. Told(y)
  <2> SUFFICES ASSUME NEW p \in Proxies, NEW m \in In(y.fe.wire[p]), m.op \in TalkOps
               PROVE  m.session \in Users /\ \A e \in y.async : e.id = m.id =>
                        y.sess[m.session] = e.sock /\ (~Pipelining => y.conn[e.sock].loops[m.loop] # "none")
    BY DEF Told, TalkFits
  <2>1. TalkFits(x, m)
    BY DEF Ready, Told
  <2> QED
    BY <1>0, <2>1 DEF TalkFits
<1>2. Owned(y)
    BY DEF Ready, Owned, MixersUntold
<1> QED
    BY <1>1, <1>2 DEF Ready

(* A request is taken out of the store.                                    *)
LEMMA ReadyTaken ==
    ASSUME NEW x, NEW r, NEW c, Ready(x)
    PROVE  /\ Ready(AsyncUnset(x, r)) /\ Ready(Respond(AsyncUnset(x, r), r, c))
           /\ AsyncUnset(x, r) \in VocsStates
<1> DEFINE y == AsyncUnset(x, r)
           z == Respond(y, r, c)
<1>1. Sess(y) /\ Sess(z)
    BY SessStore DEF Ready
<1>2. Taken(x, y, r) /\ Settled(x, z, r, c)
    BY TakenFields DEF Ready, Sess
<1> HIDE DEF y, z
<1>3. /\ y.sess = x.sess /\ y.conn = x.conn /\ y.be = x.be /\ y.fe = x.fe /\ y.async \subseteq x.async
      /\ z.sess = x.sess /\ z.conn = x.conn /\ z.be = x.be /\ z.fe = x.fe /\ z.async \subseteq x.async
    BY <1>2 DEF Taken, Settled, ButStore
<1>4. Ready(y)
    BY <1>1, <1>3, ReadyLess DEF MixersUntold
<1>5. Ready(z)
    BY <1>1, <1>3, ReadyLess DEF MixersUntold
<1> QED
    BY <1>1, <1>4, <1>5 DEF y, z, Sess

(* The connection of a mixer opens or closes.                              *)
LEMMA AudioCleared ==
    ASSUME NEW x, NEW g \in BackendStates, NEW s \in Sockets, Ready(x), Audio(x, {}), Sess([x EXCEPT !.be = g]),
           g.slot[s] \notin Users, In(g.wire[s]) = {},
           \A t \in Sockets : t # s => /\ g.wire[t] = x.be.wire[t] /\ g.mix[t] = x.be.mix[t]
                                       /\ g.slot[t] \in Users => g.slot[t] = x.be.slot[t],
           \A t \in Sockets : \A n \in In(g.wire[t]) : n.op = "leave" => n.id \in g.cbs
    PROVE  LET y == [x EXCEPT !.be = g] IN
           Ready(y) /\ Audio(y, {}) /\ \A lost \in SUBSET Users : Audio(SlotLost(y, lost), {})
<1> DEFINE y == [x EXCEPT !.be = g]
<1>0. x \in VocsStates
    BY DEF Ready, Sess
<1>1. y.be = g /\ ButBe(x, y) /\ Sess(y)
    BY <1>0, WithBe
<1> HIDE DEF y
<1>2. MixersUntold(x, y)
    BY <1>1 DEF MixersUntold
<1>3. Ready(y)
    BY <1>1, <1>2, ReadyLess DEF ButBe
<1>4. Called(y)
    BY <1>1 DEF Called
<1>5. \A S \in Users, t \in Sockets : y.be.slot[t] = S =>
        x.be.slot[t] = S /\ y.be.wire[t] = x.be.wire[t] /\ y.be.mix[t] = x.be.mix[t]
    BY <1>1
<1>6. Audio(y, {})
    BY <1>1, <1>4, <1>5, AudioBackend
<1>7. ASSUME NEW lost \in SUBSET Users PROVE Audio(SlotLost(y, lost), {})
  <2>1. CASE lost = {}
    BY <1>6, <2>1 DEF SlotLost
  <2>2. CASE lost # {}
    <3> DEFINE u == CHOOSE z \in lost : TRUE
    <3>1. u \in Users /\ u \in Users \cup {None}
      BY <2>2
    <3> HIDE DEF u
    <3>2. SocketOf(y, u) \in Clients \cup {NoSocket}
      BY <1>1, <3>1, SocketBound
    <3>3. TRUE \in BOOLEAN /\ FALSE \in BOOLEAN /\ {} \subseteq {SocketOf(y, u)}
      OBVIOUS
    <3>4. Audio(DropConnection(y, SocketOf(y, u), TRUE, FALSE), {})
      BY <1>3, <1>6, <3>2, <3>3, AudioDrop
    <3> QED
      BY <2>2, <3>4 DEF SlotLost, MixerLost, u
  <2> QED
    BY <2>1, <2>2
<1> QED
    BY <1>3, <1>6, <1>7 DEF y

(* A mixer connects, is lost.                                              *)
LEMMA AudioMixerConnection ==
    ASSUME NEW x, NEW s \in Sockets, Ready(x), Audio(x, {})
    PROVE  Audio([x EXCEPT !.be = CbEventRegister(x.be, s)], {}) /\ Audio(OnMixerClose(x, s), {})
<1> DEFINE g == CbEventRegister(x.be, s)
           h == CloseMixer(x.be, s)
<1>0. /\ x \in VocsStates /\ Sess(x) /\ x.be \in BackendStates /\ Free \notin Users /\ Closed \notin Users
      /\ x.be.slot \in [Sockets -> Users \cup {Closed, Free}] /\ x.be.wire \in [Sockets -> Seq(Messages)]
      /\ x.be.mix \in [Sockets -> Mixers]
    BY VocsTyping, BackendTyping DEF Ready, Sess
<1>1. Sess([x EXCEPT !.be = g]) /\ Sess([x EXCEPT !.be = h])
    BY <1>0, SessMixerConnection
<1>2. /\ g \in BackendStates /\ g.slot = [x.be.slot EXCEPT ![s] = Free] /\ g.cbs = x.be.cbs
      /\ g.wire = [x.be.wire EXCEPT ![s] = <<>>] /\ g.mix = [x.be.mix EXCEPT ![s] = Idle]
      /\ h \in BackendStates /\ h.slot = [x.be.slot EXCEPT ![s] = Closed] /\ h.cbs = x.be.cbs
      /\ h.wire = [x.be.wire EXCEPT ![s] = <<>>] /\ h.mix = [x.be.mix EXCEPT ![s] = Idle]
    BY <1>0, CloseMixerFields, RegisterFields
<1>3. LostUser(x.be, s) \in SUBSET Users
    BY DEF LostUser
<1> HIDE DEF g, h
<1>4. \A t \in Sockets : \A n \in In([x.be.wire EXCEPT ![s] = <<>>][t]) : n.op = "leave" => n.id \in x.be.cbs
  <2> SUFFICES ASSUME NEW t \in Sockets, NEW n \in In([x.be.wire EXCEPT ![s] = <<>>][t]), n.op = "leave"
               PROVE  n.id \in x.be.cbs
    OBVIOUS
  <2>1. n \in In(x.be.wire[t])
    BY <1>0, EmptyQueue
  <2> QED
    BY <2>1 DEF Audio, Called
<1>5. Audio([x EXCEPT !.be = g], {})
  <2>1. /\ g.slot[s] \notin Users /\ In(g.wire[s]) = {}
        /\ \A t \in Sockets : t # s => /\ g.wire[t] = x.be.wire[t] /\ g.mix[t] = x.be.mix[t]
                                       /\ g.slot[t] \in Users => g.slot[t] = x.be.slot[t]
        /\ \A t \in Sockets : \A n \in In(g.wire[t]) : n.op = "leave" => n.id \in g.cbs
    BY <1>0, <1>2, <1>4, EmptyQueue
  <2> QED
    BY <1>1, <1>2, <2>1, AudioCleared
<1>6. Audio(SlotLost([x EXCEPT !.be = h], LostUser(x.be, s)), {})
  <2>1. /\ h.slot[s] \notin Users /\ In(h.wire[s]) = {}
        /\ \A t \in Sockets : t # s => /\ h.wire[t] = x.be.wire[t] /\ h.mix[t] = x.be.mix[t]
                                       /\ h.slot[t] \in Users => h.slot[t] = x.be.slot[t]
        /\ \A t \in Sockets : \A n \in In(h.wire[t]) : n.op = "leave" => n.id \in h.cbs
    BY <1>0, <1>2, <1>4, EmptyQueue
  <2> QED
    BY <1>1, <1>2, <1>3, <2>1, AudioCleared
<1> QED
    BY <1>5, <1>6 DEF g, h, OnMixerClose

(* After an answer the others that are to leave a loop still have their    *)
(* callbacks, and nothing is asked.                                        *)
Lapsed(x, y, s) ==
    /\ Called(y) /\ \A t \in Sockets : In(y.be.wire[t]) \subseteq In(x.be.wire[t])
    /\ \A t \in Sockets : t # s => y.be.wire[t] = x.be.wire[t] /\ y.be.mix[t] = x.be.mix[t]
    /\ \A t \in Sockets : y.be.slot[t] \in Users => y.be.slot[t] = x.be.slot[t]

(* So it is.                                                               *)
LEMMA AnswerCalled ==
    ASSUME NEW x, NEW iss, NEW mk, NEW s \in Sockets, NEW code, Base(x, iss, mk), Called(x), x.be.wire[s] # <<>>
    PROVE  Lapsed(x, [x EXCEPT !.be = HandleAnswer(x.be, s, code)], s)
<1> DEFINE g == HandleAnswer(x.be, s, code)
           y == [x EXCEPT !.be = g]
           m == Head(x.be.wire[s])
<1>0. /\ x \in VocsStates /\ x.be \in BackendStates /\ Free \notin Users /\ Closed \notin Users
      /\ x.be.slot \in [Sockets -> Users \cup {Closed, Free}] /\ x.be.wire \in [Sockets -> Seq(Messages)]
      /\ x.be.mix \in [Sockets -> Mixers]
    BY VocsTyping, BackendTyping DEF Base
<1>1. AnswerHandled(x.be, s, code)
    BY <1>0, HandleAnswerFields
<1>2. BeHeard(y, m, iss, mk) /\ y.be = g
    BY BaseAnswered
<1>3. /\ g.wire = [x.be.wire EXCEPT ![s] = IF ForcesReconnect(x.be, s) THEN <<>> ELSE Tail(x.be.wire[s])]
      /\ \E k : g.mix = [x.be.mix EXCEPT ![s] = k]
      /\ g.cbs = x.be.cbs \ {m.id}
      /\ g.slot \in {SlotAfter(x.be, s, code), [SlotAfter(x.be, s, code) EXCEPT ![s] = Closed]}
    BY <1>1 DEF AnswerHandled
<1>4. SlotAfter(x.be, s, code) \in {x.be.slot, Emptied(x.be, m.user)}
    BY DEF SlotAfter
<1> HIDE DEF g, y, m
<1>5. \A t \in Sockets : In(g.wire[t]) \subseteq In(x.be.wire[t])
  <2>1. In(Tail(x.be.wire[s])) \subseteq In(x.be.wire[s])
    BY <1>0, QueueFacts
  <2> QED
    BY <1>0, <1>3, <2>1, EmptyQueue
<1>6. Called(y)
  <2> SUFFICES ASSUME NEW t \in Sockets, NEW n \in In(g.wire[t]), n.op = "leave" PROVE n.id \in g.cbs
    BY <1>2 DEF Called
  <2>1. n.id \in x.be.cbs
    BY <1>5 DEF Called
  <2>2. n.id \in ClientReqs
    BY <1>2 DEF BeHeard, Base, BeMeant, BeWorded, LoopOps
  <2>3. n.id # m.id
    BY <1>2, <2>2 DEF BeHeard, Unused, Absent
  <2> QED
    BY <1>3, <2>1, <2>3
<1>7. \A t \in Sockets : t # s => g.wire[t] = x.be.wire[t] /\ g.mix[t] = x.be.mix[t]
    BY <1>0, <1>3
<1>8. ASSUME NEW t \in Sockets, g.slot[t] \in Users PROVE g.slot[t] = x.be.slot[t]
  <2> DEFINE z == SlotAfter(x.be, s, code)
  <2>1. z[t] \in {x.be.slot[t], Free} /\ z \in [Sockets -> Users \cup {Closed, Free}]
    BY <1>0, <1>4 DEF Emptied
  <2>2. g.slot[t] \in {z[t], Closed}
    BY <1>3, <2>1
  <2> HIDE DEF z
  <2> QED
    BY <1>0, <1>8, <2>1, <2>2
<1> QED
    BY <1>2, <1>5, <1>6, <1>7, <1>8 DEF y, g, Lapsed

(* The client of the session in the slot, whose audio an answer may        *)
(* change.                                                                 *)
Hearer(x, s) == SocketOf(x, Occupant(x.be, s))

(* An answer to that session.                                              *)
LEMMA AudioAnswered ==
    ASSUME NEW x, NEW iss, NEW mk, NEW s \in Sockets, NEW code, Base(x, iss, mk), Ready(x), Audio(x, {}),
           x.be.wire[s] # <<>>
    PROVE  LET y == [x EXCEPT !.be = HandleAnswer(x.be, s, code)] IN Ready(y) /\ Audio(y, {Hearer(x, s)})
<1> DEFINE y == [x EXCEPT !.be = HandleAnswer(x.be, s, code)]
<1>1. BeHeard(y, Head(x.be.wire[s]), iss, mk) /\ ButBe(x, y)
    BY BaseAnswered
<1>2. Sess(y)
    BY SessMixerConnection DEF Ready
<1>3. /\ Called(y) /\ \A t \in Sockets : In(y.be.wire[t]) \subseteq In(x.be.wire[t])
      /\ \A t \in Sockets : t # s => y.be.wire[t] = x.be.wire[t] /\ y.be.mix[t] = x.be.mix[t]
      /\ \A t \in Sockets : y.be.slot[t] \in Users => y.be.slot[t] = x.be.slot[t]
  <2>1. Called(x)
    BY DEF Audio
  <2>2. Lapsed(x, [x EXCEPT !.be = HandleAnswer(x.be, s, code)], s)
    BY <2>1, AnswerCalled
  <2> QED
    BY <2>2 DEF Lapsed
<1> HIDE DEF y
<1>4. Ready(y)
    BY <1>1, <1>2, <1>3, ReadyLess DEF ButBe, MixersUntold
<1>5. ASSUME NEW T \in Users, NEW t \in Sockets, x.sess[T] \notin {Hearer(x, s)} \cup {NoSocket}, y.be.slot[t] = T
      PROVE  x.be.slot[t] = T /\ y.be.wire[t] = x.be.wire[t] /\ y.be.mix[t] = x.be.mix[t]
  <2>1. x.be.slot[t] = T
    BY <1>3, <1>5
  <2>2. t # s
    <3> SUFFICES ASSUME t = s PROVE FALSE
      OBVIOUS
    <3>1. Occupant(x.be, s) = T /\ T # None
      BY <2>1, OccupantFacts, NoneAssumption
    <3> QED
      BY <1>5, <3>1 DEF Hearer, SocketOf
  <2> QED
    BY <1>3, <2>1, <2>2
<1>6. {} \subseteq {Hearer(x, s)}
    OBVIOUS
<1>7. Audio(y, {Hearer(x, s)})
    BY <1>1, <1>3, <1>5, <1>6, AudioBackend
<1> QED
    BY <1>4, <1>7 DEF y

(* An answer that makes the mixer connect anew.                            *)
LEMMA AudioReconnected ==
    ASSUME NEW x, NEW iss, NEW mk, NEW s \in Sockets, NEW code, Base(x, iss, mk), Ready(x), Audio(x, {}),
           x.be.wire[s] # <<>>, ForcesReconnect(x.be, s)
    PROVE  Audio(SlotLost([x EXCEPT !.be = HandleAnswer(x.be, s, code)],
                          LostUser(AnswerRegistry(x.be, s, code), s)), {})
<1> DEFINE g == HandleAnswer(x.be, s, code)
           lost == LostUser(AnswerRegistry(x.be, s, code), s)
<1>0. /\ x \in VocsStates /\ x.be \in BackendStates /\ Closed \notin Users
      /\ x.be.wire \in [Sockets -> Seq(Messages)] /\ x.be.slot \in [Sockets -> Users \cup {Closed, Free}]
    BY VocsTyping, BackendTyping DEF Base
<1>1. AnswerHandled(x.be, s, code)
    BY <1>0, HandleAnswerFields
<1>2. /\ g \in BackendStates /\ g.wire = [x.be.wire EXCEPT ![s] = <<>>]
      /\ g.slot = [SlotAfter(x.be, s, code) EXCEPT ![s] = Closed]
    BY <1>1 DEF AnswerHandled
<1>3. SlotAfter(x.be, s, code) \in [Sockets -> Users \cup {Closed, Free}]
    BY <1>0 DEF SlotAfter, Emptied
<1>4. Sess([x EXCEPT !.be = g])
    BY SessMixerConnection DEF Ready
<1>5. LET y == [x EXCEPT !.be = g] IN
      /\ Called(y)
      /\ \A t \in Sockets : t # s => y.be.wire[t] = x.be.wire[t] /\ y.be.mix[t] = x.be.mix[t]
      /\ \A t \in Sockets : y.be.slot[t] \in Users => y.be.slot[t] = x.be.slot[t]
  <2>1. Called(x)
    BY DEF Audio
  <2>2. Lapsed(x, [x EXCEPT !.be = HandleAnswer(x.be, s, code)], s)
    BY <2>1, AnswerCalled
  <2> QED
    BY <2>2 DEF Lapsed
<1>6. lost \in SUBSET Users
    BY DEF LostUser
<1> HIDE DEF g, lost
<1>7. [x EXCEPT !.be = g].be = g
    BY <1>0, <1>2, WithBe
<1>8. /\ g.slot[s] \notin Users /\ In(g.wire[s]) = {}
      /\ \A t \in Sockets : t # s => /\ g.wire[t] = x.be.wire[t] /\ g.mix[t] = x.be.mix[t]
                                     /\ g.slot[t] \in Users => g.slot[t] = x.be.slot[t]
      /\ \A t \in Sockets : \A n \in In(g.wire[t]) : n.op = "leave" => n.id \in g.cbs
    BY <1>0, <1>2, <1>3, <1>5, <1>7, EmptyQueue DEF Called
<1>9. Audio(SlotLost([x EXCEPT !.be = g], lost), {})
    BY <1>2, <1>4, <1>6, <1>8, AudioCleared
<1> QED
    BY <1>9 DEF g, lost

(* An answer that does not change what the mixer plays, or to a session    *)
(* whose client does not know of a mixer.                                  *)
LEMMA AudioTail ==
    ASSUME NEW x, NEW iss, NEW mk, NEW s \in Sockets, NEW code, NEW S, Base(x, iss, mk), Ready(x), Audio(x, {}),
           Slots(x, {}), x.be.wire[s] # <<>>, ~ForcesReconnect(x.be, s), S = Occupant(x.be, s),
           LET y == [x EXCEPT !.be = HandleAnswer(x.be, s, code)] IN
           S # None => y.be.mix[s].loops = x.be.mix[s].loops \/ ~x.conn[x.sess[S]].mixer
    PROVE  Audio([x EXCEPT !.be = HandleAnswer(x.be, s, code)], {})
<1> DEFINE g == HandleAnswer(x.be, s, code)
           y == [x EXCEPT !.be = g]
           w == x.be.wire[s]
           c == Hearer(x, s)
<1>0. /\ x \in VocsStates /\ x.be \in BackendStates /\ w \in Seq(Messages) /\ w # <<>>
      /\ x.be.wire \in [Sockets -> Seq(Messages)]
    BY VocsTyping, BackendTyping DEF Base
<1>1. Ready(y) /\ Audio(y, {c})
    BY AudioAnswered
<1>2. BeHeard(y, Head(w), iss, mk) /\ ButBe(x, y) /\ y.be = g
    BY BaseAnswered
<1>3. AnswerHandled(x.be, s, code)
    BY <1>0, HandleAnswerFields
<1>4. g.wire[s] = Tail(w)
    BY <1>0, <1>3 DEF AnswerHandled
<1>5. \A t \in Sockets : y.be.slot[t] \in Users => y.be.slot[t] = x.be.slot[t]
  <2>1. Called(x)
    BY DEF Audio
  <2>2. Lapsed(x, [x EXCEPT !.be = HandleAnswer(x.be, s, code)], s)
    BY <2>1, AnswerCalled
  <2> QED
    BY <2>2 DEF Lapsed
<1>6. /\ S \in Users \cup {None} /\ (S # None => x.be.slot[s] = S /\ S \in Users) /\ None \notin Users
    BY OccupantFacts, NoneAssumption
<1>7. S # None => y.be.mix[s].loops = x.be.mix[s].loops \/ ~x.conn[x.sess[S]].mixer
    OBVIOUS
<1>8. In(w) = In(Tail(w)) \cup {Head(w)}
    BY <1>0, QueueFacts
<1> HIDE DEF g, y, w
<1>9. CASE S = None
  <2>1. c = NoSocket
    BY <1>9 DEF Hearer, SocketOf
  <2>2. Audio(y, {})
    BY <1>1, <2>1 DEF Audio
  <2> QED
    BY <2>2 DEF y, g
<1>10. CASE S # None
  <2>1. c = x.sess[S] /\ S \in Users /\ x.sess[S] # NoSocket /\ \A t \in Sockets : x.be.slot[t] = S => t = s
    BY <1>6, <1>10 DEF Hearer, SocketOf, Slots
  <2>2. AudioOf(x, S) /\ Heard(x, s, S) /\ y.conn = x.conn /\ y.sess = x.sess /\ y.async = x.async /\ y.fe = x.fe
    BY <1>2, <1>6, <1>10, <2>1 DEF Audio, AudioOf, ButBe
  <2>3. Voiced(y, S)
    BY <2>2 DEF AudioOf, Voiced, AsyncHas
  <2>4. Heard(y, s, S)
    <3> DEFINE d == x.conn[x.sess[S]]
    <3>1. Trailing(Tail(w), S)
      BY <1>0, <2>2, TrailingFacts DEF Heard, w
    <3>2. d.mixer => Mine(Tail(w), S) /\ y.be.mix[s].loops = Played(d)
      BY <1>7, <1>8, <1>10, <2>2 DEF Heard, Mine, w
    <3>3. \A n \in In(Tail(w)) : n.user = S =>
            /\ n.op = "join" => d.mixer /\ AsyncHas(y, n.id)
            /\ n.op \in {"join", "leave"} /\ AsyncHas(y, n.id) => d.loops[n.loop] # "send"
      BY <1>8, <2>2 DEF Heard, AsyncHas, w
    <3>4. y.be.wire[s] = Tail(w) /\ y.conn[y.sess[S]] = d
      BY <1>2, <1>4, <2>2
    <3> HIDE DEF d
    <3> QED
      BY <3>1, <3>2, <3>3, <3>4 DEF Heard
  <2>5. AudioOf(y, S)
    BY <1>5, <2>1, <2>3, <2>4 DEF AudioOf
  <2>6. c \in Clients => S = y.conn[c].session
    BY <1>1, <2>1, <2>2 DEF Ready, Sess, Bound
  <2> HIDE DEF c
  <2>7. Audio(y, {})
    BY <1>1, <2>5, <2>6, AudioAll DEF Ready
  <2> QED
    BY <2>7 DEF y, g
<1> QED
    BY <1>9, <1>10

(* An answer about the whole mixer: its client does not know of it yet.    *)
LEMMA AudioPlainAnswer ==
    ASSUME NEW w, NEW x, NEW iss, NEW mk, NEW s \in Sockets, NEW code, Base(x, iss, mk), Fit(w, x, {}, {}),
           Audio(x, {}), x.be.wire[s] # <<>>, ~ForcesReconnect(x.be, s), Head(x.be.wire[s]).op \notin LoopOps
    PROVE  LET y == [x EXCEPT !.be = HandleAnswer(x.be, s, code)] IN Ready(y) /\ Audio(y, {})
<1> DEFINE S == Occupant(x.be, s)
<1>0. Ready(x) /\ Slots(x, {}) /\ Head(x.be.wire[s]) \in In(x.be.wire[s])
    BY FitReady, HeadFits DEF Fit, Lease
<1>1. S # None => x.be.slot[s] = S /\ S \in Users
    BY OccupantFacts
<1> HIDE DEF S
<1>2. S # None => ~x.conn[x.sess[S]].mixer
  <2> SUFFICES ASSUME S # None, x.conn[x.sess[S]].mixer PROVE FALSE
    OBVIOUS
  <2>1. x.sess[S] # NoSocket
    BY <1>0, <1>1 DEF Slots
  <2>2. Heard(x, s, S)
    BY <1>1, <2>1 DEF Audio, AudioOf
  <2> QED
    BY <1>0, <2>2 DEF Heard, Mine
<1>3. Ready([x EXCEPT !.be = HandleAnswer(x.be, s, code)])
    BY <1>0, AudioAnswered
<1> QED
    BY <1>0, <1>2, <1>3, AudioTail DEF S

(* A mixer is released.                                                    *)
LEMMA AudioReleased ==
    ASSUME NEW x, NEW K, NEW S \in Users, x \in VocsStates, Audio(x, K)
    PROVE  Audio([x EXCEPT !.be = ReleaseMixer(x.be, S, S)], K)
<1> DEFINE g == ReleaseMixer(x.be, S, S)
           y == [x EXCEPT !.be = g]
<1>0. x.be \in BackendStates
    BY VocsTyping
<1>1. /\ \A T \in Users, s \in Sockets : g.slot[s] = T =>
           x.be.slot[s] = T /\ g.wire[s] = x.be.wire[s] /\ g.mix[s] = x.be.mix[s]
      /\ x.be.cbs \subseteq g.cbs
      /\ \A s \in Sockets : \A m \in In(g.wire[s]) : m \in In(x.be.wire[s]) \/ m.op = "release"
    BY <1>0, ReleaseKeeps
<1>2. y.be = g /\ ButBe(x, y)
    BY <1>0, ReleaseMixerFields, WithBe
<1> HIDE DEF g, y
<1>3. Called(y)
    BY <1>1, <1>2 DEF Audio, Called
<1>4. Audio(y, K)
    BY <1>1, <1>2, <1>3, AudioBackend
<1> QED
    BY <1>4 DEF y, g

(* The client learns of its mixer, which plays nothing.                    *)
LEMMA AudioMixerReady ==
    ASSUME NEW x, NEW y, NEW c \in Clients, NEW S \in Users, Sess(x), Audio(x, {}), x.sess[S] = c, ~x.conn[c].mixer,
           Announced(x, y, c, [x.conn[c] EXCEPT !.mixer = TRUE]),
           \A s \in Sockets : x.be.slot[s] = S => Mine(x.be.wire[s], S) /\ x.be.mix[s].loops = {}
    PROVE  Audio(y, {})
<1> DEFINE d == [x.conn[c] EXCEPT !.mixer = TRUE]
<1>0. /\ x.conn \in [Clients -> Conns] /\ x.sess \in [Users -> Clients \cup {NoSocket}]
      /\ Bound(x) /\ NoSocket \notin Clients
    BY VocsTyping DEF Sess
<1>1. /\ y.sess = x.sess /\ y.async = x.async /\ y.be = x.be /\ y.fe = x.fe /\ y.conn = [x.conn EXCEPT ![c] = d]
    BY DEF Announced
<1>2. d.mixer /\ d.loops = x.conn[c].loops
    BY <1>0 DEF Conns
<1>3. \A l \in Loops : x.conn[c].loops[l] = "none"
    BY DEF Audio, Silent
<1> HIDE DEF d
<1>4. Silent(y) /\ Called(y)
  <2>1. Called(y)
    BY <1>1 DEF Audio, Called
  <2>2. ASSUME NEW k \in Clients, ~y.conn[k].mixer, NEW l \in Loops PROVE y.conn[k].loops[l] = "none"
    BY <1>0, <1>1, <1>2, <2>2 DEF Audio, Silent
  <2> QED
    BY <2>1, <2>2 DEF Silent
<1>5. ASSUME NEW T \in Users, y.sess[T] # NoSocket, T # S PROVE AudioOf(y, T)
  <2>1. AudioOf(x, T) /\ x.sess[T] \in Clients /\ x.sess[T] # c
    BY <1>0, <1>1, <1>5 DEF Audio, Bound
  <2>2. y.conn[y.sess[T]] = x.conn[x.sess[T]]
    BY <1>0, <1>1, <2>1
  <2>3. Unmoved(x, y, T)
    BY <1>1, <2>1, <2>2 DEF Unmoved, AsyncHas, AudioOf, Voiced
  <2> QED
    BY <2>1, <2>3, UnmovedAudio
<1>6. AudioOf(y, S)
  <2>1. AudioOf(x, S) /\ y.conn[y.sess[S]] = d /\ \A i : AsyncHas(y, i) <=> AsyncHas(x, i)
    BY <1>0, <1>1 DEF Audio, AsyncHas
  <2>2. Spoken(d) = Spoken(x.conn[c]) /\ Played(d) = {}
    BY <1>2, <1>3 DEF Spoken, Played
  <2>3. Voiced(y, S)
    BY <1>1, <2>1, <2>2 DEF AudioOf, Voiced
  <2>4. ASSUME NEW s \in Sockets, y.be.slot[s] = S PROVE Heard(y, s, S)
    <3>1. Heard(x, s, S) /\ Mine(x.be.wire[s], S) /\ x.be.mix[s].loops = {}
      BY <1>1, <2>1, <2>4 DEF AudioOf
    <3>2. \A n \in In(x.be.wire[s]) : n.user = S =>
            /\ n.op # "join"
            /\ n.op \in {"join", "leave"} /\ AsyncHas(x, n.id) => x.conn[c].loops[n.loop] # "send"
      BY <3>1 DEF Heard
    <3> QED
      BY <1>1, <1>2, <2>1, <2>2, <3>1, <3>2 DEF Heard
  <2> QED
    BY <2>3, <2>4 DEF AudioOf
<1> QED
    BY <1>4, <1>5, <1>6 DEF Audio

(* The answer to an acquisition.                                           *)
LEMMA AudioMixerAcquired ==
    ASSUME NEW w, NEW x, NEW iss, NEW mk, NEW s \in Sockets, NEW code, NEW m, Base(x, iss, mk), Fit(w, x, {}, {}),
           Audio(x, {}), x.be.wire[s] # <<>>, ~ForcesReconnect(x.be, s), m = Head(x.be.wire[s]), m.op = "acquire"
    PROVE  Audio(MixerAcquired([x EXCEPT !.be = HandleAnswer(x.be, s, code)], m.id, m.user, code), {})
<1> DEFINE y == [x EXCEPT !.be = HandleAnswer(x.be, s, code)]
           a == AsyncUnset(y, m.id)
           u == m.user
           c == SocketOf(y, u)
<1>0. m.op \notin LoopOps /\ x.be.wire[s] \in Seq(Messages) /\ TRUE \in BOOLEAN /\ FALSE \in BOOLEAN
  <2>1. x.be \in BackendStates
    BY VocsTyping DEF Base
  <2> QED
    BY <2>1, BackendTyping DEF LoopOps
<1>1. Ready(y) /\ Audio(y, {}) /\ y \in VocsStates
    BY <1>0, AudioPlainAnswer DEF Ready, Sess
<1>2. BeHeard(y, m, iss, mk) /\ ButBe(x, y) /\ y.be = HandleAnswer(x.be, s, code)
    BY BaseAnswered
<1>3. /\ AnswerHandled(x.be, s, code) /\ MixerFits(x, {}, s, m) /\ u \in Users /\ m \in In(x.be.wire[s])
      /\ x.be \in BackendStates
    BY HeadFits
<1>4. Loose(y, m.id) /\ ~AsyncHas(y, m.id)
  <2>1. m.id \in ClientReqs
    BY <1>2 DEF BeHeard, BeWorded, Base
  <2>2. Unused(y.be.wire, y.fe.wire, m.id) /\ ~AsyncHas(y, m.id)
    BY <1>0, <1>2 DEF BeHeard, BeAwaited, AsyncHas
  <2> QED
    BY <2>1, <2>2, UnusedLoose
<1>5. Lapsed(x, y, s)
    BY AnswerCalled DEF Audio
<1> HIDE DEF y, u
<1>6. u \in Users \cup {None} /\ u # None
    BY <1>3, NoneAssumption
<1>7. c \in Clients \cup {NoSocket} /\ c = y.sess[u]
    BY <1>1, <1>6, SocketBound DEF Ready, SocketOf
<1> HIDE DEF c
<1>8. Audio([y EXCEPT !.be = ReleaseMixer(y.be, u, u)], {})
    BY <1>1, <1>3, AudioReleased
<1>9. Audio(a, {}) /\ Ready(a)
    BY <1>1, <1>4, AudioTaken, ReadyTaken
<1>10. Audio(DropConnection(a, c, TRUE, FALSE), {})
  <2> HIDE DEF a
  <2>1. {} \subseteq {c}
    OBVIOUS
  <2> QED
    BY <1>0, <1>7, <1>9, <2>1, AudioDrop
<1>11. ASSUME c # NoSocket, code = "ok" PROVE Audio(Announce([a EXCEPT !.conn[c].mixer = TRUE], c), {})
  <2> DEFINE z == Announce([a EXCEPT !.conn[c].mixer = TRUE], c)
  <2>1. Taken(y, a, m.id)
    BY <1>1, TakenFields
  <2>2. /\ a.sess = x.sess /\ a.conn = x.conn /\ a.be = y.be /\ a \in VocsStates /\ c \in Clients
    BY <1>2, <1>7, <1>11, <2>1 DEF Taken, ButStore, ButBe
  <2>3. x.sess[u] = c /\ x.sess[u] # NoSocket
    BY <1>2, <1>7, <1>11 DEF ButBe
  <2> HIDE DEF a
  <2>4. x.be.slot[s] = u /\ \A t \in Sockets : x.be.slot[t] = u => t = s
    BY <1>3, <2>3 DEF MixerFits, Over, Fit, Lease, Slots, u
  <2>5. ~x.conn[c].mixer
    BY <1>3, <2>3 DEF Fit, Sess, Acquiring, u
  <2>6. Announced(a, z, c, [a.conn[c] EXCEPT !.mixer = TRUE])
    BY <2>2, AnnounceFields
  <2> HIDE DEF z
  <2>7. Heard(x, s, u)
    BY <1>3, <2>3, <2>4 DEF Audio, AudioOf
  <2>8. y.be.wire[s] = Tail(x.be.wire[s]) /\ y.be.mix[s] = MixerExecute(x.be.mix[s], m, code)
    BY <1>2, <1>3, BackendTyping DEF AnswerHandled
  <2>9. Mine(y.be.wire[s], u)
    <3> DEFINE q == x.be.wire[s]
    <3>1. q # <<>> /\ q \in Seq(Messages) /\ Head(q).op = "acquire" /\ Head(q).user = u
      BY <1>0 DEF u
    <3>2. Trailing(q, u)
      BY <2>7 DEF Heard
    <3> HIDE DEF q
    <3>3. Mine(Tail(q), u)
      BY <3>1, <3>2, TrailingFacts
    <3> QED
      BY <2>8, <3>3 DEF q
  <2>10. y.be.mix[s].loops = {}
    BY <1>11, <2>8 DEF MixerExecute, CoreRelease, Idle
  <2>11. \A t \in Sockets : a.be.slot[t] = u => Mine(a.be.wire[t], u) /\ a.be.mix[t].loops = {}
    BY <1>3, <1>5, <2>2, <2>4, <2>9, <2>10 DEF Lapsed
  <2>12. Audio(z, {})
    BY <1>3, <1>9, <2>2, <2>3, <2>5, <2>6, <2>11, AudioMixerReady DEF Ready
  <2> QED
    BY <2>12 DEF z
<1> HIDE DEF a
<1>12. MixerAcquired(y, m.id, u, code) =
         IF c = NoSocket THEN [y EXCEPT !.be = ReleaseMixer(y.be, u, u)]
         ELSE IF code # "ok" THEN DropConnection(a, c, TRUE, FALSE)
         ELSE Announce([a EXCEPT !.conn[c].mixer = TRUE], c)
    BY DEF MixerAcquired, a, c
<1>13. Audio(MixerAcquired(y, m.id, u, code), {})
    BY <1>8, <1>10, <1>11, <1>12
<1> QED
    BY <1>13 DEF y, u

-----------------------------------------------------------------------------
(* Answers about loops.                                                    *)

(* The audio of session S is what data d say.                              *)
VoicedBy(x, S, d) ==
    /\ x.fe.talk[S] = Spoken(d)
    /\ \A p \in Proxies : \A m \in In(x.fe.wire[p]) :
          m.op \in TalkOps /\ m.session = S => AsyncHas(x, m.id)

HeardBy(x, s, S, d) ==
    LET w == x.be.wire[s]
    IN /\ Trailing(w, S)
       /\ d.mixer => Mine(w, S) /\ x.be.mix[s].loops = Played(d)
       /\ \A m \in In(w) : m.user = S =>
            /\ m.op = "join" => d.mixer /\ AsyncHas(x, m.id)
            /\ m.op \in {"join", "leave"} /\ AsyncHas(x, m.id) => d.loops[m.loop] # "send"

AudioBy(x, S, d) == VoicedBy(x, S, d) /\ \A s \in Sockets : x.be.slot[s] = S => HeardBy(x, s, S, d)

(* Of its client's data, in particular.                                    *)
LEMMA AudioByOwn ==
    ASSUME NEW x, NEW S
    PROVE  AudioOf(x, S) <=> AudioBy(x, S, x.conn[x.sess[S]])
<1>1. Voiced(x, S) <=> VoicedBy(x, S, x.conn[x.sess[S]])
    BY DEF Voiced, VoicedBy
<1>2. \A s \in Sockets : Heard(x, s, S) <=> HeardBy(x, s, S, x.conn[x.sess[S]])
    BY DEF Heard, HeardBy
<1> QED
    BY <1>1, <1>2 DEF AudioOf, AudioBy

(* The new state of a loop is stored when it is what is played and spoken. *)
LEMMA AudioLoopSet ==
    ASSUME NEW x, NEW y, NEW c \in Clients, NEW S \in Users, NEW l \in Loops, NEW st \in LoopStates,
           Sess(x), Audio(x, {c}), x.sess[S] = c, LoopSet(x, y, c, l, st), st = "none" \/ x.conn[c].mixer,
           AudioBy(x, S, WithLoop(x.conn[c], l, st))
    PROVE  Audio(y, {}) /\ y \in VocsStates
<1> DEFINE d == WithLoop(x.conn[c], l, st)
<1>0. /\ x.conn \in [Clients -> Conns] /\ x.sess \in [Users -> Clients \cup {NoSocket}]
      /\ Bound(x) /\ NoSocket \notin Clients
    BY VocsTyping DEF Sess
<1>1. /\ y.sess = x.sess /\ y.async = x.async /\ y.be = x.be /\ y.fe = x.fe /\ y.conn = [x.conn EXCEPT ![c] = d]
      /\ y \in VocsStates
    BY DEF LoopSet
<1>2. d.mixer = x.conn[c].mixer /\ d.loops = [x.conn[c].loops EXCEPT ![l] = st]
    BY <1>0 DEF Conns, WithLoop
<1>3. x.conn[c].loops \in [Loops -> LoopStates]
    BY <1>0 DEF Conns
<1>4. \A i : AsyncHas(y, i) <=> AsyncHas(x, i)
    BY <1>1 DEF AsyncHas
<1>5. AudioBy(x, S, d)
    OBVIOUS
<1> HIDE DEF d
<1>6. Silent(y) /\ Called(y)
  <2>1. Called(y)
    BY <1>1 DEF Audio, Called
  <2>2. ASSUME NEW k \in Clients, ~y.conn[k].mixer, NEW n \in Loops PROVE y.conn[k].loops[n] = "none"
    BY <1>0, <1>1, <1>2, <1>3, <2>2 DEF Audio, Silent
  <2> QED
    BY <2>1, <2>2 DEF Silent
<1>7. ASSUME NEW T \in Users, y.sess[T] # NoSocket, T # S PROVE AudioOf(y, T)
  <2>1. AudioOf(x, T) /\ x.sess[T] \in Clients /\ x.sess[T] # c
    BY <1>0, <1>1, <1>7 DEF Audio, Bound
  <2>2. y.conn[y.sess[T]] = x.conn[x.sess[T]]
    BY <1>0, <1>1, <2>1
  <2>3. Unmoved(x, y, T)
    BY <1>1, <1>4, <2>1, <2>2 DEF Unmoved, AudioOf, Voiced
  <2> QED
    BY <2>1, <2>3, UnmovedAudio
<1>8. AudioOf(y, S)
  <2>1. y.conn[y.sess[S]] = d
    BY <1>0, <1>1
  <2>2. VoicedBy(y, S, d)
    BY <1>1, <1>4, <1>5 DEF AudioBy, VoicedBy
  <2>3. \A s \in Sockets : y.be.slot[s] = S => HeardBy(y, s, S, d)
    BY <1>1, <1>4, <1>5 DEF AudioBy, HeardBy
  <2> QED
    BY <2>1, <2>2, <2>3, AudioByOwn DEF AudioBy
<1> QED
    BY <1>1, <1>6, <1>7, <1>8 DEF Audio

(* A mixer has joined or left a loop for a request that is awaited.        *)
LEMMA AudioLoopAnswered ==
    ASSUME NEW w, NEW x, NEW iss, NEW mk, NEW s \in Sockets, NEW code, NEW m, NEW S, NEW st, Base(x, iss, mk),
           Fit(w, x, {}, {}), Audio(x, {}), x.be.wire[s] # <<>>, ~ForcesReconnect(x.be, s),
           m = Head(x.be.wire[s]), S = Occupant(x.be, s), AsyncHas(x, m.id),
           (m.op = "join" /\ code = "ok" /\ st = "recv") \/ (m.op = "leave" /\ st = "none")
    PROVE  LET y == [x EXCEPT !.be = HandleAnswer(x.be, s, code)] IN
           /\ AudioBy(y, S, WithLoop(x.conn[x.sess[S]], m.loop, st))
           /\ S \in Users /\ (st = "none" \/ x.conn[x.sess[S]].mixer)
<1> DEFINE y == [x EXCEPT !.be = HandleAnswer(x.be, s, code)]
           q == x.be.wire[s]
           k == x.conn[x.sess[S]]
           l == m.loop
           d == WithLoop(k, l, st)
<1>0. /\ x \in VocsStates /\ x.be \in BackendStates /\ q \in Seq(Messages) /\ q # <<>>
      /\ x.be.wire \in [Sockets -> Seq(Messages)] /\ x.be.mix \in [Sockets -> Mixers]
    BY VocsTyping, BackendTyping DEF Base
<1>h. HandleAnswer(x.be, s, code) \in BackendStates
    BY <1>0, HandleAnswerFields DEF AnswerHandled
<1>1. BeHeard(y, m, iss, mk) /\ ButBe(x, y) /\ y.be = HandleAnswer(x.be, s, code)
  <2>1. BeHeard(y, Head(q), iss, mk) /\ ButBe(x, y)
    BY BaseAnswered
  <2>2. y.be = HandleAnswer(x.be, s, code)
    BY <1>0, <1>h, WithBe
  <2> QED
    BY <2>1, <2>2
<1>2. AnswerHandled(x.be, s, code) /\ MixerFits(x, {}, s, m) /\ m.user \in Users /\ m \in In(q)
    BY HeadFits
<1>3. /\ m.op \in LoopOps /\ l \in Loops /\ st \in LoopStates /\ st # "send" /\ (st = "none" <=> m.op # "join")
    BY <1>1 DEF BeHeard, BeWorded, LoopOps, LoopStates
<1>4. x.be.slot[s] = m.user /\ x.sess[m.user] # NoSocket
  <2>1. PICK e \in x.async : e.id = m.id
    BY DEF AsyncHas
  <2>2. x.be.slot[s] = m.user
    BY <1>2, <1>3, <2>1 DEF MixerFits
  <2> QED
    BY <1>2, <2>2 DEF Fit, Lease, Slots
<1>5. S = m.user /\ S \in Users /\ x.sess[S] \in Clients /\ x.sess[S] # NoSocket
  <2>1. S = m.user
    BY <1>2, <1>4, OccupantFacts
  <2> QED
    BY <1>0, <1>2, <1>4, <2>1, VocsTyping
<1>6. \A t \in Sockets : y.be.slot[t] = S => t = s
  <2>1. Lapsed(x, y, s)
    BY AnswerCalled DEF Audio
  <2>2. \A t \in Sockets : x.be.slot[t] = S => x.be.users[S] = t
    BY <1>5 DEF Fit, Lease, Slots
  <2> HIDE DEF y
  <2>3. \A t \in Sockets : y.be.slot[t] = S => x.be.slot[t] = S
    BY <1>5, <2>1 DEF Lapsed
  <2> QED
    BY <1>4, <1>5, <2>2, <2>3
<1>7. Voiced(x, S) /\ Heard(x, s, S)
    BY <1>4, <1>5 DEF Audio, AudioOf
<1>8. y.be.wire[s] = Tail(q) /\ y.be.mix[s] = MixerExecute(x.be.mix[s], m, code)
    BY <1>0, <1>1, <1>2 DEF AnswerHandled
<1>9. In(q) = In(Tail(q)) \cup {Head(q)}
    BY <1>0, QueueFacts
<1>10. y.conn = x.conn /\ y.sess = x.sess /\ y.async = x.async /\ y.fe = x.fe
    BY <1>1 DEF ButBe
<1>11. k \in Conns
    BY <1>0, <1>5, VocsTyping
<1> HIDE DEF y
<1>12. \A i : AsyncHas(y, i) <=> AsyncHas(x, i)
    BY <1>10 DEF AsyncHas
<1>13. /\ k.loops[l] # "send" /\ (m.op = "join" => k.mixer) /\ Trailing(q, S)
       /\ k.mixer => Mine(q, S) /\ x.be.mix[s].loops = Played(k)
       /\ \A n \in In(q) : n.user = S =>
            /\ n.op = "join" => k.mixer /\ AsyncHas(x, n.id)
            /\ n.op \in {"join", "leave"} /\ AsyncHas(x, n.id) => k.loops[n.loop] # "send"
    BY <1>2, <1>5, <1>7 DEF Heard
<1> HIDE DEF k, q
<1>14. d.mixer = k.mixer /\ d.loops = [k.loops EXCEPT ![l] = st] /\ k.loops \in [Loops -> LoopStates]
    BY <1>11 DEF Conns, WithLoop
<1> HIDE DEF d
<1>15. VoicedBy(y, S, d)
  <2>1. Spoken(d) = Spoken(k)
    BY <1>3, <1>13, <1>14 DEF Spoken
  <2> QED
    BY <1>7, <1>10, <1>12, <2>1 DEF Voiced, VoicedBy, k
<1>16. HeardBy(y, s, S, d)
  <2>1. Trailing(Tail(q), S)
    BY <1>0, <1>13, TrailingFacts
  <2>2. Mine(q, S) => Mine(Tail(q), S)
    BY <1>9 DEF Mine
  <2>3. ASSUME k.mixer PROVE y.be.mix[s].loops = Played(d)
    <3>1. x.be.mix[s].loops = Played(k) /\ x.be.mix[s] \in Mixers
      BY <1>0, <1>13, <2>3
    <3>2. CASE m.op = "join"
      <4>1. y.be.mix[s].loops = x.be.mix[s].loops \cup {l}
        BY <1>3, <1>8, <3>1, <3>2 DEF MixerExecute, Mixers
      <4>2. Played(d) = Played(k) \cup {l}
        BY <1>3, <1>14, <3>2 DEF Played, LoopStates
      <4> QED
        BY <3>1, <4>1, <4>2
    <3>3. CASE m.op = "leave"
      <4>1. y.be.mix[s].loops = x.be.mix[s].loops \ {l}
        BY <1>3, <1>8, <3>1, <3>3 DEF MixerExecute, Mixers
      <4>2. Played(d) = Played(k) \ {l}
        BY <1>3, <1>14, <3>3 DEF Played
      <4> QED
        BY <3>1, <4>1, <4>2
    <3> QED
      BY <3>2, <3>3
  <2>4. ASSUME NEW n \in In(Tail(q)), n.user = S
        PROVE  /\ n.op = "join" => d.mixer /\ AsyncHas(y, n.id)
               /\ n.op \in {"join", "leave"} /\ AsyncHas(y, n.id) => d.loops[n.loop] # "send"
    <3>1. n \in In(q)
      BY <1>9, <2>4
    <3>2. n.loop \in Loops \/ n.op \notin {"join", "leave"}
      BY <3>1 DEF Base, BeMeant, BeWorded, LoopOps, q
    <3> QED
      BY <1>3, <1>12, <1>13, <1>14, <2>4, <3>1, <3>2
  <2> QED
    BY <1>8, <1>13, <1>14, <2>1, <2>2, <2>3, <2>4 DEF HeardBy
<1>17. AudioBy(y, S, d)
    BY <1>6, <1>15, <1>16 DEF AudioBy
<1> QED
    BY <1>3, <1>5, <1>13, <1>17 DEF y, d, k

(* A request that is about no loop under way is taken out.                 *)
LEMMA AudioByTaken ==
    ASSUME NEW x, NEW S, NEW d, NEW r, x \in VocsStates, AudioBy(x, S, d), Loose(x, r)
    PROVE  AudioBy(AsyncUnset(x, r), S, d)
<1> DEFINE y == AsyncUnset(x, r)
<1>1. y.be = x.be /\ y.fe = x.fe /\ y.async = {e \in x.async : e.id # r}
    BY TakenFields DEF Taken, ButStore
<1> HIDE DEF y
<1>2. SameWaits(x, y)
    BY <1>1 DEF Loose, AsyncHas, SameWaits
<1>3. VoicedBy(y, S, d)
    BY <1>1, <1>2 DEF AudioBy, VoicedBy, SameWaits
<1>4. \A s \in Sockets : y.be.slot[s] = S => HeardBy(y, s, S, d)
    BY <1>1, <1>2 DEF AudioBy, HeardBy, SameWaits, LoopOps
<1> QED
    BY <1>3, <1>4 DEF AudioBy, y

(* The mixer of session S at s has answered request m: what is heard is    *)
(* right, but for the loop of m where this is awaited and done.            *)
JoinHeard(x, m, s, S, done) ==
    /\ S # None => x.be.slot[s] = S
    /\ Audio(x, {SocketOf(x, S)})
    /\ ~AsyncHas(x, m.id) \/ ~done => Audio(x, {})
    /\ AsyncHas(x, m.id) /\ done =>
          AudioBy(x, S, WithLoop(x.conn[x.sess[S]], m.loop, "recv")) /\ x.conn[x.sess[S]].mixer

(* An answer to join.                                                      *)
LEMMA AudioMixerJoin ==
    ASSUME NEW w, NEW x, NEW iss, NEW mk, NEW m, NEW s \in Sockets, NEW S, NEW code, BeHeard(x, m, iss, mk),
           Fit(w, x, {}, {}), Answers(x, m, s, S), m.op = "join", JoinHeard(x, m, s, S, code = "ok")
    PROVE  Audio(MixerJoin(x, m.id, S, m.loop, code), {})
<1> DEFINE r == m.id
           l == m.loop
           c == SocketOf(x, S)
           y == AsyncUnset(x, r)
           want == AsyncGet(x, r).want
           Q == y.parts \cup {<<l, c>>}
           j == [y EXCEPT !.conn[c].loops[l] = "recv", !.parts = Q]
           k == Entry(r, c, l, want)
           a == AsyncSet(j, k)
           t == PerformSwitch(a, r, S, l, "recv", want)
           O == {<<r, c>>}
<1>0. /\ x \in VocsStates /\ Base(x, iss, mk) /\ Unused(x.be.wire, x.fe.wire, r) /\ r \in Reqs /\ r \in ClientReqs
      /\ l \in Loops /\ S \in Users \cup {None} /\ Loose(x, r) /\ Ready(x) /\ Sess(x) /\ Slots(x, {})
  <2>1. r \in ClientReqs /\ Unused(x.be.wire, x.fe.wire, r)
    BY DEF BeHeard, BeWorded, LoopOps, Base
  <2>2. Loose(x, r)
    BY <2>1, UnusedLoose
  <2>3. Ready(x)
    BY FitReady
  <2> QED
    BY <2>1, <2>2, <2>3 DEF Base, BeHeard, BeWorded, LoopOps, ClientReqs, Answers, Fit, Lease
<1>1. MixerJoin(x, r, S, l, code) =
        IF ~AsyncHas(x, r) THEN LeaveLoop(x, r, S, l)
        ELSE IF code # "ok" THEN Respond(y, r, c)
        ELSE IF ~KnownClient(x, c) THEN DropConnection(y, c, TRUE, TRUE)
        ELSE IF want = "recv" THEN Respond(j, r, c)
        ELSE IF CanPerform(j, S, "recv", want) THEN t
        ELSE DropConnection(t, c, TRUE, TRUE)
    BY DEF MixerJoin
<1>2. ASSUME ~AsyncHas(x, r) PROVE Audio(LeaveLoop(x, r, S, l), {})
  <2>1. Audio(x, {})
    BY <1>2 DEF JoinHeard
  <2>2. CASE S = None
    <3>1. LeaveLoop(x, r, S, l) = [x EXCEPT !.be = RegisterCallback(x.be, r)]
      BY <2>2 DEF LeaveLoop
    <3> QED
      BY <1>0, <2>1, <3>1, AudioCallback
  <2>3. CASE S # None
    <3>1. LeaveLoop(x, r, S, l) = [x EXCEPT !.be = LoopRequest(x.be, "leave", r, S, l)]
      BY <2>3 DEF LeaveLoop
    <3>2. "leave" \in LoopOps /\ "leave" # "join" /\ S \in Users
      BY <1>0, <2>3 DEF LoopOps
    <3>3. x.sess[S] # NoSocket
      BY <1>0, <2>3, <3>2 DEF JoinHeard, Slots
    <3> HIDE DEF r, l
    <3> QED
      BY <1>0, <1>2, <2>1, <3>1, <3>2, <3>3, AudioLoopSent
  <2> QED
    BY <2>2, <2>3
<1>3. ASSUME AsyncHas(x, r), code # "ok" PROVE Audio(Respond(y, r, c), {})
  <2>1. Audio(x, {})
    BY <1>3 DEF JoinHeard
  <2> QED
    BY <1>0, <2>1, AudioTaken
<1>4. ASSUME AsyncHas(x, r), code = "ok"
      PROVE  /\ Audio(DropConnection(y, c, TRUE, TRUE), {})
             /\ want = "recv" => Audio(Respond(j, r, c), {})
             /\ want # "recv" => Audio(t, {}) /\ Audio(DropConnection(t, c, TRUE, TRUE), {})
  <2>1. /\ S \in Users /\ c \in Clients /\ x.sess[S] = c /\ Waits(x, r, c) /\ x.up[c]
        /\ ~Pipelining => <<r, c>> \in x.owed
    BY <1>0, <1>4, AnswerAwaited
  <2>2. want \in {"recv", "send"}
    <3>1. AsyncGet(x, r) \in x.async /\ AsyncGet(x, r).id = r
      BY <1>0, <1>4, AsyncFound
    <3> QED
      BY <3>1 DEF BeHeard, BeAwaited
  <2>3. Fit(w, y, {}, {} \cup {<<r, c>>}) /\ Taken(x, y, r)
    BY <1>0, <2>1, FitTaken, TakenFields
  <2>4. Fit(w, y, {}, O)
    <3>1. {} \cup {<<r, c>>} = O
      OBVIOUS
    <3> QED
      BY <2>3, <3>1
  <2>5. k \in Entries /\ k.id = r /\ k.sock = c
    BY <1>0, <2>1, <2>2, EntryType DEF LoopStates
  <2>6. /\ AudioBy(x, S, WithLoop(x.conn[c], l, "recv")) /\ x.conn[c].mixer /\ Audio(x, {c})
    BY <1>4, <2>1 DEF JoinHeard
  <2>7. Audio(y, {c}) /\ Ready(y) /\ AudioBy(y, S, WithLoop(x.conn[c], l, "recv"))
    <3> HIDE DEF c
    <3>1. Audio(y, {c})
      BY <1>0, <2>6, AudioTaken
    <3>2. Ready(y)
      BY <1>0, ReadyTaken
    <3> HIDE DEF l
    <3> QED
      BY <1>0, <2>6, <3>1, <3>2, AudioByTaken
  <2> HIDE DEF r, l, c, y, want, O, k
  <2>8. Audio(DropConnection(y, c, TRUE, TRUE), {})
    <3>1. TRUE \in BOOLEAN /\ {c} \subseteq {c} /\ c \in Clients \cup {NoSocket}
      BY <2>1
    <3> QED
      BY <2>7, <3>1, AudioDrop
  <2>9. y \in VocsStates /\ "recv" \in LoopStates /\ want \in LoopStates /\ y.conn = x.conn /\ y.sess = x.sess
    BY <2>2, <2>3 DEF Taken, ButStore, LoopStates
  <2>10. Q \in SUBSET (Loops \X Clients)
    BY <1>0, <2>1, <2>9, VocsTyping
  <2>11. Q = IF "recv" = "none" THEN y.parts \ {<<l, c>>} ELSE y.parts \cup {<<l, c>>}
    OBVIOUS
  <2> HIDE DEF Q
  <2>12. LoopSet(y, j, c, l, "recv") /\ j.parts = Q
    <3>1. y \in VocsStates /\ c \in Clients /\ l \in Loops /\ "recv" \in LoopStates /\ Q \in SUBSET (Loops \X Clients)
      BY <1>0, <2>1, <2>9, <2>10
    <3>2. LoopSet(y, j, c, l, "recv")
      BY <3>1, LoopSetFields
    <3>3. j.parts = Q
      BY <3>1 DEF VocsStates
    <3> QED
      BY <3>2, <3>3
  <2> HIDE DEF j
  <2>13. Fit(w, j, {}, O)
    BY <1>0, <2>1, <2>4, <2>9, <2>11, <2>12, FitLoopSet
  <2>14. \A e \in j.async : e.id # r
    BY <2>3, <2>12 DEF LoopSet, Taken
  <2>15. O \ {<<r, c>>} = {}
    BY DEF O
  <2>16. Audio(j, {}) /\ j \in VocsStates
    <3>1. y.sess[S] = c /\ y.conn[c].mixer /\ AudioBy(y, S, WithLoop(y.conn[c], l, "recv")) /\ Sess(y)
      BY <2>1, <2>6, <2>7, <2>9 DEF Ready
    <3> QED
      BY <1>0, <2>1, <2>7, <2>9, <2>12, <3>1, AudioLoopSet
  <2>17. Audio(Respond(j, r, c), {})
    BY <2>16, AudioResponded
  <2>18. /\ Unused(j.be.wire, j.fe.wire, k.id) /\ j.up[k.sock] /\ (~Pipelining => <<k.id, k.sock>> \in j.owed)
         /\ j.sess[S] = c /\ k.id \in ClientReqs
    BY <1>0, <2>1, <2>3, <2>5, <2>12 DEF LoopSet, Taken, ButStore
  <2>19. j.conn[c].loops[l] = "recv" /\ j.conn[c].mixer
    <3>1. y.conn \in [Clients -> Conns]
      BY <2>9, VocsTyping
    <3>2. y.conn[c] \in Conns /\ y.conn[c].mixer
      BY <2>1, <2>6, <2>9, <3>1
    <3>3. y.conn[c].loops \in [Loops -> LoopStates] /\ y.conn[c] = [y.conn[c] EXCEPT !.loops = @]
      BY <3>2 DEF Conns
    <3>4. j.conn[c] = WithLoop(y.conn[c], l, "recv")
      BY <2>1, <2>12, <3>1 DEF LoopSet
    <3> QED
      BY <1>0, <3>2, <3>3, <3>4 DEF WithLoop, Conns
  <2>20. Fit(w, a, {}, O \ {<<k.id, k.sock>>})
    BY <2>5, <2>13, <2>18, FitReset
  <2>21. Fit(w, a, {}, {})
    BY <2>5, <2>15, <2>20
  <2>22. ButStore(j, a) /\ a.async = j.async \cup {k}
    BY <2>5, <2>16, AskedFields
  <2>23. Audio(a, {})
    <3>1. Loose(j, k.id)
      BY <2>18, UnusedLoose
    <3> QED
      BY <2>5, <2>16, <3>1, AudioStored
  <2> HIDE DEF a
  <2>24. Owns(a, r, S) /\ AsyncHas(a, r)
    BY <2>5, <2>14, <2>18, <2>22 DEF Owns, ButStore, AsyncHas
  <2>25. \A e \in a.async : e.id = r /\ ~Pipelining /\ "recv" # "none" => a.conn[e.sock].loops[l] # "none"
    BY <2>5, <2>14, <2>19, <2>22 DEF ButStore
  <2>26. want # "recv" => Fit(w, t, {}, {})
    BY <1>0, <2>1, <2>9, <2>21, <2>24, <2>25, FitPerform
  <2>27. want # "recv" => Audio(t, {})
    <3>1. a.sess[S] # NoSocket /\ a.conn[a.sess[S]].mixer /\ a.conn[a.sess[S]].loops[l] = "recv"
      BY <1>0, <2>1, <2>18, <2>19, <2>22, VocsTyping DEF ButStore
    <3>2. Sess(a) /\ Slots(a, {})
      BY <2>21 DEF Fit, Lease
    <3> QED
      BY <1>0, <2>1, <2>9, <2>23, <2>24, <3>1, <3>2, AudioPerform
  <2> HIDE DEF t
  <2>28. want # "recv" => Audio(DropConnection(t, c, TRUE, TRUE), {})
    <3>1. TRUE \in BOOLEAN /\ {} \subseteq {c} /\ c \in Clients \cup {NoSocket}
      BY <2>1
    <3> QED
      BY <2>26, <2>27, <3>1, FitReady, AudioDrop
  <2> QED
    BY <2>8, <2>17, <2>27, <2>28
<1> HIDE DEF r, l, c, y, want, j, t
<1>5. Audio(MixerJoin(x, r, S, l, code), {})
    BY <1>1, <1>2, <1>3, <1>4
<1> QED
    BY <1>5 DEF r, l

(* The same for an answer to leave.                                        *)
LeaveHeard(x, m, S) ==
    /\ Audio(x, {SocketOf(x, S)})
    /\ AsyncHas(x, m.id) => AudioBy(x, S, WithLoop(x.conn[x.sess[S]], m.loop, "none"))

(* An answer to leave, to volume.                                          *)
LEMMA AudioMixerLeave ==
    ASSUME NEW w, NEW x, NEW iss, NEW mk, NEW m, NEW s \in Sockets, NEW S, BeHeard(x, m, iss, mk), Fit(w, x, {}, {}),
           Answers(x, m, s, S)
    PROVE  /\ LeaveHeard(x, m, S) => Audio(MixerLeave(x, m.id, S, m.loop), {})
           /\ Audio(x, {}) => Audio(MixerVolume(x, m.id, S), {})
<1> DEFINE r == m.id
           l == m.loop
           c == SocketOf(x, S)
           y == AsyncUnset(x, r)
           Q == y.parts \ {<<l, c>>}
           j == [y EXCEPT !.conn[c].loops[l] = "none", !.parts = Q]
<1>0. /\ x \in VocsStates /\ Base(x, iss, mk) /\ l \in Loops /\ S \in Users \cup {None} /\ Loose(x, r) /\ Ready(x)
      /\ Sess(x)
  <2>1. r \in ClientReqs /\ Unused(x.be.wire, x.fe.wire, r)
    BY DEF BeHeard, Answers
  <2>2. Loose(x, r)
    BY <2>1, UnusedLoose
  <2>3. Ready(x)
    BY FitReady
  <2> QED
    BY <2>1, <2>2, <2>3 DEF Base, BeHeard, BeWorded, Answers, Fit
<1>1. c \in Clients \cup {NoSocket} /\ NoSocket \notin Clients
    BY <1>0, SocketBound, VocsTyping
<1>2. /\ MixerLeave(x, r, S, l) =
           IF c = NoSocket THEN y
           ELSE IF ~AsyncHas(x, r) \/ ~KnownClient(x, c) THEN DropConnection(y, c, TRUE, TRUE)
           ELSE Respond(j, r, c)
      /\ MixerVolume(x, r, S) =
           IF c = NoSocket THEN y
           ELSE IF ~AsyncHas(x, r) THEN DropConnection(y, c, TRUE, TRUE)
           ELSE Respond(y, r, c)
    BY DEF MixerLeave, MixerVolume
<1>3. ASSUME NEW K, Audio(x, K), K \subseteq {c}
      PROVE  /\ Audio(y, K) /\ Audio(Respond(y, r, c), K) /\ Audio(DropConnection(y, c, TRUE, TRUE), {})
  <2>1. Audio(y, K) /\ Audio(Respond(y, r, c), K) /\ Ready(y)
    BY <1>0, <1>3, AudioTaken, ReadyTaken
  <2>2. TRUE \in BOOLEAN
    OBVIOUS
  <2> HIDE DEF y, c
  <2> QED
    BY <1>1, <1>3, <2>1, <2>2, AudioDrop
<1>4. ASSUME LeaveHeard(x, m, S) PROVE Audio(MixerLeave(x, r, S, l), {})
  <2>1. Audio(y, {c}) /\ Audio(DropConnection(y, c, TRUE, TRUE), {})
    BY <1>3, <1>4 DEF LeaveHeard
  <2>2. c = NoSocket => Audio(y, {})
    BY <2>1 DEF Audio
  <2>3. ASSUME AsyncHas(x, r) PROVE Audio(Respond(j, r, c), {})
    <3>1. S \in Users /\ c \in Clients /\ x.sess[S] = c
      BY <1>0, <2>3, AnswerAwaited
    <3>2. AudioBy(x, S, WithLoop(x.conn[c], l, "none"))
      BY <1>4, <2>3, <3>1 DEF LeaveHeard
    <3>3. Taken(x, y, r) /\ Ready(y)
      BY <1>0, TakenFields, ReadyTaken
    <3>4. AudioBy(y, S, WithLoop(x.conn[c], l, "none"))
      <4> HIDE DEF c, l
      <4> QED
        BY <1>0, <3>2, AudioByTaken
    <3>5. y \in VocsStates /\ "none" \in LoopStates /\ y.conn = x.conn /\ y.sess = x.sess /\ Sess(y)
      BY <3>3 DEF Taken, ButStore, LoopStates, Ready
    <3> HIDE DEF r, l, c, y
    <3>6. Q \in SUBSET (Loops \X Clients)
      BY <3>5, VocsTyping
    <3> HIDE DEF Q
    <3>7. LoopSet(y, j, c, l, "none")
      BY <1>0, <3>1, <3>5, <3>6, LoopSetFields
    <3> HIDE DEF j
    <3>8. Audio(j, {}) /\ j \in VocsStates
      BY <1>0, <2>1, <3>1, <3>4, <3>5, <3>7, AudioLoopSet
    <3> QED
      BY <3>8, AudioResponded
  <2> HIDE DEF r, l, c, y, j
  <2> QED
    BY <1>2, <2>1, <2>2, <2>3
<1>5. ASSUME Audio(x, {}) PROVE Audio(MixerVolume(x, r, S), {})
  <2>1. {} \subseteq {c}
    OBVIOUS
  <2>2. Audio(y, {}) /\ Audio(Respond(y, r, c), {}) /\ Audio(DropConnection(y, c, TRUE, TRUE), {})
    <3> HIDE DEF c, y
    <3> QED
      BY <1>3, <1>5, <2>1
  <2> HIDE DEF r, l, c, y, j
  <2> QED
    BY <1>2, <2>2
<1> QED
    BY <1>4, <1>5

(* What the callbacks of loop requests start from.                         *)
LoopHeard(w, y, iss, mk, m, s, S, code) ==
    /\ BeHeard(y, m, iss, mk) /\ Fit(w, y, {}, {}) /\ Answers(y, m, s, S)
    /\ m.op = "join" => JoinHeard(y, m, s, S, code = "ok")
    /\ m.op = "leave" => LeaveHeard(y, m, S)
    /\ m.op = "volume" => Audio(y, {})

(* Requests about loops do not change the slots.                           *)
LEMMA AudioLoopHeard ==
    ASSUME NEW w, NEW x, NEW iss, NEW mk, NEW s \in Sockets, NEW code \in {"ok", "error"}, NEW m, NEW S,
           Base(x, iss, mk), Fit(w, x, {}, {}), Audio(x, {}), x.be.wire[s] # <<>>, ~ForcesReconnect(x.be, s),
           m = Head(x.be.wire[s]), S = Occupant(x.be, s), m.op \in LoopOps
    PROVE  LoopHeard(w, [x EXCEPT !.be = HandleAnswer(x.be, s, code)], iss, mk, m, s, S, code)
<1> DEFINE y == [x EXCEPT !.be = HandleAnswer(x.be, s, code)]
           q == x.be.wire[s]
<1>0. /\ x \in VocsStates /\ x.be \in BackendStates /\ q \in Seq(Messages) /\ q # <<>> /\ Ready(x) /\ Slots(x, {})
      /\ x.be.mix \in [Sockets -> Mixers] /\ Head(q).op \notin {"acquire", "release"}
    BY VocsTyping, BackendTyping, FitReady DEF Base, Fit, Lease, LoopOps
<1>1. BeHeard(y, Head(q), iss, mk) /\ ButBe(x, y)
    BY BaseAnswered
<1>2. Fit(w, y, {}, {}) /\ SameSlots(x, y) /\ MixerFits(y, {}, s, Head(q)) /\ Head(q).user \in Users
    BY <1>0, FitHeard
<1>3. /\ S \in Users \cup {None} /\ (S # None => x.be.slot[s] = S /\ S \in Users)
      /\ \A u \in Users : x.be.slot[s] = u => S = u
    BY OccupantFacts
<1>4. Answers(y, m, s, S)
    BY <1>1, <1>2, <1>3 DEF Answers, SameSlots, BeHeard, BeWorded, Base, LoopOps
<1>5. AnswerHandled(x.be, s, code) /\ m \in In(q)
    BY HeadFits
<1>6. y.be = HandleAnswer(x.be, s, code)
    BY <1>0, <1>5, WithBe DEF AnswerHandled
<1>7. y.be.mix[s] = MixerExecute(x.be.mix[s], m, code)
    BY <1>0, <1>5, <1>6 DEF AnswerHandled
<1>8. y.conn = x.conn /\ y.sess = x.sess /\ y.async = x.async
    BY <1>1 DEF ButBe
<1>9. Audio(y, {SocketOf(y, S)})
  <2>1. Audio(y, {Hearer(x, s)})
    BY <1>0, AudioAnswered
  <2> QED
    BY <1>8, <2>1 DEF Hearer, SocketOf
<1>10. ASSUME S # None => y.be.mix[s].loops = x.be.mix[s].loops \/ ~x.conn[x.sess[S]].mixer
       PROVE  Audio(y, {})
    BY <1>0, <1>10, AudioTail
<1>11. ASSUME AsyncHas(x, m.id), NEW st, (m.op = "join" /\ code = "ok" /\ st = "recv") \/ (m.op = "leave" /\ st = "none")
       PROVE  AudioBy(y, S, WithLoop(x.conn[x.sess[S]], m.loop, st)) /\ (st = "none" \/ x.conn[x.sess[S]].mixer)
    BY <1>11, AudioLoopAnswered
<1>12. AsyncHas(y, m.id) <=> AsyncHas(x, m.id)
    BY <1>8 DEF AsyncHas
<1> HIDE DEF y
<1>13. ASSUME m.op = "join" PROVE JoinHeard(y, m, s, S, code = "ok")
  <2>1. ASSUME ~AsyncHas(x, m.id), S # None PROVE ~x.conn[x.sess[S]].mixer
    <3>1. Heard(x, s, S) /\ S \in Users /\ x.sess[S] # NoSocket
      BY <1>0, <1>3, <2>1 DEF Slots, Audio, AudioOf
    <3> QED
      BY <1>5, <1>13, <2>1, <3>1 DEF Heard, Mine
  <2>2. ASSUME code # "ok" PROVE y.be.mix[s].loops = x.be.mix[s].loops
    BY <1>7, <1>13, <2>2 DEF MixerExecute
  <2>3. ~AsyncHas(x, m.id) \/ code # "ok" => Audio(y, {})
    BY <1>10, <2>1, <2>2
  <2>4. AsyncHas(x, m.id) /\ code = "ok" =>
          AudioBy(y, S, WithLoop(x.conn[x.sess[S]], m.loop, "recv")) /\ x.conn[x.sess[S]].mixer
    BY <1>11, <1>13
  <2>5. S # None => y.be.slot[s] = S
    BY <1>2, <1>3 DEF SameSlots
  <2> QED
    BY <1>8, <1>9, <1>12, <2>3, <2>4, <2>5 DEF JoinHeard
<1>14. ASSUME m.op = "leave" PROVE LeaveHeard(y, m, S)
  <2>1. AsyncHas(x, m.id) => AudioBy(y, S, WithLoop(x.conn[x.sess[S]], m.loop, "none"))
    BY <1>11, <1>14
  <2> QED
    BY <1>8, <1>9, <1>12, <2>1 DEF LeaveHeard
<1>15. ASSUME m.op = "volume" PROVE Audio(y, {})
  <2>1. y.be.mix[s].loops = x.be.mix[s].loops
    BY <1>7, <1>15 DEF MixerExecute
  <2> QED
    BY <1>10, <2>1
<1> QED
    BY <1>1, <1>2, <1>4, <1>13, <1>14, <1>15 DEF y, LoopHeard

(* An answer of a mixer.                                                   *)
LEMMA AudioMixerAnswer ==
    ASSUME NEW w, NEW x, NEW iss, NEW mk, NEW s \in Sockets, NEW code \in {"ok", "error"}, Base(x, iss, mk),
           Fit(w, x, {}, {}), Audio(x, {}), x.be.wire[s] # <<>>
    PROVE  Audio(OnMixerAnswer(x, s, code), {})
<1> DEFINE m == Head(x.be.wire[s])
           y == [x EXCEPT !.be = HandleAnswer(x.be, s, code)]
           S == Occupant(x.be, s)
           lost == LostUser(AnswerRegistry(x.be, s, code), s)
           z == OnMixerAnswer(x, s, code)
<1>1. BeHeard(y, m, iss, mk) /\ ButBe(x, y)
    BY BaseAnswered
<1>2. /\ ForcesReconnect(x.be, s) => z = SlotLost(y, lost)
      /\ ~ForcesReconnect(x.be, s) /\ ~HasCallback(x.be, s) => z = y
      /\ ~ForcesReconnect(x.be, s) /\ HasCallback(x.be, s) =>
           /\ m.op = "acquire" => z = MixerAcquired(y, m.id, m.user, code)
           /\ m.op = "release" => z = MixerReleased(y, m.user)
           /\ m.op = "join" => z = MixerJoin(y, m.id, S, m.loop, code)
           /\ m.op = "leave" => z = MixerLeave(y, m.id, S, m.loop)
           /\ m.op = "volume" => z = MixerVolume(y, m.id, S)
    BY OnMixerAnswerCases
<1>3. /\ m.op \in {"acquire", "release"} \cup LoopOps /\ m.user \in Users /\ MixerFits(x, {}, s, m)
      /\ m \in In(x.be.wire[s]) /\ Ready(x)
  <2>1. m.op \in {"acquire", "release"} \cup LoopOps
    BY <1>1 DEF BeHeard, BeWorded
  <2>2. m.user \in Users /\ MixerFits(x, {}, s, m) /\ m \in In(x.be.wire[s])
    BY HeadFits
  <2> QED
    BY <2>1, <2>2, FitReady
<1>4. ForcesReconnect(x.be, s) <=> m.op \in {"acquire", "join"} /\ ~HasCallback(x.be, s)
    BY DEF ForcesReconnect
<1>5. m.op = "leave" => HasCallback(x.be, s)
    BY <1>3 DEF HasCallback, Audio, Called
<1>6. ASSUME ForcesReconnect(x.be, s) PROVE Audio(SlotLost(y, lost), {})
    BY <1>3, <1>6, AudioReconnected
<1>7. ASSUME ~ForcesReconnect(x.be, s), m.op = "acquire" PROVE Audio(MixerAcquired(y, m.id, m.user, code), {})
    BY <1>7, AudioMixerAcquired
<1>8. ASSUME ~ForcesReconnect(x.be, s), m.op = "release" PROVE Audio(y, {}) /\ Audio(MixerReleased(y, m.user), {})
  <2>1. Audio(y, {})
    BY <1>8, AudioPlainAnswer DEF LoopOps
  <2>2. y.sess[m.user] = NoSocket
    BY <1>1, <1>3, <1>8 DEF MixerFits, Over, ButBe
  <2>3. MixerReleased(y, m.user) = y
    <3> HIDE DEF y, m
    <3> QED
      BY <2>2 DEF MixerReleased, SocketOf, DropConnection
  <2> QED
    BY <2>1, <2>3
<1>9. ASSUME ~ForcesReconnect(x.be, s), m.op \in LoopOps
      PROVE  /\ m.op = "join" => Audio(MixerJoin(y, m.id, S, m.loop, code), {})
             /\ m.op = "leave" => Audio(MixerLeave(y, m.id, S, m.loop), {})
             /\ m.op = "volume" => Audio(y, {}) /\ Audio(MixerVolume(y, m.id, S), {})
  <2>0. m = Head(x.be.wire[s]) /\ S = Occupant(x.be, s)
    OBVIOUS
  <2> HIDE DEF m, S
  <2>1. /\ BeHeard(y, m, iss, mk) /\ Fit(w, y, {}, {}) /\ Answers(y, m, s, S)
        /\ m.op = "join" => JoinHeard(y, m, s, S, code = "ok")
        /\ m.op = "leave" => LeaveHeard(y, m, S)
        /\ m.op = "volume" => Audio(y, {})
    <3>1. LoopHeard(w, y, iss, mk, m, s, S, code)
      BY <1>9, <2>0, AudioLoopHeard
    <3> QED
      BY <3>1 DEF LoopHeard
  <2> HIDE DEF y, m, S
  <2>2. m.op = "join" => Audio(MixerJoin(y, m.id, S, m.loop, code), {})
    BY <2>1, AudioMixerJoin
  <2>3. /\ m.op = "leave" => Audio(MixerLeave(y, m.id, S, m.loop), {})
        /\ m.op = "volume" => Audio(MixerVolume(y, m.id, S), {})
    BY <2>1, AudioMixerLeave
  <2> QED
    BY <2>1, <2>2, <2>3
<1> HIDE DEF m, y, S, lost, z
<1>10. Audio(z, {})
    BY <1>2, <1>3, <1>4, <1>5, <1>6, <1>7, <1>8, <1>9 DEF LoopOps
<1> QED
    BY <1>10 DEF z

-----------------------------------------------------------------------------
(* What proxies say.                                                       *)

(* The state in which the answer to a request to talk, or to stop, reaches *)
(* the vocs: ok if the proxy has done it.                                  *)
TalkHeard(x, m, ok) ==
    LET c == x.sess[m.session]
        d == WithLoop(x.conn[c], m.loop, IF m.op = "talk on" THEN "send" ELSE "recv")
    IN IF ok /\ AsyncHas(x, m.id) THEN Audio(x, {c}) /\ AudioBy(x, m.session, d) /\ x.conn[c].mixer
       ELSE Audio(x, {})

(* The answer.                                                             *)
LEMMA AudioFrontendTalk ==
    ASSUME NEW w, NEW x, NEW iss, NEW mk, NEW m, FeHeard(x, m, iss, mk), m.op \in TalkOps, ~Pipelining,
           NEW ok \in BOOLEAN, Fit(w, x, {}, {}), TalkFits(x, m), TalkHeard(x, m, ok)
    PROVE  Audio(FrontendTalk(x, m.id, m.session, m.loop, m.op = "talk on", ok), {})
<1> DEFINE r == m.id
           S == m.session
           l == m.loop
           on == m.op = "talk on"
           e == AsyncGet(x, r)
           c == e.sock
           st == IF on THEN "send" ELSE "recv"
           y == AsyncUnset(x, r)
           u == [y EXCEPT !.conn[c].loops[l] = st]
           a == AsyncSet(u, e)
           z == LeaveLoop(a, r, S, l)
           O == {<<r, c>>}
<1>0. /\ x \in VocsStates /\ Unused(x.be.wire, x.fe.wire, r) /\ r \in ClientReqs /\ r \in Reqs
      /\ S \in Users /\ l \in Loops /\ Base(x, iss, mk) /\ Loose(x, r) /\ Ready(x)
  <2>1. FeWorded(m, iss, mk) /\ m.op \in TalkOps /\ Base(x, iss, mk) /\ Unused(x.be.wire, x.fe.wire, r)
    BY DEF FeHeard
  <2>2. r \in ClientReqs
    BY <2>1 DEF FeWorded, TalkOps, Base
  <2>3. Loose(x, r)
    BY <2>1, <2>2, UnusedLoose
  <2>4. Ready(x)
    BY FitReady
  <2> QED
    BY <2>1, <2>2, <2>3, <2>4 DEF FeWorded, TalkOps, Base, ClientReqs
<1>1. FrontendTalk(x, r, S, l, on, ok) =
        IF ~AsyncHas(x, r) THEN x
        ELSE IF ~ok THEN Respond(y, r, c)
        ELSE IF ~KnownClient(x, c) THEN DropConnection(y, c, TRUE, TRUE)
        ELSE IF e.want # "none" THEN Respond(u, r, c)
        ELSE IF HasMixer(x.be, S) THEN z
        ELSE DropConnection(z, c, TRUE, TRUE)
    BY DEF FrontendTalk
<1>2. CASE ~AsyncHas(x, r)
    BY <1>1, <1>2 DEF TalkHeard
<1>3. CASE AsyncHas(x, r) /\ ~ok
  <2>1. Audio(x, {})
    BY <1>3 DEF TalkHeard
  <2>2. Audio(Respond(y, r, c), {})
    BY <1>0, <2>1, AudioTaken
  <2> QED
    BY <1>1, <1>3, <2>2
<1>4. CASE AsyncHas(x, r) /\ ok
  <2>1. e \in x.async /\ e.id = r /\ e \in Entries /\ c \in Clients /\ Waits(x, r, c)
    BY <1>0, <1>4, AsyncFound, WaitsFound
  <2>2. x.sess[S] = c /\ x.conn[c].loops[l] # "none" /\ (e.want = "none" => ~on)
    BY <2>1 DEF TalkFits, FeHeard, FeAwaited
  <2>3. x.up[c] /\ <<r, c>> \in x.owed /\ <<l, c>> \in x.parts
    BY <1>0, <2>1, <2>2 DEF Fit, Lease, OpenOnly, Single, Listed
  <2>4. Audio(x, {c}) /\ AudioBy(x, S, WithLoop(x.conn[c], l, st)) /\ x.conn[c].mixer
    BY <1>4, <2>2 DEF TalkHeard
  <2>5. Fit(w, y, {}, {} \cup {<<r, c>>}) /\ Taken(x, y, r)
    BY <1>0, <2>1, FitTaken, TakenFields
  <2>6. Fit(w, y, {}, O)
    <3>1. {} \cup {<<r, c>>} = O
      OBVIOUS
    <3> QED
      BY <2>5, <3>1
  <2>7. Audio(y, {c}) /\ Ready(y) /\ AudioBy(y, S, WithLoop(x.conn[c], l, st))
    <3> HIDE DEF c, st
    <3>1. Audio(y, {c})
      BY <1>0, <2>4, AudioTaken
    <3>2. Ready(y)
      BY <1>0, ReadyTaken
    <3> HIDE DEF l
    <3> QED
      BY <1>0, <2>4, <3>1, <3>2, AudioByTaken
  <2>8. y \in VocsStates /\ st \in LoopStates /\ st # "none" /\ y.conn = x.conn /\ y.sess = x.sess
    BY <2>5 DEF Taken, ButStore, LoopStates
  <2>9. ~on => st # "send"
    OBVIOUS
  <2> HIDE DEF r, S, l, e, c, y, O, st, on
  <2>10. TRUE \in BOOLEAN /\ {c} \subseteq {c} /\ {} \subseteq {c} /\ c \in Clients \cup {NoSocket}
    BY <2>1
  <2>11. Audio(DropConnection(y, c, TRUE, TRUE), {})
    BY <2>7, <2>10, AudioDrop
  <2>12. LoopSet(y, u, c, l, st) /\ u.parts = y.parts
    <3>1. y.parts \in SUBSET (Loops \X Clients)
      BY <2>8, VocsTyping
    <3>2. LoopSet(y, u, c, l, st)
      BY <1>0, <2>1, <2>8, <3>1, LoopSetFields
    <3>3. u.parts = y.parts
      BY <2>8 DEF VocsStates
    <3> QED
      BY <3>2, <3>3
  <2> HIDE DEF u
  <2>13. u.parts = IF st = "none" THEN y.parts \ {<<l, c>>} ELSE y.parts \cup {<<l, c>>}
    BY <2>3, <2>5, <2>8, <2>12 DEF Taken, ButStore
  <2>14. Fit(w, u, {}, O)
    BY <1>0, <2>1, <2>6, <2>8, <2>12, <2>13, FitLoopSet
  <2>15. Audio(u, {}) /\ u \in VocsStates
    <3>1. y.sess[S] = c /\ y.conn[c].mixer /\ AudioBy(y, S, WithLoop(y.conn[c], l, st)) /\ Sess(y)
      BY <2>2, <2>4, <2>7, <2>8 DEF Ready
    <3> QED
      BY <1>0, <2>1, <2>7, <2>8, <2>12, <3>1, AudioLoopSet
  <2>16. Audio(Respond(u, r, c), {})
    BY <2>15, AudioResponded
  <2>17. \A g \in u.async : g.id # r
    BY <2>5, <2>12 DEF LoopSet, Taken
  <2>18. O \ {<<e.id, e.sock>>} = {}
    BY <2>1 DEF O, c
  <2>19. /\ Unused(u.be.wire, u.fe.wire, e.id) /\ u.up[e.sock] /\ (~Pipelining => <<e.id, e.sock>> \in u.owed)
         /\ u.sess[S] = c /\ e.id \in ClientReqs
    BY <1>0, <2>1, <2>2, <2>3, <2>5, <2>12 DEF LoopSet, Taken, ButStore, c
  <2>20. Fit(w, a, {}, O \ {<<e.id, e.sock>>})
    BY <2>1, <2>14, <2>19, FitReset
  <2>21. Fit(w, a, {}, {})
    BY <2>18, <2>20
  <2>22. ButStore(u, a) /\ a.async = u.async \cup {e}
    BY <2>1, <2>15, AskedFields
  <2>23. Audio(a, {})
    <3>1. Loose(u, e.id)
      BY <2>19, UnusedLoose
    <3> QED
      BY <2>1, <2>15, <3>1, AudioStored
  <2> HIDE DEF a
  <2>24. Owns(a, r, S)
    BY <2>1, <2>17, <2>19, <2>22 DEF Owns, ButStore, c
  <2>25. Fit(w, z, {}, {})
    BY <1>0, <2>21, <2>24, FitLeaveLoop
  <2>26. u.conn[c].loops[l] = st
    <3>1. y.conn \in [Clients -> Conns]
      BY <2>8, VocsTyping
    <3>2. y.conn[c] \in Conns
      BY <2>1, <3>1
    <3>3. y.conn[c].loops \in [Loops -> LoopStates]
      BY <3>2 DEF Conns
    <3>4. u.conn[c] = WithLoop(y.conn[c], l, st)
      BY <2>1, <2>12, <3>1 DEF LoopSet
    <3> QED
      BY <1>0, <3>2, <3>3, <3>4 DEF WithLoop, Conns
  <2>27. e.want = "none" => Audio(z, {})
    <3> SUFFICES ASSUME e.want = "none" PROVE Audio(z, {})
      OBVIOUS
    <3>1. a.sess[S] = c /\ a.conn[c].loops[l] # "send" /\ c # NoSocket
      BY <1>0, <2>1, <2>2, <2>9, <2>19, <2>22, <2>26, VocsTyping DEF ButStore
    <3>2. Sess(a) /\ Slots(a, {})
      BY <2>21 DEF Fit, Lease
    <3>3. S # None /\ "leave" \in LoopOps /\ "leave" # "join"
      BY <1>0, NoneAssumption DEF LoopOps
    <3>4. z = [a EXCEPT !.be = LoopRequest(a.be, "leave", r, S, l)]
      BY <3>3 DEF LeaveLoop
    <3> HIDE DEF z
    <3>5. Audio([a EXCEPT !.be = LoopRequest(a.be, "leave", r, S, l)], {})
      BY <1>0, <2>23, <3>1, <3>2, <3>3, AudioLoopSent
    <3> QED
      BY <3>4, <3>5
  <2> HIDE DEF z
  <2>28. e.want = "none" => Audio(DropConnection(z, c, TRUE, TRUE), {})
    BY <2>10, <2>25, <2>27, FitReady, AudioDrop
  <2>29. Audio(FrontendTalk(x, r, S, l, on, ok), {})
    BY <1>1, <1>4, <2>11, <2>16, <2>27, <2>28
  <2> QED
    BY <2>29 DEF r, S, l, on
<1> QED
    BY <1>2, <1>3, <1>4

(* How it gets there.                                                      *)
LEMMA AudioTalked ==
    ASSUME NEW w, NEW x, NEW y, NEW iss, NEW mk, NEW m, NEW p \in Proxies, NEW ok \in BOOLEAN, ~Pipelining,
           Fit(w, x, {}, {}), Audio(x, {}), FeHeard(y, m, iss, mk), ButFe(x, y), TalkHandled(x.fe, y.fe, p, m),
           m.op \in TalkOps, m \in In(x.fe.wire[p]), m.loop \in Loops,
           \A q \in Proxies : In(y.fe.wire[q]) \subseteq In(x.fe.wire[q]), ok <=> m.session \in x.fe.live[p]
    PROVE  TalkHeard(y, m, ok)
<1> DEFINE S == m.session
           l == m.loop
           c == x.sess[S]
           st == IF m.op = "talk on" THEN "send" ELSE "recv"
           d == x.conn[c]
           n == WithLoop(d, l, st)
<1>0. /\ x \in VocsStates /\ S \in Users /\ x.fe.talk \in [Users -> SUBSET Loops] /\ TalkFits(x, m)
      /\ c \in Clients \cup {NoSocket} /\ y \in VocsStates
  <2>1. x \in VocsStates /\ TalkFits(x, m) /\ y \in VocsStates
    BY DEF Fit, Sess, Lease, Told, FeHeard, Base
  <2>2. S \in Users
    BY <2>1 DEF TalkFits
  <2> QED
    BY <2>1, <2>2, VocsTyping, FrontendTyping
<1>1. \A T \in Users : T # S \/ ~ok => y.fe.talk[T] = x.fe.talk[T]
    BY <1>0 DEF TalkHandled
<1>2. ASSUME NEW L, ~ok \/ c \in L \cup {NoSocket}
      PROVE  Audio(y, L)
  <2>1. \A T \in Users : x.sess[T] \notin L \cup {NoSocket} => y.fe.talk[T] = x.fe.talk[T]
    BY <1>1, <1>2
  <2>2. \A q \in Proxies : \A k \in In(y.fe.wire[q]) : k.op \in TalkOps => k \in In(x.fe.wire[q]) \/ AsyncHas(x, k.id)
    OBVIOUS
  <2>3. {} \subseteq L
    OBVIOUS
  <2> QED
    BY <2>1, <2>2, <2>3, AudioFrontend
<1>3. CASE ~ok \/ c = NoSocket
  <2>1. Audio(y, {})
    BY <1>2, <1>3
  <2>2. ok => ~AsyncHas(y, m.id)
    <3> SUFFICES ASSUME ok, AsyncHas(y, m.id) PROVE FALSE
      OBVIOUS
    <3>1. AsyncGet(y, m.id) \in y.async /\ AsyncGet(y, m.id).id = m.id /\ AsyncGet(y, m.id).sock \in Clients
      BY <1>0, AsyncFound
    <3>2. c = AsyncGet(y, m.id).sock
      BY <1>0, <3>1 DEF TalkFits, ButFe
    <3> QED
      BY <1>3, <3>1, <3>2, NoneAssumption, ClientsAssumption DEF NoSocket
  <2> QED
    BY <2>1, <2>2 DEF TalkHeard
<1>4. CASE ok /\ c # NoSocket
  <2>1. c \in Clients /\ AudioOf(x, S) /\ Silent(x)
    BY <1>0, <1>4 DEF Audio
  <2>2. AsyncHas(x, m.id) /\ x.fe.talk[S] = Spoken(d)
    BY <2>1 DEF AudioOf, Voiced
  <2>3. PICK e \in x.async : e.id = m.id
    BY <2>2 DEF AsyncHas
  <2>4. e.sock = c /\ d.loops[l] # "none"
    BY <1>0, <2>3 DEF TalkFits
  <2>5. d.mixer /\ d \in Conns
    BY <1>0, <2>1, <2>4, VocsTyping DEF Silent
  <2>6. d.loops \in [Loops -> LoopStates]
    BY <2>5 DEF Conns
  <2>7. /\ n.mixer = d.mixer /\ \A k \in Loops : n.loops[k] = IF k = l THEN st ELSE d.loops[k]
    BY <2>5, <2>6 DEF WithLoop, Conns
  <2>8. y.fe.talk[S] = Spoken(n)
    <3>1. y.fe.talk[S] = IF m.op = "talk on" THEN x.fe.talk[S] \cup {l} ELSE x.fe.talk[S] \ {l}
      BY <1>0, <1>4 DEF TalkHandled
    <3> HIDE DEF n, d
    <3> QED
      BY <2>2, <2>7, <3>1 DEF Spoken
  <2>9. Played(n) = Played(d)
    <3> HIDE DEF n, d
    <3> QED
      BY <2>4, <2>7 DEF Played
  <2>10. VoicedBy(y, S, n)
    <3>1. \A q \in Proxies : \A k \in In(y.fe.wire[q]) : k.op \in TalkOps /\ k.session = S => AsyncHas(y, k.id)
      BY <2>1 DEF AudioOf, Voiced, AsyncHas, ButFe
    <3> QED
      BY <2>8, <3>1 DEF VoicedBy
  <2>11. ASSUME NEW s \in Sockets, NEW k \in In(x.be.wire[s]), k.user = S, k.op \in {"join", "leave"}, AsyncHas(x, k.id)
         PROVE  k.loop # l
    <3>1. PICK g \in x.async : g.id = k.id
      BY <2>11 DEF AsyncHas
    <3>2. k.op \in LoopOps
      BY <2>11 DEF LoopOps
    <3>3. g.sock = c
      BY <2>11, <3>1, <3>2 DEF Fit, Lease, Queued, MixerFits
    <3>4. <<g.id, g.sock>> \in x.owed /\ <<e.id, e.sock>> \in x.owed
      BY DEF Fit, Lease, Single
    <3>5. <<g.id, g.sock>> = <<e.id, e.sock>>
      BY <2>4, <3>3, <3>4 DEF Fit, Lease, Single
    <3>6. k.id = m.id
      BY <2>3, <3>1, <3>5
    <3>7. m.id \in ClientReqs /\ Unused(y.be.wire, y.fe.wire, m.id)
      BY DEF FeHeard, FeWorded, Base, TalkOps
    <3>8. Loose(y, m.id)
      BY <3>7, UnusedLoose
    <3> QED
      BY <3>2, <3>6, <3>8 DEF Loose, ButFe
  <2>12. ASSUME NEW s \in Sockets, y.be.slot[s] = S PROVE HeardBy(y, s, S, n)
    <3>1. y.be = x.be /\ Heard(x, s, S) /\ y.async = x.async
      BY <2>1, <2>12 DEF ButFe, AudioOf
    <3>2. \A k \in In(x.be.wire[s]) : k.user = S /\ k.op \in {"join", "leave"} /\ AsyncHas(x, k.id) => n.loops[k.loop] # "send"
      <4> SUFFICES ASSUME NEW k \in In(x.be.wire[s]), k.user = S, k.op \in {"join", "leave"}, AsyncHas(x, k.id)
                   PROVE  n.loops[k.loop] # "send"
        OBVIOUS
      <4>1. k.loop # l /\ d.loops[k.loop] # "send"
        BY <2>11, <3>1 DEF Heard
      <4>2. k.op \in LoopOps /\ BeWorded(k, iss, mk)
        BY <3>1 DEF LoopOps, FeHeard, Base, BeMeant
      <4>3. k.loop \in Loops
        BY <4>2 DEF BeWorded
      <4> QED
        BY <2>7, <4>1, <4>3
    <3> HIDE DEF n
    <3> QED
      BY <2>7, <2>9, <3>1, <3>2 DEF Heard, HeardBy, AsyncHas
  <2>13. Audio(y, {c})
    BY <1>2
  <2>14. AudioBy(y, S, n)
    BY <2>10, <2>12 DEF AudioBy
  <2>15. AsyncHas(y, m.id) /\ y.sess = x.sess /\ y.conn = x.conn
    BY <2>2 DEF ButFe, AsyncHas
  <2> QED
    BY <1>4, <2>5, <2>13, <2>14, <2>15 DEF TalkHeard
<1> QED
    BY <1>3, <1>4

(* A session has ended at its proxy, or is said to have: its client is     *)
(* dropped.                                                                *)
LEMMA AudioEnded ==
    ASSUME NEW x, NEW y, NEW S \in Users, Good(x), Good(y), Audio(x, {}), ButFe(x, y),
           \A T \in Users : T # S => y.fe.talk[T] = x.fe.talk[T],
           \A p \in Proxies : \A m \in In(y.fe.wire[p]) : m.op \in TalkOps => m \in In(x.fe.wire[p])
    PROVE  Audio(SessionCompleted(y, S, FALSE), {}) /\ Audio(SessionDropped(y, S), {})
<1> DEFINE c == SocketOf(y, S)
<1>1. c = x.sess[S] /\ c \in Clients \cup {NoSocket}
  <2>1. y \in VocsStates /\ y.sess = x.sess
    BY DEF Good, Sess, ButFe
  <2> QED
    BY <2>1, VocsTyping, NoneAssumption DEF SocketOf
<1>2. Audio(y, {c})
  <2>1. \A T \in Users : x.sess[T] \notin {c} \cup {NoSocket} => y.fe.talk[T] = x.fe.talk[T]
    BY <1>1
  <2>2. \A p \in Proxies : \A m \in In(y.fe.wire[p]) : m.op \in TalkOps => m \in In(x.fe.wire[p]) \/ AsyncHas(x, m.id)
    OBVIOUS
  <2>3. {} \subseteq {c}
    OBVIOUS
  <2> QED
    BY <2>1, <2>2, <2>3, AudioFrontend
<1>3. Ready(y)
    BY FitGood, FitReady
<1>4. SessionCompleted(y, S, FALSE) = DropConnection(y, c, FALSE, TRUE) /\ SessionDropped(y, S) = DropConnection(y, c, FALSE, TRUE)
    BY DEF SessionCompleted, SessionDropped
<1> HIDE DEF c
<1>5. TRUE \in BOOLEAN /\ FALSE \in BOOLEAN /\ {c} \subseteq {c}
    OBVIOUS
<1>6. Audio(DropConnection(y, c, FALSE, TRUE), {})
    BY <1>1, <1>2, <1>3, <1>5, AudioDrop
<1> QED
    BY <1>4, <1>6

(* What a proxy says about drops, failures and talking.                    *)
LEMMA AudioProxyAnswer ==
    ASSUME NEW x, NEW iss, NEW mk, NEW p \in Proxies, Base(x, iss, mk), Good(x), Audio(x, {}), ~Pipelining,
           x.fe.wire[p] # <<>>, FE!Said(x.fe, p).op \notin {"create", "update", "candidate"}
    PROVE  Audio(OnProxyAnswer(x, p), {})
<1> DEFINE m == FE!Said(x.fe, p)
           S == m.session
<1>0. /\ FeWorded(m, iss, mk) /\ m \in FE!ProxyMessages /\ m = Head(x.fe.wire[p]) /\ m \in In(x.fe.wire[p])
    BY SaidWorded
<1>1. m.op \in {"drop", "failed"} \cup TalkOps /\ m.op # "create"
    BY <1>0 DEF FE!ProxyMessages, FE!FrontendOps, TalkOps
<1>2. /\ S \in Users /\ x.fe \in FE!FrontendStates /\ x \in VocsStates
      /\ x.fe.wire \in [Proxies -> Seq(FE!ProxyMessages)] /\ x.fe.talk \in [Users -> SUBSET Loops]
    BY <1>0, <1>1, VocsTyping, FrontendTyping DEF FeWorded, Base
<1>3. CASE m.op = "drop" /\ FE!DropFails(x.fe, p)
  <2> DEFINE g == FE!EndSession(x.fe, p, S)
             y == [x EXCEPT !.fe = g]
  <2>1. SessionEnded(x.fe, g, p, S) /\ g.wire = x.fe.wire
    BY <1>2, EndSessionFields
  <2>2. OnProxyAnswer(x, p) = SessionCompleted(y, S, FALSE)
    BY <1>3, OnProxyAnswerCases
  <2>3. g \in FE!FrontendStates /\ \A T \in Users : T # S => g.talk[T] = x.fe.talk[T]
    BY <1>2, <2>1 DEF SessionEnded
  <2> HIDE DEF g, m
  <2>4. Good(y) /\ y.fe = g /\ ButFe(x, y)
    BY <2>1, <2>3, GoodShorter
  <2> HIDE DEF y, S
  <2> QED
    BY <1>2, <2>1, <2>2, <2>3, <2>4, AudioEnded
<1>4. CASE m.op = "drop" /\ ~FE!DropFails(x.fe, p)
  <2> DEFINE g == FE!SessionDropped(x.fe, p)
             y == [x EXCEPT !.fe = g]
  <2>1. DropHandled(x.fe, g, p, S)
    BY <1>2, SessionDroppedFields
  <2>2. OnProxyAnswer(x, p) = SessionDropped(y, S)
    BY <1>4, OnProxyAnswerCases
  <2>3. g \in FE!FrontendStates /\ g.wire = [x.fe.wire EXCEPT ![p] = Tail(x.fe.wire[p])] /\ g.talk = x.fe.talk
    BY <2>1 DEF DropHandled
  <2> HIDE DEF g
  <2>4. /\ Good(y) /\ y.fe = g /\ ButFe(x, y)
        /\ \A q \in Proxies : In(g.wire[q]) \subseteq In(x.fe.wire[q])
    BY <2>3, GoodShorter
  <2> HIDE DEF y, S
  <2>5. /\ \A T \in Users : T # S => y.fe.talk[T] = x.fe.talk[T]
        /\ \A q \in Proxies : \A n \in In(y.fe.wire[q]) : n.op \in TalkOps => n \in In(x.fe.wire[q])
    BY <2>3, <2>4
  <2> HIDE DEF m
  <2> QED
    BY <1>2, <2>2, <2>4, <2>5, AudioEnded
<1>5. CASE m.op = "failed"
  <2> DEFINE g == FE!Consume(x.fe, p)
             y == [x EXCEPT !.fe = g]
  <2>1. OtherwiseSame(x.fe, g) /\ g \in FE!FrontendStates /\ g.wire = [x.fe.wire EXCEPT ![p] = Tail(x.fe.wire[p])]
    BY <1>2, ConsumeFields
  <2>2. OnProxyAnswer(x, p) = SessionCompleted(y, S, FALSE)
    BY <1>5, OnProxyAnswerCases
  <2> HIDE DEF g
  <2>3. /\ Good(y) /\ y.fe = g /\ ButFe(x, y)
        /\ \A q \in Proxies : In(g.wire[q]) \subseteq In(x.fe.wire[q])
    BY <2>1, GoodShorter
  <2>4. g.talk = x.fe.talk
    BY <2>1 DEF OtherwiseSame
  <2> HIDE DEF y, S
  <2> QED
    BY <1>2, <2>2, <2>3, <2>4, AudioEnded
<1>6. CASE m.op \in TalkOps
  <2> DEFINE g == FE!Talked(x.fe, p)
             y == [x EXCEPT !.fe = g]
             ok == FE!TalkSucceeds(x.fe, p)
  <2>0. m.loop \in Loops
    BY <1>0, <1>6 DEF FeWorded, TalkOps
  <2>1. FeHeard(y, m, iss, mk)
    BY <1>0, <1>6, BaseTalkHeard
  <2>2. TalkHandled(x.fe, g, p, m)
    BY <1>2, <2>0, TalkedFields
  <2>3. OnProxyAnswer(x, p) = FrontendTalk(y, m.id, m.session, m.loop, m.op = "talk on", ok)
    BY <1>6, OnProxyAnswerCases
  <2>4. ok \in BOOLEAN /\ (ok <=> m.session \in x.fe.live[p])
    BY DEF FE!TalkSucceeds
  <2>5. g \in FE!FrontendStates /\ g.wire = [x.fe.wire EXCEPT ![p] = Tail(x.fe.wire[p])]
    BY <2>2 DEF TalkHandled
  <2> HIDE DEF g
  <2>6. /\ Good(y) /\ y.fe = g /\ ButFe(x, y)
        /\ \A q \in Proxies : In(g.wire[q]) \subseteq In(x.fe.wire[q])
    BY <2>5, GoodShorter
  <2> HIDE DEF y, ok, m
  <2>7. TalkFits(x, m)
    BY <1>0, <1>2 DEF Good, Lease, Told
  <2>8. TalkFits(y, m)
    BY <2>6, <2>7 DEF TalkFits, ButFe
  <2>9. Fit(y, y, {}, {}) /\ Fit(x, x, {}, {})
    BY <2>6, FitGood
  <2>10. TalkHeard(y, m, ok)
    BY <1>0, <1>6, <2>0, <2>1, <2>2, <2>4, <2>6, <2>9, AudioTalked
  <2>11. Audio(FrontendTalk(y, m.id, m.session, m.loop, m.op = "talk on", ok), {})
    BY <1>6, <2>1, <2>4, <2>8, <2>9, <2>10, AudioFrontendTalk
  <2> QED
    BY <2>3, <2>11
<1> QED
    BY <1>1, <1>3, <1>4, <1>5, <1>6

(* Answers to create, update and candidate.                                *)
LEMMA AudioProxyMore ==
    ASSUME NEW x, NEW iss, NEW mk, NEW p \in Proxies, Base(x, iss, mk), Audio(x, {}), x.fe.wire[p] # <<>>,
           FE!Said(x.fe, p).op \in {"create", "update", "candidate"}
    PROVE  /\ Audio(OnProxyRefused(x, p), {}) /\ Audio(OnProxyUpdated(x, p), {})
           /\ \A ok : Audio(OnProxyCandidate(x, p, ok), {})
<1> DEFINE m == FE!Said(x.fe, p)
           g == FE!Consume(x.fe, p)
           y == [x EXCEPT !.fe = g]
           r == m.id
           c == AsyncGet(y, r).sock
           k(ok) == IF ok THEN SocketOf(y, m.session) ELSE NoSocket
<1>0. x.fe \in FE!FrontendStates /\ x \in VocsStates /\ m = Head(x.fe.wire[p])
    BY SaidWorded, VocsTyping DEF Base
<1>1. FeHeard(y, m, iss, mk)
    BY <1>0, BaseConsumed
<1>2. Loose(y, r) /\ y \in VocsStates
  <2>1. r \in ClientReqs /\ Unused(y.be.wire, y.fe.wire, r) /\ y \in VocsStates
    BY <1>1 DEF FeHeard, FeWorded, Base
  <2> QED
    BY <2>1, UnusedLoose
<1>3. /\ OnProxyRefused(x, p) = IF ~AsyncHas(y, r) THEN y ELSE Respond(AsyncUnset(y, r), r, c)
      /\ OnProxyUpdated(x, p) = IF ~AsyncHas(y, r) THEN y ELSE Respond(AsyncUnset(y, r), r, c)
      /\ \A ok : OnProxyCandidate(x, p, ok) = Respond(AsyncUnset(y, r), r, k(ok))
    BY DEF OnProxyRefused, OnProxyUpdated, OnProxyCandidate, SessionRefused, SessionUpdated, CandidateAnswered
<1>4. g \in FE!FrontendStates /\ g.talk = x.fe.talk /\ g.wire = [x.fe.wire EXCEPT ![p] = Tail(x.fe.wire[p])]
    BY <1>0, ConsumeFields DEF OtherwiseSame
<1>5. \A q \in Proxies : In(g.wire[q]) \subseteq In(x.fe.wire[q])
  <2> DEFINE V == x.fe.wire
             Z == g.wire
  <2>1. /\ V \in [Proxies -> Seq(FE!ProxyMessages)]
        /\ Z = [V EXCEPT ![p] = <<>>] \/ (V[p] # <<>> /\ Z = [V EXCEPT ![p] = Tail(V[p])])
    BY <1>0, <1>4, FrontendTyping
  <2> HIDE DEF V, Z
  <2>2. \A q \in Proxies : In(Z[q]) \subseteq In(V[q])
    BY <2>1, ShorterNothingNew
  <2> QED
    BY <2>2 DEF V, Z
<1> HIDE DEF g
<1>6. Audio(y, {})
    BY <1>0, <1>4, <1>5, AudioFeStep
<1> HIDE DEF m, y, r, c, k
<1>7. \A d : Audio(Respond(AsyncUnset(y, r), r, d), {})
    BY <1>2, <1>6, AudioTaken
<1> QED
    BY <1>3, <1>6, <1>7

(* ICE of a session has failed.                                            *)
LEMMA AudioIceFailed ==
    ASSUME NEW x, NEW p \in Proxies, NEW S \in Users, Good(x), Audio(x, {})
    PROVE  Audio(OnIceFailed(x, p, S), {})
<1> DEFINE g == FE!IceFailed(x.fe, p, S)
           y == [x EXCEPT !.fe = g]
           n == FE!ProxyMessage("failed", None, S, None)
<1>0. /\ x.fe \in FE!FrontendStates /\ x \in VocsStates
      /\ x.fe.wire \in [Proxies -> Seq(FE!ProxyMessages)] /\ x.fe.talk \in [Users -> SUBSET Loops]
    BY VocsTyping, FrontendTyping DEF Good, Sess
<1>1. SessionEnded(x.fe, g, p, S)
    BY <1>0, IceFailedFields
<1>2. g.wire = [x.fe.wire EXCEPT ![p] = <<n>> \o x.fe.wire[p]]
    BY <1>0, IceFailedFields
<1>3. n \in FE!ProxyMessages /\ n.op = "failed"
  <2>1. "failed" \in FE!FrontendOps
    BY DEF FE!FrontendOps
  <2> QED
    BY <2>1, ProxyMessageType
<1>4. OnIceFailed(x, p, S) = SessionCompleted(y, S, FALSE)
    BY DEF OnIceFailed
<1> HIDE DEF g, n
<1>5. \A q \in Proxies : \A m \in In(g.wire[q]) : m \in In(x.fe.wire[q]) \/ (q = p /\ m = n)
  <2>1. In(<<n>> \o x.fe.wire[p]) = In(x.fe.wire[p]) \cup {n}
    BY <1>0, <1>3, QueueFacts
  <2>2. \A q \in Proxies : g.wire[q] = IF q = p THEN <<n>> \o x.fe.wire[p] ELSE x.fe.wire[q]
    BY <1>0, <1>2
  <2> QED
    BY <2>1, <2>2
<1>6. g \in FE!FrontendStates /\ \A T \in Users : T # S => g.talk[T] = x.fe.talk[T]
    BY <1>0, <1>1 DEF SessionEnded
<1>7. NoNewCreate(x.fe.wire, g.wire) /\ ProxiesUntold(x.fe, g)
    BY <1>3, <1>5 DEF NoNewCreate, ProxiesUntold, TalkOps
<1>8. Good(y) /\ y.fe = g /\ ButFe(x, y)
    BY <1>6, <1>7, GoodFe
<1> HIDE DEF y
<1>9. \A q \in Proxies : \A m \in In(y.fe.wire[q]) : m.op \in TalkOps => m \in In(x.fe.wire[q])
    BY <1>3, <1>5, <1>8 DEF TalkOps
<1> QED
    BY <1>4, <1>6, <1>8, <1>9, AudioEnded

(* ICE of a session has completed.                                         *)
LEMMA AudioIceCompleted ==
    ASSUME NEW x, NEW S \in Users, Good(x), Audio(x, {})
    PROVE  Audio(SessionCompleted(x, S, TRUE), {})
<1> DEFINE c == SocketOf(x, S)
           z == Announce([x EXCEPT !.conn[c].ice = TRUE], c)
           d == [x.conn[c] EXCEPT !.ice = TRUE]
<1>0. Sess(x) /\ x \in VocsStates
    BY DEF Good, Sess
<1>1. c \in Clients \cup {NoSocket} /\ (c # NoSocket => x.conn[c].session # None)
    BY <1>0, SocketBound
<1>2. SessionCompleted(x, S, TRUE) = IF c = NoSocket \/ x.conn[c].ice THEN x ELSE z
    BY DEF SessionCompleted
<1> HIDE DEF c
<1>3. ASSUME c # NoSocket, ~x.conn[c].ice PROVE Audio(z, {})
  <2>1. c \in Clients /\ x.conn[c] \in Conns /\ x.conn \in [Clients -> Conns]
    BY <1>0, <1>1, <1>3, VocsTyping
  <2>2. Announced(x, z, c, d)
    BY <1>0, <2>1, AnnounceFields
  <2>3. d.mixer = x.conn[c].mixer /\ d.loops = x.conn[c].loops
    BY <2>1 DEF Conns
  <2> HIDE DEF d, z
  <2>4. SameLoops(x, z) /\ z.be = x.be /\ z.fe = x.fe /\ z.async = x.async
    BY <2>1, <2>2, <2>3 DEF Announced, SameLoops
  <2>5. SameWaits(x, z)
    BY <2>4 DEF SameWaits, AsyncHas
  <2> QED
    BY <1>0, <2>4, <2>5, AudioPlain
<1> HIDE DEF z
<1> QED
    BY <1>2, <1>3

(* A proxy connects.                                                       *)
LEMMA AudioProxyConnect ==
    ASSUME NEW x, NEW p \in Proxies, Good(x), Audio(x, {})
    PROVE  Audio([x EXCEPT !.fe = FE!RegisterProxy(x.fe, p)], {})
<1> DEFINE g == FE!RegisterProxy(x.fe, p)
<1>0. x.fe \in FE!FrontendStates /\ x \in VocsStates
    BY VocsTyping DEF Good, Sess
<1>1. g \in FE!FrontendStates /\ g.wire = [x.fe.wire EXCEPT ![p] = <<>>] /\ g.talk = x.fe.talk
    BY <1>0, RegisterProxyFields
<1> HIDE DEF g
<1>2. \A q \in Proxies : In(g.wire[q]) \subseteq In(x.fe.wire[q])
    BY <1>1, GoodShorter
<1>3. Audio([x EXCEPT !.fe = g], {})
    BY <1>0, <1>1, <1>2, AudioFeStep
<1> QED
    BY <1>3 DEF g

(* A proxy is lost: its sessions are dropped one after the other.          *)
LEMMA AudioProxyLost ==
    ASSUME NEW x, NEW iss, NEW mk, NEW p \in Proxies, NEW kept \in SUBSET x.fe.live[p],
           Base(x, iss, mk), Good(x), Audio(x, {})
    PROVE  Audio(OnProxyLost(x, p, kept), {})
<1> DEFINE g == FE!UnregisterProxy(x.fe, p, kept)
           y == [x EXCEPT !.fe = g]
           Ss == x.fe.owned[p]
           T == {z \in VocsStates : Good(z) /\ Audio(z, {})}
<1>0. /\ x.fe \in FE!FrontendStates /\ kept \in SUBSET Users /\ IsFiniteSet(Ss) /\ Ss \subseteq Users
      /\ x \in VocsStates
    BY VocsTyping, FrontendTyping DEF Base, FiniteTables
<1>1. ProxyGone(x.fe, g, p, kept)
    BY <1>0, UnregisterProxyFields
<1>2. OnProxyLost(x, p, kept) = AfterDrops(y, Ss)[Ss]
    BY LostIsIteration
<1> HIDE DEF g
<1>3. g \in FE!FrontendStates /\ g.wire = [x.fe.wire EXCEPT ![p] = <<>>] /\ g.talk = x.fe.talk
    BY <1>1 DEF ProxyGone
<1>4. Good(y) /\ \A q \in Proxies : In(g.wire[q]) \subseteq In(x.fe.wire[q])
    BY <1>3, GoodShorter
<1>5. Audio(y, {})
    BY <1>0, <1>3, <1>4, AudioFeStep
<1> HIDE DEF y, Ss
<1>6. y \in T
    BY <1>4, <1>5 DEF Good, Sess
<1>7. \A z \in T, S \in Ss : SessionDropped(z, S) \in T
  <2> SUFFICES ASSUME NEW z \in T, NEW S \in Ss PROVE SessionDropped(z, S) \in T
    OBVIOUS
  <2> DEFINE c == SocketOf(z, S)
  <2>1. Good(z) /\ Audio(z, {}) /\ z \in VocsStates /\ Ready(z)
    <3>1. Good(z) /\ Audio(z, {}) /\ z \in VocsStates
      OBVIOUS
    <3> QED
      BY <3>1, FitGood, FitReady
  <2>2. c \in Clients \cup {NoSocket}
    BY <1>0, <2>1, VocsTyping DEF SocketOf
  <2>3. SessionDropped(z, S) = DropConnection(z, c, FALSE, TRUE)
    BY DEF SessionDropped
  <2> HIDE DEF c
  <2>4. TRUE \in BOOLEAN /\ FALSE \in BOOLEAN /\ {} \subseteq {c}
    OBVIOUS
  <2>5. Good(DropConnection(z, c, FALSE, TRUE)) /\ Audio(DropConnection(z, c, FALSE, TRUE), {})
    BY <2>1, <2>2, <2>4, GoodDropOf, AudioDrop
  <2> QED
    BY <2>3, <2>5 DEF Good, Sess
<1> HIDE DEF T
<1>8. AfterDrops(y, Ss)[Ss] \in T
    BY <1>0, <1>6, <1>7, DropsStay
<1> QED
    BY <1>2, <1>8 DEF T

(* Nobody is connected.                                                    *)
LEMMA AudioFresher ==
    ASSUME NEW y, Fresher(y)
    PROVE  Audio(y, {})
<1>1. /\ \A c \in Clients : y.conn[c] = NoData
      /\ \A s \in Sockets : In(y.be.wire[s]) = {}
      /\ \A S \in Users : y.sess[S] = NoSocket
    BY BackendInitFields, EmptyQueue DEF Fresher
<1>2. Silent(y)
    BY <1>1, NoDataType DEF Silent
<1> QED
    BY <1>1, <1>2 DEF Audio, Called

(* A request is too old.                                                   *)
LEMMA AudioTimeout ==
    ASSUME NEW x, NEW iss, NEW mk, NEW r, Base(x, iss, mk), Good(x), Audio(x, {}), AsyncHas(x, r)
    PROVE  Audio(AsyncTimedout(x, r), {})
<1> DEFINE c == AsyncGet(x, r).sock
           y == Respond(AsyncUnset(x, r), r, c)
<1>1. c \in Clients /\ Waits(x, r, c)
    BY WaitsFound
<1>2. AsyncTimedout(x, r) = DropLocked(y, c, TRUE, TRUE)
    BY DEF AsyncTimedout
<1> HIDE DEF c
<1>3. Ready(x)
    BY FitGood, FitReady
<1>4. TRUE \in BOOLEAN /\ {} \subseteq {c} /\ {c} \subseteq {c} /\ c \in Clients \cup {NoSocket}
    BY <1>1
<1>5. Ready(y)
    BY <1>3, ReadyTaken
<1>6. Audio(y, {c})
    BY <1>1, <1>3, <1>4, AudioForsaken
<1> HIDE DEF y
<1> QED
    BY <1>2, <1>4, <1>5, <1>6, AudioDrop

-----------------------------------------------------------------------------
(* A session is made.                                                      *)

(* It is bound to the connection that waits for it, which is in no loop.   *)
LEMMA AudioBound ==
    ASSUME NEW x, NEW b, NEW r, NEW S \in Users, NEW c \in Clients, Sess(x), Audio(x, {}), Newcomer(x, S),
           x.fe.talk[S] = {}, Binding(x, b, r, S, c), x.conn[c].session = None, Loose(x, r)
    PROVE  Audio(b, {})
<1>0. /\ x \in VocsStates /\ x.conn \in [Clients -> Conns] /\ x.sess \in [Users -> Clients \cup {NoSocket}]
      /\ Silent(x) /\ Called(x) /\ x.conn[c] \in Conns
    BY VocsTyping DEF Sess, Audio
<1>1. /\ b.be = x.be /\ b.fe = x.fe /\ b.async = {e \in x.async : e.id # r}
      /\ \A T \in Users : b.sess[T] = IF T = S THEN c ELSE x.sess[T]
      /\ \A k \in Clients : b.conn[k].loops = x.conn[k].loops /\ b.conn[k].mixer = x.conn[k].mixer
    BY <1>0 DEF Binding, Conns
<1>2. Silent(b) /\ Called(b)
    BY <1>0, <1>1 DEF Silent, Called
<1>3. ASSUME NEW T \in Users, T # S, x.sess[T] # NoSocket PROVE AudioOf(b, T)
  <2>1. AudioOf(x, T) /\ x.sess[T] \in Clients
    BY <1>0, <1>3 DEF Audio
  <2>2. \A i : i # r => (AsyncHas(x, i) <=> AsyncHas(b, i))
    BY <1>1 DEF AsyncHas
  <2>3. \A p \in Proxies : \A m \in In(b.fe.wire[p]) : m.op \in TalkOps /\ m.session = T =>
          AsyncHas(b, m.id) \/ (m \in In(x.fe.wire[p]) /\ ~AsyncHas(x, m.id))
    BY <1>1, <2>2 DEF Loose
  <2>4. \A s \in Sockets : \A m \in In(x.be.wire[s]) : m.op \in LoopOps /\ m.user = T =>
          (AsyncHas(x, m.id) <=> AsyncHas(b, m.id))
    BY <2>2 DEF Loose
  <2>5. Unmoved(x, b, T)
    BY <1>1, <1>3, <2>1, <2>3, <2>4 DEF Unmoved
  <2> QED
    BY <2>1, <2>5, UnmovedAudio
<1>4. AudioOf(b, S)
  <2>1. ~x.conn[c].mixer
    BY DEF Sess, MediaTold
  <2>2. \A l \in Loops : b.conn[b.sess[S]].loops[l] = "none"
    BY <1>0, <1>1, <2>1 DEF Silent
  <2>3. b.fe.talk[S] = Spoken(b.conn[b.sess[S]])
    BY <1>1, <2>2 DEF Spoken
  <2>4. \A p \in Proxies : \A m \in In(b.fe.wire[p]) : m.op \in TalkOps => m.session # S
    BY <1>1 DEF Newcomer, TalkOps
  <2> QED
    BY <1>1, <2>3, <2>4 DEF AudioOf, Voiced, Newcomer, Unmixed
<1> QED
    BY <1>1, <1>2, <1>3, <1>4 DEF Audio

(* h is g after mixer t has been asked for by session S.                   *)
Acquires(g, h, t, r, S) ==
    /\ h \in BackendStates /\ t \in Sockets /\ h.slot = [g.slot EXCEPT ![t] = S] /\ h.cbs = g.cbs \cup {r}
    /\ h.mix = g.mix /\ h.wire = [g.wire EXCEPT ![t] = Append(@, Message("acquire", r, S, None))]

LEMMA AcquireFirst ==
    ASSUME NEW g \in BackendStates, NEW r \in Reqs, NEW S \in Users, MixerAvailable(g)
    PROVE  Acquires(g, AcquireMixer(g, r, S), FirstFree(g), r, S)
<1> DEFINE h == AcquireMixer(g, r, S)
           t == FirstFree(g)
<1>1. /\ h \in BackendStates /\ t \in Sockets /\ g.slot[t] = Free
      /\ h.slot = [g.slot EXCEPT ![t] = S] /\ h.users = [g.users EXCEPT ![S] = t]
      /\ h.cbs = g.cbs \cup {r} /\ h.mix = g.mix
      /\ h.wire = [g.wire EXCEPT ![t] = Append(@, Message("acquire", r, S, None))]
    BY AcquireMixerFields
<1> HIDE DEF h, t
<1>2. Acquires(g, h, t, r, S)
    BY <1>1 DEF Acquires
<1> QED
    BY <1>2 DEF h, t

(* A free mixer is asked for.                                              *)
LEMMA AudioAcquire ==
    ASSUME NEW w, NEW x, NEW O, NEW r \in Reqs, NEW S \in Users, NEW c \in Clients, Fit(w, x, {}, O),
           MixerAvailable(x.be), x.sess[S] = c, ~x.conn[c].mixer, Unmixed(x, S), Audio(x, {})
    PROVE  Audio([x EXCEPT !.be = AcquireMixer(x.be, r, S)], {})
<1> DEFINE b == AcquireMixer(x.be, r, S)
           t == FirstFree(x.be)
           n == Message("acquire", r, S, None)
           y == [x EXCEPT !.be = b]
<1>0. /\ x \in VocsStates /\ x.be \in BackendStates /\ Sess(x) /\ NoSocket \notin Clients
      /\ x.be.slot \in [Sockets -> Users \cup {Closed, Free}] /\ x.be.wire \in [Sockets -> Seq(Messages)]
  <2>1. x \in VocsStates /\ Sess(x)
    BY DEF Fit, Sess
  <2>2. x.be \in BackendStates /\ NoSocket \notin Clients
    BY <2>1, VocsTyping
  <2> QED
    BY <2>1, <2>2, BackendTyping
<1>a. x.be \in BackendStates
    BY <1>0
<1>b. Acquires(x.be, b, t, r, S)
    BY <1>a, AcquireFirst
<1>1. /\ b \in BackendStates /\ t \in Sockets
      /\ b.slot = [x.be.slot EXCEPT ![t] = S] /\ b.cbs = x.be.cbs \cup {r}
      /\ b.mix = x.be.mix /\ b.wire = [x.be.wire EXCEPT ![t] = Append(@, n)]
  <2> HIDE DEF b, t
  <2> QED
    BY <1>b DEF Acquires
<1>2. n \in Messages /\ n.op = "acquire" /\ n.user = S
    BY NoneAssumption DEF Message, Messages, BackendOps
<1>3. Sess(y)
  <2>1. Fit(w, y, {}, O)
    BY FitAcquire
  <2> QED
    BY <2>1 DEF Fit
<1> HIDE DEF b, t, n
<1>4. y \in VocsStates /\ y.be = b /\ ButBe(x, y)
    BY <1>0, <1>1, WithBe
<1> HIDE DEF y
<1>5. /\ \A s \in Sockets : b.slot[s] = IF s = t THEN S ELSE x.be.slot[s]
      /\ \A s \in Sockets : b.wire[s] = IF s = t THEN Append(x.be.wire[t], n) ELSE x.be.wire[s]
      /\ In(Append(x.be.wire[t], n)) = In(x.be.wire[t]) \cup {n}
    BY <1>0, <1>1, <1>2, QueueFacts
<1>6. /\ y.sess = x.sess /\ y.conn = x.conn /\ y.async = x.async /\ y.fe = x.fe
    BY <1>4 DEF ButBe
<1>7. Called(y)
    BY <1>1, <1>2, <1>4, <1>5 DEF Audio, Called
<1>8. Audio(y, {c})
  <2>1. \A T \in Users, s \in Sockets : x.sess[T] \notin {c} \cup {NoSocket} /\ y.be.slot[s] = T =>
          x.be.slot[s] = T /\ y.be.wire[s] = x.be.wire[s] /\ y.be.mix[s] = x.be.mix[s]
    BY <1>1, <1>4, <1>5
  <2>2. {} \subseteq {c}
    OBVIOUS
  <2> QED
    BY <1>4, <1>7, <2>1, <2>2, AudioBackend
<1>9. AudioOf(y, S)
  <2>1. AudioOf(x, S)
    BY <1>0 DEF Audio
  <2>2. Voiced(y, S)
    BY <1>6, <2>1 DEF AudioOf, Voiced, AsyncHas
  <2>3. ASSUME NEW s \in Sockets, y.be.slot[s] = S PROVE Heard(y, s, S)
    <3>1. s = t
      BY <1>4, <1>5, <2>3 DEF Unmixed
    <3>2. \A m \in In(x.be.wire[t]) : m.user # S
      BY <1>1 DEF Unmixed
    <3>3. x.be.wire[t] \in Seq(Messages) /\ Trailing(x.be.wire[t], S)
      <4>1. x.be.wire[t] \in Seq(Messages)
        BY <1>0, <1>1
      <4> QED
        BY <3>2, <4>1 DEF Trailing, In
    <3>4. Trailing(Append(x.be.wire[t], n), S)
      BY <1>2, <3>2, <3>3, TrailingFacts
    <3>5. \A m \in In(y.be.wire[s]) : m.user = S => m.op = "acquire"
      BY <1>2, <1>4, <1>5, <3>1, <3>2
    <3>6. Trailing(y.be.wire[s], S) /\ ~y.conn[y.sess[S]].mixer
      BY <1>4, <1>5, <1>6, <3>1, <3>4
    <3> QED
      BY <3>5, <3>6 DEF Heard
  <2> QED
    BY <2>2, <2>3 DEF AudioOf
<1>10. S = y.conn[c].session
    BY <1>0, <1>6 DEF Sess, Bound
<1>11. Audio(y, {})
    BY <1>3, <1>8, <1>9, <1>10, AudioAll
<1> QED
    BY <1>11 DEF y, b

(* Who waits for the session is given it and a mixer, or it is dropped.    *)
LEMMA AudioSessionCreated ==
    ASSUME NEW x, NEW r \in Reqs, NEW S \in Users, Good(x), Newcomer(x, S), x.fe.talk[S] = {}, WaitsAlone(x, r),
           AsyncHas(x, r) => Waits(x, r, AsyncGet(x, r).sock), Audio(x, {}), Loose(x, r)
    PROVE  Audio(SessionCreated(x, r, S), {})
<1> DEFINE c == AsyncGet(x, r).sock
           b == [AsyncUnset(x, r) EXCEPT !.sess[S] = c, !.conn[c].session = S]
           q == [b EXCEPT !.be = AcquireMixer(b.be, r, S)]
           n == MixerAcquired(b, r, S, "error")
           y == IF MixerAvailable(x.be) THEN q ELSE n
           O == {<<r, c>>}
<1>0. x \in VocsStates /\ Sess(x)
    BY DEF Good, Sess
<1>1. SessionCreated(x, r, S) = IF ~AsyncHas(x, r) THEN FrontendDrop(x, S)
                                ELSE IF y.up[c] THEN Respond(y, r, c) ELSE FrontendDrop(y, S)
    BY DEF SessionCreated
<1>2. CASE ~AsyncHas(x, r)
    BY <1>0, <1>1, <1>2, AudioFrontendDrop
<1>3. CASE AsyncHas(x, r)
  <2>1. c \in Clients /\ AsyncGet(x, r) \in x.async /\ NoSocket \notin Clients
    BY <1>0, <1>3, AsyncFound, VocsTyping
  <2>2. /\ x.conn[c].session = None /\ Waits(x, r, c)
        /\ \A g \in x.async : CreateAwaited(x, g) /\ g.id # r => g.sock # c
    BY <1>3 DEF WaitsAlone
  <2>3. x.up[c]
    BY <2>1 DEF Good, Lease, OpenOnly
  <2> HIDE DEF c
  <2>4. Binding(x, b, r, S, c)
    BY <1>0, <2>1, BindingFields
  <2> HIDE DEF b
  <2>5. b.be = x.be /\ b.async = {e \in x.async : e.id # r} /\ b.up = x.up
    BY <2>4 DEF Binding
  <2>6. \A g \in b.async : CreateAwaited(x, g) => g.sock # c
    BY <2>2, <2>5
  <2>7. Fit(b, b, {}, {<<r, c>>}) /\ Unmixed(b, S) /\ ~b.conn[c].mixer /\ b.sess[S] = c
    <3> HIDE DEF q, n, y, O
    <3>1. BindsFirst(x, b, r, S, c)
      BY <2>2, <2>3, <2>4, <2>6 DEF BindsFirst
    <3> QED
      BY <2>1, <3>1, FitBinding
  <2>8. Unmixed(b, S) /\ ~b.conn[c].mixer /\ b.sess[S] = c
    BY <2>7
  <2>9. Audio(b, {}) /\ Ready(b)
    BY <1>0, <2>1, <2>2, <2>4, <2>7, AudioBound, FitReady
  <2>10. ~AsyncHas(b, r) /\ b \in VocsStates
    BY <2>4, <2>5 DEF AsyncHas, Binding
  <2>11. Audio(y, {}) /\ y \in VocsStates
    <3>1. CASE MixerAvailable(x.be)
      <4>1. Audio(q, {})
        BY <2>1, <2>5, <2>7, <2>8, <2>9, <3>1, AudioAcquire
      <4>2. Fit(b, q, {}, O)
        BY <2>1, <2>5, <2>7, <2>8, <3>1, FitAcquire
      <4> QED
        BY <3>1, <4>1, <4>2 DEF Fit, Sess
    <3>2. CASE ~MixerAvailable(x.be)
      <4> DEFINE a == AsyncUnset(b, r)
                 X == {}
      <4>1. SocketOf(b, S) = c
        BY <2>8, NoneAssumption DEF SocketOf
      <4>2. n = DropConnection(a, c, TRUE, FALSE)
        BY <2>1, <4>1 DEF MixerAcquired
      <4>3. Ready(a) /\ Audio(a, {})
        BY <2>9, <2>10, ReadyTaken, AudioTaken
      <4>4. TRUE \in BOOLEAN /\ FALSE \in BOOLEAN /\ {} \subseteq {c} /\ c \in Clients \cup {NoSocket}
        BY <2>1
      <4>5. Fit(b, n, {}, {})
        <5>1. \A t \in Sockets : b.be.slot[t] # S
          BY <2>8 DEF Unmixed
        <5>2. Fit(b, b, X, O) /\ X \subseteq {c} /\ (\A o \in O : o[2] = c) /\ c = b.sess[S] /\ c # NoSocket
          BY <2>1, <2>7, <2>8
        <5> HIDE DEF X, O
        <5> QED
          BY <2>10, <5>1, <5>2, FitNoMixer
      <4> HIDE DEF a, n
      <4>6. Audio(DropConnection(a, c, TRUE, FALSE), {})
        BY <4>3, <4>4, AudioDrop
      <4> QED
        BY <3>2, <4>2, <4>5, <4>6 DEF Fit, Sess
    <3> QED
      BY <3>1, <3>2
  <2> HIDE DEF y
  <2>12. Audio(Respond(y, r, c), {}) /\ Audio(FrontendDrop(y, S), {})
    BY <2>11, AudioResponded, AudioFrontendDrop
  <2> QED
    BY <1>1, <1>3, <2>12
<1> QED
    BY <1>2, <1>3

(* An answer to a create that succeeds.                                    *)
LEMMA AudioProxyCreated ==
    ASSUME NEW x, NEW iss, NEW mk, NEW p \in Proxies, NEW S \in Users \ mk, Base(x, iss, mk),
           Good(x), Audio(x, {}), x.fe.wire[p] # <<>>, FE!Said(x.fe, p).op = "create"
    PROVE  Audio(OnProxyCreated(x, p, S), {})
<1> DEFINE g == FE!SessionCreated(x.fe, p, S)
           y == [x EXCEPT !.fe = g]
           m == FE!Said(x.fe, p)
           r == m.id
           e == AsyncGet(x, r)
<1>0. Sess(x) /\ x.fe \in FE!FrontendStates /\ S \in Users /\ x \in VocsStates
    BY VocsTyping DEF Good, Sess
<1>1. m \in In(x.fe.wire[p]) /\ FeWorded(m, iss, mk) /\ m = Head(x.fe.wire[p])
    BY SaidWorded
<1>2. OnProxyCreated(x, p, S) = SessionCreated(y, r, S) /\ m.op = "create"
    BY DEF OnProxyCreated
<1>3. NoNewCreate(x.fe.wire, g.wire)
    BY <1>0, SessFrontendHears
<1>4. CreateHandled(x.fe, g, p, S)
    BY <1>0, SessionCreatedFields
<1>5. Base(y, iss, mk \cup {S}) /\ Unused(y.be.wire, y.fe.wire, r)
  <2>1. FeHeard(y, Head(x.fe.wire[p]), iss, mk \cup {S})
    BY BaseCreateHeard
  <2> HIDE DEF y, m
  <2> QED
    BY <1>1, <2>1 DEF FeHeard
<1>6. Newcomer(x, S) /\ Unknown(x, S)
    BY NewcomerFound
<1> HIDE DEF g, m
<1>7. /\ g \in FE!FrontendStates /\ g.wire = [x.fe.wire EXCEPT ![p] = Tail(x.fe.wire[p])] /\ g.talk = x.fe.talk
    BY <1>4 DEF CreateHandled
<1>8. Good(y) /\ y.fe = g /\ ButFe(x, y)
    BY <1>0, <1>7, GoodShorter
<1>9. \A q \in Proxies : In(g.wire[q]) \subseteq In(x.fe.wire[q])
    BY <1>0, <1>7, GoodShorter
<1>10. Audio(y, {})
    BY <1>0, <1>7, <1>9, AudioFeStep
<1> HIDE DEF y
<1>11. y \in VocsStates /\ y.sess = x.sess /\ y.be = x.be /\ y.async = x.async /\ y.conn = x.conn
    BY <1>8 DEF Good, Sess, ButFe
<1>12. Newcomer(y, S) /\ y.fe.talk[S] = {}
    BY <1>6, <1>7, <1>8, <1>9, <1>11 DEF Newcomer, Unmixed, Unknown
<1>13. r \in Reqs /\ Loose(y, r)
  <2>1. r \in ClientReqs
    BY <1>1, <1>2 DEF FeWorded, Base
  <2> QED
    BY <1>5, <2>1, UnusedLoose DEF ClientReqs
<1>14. AsyncGet(y, r) = e /\ (AsyncHas(y, r) <=> AsyncHas(x, r))
    BY <1>11 DEF AsyncGet, AsyncHas
<1>15. \A h : CreateAwaited(y, h) => CreateAwaited(x, h)
    BY <1>3, <1>8, <1>11, AwaitedStill
<1>16. WaitsAlone(y, r)
  <2> SUFFICES ASSUME AsyncHas(x, r)
               PROVE  /\ x.conn[e.sock].session = None
                      /\ \A h \in x.async : CreateAwaited(x, h) /\ h.id # r => h.sock # e.sock
    BY <1>11, <1>14, <1>15 DEF WaitsAlone
  <2>1. e \in x.async /\ e.id = r
    BY <1>0, AsyncFound
  <2> HIDE DEF e
  <2>2. CreateAwaited(x, e)
    BY <1>1, <1>2, <2>1 DEF CreateAwaited
  <2>3. x.conn[e.sock].session = None /\ \A h \in x.async : CreateAwaited(x, h) /\ h.sock = e.sock => h = e
    BY <1>0, <2>1, <2>2 DEF Sess, Creating
  <2> QED
    BY <2>1, <2>3
<1>17. AsyncHas(y, r) => Waits(y, r, AsyncGet(y, r).sock)
    BY <1>5, WaitsFound
<1> HIDE DEF r, e
<1>18. Audio(SessionCreated(y, r, S), {})
    BY <1>0, <1>8, <1>10, <1>12, <1>13, <1>16, <1>17, AudioSessionCreated
<1> QED
    BY <1>2, <1>18

-----------------------------------------------------------------------------
(* The invariant of behaviours in which callbacks do not expire and        *)
(* clients wait for their responses.                                       *)
AudioInv == FullInv /\ Audio(v, {})

(* Requests of clients.                                                    *)
LEMMA AudioRequests ==
    ASSUME AudioInv, NEW r \in Reqs, NEW c \in Clients,
           \/ LoginLdap(r, c) \/ Media(r, c) \/ \E l \in Loops : SwitchLoopVolume(r, c, l)
           \/ \E l \in Loops, want \in Wants : SwitchLoopState(r, c, l, want)
           \/ \E op \in Signals : Signal(op, r, c)
    PROVE  Audio(v', {})
<1>1. SessInv /\ Fit(v, v, {}, {}) /\ Audio(v, {}) /\ Ready(v)
    BY WholeFit, FitReady DEF AudioInv, FullInv
<1>2. PICK after : Request(r, c, after)
    BY DEF LoginLdap, Media, SwitchLoopVolume, SwitchLoopState, Signal
<1>3. Asking(v, r, c)
    BY <1>1, <1>2, RequestAsks
<1>4. CASE LoginLdap(r, c)
  <2>1. v' = ClientLoginLdap(v, r, c)
    BY <1>4 DEF LoginLdap, Request
  <2> QED
    BY <1>1, <1>3, <2>1, AudioLoginLdap
<1>5. CASE Media(r, c)
  <2>1. v' = ClientMedia(v, r, c)
    BY <1>5 DEF Media, Request
  <2> QED
    BY <1>1, <1>3, <2>1, AudioMedia
<1>6. ASSUME NEW l \in Loops, SwitchLoopVolume(r, c, l) PROVE Audio(v', {})
  <2>1. v' = ClientSwitchLoopVolume(v, r, c, l) /\ "none" \in LoopStates
    BY <1>6 DEF SwitchLoopVolume, Request, LoopStates
  <2> QED
    BY <1>1, <1>3, <2>1, AudioSwitch
<1>7. ASSUME NEW l \in Loops, NEW want \in Wants, SwitchLoopState(r, c, l, want) PROVE Audio(v', {})
  <2>1. v' = ClientSwitchLoopState(v, r, c, l, want) /\ want \in LoopStates
    BY <1>7, SwitchesAssumption DEF SwitchLoopState, Request
  <2> QED
    BY <1>1, <1>3, <2>1, AudioSwitch
<1>8. ASSUME NEW op \in Signals, Signal(op, r, c) PROVE Audio(v', {})
  <2>1. v' = IF op = "update" THEN ClientUpdate(v, r, c) ELSE ClientCandidate(v, r, c)
    BY <1>8 DEF Signal, Request
  <2> QED
    BY <1>1, <1>3, <2>1, AudioSignal
<1> QED
    BY <1>4, <1>5, <1>6, <1>7, <1>8

(* Every step keeps it, one case for each action.                          *)
LEMMA AudioStep ==
    ASSUME ~RepeatMedia, ~Pipelining, ~Expiry
    PROVE  AudioInv /\ [Next]_vars => AudioInv'
<1> SUFFICES ASSUME AudioInv, [Next]_vars PROVE Audio(v', {})
    BY FullStep DEF AudioInv, Careful
<1>a. Base(v, issued, made) /\ Fit(v, v, {}, {}) /\ Good(v) /\ Ready(v) /\ Audio(v, {}) /\ v \in VocsStates
  <2>1. Base(v, issued, made) /\ Fit(v, v, {}, {}) /\ Good(v) /\ Audio(v, {}) /\ v \in VocsStates
    BY WholeFit DEF AudioInv, FullInv, SessInv, BaseInv, Base, Whole
  <2> QED
    BY <2>1, FitReady
<1>1. ASSUME NEW c \in Clients, Connect(c) PROVE Audio(v', {})
    BY <1>a, <1>1, AudioMarked DEF Connect
<1>2. ASSUME NEW c \in Clients, Disconnect(c) PROVE Audio(v', {})
  <2>1. TRUE \in BOOLEAN
    OBVIOUS
  <2>2. Audio(Close(v, c), {})
    BY <1>a, <2>1, AudioLogin
  <2> QED
    BY <1>2, <2>2 DEF Disconnect
<1>3. ASSUME NEW c \in Clients, Login(c) PROVE Audio(v', {})
  <2>1. \A valid \in BOOLEAN : Audio(ClientLogin(v, c, valid), {})
    BY <1>a, AudioLogin
  <2> QED
    BY <1>3, <2>1 DEF Login, Send
<1>4. ASSUME NEW r \in Reqs, LdapAnswers(r) PROVE Audio(v', {})
  <2>1. \A granted \in BOOLEAN : r \in v.ldap => Audio(LdapAuthentication(v, r, granted), {})
    BY <1>a, AudioLdapAnswer
  <2> QED
    BY <1>4, <2>1 DEF LdapAnswers
<1>5. ASSUME NEW c \in Clients, Authorize(c) PROVE Audio(v', {})
  <2>1. \A permitted \in BOOLEAN : Audio(ClientAuthorize(v, c, permitted), {})
    BY <1>a, AudioLogin
  <2> QED
    BY <1>5, <2>1 DEF Authorize, Send
<1>6. ASSUME NEW c \in Clients, Logout(c) PROVE Audio(v', {})
  <2>1. TRUE \in BOOLEAN
    OBVIOUS
  <2>2. Audio(ClientLogout(v, c), {})
    BY <1>a, <2>1, AudioLogin
  <2> QED
    BY <1>6, <2>2 DEF Logout, Send
<1>7. ASSUME NEW s \in Sockets, MixerConnect(s) \/ MixerClose(s) PROVE Audio(v', {})
  <2>1. Audio([v EXCEPT !.be = CbEventRegister(v.be, s)], {}) /\ Audio(OnMixerClose(v, s), {})
    BY <1>a, AudioMixerConnection
  <2> QED
    BY <1>7, <2>1 DEF MixerConnect, MixerClose
<1>8. ASSUME NEW s \in Sockets, MixerAnswers(s) PROVE Audio(v', {})
  <2>1. PICK code \in MixerCodes(v.be.mix[s], Head(v.be.wire[s])) : v' = OnMixerAnswer(v, s, code)
    BY <1>8 DEF MixerAnswers
  <2>2. code \in {"ok", "error"}
    BY <2>1 DEF MixerCodes
  <2>3. v.be.wire[s] # <<>>
    BY <1>8 DEF MixerAnswers
  <2>4. Audio(OnMixerAnswer(v, s, code), {})
    BY <1>a, <2>2, <2>3, AudioMixerAnswer
  <2> QED
    BY <2>1, <2>4
<1>9. ASSUME NEW p \in Proxies, ProxyConnect(p) PROVE Audio(v', {})
    BY <1>a, <1>9, AudioProxyConnect DEF ProxyConnect
<1>10. ASSUME NEW p \in Proxies, ProxyLost(p) PROVE Audio(v', {})
    BY <1>a, <1>10, AudioProxyLost DEF ProxyLost
<1>11. ASSUME NEW p \in Proxies, NEW S \in Users, ProxyCreates(p, S) PROVE Audio(v', {})
  <2>1. v.fe.wire[p] # <<>> /\ FE!Said(v.fe, p).op = "create" /\ S \in Users \ made
    BY <1>11 DEF ProxyCreates
  <2>2. v' = OnProxyCreated(v, p, S)
    BY <1>11 DEF ProxyCreates
  <2>3. Audio(OnProxyCreated(v, p, S), {})
    BY <1>a, <2>1, AudioProxyCreated
  <2> QED
    BY <2>2, <2>3
<1>12. ASSUME NEW p \in Proxies, ProxyRefuses(p) PROVE Audio(v', {})
    BY <1>a, <1>12, AudioProxyMore DEF ProxyRefuses
<1>13. ASSUME NEW p \in Proxies, ProxyUpdates(p) PROVE Audio(v', {})
    BY <1>a, <1>13, AudioProxyMore DEF ProxyUpdates, ProxySays
<1>14. ASSUME NEW p \in Proxies, ProxyCandidate(p) PROVE Audio(v', {})
  <2>1. PICK ok : v' = OnProxyCandidate(v, p, ok)
    BY <1>14 DEF ProxyCandidate
  <2>2. v.fe.wire[p] # <<>> /\ FE!Said(v.fe, p).op = "candidate"
    BY <1>14 DEF ProxyCandidate, ProxySays
  <2> QED
    BY <1>a, <2>1, <2>2, AudioProxyMore
<1>15. ASSUME NEW p \in Proxies, ProxyAnswers(p) PROVE Audio(v', {})
    BY <1>a, <1>15, AudioProxyAnswer DEF ProxyAnswers
<1>16. ASSUME NEW p \in Proxies, ProxyUpdateRefused(p) PROVE Audio(v', {})
  <2>1. PICK kept \in [Proxies -> SUBSET Users] : v' = OnProxyUpdateRefused(v, kept)
    BY <1>16 DEF ProxyUpdateRefused
  <2>2. Fresher(v')
    BY <1>a, <2>1, StartFields
  <2> QED
    BY <2>2, AudioFresher
<1>17. ASSUME NEW p \in Proxies, NEW S \in Users, IceCompletes(p, S) PROVE Audio(v', {})
    BY <1>a, <1>17, AudioIceCompleted DEF IceCompletes
<1>18. ASSUME NEW p \in Proxies, NEW S \in Users, IceFails(p, S) PROVE Audio(v', {})
    BY <1>a, <1>18, AudioIceFailed DEF IceFails
<1>19. ASSUME NEW r \in Reqs, Timeout(r) PROVE Audio(v', {})
  <2>1. AsyncHas(v, r) /\ v' = AsyncTimedout(v, r)
    BY <1>19 DEF Timeout
  <2> QED
    BY <1>a, <2>1, AudioTimeout
<1>20. ASSUME NEW r \in Reqs, CallbackExpires(r) PROVE Audio(v', {})
    BY <1>20 DEF CallbackExpires
<1>21. CASE UNCHANGED vars
    BY <1>a, <1>21 DEF vars
<1>22. ASSUME NEW r \in Reqs, NEW c \in Clients,
              \/ LoginLdap(r, c) \/ Media(r, c) \/ \E l \in Loops : SwitchLoopVolume(r, c, l)
              \/ \E l \in Loops, want \in Wants : SwitchLoopState(r, c, l, want)
              \/ \E op \in Signals : Signal(op, r, c)
       PROVE  Audio(v', {})
    BY <1>22, AudioRequests
<1>23. CASE Next
    BY <1>1, <1>2, <1>3, <1>4, <1>5, <1>6, <1>7, <1>8, <1>9, <1>10, <1>11, <1>12, <1>13, <1>14,
       <1>15, <1>16, <1>17, <1>18, <1>19, <1>20, <1>22, <1>23 DEF Next
<1> QED
    BY <1>21, <1>23

(* A client gets the audio it was told it has: its mixer plays exactly the *)
(* loops its connection is in, its proxy speaks in exactly those it sends  *)
(* to, once nothing is outstanding (cb_backend_mixer_join,                 *)
(* cb_backend_mixer_leave, cb_frontend_talk of ov_vocs.c keep the loop     *)
(* states in step with answers of two processes, whichever requests fail,  *)
(* time out or are lost meanwhile).                                        *)
THEOREM AudioIsRight ==
    ASSUME ~RepeatMedia, ~Pipelining, ~Expiry
    PROVE  Spec => []AudioFollowsClient
<1>1. Init => AudioInv
  <2> SUFFICES ASSUME Init PROVE Audio(v, {})
    BY FullInit DEF AudioInv
  <2>1. Fresher(v)
    BY StartFields DEF Init
  <2> QED
    BY <2>1, AudioFresher
<1>2. ASSUME AudioInv, NEW c \in Clients, v.conn[c].mixer, HasMixer(v.be, v.conn[c].session)
      PROVE  /\ v.be.mix[GetUser(v.be, v.conn[c].session)].loops = {l \in Loops : v.conn[c].loops[l] # "none"}
             /\ v.fe.talk[v.conn[c].session] = {l \in Loops : v.conn[c].loops[l] = "send"}
  <2> DEFINE S == v.conn[c].session
             s == v.be.users[S]
  <2>1. Sess(v) /\ Slots(v, {}) /\ Audio(v, {}) /\ v \in VocsStates
    BY <1>2, FullFacts DEF Lease, AudioInv
  <2>2. v.conn[c] \in Conns /\ S # None /\ v.be \in BackendStates /\ NoSocket \notin Clients
    BY <1>2, <2>1, VocsTyping DEF Sess, MediaTold
  <2>3. S \in Users
    BY <2>2 DEF Conns
  <2>4. v.sess[S] = c
    BY <2>1, <2>3 DEF Sess, Bound
  <2>5. GetUser(v.be, S) = s /\ s \in Sockets /\ s # NoSlot
    BY <1>2, <2>2, <2>3, GetUserType
  <2>6. v.be.slot[s] = S
    BY <2>1, <2>2, <2>3, <2>4, <2>5 DEF Slots
  <2>7. AudioOf(v, S)
    BY <2>1, <2>2, <2>3, <2>4 DEF Audio
  <2>8. Heard(v, s, S) /\ Voiced(v, S)
    BY <2>5, <2>6, <2>7 DEF AudioOf
  <2> QED
    BY <1>2, <2>4, <2>5, <2>8 DEF Heard, Voiced, Played, Spoken
<1>3. AudioInv => AudioFollowsClient
    BY <1>2 DEF AudioFollowsClient
<1> QED
    BY <1>1, <1>3, AudioStep, PTL DEF Spec
=============================================================================
