----------------------------- MODULE VocsSystem -----------------------------
(***************************************************************************)
(* The vocs service with clients, mixers and ICE proxies.  A client may    *)
(* connect, close its connection and send any request at any time; what it *)
(* may not do is named by the constants.                                   *)
(***************************************************************************)
EXTENDS Vocs

CONSTANTS Ldap,         \* passwords are checked by LDAP, not locally
          Wants,        \* loop states clients ask for
          Volume,       \* clients set volumes
          Signals,      \* clients send what ICE needs: "update", "candidate"
          Pipelining,   \* a client sends requests before earlier ones are answered
          Unruly,       \* clients send requests that will be refused
          RepeatMedia,  \* a client asks for media again on the same connection
          Timeouts,     \* requests may time out in the async store
          Expiry,       \* callbacks of the backend may expire
          Connects,     \* bound: connections accepted
          Crashes,      \* bound: mixers lost
          Losses,       \* bound: proxy connections lost
          IceFailures   \* bound: sessions whose ICE fails

ASSUME SwitchesAssumption ==
    /\ {Ldap, Volume, Pipelining, Unruly, RepeatMedia, Timeouts, Expiry} \subseteq BOOLEAN
    /\ Wants \subseteq LoopStates /\ Signals \subseteq {"update", "candidate"}
    /\ {Connects, Crashes, Losses, IceFailures} \subseteq Nat

VARIABLES v,            \* the service (Vocs)
          issued,       \* request uuids used so far
          made,         \* session ids the proxies have made so far
          spent,        \* what is used up of the bounds
          stranded      \* ghost: sessions a proxy kept over a lost connection

vars == <<v, issued, made, spent, stranded>>

ClientReqs == Reqs \ Users

Init ==
    /\ v = VocsInit
    /\ issued = {} /\ made = {} /\ stranded = {}
    /\ spent = [connects |-> 0, crashes |-> 0, losses |-> 0, failures |-> 0]

-----------------------------------------------------------------------------
(* Clients.                                                                *)

Connect(c) ==
    /\ ~v.up[c] /\ spent.connects < Connects
    /\ v' = [v EXCEPT !.up[c] = TRUE]
    /\ spent' = [spent EXCEPT !.connects = @ + 1]
    /\ UNCHANGED <<issued, made, stranded>>

Disconnect(c) ==
    /\ v.up[c]
    /\ v' = Close(v, c)
    /\ UNCHANGED <<issued, made, spent, stranded>>

MaySend(c) == v.up[c] /\ (Pipelining \/ \A o \in v.owed : o[2] # c)

\* A request that is answered by its handler: no uuid is remembered.
Send(c, after) ==
    /\ MaySend(c)
    /\ v' = after
    /\ UNCHANGED <<issued, made, spent, stranded>>

Request(r, c, after) ==
    /\ MaySend(c) /\ r \in ClientReqs \ issued
    /\ v' = after
    /\ issued' = issued \cup {r}
    /\ UNCHANGED <<made, spent, stranded>>

Login(c) ==
    /\ ~Ldap
    /\ Unruly \/ ~v.conn[c].user
    /\ \E valid \in BOOLEAN : Send(c, ClientLogin(v, c, valid))

LoginLdap(r, c) ==
    /\ Ldap
    /\ Unruly \/ ~v.conn[c].user
    /\ Request(r, c, ClientLoginLdap(v, r, c))

LdapAnswers(r) ==
    /\ r \in v.ldap
    /\ \E granted \in BOOLEAN : v' = LdapAuthentication(v, r, granted)
    /\ UNCHANGED <<issued, made, spent, stranded>>

Authorize(c) ==
    /\ Unruly \/ (v.conn[c].user /\ ~v.conn[c].role)
    /\ \E permitted \in BOOLEAN : Send(c, ClientAuthorize(v, c, permitted))

Logout(c) == Send(c, ClientLogout(v, c))

\* A media request of c is not answered yet or has been granted.
MediaAsked(c) ==
    \/ v.conn[c].session # None
    \/ \E e \in v.async : e.sock = c /\ e.loop = None /\ e.id \notin v.ldap

Media(r, c) ==
    /\ Unruly \/ v.conn[c].user
    /\ RepeatMedia \/ ~MediaAsked(c)
    /\ Request(r, c, ClientMedia(v, r, c))

SwitchLoopState(r, c, l, want) ==
    /\ Unruly \/ MaySwitch(v.conn[c], l, want)
    /\ Request(r, c, ClientSwitchLoopState(v, r, c, l, want))

SwitchLoopVolume(r, c, l) ==
    /\ Volume
    /\ Unruly \/ v.conn[c].session # None
    /\ Request(r, c, ClientSwitchLoopVolume(v, r, c, l))

Signal(op, r, c) ==
    /\ Unruly \/ v.conn[c].session # None
    /\ Request(r, c, IF op = "update" THEN ClientUpdate(v, r, c) ELSE ClientCandidate(v, r, c))

-----------------------------------------------------------------------------
(* Mixers, proxies and the timer.                                          *)

MixerConnect(s) ==
    /\ v.be.slot[s] = Closed
    /\ v' = [v EXCEPT !.be = CbEventRegister(@, s)]
    /\ UNCHANGED <<issued, made, spent, stranded>>

MixerClose(s) ==
    /\ v.be.slot[s] # Closed /\ spent.crashes < Crashes
    /\ v' = OnMixerClose(v, s)
    /\ spent' = [spent EXCEPT !.crashes = @ + 1]
    /\ UNCHANGED <<issued, made, stranded>>

MixerAnswers(s) ==
    /\ v.be.wire[s] # <<>>
    /\ \E code \in MixerCodes(v.be.mix[s], Head(v.be.wire[s])) : v' = OnMixerAnswer(v, s, code)
    /\ UNCHANGED <<issued, made, spent, stranded>>

ProxyConnect(p) ==
    /\ ~v.fe.open[p]
    /\ v' = [v EXCEPT !.fe = FE!RegisterProxy(@, p)]
    /\ UNCHANGED <<issued, made, spent, stranded>>

ProxyLost(p) ==
    /\ v.fe.open[p] /\ spent.losses < Losses
    /\ \E kept \in SUBSET v.fe.live[p] :
          v' = OnProxyLost(v, p, kept) /\ stranded' = stranded \cup kept
    /\ spent' = [spent EXCEPT !.losses = @ + 1]
    /\ UNCHANGED <<issued, made>>

ProxyCreates(p, S) ==
    /\ v.fe.wire[p] # <<>> /\ FE!Said(v.fe, p).op = "create" /\ S \notin made
    /\ v' = OnProxyCreated(v, p, S)
    /\ made' = made \cup {S}
    /\ UNCHANGED <<issued, spent, stranded>>

ProxyRefuses(p) ==
    /\ v.fe.wire[p] # <<>> /\ FE!Said(v.fe, p).op = "create"
    /\ v' = OnProxyRefused(v, p)
    /\ UNCHANGED <<issued, made, spent, stranded>>

ProxyAnswers(p) ==
    /\ v.fe.wire[p] # <<>> /\ FE!Said(v.fe, p).op \notin {"create", "update", "candidate"}
    /\ v' = OnProxyAnswer(v, p)
    /\ UNCHANGED <<issued, made, spent, stranded>>

ProxySays(p, op) == v.fe.wire[p] # <<>> /\ FE!Said(v.fe, p).op = op

ProxyUpdates(p) ==
    /\ ProxySays(p, "update") /\ TRUE \in FE!SignalResults(v.fe, p)
    /\ v' = OnProxyUpdated(v, p)
    /\ UNCHANGED <<issued, made, spent, stranded>>

ProxyUpdateRefused(p) ==
    /\ ProxySays(p, "update") /\ FALSE \in FE!SignalResults(v.fe, p)
    /\ \E kept \in [Proxies -> SUBSET Users] :
        /\ \A q \in Proxies : kept[q] \subseteq v.fe.live[q]
        /\ v' = OnProxyUpdateRefused(v, kept)
        /\ stranded' = stranded \cup UNION {kept[q] : q \in Proxies}
    /\ UNCHANGED <<issued, made, spent>>

ProxyCandidate(p) ==
    /\ ProxySays(p, "candidate")
    /\ \E ok \in FE!SignalResults(v.fe, p) : v' = OnProxyCandidate(v, p, ok)
    /\ UNCHANGED <<issued, made, spent, stranded>>

IceCompletes(p, S) ==
    /\ v.fe.open[p] /\ S \in v.fe.live[p]
    /\ v' = SessionCompleted(v, S, TRUE)
    /\ UNCHANGED <<issued, made, spent, stranded>>

IceFails(p, S) ==
    /\ v.fe.open[p] /\ S \in v.fe.live[p] /\ spent.failures < IceFailures
    /\ v' = OnIceFailed(v, p, S)
    /\ spent' = [spent EXCEPT !.failures = @ + 1]
    /\ UNCHANGED <<issued, made, stranded>>

Timeout(r) ==
    /\ Timeouts /\ AsyncHas(v, r)
    /\ v' = AsyncTimedout(v, r)
    /\ UNCHANGED <<issued, made, spent, stranded>>

\* cb_check_timeout of the backend's callbacks: nobody is told.
CallbackExpires(r) ==
    /\ Expiry /\ r \in v.be.cbs
    /\ v' = [v EXCEPT !.be = UnregisterCallback(@, r)]
    /\ UNCHANGED <<issued, made, spent, stranded>>

Next ==
    \/ \E c \in Clients : Connect(c)
    \/ \E c \in Clients : Disconnect(c)
    \/ \E c \in Clients : Login(c)
    \/ \E c \in Clients, r \in Reqs : LoginLdap(r, c)
    \/ \E r \in Reqs : LdapAnswers(r)
    \/ \E c \in Clients : Authorize(c)
    \/ \E c \in Clients : Logout(c)
    \/ \E c \in Clients, r \in Reqs : Media(r, c)
    \/ \E c \in Clients, r \in Reqs, l \in Loops, want \in Wants : SwitchLoopState(r, c, l, want)
    \/ \E c \in Clients, r \in Reqs, l \in Loops : SwitchLoopVolume(r, c, l)
    \/ \E c \in Clients, r \in Reqs, op \in Signals : Signal(op, r, c)
    \/ \E s \in Sockets : MixerConnect(s)
    \/ \E s \in Sockets : MixerClose(s)
    \/ \E s \in Sockets : MixerAnswers(s)
    \/ \E p \in Proxies : ProxyConnect(p)
    \/ \E p \in Proxies : ProxyLost(p)
    \/ \E p \in Proxies, S \in Users : ProxyCreates(p, S)
    \/ \E p \in Proxies : ProxyRefuses(p)
    \/ \E p \in Proxies : ProxyAnswers(p)
    \/ \E p \in Proxies : ProxyUpdates(p)
    \/ \E p \in Proxies : ProxyUpdateRefused(p)
    \/ \E p \in Proxies : ProxyCandidate(p)
    \/ \E p \in Proxies, S \in Users : IceCompletes(p, S)
    \/ \E p \in Proxies, S \in Users : IceFails(p, S)
    \/ \E r \in Reqs : Timeout(r)
    \/ \E r \in Reqs : CallbackExpires(r)

CreateAnswered(p) == ProxyRefuses(p) \/ \E S \in Users : ProxyCreates(p, S)

SignalAnswered(p) == ProxyUpdates(p) \/ ProxyUpdateRefused(p) \/ ProxyCandidate(p)

\* Mixers, proxies and LDAP answer, the timers run.  Nothing is assumed of
\* clients or of ICE.
Fairness ==
    /\ \A s \in Sockets : WF_vars(MixerAnswers(s))
    /\ \A p \in Proxies : WF_vars(ProxyAnswers(p)) /\ WF_vars(SignalAnswered(p))
                         /\ WF_vars(CreateAnswered(p))
    /\ \A r \in Reqs : WF_vars(LdapAnswers(r)) /\ WF_vars(Timeout(r))

Spec == Init /\ [][Next]_vars
FairSpec == Spec /\ Fairness

-----------------------------------------------------------------------------
(* Every field of the service's state keeps the type the C structs give    *)
(* it.                                                                     *)
TypeOK ==
    /\ v \in VocsStates
    /\ issued \subseteq ClientReqs /\ made \subseteq Users /\ stranded \subseteq Users

(* The dictionary of sessions and the connections' data describe the same  *)
(* pairs: a session belongs to one open connection and leads back to it.   *)
SessionsAgree ==
    \A S \in Users, c \in Clients :
        (v.sess[S] = c) <=> (v.conn[c].session = S)

\* The open connection at c has session S.
Holds(c, S) == v.up[c] /\ v.conn[c].session = S

(* No mixer is reserved for a session without a connection, whatever order *)
(* of close, timeout, ICE failure and mixer or proxy answers ended it.     *)
MixersAccounted ==
    \A s \in Sockets, S \in Users : v.be.slot[s] = S => \E c \in Clients : Holds(c, S)

(* A client that was told its mixer is there has one.                      *)
ReadyHasMixer ==
    \A c \in Clients : v.conn[c].mixer => \E s \in Sockets : v.be.slot[s] = v.conn[c].session

(* The roster of a loop is who takes part in it: its participants are the  *)
(* connections whose stored loop state is not "none".                      *)
RosterAgrees ==
    \A l \in Loops, c \in Clients : (<<l, c>> \in v.parts) <=> (v.conn[c].loops[l] # "none")

(* media_ready is sent once, when and only when ICE and mixer are ready,   *)
(* in whichever order they become so.                                      *)
MediaReadyOnce ==
    \A c \in Clients : v.ready[c] = IF v.conn[c].ice /\ v.conn[c].mixer THEN 1 ELSE 0

(* Nobody waits unwatched: a request that a client has no response to is   *)
(* in the async store, whose timer ends the wait if no answer comes.       *)
WaitingIsWatched ==
    \A o \in v.owed : \E e \in v.async : e.id = o[1] /\ e.sock = o[2]

(* Only open connections have requests in the async store: the comment in  *)
(* ov_event_async.h:148 says that drop removes all events of the socket.   *)
AsyncOfOpenConnections == \A e \in v.async : v.up[e.sock]

(* Nobody hears or speaks without permission: mixers join only loops that  *)
(* may be heard and proxies forward only to loops that may be spoken in.   *)
AudioPermitted ==
    /\ \A s \in Sockets : \A l \in v.be.mix[s].loops : Permission[l] # "none"
    /\ \A S \in Users : \A l \in v.fe.talk[S] : Permission[l] = "send"

DropPending(S) == \E p \in Proxies : \E i \in DOMAIN v.fe.wire[p] :
    v.fe.wire[p][i].op = "drop" /\ v.fe.wire[p][i].session = S

(* No session outlives its client's connection at an open proxy: it is     *)
(* being dropped there, unless the proxy kept it over a lost connection.   *)
ProxySessionsAccounted ==
    \A p \in Proxies : \A S \in v.fe.live[p] :
        v.fe.open[p] => (\E c \in Clients : Holds(c, S)) \/ DropPending(S) \/ S \in stranded

\* No answer of the mixer or the proxy of session S is outstanding.
Drained(S) ==
    /\ HasMixer(v.be, S) => v.be.wire[GetUser(v.be, S)] = <<>>
    /\ FE!HasProxy(v.fe, S) => v.fe.wire[v.fe.home[S]] = <<>>

(* What the client is told is what it gets: once nothing is outstanding,   *)
(* its mixer plays exactly the loops it takes part in and its proxy speaks *)
(* in exactly the loops it sends to.                                       *)
AudioFollowsClient ==
    \A c \in Clients : LET d == v.conn[c] IN
        (d.mixer /\ HasMixer(v.be, d.session) /\ Drained(d.session)) =>
            /\ v.be.mix[GetUser(v.be, d.session)].loops = {l \in Loops : d.loops[l] # "none"}
            /\ v.fe.talk[d.session] = {l \in Loops : d.loops[l] = "send"}

(* No client waits forever: a request is answered or the connection it was *)
(* made on is closed, over lost mixers and proxies and failing ICE.        *)
RequestsSettle ==
    \A r \in ClientReqs, c \in Clients : (<<r, c>> \in v.owed) ~> (<<r, c>> \notin v.owed)

(* A client with a session gets its mixer or is disconnected: the async    *)
(* timer does not watch the acquisition.                                   *)
MixerSettles ==
    \A c \in Clients, S \in Users :
        (v.conn[c].session = S) ~> (v.conn[c].session # S \/ v.conn[c].mixer)
=============================================================================
