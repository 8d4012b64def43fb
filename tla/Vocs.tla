-------------------------------- MODULE Vocs --------------------------------
(***************************************************************************)
(* The vocs core (ov_vocs.c with its client API): it binds a client's      *)
(* connection to a session at an ICE proxy (McFrontend) and to a mixer     *)
(* (McBackend).  All of it runs on one event loop, so a handler is one     *)
(* step; handlers are operators from the state x to the state after them   *)
(* and call each other as the functions do.  The fields of x are           *)
(*   up[c]     a client is connected at socket c                           *)
(*   conn[c]   the data stored for socket c (ov_socket_json)               *)
(*   sess[S]   the dictionary from session ids to sockets, 0: miss         *)
(*   async     requests waiting for an answer                              *)
(*   parts     <<loop, socket>> for every participant of a loop            *)
(*   ldap      login requests the LDAP threads work on                     *)
(*   be, fe    the backend with the mixers, the frontend with the proxies  *)
(*   owed      ghost: requests a connected client has no response to       *)
(*   ready[c]  ghost: media_ready messages sent to the client              *)
(***************************************************************************)
EXTENDS McBackend, FiniteSetsExt

CONSTANTS Clients,      \* file descriptors clients may be accepted at
          Proxies,      \* file descriptors proxies may be accepted at
          Permission    \* Permission[l]: what the role may do in loop l

LoopStates == {"none", "recv", "send"}

ASSUME ClientsAssumption == Clients \subseteq Nat \ {0}
ASSUME PermissionAssumption == Permission \in [Loops -> LoopStates]
\* The uuid of a release is fresh and used once: it is named by its session.
ASSUME ReleaseIdsAssumption == Users \subseteq Reqs
ASSUME ProxiesAssumption == Proxies \subseteq Nat \ {0}
ASSUME NoRequestAssumption == None \notin Reqs

FE == INSTANCE McFrontend WITH Sessions <- Users

NoSocket == 0

\* What ov_socket_json_get returns when nothing is stored.
NoData == [user |-> FALSE, role |-> FALSE, session |-> None, ice |-> FALSE, mixer |-> FALSE,
           loops |-> [l \in Loops |-> "none"]]

VocsInit ==
    [up |-> [c \in Clients |-> FALSE], conn |-> [c \in Clients |-> NoData],
     sess |-> [S \in Users |-> NoSocket], async |-> {}, parts |-> {}, ldap |-> {},
     be |-> BackendInit, fe |-> FE!FrontendInit,
     owed |-> {}, ready |-> [c \in Clients |-> 0]]

Conns == [user : BOOLEAN, role : BOOLEAN, session : Users \cup {None},
          ice : BOOLEAN, mixer : BOOLEAN, loops : [Loops -> LoopStates]]

Entries == [id : Reqs, sock : Clients, loop : Loops \cup {None}, want : LoopStates \cup {None}]

VocsStates ==
    [up : [Clients -> BOOLEAN], conn : [Clients -> Conns], sess : [Users -> Clients \cup {NoSocket}],
     async : SUBSET Entries, parts : SUBSET (Loops \X Clients), ldap : SUBSET Reqs,
     be : BackendStates, fe : FE!FrontendStates,
     owed : SUBSET (Reqs \X Clients), ready : [Clients -> Nat]]

SocketOf(x, S) == IF S = None THEN NoSocket ELSE x.sess[S]

\* ov_vocs_permission_granted
Granted(reference, check) ==
    CASE check = "none" -> TRUE
      [] check = "recv" -> reference # "none"
      [] check = "send" -> reference = "send"

(***************************************************************************)
(* The store of asynchronous requests (ov_event_async.c).                  *)
(***************************************************************************)

Entry(r, c, l, want) == [id |-> r, sock |-> c, loop |-> l, want |-> want]

AsyncSet(x, e) == [x EXCEPT !.async = @ \cup {e}]

AsyncHas(x, r) == \E e \in x.async : e.id = r

AsyncGet(x, r) == CHOOSE e \in x.async : e.id = r

AsyncUnset(x, r) == [x EXCEPT !.async = {e \in @ : e.id # r}]

AsyncDrop(x, c) == [x EXCEPT !.async = {e \in @ : e.sock # c}]

(***************************************************************************)
(* Responses and the end of a connection.                                  *)
(***************************************************************************)

Owe(x, r, c) == [x EXCEPT !.owed = @ \cup {<<r, c>>}]

Respond(x, r, c) == [x EXCEPT !.owed = @ \ {<<r, c>>}]

FrontendDrop(x, S) == [x EXCEPT !.fe = FE!DropSession(@, S)]

\* Without a mixer the released callback is called before release_mixer
\* returns: it drops the connection once more, at the frontend.
BackendRelease(x, S) ==
    LET again == IF HasMixer(x.be, S) \/ x.sess[S] = NoSocket THEN x ELSE FrontendDrop(x, S)
    IN [again EXCEPT !.be = ReleaseMixer(@, S, S)]

\* Mutant: the session stays in the dictionary.
DropSessionsKeepsEntry(x, S, frontend, backend) ==
    LET atProxy == IF frontend THEN FrontendDrop(x, S) ELSE x
    IN IF S = None THEN x ELSE IF backend THEN BackendRelease(atProxy, S) ELSE atProxy

\* Mutant: the mixer is not released.
DropSessionsKeepsMixer(x, S, frontend, backend) ==
    LET atProxy == IF frontend THEN FrontendDrop(x, S) ELSE x
    IN IF S = None THEN x ELSE [atProxy EXCEPT !.sess[S] = NoSocket]

DropSessions(x, S, frontend, backend) ==
    LET atProxy == IF frontend THEN FrontendDrop(x, S) ELSE x
        atMixer == IF backend THEN BackendRelease(atProxy, S) ELSE atProxy
    IN IF S = None THEN x ELSE [atMixer EXCEPT !.sess[S] = NoSocket]

\* Mutant: the loops are not searched for participation.
ForgetKeepsRoster(x, c) ==
    [x EXCEPT !.conn[c] = NoData, !.up[c] = FALSE,
              !.owed = {o \in @ : o[2] # c}, !.ready[c] = 0]

\* Participation, connection data and the socket itself.
Forget(x, c) ==
    [x EXCEPT !.parts = {q \in @ : q[2] # c}, !.conn[c] = NoData, !.up[c] = FALSE,
              !.owed = {o \in @ : o[2] # c}, !.ready[c] = 0]

\* drop_connection while the lock of the async store is held (by the timer):
\* ov_event_async_drop cannot take it and drops nothing.  Socket 0, a session
\* that is not in the dictionary, has no data and no client to lose.
DropLocked(x, c, frontend, backend) ==
    IF c = NoSocket THEN x ELSE Forget(DropSessions(x, x.conn[c].session, frontend, backend), c)

\* Mutant: requests of the socket stay in the async store.
DropConnectionKeepsRequests(x, c, frontend, backend) == DropLocked(x, c, frontend, backend)

DropConnection(x, c, frontend, backend) ==
    IF c = NoSocket THEN x ELSE AsyncDrop(DropLocked(x, c, frontend, backend), c)

\* A handler returned false: the web server closes the socket, cb_socket_close.
Close(x, c) == DropConnection(x, c, TRUE, TRUE)

\* The timer takes what is too old in the order of the dictionary.
AsyncTimedout(x, r) ==
    LET c == AsyncGet(x, r).sock IN
    DropLocked(Respond(AsyncUnset(x, r), r, c), c, TRUE, TRUE)

(***************************************************************************)
(* Requests of the client at socket c.                                     *)
(***************************************************************************)

Authenticated(x, c) == [x EXCEPT !.conn[c].user = TRUE]

ClientLogin(x, c, valid) ==
    IF x.conn[c].user \/ ~valid THEN Close(x, c) ELSE Authenticated(x, c)

ClientLoginLdap(x, r, c) ==
    IF x.conn[c].user THEN Close(x, c)
    ELSE AsyncSet(Owe([x EXCEPT !.ldap = @ \cup {r}], r, c), Entry(r, c, None, None))

LdapAuthentication(x, r, granted) ==
    LET y == [AsyncUnset(x, r) EXCEPT !.ldap = @ \ {r}]
        c == AsyncGet(x, r).sock
    IN IF ~AsyncHas(x, r) THEN y
       ELSE IF granted THEN Authenticated(Respond(y, r, c), c)
       ELSE Close(y, c)

ClientAuthorize(x, c, permitted) ==
    IF ~x.conn[c].user \/ x.conn[c].role \/ ~permitted THEN Close(x, c)
    ELSE [x EXCEPT !.conn[c].role = TRUE]

ClientLogout(x, c) == DropConnection(x, c, TRUE, TRUE)

ClientMedia(x, r, c) ==
    IF ~x.conn[c].user \/ ~FE!ProxyAvailable(x.fe) THEN Close(x, c)
    ELSE AsyncSet(Owe([x EXCEPT !.fe = FE!CreateSession(@, r)], r, c), Entry(r, c, None, None))

\* Whether something about the client's session can be sent to its proxy.
MaySignal(x, c) ==
    LET d == x.conn[c] IN d.user /\ d.session # None /\ FE!HasProxy(x.fe, d.session)

\* client_media with an offer or answer
ClientUpdate(x, r, c) ==
    IF ~MaySignal(x, c) THEN Close(x, c)
    ELSE AsyncSet(Owe([x EXCEPT !.fe = FE!UpdateSession(@, r, x.conn[c].session)], r, c),
                  Entry(r, c, None, None))

\* client_candidate, client_end_of_candidates
ClientCandidate(x, r, c) ==
    IF ~MaySignal(x, c) THEN Close(x, c)
    ELSE AsyncSet(Owe([x EXCEPT !.fe = FE!Candidate(@, r, x.conn[c].session)], r, c),
                  Entry(r, c, None, None))

\* Whether perform_switch_loop_request returns true.
CanPerform(x, S, current, want) ==
    IF current = "send" \/ (current = "recv" /\ want = "send") THEN FE!HasProxy(x.fe, S)
    ELSE HasMixer(x.be, S)

PerformSwitch(x, r, S, l, current, want) ==
    CASE current = "none"                   -> [x EXCEPT !.be = LoopRequest(@, "join", r, S, l)]
      [] current = "recv" /\ want = "none"  -> [x EXCEPT !.be = LoopRequest(@, "leave", r, S, l)]
      [] current = "recv" /\ want = "send"  -> [x EXCEPT !.fe = FE!Talk(@, r, S, TRUE, l)]
      [] current = "send"                   -> [x EXCEPT !.fe = FE!Talk(@, r, S, FALSE, l)]

\* Mutant: the permission is not checked.
MaySwitchAnybody(d, l, want) == d.user /\ d.role /\ d.session # None /\ d.ice /\ d.mixer

MaySwitch(d, l, want) ==
    d.user /\ d.role /\ d.session # None /\ d.ice /\ d.mixer /\ Granted(Permission[l], want)

ClientSwitchLoopState(x, r, c, l, want) ==
    LET d == x.conn[c]
        y == PerformSwitch(x, r, d.session, l, d.loops[l], want)
    IN IF ~MaySwitch(d, l, want) THEN Close(x, c)
       ELSE IF d.loops[l] = want THEN x
       ELSE IF ~CanPerform(x, d.session, d.loops[l], want) THEN Close(y, c)
       ELSE AsyncSet(Owe(y, r, c), Entry(r, c, l, want))

\* Neither permission nor media readiness is asked for.
ClientSwitchLoopVolume(x, r, c, l) ==
    LET d == x.conn[c]
        y == [x EXCEPT !.be = LoopRequest(@, "volume", r, d.session, l)]
    IN IF ~(d.user /\ d.role /\ d.session # None) THEN Close(x, c)
       ELSE IF ~HasMixer(x.be, d.session) THEN Close(y, c)
       ELSE AsyncSet(Owe(y, r, c), Entry(r, c, l, None))

(***************************************************************************)
(* Callbacks of the backend.                                               *)
(***************************************************************************)

\* Mutant: the loss of a mixer is only logged.
MixerLostIgnored(x, S) == x

MixerLost(x, S) == DropConnection(x, SocketOf(x, S), TRUE, FALSE)

\* The callback for the session that was in the slot, if there was one.
SlotLost(x, lost) == IF lost = {} THEN x ELSE MixerLost(x, CHOOSE u \in lost : TRUE)

\* media_ready is sent when the second of ICE and mixer is there.
Announce(x, c) ==
    IF x.conn[c].ice /\ x.conn[c].mixer THEN [x EXCEPT !.ready[c] = @ + 1] ELSE x

\* Mutant: the client of a failed acquisition is not disconnected.
MixerAcquiredIgnored(x, r, S, code) ==
    LET c == SocketOf(x, S)
        y == AsyncUnset(x, r)
    IN IF c = NoSocket THEN [x EXCEPT !.be = ReleaseMixer(@, S, S)]
       ELSE IF code # "ok" THEN y
       ELSE Announce([y EXCEPT !.conn[c].mixer = TRUE], c)

MixerAcquired(x, r, S, code) ==
    LET c == SocketOf(x, S)
        y == AsyncUnset(x, r)
    IN IF c = NoSocket THEN [x EXCEPT !.be = ReleaseMixer(@, S, S)]
       ELSE IF code # "ok" THEN DropConnection(y, c, TRUE, FALSE)
       ELSE Announce([y EXCEPT !.conn[c].mixer = TRUE], c)

MixerReleased(x, S) == DropConnection(x, SocketOf(x, S), TRUE, FALSE)

\* Whether ov_vocs_db_set_state and ov_vocs_loop_add_participant succeed.
KnownClient(x, c) == c # NoSocket /\ x.conn[c].user /\ x.conn[c].role

\* S is the session in the slot of the mixer that answers, None for none.
LeaveLoop(x, r, S, l) ==
    [x EXCEPT !.be = IF S = None THEN RegisterCallback(@, r) ELSE LoopRequest(@, "leave", r, S, l)]

\* Mutant: the wanted state is stored at once, talking is not switched on.
MixerJoinWithoutTalk(x, r, S, l, code) ==
    LET c == SocketOf(x, S)
        y == AsyncUnset(x, r)
        want == AsyncGet(x, r).want
        joined == [y EXCEPT !.conn[c].loops[l] = want, !.parts = @ \cup {<<l, c>>}]
    IN IF ~AsyncHas(x, r) THEN LeaveLoop(x, r, S, l)
       ELSE IF code # "ok" THEN Respond(y, r, c)
       ELSE IF ~KnownClient(x, c) THEN DropConnection(y, c, TRUE, TRUE)
       ELSE Respond(joined, r, c)

MixerJoin(x, r, S, l, code) ==
    LET c == SocketOf(x, S)
        y == AsyncUnset(x, r)
        want == AsyncGet(x, r).want
        joined == [y EXCEPT !.conn[c].loops[l] = "recv", !.parts = @ \cup {<<l, c>>}]
        talking == PerformSwitch(AsyncSet(joined, Entry(r, c, l, want)), r, S, l, "recv", want)
    IN IF ~AsyncHas(x, r) THEN LeaveLoop(x, r, S, l)
       ELSE IF code # "ok" THEN Respond(y, r, c)
       ELSE IF ~KnownClient(x, c) THEN DropConnection(y, c, TRUE, TRUE)
       ELSE IF want = "recv" THEN Respond(joined, r, c)
       ELSE IF CanPerform(joined, S, "recv", want) THEN talking
       ELSE DropConnection(talking, c, TRUE, TRUE)

\* Mutant: the stored state of the loop is deleted.
MixerLeaveDeletes(x, r, S, l) ==
    LET c == SocketOf(x, S)
        y == AsyncUnset(x, r)
    IN IF c = NoSocket THEN y
       ELSE IF ~AsyncHas(x, r) \/ ~KnownClient(x, c) THEN DropConnection(y, c, TRUE, TRUE)
       ELSE Respond([y EXCEPT !.conn[c].loops[l] = None, !.parts = @ \ {<<l, c>>}], r, c)

MixerLeave(x, r, S, l) ==
    LET c == SocketOf(x, S)
        y == AsyncUnset(x, r)
    IN IF c = NoSocket THEN y
       ELSE IF ~AsyncHas(x, r) \/ ~KnownClient(x, c) THEN DropConnection(y, c, TRUE, TRUE)
       ELSE Respond([y EXCEPT !.conn[c].loops[l] = "none", !.parts = @ \ {<<l, c>>}], r, c)

MixerVolume(x, r, S) ==
    LET c == SocketOf(x, S)
        y == AsyncUnset(x, r)
    IN IF c = NoSocket THEN y
       ELSE IF ~AsyncHas(x, r) THEN DropConnection(y, c, TRUE, TRUE)
       ELSE Respond(y, r, c)

\* The answer with this code at the head of the mixer's connection.
OnMixerAnswer(x, s, code) ==
    LET m == Head(x.be.wire[s])
        y == [x EXCEPT !.be = HandleAnswer(@, s, code)]
        lost == LostUser(AnswerRegistry(x.be, s, code), s)
        S == IF LostUser(x.be, s) = {} THEN None ELSE CHOOSE u \in LostUser(x.be, s) : TRUE
    IN IF ForcesReconnect(x.be, s) THEN SlotLost(y, lost)
       ELSE IF ~HasCallback(x.be, s) THEN y
       ELSE CASE m.op = "acquire" -> MixerAcquired(y, m.id, m.user, code)
              [] m.op = "release" -> MixerReleased(y, m.user)
              [] m.op = "join"    -> MixerJoin(y, m.id, S, m.loop, code)
              [] m.op = "leave"   -> MixerLeave(y, m.id, S, m.loop)
              [] m.op = "volume"  -> MixerVolume(y, m.id, S)

OnMixerClose(x, s) == SlotLost([x EXCEPT !.be = CloseMixer(@, s)], LostUser(x.be, s))

(***************************************************************************)
(* Callbacks of the frontend.                                              *)
(***************************************************************************)

SessionDropped(x, S) == DropConnection(x, SocketOf(x, S), FALSE, TRUE)

\* Mutant: a second completion is not recognised.
SessionCompletedAgain(x, S, success) ==
    LET c == SocketOf(x, S) IN
    IF ~success THEN DropConnection(x, c, FALSE, TRUE)
    ELSE IF c = NoSocket THEN x
    ELSE Announce([x EXCEPT !.conn[c].ice = TRUE], c)

SessionCompleted(x, S, success) ==
    LET c == SocketOf(x, S) IN
    IF ~success THEN DropConnection(x, c, FALSE, TRUE)
    ELSE IF c = NoSocket \/ x.conn[c].ice THEN x
    ELSE Announce([x EXCEPT !.conn[c].ice = TRUE], c)

\* Mutant: a session nobody waits for any more is left at the proxy.
SessionCreatedTooLate(x, r, S) ==
    LET c == AsyncGet(x, r).sock
        bound == [AsyncUnset(x, r) EXCEPT !.sess[S] = c, !.conn[c].session = S]
        y == IF MixerAvailable(x.be) THEN [bound EXCEPT !.be = AcquireMixer(@, r, S)]
             ELSE MixerAcquired(bound, r, S, "error")
    IN IF ~AsyncHas(x, r) THEN x
       ELSE IF y.up[c] THEN Respond(y, r, c)
       ELSE FrontendDrop(y, S)

\* Without a free mixer the acquired callback is called with an error first.
\* A response that cannot be sent drops the session at the proxy (again).
SessionCreated(x, r, S) ==
    LET c == AsyncGet(x, r).sock
        bound == [AsyncUnset(x, r) EXCEPT !.sess[S] = c, !.conn[c].session = S]
        y == IF MixerAvailable(x.be) THEN [bound EXCEPT !.be = AcquireMixer(@, r, S)]
             ELSE MixerAcquired(bound, r, S, "error")
    IN IF ~AsyncHas(x, r) THEN FrontendDrop(x, S)
       ELSE IF y.up[c] THEN Respond(y, r, c)
       ELSE FrontendDrop(y, S)

\* Mutant: the client is not told.
SessionRefusedSilently(x, r) == AsyncUnset(x, r)

SessionRefused(x, r) ==
    IF ~AsyncHas(x, r) THEN x ELSE Respond(AsyncUnset(x, r), r, AsyncGet(x, r).sock)

SessionUpdated(x, r) ==
    IF ~AsyncHas(x, r) THEN x ELSE Respond(AsyncUnset(x, r), r, AsyncGet(x, r).sock)

\* cb_frontend_candidate, cb_frontend_end_of_candidates: the response goes to
\* the socket of the session in the answer, to socket 0 if it has none.
CandidateAnswered(x, r, S, ok) ==
    LET c == IF ok THEN SocketOf(x, S) ELSE NoSocket
    IN Respond(AsyncUnset(x, r), r, c)

FrontendTalk(x, r, S, l, on, ok) ==
    LET e == AsyncGet(x, r)
        y == AsyncUnset(x, r)
        switched == [y EXCEPT !.conn[e.sock].loops[l] = IF on THEN "send" ELSE "recv"]
        leaving == LeaveLoop(AsyncSet(switched, e), r, S, l)
    IN IF ~AsyncHas(x, r) THEN x
       ELSE IF ~ok THEN Respond(y, r, e.sock)
       ELSE IF ~KnownClient(x, e.sock) THEN DropConnection(y, e.sock, TRUE, TRUE)
       ELSE IF e.want # "none" THEN Respond(switched, r, e.sock)
       ELSE IF HasMixer(x.be, S) THEN leaving
       ELSE DropConnection(leaving, e.sock, TRUE, TRUE)

\* The next answer of the proxy at p, other than to create, update and candidate.
OnProxyAnswer(x, p) ==
    LET m == FE!Said(x.fe, p) IN
    CASE m.op = "drop" /\ FE!DropFails(x.fe, p) ->
            SessionCompleted([x EXCEPT !.fe = FE!EndSession(@, p, m.session)], m.session, FALSE)
      [] m.op = "drop" /\ ~FE!DropFails(x.fe, p) ->
            SessionDropped([x EXCEPT !.fe = FE!SessionDropped(@, p)], m.session)
      [] m.op = "failed" ->
            SessionCompleted([x EXCEPT !.fe = FE!Consume(@, p)], m.session, FALSE)
      [] m.op \in {"talk on", "talk off"} ->
            FrontendTalk([x EXCEPT !.fe = FE!Talked(@, p)], m.id, m.session, m.loop,
                         m.op = "talk on", FE!TalkSucceeds(x.fe, p))

\* An update that has succeeded.
OnProxyUpdated(x, p) ==
    SessionUpdated([x EXCEPT !.fe = FE!Consume(@, p)], FE!Said(x.fe, p).id)

\* An update that has failed: the answer does not name the session and the
\* assertion of cb_event_ice_session_update_response ends the process, which
\* is started again.  Proxies keep those of their sessions that are in kept.
OnProxyUpdateRefused(x, kept) == [VocsInit EXCEPT !.fe.live = kept, !.fe.talk = x.fe.talk]

OnProxyCandidate(x, p, ok) ==
    LET m == FE!Said(x.fe, p)
    IN CandidateAnswered([x EXCEPT !.fe = FE!Consume(@, p)], m.id, m.session, ok)

OnProxyCreated(x, p, S) ==
    SessionCreated([x EXCEPT !.fe = FE!SessionCreated(@, p, S)], FE!Said(x.fe, p).id, S)

OnProxyRefused(x, p) ==
    SessionRefused([x EXCEPT !.fe = FE!Consume(@, p)], FE!Said(x.fe, p).id)

OnProxyLost(x, p, kept) ==
    FoldSet(LAMBDA S, z : SessionDropped(z, S),
            [x EXCEPT !.fe = FE!UnregisterProxy(@, p, kept)], x.fe.owned[p])

OnIceFailed(x, p, S) == SessionCompleted([x EXCEPT !.fe = FE!IceFailed(@, p, S)], S, FALSE)
=============================================================================
