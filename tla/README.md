# openvocs: TLA+ models, checks and proofs

openvocs is a voice conferencing service. Its control centre is the *vocs*
process (`src/src/lib/ov_vocs/src/ov_vocs.c`): clients connect to it over web
sockets, it obtains for each of them a WebRTC session from an *ICE proxy*
process and a *mixer* process from a pool, and it switches voice loops on and
off for the client by sending requests to both. This project models that
control plane: who holds which mixer and which session, who takes part in which
loop, and what becomes of all of it when clients, mixers, proxies and timers act
in orders nobody wrote a test for. Around it are modelled the worker threads that
check passwords, the database of users, roles and loops, and the control of the
recorders.

Paths below are relative to `src/src/lib/`.

## 1. Inventory

| component | state | operations | what makes it correct |
|---|---|---|---|
| mixer registry (`ov_vocs/src/ov_mc_backend_registry.c`) | slots indexed by socket, dictionary session -> slot | register, unregister, acquire, get, release | slots and dictionary agree, no slot leaks |
| backend (`ov_mc_backend.c`, `ov_core/src/ov_callback.c`) | registry, callbacks by request uuid with a timeout | acquire, release, forward, join, leave, volume, state; one response handler each; register, close | a session has at most one mixer, never shares it, is told when it has or loses it |
| mixer process (`ov_mc_mixer_app.c`, `ov_mc_mixer_core.c`) | name, loops, volumes, streams | handlers of the backend's requests | no audio of an earlier session after a hand-over |
| frontend and registry (`ov_mc_frontend.c`, `ov_mc_frontend_registry.c`) | proxies with their load and sessions, dictionary session -> proxy | create, drop, talk, update, candidates; events of the proxy | load counts sessions, no session leaks in a proxy |
| ICE proxy (`ov_ice_proxy/src/ov_ice_proxy_vocs*.c`) | sessions, loops each one speaks in | handlers of the frontend's requests, ICE events | sessions end when they are dropped |
| vocs core (`ov_vocs.c`, `ov_vocs_loop.c`, `ov_core/src/ov_socket_json.c`) | data per connection, dictionary session -> socket, loops with participants | callbacks of backend and frontend, `drop_connection` | both dictionaries agree, everything is released exactly when the client goes |
| client API (`ov_vocs_api_client.inc`, `ov_vocs_api_auth.inc`) | - | login, logout, authorize, media, switch_loop_state, switch_loop_volume, ... | permission, media_ready, every request answered |
| async store (`ov_core/src/ov_event_async.c`) | pending requests by uuid, a lock, a timer | set, unset, drop, timeout | no pending request of a closed connection |
| worker threads (`ov_base/src/thread/*.c`, `ov_ringbuffer.c`) | two ring buffers with a lock each, a socket pair, workers | send, take, wait, answer, stop, restart | a message has one owner, no wake-up is lost, stopping ends |
| LDAP logins (`ov_ldap/src/ov_ldap.c`) | callbacks by uuid | authenticate, answer, reconfigure | every answer finds its callback, every login is answered |
| database (`ov_vocs_db/src/ov_vocs_db.c`, `ov_vocs_db_app.c`) | JSON tree, an index of pointers into it | create, delete, update, new admins, load | the index finds everything and nothing that is freed, ids are unique |
| its files (`ov_vocs_db_persistance.c`) | a directory per domain | save, load | a crash mixes no versions, what is loaded is a snapshot |
| recorder control (`ov_vocs_recorder.c`, `ov_vocs_record.c`) | recorders by socket, a record per loop, callbacks, a startup timer | register, start, stop, answers, loss of a recorder | one loop per recorder, no recorder lost, what is shown is recorded |
| user sessions, SIP backend, VAD, admin API of the service | see `PROJECT.json` | | not modelled |
| event loop and web server, containers, ICE/STUN/DTLS, codecs and mixing, HTML clients | | | not modelled (section 8) |

**Interaction.** All of the vocs process but the LDAP workers runs on one event
loop: a handler is never interrupted, so it is one step. Concurrency comes from the
other processes, and in `ThreadLoop` from the workers. A request to a mixer or proxy carries a uuid; its answer comes back as
a message, is matched by that uuid against the callback registry (backend) or the
async store (core), and calls back into the core. Callbacks are also called
*synchronously*, from inside the call that asked for them, when there is no free
mixer (`ov_mc_backend_acquire_mixer`) or no mixer to release
(`ov_mc_backend_release_mixer`). Losing a process calls back for each session it
served.

**What is hard.** Hand-over of a mixer before it has confirmed its release;
answers later than their timeout; the loss of mixer, proxy and client in any
order, each of which releases at the others, which report back again; switching a
loop, which needs a step at two processes; file descriptors that are reused;
media readiness, which needs two events in either order; pointers into trees that
are replaced; locks given up after a timeout; callbacks that have expired or were
never there. `PROJECT.json` lists each hazard at its line.

## 2. Modules

| module | models |
|---|---|
| `McRegistry` | the mixer registry, as operators on a record |
| `McBackend` | backend, callback registry and mixer processes, as operators on a record |
| `MixerLease` | abstract: what the backend promises about mixers |
| `McBackendSystem` | the backend as a state machine, with mixers, timer and a caller; its properties |
| `McBackendProofs` | theorems about `McBackendSystem`: registry, ownership, refinement of `MixerLease`, hand-over of mixers |
| `McFrontend` | frontend, its registry and the proxies, as operators on a record |
| `McFrontendSystem` | the frontend as a state machine, with proxies, ICE and a caller |
| `McFrontendProofs` | theorems about `McFrontendSystem` |
| `Vocs` | the core and its client API, composed from `McBackend` and `McFrontend` |
| `VocsSystem` | the whole service with clients, mixers, proxies, LDAP and timers |
| `VocsProofs` | theorems about `VocsSystem`: types, permissions, what is under way, sessions and media readiness |
| `VocsServiceProofs` | theorems about `VocsSystem`: mixers, proxy sessions, rosters, the store of requests |
| `VocsAudioProofs` | theorems about `VocsSystem`: what clients hear and where they are heard |
| `ThreadLoop` | worker threads, queues and locks, one step from lock to lock |
| `LdapAuth` | LDAP logins on top of `ThreadLoop`; its properties |
| `LdapAuthProofs` | theorems about `LdapAuth`, threads included |
| `VocsDb` | tree and index of the database, as operators on a record |
| `VocsDbSystem` | the database under its requests, with saving, crashing and loading |
| `VocsDbProofs` | theorems about `VocsDbSystem` |
| `Recorder` | recorder control with recorder processes and administrators |
| `RecorderProofs` | theorems about `Recorder` |
| `MCBackend`, `MCFrontend`, `MCVocs`, `MCThreads`, `MCDb`, `MCRecorder` | model values and symmetry for TLC |

A handler of the code is an operator from the state before it to the state after
it, and handlers that call each other are operators applied to each other; thus
`DropConnection` in `Vocs` is `drop_connection` with everything it calls, and the
synchronous callbacks are part of the step. The state machines turn operators into
actions.

*A connection to a mixer or proxy* is TCP and the process answers its requests one
after the other, so requests under way, requests being worked on and answers on
the way back are one FIFO, `wire[s]`. The process executes a request in the step
in which its answer is handled: until then nobody can see whether it has. Events a
proxy sends on its own (ICE completed, ICE failed) need no request; a failed
session is reported twice, and the second report is queued before the next answer.

*Signalling.* Media offers and answers (`"update"`) and candidates change nothing in
frontend or core but the async store; `McFrontendSystem` leaves them out, `VocsSystem`
has them. An answer of the proxy that says no does not name the session. For a
candidate this sends the response to socket 0; for an update it fails an assertion,
and since the makefiles define `DEBUG` the process ends: `ProxyUpdateRefused` is its
restart, with everything lost but what the proxies keep.

*Threads.* A step of a thread is what it does between two lock operations, or up to
the write into the socket pair; a condition wait releases the lock and takes it
again. Locks are timed: any wait may end without the lock. A full ring buffer
overwrites its oldest element.

*Database.* A node of the tree is its path, so a node replaced by one of the same
path is the same node: freeing turns the entries of the index that pointed to it
into `Freed` first, and an entry that is not renewed stays so. A save takes a copy of
the tree, removes the old files one by one, directory after directory
(`auth_prepare_dir`, `ov_dir_tree_remove`), and writes the new ones one by one; the
process may crash between any two of these steps. A load stops at the first directory
that has no file, and what it has read by then depends on the directory's order
(`Loadable`). Two history variables say what the files are of (`version`) and what
could be loaded before the save changed anything (`before`).

*Recorders.* A message carries `cb`, whether its callback is still there, and
`known`, whether the server knows the id of the recording. Handlers call callbacks
without a look, so a missing one ends the process (`Die`): this is the case for every
recording started by an administrator or by the startup timer or moved to another
recorder. The name of a loop that is moved is read from freed memory: it is the name
or `None`.

*The store of requests* (`async`) is a set of entries, one for each uuid. Its timer
goes through a dictionary, in an order that has nothing to do with the age of the
entries: `Timeout(r)` may take any of them next. It calls `drop_connection` with the
store locked, so that, unlike everywhere else, the other requests of the connection
stay (`DropLocked`, `AsyncTimedout`). A lost or reconnecting mixer is reported to the
core for the session in its slot, if there is one (`SlotLost`).

*Dictionary misses* are the value 0, as in the code, where a missing session leads
to socket 0 and a missing user to slot 0.

Nothing is ever stored for socket 0 (`ov_socket_json_set` refuses it), so dropping
connection 0 changes nothing in the model.

*Names.* Session ids are uuids made by a proxy and never reused; request uuids,
which clients choose, are taken to be unique. The uuid of the release sent by `drop_connection` is fresh in the code
and is named by its session in `Vocs`, which releases a session at most once while
it has a mixer.

**Ghosts.** `told` and `joins` in `McBackendSystem`, `stranded` in both frontends'
systems, `owed` and `ready` in `Vocs` record history for the properties and guard
nothing, except that `owed` defines when a client without `Pipelining` may send
(it has its response).

**Caller of the backend and of the frontend.** Taken alone they are driven by a
caller that does what the core does: it asks once per session id, uses only what
it was told it has, and forgets a session it has released or lost. `VocsSystem`
has the real core in its place.

**Mutants.** Operators commented `Mutant:` are variants with a plausible bug.
Nothing uses them; substituted for the definition that follows them they make the
named property fail, which shows that the property can.

## 3. Runs

| run | instance | states | checks |
|---|---|---|---|
| `backend` | 2 mixers, 3 sessions, 4 requests, expiry, 1 crash | 82 536 | types, `SlotsIndexed`, `NoMixerLeak`, `HeldHasMixer`, `MixerFollowsRegistry`, `NoForeignLoops`, refinement of `MixerLease` |
| `backend_names` | 1 mixer, 3 sessions, 4 requests | violation | `CallbackNamesRequester` |
| `frontend` | 2 proxies, 2 sessions, 3 requests, 2 losses | 128 888 | types, `LoadCountsSessions`, `KnownIsServed`, `NoOrphanSessions`, `OwnedAtHome`, `DropEnds` |
| `vocs` | 2 clients, 1 mixer, 1 proxy, 1 loop, 4 requests, timeouts, volume, media answers; 1 crash, 1 lost proxy, 1 ICE failure | 447 748 | ten invariants of the whole service |
| `vocs_pipelined` | 2 clients, 2 loops (one only to be heard), LDAP, expiring callbacks, signalling, clients that do not wait and send what will be refused | 130 356 | `MixersAccounted`, `AudioPermitted` |
| `vocs_live` | 2 clients, 1 mixer, 2 requests, timeouts, 1 crash, 1 lost proxy, 1 ICE failure | 90 292 | `RequestsSettle`, `MixerSettles` |
| `vocs_async` | 2 clients, timeouts, clients that do not wait | violation | `AsyncOfOpenConnections` |
| `threads` | 2 workers, 3 logins, queues of 2, 1 lock not had, 1 reconfiguration | 129 030 | types, `OneOwner`, `AnswersAnnounced`, `LocksUnusedWhenCleared`, `AnswerFindsCallback`, `LoginsAnswered`, `StopEnds` |
| `db` | 2 domains, 1 project, 1 user, the role admin, files | 1 004 267 | `NoDanglingEntry`, `TreeIndexed`, `OneVersion` |
| `db_crash` | the same | violation | `SnapshotRestored` |
| `db_unique` | the same without files, foreign ids | violation | `IdsUnique` |
| `recorder` | 3 recorders, 2 loops, 2 requests per recorder | 95 385 | `OfferedIsIdle`, `BlockedIsNamed`, `RunningIsRecorded` |

**Bounds.** One mixer for two sessions, or two for three, is the smallest pool that
is exhausted and handed over; two mixers also show the choice of the first free slot
and stale dictionary entries. Four requests allow acquire, join, release and
acquire by the next session with one more request under way, or media, a switch to
send and back by one client while another waits. Two clients suffice for fights
over a mixer; each client socket can be reused as `Connects` allows; in `vocs_live`
two requests are enough for both clients to want the mixer, or for one to go from
media to speaking. `Crashes`,
`Losses` and `IceFailures` bound faults, `Reqs` and `Users` bound requests and
sessions. Three messages overflow a queue of two; two workers compete for locks and
messages. Two domains with one project id between them show ids that are found in the
wrong place; one user and the role admin stand for all leaves, loops and other roles
being handled by the same functions. Three recorders leave one to fail over to when
two are taken; `Queue` bounds requests under way. Runs do not check for deadlock: once the request uuids are used up a
bounded instance stops, and an idle service rightly does nothing. Request uuids,
sessions and (in the backend) users are symmetric, and so are the domains of the
database and recorders and loops; runs with a liveness property use no symmetry.

**Switches of `VocsSystem`** separate workloads, because some properties hold only
for some of them; this is part of the result:

* with `Pipelining` (a client sends before its response is there) `RosterAgrees`
  and `AudioFollowsClient` fail: a client switches to send and, before the proxy
  has answered, to none; the answer to talk comes after the loop was left, and the
  client is stored as sending in a loop whose roster does not have it;
* with `Pipelining` and `Timeouts` also `AsyncOfOpenConnections` (run `vocs_async`)
  and, as a consequence, `MixersAccounted` fail: a media request that survives its
  connection binds a session to a closed socket;
* with `Expiry` (callbacks of the backend time out before the answer)
  `AudioFollowsClient` fails for clients that wait, too: a leave executed by the
  mixer is not recorded by the core;
* with `RepeatMedia` (a second media request on one connection) `SessionsAgree`,
  `ReadyHasMixer` and `MixersAccounted` fail: the second session replaces the
  first, whose mixer stays reserved;
* with `"candidate"` in `Signals` `WaitingIsWatched` fails: the comment at
  `ov_vocs.c:1847` has error answers ignored only for requests that have timed out, but
  the response to one that has not goes to the socket of the session in the answer
  (line 1797), and error answers name none (`ov_ice_proxy_vocs_app.c:427`). It goes to
  socket 0, and the request has left the store, so no timer ends the wait.

Likewise for the other systems:

* `VocsDbSystem`: with `RepeatAdmin` (a role admin is created where there is one)
  `NoDanglingEntry` fails, the old role being freed while the index still has it;
  with `ForeignIds` (the projects of a domain are replaced by ones whose ids are used
  elsewhere) `IdsUnique` fails and, after a delete, `NoDanglingEntry`;
* `Recorder`: with `Retry` (a loop that has a recorder is started again)
  `BlockedIsNamed` fails; with `Pipelining` (a loop is stopped while its start is
  under way) all three properties fail; with `EarlyStart` (a loop is started before
  the startup timer has run) `BlockedIsNamed` fails, the timer giving the loop a second
  recorder; with `Reregister` `OfferedIsIdle` and `RunningIsRecorded` fail.

**Findings.** `backend_names`: the tests expect the callback of a loop request to
name the session that asked (`ov_mc_backend_test.c:741`), and the core acts on the
session it is given (`ov_vocs.c:975`, `:1089`); the code names the session in the slot. `vocs_async`: `ov_event_async.h:148` promises to drop all
events of a socket; called from the store's own timer it drops none.
`db_unique`: `ov_vocs_db.h:34` promises unique ids; replacing the projects of a domain
does not look at them. `db_crash`: `README_VOCSDB.md:58` has the database stored as
snapshots; a save removes the old snapshot file by file before it writes the new one, and
a crash in between leaves parts of the old one, deleted nodes among them, that a load
takes for the whole. What does hold is `OneVersion`: nodes of the old and of the new copy
are never loaded together.

## 4. Fairness

`vocs_live`: mixers, proxies and LDAP answer (weak fairness of each) and the timer of
the async store runs (it is re-armed by `invalidate_run` on every path) and takes all
that is too old, so each entry that stays is taken (weak fairness for each request). Mixer and
proxy are loops that handle one message after the other; one that hangs is a crash. A
create request is answered, by a session or an error (`CreateAnswered`). Nothing is
assumed of clients, of ICE or of reconnecting processes. Callbacks of the backend do
not expire in this run: with expiry a refused acquisition nobody waits for any more is
never reported, and `MixerSettles` fails. `frontend`: proxies answer.

`threads`: each worker is scheduled, its wait times out (`ov_thread_lock_wait` has a
timeout) and the call to the LDAP server returns, as it has a network timeout; the
event loop finishes a handler it has begun and reads its sockets; a stop that has
begun is joined. Nothing is assumed of new logins or of somebody reconfiguring.
`LoginsAnswered` exempts what the code gives up: messages overwritten, cleared by a
reconfiguration or lost with a lock that is not had.

## 5. What is proved

Every theorem is for all values of the constants: any number of mixers, proxies,
sessions, recorders, threads and ids, any length of queues, any bound on faults. The
bounds of the runs play no part. Each proof module states an inductive invariant
(`IndInv`; for the service `BaseInv`, `SessInv`, `FullInv` and `AudioInv`), which TLC has checked
on the run's instance; for each operator of the model it has lemmas on the fields that
the operator changes, then one lemma per action with one step per conjunct the action
can disturb.

| module | theorem | states |
|---|---|---|
| `McBackendProofs` | `IndInvHolds`, `TypeCorrect` | `IndInv`, `TypeOK` |
| | `RegistryConsistent` | `SlotsIndexed` |
| | `MixersNotLeaked` | `NoMixerLeak` |
| | `HeldIsReserved` | `HeldHasMixer` |
| | `LeaseImplemented` | `ImplementsLease` (refinement) |
| | `AudioInvHolds` | `AudioInv` |
| | `DrainedMixersNamed` | `MixerFollowsRegistry` |
| | `AudioIsolated` | `NoForeignLoops` |
| `McFrontendProofs` | `IndInvHolds`, `TypeCorrect` | `IndInv`, `TypeOK` |
| | `LoadsCount` | `LoadCountsSessions` |
| | `KnownServed` | `KnownIsServed` |
| | `NoOrphans` | `NoOrphanSessions` |
| | `TablesAgree` | `OwnedAtHome` |
| `LdapAuthProofs` | `IndInvHolds`, `TypeCorrect` | `IndInv`, `TypeOK` |
| | `MessagesOwned` | `OneOwner` |
| | `WakeUpsNotLost` | `AnswersAnnounced` |
| | `LocksCleared` | `LocksUnusedWhenCleared` |
| | `CallbacksFound` | `AnswerFindsCallback` |
| `RecorderProofs` | `IndInvHolds` | `IndInv` |
| | `OfferedIdle` | `OfferedIsIdle` |
| | `BlockedHasRecord` | `BlockedIsNamed` |
| | `ShownIsRecorded` | `RunningIsRecorded` |
| `VocsDbProofs` | `IndInvHolds` | `IndInv` |
| | `EntriesNotDangling` | `NoDanglingEntry` |
| | `EverythingFound` | `TreeIndexed` |
| | `IdsUsedOnce` | `IdsUnique` |
| | `FilesOfOneVersion` | `OneVersion` |
| `VocsProofs` | `VocsTypeOK` | `TypeOK` |
| | `NobodyUnpermitted` | `AudioPermitted` |
| | `SessionsStayBound` | `SessionsAgree` |
| | `MediaReadyIsSentOnce` | `MediaReadyOnce` |
| `VocsServiceProofs` | `NoMixerLeaks` | `MixersAccounted` |
| | `MixerIsThere` | `ReadyHasMixer` |
| | `AsyncIsOfOpenConnections` | `AsyncOfOpenConnections` |
| | `NoSessionIsForgotten` | `ProxySessionsAccounted` |
| | `RosterIsRight` | `RosterAgrees` |
| | `NobodyWaitsUnwatched` | `WaitingIsWatched` |
| `VocsAudioProofs` | `AudioIsRight` | `AudioFollowsClient` |

**Assumptions on constants.** Sockets, of mixers, of proxies and of clients, are
positive numbers, 0 being the code's "none"; `None`, `Closed`, `Free`, `Freed` and `Nobody`
are no sessions, loops, threads, messages, records or nodes, null pointers and
marks being no members of the things they stand in for; the thread pool is finite
(`ov_thread_pool_create` makes an array); what may be done in a loop is one of the
three loop states; the uuid of a release is one of its own, named by its session
(section 2, *Names*); bounds are numbers. They are ASSUMEs of
the modules that declare the constants, and TLC evaluates them in the runs.

**Backend.** `HeldHasMixer` is not inductive. An answer frees the slot its session
has in the dictionary, whoever is in it; that no held session is hit needs to know
what the queued messages say. `IndInv` therefore adds: a queued acquire belongs to
the session in that very slot, which still waits, or to a session that is over and
forgotten by the dictionary (`WireConsistent`); so does a queued release; an
acquire is queued once (`AcquireOnce`); a waiting session has its slot or has been
refused (`AskedConsistent`); a session that never asked is not in the dictionary
(`NewUnknown`).

**Refinement of the lease.** `Leases(be)` maps the registry to the abstract lease: a
session's slot in the dictionary if that slot is its own. With `IndInv` every handler
is a step of `MixerLease` or leaves leases and owners as they are. `MixerLease` has no
fairness, so this is the whole of `ImplementsLease`.

**Hand-over of a mixer.** A slot is free as soon as its session has asked for the
release, while the mixer may still have that session's requests in its queue and its
name. `AudioInv` says of each mixer, given the session in its slot: a request that
gives the mixer another session's name, and such a name itself, has that session's
release queued behind it (`NamesReleased`, `NameReleased`); nobody names the mixer
behind the acquisition of the slot's session (`LastAcquired`), so from the moment that
acquisition is confirmed only it does (`HeldAlone`); and a queued join meets its own
session's name or none (`JoinsOwn`). `NoForeignLoops` follows, and on a drained queue
`MixerFollowsRegistry`.

**Frontend.** `LoadCountsSessions` needs that a session is counted in one place only:
`OnePlace` says that dictionary, processes and queued messages place it at the same
proxy; `NewUnheard` that nobody has heard of a uuid before a proxy made it;
`MessagesMeant` that a session reported as failed is no longer alive; `ClosedIsSilent`
that nothing is queued for a lost proxy.

**Threads and logins.** A lock is held exactly by the thread at the place under it
(`LocksHeld`), a message is in a hand exactly while it is worked on (`HandsFull`), and
queues, hands and freed messages are apart (`QueuesApart`, `HandsApart`), with one
exception that is the code's: the event loop still refers to a login it has just
queued and stores its callback afterwards. `UnderWayStored` says that whatever is
under way has its callback or is that one login, which is why no answer finds none:
the loop cannot read answers before it has left that place. `AnswersAnnounced` is
inductive relative to `IndInv`; its proof counts the workers about to write.

**Recorders.** The theorems are for a server *used with care*
(`~Retry /\ ~Pipelining /\ ~EarlyStart /\ ~Reregister`, as in the run): with any of
these switches a property fails (section 3), so the hypothesis cannot be dropped.
`RecorderOK` describes one recorder by its connection, entry, queues, recordings and
the records that name it: one record names it, everything under way and everything
recorded is about that record's loop or about a name read from freed memory
(`AboutNamed`), at most one message about a loop is on its way (`OneMessage`), the
server knows the id of what is recorded or the answer with it is under way
(`RecordedKnown`), and no start comes after a stop. `TimerFirst` says that no record names
a recorder before the startup timer has run.

**Database.** The theorems are for requests that bring no ids in use elsewhere and
create no second role admin (`~ForeignIds /\ ~RepeatAdmin`); `db_unique` and section 3
show what happens otherwise. `Sound(db)` says that the tree is closed under parents, no
entry of the index dangles and every node but the roles admin is indexed. Every request
exchanges nodes: some go, their entries go, others come and are indexed. One lemma
(`ExchangeSound`) gives the conditions under which an exchange keeps `Sound`; the
lemmas per request only have to name the three sets. `FilesSound` says that the files
are, at every moment of a save, a part of one copy, that a member is there with its
project, and that files are written only when those of the copy before are gone. A domain
may be missing while its projects are still there, when the save removes files; but a
load skips such a domain, so what it finds is closed under parents, and `OneVersion`
follows for a crash at any point.

**Service.** The handlers of the core run handlers of backend and frontend inside
themselves, and the core is not the well-behaved caller of their own systems, so
nothing is taken from the component theorems but the lemmas about single operators. The
invariant has three layers, each inductive relative to the ones before it.

`BaseInv` holds whatever clients, timers and other processes do. A request of a client
is under way in one place only, one position of one queue (`Tokens`), so that handling
its answer leaves nothing of it; messages say what the code can send, a join or a talk
only for a loop whose permission grants it, and the entry stored under the uuid of a
message was stored for it (`BeMeant`, `FeMeant`: this ties the permission that was
checked when the request came to the mixer or proxy that acts on it later); uuids and
entries correspond (`Stored`); a session that no proxy has made is unknown everywhere
(`Unknown`). `TypeOK` and `AudioPermitted` follow without any condition on clients.

`Sess`, under `~RepeatMedia`: dictionary and connections agree (`Bound`); who waits for
a session has none and waits for one only (`Creating`), without which the answer to a
create would replace a session; media_ready is sent when ICE and mixer are there, and a
connection without a session has neither (`MediaTold`); while a mixer is asked for, the
connection has not been told of one (`Acquiring`).

`FullInv` adds, under `Careful`: `~RepeatMedia /\ (~Pipelining \/ ~Timeouts)`, three
parts. *Lease*: connections with a session and stored requests are of open sockets
(`OpenOnly`); slots and sessions in the dictionary find each other (`Slots`); a request
queued at a mixer is about the session in the slot or about one that is over, and
whoever waits for it owns that session (`Queued`), which is why a late answer frees
nobody else's mixer; whoever waits for a proxy to talk owns the session it is about
(`Told`); and, for clients that wait, there is one request of a client at a time
(`Single`) and rosters are right (`Listed`). *Watch*: a response that is owed has its
entry. *Placed*: a session lives where it is registered, what is said about it is said
there (`Homes`), and it has a connection or its drop is under way (`Accounted`), except
for the sessions a proxy has kept over a lost connection.

Inside a handler these parts are broken for a moment: a mixer is lost before the
connection that had it is dropped, a response is sent before its entry is gone. The
lemmas are therefore about states on the way of a handler: `Fit(w, x, X, O)` says that
`x` is on the way from `w`, that the connections in `X` are about to be closed and the
responses in `O` are about to be sent. Every operator of `Vocs` maps such states to such
states, and at the end of a handler `X` and `O` are empty.

**Audio of the service.** `AudioFollowsClient` is proved from a fourth layer, `AudioInv`,
for clients that wait and ask for media once, and callbacks that do not expire
(`~RepeatMedia /\ ~Pipelining /\ ~Expiry`, as in the run `vocs`). It is not
inductive: what an answer does to the loop states depends on the requests queued at
mixer and proxy and on who still waits for them. `Audio(v, {})` adds to `FullInv` what
makes every later answer land right. For each session with a connection, its proxy speaks in exactly the loops the
connection sends to, and a queued change of that is still awaited (`Voiced`). At its
mixer (`Heard`) nothing but the session's own loop requests stands behind its
acquisition (`Trailing`), so what an earlier session left in the queue is done before
the mixer is this one's; once the client has been told of the mixer, it plays exactly
the loops the connection is in; a queued join is still awaited; and no loop that a
queued, awaited join or leave is about is one the client sends to. A connection without
a mixer is in no loop (`Silent`), and the answer to a leave finds its callback
(`Called`, which is where expiry would break it). It needs of `BaseInv` that the entry
stored for a talk is about the loop of that talk and wants to send if the talk turns
it on (`FeAwaited`): otherwise the state recorded on the answer would not be the one
the proxy has taken. The act of a process and the core's handling of its answer are one
step of the model, so between steps loops of mixer and connection agree even with
requests queued. `Audio(x, K)` is the form it has inside a handler that is about to
drop the connections in `K`.

The conditions are those under which the runs check the properties, and section 3 shows
for each that it cannot be dropped: with `RepeatMedia` a session that was replaced
keeps its mixer, with
`Pipelining` and `Timeouts` together requests outlive their connection (`vocs_async`),
with `Pipelining` alone rosters and audio go wrong, with `Expiry` audio does, with
candidates nobody watches (section 3). Lost mixers and proxies, failing ICE,
expiring callbacks of the backend (for all but `AudioFollowsClient`), refused requests
and the restart of the process are all allowed.

## 6. What is only model-checked

* The liveness properties (`DropEnds`, `RequestsSettle`, `MixerSettles`,
  `LoginsAnswered`, `StopEnds`): liveness under fairness is out of the prover's reach.
* The four violations, which are counterexamples and have nothing to prove.

Every invariant of a passing run has a theorem.

## 7. Plan

1. *Model.* Login with a stored user session (`ov_event_session.c`) and its expiry;
   the registry of the SIP backend (gateways, calls, permissions); the admin API of
   the service, which joins `Recorder` and `VocsDbSystem` to `VocsSystem`.
2. *Abstract specification* of the service: a client is offline, connected, in
   media or ready, holds one mixer and one session while in media; `VocsSystem`
   implements it.

## 8. Not modelled, and why

Audio (codecs, RTP, mixing, multicast), ICE, STUN and DTLS: signal processing and
network protocol; the control plane sees only that ICE has completed or failed.
Event loop, web server, JSON: I/O and data formats; the contract used is one
thread, ordered delivery, one close callback per connection. Of the database:
layouts, keysets, passwords, LDAP import, SIP settings, who may ask for what, the state
file and the periodic snapshots, file operations that fail, and projects that use one id
twice among themselves (they are accepted, as `db_unique` shows for ids of two domains). The core's questions to the database (passwords,
roles, permissions) are free choices or the constant `Permission`. Of the recorders:
the participation events written to an SQL database; recorder processes are not in
the repository and are external. Voice activity: events that are passed on. Failing allocations and malformed messages: the
paths for them are not taken. The size of the slot array: sockets are a finite
set. Broadcasts to other clients: they carry no state, except media_ready. HTML
clients: the model's clients may send any request at any time.
