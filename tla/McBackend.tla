----------------------------- MODULE McBackend ------------------------------
(***************************************************************************)
(* The multicast backend of the vocs service (ov_mc_backend.c) and the     *)
(* mixer processes it drives (ov_mc_mixer_app.c, ov_mc_mixer_core.c), as   *)
(* operators on a record b with the fields                                 *)
(*   slot, users  the registry (McRegistry)                                *)
(*   cbs          request uuids with a registered callback (ov_callback.c) *)
(*   wire[s]      requests sent to the mixer at socket s, not answered yet *)
(*   mix[s]       that mixer process: its name and the loops it has joined *)
(*                                                                         *)
(* A connection is a TCP stream, and a mixer answers its requests one      *)
(* after the other, so requests and answers of one mixer form one FIFO.    *)
(* Nothing but its answers shows the backend the mixer's state, hence the  *)
(* mixer executes a request when the backend handles the answer to it.     *)
(***************************************************************************)
EXTENDS McRegistry, Sequences

CONSTANTS Loops,        \* voice loops
          Reqs,         \* request uuids
          None          \* no name, no loop

ASSUME NoneAssumption == None \notin Users \cup Loops

BackendOps == {"acquire", "release", "join", "leave", "volume", "forward", "state"}

Idle == [name |-> None, loops |-> {}]

BackendInit ==
    [slot |-> EmptyRegistry.slot, users |-> EmptyRegistry.users, cbs |-> {},
     wire |-> [s \in Sockets |-> <<>>], mix |-> [s \in Sockets |-> Idle]]

(* For a loop request .user is not part of the message, it is kept for the *)
(* properties: the backend reads the user of the answer from the registry. *)
Message(op, id, u, l) == [op |-> op, id |-> id, user |-> u, loop |-> l]

Messages == {m \in [op : BackendOps, id : Reqs, user : Users, loop : Loops \cup {None}] :
                m.op = "join" => m.loop \in Loops}

BackendStates ==
    [slot : [Sockets -> Users \cup {Closed, Free}], users : [Users -> Sockets \cup {NoSlot}],
     cbs : SUBSET Reqs, wire : [Sockets -> Seq(Messages)],
     mix : [Sockets -> [name : Users \cup {None}, loops : SUBSET Loops]]]

SendMixer(b, s, m) == [b EXCEPT !.wire[s] = Append(@, m)]

RegisterCallback(b, r) == [b EXCEPT !.cbs = @ \cup {r}]

UnregisterCallback(b, r) == [b EXCEPT !.cbs = @ \ {r}]

(***************************************************************************)
(* The interface the vocs core calls.                                      *)
(***************************************************************************)

\* FALSE: the callback is called with OV_ERROR_NO_RESOURCE before the call returns.
MixerAvailable(b) == FreeSlots(b) # {}

AcquireMixer(b, r, u) ==
    IF ~MixerAvailable(b) THEN b
    ELSE SendMixer(RegisterCallback(AcquireUser(b, u), r), FirstFree(b),
                   Message("acquire", r, u, None))

HasMixer(b, u) == GetUser(b, u) # NoSlot

\* Without a mixer the callback is called with success before the call returns.
\* The slot is free at once, before the mixer has confirmed.
ReleaseMixer(b, r, u) ==
    IF ~HasMixer(b, u) THEN ReleaseUser(b, u)
    ELSE ReleaseUser(SendMixer(RegisterCallback(b, r), GetUser(b, u),
                               Message("release", r, u, None)), u)

\* join_loop, leave_loop, set_loop_volume, get_session_state: the callback is
\* registered first and stays registered when there is no mixer to send to.
LoopRequest(b, op, r, u, l) ==
    IF ~HasMixer(b, u) THEN RegisterCallback(b, r)
    ELSE SendMixer(RegisterCallback(b, r), GetUser(b, u), Message(op, r, u, l))

\* Without a mixer the callback is called with an error and nothing is registered.
SetMixerForward(b, r, u) ==
    IF ~HasMixer(b, u) THEN b
    ELSE SendMixer(RegisterCallback(b, r), GetUser(b, u), Message("forward", r, u, None))

(***************************************************************************)
(* Connections of mixers.                                                  *)
(***************************************************************************)

CbEventRegister(b, s) == RegisterMixer([b EXCEPT !.wire[s] = <<>>, !.mix[s] = Idle], s)

\* close_mixer and cb_close: unregister, then the lost callback for
\* LostUser(b, s); the mixer sees the close and releases itself.
CloseMixer(b, s) == UnregisterMixer([b EXCEPT !.wire[s] = <<>>, !.mix[s] = Idle], s)

\* Mutant: the user is read after the slot was cleared.
LostUserTooLate(b, s) == {u \in Users : UnregisterMixer(b, s).slot[s] = u}

LostUser(b, s) == {u \in Users : b.slot[s] = u}

(***************************************************************************)
(* The mixer process: the state after a request and the codes it answers.  *)
(***************************************************************************)

MixerCodes(x, m) ==
    CASE m.op \in {"acquire", "forward"} -> {"ok", "error"}
      [] m.op = "join"                   -> IF x.name = None THEN {"error"} ELSE {"ok", "error"}
      [] m.op = "volume"                 -> IF m.loop \in x.loops THEN {"ok"} ELSE {"error"}
      [] OTHER                           -> {"ok"}

\* Mutants: one half of the clean up is missing.
CoreReleaseKeepsName(x) == [x EXCEPT !.loops = {}]
CoreReleaseKeepsLoops(x) == [x EXCEPT !.name = None]

CoreRelease(x) == Idle

MixerExecute(x, m, code) ==
    CASE m.op \in {"acquire", "forward"} /\ code = "ok"    -> [CoreRelease(x) EXCEPT !.name = m.user]
      [] m.op \in {"acquire", "forward"} /\ code = "error" -> CoreRelease(x)
      [] m.op = "release"                                  -> CoreRelease(x)
      [] m.op = "join" /\ code = "ok"                      -> [x EXCEPT !.loops = @ \cup {m.loop}]
      [] m.op = "leave"                                    -> [x EXCEPT !.loops = @ \ {m.loop}]
      [] OTHER                                             -> x

(***************************************************************************)
(* The answer at the head of wire[s] with the given code.                  *)
(***************************************************************************)

Answered(b, s, code) ==
    [b EXCEPT !.wire[s] = Tail(@), !.mix[s] = MixerExecute(@, Head(b.wire[s]), code)]

HasCallback(b, s) == Head(b.wire[s]).id \in b.cbs

\* An acquire or join answer nobody waits for any more: the mixer shall
\* reconnect for a clean state.
ForcesReconnect(b, s) == Head(b.wire[s]).op \in {"acquire", "join"} /\ ~HasCallback(b, s)

\* Mutant: the slot of a refused acquisition is not given back.
AnswerReleasesConfirmed(m, code) == m.op = "release" /\ code = "ok"

\* What an answer does to the registry before the callback is looked up.
AnswerReleases(m, code) == (m.op = "acquire" /\ code = "error") \/ (m.op = "release" /\ code = "ok")

AnswerRegistry(b, s, code) ==
    LET m == Head(b.wire[s]) IN
    IF AnswerReleases(m, code) THEN ReleaseUser(Answered(b, s, code), m.user)
    ELSE Answered(b, s, code)

HandleAnswer(b, s, code) ==
    LET rest == UnregisterCallback(AnswerRegistry(b, s, code), Head(b.wire[s]).id) IN
    IF ForcesReconnect(b, s) THEN CloseMixer(rest, s) ELSE rest

\* The user the callback of an answer is called with: the request's for
\* acquire and release, whoever is in the slot now for the loop requests.
CallbackUser(b, s) ==
    LET m == Head(b.wire[s]) IN
    IF m.op \in {"acquire", "release"} THEN {m.user} ELSE LostUser(b, s)
=============================================================================
