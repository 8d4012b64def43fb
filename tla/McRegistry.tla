----------------------------- MODULE McRegistry -----------------------------
(***************************************************************************)
(* The mixer registry of the backend (ov_mc_backend_registry.c): an array  *)
(* of mixer slots indexed by the mixer's socket and a dictionary from      *)
(* session ids ("users") to slot numbers.  The operators map a registry    *)
(* record to a registry record; a record with more fields than slot and    *)
(* users keeps them.                                                       *)
(*                                                                         *)
(* slot[s] = Closed  : .socket is -1 (no mixer, .user is empty)            *)
(* slot[s] = Free    : a mixer is registered and .user is empty            *)
(* slot[s] = u       : a mixer is registered and .user is u                *)
(* users[u] = 0      : u is not a key of the dictionary.  Slot 0 is never  *)
(*                     registered, so a miss behaves as a closed slot.     *)
(***************************************************************************)
EXTENDS Integers, FiniteSets

CONSTANTS Sockets,      \* file descriptors mixers may be accepted at
          Users,        \* session ids
          Closed, Free

ASSUME SocketsAssumption == Sockets \subseteq Nat \ {0}
ASSUME SlotStatesAssumption == Closed # Free /\ {Closed, Free} \cap Users = {}

NoSlot == 0

EmptyRegistry == [slot |-> [s \in Sockets |-> Closed], users |-> [u \in Users |-> NoSlot]]

RegisterMixer(r, s) == [r EXCEPT !.slot[s] = Free]

\* Mutant: the slot is zeroed, its socket is not set back to -1.
UnregisterMixerZeroed(r, s) == [r EXCEPT !.slot[s] = NoSlot]

\* The dictionary entry of the slot's user is kept.
UnregisterMixer(r, s) == [r EXCEPT !.slot[s] = Closed]

\* Mutant: a slot counts as free although it has a user.
FreeSlotsAnyUser(r) == {s \in Sockets : r.slot[s] # Closed}

FreeSlots(r) == {s \in Sockets : r.slot[s] = Free}

\* The slots are scanned upwards: the first free one is taken.
FirstFree(r) == CHOOSE s \in FreeSlots(r) : \A t \in FreeSlots(r) : s <= t

\* Mutant: the session is not entered in the dictionary.
AcquireUserNotIndexed(r, u) ==
    IF FreeSlots(r) = {} THEN r ELSE [r EXCEPT !.slot[FirstFree(r)] = u]

AcquireUser(r, u) ==
    IF FreeSlots(r) = {} THEN r
    ELSE [r EXCEPT !.slot[FirstFree(r)] = u, !.users[u] = FirstFree(r)]

\* The socket of the mixer the dictionary names for u, NoSlot (<= 0 in the
\* code) when there is none.  That slot's .user is not compared with u.
GetUser(r, u) ==
    IF r.users[u] # NoSlot /\ r.slot[r.users[u]] # Closed THEN r.users[u] ELSE NoSlot

\* Empties .user of the slot the dictionary names, whoever is in it.
ReleaseUser(r, u) ==
    [r EXCEPT !.slot = [s \in Sockets |-> IF s = r.users[u] /\ @[s] # Closed THEN Free ELSE @[s]],
              !.users[u] = NoSlot]
=============================================================================
