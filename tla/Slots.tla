------------------------------- MODULE Slots -------------------------------
(***************************************************************************)
(* The connections the remote service serves at once (remote service.rs,   *)
(* Slots).  Every accepted connection holds a slot until its thread is     *)
(* done; until its device has proved who it is, the slot also counts       *)
(* against the allowance for unauthenticated connections, overall and for  *)
(* its address.  The counts are kept apart from the slots they count, and  *)
(* a slot changes its own flag before it takes the lock to be discounted.  *)
(***************************************************************************)
EXTENDS Integers, FiniteSets

CONSTANTS
    Connections,         \* connections there may be
    Addresses,           \* addresses they may come from
    MAX_CONNECTIONS,
    MAX_UNAUTHENTICATED,
    MAX_UNAUTHENTICATED_PER_ADDRESS

ASSUME SlotsAssumption ==
    /\ IsFiniteSet(Connections)
    /\ MAX_CONNECTIONS \in Nat
    /\ MAX_UNAUTHENTICATED \in Nat
    /\ MAX_UNAUTHENTICATED_PER_ADDRESS \in Nat

VARIABLES
    place,            \* each connection: "out", "unauthenticated", "proved", "authenticated"
    address,          \* where each connection comes from
    total,            \* Counts.total
    unauthenticated,  \* Counts.unauthenticated
    by_address        \* Counts.by_address, 0 for no entry

slotsVars == <<place, address, total, unauthenticated, by_address>>

\* "proved" is a slot whose flag is cleared and which is not discounted yet.
SlotPlaces == {"out", "unauthenticated", "proved", "authenticated"}

SlotsTypeOK ==
    /\ place \in [Connections -> SlotPlaces]
    /\ address \in [Connections -> Addresses]
    /\ total \in Nat
    /\ unauthenticated \in Nat
    /\ by_address \in [Addresses -> Nat]

SlotsInit ==
    /\ place = [c \in Connections |-> "out"]
    /\ address \in [Connections -> Addresses]
    /\ total = 0
    /\ unauthenticated = 0
    /\ by_address = [a \in Addresses |-> 0]

\* Mutant: the allowance of the address is checked against the overall one.
HasRoomOverall(a) ==
    /\ total < MAX_CONNECTIONS
    /\ unauthenticated < MAX_UNAUTHENTICATED
    /\ by_address[a] < MAX_UNAUTHENTICATED
HasRoom(a) ==
    /\ total < MAX_CONNECTIONS
    /\ unauthenticated < MAX_UNAUTHENTICATED
    /\ by_address[a] < MAX_UNAUTHENTICATED_PER_ADDRESS

\* Slots::take: a connection is accepted if there is room for it.
Take(c, a) ==
    /\ place[c] = "out"
    /\ HasRoom(a)
    /\ place' = [place EXCEPT ![c] = "unauthenticated"]
    /\ address' = [address EXCEPT ![c] = a]
    /\ total' = total + 1
    /\ unauthenticated' = unauthenticated + 1
    /\ by_address' = [by_address EXCEPT ![a] = @ + 1]

\* Mutant: the entry of an address is always dropped.
ReleasedEntry(n) == 0
Released(n) == IF n > 1 THEN n - 1 ELSE 0

\* Counts::release_unauthenticated.
Release(a) ==
    /\ unauthenticated' = unauthenticated - 1
    /\ by_address' = [by_address EXCEPT ![a] = Released(@)]

\* Slot::authenticated: the flag, then the counts.
Prove(c) ==
    /\ place[c] = "unauthenticated"
    /\ place' = [place EXCEPT ![c] = "proved"]
    /\ UNCHANGED <<address, total, unauthenticated, by_address>>

Discount(c) ==
    /\ place[c] = "proved"
    /\ place' = [place EXCEPT ![c] = "authenticated"]
    /\ Release(address[c])
    /\ UNCHANGED <<address, total>>

Counted(c) == place[c] = "unauthenticated"

\* Slot::drop: the connection is refused, times out, ends, or its thread panics.
Drop(c) ==
    /\ place[c] \in {"unauthenticated", "authenticated"}
    /\ place' = [place EXCEPT ![c] = "out"]
    /\ total' = total - 1
    /\ IF Counted(c) THEN Release(address[c]) ELSE UNCHANGED <<unauthenticated, by_address>>
    /\ UNCHANGED address

SlotsNext ==
    \E c \in Connections :
        \/ \E a \in Addresses : Take(c, a)
        \/ Prove(c) \/ Discount(c) \/ Drop(c)

SlotsSpec == SlotsInit /\ [][SlotsNext]_slotsVars

-----------------------------------------------------------------------------
(* Properties. *)

Held == {c \in Connections : place[c] # "out"}
Undiscounted == {c \in Connections : place[c] \in {"unauthenticated", "proved"}}
From(a) == {c \in Undiscounted : address[c] = a}

\* The counts are what they count, whatever order connections come, are let in and
\* go in, so none ever wraps below zero and no slot is lost for good
\* (Slot::drop, Counts::release_unauthenticated).
CountsExact ==
    /\ total = Cardinality(Held)
    /\ unauthenticated = Cardinality(Undiscounted)
    /\ \A a \in Addresses : by_address[a] = Cardinality(From(a))

\* The limits hold of the connections themselves, not only of the counts: never
\* more served, never more unproved, never more unproved from one address.
Unproved == {c \in Connections : place[c] = "unauthenticated"}
WithinLimits ==
    /\ Cardinality(Held) <= MAX_CONNECTIONS
    /\ Cardinality(Unproved) <= MAX_UNAUTHENTICATED
    /\ \A a \in Addresses :
          Cardinality({c \in Unproved : address[c] = a}) <= MAX_UNAUTHENTICATED_PER_ADDRESS
=============================================================================
