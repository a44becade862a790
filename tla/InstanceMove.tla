---------------------------- MODULE InstanceMove ----------------------------
(***************************************************************************)
(* What every way of moving an instance promises, whichever hosts, handlers *)
(* and messages it takes: task_state is a lock; while it is held copies of *)
(* the instance come and go and the record of its host follows them; it is *)
(* only given back with a copy of the instance on the host of its record.  *)
(* Something that went wrong may leave the instance broken (ERROR), but    *)
(* never without a copy.                                                   *)
(*                                                                         *)
(* LiveMigration and ResizeInstance implement this specification.          *)
(***************************************************************************)
EXTENDS TLAPS

CONSTANT Hosts

VARIABLES
    home,   \* the host the instance is recorded on
    copies, \* the hosts with a copy of it: its running domain, or its disk
    lock    \* is it free for a request, held by one, or broken?

vars == <<home, copies, lock>>

TypeOK ==
    /\ home \in Hosts
    /\ copies \in SUBSET Hosts
    /\ lock \in {"free", "held", "broken"}

Init ==
    /\ home \in Hosts
    /\ copies = {home}
    /\ lock = "free"

\* A request takes the instance; nothing has moved yet.
Take ==
    /\ lock = "free"
    /\ lock' = "held"
    /\ UNCHANGED <<home, copies>>

\* The one who holds it makes, moves and removes copies, but not all of them.
Carry ==
    /\ lock = "held"
    /\ copies' \in (SUBSET Hosts) \ {{}}
    /\ UNCHANGED <<home, lock>>

\* The record changes to a host with a copy.
Record ==
    /\ lock = "held"
    /\ copies' \in (SUBSET Hosts) \ {{}}
    /\ home' \in copies'
    /\ lock' \in {"held", "free"}

\* The move is over, wherever the instance is now.
Release ==
    /\ lock = "held"
    /\ home \in copies'
    /\ copies' \in SUBSET Hosts
    /\ lock' = "free"
    /\ UNCHANGED home

\* The copies that are not the instance's any more go.
Tidy ==
    /\ lock = "free"
    /\ copies' \in SUBSET copies
    /\ home \in copies'
    /\ UNCHANGED <<home, lock>>

\* A failure; what had been carried stays where it is.
Break ==
    /\ lock' = "broken"
    /\ copies' \in (SUBSET Hosts) \ {{}}
    /\ UNCHANGED home

Next == Take \/ Carry \/ Record \/ Release \/ Tidy \/ Break

Spec == Init /\ [][Next]_vars

-----------------------------------------------------------------------------
(* What it means *)

\* An instance that nobody works on, and that is not in ERROR, is where it is
\* recorded.
FoundWhereRecorded == lock = "free" => home \in copies

\* There is always a copy of the instance.
NeverLost == copies # {}

(* Whatever implements this specification, of any number of hosts, finds an *)
(* instance nobody works on where it is recorded and never loses it.        *)
THEOREM Promise == Spec => [](FoundWhereRecorded /\ NeverLost)
<1> DEFINE Inv == TypeOK /\ FoundWhereRecorded /\ NeverLost
<1>1. Init => Inv
  BY DEF Init, TypeOK, FoundWhereRecorded, NeverLost
<1>2. Inv /\ [Next]_vars => Inv'
  BY DEF TypeOK, FoundWhereRecorded, NeverLost, vars, Next, Take, Carry, Record,
         Release, Tidy, Break
<1>. QED
  BY <1>1, <1>2, PTL DEF Spec
=============================================================================
