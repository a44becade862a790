------------------------------- MODULE Quotas -------------------------------
(***************************************************************************)
(* Quota usage and reservations in the database: the usage row of one      *)
(* resource, instances, for one project with one user, and the             *)
(* reservations made against it. cores and ram take the same steps.        *)
(*                                                                         *)
(* reserve, commit and roll back are transactions that lock the usage row. *)
(* The periodic expiry reads without a lock and writes what it computed:   *)
(* it takes two steps.                                                     *)
(***************************************************************************)
EXTENDS Integers, FiniteSets

CONSTANTS
    Requests,   \* who reserves; each has at most one reservation at a time
    Limit       \* the project's and the user's quota

ASSUME QuotasAssumption == Limit \in Nat

VARIABLES
    in_use, reserved,   \* the usage row
    reservation,        \* delta of the request's reservation row, 0 if none
    expiring            \* what a run of the expiry has read

quotas == <<in_use, reserved, reservation, expiring>>

-----------------------------------------------------------------------------

Deltas == {-1, 0, 1}

\* The rows to delete, the value of reserved that was read, and what the rows
\* hold of it.
Expiries == [rows : SUBSET Requests, seen : Int, held : Nat]

NotExpiring == [rows |-> {}, seen |-> 0, held |-> 0]

QuotasTypeOK ==
    /\ in_use \in Int
    /\ reserved \in Int
    /\ reservation \in [Requests -> Deltas]
    /\ expiring \in Expiries

QuotasInit ==
    /\ in_use = 0
    /\ reserved = 0
    /\ reservation = [r \in Requests |-> 0]
    /\ expiring = NotExpiring

\* What a delta adds to reserved: a decrease waits for its commit.
Held(delta) == IF delta > 0 THEN delta ELSE 0

\* Requests whose reservation counts in reserved.
Pending == {r \in Requests : reservation[r] > 0}

(***************************************************************************)
(* reserve refreshes a negative usage, or one that is due (aged), from the *)
(* instances there are (actual). The project's total was summed up before  *)
(* that, the user's is looked up after it.                                 *)
(***************************************************************************)
Refreshed(actual, aged) == IF in_use < 0 \/ aged THEN actual ELSE in_use

\* The limit is compared with what is in use alone.
Over_InUseOnly(delta, actual, aged) ==
    delta >= 0 /\ Limit < delta + Refreshed(actual, aged)

Over(delta, actual, aged) ==
    /\ delta >= 0
    /\ \/ Limit < delta + in_use + reserved
       \/ Limit < delta + Refreshed(actual, aged) + reserved

\* The delta is added to a reservation that is still there.
Reserve_Accumulates(r, delta, actual, aged) ==
    /\ ~Over(delta, actual, aged)
    /\ in_use' = Refreshed(actual, aged)
    /\ reserved' = reserved + Held(delta)
    /\ reservation' = [reservation EXCEPT ![r] = @ + delta]
    /\ UNCHANGED expiring

Reserve(r, delta, actual, aged) ==
    /\ ~Over(delta, actual, aged)
    /\ in_use' = Refreshed(actual, aged)
    /\ reserved' = reserved + Held(delta)
    /\ reservation' = [reservation EXCEPT ![r] = delta]
    /\ UNCHANGED expiring

\* The refresh outlives the refusal.
OverQuota(delta, actual, aged) ==
    /\ Over(delta, actual, aged)
    /\ in_use' = Refreshed(actual, aged)
    /\ UNCHANGED <<reserved, reservation, expiring>>

\* Rows that are gone, committed, rolled back or expired, are not found again.
Commit(r) ==
    /\ in_use' = in_use + reservation[r]
    /\ reserved' = reserved - Held(reservation[r])
    /\ reservation' = [reservation EXCEPT ![r] = 0]
    /\ UNCHANGED expiring

\* The reservation row goes, what it held stays.
Rollback_KeepsReserved(r) ==
    /\ reservation' = [reservation EXCEPT ![r] = 0]
    /\ UNCHANGED <<in_use, reserved, expiring>>

Rollback(r) ==
    /\ reserved' = reserved - Held(reservation[r])
    /\ reservation' = [reservation EXCEPT ![r] = 0]
    /\ UNCHANGED <<in_use, expiring>>

(***************************************************************************)
(* reservation_expire, a periodic task of the scheduler.                   *)
(***************************************************************************)
ExpireRead(rows) ==
    /\ expiring = NotExpiring
    /\ rows # {}
    /\ \A r \in rows : reservation[r] # 0
    /\ expiring' = [rows |-> rows, seen |-> reserved,
                    held |-> Cardinality(rows \cap Pending)]
    /\ UNCHANGED <<in_use, reserved, reservation>>

\* reserved is written with a value computed from what was read, whatever it is
\* now. A query of its own deletes the rows.
ExpireWrite ==
    /\ expiring # NotExpiring
    /\ reserved' = IF expiring.held = 0 THEN reserved
                                       ELSE expiring.seen - expiring.held
    /\ reservation' = [r \in Requests |->
                          IF r \in expiring.rows THEN 0 ELSE reservation[r]]
    /\ expiring' = NotExpiring
    /\ UNCHANGED in_use
=============================================================================
