----------------------------- MODULE FernetKeys -----------------------------
(***************************************************************************)
(* The key repositories of Keystone's Fernet tokens: a directory of key    *)
(* files on every node, rotated on one of them by keystone-manage, copied  *)
(* to the others by means outside of Keystone, and loaded from the disk by *)
(* every request that makes or checks a token.                             *)
(*                                                                         *)
(* A repository is a function from the names of its key files to what is   *)
(* in them.  The file of the highest name is the primary key, with which   *)
(* tokens are encrypted; "0" is staged to become the next one.             *)
(*                                                                         *)
(* One token and one request at a time are enough: a request changes       *)
(* nothing but the token it makes, and a token does not depend on others.  *)
(***************************************************************************)
EXTENDS Integers, FiniteSets

CONSTANTS
    Nodes,
    Rotator,       \* the node where keys are rotated
    MaxActiveKeys, \* [fernet_tokens] max_active_keys
    MaxRotations,  \* bound: promotions of a key
    MaxCrashes,    \* bound: rotations that are killed
    Races          \* "straddle": a node is synchronised while it loads keys
                   \* "setup": fernet_setup is run again after a crash

ASSUME NodesAssumption  == Rotator \in Nodes /\ IsFiniteSet(Nodes)
ASSUME BoundsAssumption == MaxRotations \in Nat /\ MaxCrashes \in Nat
ASSUME KeysAssumption   == MaxActiveKeys \in Int
ASSUME RacesAssumption  == Races \subseteq {"straddle", "setup"}

VARIABLES
    repo,      \* the key files of each node
    pc,        \* where fernet_setup or fernet_rotate is
    key_files, \* the names rotate_keys knows of
    made,      \* keys generated; they are numbered
    rotations, \* promotions so far
    crashes,
    request,   \* the request under way
    token      \* the last token made

rotating == <<pc, key_files, made, rotations, crashes>>
vars == <<repo, pc, key_files, made, rotations, crashes, request, token>>

-----------------------------------------------------------------------------
(* Types and helpers *)

\* A file that has been opened but not written.
Blank == 0

Places == {"idle", "setup", "bootstrap", "bootstrapped", "listed", "renamed",
           "opened", "written"}

Repository(r) == DOMAIN r \subseteq 0..MaxRotations /\ r \in [DOMAIN r -> 0..made]

NoRequest == [op |-> "none"]
NoToken   == [key |-> Blank]

TypeOK ==
    /\ DOMAIN repo = Nodes /\ \A n \in Nodes : Repository(repo[n])
    /\ pc \in Places /\ key_files \subseteq 0..MaxRotations
    /\ made \in Nat /\ rotations \in 0..MaxRotations /\ crashes \in 0..MaxCrashes
    /\ \/ request = NoRequest
       \/ /\ DOMAIN request = {"op", "node", "left", "keys", "since"}
          /\ request.op \in {"pack", "unpack"} /\ request.node \in Nodes
          /\ request.left \subseteq 0..MaxRotations
          /\ Repository(request.keys) /\ request.since \in 0..rotations
    /\ \/ token = NoToken
       \/ token.key \in 1..made /\ token.since \in 0..rotations

Empty == [i \in {} |-> Blank]

Highest(S) == CHOOSE i \in S : \A j \in S : j <= i
Lowest(S)  == CHOOSE i \in S : \A j \in S : i <= j

\* The files of r with k in the file i, and those without the file i.
With(r, i, k)  == [j \in DOMAIN r \cup {i} |-> IF j = i THEN k ELSE r[j]]
Without(r, i)  == [j \in DOMAIN r \ {i} |-> r[j]]

KeysIn(r)  == {r[i] : i \in DOMAIN r}
Primary(r) == r[Highest(DOMAIN r)]

Init ==
    /\ repo = [n \in Nodes |-> Empty]
    /\ pc = "idle" /\ key_files = {} /\ made = 0
    /\ rotations = 0 /\ crashes = 0
    /\ request = NoRequest /\ token = NoToken

-----------------------------------------------------------------------------
(* keystone-manage fernet_setup and fernet_rotate *)

Disk(r) == repo' = [repo EXCEPT ![Rotator] = r]

\* initialize_key_repository has nothing to do if there is a staged key.
Setup ==
    /\ pc = "idle"
    /\ 0 \notin DOMAIN repo[Rotator]
    /\ repo[Rotator] = Empty \/ "setup" \in Races
    /\ pc' = "setup"
    /\ UNCHANGED <<repo, key_files, made, rotations, crashes, request, token>>

\* rotate_keys lists the files. Keys are rotated on nodes in sync; the setup
\* goes straight on to a rotation.
ListKeys ==
    /\ \/ pc = "idle" /\ \A n \in Nodes : repo[n] = repo[Rotator]
       \/ pc = "bootstrapped"
    /\ rotations < MaxRotations
    /\ repo[Rotator] # Empty
    /\ key_files' = DOMAIN repo[Rotator]
    /\ pc' = "listed"
    /\ UNCHANGED <<repo, made, rotations, crashes, request, token>>

\* It renames the staged key to be the primary one, and fails without one.
Promote ==
    /\ pc = "listed"
    /\ IF 0 \in DOMAIN repo[Rotator]
       THEN LET new == Highest(key_files) + 1 IN
              /\ Disk(With(Without(repo[Rotator], 0), new, repo[Rotator][0]))
              /\ key_files' = (key_files \ {0}) \cup {new}
              /\ rotations' = rotations + 1
              /\ pc' = "renamed"
       ELSE pc' = "idle" /\ UNCHANGED <<repo, key_files, rotations>>
    /\ UNCHANGED <<made, crashes, request, token>>

\* _create_new_key opens "0" ...
OpenKey ==
    /\ pc \in {"setup", "renamed"}
    /\ Disk(With(repo[Rotator], 0, Blank))
    /\ pc' = IF pc = "setup" THEN "bootstrap" ELSE "opened"
    /\ UNCHANGED <<key_files, made, rotations, crashes, request, token>>

\* ... and writes a new key to it.
WriteKey ==
    /\ pc \in {"bootstrap", "opened"}
    /\ made' = made + 1
    /\ Disk(With(repo[Rotator], 0, made + 1))
    /\ pc' = IF pc = "bootstrap" THEN "bootstrapped" ELSE "written"
    /\ UNCHANGED <<key_files, rotations, crashes, request, token>>

\* Bug: the staged key is counted twice.
Excess_StagedTwice == Cardinality(key_files) > MaxActiveKeys - 2

\* key_files does not have the staged key; fewer keys than one are none.
Excess == Cardinality(key_files) > (IF MaxActiveKeys < 1 THEN 1 ELSE MaxActiveKeys) - 1

\* Bug: the list is sorted the other way round.
Purged_Newest == Highest(key_files)

\* Of the list in descending order the last is purged.
Purged == Lowest(key_files)

Purge ==
    /\ pc = "written"
    /\ IF Excess
       THEN /\ Disk(Without(repo[Rotator], Purged))
            /\ key_files' = key_files \ {Purged}
            /\ UNCHANGED pc
       ELSE pc' = "idle" /\ UNCHANGED <<repo, key_files>>
    /\ UNCHANGED <<made, rotations, crashes, request, token>>

Crash ==
    /\ pc # "idle"
    /\ crashes < MaxCrashes
    /\ crashes' = crashes + 1
    /\ pc' = "idle"
    /\ UNCHANGED <<repo, key_files, made, rotations, request, token>>

\* Another node's repository is replaced by what the rotator has, whatever a
\* rotation is doing; a repository is copied when it has been set up.
Sync(n) ==
    /\ n # Rotator
    /\ pc \notin {"bootstrap", "bootstrapped"}
    /\ repo[n] # repo[Rotator]
    /\ (request # NoRequest /\ request.node = n) => "straddle" \in Races
    /\ repo' = [repo EXCEPT ![n] = repo[Rotator]]
    /\ UNCHANGED <<rotating, request, token>>

-----------------------------------------------------------------------------
(* Requests *)

\* load_keys lists the directory ...
Load(n, op) ==
    /\ request = NoRequest
    /\ op = "unpack" => token # NoToken
    /\ request' = [op |-> op, node |-> n, left |-> DOMAIN repo[n],
                   keys |-> Empty, since |-> rotations]
    /\ UNCHANGED <<repo, rotating, token>>

\* ... and reads the files one by one; one that has gone is left out, or
\* raises if it goes between the check and the open.
Read(i) ==
    /\ request # NoRequest /\ i \in request.left
    /\ LET r == repo[request.node] IN
       IF i \in DOMAIN r
       THEN request' = [request EXCEPT !.left = @ \ {i}, !.keys = With(@, i, r[i])]
       ELSE \/ request' = [request EXCEPT !.left = @ \ {i}]
            \/ request' = NoRequest
    /\ UNCHANGED <<repo, rotating, token>>

\* Bug: an empty file is taken for a key.
Loaded_Blank ==
    request # NoRequest /\ request.left = {} /\ request.keys # Empty

\* Without a key, or with one that is none, Fernet raises.
Loaded == /\ request # NoRequest /\ request.left = {}
          /\ request.keys # Empty /\ Blank \notin KeysIn(request.keys)

Pack ==
    /\ Loaded /\ request.op = "pack"
    /\ token' = [key |-> Primary(request.keys), since |-> request.since]
    /\ request' = NoRequest
    /\ UNCHANGED <<repo, rotating>>

\* unpack tells its caller whether one of the keys fits; nothing is changed.
Respond ==
    /\ request # NoRequest /\ request.left = {}
    /\ Loaded => request.op = "unpack"
    /\ request' = NoRequest
    /\ UNCHANGED <<repo, rotating, token>>

-----------------------------------------------------------------------------

Next ==
    \/ Setup \/ ListKeys \/ Promote \/ OpenKey \/ WriteKey \/ Purge \/ Crash
    \/ \E n \in Nodes : Sync(n) \/ \E op \in {"pack", "unpack"} : Load(n, op)
    \/ \E i \in 0..MaxRotations : Read(i)
    \/ Pack \/ Respond

Spec == Init /\ [][Next]_vars

-----------------------------------------------------------------------------
(* Correctness *)

\* Nodes that have been set up.
Ready == {n \in Nodes : repo[n] # Empty}

\* "during both key rotation and synchronization, all nodes must recognize all
\* primary keys": what one node encrypts with now, every node can decrypt, at
\* every step of a rotation and of one after a crash, whichever nodes have been
\* given their copy by then (a node gets its copy in one step).
PrimariesKnown ==
    \A m, n \in Ready : Primary(repo[m]) \in KeysIn(repo[n])

\* A request that gets an answer is not told that a token, made since the set-up,
\* is invalid before max_active_keys - 2 more rotations, even if the token was made by a node
\* not yet synchronised, and whatever the request missed of a rotation while
\* it read the files.
Refused == /\ Loaded /\ request.op = "unpack"
           /\ token.key \notin KeysIn(request.keys)

NeverRefused ==
    Refused /\ token.since > 0 => rotations - token.since > MaxActiveKeys - 3
=============================================================================
