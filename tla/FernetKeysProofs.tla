-------------------------- MODULE FernetKeysProofs --------------------------
(***************************************************************************)
(* TLAPS proofs about FernetKeys, for any number of nodes, of keys and of  *)
(* rotations, with crashes of a rotation.                                  *)
(***************************************************************************)
EXTENDS FernetKeys, FiniteSetTheorems, WellFoundedInduction, TLAPS

(* A set of file names has a first and a last one. *)
LEMMA Extremes ==
    ASSUME NEW n \in Nat, NEW S \in SUBSET (0..n), S # {}
    PROVE  /\ \E i \in S : \A j \in S : i <= j
           /\ \E i \in S : \A j \in S : j <= i
<1>. DEFINE R == StrictSubsetOrdering(0..n)
            Finite == FiniteSubsetsOf(0..n)
            Down == {0..i : i \in S}
            Up == {i..n : i \in S}
<1>1. IsWellFoundedOn(R, Finite)
  BY FS_StrictSubsetOrderingWellFounded
<1>2. \A i \in S : 0..i \in Finite /\ i..n \in Finite
  BY FS_Interval, FS_Subset DEF FiniteSubsetsOf
<1>3. \E U \in Down : \A V \in Down : <<V, U>> \notin R
  <2>1. Down \subseteq Finite /\ Down # {}
    BY <1>2
  <2>. HIDE DEF R, Finite, Down
  <2>. QED
    BY <1>1, <2>1, WFMin
<1>4. \E U \in Up : \A V \in Up : <<V, U>> \notin R
  <2>1. Up \subseteq Finite /\ Up # {}
    BY <1>2
  <2>. HIDE DEF R, Finite, Up
  <2>. QED
    BY <1>1, <2>1, WFMin
<1>5. PICK i \in S : \A j \in S : <<0..j, 0..i>> \notin R
  BY <1>3
<1>6. PICK k \in S : \A j \in S : <<j..n, k..n>> \notin R
  BY <1>4
<1>7. ASSUME NEW j \in S, j < i PROVE FALSE
  <2>1. 0..j \subseteq 0..i /\ i \in 0..i /\ i \notin 0..j /\ 0..i \subseteq 0..n
    BY <1>7
  <2>2. <<0..j, 0..i>> \in R
    BY <2>1 DEF StrictSubsetOrdering
  <2>. QED
    BY <1>5, <2>2
<1>8. ASSUME NEW j \in S, k < j PROVE FALSE
  <2>1. j..n \subseteq k..n /\ k \in k..n /\ k \notin j..n /\ k..n \subseteq 0..n
    BY <1>8
  <2>2. <<j..n, k..n>> \in R
    BY <2>1 DEF StrictSubsetOrdering
  <2>. QED
    BY <1>6, <2>2
<1>. QED
  BY <1>7, <1>8

(* Highest and Lowest are what they are named. *)
LEMMA HighestIs ==
    ASSUME NEW n \in Nat, NEW S \in SUBSET (0..n), S # {}
    PROVE  Highest(S) \in S /\ \A j \in S : j <= Highest(S)
  BY Extremes DEF Highest

LEMMA LowestIs ==
    ASSUME NEW n \in Nat, NEW S \in SUBSET (0..n), S # {}
    PROVE  Lowest(S) \in S /\ \A j \in S : Lowest(S) <= j
  BY Extremes DEF Lowest

LEMMA HighestUnique ==
    ASSUME NEW S \in SUBSET Nat, NEW i \in S, \A j \in S : j <= i
    PROVE  Highest(S) = i
<1>1. \E k \in S : \A j \in S : j <= k
  OBVIOUS
<1>2. Highest(S) \in S /\ \A j \in S : j <= Highest(S)
  BY <1>1 DEF Highest
<1>3. Highest(S) \in Nat /\ i \in Nat /\ Highest(S) <= i /\ i <= Highest(S)
  BY <1>2
<1>. QED
  BY <1>3

(* Removing a key file. *)
LEMMA WithoutIs ==
    ASSUME NEW r, NEW i
    PROVE  /\ DOMAIN Without(r, i) = DOMAIN r \ {i}
           /\ \A j \in DOMAIN r \ {i} : Without(r, i)[j] = r[j]
  BY DEF Without

-----------------------------------------------------------------------------
(* Types *)

\* A repository with names up to d and keys up to m.
Files(r, d, m) == DOMAIN r \subseteq 0..d /\ r \in [DOMAIN r -> 0..m]

\* The names of keys grow with the promotions.
TypeInv ==
    /\ TypeOK
    /\ \A n \in Nodes : Files(repo[n], rotations, made)
    /\ key_files \subseteq 0..rotations
    /\ pc = "listed" => rotations < MaxRotations /\ key_files # {}

LEMMA FilesGrow ==
    ASSUME NEW d \in Nat, NEW e \in Nat, NEW l \in Nat, NEW m \in Nat, d <= e, l <= m,
           NEW r, Files(r, d, l)
    PROVE  Files(r, e, m)
  BY DEF Files

LEMMA FilesWith ==
    ASSUME NEW d \in Nat, NEW m \in Nat, NEW r, Files(r, d, m),
           NEW i \in 0..d, NEW k \in 0..m
    PROVE  Files(With(r, i, k), d, m)
  BY DEF Files, With

LEMMA FilesWithout ==
    ASSUME NEW d \in Nat, NEW m \in Nat, NEW r, Files(r, d, m), NEW i
    PROVE  Files(Without(r, i), d, m)
  BY DEF Files, Without

LEMMA FilesEmpty ==
    ASSUME NEW d \in Nat, NEW m \in Nat
    PROVE  Files(Empty, d, m)
  BY DEF Files, Empty

(* A repository that is not empty has a primary key. *)
LEMMA PrimaryIs ==
    ASSUME NEW d \in Nat, NEW m \in Nat, NEW r, Files(r, d, m), r # Empty
    PROVE  /\ DOMAIN r # {} /\ DOMAIN r \in SUBSET (0..d)
           /\ Highest(DOMAIN r) \in DOMAIN r
           /\ Primary(r) \in KeysIn(r) /\ Primary(r) \in 0..m
<1>1. DOMAIN r # {}
  BY DEF Files, Empty
<1>2. Highest(DOMAIN r) \in DOMAIN r
  BY <1>1, HighestIs DEF Files
<1>. QED
  BY <1>1, <1>2 DEF Files, Primary, KeysIn

(* The types hold at first, and every step keeps them. *)
LEMMA InitTypeInv == Init => TypeInv
<1> SUFFICES ASSUME Init PROVE TypeInv
  OBVIOUS
<1>1. \A n \in Nodes : Files(repo[n], 0, 0)
  BY FilesEmpty DEF Init
<1>. QED
  BY <1>1, BoundsAssumption, FilesGrow
  DEF Init, TypeInv, TypeOK, Files, Repository, Places, Empty

LEMMA NextTypeInv == TypeInv /\ [Next]_vars => TypeInv'
<1> SUFFICES ASSUME TypeInv, [Next]_vars PROVE TypeInv'
  OBVIOUS
<1>. USE BoundsAssumption, NodesAssumption
<1>. DEFINE R == repo[Rotator]
<1>0. /\ rotations \in Nat /\ rotations <= MaxRotations /\ made \in Nat /\ MaxRotations \in Nat
      /\ \A n \in Nodes : Files(repo[n], rotations, made)
      /\ Rotator \in Nodes /\ DOMAIN repo = Nodes /\ Files(R, rotations, made)
  BY DEF TypeInv, TypeOK
\* What is left to show of a step that changes key files.
<1>1. ASSUME DOMAIN repo' = Nodes,
             rotations' \in rotations..MaxRotations, made' \in Nat, made <= made',
             \A n \in Nodes : Files(repo'[n], rotations', made'),
             key_files' \subseteq 0..rotations', pc' \in Places,
             pc' = "listed" => rotations' < MaxRotations /\ key_files' # {},
             crashes' \in 0..MaxCrashes, UNCHANGED <<request, token>>
      PROVE  TypeInv'
  <2>1. \A n \in Nodes : Repository(repo[n])'
    BY <1>0, <1>1, FilesGrow DEF Repository, Files
  <2>2. \/ request' = NoRequest
        \/ /\ DOMAIN request' = {"op", "node", "left", "keys", "since"}
           /\ request'.op \in {"pack", "unpack"} /\ request'.node \in Nodes
           /\ request'.left \subseteq 0..MaxRotations
           /\ Repository(request.keys)' /\ request'.since \in 0..rotations'
    <3>1. CASE request = NoRequest
      BY <1>1, <3>1
    <3>2. CASE request # NoRequest
      <4>1. Repository(request.keys)'
        BY <1>0, <1>1, <3>2 DEF TypeInv, TypeOK, Repository
      <4>. QED
        BY <1>0, <1>1, <3>2, <4>1 DEF TypeInv, TypeOK
    <3>. QED
      BY <3>1, <3>2
  <2>3. token' = NoToken \/ (token'.key \in 1..made' /\ token'.since \in 0..rotations')
    BY <1>0, <1>1 DEF TypeInv, TypeOK
  <2>. QED
    BY <1>0, <1>1, <2>1, <2>2, <2>3 DEF TypeInv, TypeOK
<1>2. ASSUME NEW r, Disk(r), NEW d \in rotations..MaxRotations, NEW m \in Nat, made <= m,
             Files(r, d, m)
      PROVE  DOMAIN repo' = Nodes /\ \A n \in Nodes : Files(repo'[n], d, m)
  BY <1>0, <1>2, FilesGrow DEF Disk
<1>a. key_files \subseteq 0..rotations /\ rotations \in rotations..MaxRotations
      /\ crashes \in 0..MaxCrashes
  BY <1>0 DEF TypeInv, TypeOK
<1>3. CASE Setup \/ ListKeys \/ Crash
  <2>1. CASE ListKeys
    <3>1. DOMAIN R \subseteq 0..rotations /\ DOMAIN R # {}
      BY <1>0, <2>1, PrimaryIs DEF Files, ListKeys
    <3>. QED
      BY <1>0, <1>a, <1>1, <2>1, <3>1 DEF ListKeys, Places
  <2>2. CASE Setup \/ Crash
    <3>1. /\ UNCHANGED <<repo, key_files, made, rotations, request, token>>
          /\ crashes' \in 0..MaxCrashes /\ pc' \in {"setup", "idle"}
      BY <1>0, <1>a, <2>2 DEF Setup, Crash
    <3>. QED
      BY <1>0, <1>a, <1>1, <3>1 DEF Places
  <2>. QED
    BY <1>3, <2>1, <2>2
<1>4. CASE Promote
  <2>1. CASE 0 \in DOMAIN R
    <3>. DEFINE new == Highest(key_files) + 1
    <3>1. rotations < MaxRotations /\ new \in 1..(rotations + 1)
      <4>1. rotations < MaxRotations /\ key_files # {}
        BY <1>4 DEF Promote, TypeInv
      <4>2. Highest(key_files) \in 0..rotations
        BY <1>0, <1>a, <4>1, HighestIs
      <4>. QED
        BY <1>0, <4>1, <4>2
    <3>2. Files(R, rotations + 1, made)
      BY <1>0, FilesGrow
    <3>3. R[0] \in 0..made
      BY <1>0, <2>1 DEF Files
    <3>4. Files(With(Without(R, 0), new, R[0]), rotations + 1, made)
      <4>1. Files(Without(R, 0), rotations + 1, made)
        BY <1>0, <3>2, FilesWithout
      <4>. HIDE DEF new
      <4>. QED
        BY <1>0, <3>1, <3>3, <4>1, FilesWith
    <3>5. Disk(With(Without(R, 0), new, R[0])) /\ rotations' = rotations + 1
          /\ key_files' = (key_files \ {0}) \cup {new} /\ pc' = "renamed"
          /\ UNCHANGED <<made, crashes, request, token>>
      BY <1>4, <2>1 DEF Promote
    <3>. HIDE DEF new
    <3>6. rotations' \in rotations..MaxRotations /\ key_files' \subseteq 0..rotations'
      BY <1>0, <1>a, <3>1, <3>5
    <3>. QED
      BY <1>0, <1>a, <1>1, <1>2, <3>4, <3>5, <3>6 DEF Places
  <2>2. CASE 0 \notin DOMAIN R
    <3>1. UNCHANGED <<repo, key_files, made, rotations, crashes, request, token>>
          /\ pc' = "idle"
      BY <1>4, <2>2 DEF Promote
    <3>. QED
      BY <1>0, <1>a, <1>1, <3>1 DEF Places
  <2>. QED
    BY <2>1, <2>2
<1>5. CASE OpenKey
  <2>1. Files(With(R, 0, Blank), rotations, made)
    BY <1>0, FilesWith DEF Blank
  <2>. QED
    BY <1>0, <1>1, <1>2, <1>5, <2>1 DEF OpenKey, Places, TypeInv, TypeOK
<1>6. CASE WriteKey
  <2>1. Files(With(R, 0, made + 1), rotations, made + 1)
    BY <1>0, FilesWith, FilesGrow
  <2>. QED
    BY <1>0, <1>1, <1>2, <1>6, <2>1 DEF WriteKey, Places, TypeInv, TypeOK
<1>7. CASE Purge
  <2>1. Files(Without(R, Purged), rotations, made)
    BY <1>0, FilesWithout
  <2>. QED
    BY <1>0, <1>1, <1>2, <1>7, <2>1 DEF Purge, Places, TypeInv, TypeOK
<1>8. ASSUME NEW n \in Nodes, Sync(n) PROVE TypeInv'
  BY <1>0, <1>1, <1>8 DEF Sync, rotating, TypeInv, TypeOK
<1>9. ASSUME NEW n \in Nodes, NEW op \in {"pack", "unpack"}, Load(n, op) PROVE TypeInv'
  <2>1. Repository(Empty) /\ DOMAIN repo[n] \subseteq 0..MaxRotations
    BY <1>0, FilesEmpty DEF Files, Repository
  <2>. QED
    BY <1>0, <1>9, <2>1 DEF Load, rotating, TypeInv, TypeOK, Repository
<1>10. ASSUME NEW i \in 0..MaxRotations, Read(i) PROVE TypeInv'
  <2>1. CASE request' = NoRequest
    BY <1>10, <2>1 DEF Read, rotating, TypeInv, TypeOK, Repository
  <2>2. CASE request' = [request EXCEPT !.left = @ \ {i}]
    BY <1>10, <2>2 DEF Read, rotating, TypeInv, TypeOK, Repository, NoRequest
  <2>3. CASE LET r == repo[request.node] IN
             i \in DOMAIN r
               /\ request' = [request EXCEPT !.left = @ \ {i}, !.keys = With(@, i, r[i])]
    <3>1. Repository(With(request.keys, i, repo[request.node][i]))
      <4>1. Files(request.keys, MaxRotations, made) /\ request.node \in Nodes
        BY <1>10 DEF Read, TypeInv, TypeOK, Repository, Files
      <4>2. repo[request.node][i] \in 0..made
        BY <1>0, <2>3, <4>1 DEF Files
      <4>3. Files(With(request.keys, i, repo[request.node][i]), MaxRotations, made)
        BY <1>0, <4>1, <4>2, FilesWith
      <4>. QED
        BY <4>3 DEF Files, Repository
    <3>2. /\ DOMAIN request' = {"op", "node", "left", "keys", "since"}
          /\ request'.op = request.op /\ request'.node = request.node
          /\ request'.left = request.left \ {i} /\ request'.since = request.since
          /\ request'.keys = With(request.keys, i, repo[request.node][i])
      BY <1>10, <2>3 DEF Read, TypeInv, TypeOK
    <3>. QED
      BY <1>10, <3>1, <3>2 DEF Read, rotating, TypeInv, TypeOK, Repository
  <2>. QED
    BY <1>10, <2>1, <2>2, <2>3 DEF Read
<1>11. CASE Pack
  <2>1. Files(request.keys, MaxRotations, made) /\ request.since \in 0..rotations
    BY <1>11 DEF Pack, Loaded, TypeInv, TypeOK, Repository, Files
  <2>2. Primary(request.keys) \in 1..made
    BY <1>0, <1>11, <2>1, PrimaryIs DEF Pack, Loaded, Blank
  <2>. QED
    BY <1>0, <1>11, <2>1, <2>2 DEF Pack, rotating, TypeInv, TypeOK, Repository
<1>12. CASE Respond \/ UNCHANGED vars
  BY <1>12 DEF Respond, vars, rotating, TypeInv, TypeOK, Repository
<1>. QED
  BY <1>3, <1>4, <1>5, <1>6, <1>7, <1>8, <1>9, <1>10, <1>11, <1>12 DEF Next

(* The types, with the bound on the names of keys that they need. *)
LEMMA TypeInvariant == Spec => []TypeInv
  BY InitTypeInv, NextTypeInv, PTL DEF Spec

(* Type correctness of rotations, copies and requests; no token is encrypted *)
(* with an empty key file.                                                   *)
THEOREM TypeCorrect == Spec => []TypeOK
<1>1. TypeInv => TypeOK
  BY DEF TypeInv
<1>. QED
  BY <1>1, TypeInvariant, PTL
-----------------------------------------------------------------------------
(* All nodes know all primary keys.  PrimariesKnown is not inductive: while  *)
(* keys are rotated, the primary keys of nodes before and after the          *)
(* promotion are the two newest files of the rotator, which the purge of the *)
(* oldest one leaves alone as long as there are more.                        *)

Disc == repo[Rotator]

\* The file i and the newest one of the rotator are the only primary keys.
Kept(i) ==
    /\ i \in key_files
    /\ \A j \in key_files : j > i => j = Highest(key_files)
    /\ \A n \in Ready : /\ {Disc[i], Disc[Highest(key_files)]} \subseteq KeysIn(repo[n])
                        /\ Primary(repo[n]) \in {Disc[i], Disc[Highest(key_files)]}

\* Nodes get what the rotator has, and keys are promoted on nodes in sync.
Phases ==
    /\ Disc = Empty => Ready = {}
    /\ pc = "setup" => Disc = Empty
    /\ pc \in {"bootstrap", "bootstrapped"} => Ready = {Rotator}
    /\ pc = "listed" => /\ key_files = DOMAIN Disc
                        /\ \A n \in Ready : repo[n] = Disc
    /\ pc \in {"renamed", "opened", "written"} =>
         /\ key_files = DOMAIN Disc \ {0}
         /\ pc = "renamed" => 0 \notin DOMAIN Disc
         /\ \E i \in Nat : Kept(i)

KeysInv == TypeInv /\ Phases /\ PrimariesKnown

(* What follows of repositories and names from the types. *)
LEMMA RepoFacts ==
    ASSUME TypeInv
    PROVE  /\ rotations \in Nat /\ made \in Nat /\ DOMAIN repo = Nodes /\ Rotator \in Nodes
           /\ \A n \in Nodes : Files(repo[n], rotations, made)
           /\ \A n \in Ready : Primary(repo[n]) \in KeysIn(repo[n])
           /\ key_files \in SUBSET (0..rotations)
           /\ key_files # {} => /\ Highest(key_files) \in key_files
                                /\ \A j \in key_files : j <= Highest(key_files)
<1>1. /\ rotations \in Nat /\ made \in Nat /\ DOMAIN repo = Nodes /\ Rotator \in Nodes
      /\ \A n \in Nodes : Files(repo[n], rotations, made)
      /\ key_files \in SUBSET (0..rotations)
  BY BoundsAssumption, NodesAssumption DEF TypeInv, TypeOK
<1>. QED
  BY <1>1, PrimaryIs, HighestIs DEF Ready

(* Among three files or more the oldest is neither of the two newest. *)
LEMMA OldestIsPurged ==
    ASSUME TypeInv, NEW i \in Nat, Kept(i), MaxActiveKeys >= 3, Excess
    PROVE  Lowest(key_files) \in key_files \ {i, Highest(key_files)}
<1>. DEFINE top == Highest(key_files)
<1>1. /\ key_files \in SUBSET (0..rotations) /\ rotations \in Nat /\ i \in key_files
      /\ top \in key_files /\ \A j \in key_files : j <= top
      /\ IsFiniteSet(key_files)
  <2>1. IsFiniteSet(0..rotations)
    BY RepoFacts, FS_Interval
  <2>2. key_files \in SUBSET (0..rotations)
    BY RepoFacts
  <2>3. IsFiniteSet(key_files)
    BY <2>1, <2>2, FS_Subset
  <2>. QED
    BY <2>2, <2>3, RepoFacts DEF Kept
<1>2. Lowest(key_files) \in key_files /\ \A j \in key_files : Lowest(key_files) <= j
  BY <1>1, LowestIs
<1>3. Cardinality(key_files) >= 3
  BY KeysAssumption, FS_CardinalityType, <1>1 DEF Excess
<1>4. IsFiniteSet({i, top}) /\ Cardinality({i, top}) <= 2
  <2>1. IsFiniteSet({i}) /\ Cardinality({i}) = 1
    BY FS_Singleton
  <2>2. /\ IsFiniteSet({i} \cup {top})
        /\ Cardinality({i} \cup {top}) = IF top \in {i} THEN 1 ELSE 1 + 1
    BY <2>1, FS_AddElement
  <2>3. {i, top} = {i} \cup {top}
    OBVIOUS
  <2>. QED
    BY <2>2, <2>3
<1>5. ~(key_files \subseteq {i, top})
  <2>1. SUFFICES ASSUME key_files \in SUBSET {i, top} PROVE FALSE
    OBVIOUS
  <2>2. Cardinality(key_files) <= Cardinality({i, top})
    BY <1>4, <2>1, FS_Subset
  <2>3. Cardinality(key_files) \in Nat /\ Cardinality({i, top}) \in Nat
    BY <1>1, <1>4, FS_CardinalityType
  <2>. QED
    BY <1>3, <1>4, <2>2, <2>3
<1>6. PICK j \in key_files : j # i /\ j # top
  BY <1>5
<1>7. j \in Nat /\ top \in Nat /\ Lowest(key_files) \in Nat /\ Lowest(key_files) <= j
  <2>1. key_files \subseteq Nat
    BY <1>1
  <2>. QED
    BY <1>1, <1>2, <2>1
<1>8. j < i /\ i <= top
  BY <1>1, <1>6, <1>7 DEF Kept
<1>. QED
  BY <1>2, <1>7, <1>8

(* A copy of the rotator's repository. *)
LEMMA SyncKeeps ==
    ASSUME KeysInv, NEW n \in Nodes, Sync(n)
    PROVE  Phases' /\ PrimariesKnown'
<1>0. /\ TypeInv /\ Phases /\ PrimariesKnown
      /\ DOMAIN repo = Nodes /\ Rotator \in Nodes
      /\ \A m \in Ready : Primary(repo[m]) \in KeysIn(repo[m])
  BY RepoFacts DEF KeysInv
<1>1. /\ Disc' = Disc /\ repo'[n] = Disc /\ pc' = pc /\ key_files' = key_files
      /\ \A m \in Nodes \ {n} : repo'[m] = repo[m]
      /\ pc \notin {"bootstrap", "bootstrapped"}
  BY <1>0 DEF Sync, Disc, rotating
<1>2. Disc # Empty /\ pc # "setup"
  BY <1>0 DEF Sync, Phases, Ready, Disc
<1>3. Rotator \in Ready /\ Ready' = Ready \cup {n}
  BY <1>0, <1>1, <1>2 DEF Ready, Disc
\* Every repository is one that there was before.
<1>a. ASSUME NEW m \in Ready' PROVE \E l \in Ready : repo'[m] = repo[l]
  BY <1>1, <1>3, <1>a DEF Ready, Disc
<1>4. PrimariesKnown'
  <2>1. SUFFICES ASSUME NEW l \in Ready', NEW m \in Ready'
                 PROVE  Primary(repo'[l]) \in KeysIn(repo'[m])
    BY DEF PrimariesKnown
  <2>2. PICK k \in Ready, h \in Ready : repo'[l] = repo[k] /\ repo'[m] = repo[h]
    BY <1>a
  <2>. QED
    BY <1>0, <2>2 DEF PrimariesKnown
<1>5. ASSUME NEW i \in Nat, Kept(i) PROVE Kept(i)'
  <2>1. ASSUME NEW m \in Ready'
        PROVE  /\ {Disc[i], Disc[Highest(key_files)]} \subseteq KeysIn(repo'[m])
               /\ Primary(repo'[m]) \in {Disc[i], Disc[Highest(key_files)]}
    <3>1. PICK l \in Ready : repo'[m] = repo[l]
      BY <1>a
    <3>. QED
      BY <1>5, <3>1 DEF Kept
  <2>. QED
    BY <1>1, <1>5, <2>1 DEF Kept
<1>6. pc = "listed" => \A m \in Ready' : repo'[m] = Disc
  BY <1>0, <1>a DEF Phases
<1>7. pc \in {"renamed", "opened", "written"} => \E i \in Nat : Kept(i)'
  BY <1>0, <1>5 DEF Phases
<1>. QED
  BY <1>0, <1>1, <1>2, <1>4, <1>6, <1>7 DEF Phases

(* A promotion, with all nodes in sync. *)
LEMMA PromoteKeeps ==
    ASSUME KeysInv, Promote
    PROVE  Phases' /\ PrimariesKnown'
<1>. DEFINE new == Highest(key_files) + 1
            old == IF key_files = {0} THEN new ELSE Highest(key_files)
<1>0. /\ TypeInv /\ Phases /\ PrimariesKnown /\ pc = "listed"
      /\ DOMAIN repo = Nodes /\ Rotator \in Nodes
      /\ \A m \in Ready : Primary(repo[m]) \in KeysIn(repo[m])
  BY RepoFacts DEF KeysInv, Promote
<1>1. /\ key_files = DOMAIN Disc /\ key_files # {} /\ \A n \in Ready : repo[n] = Disc
      /\ Highest(key_files) \in key_files /\ Highest(key_files) \in Nat
      /\ \A j \in key_files : j <= Highest(key_files) /\ j \in Nat
  <2>1. key_files = DOMAIN Disc /\ key_files # {} /\ \A n \in Ready : repo[n] = Disc
    BY <1>0 DEF Phases, TypeInv
  <2>2. key_files \subseteq Nat
    BY <1>0, RepoFacts
  <2>. QED
    BY <1>0, <2>1, <2>2, RepoFacts
<1>2. CASE 0 \notin DOMAIN Disc
  <2>1. UNCHANGED <<repo, key_files>> /\ pc' = "idle"
    BY <1>2 DEF Promote, Disc
  <2>. QED
    BY <1>0, <2>1 DEF Phases, PrimariesKnown, Ready, Disc
<1>3. CASE 0 \in DOMAIN Disc
  <2>1. /\ Disc' = With(Without(Disc, 0), new, Disc[0])
        /\ key_files' = (key_files \ {0}) \cup {new} /\ pc' = "renamed"
        /\ \A n \in Nodes \ {Rotator} : repo'[n] = repo[n]
    BY <1>0, <1>3 DEF Promote, Disk, Disc
  <2>. HIDE DEF new
  <2>2. /\ DOMAIN Disc' = key_files' /\ 0 \notin key_files' /\ Disc'[new] = Disc[0]
        /\ \A j \in key_files \ {0, new} : Disc'[j] = Disc[j]
        /\ Disc' # Empty
    <3>1. /\ DOMAIN Without(Disc, 0) = key_files \ {0}
          /\ \A j \in key_files \ {0} : Without(Disc, 0)[j] = Disc[j]
      BY <1>1, WithoutIs
    <3>2. new # 0
      BY <1>1 DEF new
    <3>3. /\ DOMAIN Disc' = (key_files \ {0}) \cup {new} /\ Disc'[new] = Disc[0]
          /\ \A j \in (key_files \ {0}) \ {new} : Disc'[j] = Without(Disc, 0)[j]
          /\ Disc' # Empty
      <4>. DEFINE r == Without(Disc, 0)
      <4>1. /\ DOMAIN With(r, new, Disc[0]) = DOMAIN r \cup {new}
            /\ With(r, new, Disc[0])[new] = Disc[0]
            /\ \A j \in DOMAIN r \ {new} : With(r, new, Disc[0])[j] = r[j]
            /\ With(r, new, Disc[0]) # Empty
        <5>. HIDE DEF r
        <5>. QED
          BY DEF With, Empty
      <4>. QED
        BY <2>1, <3>1, <4>1
    <3>. QED
      BY <2>1, <3>1, <3>2, <3>3
  <2>3. new \in Nat /\ \A j \in key_files : j < new
    BY <1>1 DEF new
  <2>4. Highest(key_files') = new
    <3>1. key_files' \in SUBSET Nat /\ new \in key_files' /\ \A j \in key_files' : j <= new
      BY <1>1, <2>1, <2>3
    <3>. QED
      BY <3>1, HighestUnique
  <2>5. old \in key_files' /\ \A j \in key_files' : j > old => j = new
    BY <1>1, <2>1, <2>3
  <2>6. Disc'[old] = Primary(Disc) /\ Disc'[new] = Disc[0]
    <3>1. CASE key_files = {0}
      BY <1>1, <2>2, <3>1 DEF Primary
    <3>2. CASE key_files # {0}
      <4>1. Highest(key_files) \in key_files \ {0, new}
        BY <1>1, <1>3, <2>3, <3>2
      <4>. QED
        BY <1>1, <2>2, <3>2, <4>1 DEF Primary
    <3>. QED
      BY <3>1, <3>2
  <2>7. Disc # Empty /\ Rotator \in Ready /\ Ready' = Ready
    BY <1>0, <1>3, <2>1, <2>2 DEF Ready, Disc, Empty
  <2>8. ASSUME NEW n \in Ready
        PROVE  /\ {Disc'[old], Disc'[new]} \subseteq KeysIn(repo'[n])
               /\ Primary(repo'[n]) \in {Disc'[old], Disc'[new]}
    <3>1. CASE n = Rotator
      BY <2>2, <2>4, <2>5, <3>1, <2>1 DEF KeysIn, Primary, Disc
    <3>2. CASE n # Rotator
      <4>1. repo'[n] = Disc
        BY <1>1, <2>1, <3>2 DEF Ready
      <4>2. Disc[0] \in KeysIn(Disc) /\ Primary(Disc) \in KeysIn(Disc)
        BY <1>0, <1>3, <2>7 DEF KeysIn, Disc
      <4>. QED
        BY <2>6, <4>1, <4>2
    <3>. QED
      BY <3>1, <3>2
  <2>9. \E i \in Nat : Kept(i)'
    <3>1. old \in Nat
      BY <1>1, <2>3
    <3>. HIDE DEF old
    <3>2. PICK i \in Nat : i = old
      BY <3>1
    <3>. QED
      BY <2>4, <2>5, <2>7, <2>8, <3>2 DEF Kept
  <2>10. PrimariesKnown'
    BY <2>7, <2>8 DEF PrimariesKnown
  <2>. QED
    BY <2>1, <2>2, <2>7, <2>9, <2>10 DEF Phases
<1>. QED
  BY <1>2, <1>3

(* Opening and writing a staged key, which leaves the others alone. *)
LEMMA StagedKeeps ==
    ASSUME KeysInv, OpenKey \/ WriteKey
    PROVE  Phases' /\ PrimariesKnown'
<1>0. /\ TypeInv /\ Phases /\ PrimariesKnown
      /\ DOMAIN repo = Nodes /\ Rotator \in Nodes /\ rotations \in Nat /\ made \in Nat
      /\ \A m \in Ready : Primary(repo[m]) \in KeysIn(repo[m])
      /\ \A n \in Nodes : Files(repo[n], rotations, made)
      /\ key_files \in SUBSET (0..rotations)
  BY RepoFacts DEF KeysInv
<1>1. PICK key \in 0..(made + 1) : Disc' = With(Disc, 0, key)
  BY <1>0 DEF OpenKey, WriteKey, Disk, Disc, Blank
<1>2. /\ DOMAIN Disc' = DOMAIN Disc \cup {0} /\ Disc' # Empty
      /\ \A j \in DOMAIN Disc \ {0} : Disc'[j] = Disc[j]
  <2>1. /\ DOMAIN With(Disc, 0, key) = DOMAIN Disc \cup {0}
        /\ With(Disc, 0, key) # Empty
        /\ \A j \in DOMAIN Disc \ {0} : With(Disc, 0, key)[j] = Disc[j]
    BY DEF With, Empty
  <2>. QED
    BY <1>1, <2>1
<1>3. /\ key_files' = key_files /\ \A n \in Nodes \ {Rotator} : repo'[n] = repo[n]
      /\ Ready' = Ready \cup {Rotator}
  BY <1>0, <1>2 DEF OpenKey, WriteKey, Disk, Ready, Disc
\* The new repository knows its own primary key.
<1>4. Primary(Disc') \in KeysIn(Disc')
  <2>1. Files(Disc, rotations, made + 1)
    BY <1>0, FilesGrow DEF Disc
  <2>2. Files(Disc', rotations, made + 1)
    BY <1>0, <1>1, <2>1, FilesWith
  <2>. QED
    BY <1>0, <1>2, <2>2, PrimaryIs
<1>5. CASE pc \in {"setup", "bootstrap"}
  <2>1. Ready' = {Rotator} /\ pc' \in {"bootstrap", "bootstrapped"}
    BY <1>0, <1>3, <1>5 DEF Phases, OpenKey, WriteKey
  <2>. QED
    BY <1>2, <1>4, <2>1 DEF Phases, PrimariesKnown, Disc
<1>6. CASE pc \in {"renamed", "opened"}
  <2>1. PICK i \in Nat : Kept(i)
    BY <1>0, <1>6 DEF Phases
  <2>. DEFINE top == Highest(key_files)
  <2>2. key_files = DOMAIN Disc \ {0} /\ i \in key_files /\ top \in key_files
    BY <1>0, <1>6, <2>1, RepoFacts DEF Phases, Kept
  <2>3. Disc'[i] = Disc[i] /\ Disc'[top] = Disc[top] /\ key_files' = DOMAIN Disc' \ {0}
    BY <1>2, <1>3, <2>2
  <2>4. Primary(Disc') = Disc'[top]
    <3>1. \A j \in DOMAIN Disc' : j <= top
      <4>1. \A j \in key_files : j <= top
        BY <2>2, RepoFacts, <1>0
      <4>2. top \in Nat
        BY <1>0, <2>2
      <4>3. \A j \in DOMAIN Disc' : j \in key_files \/ j = 0
        BY <1>2, <2>2
      <4>. HIDE DEF top
      <4>. QED
        BY <4>1, <4>2, <4>3
    <3>2. DOMAIN Disc' \in SUBSET Nat /\ top \in DOMAIN Disc'
      BY <1>0, <1>2, <2>2
    <3>. HIDE DEF top
    <3>3. Highest(DOMAIN Disc') = top
      BY <3>1, <3>2, HighestUnique
    <3>. QED
      BY <3>3 DEF Primary
  <2>5. ASSUME NEW n \in Ready'
        PROVE  /\ {Disc'[i], Disc'[top]} \subseteq KeysIn(repo'[n])
               /\ Primary(repo'[n]) \in {Disc'[i], Disc'[top]}
    <3>1. CASE n = Rotator
      BY <1>2, <2>2, <2>4, <3>1 DEF KeysIn, Disc
    <3>2. CASE n # Rotator
      BY <1>3, <2>1, <2>3, <3>2 DEF Kept, Ready
    <3>. QED
      BY <3>1, <3>2
  <2>6. Kept(i)'
    BY <1>3, <2>1, <2>5 DEF Kept
  <2>7. PrimariesKnown'
    BY <2>5 DEF PrimariesKnown
  <2>8. pc' \in {"opened", "written"}
    BY <1>6 DEF OpenKey, WriteKey
  <2>. QED
    BY <1>2, <2>3, <2>6, <2>7, <2>8 DEF Phases
<1>. QED
  BY <1>5, <1>6 DEF OpenKey, WriteKey

(* The purge, which takes neither of the two newest keys. *)
LEMMA PurgeKeeps ==
    ASSUME KeysInv, MaxActiveKeys >= 3, Purge
    PROVE  Phases' /\ PrimariesKnown'
<1>0. /\ TypeInv /\ Phases /\ PrimariesKnown
      /\ DOMAIN repo = Nodes /\ Rotator \in Nodes /\ rotations \in Nat
      /\ key_files \in SUBSET (0..rotations)
  BY RepoFacts DEF KeysInv
<1>1. CASE ~Excess
  BY <1>0, <1>1 DEF Purge, Phases, PrimariesKnown, Ready, Disc
<1>2. CASE Excess
  <2>1. PICK i \in Nat : Kept(i)
    BY <1>0 DEF Phases, Purge
  <2>. DEFINE top == Highest(key_files)
              gone == Lowest(key_files)
  <2>2. /\ key_files = DOMAIN Disc \ {0} /\ i \in key_files /\ top \in key_files
        /\ \A j \in key_files : j <= top
    BY <1>0, <2>1, RepoFacts DEF Phases, Kept, Purge
  <2>3. gone \in key_files \ {i, top}
    BY <1>0, <1>2, <2>1, OldestIsPurged
  <2>4. /\ Disc' = Without(Disc, gone) /\ key_files' = key_files \ {gone} /\ pc' = "written"
        /\ \A n \in Nodes \ {Rotator} : repo'[n] = repo[n]
    BY <1>0, <1>2 DEF Purge, Purged, Disk, Disc
  <2>. HIDE DEF gone
  <2>5. /\ DOMAIN Disc' = DOMAIN Disc \ {gone}
        /\ \A j \in DOMAIN Disc \ {gone} : Disc'[j] = Disc[j]
    BY <2>4, WithoutIs
  <2>6. /\ key_files' = DOMAIN Disc' \ {0} /\ i \in key_files' /\ top \in key_files'
        /\ Disc'[i] = Disc[i] /\ Disc'[top] = Disc[top]
    BY <2>2, <2>3, <2>4, <2>5
  <2>7. top \in Nat /\ key_files' \in SUBSET Nat /\ DOMAIN Disc' \in SUBSET Nat
    BY <1>0, <2>2, <2>4, <2>6
  <2>8. \A j \in DOMAIN Disc' : j <= top
    BY <2>2, <2>5, <2>7
  <2>9. Highest(key_files') = top /\ Primary(Disc') = Disc'[top]
    <3>. HIDE DEF top
    <3>1. Highest(key_files') = top
      BY <2>2, <2>4, <2>6, <2>7, HighestUnique
    <3>2. Highest(DOMAIN Disc') = top
      BY <2>6, <2>7, <2>8, HighestUnique
    <3>. QED
      BY <3>1, <3>2 DEF Primary
  <2>10. Ready' = Ready /\ Disc # Empty /\ Disc' # Empty
    <3>1. Disc # Empty /\ Disc' # Empty
      BY <2>2, <2>6 DEF Empty
    <3>. QED
      BY <1>0, <2>4, <3>1 DEF Ready, Disc
  <2>11. ASSUME NEW n \in Ready'
         PROVE  /\ {Disc'[i], Disc'[top]} \subseteq KeysIn(repo'[n])
                /\ Primary(repo'[n]) \in {Disc'[i], Disc'[top]}
    <3>1. CASE n = Rotator
      BY <2>6, <2>9, <3>1 DEF KeysIn, Disc
    <3>2. CASE n # Rotator
      BY <2>1, <2>4, <2>6, <2>10, <3>2 DEF Kept, Ready
    <3>. QED
      BY <3>1, <3>2
  <2>12. Kept(i)'
    BY <2>1, <2>4, <2>6, <2>9, <2>11 DEF Kept
  <2>13. PrimariesKnown'
    BY <2>11 DEF PrimariesKnown
  <2>. QED
    BY <2>4, <2>6, <2>10, <2>12, <2>13 DEF Phases
<1>. QED
  BY <1>1, <1>2

(* Every step keeps what the rotation relies on. *)
LEMMA NextKeysInv ==
    ASSUME MaxActiveKeys >= 3, "setup" \notin Races, KeysInv, [Next]_vars
    PROVE  KeysInv'
<1>0. /\ TypeInv /\ Phases /\ PrimariesKnown
      /\ DOMAIN repo = Nodes /\ Rotator \in Nodes
  BY RepoFacts DEF KeysInv
<1>1. TypeInv'
  BY <1>0, NextTypeInv
<1>. SUFFICES Phases' /\ PrimariesKnown'
  BY <1>1 DEF KeysInv
\* A step that writes no key file.
<1>2. ASSUME UNCHANGED repo PROVE Disc' = Disc /\ Ready' = Ready /\ PrimariesKnown'
  BY <1>0, <1>2 DEF PrimariesKnown, Ready, Disc
<1>3. CASE Setup
  <2>1. UNCHANGED repo /\ pc' = "setup" /\ Disc = Empty
    BY <1>3 DEF Setup, Disc
  <2>. QED
    BY <1>0, <1>2, <2>1 DEF Phases
<1>4. CASE ListKeys
  <2>1. UNCHANGED repo /\ pc' = "listed" /\ key_files' = DOMAIN Disc
    BY <1>4 DEF ListKeys, Disc
  <2>2. \A n \in Ready : repo[n] = Disc
    BY <1>0, <1>4 DEF ListKeys, Phases, Ready, Disc
  <2>. QED
    BY <1>0, <1>2, <2>1, <2>2 DEF Phases
<1>5. CASE Crash
  <2>1. UNCHANGED repo /\ pc' = "idle"
    BY <1>5 DEF Crash
  <2>. QED
    BY <1>0, <1>2, <2>1 DEF Phases
<1>6. ASSUME UNCHANGED <<repo, pc, key_files>> PROVE Phases' /\ PrimariesKnown'
  <2>1. \A i \in Nat : Kept(i)' <=> Kept(i)
    BY <1>2, <1>6 DEF Kept
  <2>. QED
    BY <1>0, <1>2, <1>6, <2>1 DEF Phases
<1>7. ASSUME NEW n \in Nodes, NEW op \in {"pack", "unpack"}, Load(n, op)
      PROVE  Phases' /\ PrimariesKnown'
  BY <1>6, <1>7 DEF Load, rotating
<1>8. ASSUME NEW i \in 0..MaxRotations, Read(i) PROVE Phases' /\ PrimariesKnown'
  BY <1>6, <1>8 DEF Read, rotating
<1>a. CASE Pack \/ Respond \/ UNCHANGED vars
  BY <1>6, <1>a DEF Pack, Respond, vars, rotating
<1>. QED
  BY <1>3, <1>4, <1>5, <1>7, <1>8, <1>a, SyncKeeps, PromoteKeeps, StagedKeeps, PurgeKeeps
  DEF Next

(* With three keys or more, and if a repository is not set up a second time, *)
(* every node can decrypt what any other node encrypts, at every step of     *)
(* every rotation, killed or not, whichever nodes have been given their copy, *)
(* in any order and each in one step.                                        *)
THEOREM AllPrimariesKnown ==
    ASSUME MaxActiveKeys >= 3, "setup" \notin Races
    PROVE  Spec => []PrimariesKnown
<1>1. Init => KeysInv
  <2>1. Init => Ready = {}
    BY DEF Init, Ready
  <2>. QED
    BY <2>1, InitTypeInv DEF Init, KeysInv, Phases, PrimariesKnown
<1>2. KeysInv /\ [Next]_vars => KeysInv'
  BY NextKeysInv
<1>3. KeysInv => PrimariesKnown
  BY DEF KeysInv
<1>. QED
  BY <1>1, <1>2, <1>3, PTL DEF Spec
-----------------------------------------------------------------------------
(* How old a key is.  NeverRefused is not inductive: that a token can be     *)
(* decrypted depends on the file of its key not being purged yet, on every   *)
(* node having the files that the rotator has, and, in the midst of a        *)
(* request, on the key having been read or its file being listed and there.  *)

\* The file j of the rotator has a promoted key and no rotation has purged it.
Lasts(j) == j \in 1..rotations /\ j >= rotations - MaxActiveKeys + 2

\* A token of a request of that age must be accepted still.
Young(since) == since > 0 /\ rotations - since <= MaxActiveKeys - 3

\* The key was primary at most one promotion before.
Fresh(key, since) ==
    \E j \in 1..rotations : j >= since - 1 /\ Disc[j] = key

\* The request has read the key in file i or will.
Found(i, key, since) ==
    \/ i \in DOMAIN request.keys /\ request.keys[i] = key
    \/ /\ i \in request.left /\ i \in DOMAIN repo[request.node]
       /\ repo[request.node][i] = key
       /\ request.node = Rotator => i \in 1..rotations /\ i >= since - 1

\* Nodes have the keys that have been promoted, and no old primary key.
Ages ==
    /\ \A j \in Nat : Lasts(j) => j \in DOMAIN Disc
    /\ \A n \in Ready : \A j \in DOMAIN Disc \ {0} : Disc[j] \in KeysIn(repo[n])
    /\ \A n \in Ready : rotations > 0 =>
         \E j \in 1..rotations : j >= rotations - 1 /\ Primary(repo[n]) = Disc[j]

TokenAge ==
    token # NoToken /\ Young(token.since) => Fresh(token.key, token.since)

\* The files that a request has seen.
Listed == request.left \cup DOMAIN request.keys

\* The last of the files that a request lists is the one it encrypts with.
RequestAge ==
    request # NoRequest =>
      /\ request.left \cap DOMAIN request.keys = {}
      /\ request.op = "pack" /\ Listed # {} /\ Young(request.since) =>
           \E i \in Listed, j \in 1..rotations :
             /\ \A h \in Listed : h <= i
             /\ j >= request.since - 1
             /\ Found(i, Disc[j], request.since)
      /\ request.op = "unpack" =>
           /\ token # NoToken
           /\ Listed # {} /\ Young(token.since) =>
                \E i \in 0..MaxRotations : Found(i, token.key, token.since)

AgesInv == Ages /\ TokenAge /\ RequestAge

\* The files of the rotator that a step must not purge.
Leaves ==
    /\ rotations' \in Nat /\ rotations <= rotations'
    /\ \A j \in 1..rotations : j >= rotations' - MaxActiveKeys + 2 =>
         j \in DOMAIN Disc' /\ Disc'[j] = Disc[j]

(* The primary key is the one of the last promotion. *)
LEMMA TopIsPrimary ==
    ASSUME NEW d \in Nat, NEW r, DOMAIN r \in SUBSET (0..d), d \in DOMAIN r
    PROVE  Highest(DOMAIN r) = d /\ Primary(r) = r[d]
<1>1. DOMAIN r \in SUBSET Nat /\ \A j \in DOMAIN r : j <= d
  OBVIOUS
<1>2. Highest(DOMAIN r) = d
  BY <1>1, HighestUnique
<1>. QED
  BY <1>2 DEF Primary

(* The file of the last promotion is there. *)
LEMMA AgesFacts ==
    ASSUME KeysInv, Ages, MaxActiveKeys >= 3
    PROVE  /\ TypeInv /\ Phases /\ MaxActiveKeys \in Int
           /\ DOMAIN repo = Nodes /\ Rotator \in Nodes /\ rotations \in Nat
           /\ DOMAIN Disc \in SUBSET (0..rotations)
           /\ \A j \in 1..rotations : Lasts(j) => j \in DOMAIN Disc
           /\ rotations > 0 => /\ rotations \in DOMAIN Disc /\ Disc # Empty
                               /\ Primary(Disc) = Disc[rotations]
<1>1. /\ TypeInv /\ Phases /\ MaxActiveKeys \in Int
      /\ DOMAIN repo = Nodes /\ Rotator \in Nodes /\ rotations \in Nat
      /\ DOMAIN Disc \in SUBSET (0..rotations)
      /\ \A j \in 1..rotations : Lasts(j) => j \in DOMAIN Disc
  BY RepoFacts, KeysAssumption DEF KeysInv, Ages, Files, Disc
<1>2. rotations > 0 => Lasts(rotations)
  BY <1>1 DEF Lasts
<1>3. rotations > 0 => rotations \in DOMAIN Disc
  BY <1>1, <1>2
<1>. QED
  BY <1>1, <1>3, TopIsPrimary DEF Empty

(* A promotion adds a file, whose key all nodes had staged. *)
LEMMA PromoteAges ==
    ASSUME KeysInv, Ages, MaxActiveKeys >= 3, Promote
    PROVE  Ages' /\ Leaves
<1>. DEFINE new == rotations + 1
<1>0. /\ TypeInv /\ Phases /\ MaxActiveKeys \in Int /\ pc = "listed"
      /\ DOMAIN repo = Nodes /\ Rotator \in Nodes /\ rotations \in Nat
      /\ DOMAIN Disc \in SUBSET (0..rotations)
      /\ \A j \in 1..rotations : Lasts(j) => j \in DOMAIN Disc
      /\ rotations > 0 => rotations \in DOMAIN Disc /\ Primary(Disc) = Disc[rotations]
  BY AgesFacts DEF Promote
<1>1. key_files = DOMAIN Disc /\ key_files # {} /\ \A n \in Ready : repo[n] = Disc
  BY <1>0 DEF Phases, TypeInv
<1>2. CASE 0 \notin DOMAIN Disc
  <2>1. UNCHANGED <<repo, rotations>>
    BY <1>2 DEF Promote, Disc
  <2>. QED
    BY <1>0, <2>1 DEF Ages, Leaves, Lasts, Ready, Disc
<1>3. CASE 0 \in DOMAIN Disc
  <2>1. Highest(DOMAIN Disc) = rotations /\ Primary(Disc) = Disc[rotations]
    <3>1. rotations \in DOMAIN Disc
      BY <1>0, <1>3
    <3>. QED
      BY <1>0, <3>1, TopIsPrimary
  <2>2. /\ Disc' = With(Without(Disc, 0), new, Disc[0]) /\ rotations' = new
        /\ \A n \in Nodes \ {Rotator} : repo'[n] = repo[n]
    BY <1>0, <1>1, <1>3, <2>1 DEF Promote, Disk, Disc
  <2>3. /\ DOMAIN Disc' = (DOMAIN Disc \ {0}) \cup {new} /\ Disc'[new] = Disc[0]
        /\ \A j \in DOMAIN Disc \ {0, new} : Disc'[j] = Disc[j]
    <3>. DEFINE r == Without(Disc, 0)
    <3>1. DOMAIN r = DOMAIN Disc \ {0} /\ \A j \in DOMAIN Disc \ {0} : r[j] = Disc[j]
      BY WithoutIs
    <3>2. /\ DOMAIN With(r, new, Disc[0]) = DOMAIN r \cup {new}
          /\ With(r, new, Disc[0])[new] = Disc[0]
          /\ \A j \in DOMAIN r \ {new} : With(r, new, Disc[0])[j] = r[j]
      BY DEF With
    <3>. HIDE DEF r
    <3>. QED
      BY <2>2, <3>1, <3>2 DEF r
  <2>4. new \in Nat /\ new \notin DOMAIN Disc /\ DOMAIN Disc' \in SUBSET (0..new)
    BY <1>0, <2>3
  <2>5. Primary(Disc') = Disc'[new]
    BY <2>3, <2>4, TopIsPrimary
  <2>6. \A n \in Ready' : n = Rotator \/ (n \in Ready /\ repo'[n] = Disc)
    BY <1>0, <1>1, <2>2 DEF Ready
  <2>7. Leaves
    <3>1. ASSUME NEW j \in 1..rotations, j >= rotations' - MaxActiveKeys + 2
          PROVE  j \in DOMAIN Disc' /\ Disc'[j] = Disc[j]
      <4>1. Lasts(j) /\ j # 0 /\ j # new
        BY <1>0, <2>2, <3>1 DEF Lasts
      <4>. QED
        BY <1>0, <2>3, <4>1
    <3>. QED
      BY <1>0, <2>2, <3>1 DEF Leaves
  <2>8. ASSUME NEW j \in Nat, Lasts(j)' PROVE j \in DOMAIN Disc'
    <3>1. j = new \/ (j \in 1..rotations /\ Lasts(j) /\ j # 0)
      BY <1>0, <2>2, <2>8 DEF Lasts
    <3>. QED
      BY <1>0, <2>3, <3>1
  <2>9. ASSUME NEW n \in Ready', NEW j \in DOMAIN Disc' \ {0}
        PROVE  Disc'[j] \in KeysIn(repo'[n])
    <3>1. CASE n = Rotator
      BY <3>1 DEF KeysIn, Disc
    <3>2. CASE n # Rotator
      <4>1. \E i \in DOMAIN Disc : Disc'[j] = Disc[i]
        BY <1>3, <2>3
      <4>. QED
        BY <2>6, <3>2, <4>1 DEF KeysIn
    <3>. QED
      BY <3>1, <3>2
  <2>10. ASSUME NEW n \in Ready'
         PROVE  \E j \in 1..rotations' : j >= rotations' - 1 /\ Primary(repo'[n]) = Disc'[j]
    <3>1. CASE n = Rotator
      BY <1>0, <2>2, <2>5, <3>1 DEF Disc
    <3>2. CASE n # Rotator /\ rotations = 0
      <4>1. Primary(repo'[n]) = Disc'[new]
        BY <2>1, <2>3, <2>6, <3>2
      <4>. QED
        BY <2>2, <3>2, <4>1
    <3>3. CASE n # Rotator /\ rotations # 0
      <4>1. rotations \in DOMAIN Disc \ {0, new} /\ rotations \in 1..rotations'
        BY <1>0, <2>2, <2>4, <3>3
      <4>2. Primary(repo'[n]) = Disc'[rotations]
        BY <2>1, <2>3, <2>6, <3>3, <4>1
      <4>. QED
        BY <1>0, <2>2, <4>1, <4>2
    <3>. QED
      BY <3>1, <3>2, <3>3
  <2>. QED
    BY <2>7, <2>8, <2>9, <2>10 DEF Ages
<1>. QED
  BY <1>2, <1>3

(* Only the staged key's file changes. *)
LEMMA StagedAges ==
    ASSUME KeysInv, Ages, MaxActiveKeys >= 3, OpenKey \/ WriteKey
    PROVE  Ages' /\ Leaves
<1>0. /\ Phases /\ MaxActiveKeys \in Int
      /\ DOMAIN repo = Nodes /\ Rotator \in Nodes /\ rotations \in Nat
      /\ DOMAIN Disc \in SUBSET (0..rotations)
      /\ \A j \in 1..rotations : Lasts(j) => j \in DOMAIN Disc
      /\ rotations > 0 => rotations \in DOMAIN Disc /\ Disc # Empty
  BY AgesFacts
<1>1. PICK key \in 0..(made + 1) : Disc' = With(Disc, 0, key)
  <2>1. made \in Nat
    BY DEF KeysInv, TypeInv, TypeOK
  <2>. QED
    BY <1>0, <2>1 DEF OpenKey, WriteKey, Disk, Disc, Blank
<1>2. /\ DOMAIN Disc' = DOMAIN Disc \cup {0}
      /\ \A j \in DOMAIN Disc \ {0} : Disc'[j] = Disc[j]
  <2>1. /\ DOMAIN With(Disc, 0, key) = DOMAIN Disc \cup {0}
        /\ \A j \in DOMAIN Disc \ {0} : With(Disc, 0, key)[j] = Disc[j]
    BY DEF With
  <2>. QED
    BY <1>1, <2>1
<1>3. /\ rotations' = rotations /\ \A n \in Nodes \ {Rotator} : repo'[n] = repo[n]
      /\ \A n \in Ready' : n = Rotator \/ (n \in Ready /\ repo'[n] = repo[n])
  BY <1>0 DEF OpenKey, WriteKey, Disk, Ready
<1>4. Leaves
  <2>1. \A j \in 1..rotations : j >= rotations - MaxActiveKeys + 2 => Lasts(j) /\ j # 0
    BY <1>0 DEF Lasts
  <2>. QED
    BY <1>0, <1>2, <1>3, <2>1 DEF Leaves
<1>5. ASSUME NEW j \in Nat, Lasts(j)' PROVE j \in DOMAIN Disc'
  BY <1>0, <1>2, <1>3, <1>5 DEF Lasts
<1>6. ASSUME NEW n \in Ready', NEW j \in DOMAIN Disc' \ {0}
      PROVE  Disc'[j] \in KeysIn(repo'[n])
  <2>1. CASE n = Rotator
    BY <2>1 DEF KeysIn, Disc
  <2>2. CASE n # Rotator
    BY <1>2, <1>3, <2>2 DEF Ages
  <2>. QED
    BY <2>1, <2>2
<1>7. ASSUME NEW n \in Ready', rotations > 0
      PROVE  \E j \in 1..rotations : j >= rotations - 1 /\ Primary(repo'[n]) = Disc'[j]
  <2>1. CASE n = Rotator
    <3>1. DOMAIN Disc' \in SUBSET (0..rotations) /\ rotations \in DOMAIN Disc'
      BY <1>0, <1>2, <1>7
    <3>2. Primary(Disc') = Disc'[rotations]
      BY <1>0, <3>1, TopIsPrimary
    <3>. QED
      BY <1>0, <1>7, <2>1, <3>2 DEF Disc
  <2>2. CASE n # Rotator
    <3>1. PICK j \in 1..rotations : j >= rotations - 1 /\ Primary(repo[n]) = Disc[j]
      BY <1>3, <1>7, <2>2 DEF Ages
    <3>2. j \in DOMAIN Disc \ {0}
      BY <1>0, <3>1 DEF Lasts
    <3>. QED
      BY <1>2, <1>3, <2>2, <3>1, <3>2
  <2>. QED
    BY <2>1, <2>2
<1>. QED
  BY <1>3, <1>4, <1>5, <1>6, <1>7 DEF Ages

(* What is purged is older than the keys that count. *)
LEMMA OldIsPurged ==
    ASSUME NEW d \in Nat, NEW S \in SUBSET (0..d), NEW m \in Nat, S # {},
           Cardinality(S) > m
    PROVE  Lowest(S) \in S /\ Lowest(S) <= d - m
<1>1. Lowest(S) \in S /\ \A j \in S : Lowest(S) <= j
  BY LowestIs
<1>. DEFINE I == Lowest(S)..d
<1>2. Lowest(S) \in Nat /\ Lowest(S) <= d /\ S \subseteq I
  <2>1. Lowest(S) \in 0..d /\ \A j \in S : j \in 0..d /\ Lowest(S) <= j
    BY <1>1
  <2>. QED
    BY <2>1
<1>3. IsFiniteSet(I) /\ Cardinality(I) = d - Lowest(S) + 1
  BY <1>2, FS_Interval
<1>4. IsFiniteSet(S) /\ Cardinality(S) <= Cardinality(I)
  BY <1>2, <1>3, FS_Subset
<1>5. Cardinality(S) \in Nat
  BY <1>4, FS_CardinalityType
<1>. QED
  BY <1>1, <1>2, <1>3, <1>4, <1>5

LEMMA PurgeAges ==
    ASSUME KeysInv, Ages, MaxActiveKeys >= 3, Purge
    PROVE  Ages' /\ Leaves
<1>0. /\ TypeInv /\ Phases /\ MaxActiveKeys \in Int
      /\ DOMAIN repo = Nodes /\ Rotator \in Nodes /\ rotations \in Nat
      /\ DOMAIN Disc \in SUBSET (0..rotations)
      /\ \A j \in 1..rotations : Lasts(j) => j \in DOMAIN Disc
      /\ rotations > 0 => rotations \in DOMAIN Disc /\ Disc # Empty
  BY AgesFacts
<1>1. CASE ~Excess
  <2>1. UNCHANGED <<repo, rotations>>
    BY <1>1 DEF Purge
  <2>. QED
    BY <1>0, <2>1 DEF Ages, Leaves, Lasts, Ready, Disc
<1>2. CASE Excess
  <2>. DEFINE gone == Lowest(key_files)
  <2>1. key_files = DOMAIN Disc \ {0} /\ key_files # {}
    BY <1>0 DEF Phases, Kept, Purge
  <2>2. /\ Disc' = Without(Disc, gone) /\ rotations' = rotations
        /\ \A n \in Nodes \ {Rotator} : repo'[n] = repo[n]
    BY <1>0, <1>2 DEF Purge, Purged, Disk, Disc
  <2>3. gone \in key_files /\ gone <= rotations - (MaxActiveKeys - 1)
    <3>1. Cardinality(key_files) > MaxActiveKeys - 1 /\ MaxActiveKeys - 1 \in Nat
      BY <1>0, <1>2 DEF Excess
    <3>. QED
      BY <1>0, <2>1, <3>1, OldIsPurged
  <2>. HIDE DEF gone
  <2>4. /\ DOMAIN Disc' = DOMAIN Disc \ {gone}
        /\ \A j \in DOMAIN Disc \ {gone} : Disc'[j] = Disc[j]
    BY <2>2, WithoutIs
  <2>5. \A j \in 1..rotations : Lasts(j) => j \in DOMAIN Disc \ {gone}
    BY <1>0, <2>1, <2>3 DEF Lasts
  <2>6. Leaves
    BY <1>0, <2>2, <2>4, <2>5 DEF Leaves, Lasts
  <2>7. ASSUME NEW j \in Nat, Lasts(j)' PROVE j \in DOMAIN Disc'
    BY <2>2, <2>4, <2>5, <2>7 DEF Lasts
  <2>8. \A n \in Ready' : n = Rotator \/ (n \in Ready /\ repo'[n] = repo[n])
    BY <1>0, <2>2 DEF Ready
  <2>9. ASSUME NEW n \in Ready', NEW j \in DOMAIN Disc' \ {0}
        PROVE  Disc'[j] \in KeysIn(repo'[n])
    <3>1. CASE n = Rotator
      BY <3>1 DEF KeysIn, Disc
    <3>2. CASE n # Rotator
      BY <2>4, <2>8, <3>2 DEF Ages
    <3>. QED
      BY <3>1, <3>2
  <2>10. ASSUME NEW n \in Ready', rotations > 0
         PROVE  \E j \in 1..rotations : j >= rotations - 1 /\ Primary(repo'[n]) = Disc'[j]
    <3>1. CASE n = Rotator
      <4>1. DOMAIN Disc' \in SUBSET (0..rotations) /\ rotations \in DOMAIN Disc'
        BY <1>0, <2>3, <2>4, <2>10
      <4>2. Primary(Disc') = Disc'[rotations]
        BY <1>0, <4>1, TopIsPrimary
      <4>. QED
        BY <1>0, <2>10, <3>1, <4>2 DEF Disc
    <3>2. CASE n # Rotator
      <4>1. PICK j \in 1..rotations : j >= rotations - 1 /\ Primary(repo[n]) = Disc[j]
        BY <2>8, <2>10, <3>2 DEF Ages
      <4>2. j \in DOMAIN Disc \ {gone}
        BY <1>0, <2>5, <4>1 DEF Lasts
      <4>. QED
        BY <2>4, <2>8, <3>2, <4>1, <4>2
    <3>. QED
      BY <3>1, <3>2
  <2>. QED
    BY <2>2, <2>6, <2>7, <2>9, <2>10 DEF Ages
<1>. QED
  BY <1>1, <1>2

(* A copy, which gives a node the files of the rotator. *)
LEMMA SyncAges ==
    ASSUME KeysInv, Ages, MaxActiveKeys >= 3, NEW n \in Nodes, Sync(n)
    PROVE  Ages' /\ Leaves
<1>0. /\ Phases /\ MaxActiveKeys \in Int
      /\ DOMAIN repo = Nodes /\ Rotator \in Nodes /\ rotations \in Nat
      /\ \A j \in 1..rotations : Lasts(j) => j \in DOMAIN Disc
  BY AgesFacts
<1>1. /\ Disc' = Disc /\ rotations' = rotations /\ repo'[n] = Disc
      /\ \A m \in Nodes \ {n} : repo'[m] = repo[m]
  BY <1>0 DEF Sync, Disc, rotating
<1>2. Rotator \in Ready
  BY <1>0 DEF Sync, Phases, Ready, Disc
<1>3. \A m \in Ready' : \E l \in Ready : repo'[m] = repo[l]
  BY <1>1, <1>2 DEF Ready, Disc
<1>. QED
  BY <1>0, <1>1, <1>3 DEF Ages, Leaves, Lasts

(* What is young at a later count of rotations was so at an earlier one. *)
LEMMA Ageing ==
    ASSUME NEW r \in Nat, NEW q \in Nat, NEW s \in Nat, NEW m \in Int,
           r <= q, q - s <= m - 3
    PROVE  /\ r - s <= m - 3
           /\ \A j \in 1..r : j >= s - 1 => j \in 1..q /\ j >= q - m + 2
  OBVIOUS

(* What is young after a step was so before, and its file is left alone. *)
LEMMA YoungBefore ==
    ASSUME MaxActiveKeys \in Int, rotations \in Nat, Leaves,
           NEW since \in Nat, Young(since)'
    PROVE  /\ Young(since)
           /\ \A j \in 1..rotations : j >= since - 1 =>
                j \in 1..rotations' /\ j \in DOMAIN Disc' /\ Disc'[j] = Disc[j]
<1>1. /\ rotations' \in Nat /\ rotations <= rotations'
      /\ since > 0 /\ rotations' - since <= MaxActiveKeys - 3
  BY DEF Leaves, Young
<1>2. Young(since)
  BY <1>1, Ageing DEF Young
<1>3. \A j \in 1..rotations : j >= since - 1 =>
         j \in 1..rotations' /\ j >= rotations' - MaxActiveKeys + 2
  BY <1>1, Ageing
<1>. QED
  BY <1>2, <1>3 DEF Leaves

(* A key that a token needs outlives the steps of rotations and copies. *)
LEMMA FreshStays ==
    ASSUME MaxActiveKeys \in Int, rotations \in Nat, Leaves,
           NEW key, NEW since \in Nat, Young(since)', Fresh(key, since)
    PROVE  Fresh(key, since)'
<1>1. PICK j \in 1..rotations : j >= since - 1 /\ Disc[j] = key
  BY DEF Fresh
<1>2. Disc'[j] = Disc[j] /\ j \in 1..rotations'
  BY <1>1, YoungBefore
<1>. QED
  BY <1>1, <1>2 DEF Fresh

LEMMA FoundStays ==
    ASSUME MaxActiveKeys \in Int, rotations \in Nat, Leaves, UNCHANGED request,
           request.node # Rotator => repo'[request.node] = repo[request.node],
           NEW i, NEW key, NEW since \in Nat, Young(since)', Found(i, key, since)
    PROVE  Found(i, key, since)'
<1>2. CASE i \in DOMAIN request.keys /\ request.keys[i] = key
  BY <1>2 DEF Found
<1>3. CASE /\ i \in request.left /\ i \in DOMAIN repo[request.node]
           /\ repo[request.node][i] = key
           /\ request.node = Rotator => i \in 1..rotations /\ i >= since - 1
  <2>1. CASE request.node # Rotator
    BY <1>3, <2>1 DEF Found
  <2>2. CASE request.node = Rotator
    <3>1. i \in DOMAIN Disc' /\ Disc'[i] = Disc[i] /\ i \in 1..rotations'
      BY <1>3, <2>2, YoungBefore
    <3>. QED
      BY <1>3, <2>2, <3>1 DEF Found, Disc
  <2>. QED
    BY <2>1, <2>2
<1>. QED
  BY <1>2, <1>3 DEF Found

(* Types of a token and of a request. *)
LEMMA RequestFacts ==
    ASSUME TypeInv
    PROVE  /\ token # NoToken => token.since \in Nat /\ token.since <= rotations
           /\ request # NoRequest => /\ request.op \in {"pack", "unpack"}
                                     /\ request.node \in Nodes
                                     /\ request.since \in Nat
                                     /\ request.left \subseteq 0..MaxRotations
                                     /\ Files(request.keys, MaxRotations, made)
  BY DEF TypeInv, TypeOK, Repository, Files

LEMMA AgesStay ==
    ASSUME KeysInv, Ages, TokenAge, RequestAge, MaxActiveKeys >= 3,
           Leaves, UNCHANGED <<request, token>>,
           request # NoRequest /\ request.node # Rotator =>
             repo'[request.node] = repo[request.node]
    PROVE  TokenAge' /\ RequestAge'
<1>0. TypeInv /\ MaxActiveKeys \in Int /\ rotations \in Nat
  BY AgesFacts
<1>1. TokenAge'
  <2>1. SUFFICES ASSUME token # NoToken, Young(token.since)'
                 PROVE  Fresh(token.key, token.since)'
    BY DEF TokenAge
  <2>2. token.since \in Nat
    BY <1>0, <2>1, RequestFacts
  <2>3. Young(token.since)
    BY <1>0, <2>1, <2>2, YoungBefore
  <2>4. Fresh(token.key, token.since)
    BY <2>1, <2>3 DEF TokenAge
  <2>. QED
    BY <1>0, <2>1, <2>2, <2>4, FreshStays
<1>2. RequestAge'
  <2>1. SUFFICES ASSUME request # NoRequest PROVE RequestAge'
    BY DEF RequestAge
  <2>2. /\ request.since \in Nat /\ (token # NoToken => token.since \in Nat)
        /\ Listed' = Listed
    BY <1>0, <2>1, RequestFacts DEF Listed
  <2>3. \A since \in Nat : Young(since)' => Young(since)
    BY <1>0, YoungBefore
  <2>4. ASSUME request.op = "pack", Listed # {}, Young(request.since)'
        PROVE  \E i \in Listed, j \in 1..rotations' :
                 /\ \A h \in Listed : h <= i
                 /\ j >= request.since - 1
                 /\ Found(i, Disc[j], request.since)'
    <3>1. PICK i \in Listed, j \in 1..rotations :
                 /\ \A h \in Listed : h <= i
                 /\ j >= request.since - 1
                 /\ Found(i, Disc[j], request.since)
      BY <2>1, <2>2, <2>3, <2>4 DEF RequestAge
    <3>2. PICK key, since : key = Disc[j] /\ since = request.since
      OBVIOUS
    <3>3. /\ since \in Nat /\ Young(since)' /\ request'.since = since
          /\ Found(i, key, since)
      BY <2>2, <2>4, <3>1, <3>2
    <3>4. Found(i, key, since)'
      BY <1>0, <2>1, <3>3, FoundStays
    <3>5. Disc'[j] = key /\ j \in 1..rotations'
      BY <1>0, <3>1, <3>2, <3>3, YoungBefore
    <3>. QED
      BY <3>1, <3>2, <3>3, <3>4, <3>5
  <2>5. ASSUME request.op = "unpack", Listed # {}, Young(token.since)'
        PROVE  \E i \in 0..MaxRotations : Found(i, token.key, token.since)'
    <3>1. token.since \in Nat
      BY <2>1, <2>2, <2>5 DEF RequestAge
    <3>2. PICK i \in 0..MaxRotations : Found(i, token.key, token.since)
      BY <2>1, <2>3, <2>5, <3>1 DEF RequestAge
    <3>3. Found(i, token.key, token.since)'
      BY <1>0, <2>1, <2>5, <3>1, <3>2, FoundStays
    <3>. QED
      BY <3>3
  <2>. QED
    BY <2>1, <2>2, <2>4, <2>5 DEF RequestAge
<1>. QED
  BY <1>1, <1>2

(* A file that has been read, or had gone, is not looked for any more. *)
LEMMA ReadAges ==
    ASSUME TypeInv, RequestAge, NEW f \in 0..MaxRotations, Read(f)
    PROVE  RequestAge'
<1>. DEFINE r == repo[request.node]
<1>0. /\ request # NoRequest /\ f \in request.left /\ UNCHANGED <<repo, rotating, token>>
      /\ DOMAIN request = {"op", "node", "left", "keys", "since"}
      /\ request.left \cap DOMAIN request.keys = {}
  BY DEF Read, RequestAge, TypeInv, TypeOK
<1>1. CASE request' = NoRequest
  BY <1>1 DEF RequestAge
<1>2. CASE request' # NoRequest
  <2>1. /\ request'.op = request.op /\ request'.node = request.node
        /\ request'.since = request.since /\ request'.left = request.left \ {f}
        /\ \/ f \notin DOMAIN r /\ request'.keys = request.keys
           \/ f \in DOMAIN r /\ request'.keys = With(request.keys, f, r[f])
    BY <1>0, <1>2 DEF Read
  <2>2. /\ DOMAIN With(request.keys, f, r[f]) = DOMAIN request.keys \cup {f}
        /\ With(request.keys, f, r[f])[f] = r[f]
        /\ \A h \in DOMAIN request.keys \ {f} :
             With(request.keys, f, r[f])[h] = request.keys[h]
    BY DEF With
  <2>3. Listed' \subseteq Listed /\ request'.left \cap DOMAIN request'.keys = {}
    BY <1>0, <2>1, <2>2 DEF Listed
  <2>4. ASSUME NEW i, NEW key, NEW since, Found(i, key, since)
        PROVE  Found(i, key, since)' /\ i \in Listed'
    <3>1. CASE i \in DOMAIN request.keys /\ request.keys[i] = key
      BY <1>0, <2>1, <2>2, <3>1 DEF Found, Listed
    <3>2. CASE i \in request.left /\ i \in DOMAIN r /\ r[i] = key /\ i # f
      BY <1>0, <2>1, <2>4, <3>2 DEF Found, Listed, rotating
    <3>3. CASE f \in DOMAIN r /\ r[f] = key /\ i = f
      BY <1>0, <2>1, <2>2, <3>3 DEF Found, Listed
    <3>. QED
      BY <2>4, <3>1, <3>2, <3>3 DEF Found
  <2>5. /\ Disc' = Disc /\ rotations' = rotations /\ token' = token
        /\ \A since : Young(since)' <=> Young(since)
    BY <1>0 DEF Disc, rotating, Young
  <2>6. ASSUME request.op = "pack", Listed' # {}, Young(request.since)
        PROVE  \E i \in Listed', j \in 1..rotations :
                 /\ \A h \in Listed' : h <= i
                 /\ j >= request.since - 1
                 /\ Found(i, Disc[j], request.since)'
    <3>1. PICK i \in Listed, j \in 1..rotations :
                 /\ \A h \in Listed : h <= i
                 /\ j >= request.since - 1
                 /\ Found(i, Disc[j], request.since)
      BY <1>0, <2>3, <2>6 DEF RequestAge
    <3>2. PICK key, since : key = Disc[j] /\ since = request.since
      OBVIOUS
    <3>3. Found(i, key, since)' /\ i \in Listed'
      BY <2>4, <3>1, <3>2
    <3>. QED
      BY <2>1, <2>3, <2>5, <3>1, <3>2, <3>3
  <2>7. ASSUME request.op = "unpack"
        PROVE  /\ token # NoToken
               /\ Listed' # {} /\ Young(token.since) =>
                    \E i \in 0..MaxRotations : Found(i, token.key, token.since)'
    <3>1. token # NoToken
      BY <1>0, <2>7 DEF RequestAge
    <3>2. ASSUME Listed' # {}, Young(token.since)
          PROVE  \E i \in 0..MaxRotations : Found(i, token.key, token.since)'
      <4>1. PICK i \in 0..MaxRotations : Found(i, token.key, token.since)
        BY <1>0, <2>3, <2>7, <3>2 DEF RequestAge
      <4>2. Found(i, token.key, token.since)'
        <5>1. PICK key, since : key = token.key /\ since = token.since
          OBVIOUS
        <5>2. Found(i, key, since)'
          BY <2>4, <4>1, <5>1
        <5>. QED
          BY <2>5, <5>1, <5>2
      <4>. QED
        BY <4>2
    <3>. QED
      BY <3>1, <3>2
  <2>. QED
    BY <2>1, <2>3, <2>5, <2>6, <2>7 DEF RequestAge
<1>. QED
  BY <1>1, <1>2

(* A request lists the file of the key that the token needs. *)
LEMMA LoadAges ==
    ASSUME KeysInv, Ages, TokenAge, MaxActiveKeys >= 3,
           NEW n \in Nodes, NEW op \in {"pack", "unpack"}, Load(n, op)
    PROVE  RequestAge'
<1>0. /\ TypeInv /\ MaxActiveKeys \in Int /\ Rotator \in Nodes /\ rotations \in Nat
      /\ DOMAIN Disc \in SUBSET (0..rotations)
      /\ \A j \in 1..rotations : Lasts(j) => j \in DOMAIN Disc
      /\ rotations > 0 => rotations \in DOMAIN Disc
      /\ Files(repo[n], rotations, made) /\ made \in Nat
      /\ 0..rotations \subseteq 0..MaxRotations
  <2>1. rotations \in 0..MaxRotations
    BY AgesFacts DEF TypeInv, TypeOK
  <2>2. 0..rotations \subseteq 0..MaxRotations
    BY <2>1, BoundsAssumption
  <2>. QED
    BY <2>2, AgesFacts, RepoFacts
<1>1. /\ request'.op = op /\ request'.node = n /\ request'.left = DOMAIN repo[n]
      /\ request'.keys = Empty /\ request'.since = rotations
      /\ UNCHANGED <<repo, rotating, token>> /\ (op = "unpack" => token # NoToken)
  BY DEF Load
<1>2. DOMAIN Empty = {} /\ Listed' = DOMAIN repo[n]
  BY <1>1 DEF Empty, Listed
<1>3. /\ Disc' = Disc /\ rotations' = rotations /\ repo' = repo /\ token' = token
      /\ \A since : Young(since)' <=> Young(since)
  BY <1>1 DEF Disc, rotating, Young
<1>4. DOMAIN repo[n] # {} => n \in Ready /\ Highest(DOMAIN repo[n]) \in DOMAIN repo[n]
                             /\ \A h \in DOMAIN repo[n] : h <= Highest(DOMAIN repo[n])
  BY <1>0, <1>2, HighestIs DEF Ready, Files
<1>5. ASSUME DOMAIN repo[n] # {}, Young(rotations)
      PROVE  \E i \in DOMAIN repo[n], j \in 1..rotations :
               /\ \A h \in DOMAIN repo[n] : h <= i
               /\ j >= rotations - 1
               /\ Found(i, Disc[j], rotations)'
  <2>1. rotations > 0
    BY <1>5 DEF Young
  <2>2. CASE n = Rotator
    <3>1. Found(rotations, Disc[rotations], rotations)'
      BY <1>0, <1>1, <1>3, <2>1, <2>2 DEF Found, Disc
    <3>2. rotations \in DOMAIN repo[n] /\ \A h \in DOMAIN repo[n] : h <= rotations
      BY <1>0, <2>1, <2>2 DEF Disc
    <3>3. PICK j \in 1..rotations : j = rotations /\ j >= rotations - 1
      BY <1>0, <2>1
    <3>4. Found(j, Disc[j], rotations)'
      BY <1>3, <3>1, <3>3
    <3>. QED
      BY <3>2, <3>3, <3>4
  <2>3. CASE n # Rotator
    <3>1. PICK i \in DOMAIN repo[n] : i = Highest(DOMAIN repo[n])
      BY <1>4, <1>5
    <3>2. PICK j \in 1..rotations : j >= rotations - 1 /\ repo[n][i] = Disc[j]
      BY <1>4, <1>5, <2>1, <3>1 DEF Ages, Primary
    <3>3. Found(i, Disc[j], rotations)'
      BY <1>1, <1>3, <2>3, <3>2 DEF Found
    <3>. QED
      BY <1>4, <1>5, <3>1, <3>2, <3>3
  <2>. QED
    BY <2>2, <2>3
<1>6. ASSUME op = "unpack", DOMAIN repo[n] # {}, Young(token.since)
      PROVE  \E i \in 0..MaxRotations : Found(i, token.key, token.since)'
  <2>1. token.since \in Nat
    BY <1>0, <1>1, <1>6, RequestFacts
  <2>2. PICK j \in 1..rotations : j >= token.since - 1 /\ Disc[j] = token.key
    BY <1>1, <1>6 DEF TokenAge, Fresh
  <2>3. j \in DOMAIN Disc \ {0}
    BY <1>0, <1>6, <2>1, <2>2 DEF Lasts, Young
  <2>4. CASE n = Rotator
    <3>1. Found(j, token.key, token.since)'
      BY <1>1, <1>3, <2>2, <2>3, <2>4 DEF Found, Disc
    <3>. QED
      BY <1>0, <2>3, <3>1
  <2>5. CASE n # Rotator
    <3>1. PICK i \in DOMAIN repo[n] : repo[n][i] = token.key
      BY <1>4, <1>6, <2>2, <2>3 DEF Ages, KeysIn
    <3>2. Found(i, token.key, token.since)'
      BY <1>1, <1>3, <2>5, <3>1 DEF Found
    <3>. QED
      BY <1>0, <3>1, <3>2 DEF Files
  <2>. QED
    BY <2>4, <2>5
<1>. QED
  BY <1>1, <1>2, <1>3, <1>5, <1>6 DEF RequestAge

(* A token is encrypted with the last of the files that were read. *)
LEMMA PackAges ==
    ASSUME TypeInv, RequestAge, Pack
    PROVE  TokenAge'
<1>0. /\ request # NoRequest /\ request.left = {} /\ request.op = "pack"
      /\ request.keys # Empty /\ token'.key = Primary(request.keys)
      /\ token'.since = request.since /\ UNCHANGED <<repo, rotating>>
  BY DEF Pack, Loaded
<1>1. /\ Disc' = Disc /\ rotations' = rotations
      /\ \A since : Young(since)' <=> Young(since)
  BY <1>0 DEF Disc, rotating, Young
<1>2. SUFFICES ASSUME Young(request.since)
               PROVE  Fresh(Primary(request.keys), request.since)
  BY <1>0, <1>1 DEF TokenAge, Fresh
<1>3. /\ DOMAIN request.keys # {} /\ DOMAIN request.keys \in SUBSET Nat
      /\ Listed = DOMAIN request.keys
  <2>1. Files(request.keys, MaxRotations, made) /\ made \in Nat
    BY <1>0, RequestFacts DEF TypeInv, TypeOK
  <2>. QED
    BY <1>0, <2>1, BoundsAssumption, PrimaryIs DEF Listed
<1>4. PICK i \in Listed, j \in 1..rotations :
             /\ \A h \in Listed : h <= i
             /\ j >= request.since - 1
             /\ Found(i, Disc[j], request.since)
  BY <1>0, <1>2, <1>3 DEF RequestAge
<1>5. request.keys[i] = Disc[j]
  BY <1>0, <1>4 DEF Found
<1>6. Highest(DOMAIN request.keys) = i
  BY <1>3, <1>4, HighestUnique
<1>. QED
  BY <1>4, <1>5, <1>6 DEF Fresh, Primary

(* Every step keeps the ages. *)
LEMMA NextAgesInv ==
    ASSUME MaxActiveKeys >= 3, Races = {}, KeysInv, AgesInv, [Next]_vars
    PROVE  AgesInv'
<1>0. /\ Ages /\ TokenAge /\ RequestAge /\ TypeInv
      /\ MaxActiveKeys \in Int /\ rotations \in Nat
      /\ DOMAIN repo = Nodes /\ Rotator \in Nodes
      /\ \A j \in 1..rotations : Lasts(j) => j \in DOMAIN Disc
  BY AgesFacts DEF AgesInv
<1>1. request # NoRequest => request.node \in Nodes
  BY <1>0, RequestFacts
<1>2. CASE Promote \/ OpenKey \/ WriteKey \/ Purge
  <2>1. /\ UNCHANGED <<request, token>>
        /\ \A n \in Nodes \ {Rotator} : repo'[n] = repo[n]
    BY <1>0, <1>2 DEF Promote, OpenKey, WriteKey, Purge, Disk
  <2>2. Ages' /\ Leaves
    BY <1>0, <1>2, PromoteAges, StagedAges, PurgeAges
  <2>. QED
    BY <1>0, <1>1, <2>1, <2>2, AgesStay DEF AgesInv
<1>3. ASSUME NEW n \in Nodes, Sync(n) PROVE AgesInv'
  <2>1. /\ UNCHANGED <<request, token>>
        /\ request # NoRequest => request.node # n
        /\ \A m \in Nodes \ {n} : repo'[m] = repo[m]
    BY <1>0, <1>3 DEF Sync
  <2>2. Ages' /\ Leaves
    BY <1>0, <1>3, SyncAges
  <2>. QED
    BY <1>0, <1>1, <2>1, <2>2, AgesStay DEF AgesInv
\* A step that writes no key file.
<1>4. ASSUME UNCHANGED <<repo, rotations>> PROVE Ages' /\ Leaves
  BY <1>0, <1>4 DEF Ages, Leaves, Lasts, Ready, Disc
<1>5. CASE Setup \/ ListKeys \/ Crash \/ UNCHANGED vars
  <2>1. UNCHANGED <<repo, rotations, request, token>>
    BY <1>5 DEF Setup, ListKeys, Crash, vars
  <2>. QED
    BY <1>0, <1>4, <2>1, AgesStay DEF AgesInv
<1>6. ASSUME UNCHANGED <<repo, rotations, token>> PROVE Ages' /\ TokenAge'
  BY <1>0, <1>4, <1>6 DEF TokenAge, Young, Fresh, Disc
<1>7. ASSUME NEW n \in Nodes, NEW op \in {"pack", "unpack"}, Load(n, op) PROVE AgesInv'
  <2>1. UNCHANGED <<repo, rotations, token>>
    BY <1>7 DEF Load, rotating
  <2>. QED
    BY <1>0, <1>6, <1>7, <2>1, LoadAges DEF AgesInv
<1>8. ASSUME NEW i \in 0..MaxRotations, Read(i) PROVE AgesInv'
  <2>1. UNCHANGED <<repo, rotations, token>>
    BY <1>8 DEF Read, rotating
  <2>. QED
    BY <1>0, <1>6, <1>8, <2>1, ReadAges DEF AgesInv
<1>9. CASE Pack
  <2>1. UNCHANGED <<repo, rotations>> /\ request' = NoRequest
    BY <1>9 DEF Pack, rotating
  <2>. QED
    BY <1>0, <1>4, <1>9, <2>1, PackAges DEF AgesInv, RequestAge
<1>10. CASE Respond
  <2>1. UNCHANGED <<repo, rotations, token>> /\ request' = NoRequest
    BY <1>10 DEF Respond, rotating
  <2>. QED
    BY <1>0, <1>6, <2>1 DEF AgesInv, RequestAge
<1>. QED
  BY <1>2, <1>3, <1>5, <1>7, <1>8, <1>9, <1>10 DEF Next

(* If no node is synchronised in the midst of a request and a repository is  *)
(* not set up twice, a token made since the set-up is accepted on every node *)
(* that answers, for as many rotations as max_active_keys promises, whatever *)
(* rotations were killed and whatever files a request found gone.  With two  *)
(* keys or fewer, NeverRefused promises nothing.                             *)
THEOREM TokensStayValid ==
    ASSUME MaxActiveKeys >= 3, Races = {}
    PROVE  Spec => []NeverRefused
<1>. DEFINE Inv == KeysInv /\ AgesInv
<1>1. Init => Inv
  <2>1. SUFFICES ASSUME Init PROVE Inv
    OBVIOUS
  <2>2. Ready = {} /\ rotations = 0
    BY <2>1 DEF Init, Ready
  <2>3. KeysInv
    BY <2>1, <2>2, InitTypeInv DEF Init, KeysInv, Phases, PrimariesKnown
  <2>4. AgesInv
    BY <2>1, <2>2 DEF Init, AgesInv, Ages, TokenAge, RequestAge, Lasts
  <2>. QED
    BY <2>3, <2>4
<1>2. Inv /\ [Next]_vars => Inv'
  BY NextKeysInv, NextAgesInv
<1>3. Inv => NeverRefused
  <2>1. SUFFICES ASSUME Inv, Refused, token.since > 0,
                        ~(rotations - token.since > MaxActiveKeys - 3)
                 PROVE  FALSE
    BY DEF NeverRefused
  <2>2. /\ TypeInv /\ RequestAge /\ request # NoRequest /\ request.left = {}
        /\ request.keys # Empty /\ request.op = "unpack"
        /\ token.key \notin KeysIn(request.keys)
    BY <2>1 DEF Refused, Loaded, KeysInv, AgesInv
  <2>3. /\ token.since \in Nat /\ rotations \in Nat /\ MaxActiveKeys \in Int
    BY <2>2, RequestFacts, RepoFacts, KeysAssumption DEF RequestAge
  <2>4. Young(token.since)
    BY <2>1, <2>3 DEF Young
  <2>5. Listed # {}
    <3>1. Files(request.keys, MaxRotations, made) /\ made \in Nat
      BY <2>2, RequestFacts DEF TypeInv, TypeOK
    <3>. QED
      BY <2>2, <3>1, BoundsAssumption, PrimaryIs DEF Listed
  <2>6. PICK i \in 0..MaxRotations : Found(i, token.key, token.since)
    BY <2>2, <2>4, <2>5 DEF RequestAge
  <2>. QED
    BY <2>2, <2>6 DEF Found, KeysIn
<1>. QED
  BY <1>1, <1>2, <1>3, PTL DEF Spec
=============================================================================
