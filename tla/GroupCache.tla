----------------------------- MODULE GroupCache -----------------------------
(***************************************************************************)
(* The row groups of an SST that point reads have decoded are kept, the    *)
(* first in the first out again.  Readers look a group up under the lock,  *)
(* decode it without, and put it in under the lock again.                  *)
(***************************************************************************)
EXTENDS Naturals, Sequences, FiniteSets

CONSTANTS
    Readers,
    Groups,     \* the row groups of the SST
    NoGroup,    \* of a reader that reads none
    Cap         \* GROUP_CACHE_CAP

ASSUME NoGroupAssumption == NoGroup \notin Groups
ASSUME CapAssumption == Cap \in Nat \ {0}

VARIABLES
    map,        \* the groups that are cached
    order,      \* in the order they were put in
    pc,         \* "idle", "decode", "insert"
    rg          \* the group a reader reads

cache_vars == <<map, order, pc, rg>>

-----------------------------------------------------------------------------
CacheInit ==
    /\ map = {} /\ order = <<>>
    /\ pc = [r \in Readers |-> "idle"]
    /\ rg = [r \in Readers |-> NoGroup]

\* The group is not cached; one that is is searched under the lock, which
\* changes nothing.
Miss(r) ==
    /\ pc[r] = "idle"
    /\ \E g \in Groups \ map : rg' = [rg EXCEPT ![r] = g]
    /\ pc' = [pc EXCEPT ![r] = "decode"]
    /\ UNCHANGED <<map, order>>

\* decode_row_group opens and reads the file, which may fail.
DecodeGroup(r) ==
    /\ pc[r] = "decode"
    /\ \/ pc' = [pc EXCEPT ![r] = "insert"] /\ UNCHANGED rg
       \/ pc' = [pc EXCEPT ![r] = "idle"] /\ rg' = [rg EXCEPT ![r] = NoGroup]
    /\ UNCHANGED <<map, order>>

\* Mutant: that another reader may have put the group in is forgotten.
Forgotten(g) == FALSE
Cached(g) == g \in map

\* The oldest group makes room, if there is none and the group is not yet in.
Remaining(g) == IF Len(order) >= Cap /\ ~Cached(g) THEN Tail(order) ELSE order
Evicted(g) == IF Len(order) >= Cap /\ ~Cached(g) THEN {Head(order)} ELSE {}

Insert(r) ==
    /\ pc[r] = "insert"
    /\ order' = IF Cached(rg[r]) THEN order ELSE Append(Remaining(rg[r]), rg[r])
    /\ map' = (map \ Evicted(rg[r])) \cup {rg[r]}
    /\ pc' = [pc EXCEPT ![r] = "idle"]
    /\ rg' = [rg EXCEPT ![r] = NoGroup]

CacheNext == \E r \in Readers : Miss(r) \/ DecodeGroup(r) \/ Insert(r)

CacheSpec == CacheInit /\ [][CacheNext]_cache_vars

-----------------------------------------------------------------------------
CacheTypeOK ==
    /\ map \subseteq Groups
    /\ order \in Seq(Groups)
    /\ pc \in [Readers -> {"idle", "decode", "insert"}]
    /\ rg \in [Readers -> Groups \cup {NoGroup}]
    /\ \A r \in Readers : pc[r] # "idle" => rg[r] \in Groups

\* However readers that missed the same group interleave, the queue names every
\* cached group once and nothing else, and no more groups than the cache may
\* hold: a group named twice would be evicted while it is still queued, and one
\* that is not named would stay for ever (sstable.rs 592-611).
CacheInStep ==
    /\ \A g \in Groups : g \in map <=> \E i \in DOMAIN order : order[i] = g
    /\ \A i, j \in DOMAIN order : order[i] = order[j] => i = j
    /\ Len(order) <= Cap
=============================================================================
