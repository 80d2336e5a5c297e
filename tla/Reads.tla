-------------------------------- MODULE Reads --------------------------------
(***************************************************************************)
(* The ways a table is read: a SQL scan over all sources (Scan), the way   *)
(* of a row into an SST and out of it again (RowPath), and the cache point *)
(* reads of one SST share (GroupCache).  The three share no state: a scan  *)
(* opens files of its own and passes the cache by, and an SST is the same  *)
(* whoever has decoded it.  So nothing is lost by letting only one of them *)
(* move in a behaviour, and their states are added and not multiplied.     *)
(***************************************************************************)
EXTENDS Scan, RowPath, GroupCache

ReadsInit == Init /\ PathInit /\ CacheInit

NoScan == phase = "ask"
NoRow == stage = "idle"
NoReader == \A r \in Readers : pc[r] = "idle"

ReadsNext ==
    \/ NoRow /\ map = {} /\ NoReader /\ Next /\ UNCHANGED <<path_vars, cache_vars>>
    \/ NoScan /\ map = {} /\ NoReader /\ PathNext /\ UNCHANGED <<vars, cache_vars>>
    \/ NoScan /\ NoRow /\ CacheNext /\ UNCHANGED <<vars, path_vars>>

ReadsSpec == ReadsInit /\ [][ReadsNext]_<<vars, path_vars, cache_vars>>
=============================================================================
