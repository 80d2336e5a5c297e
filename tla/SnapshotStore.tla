---------------------------- MODULE SnapshotStore ----------------------------
(***************************************************************************)
(* What a Region promises to its callers, with no memtable, file or lock   *)
(* in sight: a map from keys to the version last written, and snapshot     *)
(* transactions with first-committer-wins.  A version is a number that     *)
(* grows with every write of the key; 0 says the key was never written,    *)
(* and a delete is a write like any other.                                 *)
(***************************************************************************)
EXTENDS Naturals

CONSTANTS
    Clients,    \* the threads that call the store
    Keys,       \* the keys
    Versions    \* the versions a key may have, 0 among them

VARIABLES
    kv,         \* kv[k]: the newest version of k that readers may see
    tx,         \* tx[c]: the fate of the last transaction of c
    snapshot,   \* snapshot[c][k]: what the transaction of c reads for k
    writes      \* writes[c]: the keys the transaction of c has buffered

vars == <<kv, tx, snapshot, writes>>

Fates == {"none", "open", "committed", "conflict", "failed"}

Init ==
    /\ kv = [k \in Keys |-> 0]
    /\ tx = [c \in Clients |-> "none"]
    /\ snapshot = [c \in Clients |-> [k \in Keys |-> 0]]
    /\ writes = [c \in Clients |-> {}]

-----------------------------------------------------------------------------
\* Exactly the keys of W get a newer version, all at once.
Publish(W) ==
    /\ kv' \in [Keys -> Versions]
    /\ \A k \in Keys : IF k \in W THEN kv'[k] > kv[k] ELSE kv'[k] = kv[k]

\* The transaction of c is over: nothing of it is left.
Close(c, fate) ==
    /\ tx' = [tx EXCEPT ![c] = fate]
    /\ snapshot' = [snapshot EXCEPT ![c] = [k \in Keys |-> 0]]
    /\ writes' = [writes EXCEPT ![c] = {}]

\* A key another thread changed after the snapshot of c was taken.
Changed(c, k) == kv[k] # snapshot[c][k]

\* A plain write, or a batch of them.
Put ==
    /\ \E W \in SUBSET Keys : Publish(W)
    /\ UNCHANGED <<tx, snapshot, writes>>

\* The snapshot is the whole store at one instant.
Begin(c) ==
    /\ tx[c] # "open"
    /\ tx' = [tx EXCEPT ![c] = "open"]
    /\ snapshot' = [snapshot EXCEPT ![c] = kv]
    /\ UNCHANGED <<kv, writes>>

TxnWrite(c, k) ==
    /\ tx[c] = "open"
    /\ writes' = [writes EXCEPT ![c] = @ \cup {k}]
    /\ UNCHANGED <<kv, tx, snapshot>>

\* First committer wins: nothing c writes has changed since its snapshot.
Commit(c) ==
    /\ tx[c] = "open"
    /\ \A k \in writes[c] : ~Changed(c, k)
    /\ Publish(writes[c])
    /\ Close(c, "committed")

\* A conflict is reported only when there is one.
Reject(c) ==
    /\ tx[c] = "open"
    /\ \E k \in writes[c] : Changed(c, k)
    /\ Close(c, "conflict")
    /\ UNCHANGED kv

\* Dropped by the caller, or failed on an I/O error: nothing is published.
Abandon(c) ==
    /\ tx[c] = "open"
    /\ \E fate \in {"none", "failed"} : Close(c, fate)
    /\ UNCHANGED kv

Next ==
    \/ Put
    \/ \E c \in Clients :
        \/ Begin(c)
        \/ \E k \in Keys : TxnWrite(c, k)
        \/ Commit(c)
        \/ Reject(c)
        \/ Abandon(c)

Spec == Init /\ [][Next]_vars
=============================================================================
