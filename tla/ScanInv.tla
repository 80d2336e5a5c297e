------------------------------- MODULE ScanInv -------------------------------
(***************************************************************************)
(* The inductive invariant behind the merge of a scan: how the rows handed *)
(* out, the rows in the cursors and the batches still to be delivered fit  *)
(* together.  Scan_proofs proves that it is one.                           *)
(***************************************************************************)
EXTENDS Scan

Row == [key : Keys, seq : Int, op : {"put", "delete"}]
OneOfEachKey(R) == \A q, r \in R : q.key = r.key => q = r
Sorted(s) == \A i, j \in DOMAIN s : i < j => Before(s[i].key, s[j].key)

\* Batches as merge.rs 78-90 (check_sorted) demands them of a source: none is
\* empty, each is in the order of keys, and so is one after the other.
Chain(G) ==
    /\ \A i \in DOMAIN G : G[i] # <<>> /\ Sorted(G[i])
    /\ \A i, j \in DOMAIN G : i < j =>
        \A a \in RowsOf(G[i]), b \in RowsOf(G[j]) : Before(a.key, b.key)
RowsIn(G) == UNION {RowsOf(G[i]) : i \in DOMAIN G}

RangeType == [min : Int, max : Int]

-----------------------------------------------------------------------------
\* What source s has still to give, and that everything still to come lies
\* behind a key.
Left(s) == RowsOf(cursor[s]) \cup RowsIn(batches[s])
Behind(k) == \A s \in Sources : \A r \in Left(s) : Before(k, r.key)

ScanTypes ==
    /\ range \in RangeType /\ limit \in Nat \cup {NoLimit}
    /\ rows \in [Sources -> SUBSET Row] /\ cursor \in [Sources -> Seq(Row)]
    /\ batches \in [Sources -> Seq(Seq(Row))]
    /\ buffered \in Seq(Row) /\ result \in Seq(Row)

\* Until the sources are collected there is nothing to merge.
Unbegun ==
    phase \in {"ask", "plan", "exec"} =>
        /\ rows = [s \in Sources |-> {}] /\ cursor = [s \in Sources |-> <<>>]
        /\ batches = [s \in Sources |-> <<>>] /\ buffered = <<>> /\ result = <<>>

\* A source gives its rows in the order of keys, from the cursor on; what is
\* in range is still to come or all others are past it too.
InStep(s) ==
    /\ cursor[s] = <<>> => batches[s] = <<>>
    /\ Sorted(cursor[s]) /\ Chain(batches[s])
    /\ \A a \in RowsOf(cursor[s]), b \in RowsIn(batches[s]) : Before(a.key, b.key)
Placed(s) ==
    /\ Left(s) \subseteq rows[s]
    /\ \A r \in rows[s] : InRange(r.key.ts) => r \in Left(s) \/ Behind(r.key)
SourcesInv == \A s \in Sources : InStep(s) /\ Placed(s)

\* What has been merged is in order, ahead of all that is still to come, and of
\* the keys in range it is the newest row.
Out == RowsOf(result) \cup RowsOf(buffered)
Newest(r) == \A q \in AllRows : q.key = r.key => q.seq <= r.seq
OutInv ==
    /\ Sorted(result) /\ Sorted(buffered)
    /\ \A a \in RowsOf(result), b \in RowsOf(buffered) : Before(a.key, b.key)
    /\ \A r \in Out : /\ r \in AllRows /\ Behind(r.key)
                      /\ InRange(r.key.ts) => Newest(r)
    /\ \A r \in RowsOf(result) : IsPut(r)

\* Unless the limit ended the scan, no live row was passed over.
Unlimited == limit = NoLimit \/ Len(result) < limit
EndInv ==
    /\ phase # "done" \/ Unlimited =>
        \A r \in AllRows : Live(r) /\ InRange(r.key.ts) /\ Behind(r.key) => r \in Out
    /\ phase = "done" /\ Unlimited => Heap = {} /\ buffered = <<>>
    /\ limit # NoLimit => Len(result) <= limit

\* No two rows have the same number.
RowsDiffer == \A q, r \in AllRows : q.seq = r.seq => q = r

MergeInv == ScanTypes /\ Unbegun /\ SourcesInv /\ OutInv /\ EndInv /\ RowsDiffer
==============================================================================
