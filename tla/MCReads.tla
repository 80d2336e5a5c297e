------------------------------- MODULE MCReads -------------------------------
(***************************************************************************)
(* The tables rows are written to: the default one, the same with a column *)
(* of timestamps, one with two tags in another order than their columns'   *)
(* and no field, one of other types.  A byte 33 has two hexadecimal digits *)
(* that differ.                                                            *)
(***************************************************************************)
EXTENDS Reads

Column(semantic, type) == [semantic |-> semantic, type |-> type]

DefaultTable ==
    [columns |-> <<Column("tag", "binary"), Column("timestamp", "int64"), Column("field", "binary")>>,
     primary_key |-> <<1>>, time_index |-> 2]
TimestampTable == [DefaultTable EXCEPT !.columns[2].type = "timestamp"]
TwoTags ==
    [columns |-> <<Column("tag", "binary"), Column("timestamp", "int64"), Column("tag", "binary")>>,
     primary_key |-> <<3, 1>>, time_index |-> 2]
OtherTypes ==
    [columns |-> <<Column("field", "boolean"), Column("timestamp", "timestamp"),
                   Column("tag", "boolean"), Column("field", "int64")>>,
     primary_key |-> <<3>>, time_index |-> 2]

Tables == {DefaultTable, TimestampTable, TwoTags, OtherTypes}
Bytes == {<<>>, <<33>>}
=============================================================================
