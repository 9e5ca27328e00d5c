---------------------------- MODULE MCCdcTabular ----------------------------
(***************************************************************************)
(* An instance for TLC: every table of up to two rows with a repeated key, *)
(* two values of it, and keyless rows; and tables in which a key text is   *)
(* what the second row of another key is called, before, between and after *)
(* that key's rows.                                                        *)
(***************************************************************************)
EXTENDS CdcTabular

Row(key, value) == [k |-> key, v |-> value]
Table(columns, rows) == [cols |-> columns, rows |-> rows]

UpToTwo(S) == {<<>>} \cup {<<r>> : r \in S} \cup {<<q, r>> : q, r \in S}

Looks == Row("a~2", "x")
Clashing ==
  {<<Looks>>, <<Row("a", "x"), Row("a", "y"), Looks>>, <<Row("a", "x"), Looks, Row("a", "y")>>,
   <<Looks, Row("a", "x"), Row("a", "y")>>}

SomeTables ==
  {Table({"k", "v"}, rows) : rows \in Clashing \cup UpToTwo({Row("a", "x"), Row("a", "y"), Row(Null, "x")})}
    \cup {Table({"k"}, rows) : rows \in UpToTwo({Row("a", "x"), Row(Null, "x")})}
=============================================================================
