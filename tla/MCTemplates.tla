---------------------------- MODULE MCTemplates -----------------------------
(* Instances of Templates: transactions of two inputs, and an index too many. *)
EXTENDS Templates

May(i) == [index |-> i, required |-> FALSE]
Must(i) == [index |-> i, required |-> TRUE]
List(overrides) == [form |-> "list", overrides |-> overrides]

\* The words, lists with and without required inputs, one that contradicts
\* itself and one that requires an input the transaction does not have.
MCDeclarations ==
    {[form |-> "all"], [form |-> "none"], List(<<>>), List(<<May(0)>>), List(<<Must(1)>>),
     List(<<May(0), Must(1)>>), List(<<May(0), Must(0)>>), List(<<Must(2)>>)}

Put(i, v) == [index |-> i, value |-> v]

MCGivens ==
    {<<>>} \cup {<<Put(i, v)>> : i \in Index, v \in Value}
        \cup {<<Put(0, v), Put(1, w)>> : v, w \in Value}
=============================================================================
