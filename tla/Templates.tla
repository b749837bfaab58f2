----------------------------- MODULE Templates ------------------------------
(***************************************************************************)
(* Templates: transactions an account stores once and that are executed    *)
(* with some of their inputs replaced (account.py, tmplu.py).              *)
(*                                                                         *)
(* A template declares which inputs may be replaced, as a list of indexes  *)
(* that also says which of them have to be, or as "all" or "none".  An     *)
(* execution gives values for some inputs and becomes a payload of         *)
(* /account/transaction/execute, whose signers are those of Signers.       *)
(***************************************************************************)
EXTENDS Naturals, Sequences

CONSTANTS
    User,          \* the accounts
    Index,         \* the indexes that payloads name
    Input,         \* those that are indexes of the transaction's inputs
    Value,         \* what an execution may put in place of an input
    Stored,        \* the value of every input when the template is stored
    Declarations,  \* the declarations that templates are created with
    Givens,        \* the overrides that executions come with, an index once
    MaxTemplates   \* bound: rows of the template table

Override == [index : Index, required : BOOLEAN]
Given == [index : Index, value : Value]

\* A list has overrides, the two words have none.
Declaration ==
    [form : {"list"}, overrides : Seq(Override)] \cup [form : {"all", "none"}]

ASSUME TemplatesAssumption ==
    /\ Input \subseteq Index
    /\ Stored \notin Value
    /\ Declarations \subseteq Declaration
    /\ Givens \subseteq Seq(Given)
    /\ \A given \in Givens : \A j, k \in DOMAIN given :
            given[j].index = given[k].index => j = k
    /\ MaxTemplates \in Nat

VARIABLES
    template,   \* the template table, in the order of the ids
    executed    \* the last execution that became a transaction

vars == <<template, executed>>

TemplateRow ==
    [owner : User, visibility : {"owned", "shared"}, form : {"list", "all", "none"},
     overrides : Seq(Override)]

Execution ==
    [by : User, id : 1..MaxTemplates, given : Seq(Given), inputs : [Input -> Value \cup {Stored}]]

Nothing == [by |-> "nobody"]

Init == template = <<>> /\ executed = Nothing

-----------------------------------------------------------------------------
\* Mutant: whether an override is required is not kept.
OverridesUnflagged(declaration) ==
    IF declaration.form # "list" THEN <<>>
    ELSE [k \in DOMAIN declaration.overrides |-> [index |-> declaration.overrides[k].index]]

\* A list becomes rows of its own, a word none.
Overrides(declaration) ==
    IF declaration.form = "list" THEN declaration.overrides ELSE <<>>

\* new_template.
NewTemplate(owner, visibility, declaration) ==
    /\ Len(template) < MaxTemplates
    /\ template' = Append(template,
            [owner      |-> owner,
             visibility |-> visibility,
             form       |-> declaration.form,
             overrides  |-> Overrides(declaration)])
    /\ UNCHANGED executed

Indexes(seq) == {seq[k].index : k \in DOMAIN seq}

\* template_payload_to_tx: nothing comes of another's template that is not shared.
MayExecute(user, row) == row.owner = user \/ row.visibility = "shared"

RequiredIndexes(row) ==
    {row.overrides[k].index : k \in {l \in DOMAIN row.overrides : row.overrides[l].required}}

\* Mutant: the two sets are compared the wrong way round.
RequiredCover(row, given) ==
    /\ Indexes(given) \subseteq RequiredIndexes(row)
    /\ given # <<>> => Indexes(given) \subseteq Indexes(row.overrides)

\* _resolve_ovverides: the overrides that are required are given, and only
\* declared ones are.
Resolves(row, given) ==
    /\ RequiredIndexes(row) \subseteq Indexes(given)
    /\ given # <<>> => Indexes(given) \subseteq Indexes(row.overrides)

\* _set_ovverides, for values of the inputs' types.
Replaced(given) ==
    [i \in Input |->
        IF i \in Indexes(given)
          THEN given[CHOOSE k \in DOMAIN given : given[k].index = i].value ELSE Stored]

\* account_execute_template_transaction, up to the submission.  An index that
\* is no input's raises while the values are replaced.
ExecuteTemplate(user, id, given) ==
    /\ MayExecute(user, template[id])
    /\ Resolves(template[id], given)
    /\ Indexes(given) \subseteq Input
    /\ executed' = [by |-> user, id |-> id, given |-> given, inputs |-> Replaced(given)]
    /\ UNCHANGED template

Next ==
    \/ \E user \in User, visibility \in {"owned", "shared"}, declaration \in Declarations :
            NewTemplate(user, visibility, declaration)
    \/ \E user \in User, id \in DOMAIN template, given \in Givens :
            ExecuteTemplate(user, id, given)

Spec == Init /\ [][Next]_vars
-----------------------------------------------------------------------------
(* Properties *)

TypeOK ==
    /\ template \in Seq(TemplateRow)
    /\ Len(template) <= MaxTemplates
    /\ executed \in Execution \cup {Nothing}

\* What is executed is the template, as its owner declared it: by the owner if
\* it is not shared, no input that was not declared differs from the stored
\* transaction, and every input that any declaration says has to be replaced
\* was given a value (template_payload_to_tx and what it calls).
ExecutedAsDeclared ==
    executed # Nothing =>
        LET row == template[executed.id]
        IN  /\ row.visibility = "owned" => executed.by = row.owner
            /\ \A i \in Input : executed.inputs[i] # Stored =>
                    \E k \in DOMAIN row.overrides : row.overrides[k].index = i
            /\ \A k \in DOMAIN row.overrides : row.overrides[k].required =>
                    /\ row.overrides[k].index \in Input
                    /\ executed.inputs[row.overrides[k].index] # Stored
=============================================================================
