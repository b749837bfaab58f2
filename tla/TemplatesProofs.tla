--------------------------- MODULE TemplatesProofs ---------------------------
(***************************************************************************)
(* Templates are executed as they were declared, whatever the templates,   *)
(* the declarations and the executions are.                                *)
(*                                                                         *)
(* The two invariants are inductive together with the fact that the last   *)
(* execution is of a row that exists: rows are only ever appended, so what *)
(* was true of the row when it was executed stays true.                    *)
(***************************************************************************)
EXTENDS Templates, TLAPS

TInv ==
    /\ TypeOK
    /\ executed # Nothing => executed.id \in DOMAIN template
    /\ ExecutedAsDeclared

\* What is put in place of an input: a value if one was given, and only then.
LEMMA ReplacedGiven ==
    ASSUME NEW given \in Givens, NEW i \in Input
    PROVE  /\ Replaced(given) \in [Input -> Value \cup {Stored}]
           /\ Replaced(given)[i] # Stored <=> i \in Indexes(given)
<1>1. given \in Seq(Given) /\ Stored \notin Value
  BY TemplatesAssumption
<1>2. ASSUME NEW j \in Input, j \in Indexes(given)
      PROVE  given[CHOOSE k \in DOMAIN given : given[k].index = j].value \in Value
  <2>1. PICK k \in DOMAIN given : given[k].index = j
    BY <1>2 DEF Indexes
  <2>2. (CHOOSE l \in DOMAIN given : given[l].index = j) \in DOMAIN given
    BY <2>1
  <2>3. \A l \in DOMAIN given : given[l] \in Given
    BY <1>1
  <2> QED
    BY <2>2, <2>3 DEF Given
<1> QED
  BY <1>1, <1>2 DEF Replaced

\* The overrides of a declaration that some template was made of.
LEMMA OverridesTyped ==
    ASSUME NEW declaration \in Declarations
    PROVE  /\ declaration.form \in {"list", "all", "none"}
           /\ Overrides(declaration) \in Seq(Override)
<1>1. declaration \in Declaration
  BY TemplatesAssumption
<1>2. CASE declaration \in [form : {"list"}, overrides : Seq(Override)]
  BY <1>2 DEF Overrides
<1>3. CASE declaration \in [form : {"all", "none"}]
  <2>1. <<>> \in Seq(Override)
    OBVIOUS
  <2> QED
    BY <1>3, <2>1 DEF Overrides
<1> QED
  BY <1>1, <1>2, <1>3 DEF Declaration

LEMMA InitTInv == Init => TInv
<1> SUFFICES ASSUME Init PROVE TInv
  OBVIOUS
<1>1. template = <<>> /\ executed = Nothing
  BY DEF Init
<1>2. template \in Seq(TemplateRow) /\ Len(template) = 0
  BY <1>1
<1> QED
  BY <1>1, <1>2, TemplatesAssumption DEF TInv, TypeOK, ExecutedAsDeclared

LEMMA NewTemplateTInv ==
    ASSUME TInv, NEW owner \in User, NEW visibility \in {"owned", "shared"},
           NEW declaration \in Declarations, NewTemplate(owner, visibility, declaration)
    PROVE  TInv'
<1> DEFINE row == [owner |-> owner, visibility |-> visibility,
                   form |-> declaration.form, overrides |-> Overrides(declaration)]
<1>1. row \in TemplateRow
  BY OverridesTyped DEF TemplateRow
<1>2. /\ template \in Seq(TemplateRow) /\ Len(template) < MaxTemplates
      /\ template' = Append(template, row) /\ executed' = executed
  BY DEF NewTemplate, TInv, TypeOK
<1> HIDE DEF row
<1>3. /\ template' \in Seq(TemplateRow) /\ Len(template') = Len(template) + 1
      /\ \A k \in DOMAIN template : k \in DOMAIN template' /\ template'[k] = template[k]
  BY <1>1, <1>2
<1>4. Len(template') <= MaxTemplates
  BY <1>2, <1>3, TemplatesAssumption
<1>5. TypeOK'
  BY <1>2, <1>3, <1>4 DEF TInv, TypeOK
<1>6. (executed # Nothing => executed.id \in DOMAIN template)'
  BY <1>2, <1>3 DEF TInv
<1>7. ExecutedAsDeclared'
  BY <1>2, <1>3 DEF TInv, ExecutedAsDeclared
<1> QED
  BY <1>5, <1>6, <1>7 DEF TInv

LEMMA ExecuteTInv ==
    ASSUME TInv, NEW user \in User, NEW id \in DOMAIN template, NEW given \in Givens,
           ExecuteTemplate(user, id, given)
    PROVE  TInv'
<1> DEFINE row == template[id]
<1>1. /\ template' = template /\ MayExecute(user, row) /\ Resolves(row, given)
      /\ Indexes(given) \subseteq Input
      /\ executed' = [by |-> user, id |-> id, given |-> given, inputs |-> Replaced(given)]
  BY DEF ExecuteTemplate
<1>2. /\ template \in Seq(TemplateRow) /\ Len(template) <= MaxTemplates
      /\ row \in TemplateRow /\ id \in 1..MaxTemplates
  BY TemplatesAssumption DEF TInv, TypeOK
<1>3. given \in Seq(Given)
  BY TemplatesAssumption
<1>4. Replaced(given) \in [Input -> Value \cup {Stored}]
  <2>1. CASE Input = {}
    BY <2>1 DEF Replaced
  <2>2. CASE Input # {}
    BY <2>2, ReplacedGiven
  <2> QED
    BY <2>1, <2>2
<1>5. TypeOK'
  <2>1. executed' \in Execution
    BY <1>1, <1>2, <1>3, <1>4 DEF Execution
  <2> QED
    BY <1>1, <1>2, <2>1 DEF TypeOK
<1>6. row.visibility = "owned" => user = row.owner
  BY <1>1 DEF MayExecute
<1>7. ASSUME NEW i \in Input, Replaced(given)[i] # Stored
      PROVE  \E k \in DOMAIN row.overrides : row.overrides[k].index = i
  <2>1. i \in Indexes(given)
    BY <1>7, ReplacedGiven
  <2>2. given # <<>>
    BY <2>1 DEF Indexes
  <2>3. i \in Indexes(row.overrides)
    BY <1>1, <2>1, <2>2 DEF Resolves
  <2> QED
    BY <2>3 DEF Indexes
<1>8. ASSUME NEW k \in DOMAIN row.overrides, row.overrides[k].required
      PROVE  /\ row.overrides[k].index \in Input
             /\ Replaced(given)[row.overrides[k].index] # Stored
  <2>1. row.overrides[k].index \in RequiredIndexes(row)
    BY <1>8 DEF RequiredIndexes
  <2>2. row.overrides[k].index \in Indexes(given)
    BY <1>1, <2>1 DEF Resolves
  <2> QED
    BY <1>1, <2>2, ReplacedGiven
<1>9. executed'.id = id /\ executed'.by = user /\ executed'.inputs = Replaced(given)
  BY <1>1
<1>10. template'[executed'.id] = row
  BY <1>1, <1>9
<1>11. ExecutedAsDeclared'
  BY <1>6, <1>7, <1>8, <1>9, <1>10 DEF ExecutedAsDeclared
<1> QED
  BY <1>1, <1>5, <1>9, <1>11 DEF TInv

LEMMA TInvInductive == TInv /\ [Next]_vars => TInv'
<1> SUFFICES ASSUME TInv, [Next]_vars PROVE TInv'
  OBVIOUS
<1>1. ASSUME NEW owner \in User, NEW visibility \in {"owned", "shared"},
             NEW declaration \in Declarations, NewTemplate(owner, visibility, declaration)
      PROVE  TInv'
  BY <1>1, NewTemplateTInv
<1>2. ASSUME NEW user \in User, NEW id \in DOMAIN template, NEW given \in Givens,
             ExecuteTemplate(user, id, given)
      PROVE  TInv'
  BY <1>2, ExecuteTInv
<1>3. CASE UNCHANGED vars
  BY <1>3 DEF vars, TInv, TypeOK, ExecutedAsDeclared
<1> QED
  BY <1>1, <1>2, <1>3 DEF Next

LEMMA TInvAlways == Spec => []TInv
BY InitTInv, TInvInductive, PTL DEF Spec

\* The template table and the last execution keep their types.
THEOREM TemplatesTyped == Spec => []TypeOK
<1>1. TInv => TypeOK
  BY DEF TInv
<1> QED
  BY <1>1, TInvAlways, PTL

\* What is executed is the template as its owner declared it
\* (template_payload_to_tx): for any accounts, any inputs, any declarations,
\* contradictory ones too, and any overrides that name an index once.
THEOREM ExecutedAsDeclaredHolds == Spec => []ExecutedAsDeclared
<1>1. TInv => ExecutedAsDeclared
  BY DEF TInv
<1> QED
  BY <1>1, TInvAlways, PTL
=============================================================================
