------------------------------ MODULE KernelScan ------------------------------
(***************************************************************************)
(* What ReadKernelRequirements and EvaluateKernelRequirements say of an    *)
(* ebuild, beside what bash does with it.                                  *)
(*                                                                         *)
(* The environment writes the ebuild line by line; each action is one turn *)
(* of the loop of readKernelRequirementSource, on one form of line.  The   *)
(* strings that the code composes and parses again are the nodes that they *)
(* parse to, and a node is what its evaluate method answers, context by    *)
(* context.  An ebuild has one array, and may inherit one eclass.          *)
(***************************************************************************)
EXTENDS Integers, Sequences, FiniteSets, SequencesExt

CONSTANTS
  Flags,       \* USE flags
  Predicates,  \* merge_type and kernel_is tests, which the caller's context answers
  Opaque,      \* tests that parseUseConditionExpression refuses
  UseTests,    \* the conditions of "use flag" and "use !flag" in the ebuild
  Tests,       \* the other conditions of if and elif
  Functions,   \* names of functions
  Exported,    \* those whose name ends in "_" and the phase
  Phase,       \* KernelRequirementContext.Phase
  Arrays,      \* the literal arrays: sets of keys and of values, which name symbols
  LoopLimit,   \* how many values a loop is expanded to: 256 in the code
  Dialects     \* what ebuilds there are: forms of line, functions, depth of nesting, lines,
               \* and whether the path of the eclass sorts before the ebuild's

Atoms == Flags \cup Predicates \cup Opaque
Forms == {"ifUse", "if", "block", "else", "elif", "=", "+=", "self", "dynamic", "unmatched",
          "guarded", "warning", "check", "local", "top", "call", "static", "array", "emptyArray",
          "dynamicArray", "loop", "each", "eclass", "missing"}

\* An array that no static text gives is known to bash only: the symbol 0.
NoArray == [keys |-> {}, values |-> {}]
RuntimeArray == [keys |-> {}, values |-> {0}]
Symbols == Nat \ {0}

\* outside all functions
NoFunction == ""

\* UseCondition
UseConditions == [flag : Flags, enabled : BOOLEAN]

Applicability == {"applicable", "inapplicable", "indeterminate"}

\* What the caller says: the truth of the tests, and which kinds of it are told.
Contexts == [answers : [Flags \cup Predicates -> BOOLEAN], useKnown : BOOLEAN, targetKnown : BOOLEAN]
Nodes == [Contexts -> Applicability]

\* What bash finds, and what a caller tells of it.
Worlds == [Atoms -> BOOLEAN]
ContextOf(world, useKnown, targetKnown) ==
  [answers |-> [a \in Flags \cup Predicates |-> world[a]], useKnown |-> useKnown, targetKnown |-> targetKnown]

\* A test as it is written: whether parseUseConditionExpression takes it, the node
\* it parses to, and the worlds in which bash finds it true.
WrittenTests == [parses : BOOLEAN, node : Nodes, holds : SUBSET Worlds]

\* In no context of the world does a node deny what holds there, and it leaves
\* nothing open when all is told.
Fits(node, world, truth) ==
  \A useKnown, targetKnown \in BOOLEAN :
    LET answer == node[ContextOf(world, useKnown, targetKnown)]
    IN /\ answer = "applicable" => truth
       /\ answer = "inapplicable" => ~truth
       /\ useKnown /\ targetKnown => answer # "indeterminate"
Answers(node, holds) == \A world \in Worlds : Fits(node, world, world \in holds)

ASSUME KernelAssumption ==
  /\ UseTests \subseteq UseConditions
  /\ Tests \subseteq WrittenTests /\ \A test \in Tests : test.parses => Answers(test.node, test.holds)
  /\ IsFiniteSet(Functions) /\ Phase \in Functions /\ Exported \subseteq Functions /\ NoFunction \notin Functions
  /\ Arrays \subseteq [keys : SUBSET Symbols, values : (SUBSET Symbols) \ {{}}] /\ LoopLimit \in Nat
  /\ \A d \in Dialects : d.forms \subseteq Forms /\ d.functions \subseteq Functions /\ d.depth \in Nat /\ d.lines \in Nat
                          /\ d.eclassFirst \in BOOLEAN

VARIABLES
  dialect,
  program,           \* the lines written so far
  nesting,           \* what is open in bash: if (with or without its else), block or loop
  origin,            \* the file the line is in: ebuild, or eclass; missing when there is no eclass
  function,          \* the function the line is in, or NoFunction
  conditions,        \* the USE conditions of the line
  controlStack,      \* the control frames of the line
  pendingLocalReset, \* functions with a bare "local CONFIG_CHECK"
  staticArrays,      \* the array as the scanner knows it; <<>> when it does not
  requirements, dynamic, invocations, calls,
  phase              \* "scanning", then "read"

scanVars == <<function, conditions, controlStack, pendingLocalReset, staticArrays>>
foundVars == <<requirements, dynamic, invocations, calls>>
vars == <<dialect, program, nesting, origin, scanVars, foundVars, phase>>

-----------------------------------------------------------------------------
(* Conditions, as kernel_condition.go evaluates them                       *)

\* of one value, or of several
AllApplicable(values) ==
  IF "inapplicable" \in values THEN "inapplicable"
  ELSE IF "indeterminate" \in values THEN "indeterminate" ELSE "applicable"
combineApplicability(left, right) == AllApplicable({left, right})

invertApplicability(value) ==
  CASE value = "applicable" -> "inapplicable"
    [] value = "inapplicable" -> "applicable"
    [] OTHER -> "indeterminate"

eitherApplicability(left, right) ==
  IF "applicable" \in {left, right} THEN "applicable"
  ELSE IF "indeterminate" \in {left, right} THEN "indeterminate" ELSE "inapplicable"

Told(context, atom, known) ==
  IF ~known THEN "indeterminate"
  ELSE IF context.answers[atom] THEN "applicable" ELSE "inapplicable"

conditionUse(flag) == [context \in Contexts |-> Told(context, flag, context.useKnown)]
conditionTarget(predicate) == [context \in Contexts |-> Told(context, predicate, context.targetKnown)]
conditionNot(child) == [context \in Contexts |-> invertApplicability(child[context])]
conditionAnd(left, right) == [context \in Contexts |-> combineApplicability(left[context], right[context])]
conditionOr(left, right) == [context \in Contexts |-> eitherApplicability(left[context], right[context])]

\* The tests of an ebuild: "use flag" and "use !flag", kernel_is and merge_type,
\* a negation and a disjunction, and one that is not parsed, which evaluates to nothing.
use(condition) ==
  [parses |-> TRUE, holds |-> {world \in Worlds : world[condition.flag] = condition.enabled},
   node |-> IF condition.enabled THEN conditionUse(condition.flag) ELSE conditionNot(conditionUse(condition.flag))]
target(predicate) ==
  [parses |-> TRUE, holds |-> {world \in Worlds : world[predicate]}, node |-> conditionTarget(predicate)]
no(test) ==
  [parses |-> test.parses, holds |-> Worlds \ test.holds, node |-> conditionNot(test.node)]
either(one, other) ==
  [parses |-> one.parses /\ other.parses, holds |-> one.holds \cup other.holds,
   node |-> conditionOr(one.node, other.node)]
opaque(atom) ==
  [parses |-> FALSE, holds |-> {world \in Worlds : world[atom]}, node |-> [context \in Contexts |-> "indeterminate"]]

\* Defect: flags that are not told count as disabled.
ConditionsGuessed(conds, context) ==
  IF \A i \in DOMAIN conds : (context.useKnown /\ context.answers[conds[i].flag]) = conds[i].enabled
  THEN "applicable" ELSE "inapplicable"

conditionsApplicability(conds, context) ==
  IF conds # <<>> /\ ~context.useKnown THEN "indeterminate"
  ELSE IF \A i \in DOMAIN conds : context.answers[conds[i].flag] = conds[i].enabled
       THEN "applicable" ELSE "inapplicable"

kernelEvidenceApplicability(evidence, context) ==
  combineApplicability(conditionsApplicability(evidence.conditions, context), evidence.expression[context])

-----------------------------------------------------------------------------
(* The control stack                                                       *)

\* loopValues: <<>> when the frame is no loop over an array
Frame(supported, expression) ==
  [supported |-> supported, expression |-> expression, prior |-> expression, loopValues |-> <<>>]
\* the empty expression, which a conjunction leaves out
NoExpression == [context \in Contexts |-> "applicable"]
\* kernelControlFrame{}: case, while, until and loops over unknown lists
NoFrame == Frame(FALSE, NoExpression)

LoopFrame(known, values) ==
  [Frame(known /\ Cardinality(values) <= LoopLimit, NoExpression) EXCEPT !.loopValues = <<values>>]

\* the expressions of the supported frames, joined by &&
joinedControlExpression(stack) ==
  [context \in Contexts |->
     AllApplicable({stack[i].expression[context] : i \in {j \in DOMAIN stack : stack[j].supported}})]

dynamicKernelControl(stack) == \E i \in DOMAIN stack : ~stack[i].supported

Guarded == controlStack # <<>> /\ Last(controlStack).supported /\ conditions # <<>>

\* Defect: else negates the last test only.
ElseOfLast(frame) == [frame EXCEPT !.expression = conditionNot(frame.expression)]

\* else negates all that the frame has tried
FrameElse(frame) == [frame EXCEPT !.expression = conditionNot(frame.prior)]

FrameElif(frame, next) ==
  [frame EXCEPT !.supported  = @ /\ next.parses,
                !.expression = conditionAnd(conditionNot(frame.prior), next.node),
                !.prior      = conditionOr(frame.prior, next.node)]

ReplaceTop(stack, frame) == [stack EXCEPT ![Len(stack)] = frame]

(***************************************************************************)
(* expandStaticLoopValues: the values that ${name} of the innermost loop   *)
(* takes.  There are none, and the text stays as it is, when an open loop  *)
(* is empty or the loops together have too many.                           *)
(***************************************************************************)
Combinations(stack, i) ==
  FoldLeft(LAMBDA product, frame : IF frame.loopValues = <<>> THEN product
                                   ELSE product * Cardinality(frame.loopValues[1]), 1, SubSeq(stack, 1, i))

expandStaticLoopValues(stack) ==
  LET loops == {i \in DOMAIN stack : stack[i].loopValues # <<>>}
  IN IF loops = {} \/ \E i \in loops : Combinations(stack, i) > LoopLimit \/ stack[i].loopValues[1] = {} THEN {}
     ELSE stack[Max(loops)].loopValues[1]

-----------------------------------------------------------------------------
(* Writing and scanning a line                                             *)

Has(form) == form \in dialect.forms
LineNumber == Len(program) + 1
\* what: the name, the test, the array, the guard or the assignment that is written
Line(form, what) == [form |-> form, what |-> what, fn |-> function, origin |-> origin, number |-> LineNumber]
None == <<>>
Defined == {program[i].what : i \in {j \in DOMAIN program : program[j].form = "function"}}
InLoop == "loop" \in Range(nesting)

\* The ebuild gets one line more: in a function, or before the first one.  A
\* bare local is the first line of its function, and an assignment follows it.
\* An eclass has no functions.  Loops over arrays only append, arrays stand
\* outside all blocks.
Writes(line) ==
  /\ phase = "scanning"
  /\ origin # "missing"
  /\ function = NoFunction /\ line.form # "function" => Has("top") /\ (Defined = {} \/ origin = "eclass")
  /\ InLoop => line.form # "check" /\ (line.form = "assign" => line.what.operator = "+=")
  /\ program # <<>> =>
       /\ line.form = "local" => Last(program).form = "function"
       /\ Last(program).form = "local" => line.form = "assign"
  /\ program' = Append(program, line)
  /\ UNCHANGED <<dialect, origin, phase>>

Opens(kind) == Len(nesting) < dialect.depth /\ nesting' = Append(nesting, kind)
Inside(kinds) == nesting # <<>> /\ Last(nesting) \in kinds

Init ==
  /\ dialect \in Dialects
  /\ program = <<>> /\ nesting = <<>> /\ origin = "ebuild" /\ phase = "scanning"
  /\ function = NoFunction /\ conditions = <<>> /\ controlStack = <<>> /\ pendingLocalReset = {} /\ staticArrays = <<>>
  /\ requirements = {} /\ dynamic = {} /\ invocations = {} /\ calls = {}

ScanFunction(name) ==
  /\ function = NoFunction /\ nesting = <<>> /\ origin = "ebuild" /\ name \in dialect.functions \ Defined
  /\ Writes(Line("function", name))
  /\ function' = name /\ conditions' = <<>> /\ controlStack' = <<>>
  /\ UNCHANGED <<nesting, pendingLocalReset, staticArrays, foundVars>>

ScanBrace ==
  /\ function # NoFunction /\ nesting = <<>> /\ Writes(Line("close", None))
  /\ function' = NoFunction /\ conditions' = <<>> /\ controlStack' = <<>>
  /\ UNCHANGED <<nesting, pendingLocalReset, staticArrays, foundVars>>

ScanIfUse(condition) ==
  /\ Has("ifUse") /\ Opens("if") /\ Writes(Line("if", use(condition)))
  /\ conditions' = Append(conditions, condition)
  /\ controlStack' = Append(controlStack, Frame(TRUE, use(condition).node))
  /\ UNCHANGED <<function, pendingLocalReset, staticArrays, foundVars>>

ScanIf(test) ==
  /\ Has("if") /\ Opens("if") /\ Writes(Line("if", test))
  /\ controlStack' = Append(controlStack, Frame(test.parses, test.node))
  /\ UNCHANGED <<function, conditions, pendingLocalReset, staticArrays, foundVars>>

\* case, and loops; whether bash runs the body is an opaque test
ScanBlock(atom) ==
  /\ Has("block") /\ Opens("block") /\ Writes(Line("if", opaque(atom)))
  /\ controlStack' = Append(controlStack, NoFrame)
  /\ UNCHANGED <<function, conditions, pendingLocalReset, staticArrays, foundVars>>

\* An array is recorded when nothing in it is dynamic; otherwise the scanner
\* keeps what it knew.
ScanArray(array) ==
  /\ nesting = <<>> /\ Writes(Line("array", array))
  /\ staticArrays' = IF array = RuntimeArray THEN staticArrays ELSE <<array>>
  /\ UNCHANGED <<nesting, function, conditions, controlStack, pendingLocalReset, foundVars>>

\* for name in "${array[@]}", or "${!array[@]}"
ScanLoop(ofKeys) ==
  /\ Has("loop") /\ Opens("loop") /\ Writes(Line("for", ofKeys))
  /\ controlStack' = Append(controlStack,
       IF staticArrays = <<>> THEN LoopFrame(FALSE, {})
       ELSE LoopFrame(TRUE, IF ofKeys THEN staticArrays[1].keys ELSE staticArrays[1].values))
  /\ UNCHANGED <<function, conditions, pendingLocalReset, staticArrays, foundVars>>

ScanElse ==
  /\ Has("else") /\ Inside({"if"}) /\ Writes(Line("else", None))
  /\ nesting' = ReplaceTop(nesting, "else")
  /\ conditions' = IF Guarded
                   THEN ReplaceTop(conditions, [Last(conditions) EXCEPT !.enabled = ~@])
                   ELSE conditions
  /\ controlStack' = IF controlStack # <<>> /\ Last(controlStack).supported
                     THEN ReplaceTop(controlStack, FrameElse(Last(controlStack)))
                     ELSE controlStack
  /\ UNCHANGED <<function, pendingLocalReset, staticArrays, foundVars>>

ScanElif(test) ==
  /\ Has("elif") /\ Inside({"if"}) /\ Writes(Line("elif", test))
  /\ conditions' = IF Guarded THEN Front(conditions) ELSE conditions
  /\ controlStack' = IF controlStack # <<>>
                     THEN ReplaceTop(controlStack, FrameElif(Last(controlStack), test))
                     ELSE controlStack
  /\ UNCHANGED <<nesting, function, pendingLocalReset, staticArrays, foundVars>>

ScanFi ==
  /\ Inside({"if", "else"}) /\ Writes(Line("fi", None))
  /\ nesting' = Front(nesting)
  /\ conditions' = IF Guarded THEN Front(conditions) ELSE conditions
  /\ controlStack' = IF controlStack # <<>> THEN Front(controlStack) ELSE <<>>
  /\ UNCHANGED <<function, pendingLocalReset, staticArrays, foundVars>>

\* Defect: the frame of a loop stays when the loop ends.
ScanDoneStays ==
  /\ Inside({"block", "loop"}) /\ Writes(Line("fi", None))
  /\ nesting' = Front(nesting)
  /\ UNCHANGED <<function, conditions, controlStack, pendingLocalReset, staticArrays, foundVars>>

\* esac and done
ScanDone ==
  /\ Inside({"block", "loop"}) /\ Writes(Line("fi", None))
  /\ nesting' = Front(nesting)
  /\ controlStack' = IF controlStack # <<>> THEN Front(controlStack) ELSE <<>>
  /\ UNCHANGED <<function, conditions, pendingLocalReset, staticArrays, foundVars>>

\* a bare "local CONFIG_CHECK"
ScanLocal ==
  /\ Has("local") /\ function # NoFunction /\ Writes(Line("local", None))
  /\ pendingLocalReset' = pendingLocalReset \cup {function}
  /\ UNCHANGED <<nesting, function, conditions, controlStack, staticArrays, foundVars>>

-----------------------------------------------------------------------------
(* Evidence                                                                *)

\* none, or "use flag && ..." before the rest of the line
NoGuard == <<>>
Guards == {NoGuard} \cup (IF Has("guarded") THEN {<<u>> : u \in UseTests} ELSE {})

\* where a line stands: its function and all that guards it
Evidence(guard) ==
  [line       |-> LineNumber,
   origin     |-> origin,
   function   |-> function,
   conditions |-> conditions \o guard,
   expression |-> joinedControlExpression(controlStack)]
\* what is said of no line in particular
EvidenceOfFile(fn) ==
  [line |-> 0, origin |-> "ebuild", function |-> fn, conditions |-> <<>>, expression |-> NoExpression]

ScanCheck(guard) ==
  /\ Has("check") /\ function # NoFunction /\ Writes(Line("check", guard))
  /\ invocations' = invocations \cup {Evidence(guard)}
  /\ UNCHANGED <<nesting, scanVars, requirements, dynamic, calls>>

ScanCall(callee) ==
  /\ Has("call") /\ function # NoFunction /\ callee \in dialect.functions /\ Writes(Line("call", None))
  /\ calls' = calls \cup {<<function, callee>>}
  /\ UNCHANGED <<nesting, scanVars, requirements, dynamic, invocations>>

\* the first += after the bare local replaces
Resets(operator) == operator = "+=" /\ function \in pendingLocalReset

\* Defect: a value that begins with ${CONFIG_CHECK} is taken for a new one.
OperatorAsWritten(value, operator) == IF Resets(operator) THEN "=" ELSE operator

AssignmentOperator(value, operator) ==
  IF value = "self" THEN "+=" ELSE IF Resets(operator) THEN "=" ELSE operator

\* the symbols of one assignment
Tokens == 1..2

\* ${name} of a loop that is not expanded is dynamic, a literal value is not.
IsDynamic(value) ==
  value = "dynamic" \/ (value = "each" /\ expandStaticLoopValues(controlStack) = {})

TokensOf(value) == IF value = "each" THEN expandStaticLoopValues(controlStack) ELSE Tokens

ScanAssignment(value, operator, severity, guard) ==
  /\ Writes(Line("assign", [operator |-> IF value = "self" THEN "+=" ELSE operator, guard |-> guard,
                            each |-> value = "each"]))
  /\ IF value = "unmatched" \/ dynamicKernelControl(controlStack)
     THEN /\ dynamic' = dynamic \cup {[at |-> Evidence(guard), severity |-> "fatal"]}
          /\ UNCHANGED <<requirements, pendingLocalReset>>
     ELSE /\ pendingLocalReset' = IF Resets(operator) THEN pendingLocalReset \ {function}
                                 ELSE pendingLocalReset
          /\ IF IsDynamic(value)
             THEN /\ dynamic' = dynamic \cup {[at |-> Evidence(guard), severity |-> severity]}
                  /\ UNCHANGED requirements
             ELSE /\ requirements' = requirements \cup
                       {[at |-> Evidence(guard), severity |-> severity, token |-> t,
                         operator |-> AssignmentOperator(value, operator)] : t \in TokensOf(value)}
                  /\ UNCHANGED dynamic
  /\ UNCHANGED <<nesting, function, conditions, controlStack, staticArrays, invocations, calls>>

Severities == {"fatal"} \cup (IF Has("warning") THEN {"warning"} ELSE {})

ScanAssign ==
  \E guard \in Guards, severity \in Severities, operator \in {"=", "+="} :
    /\ Has(operator)
    /\ \/ Has("static") /\ ScanAssignment("static", operator, severity, guard)
       \/ Has("each") /\ InLoop /\ ScanAssignment("each", operator, severity, guard)
       \/ /\ operator = "=" /\ Has("self")
          /\ ScanAssignment("self", operator, severity, guard)
       \/ \E value \in {"dynamic", "unmatched"} :
            Has(value) /\ ScanAssignment(value, operator, severity, guard)

EndOfFile == nesting = <<>> /\ function = NoFunction /\ phase = "scanning"

\* The inherited eclass is read as a source of its own.
ScanEclass ==
  /\ EndOfFile /\ Has("eclass") /\ origin = "ebuild"
  /\ origin' = "eclass"
  /\ function' = NoFunction /\ conditions' = <<>> /\ controlStack' = <<>>
  /\ pendingLocalReset' = {} /\ staticArrays' = <<>>
  /\ UNCHANGED <<dialect, program, nesting, foundVars, phase>>

\* findInheritedEclass fails
InheritMissing ==
  /\ EndOfFile /\ Has("missing") /\ origin = "ebuild"
  /\ origin' = "missing"
  /\ dynamic' = dynamic \cup {[at |-> EvidenceOfFile(NoFunction), severity |-> "fatal"]}
  /\ UNCHANGED <<dialect, program, nesting, scanVars, requirements, invocations, calls, phase>>

\* The end of the sources.  An ebuild that inherits linux-info and checks nowhere
\* is checked by the pkg_setup it inherits.
Read(inherits) ==
  /\ EndOfFile
  /\ phase' = "read"
  /\ invocations' =
       IF inherits /\ invocations = {} /\ (requirements # {} \/ dynamic # {})
       THEN {EvidenceOfFile("pkg_setup")}
       ELSE invocations
  /\ UNCHANGED <<dialect, program, nesting, origin, scanVars, requirements, dynamic, calls>>

Done == phase = "read" /\ UNCHANGED vars

\* bound: the lines left suffice to close what is open
Closable ==
  Len(program') + Len(nesting') + (IF function' = NoFunction THEN 0 ELSE 1)
    + (IF Last(program').form = "local" THEN 1 ELSE 0) <= dialect.lines

Scan ==
  \/ \E name \in Functions : ScanFunction(name) \/ ScanCall(name)
  \/ \E condition \in UseTests : ScanIfUse(condition)
  \/ \E test \in Tests : ScanIf(test) \/ ScanElif(test)
  \/ \E atom \in Opaque : ScanBlock(atom)
  \/ \E guard \in Guards : ScanCheck(guard)
  \/ \E array \in Arrays : Has("array") /\ ScanArray(array)
  \/ Has("emptyArray") /\ ScanArray(NoArray)
  \/ Has("dynamicArray") /\ ScanArray(RuntimeArray)
  \/ \E ofKeys \in BOOLEAN : ScanLoop(ofKeys)
  \/ ScanBrace \/ ScanElse \/ ScanFi \/ ScanDone \/ ScanLocal \/ ScanAssign

Next ==
  \/ Scan /\ Closable
  \/ ScanEclass \/ InheritMissing
  \/ \E inherits \in BOOLEAN : Read(inherits)
  \/ Done

Spec == Init /\ [][Next]_vars

-----------------------------------------------------------------------------
(* EvaluateKernelRequirements                                              *)

\* The functions the queue of kernelFunctionReachable comes to, a round of calls
\* at a time: the order of the queue, and that it empties, are left out.
Follow(reached, edges) == reached \cup {edge[2] : edge \in {e \in edges : e[1] \in reached}}
Reached(rounds) == FoldLeft(Follow, {Phase}, [round \in 1..rounds |-> calls])

\* Defect: only what the phase itself calls.
CalledDirectly(name) == name \in Reached(1)

kernelFunctionReachable(name) == name \in Reached(Cardinality(Functions))

\* The checks of the phase that is asked for (with none all would count).  A check
\* outside all functions is called inapplicable and not written here.
invocationsFor(evidence) ==
  {i \in invocations :
     /\ evidence.function \in {NoFunction, i.function}
     /\ ~(evidence.function = i.function /\ evidence.origin = i.origin /\ evidence.line > i.line)
     /\ kernelFunctionReachable(i.function) \/ i.function \in Exported}
invocationApplicability(invocation, context) ==
  IF invocation.function = NoFunction THEN "inapplicable" ELSE kernelEvidenceApplicability(invocation, context)

ApplicabilityAt(evidence, invocation, context) ==
  combineApplicability(kernelEvidenceApplicability(evidence, context),
                       invocationApplicability(invocation, context))

\* applyRequirementAssignmentFlow: in the order of paths and lines, a later =
\* takes all that was there before it.
Sorts(earlier, later) ==
  IF earlier.origin = later.origin THEN earlier.line < later.line
  ELSE (earlier.origin = "eclass") = dialect.eclassFirst
Replaces(later, earlier) == later.operator = "=" /\ Sorts(earlier.at, later.at)
ApplicableRequirements(invocation, context) ==
  LET applicable == {r \in requirements : /\ invocation \in invocationsFor(r.at)
                                          /\ ApplicabilityAt(r.at, invocation, context) = "applicable"}
  IN {r \in applicable : ~\E later \in applicable : Replaces(later, r)}

Unsettled(requirement, context) ==
  {i \in invocationsFor(requirement.at) : ApplicabilityAt(requirement.at, i, context) = "indeterminate"}

\* Defect: what may apply does not block.
BlockingWhenCertain(found, context) ==
  /\ found.severity = "fatal"
  /\ \E i \in invocationsFor(found.at) : ApplicabilityAt(found.at, i, context) = "applicable"

Blocking(found, context) ==
  /\ found.severity = "fatal"
  /\ \E i \in invocationsFor(found.at) : ApplicabilityAt(found.at, i, context) # "inapplicable"

\* ReadKernelRequirements is asked to allow what is partial.  With RequireComplete
\* it returns the same evidence, and an error if any of it is dynamic.
Complete(context) ==
  /\ \A r \in requirements : r.severity = "fatal" => Unsettled(r, context) = {}
  /\ \A d \in dynamic : ~Blocking(d, context)

-----------------------------------------------------------------------------
(* bash                                                                    *)

\* what a loop goes through: the keys of a plain array are its indices
Elements(array, ofKeys) ==
  IF ~ofKeys THEN array.values
  ELSE IF array.keys = {} /\ array.values # {} THEN {0} ELSE array.keys

\* A shell that sources a file.  value: the symbols CONFIG_CHECK names, with the
\* lines they come from; ran: the lines that took effect; seen: its value at each
\* check.  A loop that only appends may as well run once, with all its elements.
Shell(world) ==
  [world |-> world, file |-> "ebuild", blocks |-> <<>>, array |-> NoArray, value |-> {}, ran |-> {}, seen |-> {}]

Runs(bash, guard) ==
  /\ \A i \in DOMAIN bash.blocks : bash.blocks[i].now
  /\ \A i \in DOMAIN guard : bash.world[guard[i].flag] = guard[i].enabled

EachOf(blocks) == IF blocks = <<>> THEN {} ELSE Last(blocks).each

Assigned(bash, assignment, n) ==
  ({n} \X (IF assignment.each THEN EachOf(bash.blocks) ELSE Tokens))
    \cup (IF assignment.operator = "=" THEN {} ELSE bash.value)

Obey(bash, line) ==
  LET top  == Last(bash.blocks)
      holds == bash.world \in line.what.holds
      elements == Elements(bash.array, line.what)
  IN CASE line.form = "if" ->
            [bash EXCEPT !.blocks = Append(@, [now |-> holds, tried |-> holds, each |-> EachOf(@)])]
       [] line.form = "for" ->
            [bash EXCEPT !.blocks = Append(@, [now |-> elements # {}, tried |-> TRUE, each |-> elements])]
       [] line.form = "elif" ->
            [bash EXCEPT !.blocks = ReplaceTop(@, [now |-> holds /\ ~top.tried, tried |-> holds \/ top.tried,
                                                   each |-> top.each])]
       [] line.form = "else" ->
            [bash EXCEPT !.blocks = ReplaceTop(@, [now |-> ~top.tried, tried |-> TRUE, each |-> top.each])]
       [] line.form = "fi" -> [bash EXCEPT !.blocks = Front(@)]
       [] line.form = "array" -> [bash EXCEPT !.array = line.what]
       [] line.form = "local" /\ Runs(bash, NoGuard) -> [bash EXCEPT !.value = {}]
       [] line.form = "assign" /\ Runs(bash, line.what.guard) ->
            [bash EXCEPT !.ran = @ \cup {line.number}, !.value = Assigned(bash, line.what, line.number)]
       [] line.form = "check" /\ Runs(bash, line.what) ->
            [bash EXCEPT !.ran = @ \cup {line.number}, !.seen = @ \cup {<<line.number, bash.value>>}]
       [] OTHER -> bash

\* The eclass is sourced where it is inherited, above the rest of the ebuild;
\* then the function of the phase is called.
Executes(bash, line) == line.origin = bash.file /\ line.fn \in {NoFunction, Phase}
Turn(bash, line) == IF Executes(bash, line) THEN Obey(bash, line) ELSE bash
Sourced(bash, file) == FoldLeft(Turn, [bash EXCEPT !.file = file], program)
Bash(world) == Sourced(Sourced(Shell(world), "eclass"), "ebuild")

\* The checks bash comes to, with the value of CONFIG_CHECK; the pkg_setup that is
\* inherited checks when the ebuild has none of its own.
Seen(bash) ==
  bash.seen \cup (IF Phase = "pkg_setup" /\ Phase \notin Defined THEN {<<0, bash.value>>} ELSE {})

-----------------------------------------------------------------------------
(* Properties                                                              *)

\* where bash may get to a line: it is not of another function than the phase's
OfPhase(evidence) == evidence.function \in {NoFunction, Phase}
HasLine(form) == \E n \in DOMAIN program : program[n].form = form

\* Ebuilds whose loops are understood: with a loop there is no function but the
\* phase's, for the scanner carries an array from one function to the next, and
\* only ${name} is assigned in a loop over what may be empty.
LoopsUnderstood(d) ==
  "loop" \in d.forms =>
    /\ d.functions \subseteq {Phase}
    /\ "emptyArray" \in d.forms => {"static", "self"} \cap d.forms = {}
\* Ebuilds whose conditions are those of their blocks: no block whose test is a
\* "use flag" is nested with one whose test is another.
ConditionsUnmixed(d) == {"if", "elif"} \cap d.forms # {} /\ "ifUse" \in d.forms => d.depth <= 1
\* Ebuilds whose values are those of bash: an eclass sorts before the ebuild, what
\* follows a bare local is an unguarded +=, and no array that is known is replaced
\* by one that is not.
ValuesUnderstood(d) ==
  /\ "eclass" \in d.forms => d.eclassFirst
  /\ "local" \in d.forms => {"=", "guarded"} \cap d.forms = {}
  /\ "dynamicArray" \in d.forms => {"array", "emptyArray"} \cap d.forms = {}

TypeOK ==
  /\ dialect \in Dialects /\ phase \in {"scanning", "read"}
  /\ origin \in {"ebuild", "eclass", "missing"}
  /\ function \in Functions \cup {NoFunction} /\ pendingLocalReset \subseteq Functions
  /\ staticArrays = <<>> \/ staticArrays[1] \in Arrays \cup {NoArray}
  /\ Len(conditions) <= Len(controlStack) /\ Len(controlStack) = Len(nesting)
  /\ \A r \in requirements : r.at.line \in DOMAIN program /\ r.operator \in {"=", "+="}
  /\ \A d \in dynamic : d.at.line \in DOMAIN program \cup {0}
  /\ calls \subseteq Functions \X Functions

(***************************************************************************)
(* A requirement is called applicable only when bash runs its assignment,  *)
(* whatever the caller left out: the composed strings of else and elif,    *)
(* and the three-valued logic, never claim a branch that is not taken.     *)
(***************************************************************************)
ApplicableIsActive ==
  phase = "read" =>
    \A world \in Worlds, useKnown, targetKnown \in BOOLEAN :
      LET context == ContextOf(world, useKnown, targetKnown)
          ran == Bash(world).ran
      IN \A r \in requirements :
           OfPhase(r.at) /\ kernelEvidenceApplicability(r.at, context) = "applicable" => r.at.line \in ran

(***************************************************************************)
(* No evidence, static or not, is called inapplicable when bash runs its   *)
(* line: evidence is conservative.                                         *)
(***************************************************************************)
ActiveIsKept ==
  phase = "read" =>
    \A world \in Worlds, useKnown, targetKnown \in BOOLEAN :
      LET context == ContextOf(world, useKnown, targetKnown)
          ran == Bash(world).ran
      IN \A found \in requirements \cup dynamic :
           found.at.line \in ran => kernelEvidenceApplicability(found.at, context) # "inapplicable"

(***************************************************************************)
(* When everything is told and nothing dynamic ran, the requirements called *)
(* applicable at a check that bash gets to are what CONFIG_CHECK names      *)
(* there: replacement, append, self reference and branches have the effect *)
(* they have in bash, and assignments after the check have none.           *)
(***************************************************************************)
ValueIsExact ==
  phase = "read" /\ calls = {} =>
    \A world \in Worlds :
      LET context == ContextOf(world, TRUE, TRUE)
          bash == Bash(world)
      IN (\A d \in dynamic : d.at.line \notin bash.ran) =>
           \A i \in invocations, check \in Seen(bash) :
             check[1] = i.line =>
               {<<r.at.line, r.token>> : r \in ApplicableRequirements(i, context)} = check[2]

(***************************************************************************)
(* An evaluation is not called complete when bash runs an assignment that  *)
(* was not understood, fatal, before a check it gets to, nor when there is *)
(* a check and an eclass could not be read.                                *)
(***************************************************************************)
CompleteIsSettled ==
  phase = "read" /\ calls = {} =>
    \A world \in Worlds, useKnown, targetKnown \in BOOLEAN :
      LET bash == Bash(world)
      IN Complete(ContextOf(world, useKnown, targetKnown)) =>
           \A d \in dynamic, i \in invocations, check \in Seen(bash) :
             d.severity = "fatal" /\ d.at.line \in bash.ran \cup {0} /\ check[1] = i.line
               => i.line # 0 /\ i.line < d.at.line /\ d.at.origin = i.origin

(***************************************************************************)
(* The checks considered for what is set outside all functions are those   *)
(* in functions that the phase calls, directly or through others, and in   *)
(* those exported for it: the queue of the search misses none, and comes   *)
(* to no other.  A set of functions is closed when it has the phase and    *)
(* all that its members call.                                              *)
(***************************************************************************)
Closed(set) == Phase \in set /\ \A call \in calls : call[1] \in set => call[2] \in set
ChecksFollowCalls ==
  phase = "read" =>
    invocationsFor(EvidenceOfFile(NoFunction))
      = {i \in invocations : i.function \in Exported \/ \A set \in SUBSET Functions : Closed(set) => i.function \in set}

=============================================================================
