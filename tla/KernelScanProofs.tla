--------------------------- MODULE KernelScanProofs ---------------------------
(***************************************************************************)
(* Proofs about KernelScan: what is said of an ebuild agrees with what     *)
(* bash does with it, for any tests, functions, arrays and numbers of      *)
(* lines and blocks.                                                       *)
(***************************************************************************)
EXTENDS KernelScan, FiniteSetTheorems, TLAPS

\* The fold of the lines that bash obeys, and of the rounds of calls.
Turns == INSTANCE SequenceFolds WITH Op <- Turn
Rounds == INSTANCE SequenceFolds WITH Op <- Follow

-----------------------------------------------------------------------------
(* Sequences                                                               *)

(***************************************************************************)
(* What is pushed.                                                         *)
(***************************************************************************)
LEMMA PushFacts ==
  ASSUME NEW S, NEW s \in Seq(S), NEW x \in S
  PROVE  /\ Append(s, x) \in Seq(S) /\ Len(Append(s, x)) = Len(s) + 1 /\ Append(s, x) # <<>>
         /\ DOMAIN Append(s, x) = 1..Len(s) + 1 /\ Append(s, x)[Len(s) + 1] = x
         /\ \A i \in DOMAIN s : Append(s, x)[i] = s[i]
         /\ Last(Append(s, x)) = x
BY DEF Last

(***************************************************************************)
(* What is left when the top is popped.                                    *)
(***************************************************************************)
LEMMA PopFacts ==
  ASSUME NEW S, NEW s \in Seq(S), s # <<>>
  PROVE  /\ Len(s) \in Nat \ {0} /\ Len(s) \in DOMAIN s /\ DOMAIN s = 1..Len(s)
         /\ Last(s) = s[Len(s)] /\ Last(s) \in S
         /\ Front(s) \in Seq(S) /\ Len(Front(s)) = Len(s) - 1 /\ DOMAIN Front(s) = 1..Len(s) - 1
         /\ \A i \in DOMAIN Front(s) : Front(s)[i] = s[i]
<1>1. Len(s) \in Nat \ {0} /\ Len(s) \in DOMAIN s /\ DOMAIN s = 1..Len(s)
  OBVIOUS
<1>2. Last(s) = s[Len(s)] /\ Last(s) \in S
  BY <1>1 DEF Last
<1>3. Front(s) = [i \in 1..Len(s) - 1 |-> s[i]]
  BY <1>1 DEF Front
<1>4. Front(s) \in Seq(S) /\ Len(Front(s)) = Len(s) - 1
  BY <1>1, <1>3
<1>. QED BY <1>1, <1>2, <1>3, <1>4

(***************************************************************************)
(* What is left when the top is replaced.                                  *)
(***************************************************************************)
LEMMA ReplaceFacts ==
  ASSUME NEW S, NEW s \in Seq(S), s # <<>>, NEW x \in S
  PROVE  /\ ReplaceTop(s, x) \in Seq(S) /\ Len(ReplaceTop(s, x)) = Len(s)
         /\ DOMAIN ReplaceTop(s, x) = DOMAIN s /\ ReplaceTop(s, x)[Len(s)] = x
         /\ \A i \in DOMAIN s : i # Len(s) => ReplaceTop(s, x)[i] = s[i]
BY DEF ReplaceTop

-----------------------------------------------------------------------------
(* What the state is made of                                               *)

Kinds == {"if", "else", "block", "loop"}
LoopValues == {<<>>} \cup {<<values>> : values \in SUBSET Nat}
Frames == [supported : BOOLEAN, expression : Nodes, prior : Nodes, loopValues : LoopValues]
AnyArrays == [keys : SUBSET Nat, values : SUBSET Nat]
Guardings == {NoGuard} \cup {<<u>> : u \in UseTests}
Assignments == [operator : {"=", "+="}, guard : Guardings, each : BOOLEAN]
WhatOf(form) ==
  CASE form \in {"if", "elif"} -> WrittenTests
    [] form = "for" -> BOOLEAN
    [] form = "array" -> AnyArrays
    [] form = "check" -> Guardings
    [] form = "assign" -> Assignments
    [] form = "function" -> Functions
    [] OTHER -> {None}
LineForms == {"function", "close", "if", "elif", "else", "fi", "for", "array", "local", "call", "check", "assign"}
Lines ==
  UNION {[form : {form}, what : WhatOf(form), fn : Functions \cup {NoFunction}, origin : {"ebuild", "eclass"},
          number : Nat] : form \in LineForms}
Evidences ==
  [line : Nat, origin : {"ebuild", "eclass"}, function : Functions \cup {NoFunction, "pkg_setup"}, conditions : Seq(UseConditions),
   expression : Nodes]
Founds == [at : Evidences, severity : {"fatal", "warning"}]
Requirements ==
  [at : Evidences, severity : {"fatal", "warning"}, token : Nat, operator : {"=", "+="}]

\* Evidence is of a line that is written.
Located(evidence, form) ==
  /\ evidence.line \in DOMAIN program
  /\ LET line == program[evidence.line]
     IN line.form = form /\ line.origin = evidence.origin /\ line.fn = evidence.function

(***************************************************************************)
(* Conditions are those of supported frames of an if, in order: pos says   *)
(* of which.  There may be fewer: an elif drops one, and of a test that is *)
(* no "use flag" there is none.                                            *)
(***************************************************************************)
IfKinds == {"if", "else"}
Placed(pos, n, stack, nest) ==
  /\ pos \in [1..n -> 1..Len(stack)]
  /\ \A k \in 1..n : k <= pos[k] /\ stack[pos[k]].supported /\ nest[pos[k]] \in IfKinds
  /\ \A k, l \in 1..n : k < l => pos[k] < pos[l]

ProgramInv ==
  /\ dialect \in Dialects /\ phase \in {"scanning", "read"}
  /\ origin \in {"ebuild", "eclass", "missing"}
  /\ program \in Seq(Lines) /\ \A n \in DOMAIN program : program[n].number = n
ScannerInv ==
  /\ nesting \in Seq(Kinds) /\ function \in Functions \cup {NoFunction} /\ pendingLocalReset \subseteq Functions
  /\ staticArrays = <<>> \/ \E array \in Arrays \cup {NoArray} : staticArrays = <<array>>
  /\ conditions \in Seq(UseConditions) /\ controlStack \in Seq(Frames)
  /\ Len(controlStack) = Len(nesting)
  /\ \E pos : Placed(pos, Len(conditions), controlStack, nesting)
FoundInv ==
  /\ requirements \subseteq Requirements /\ dynamic \subseteq Founds /\ invocations \subseteq Evidences
  /\ calls \subseteq Functions \X Functions
TypeInv == ProgramInv /\ ScannerInv /\ FoundInv

LocatedInv ==
  /\ \A r \in requirements : Located(r.at, "assign")
  /\ \A d \in dynamic : Located(d.at, "assign") \/ (d.at = EvidenceOfFile(NoFunction) /\ origin = "missing")
  /\ \A i \in invocations : Located(i, "check") \/ i = EvidenceOfFile("pkg_setup")

-----------------------------------------------------------------------------
(* Type correctness                                                        *)

(***************************************************************************)
(* What is assumed of the constants.                                       *)
(***************************************************************************)
LEMMA ConstantFacts ==
  /\ UseTests \subseteq UseConditions /\ Tests \subseteq WrittenTests
  /\ \A test \in Tests : test.parses => Answers(test.node, test.holds)
  /\ IsFiniteSet(Functions) /\ Phase \in Functions /\ Exported \subseteq Functions /\ NoFunction \notin Functions
  /\ \A array \in Arrays : array \in AnyArrays /\ array.values # {} /\ 0 \notin array.values /\ 0 \notin array.keys
  /\ NoArray \in AnyArrays /\ RuntimeArray \in AnyArrays
  /\ \A d \in Dialects : d.functions \subseteq Functions /\ d.depth \in Nat
<1>1. /\ UseTests \subseteq UseConditions /\ Tests \subseteq WrittenTests
      /\ \A test \in Tests : test.parses => Answers(test.node, test.holds)
  BY KernelAssumption
<1>2. /\ IsFiniteSet(Functions) /\ Phase \in Functions /\ Exported \subseteq Functions /\ NoFunction \notin Functions
      /\ \A d \in Dialects : d.functions \subseteq Functions /\ d.depth \in Nat
  BY KernelAssumption
<1>3. Arrays \subseteq [keys : SUBSET Symbols, values : (SUBSET Symbols) \ {{}}]
  BY KernelAssumption
<1>4. \A array \in Arrays : array \in AnyArrays /\ array.values # {} /\ 0 \notin array.values /\ 0 \notin array.keys
  BY <1>3 DEF AnyArrays, Symbols
<1>5. NoArray \in AnyArrays /\ RuntimeArray \in AnyArrays
  BY DEF NoArray, RuntimeArray, AnyArrays
<1>. QED BY <1>1, <1>2, <1>4, <1>5

(***************************************************************************)
(* Every composed condition is a node.                                     *)
(***************************************************************************)
LEMMA NodeTypes ==
  /\ \A flag : conditionUse(flag) \in Nodes
  /\ \A predicate : conditionTarget(predicate) \in Nodes
  /\ \A child \in Nodes : conditionNot(child) \in Nodes
  /\ \A left, right \in Nodes : conditionAnd(left, right) \in Nodes /\ conditionOr(left, right) \in Nodes
  /\ NoExpression \in Nodes
  /\ \A stack : joinedControlExpression(stack) \in Nodes
<1>1. \A values : AllApplicable(values) \in Applicability
  BY DEF AllApplicable, Applicability
<1>2. \A left, right : combineApplicability(left, right) \in Applicability
  BY <1>1 DEF combineApplicability
<1>3. \A left, right : eitherApplicability(left, right) \in Applicability
  BY DEF eitherApplicability, Applicability
<1>4. \A value : invertApplicability(value) \in Applicability
  BY DEF invertApplicability, Applicability
<1>5. \A context, atom, known : Told(context, atom, known) \in Applicability
  BY DEF Told, Applicability
<1>6. "applicable" \in Applicability
  BY DEF Applicability
<1>. QED BY <1>1, <1>2, <1>3, <1>4, <1>5, <1>6
         DEF Nodes, conditionUse, conditionTarget, conditionNot, conditionAnd, conditionOr, NoExpression,
             joinedControlExpression

(***************************************************************************)
(* The tests that the code's grammar has are written tests.                *)
(***************************************************************************)
LEMMA TestTypes ==
  /\ \A condition \in UseConditions : use(condition) \in WrittenTests
  /\ \A predicate \in Predicates : target(predicate) \in WrittenTests
  /\ \A test \in WrittenTests : no(test) \in WrittenTests
  /\ \A one, other \in WrittenTests : either(one, other) \in WrittenTests
  /\ \A atom : opaque(atom) \in WrittenTests
<1>1. [context \in Contexts |-> "indeterminate"] \in Nodes
  BY DEF Nodes, Applicability
<1>. QED BY <1>1, NodeTypes DEF WrittenTests, use, target, no, either, opaque

(***************************************************************************)
(* Frames of the control stack, as they are pushed and changed.            *)
(***************************************************************************)
LEMMA FrameTypes ==
  /\ \A supported \in BOOLEAN, node \in Nodes : Frame(supported, node) \in Frames
  /\ NoFrame \in Frames
  /\ \A known \in BOOLEAN, values \in SUBSET Nat : LoopFrame(known, values) \in Frames
  /\ \A frame \in Frames : FrameElse(frame) \in Frames
  /\ \A frame \in Frames, test \in WrittenTests : FrameElif(frame, test) \in Frames
<1>1. \A supported \in BOOLEAN, node \in Nodes : Frame(supported, node) \in Frames
  BY DEF Frame, Frames, LoopValues
<1>2. NoFrame \in Frames
  BY <1>1, NodeTypes DEF NoFrame
<1>3. ASSUME NEW known \in BOOLEAN, NEW values \in SUBSET Nat PROVE LoopFrame(known, values) \in Frames
  <2>1. Frame(known /\ Cardinality(values) <= LoopLimit, NoExpression) \in Frames
    BY <1>1, NodeTypes
  <2>2. <<values>> \in LoopValues
    BY DEF LoopValues
  <2>. QED BY <2>1, <2>2 DEF LoopFrame, Frames
<1>4. \A frame \in Frames : FrameElse(frame) \in Frames
  BY NodeTypes DEF FrameElse, Frames
<1>5. ASSUME NEW frame \in Frames, NEW test \in WrittenTests PROVE FrameElif(frame, test) \in Frames
  BY NodeTypes DEF FrameElif, Frames, WrittenTests
<1>. QED BY <1>1, <1>2, <1>3, <1>4, <1>5

(***************************************************************************)
(* What a line adds to the program.                                        *)
(***************************************************************************)
LEMMA WriteFacts ==
  ASSUME ProgramInv, function \in Functions \cup {NoFunction},
         NEW form \in LineForms, NEW what \in WhatOf(form), Writes(Line(form, what))
  PROVE  /\ program' = Append(program, Line(form, what)) /\ Line(form, what) \in Lines
         /\ program' \in Seq(Lines) /\ Len(program') = Len(program) + 1 /\ DOMAIN program' = 1..Len(program) + 1
         /\ DOMAIN program = 1..Len(program) /\ Len(program) \in Nat /\ LineNumber = Len(program) + 1
         /\ program'[LineNumber] = Line(form, what)
         /\ \A n \in DOMAIN program : program'[n] = program[n]
         /\ \A n \in DOMAIN program' : program'[n].number = n
         /\ dialect' = dialect /\ origin' = origin /\ phase' = phase /\ phase = "scanning"
         /\ origin \in {"ebuild", "eclass"} /\ ProgramInv'
<1>1. /\ program' = Append(program, Line(form, what)) /\ dialect' = dialect /\ origin' = origin
      /\ phase' = phase /\ phase = "scanning" /\ origin \in {"ebuild", "eclass"}
  BY DEF Writes, ProgramInv
<1>2. Len(program) \in Nat /\ LineNumber = Len(program) + 1 /\ DOMAIN program = 1..Len(program)
  BY DEF ProgramInv, LineNumber
<1>3. Line(form, what) \in Lines
  <2>1. Line(form, what) \in [form : {form}, what : WhatOf(form), fn : Functions \cup {NoFunction},
                              origin : {"ebuild", "eclass"}, number : Nat]
    BY <1>1, <1>2 DEF Line
  <2>. QED BY <2>1 DEF Lines
<1>4. Line(form, what).number = LineNumber
  BY DEF Line
<1>. HIDE DEF Line, LineNumber
<1>5. /\ program' \in Seq(Lines) /\ Len(program') = Len(program) + 1 /\ DOMAIN program' = 1..Len(program) + 1
      /\ program'[LineNumber] = Line(form, what)
      /\ \A n \in DOMAIN program : program'[n] = program[n]
  BY <1>1, <1>2, <1>3, PushFacts DEF ProgramInv
<1>6. ASSUME NEW n \in DOMAIN program' PROVE program'[n].number = n
  <2>1. CASE n \in DOMAIN program
    BY <1>5, <2>1 DEF ProgramInv
  <2>2. CASE n = LineNumber
    BY <1>5, <1>4, <2>2
  <2>. QED BY <1>5, <1>2, <2>1, <2>2
<1>7. ProgramInv'
  BY <1>1, <1>5, <1>6 DEF ProgramInv
<1>. QED BY <1>1, <1>2, <1>3, <1>5, <1>6, <1>7

(***************************************************************************)
(* Evidence of a line.                                                     *)
(***************************************************************************)
LEMMA EvidenceType ==
  ASSUME TypeInv, origin \in {"ebuild", "eclass"}, NEW guard \in Guardings
  PROVE  /\ Evidence(guard) \in Evidences /\ Evidence(guard).line = LineNumber
         /\ Evidence(guard).origin = origin /\ Evidence(guard).function = function
         /\ Evidence(guard).conditions = conditions \o guard
         /\ Evidence(guard).expression = joinedControlExpression(controlStack)
<1>1. guard \in Seq(UseConditions)
  <2>1. CASE guard = <<>>
    BY <2>1
  <2>2. ASSUME NEW u \in UseTests, guard = <<u>> PROVE guard \in Seq(UseConditions)
    <3>1. u \in UseConditions
      BY <2>2, ConstantFacts
    <3>. QED BY <3>1, <2>2
  <2>. QED BY <2>1, <2>2 DEF Guardings, NoGuard
<1>2. conditions \o guard \in Seq(UseConditions)
  BY <1>1 DEF TypeInv, ScannerInv
<1>3. LineNumber \in Nat
  BY DEF TypeInv, ProgramInv, LineNumber
<1>4. function \in Functions \cup {NoFunction}
  BY DEF TypeInv, ScannerInv
<1>. QED BY <1>2, <1>3, <1>4, NodeTypes DEF Evidence, Evidences

(***************************************************************************)
(* Evidence of no line.                                                    *)
(***************************************************************************)
LEMMA FileEvidenceType ==
  ASSUME NEW fn \in {NoFunction, "pkg_setup"}
  PROVE  EvidenceOfFile(fn) \in Evidences
<1>1. <<>> \in Seq(UseConditions)
  OBVIOUS
<1>. QED BY <1>1, NodeTypes DEF EvidenceOfFile, Evidences

(***************************************************************************)
(* Where the conditions are, when frames are pushed, popped and replaced.  *)
(***************************************************************************)
LEMMA PlacedBound ==
  ASSUME NEW pos, NEW n \in Nat, NEW stack \in Seq(Frames), NEW nest, Placed(pos, n, stack, nest)
  PROVE  n <= Len(stack)
<1>1. CASE n = 0
  BY <1>1
<1>2. CASE n # 0
  <2>1. n \in 1..n
    BY <1>2
  <2>2. n <= pos[n] /\ pos[n] \in 1..Len(stack)
    BY <2>1 DEF Placed
  <2>. QED BY <2>2
<1>. QED BY <1>1, <1>2

LEMMA PlacedMove ==
  ASSUME NEW pos, NEW n \in Nat, NEW stack, NEW nest, Placed(pos, n, stack, nest),
         NEW stack2 \in Seq(Frames), NEW nest2,
         \A k \in 1..n : pos[k] <= Len(stack2) /\ stack2[pos[k]].supported /\ nest2[pos[k]] \in IfKinds,
         Len(stack) \in Nat
  PROVE  Placed(pos, n, stack2, nest2)
<1>1. \A k \in 1..n : pos[k] \in 1..Len(stack2)
  BY DEF Placed
<1>2. pos \in [1..n -> 1..Len(stack2)]
  BY <1>1 DEF Placed
<1>. QED BY <1>2 DEF Placed

\* pos without its last place
CutPlaces(pos, n) == [k \in 1..n - 1 |-> pos[k]]
\* pos with one place more
MorePlaces(pos, n, top) == [k \in 1..n + 1 |-> IF k = n + 1 THEN top ELSE pos[k]]

LEMMA PlacedCut ==
  ASSUME NEW pos, NEW n \in Nat, n # 0, NEW stack \in Seq(Frames), NEW nest, Placed(pos, n, stack, nest)
  PROVE  /\ Placed(CutPlaces(pos, n), n - 1, stack, nest)
         /\ \A k \in 1..n - 1 : CutPlaces(pos, n)[k] = pos[k] /\ pos[k] < Len(stack)
<1>1. \A k \in 1..n - 1 : k \in 1..n /\ k < n /\ CutPlaces(pos, n)[k] = pos[k]
  BY DEF CutPlaces
<1>2. n \in 1..n
  OBVIOUS
<1>3. pos[n] \in 1..Len(stack)
  BY <1>2 DEF Placed
<1>4. \A k \in 1..n - 1 : pos[k] \in 1..Len(stack) /\ pos[k] < pos[n]
  BY <1>1, <1>2 DEF Placed
<1>5. CutPlaces(pos, n) \in [1..n - 1 -> 1..Len(stack)]
  BY <1>4 DEF CutPlaces
<1>6. \A k \in 1..n - 1 : pos[k] < Len(stack)
  BY <1>3, <1>4
<1>7. Placed(CutPlaces(pos, n), n - 1, stack, nest)
  BY <1>1, <1>5 DEF Placed
<1>. QED BY <1>1, <1>6, <1>7

LEMMA PlacedMore ==
  ASSUME NEW pos, NEW n \in Nat, NEW stack \in Seq(Frames), NEW nest \in Seq(Kinds), Len(stack) = Len(nest),
         Placed(pos, n, stack, nest), NEW frame \in Frames, frame.supported, NEW kind \in IfKinds
  PROVE  Placed(MorePlaces(pos, n, Len(stack) + 1), n + 1, Append(stack, frame), Append(nest, kind))
<1>. DEFINE more == MorePlaces(pos, n, Len(stack) + 1)
            stack2 == Append(stack, frame)
            nest2 == Append(nest, kind)
<1>1. /\ stack2 \in Seq(Frames) /\ Len(stack2) = Len(stack) + 1 /\ stack2[Len(stack) + 1] = frame
      /\ \A i \in DOMAIN stack : stack2[i] = stack[i]
  BY PushFacts
<1>2. nest2[Len(nest) + 1] = kind /\ \A i \in DOMAIN nest : nest2[i] = nest[i]
  BY PushFacts DEF Kinds, IfKinds
<1>3. Len(stack) \in Nat /\ DOMAIN stack = 1..Len(stack) /\ DOMAIN nest = 1..Len(stack)
  OBVIOUS
<1>4. n <= Len(stack)
  BY PlacedBound
<1>5. more[n + 1] = Len(stack) + 1 /\ \A k \in 1..n : more[k] = pos[k]
  BY DEF MorePlaces
<1>6. \A k \in 1..n + 1 : k = n + 1 \/ k \in 1..n
  OBVIOUS
<1>7. \A k \in 1..n : pos[k] \in 1..Len(stack) /\ k <= pos[k] /\ stack[pos[k]].supported /\ nest[pos[k]] \in IfKinds
  BY DEF Placed
<1>8. more \in [1..n + 1 -> 1..Len(stack2)]
  BY <1>1, <1>3, <1>7 DEF MorePlaces
<1>. HIDE DEF more, stack2, nest2
<1>9. ASSUME NEW k \in 1..n + 1
      PROVE  k <= more[k] /\ stack2[more[k]].supported /\ nest2[more[k]] \in IfKinds
  <2>1. CASE k = n + 1
    BY <2>1, <1>1, <1>2, <1>4, <1>5
  <2>2. CASE k \in 1..n
    BY <2>2, <1>1, <1>2, <1>3, <1>5, <1>7
  <2>. QED BY <2>1, <2>2, <1>6
<1>10. ASSUME NEW k \in 1..n + 1, NEW l \in 1..n + 1, k < l PROVE more[k] < more[l]
  <2>1. k \in 1..n
    BY <1>10
  <2>2. CASE l = n + 1
    BY <2>1, <2>2, <1>3, <1>5, <1>7
  <2>3. CASE l \in 1..n
    BY <2>1, <2>3, <1>5, <1>10 DEF Placed
  <2>. QED BY <2>2, <2>3, <1>6
<1>11. Placed(more, n + 1, stack2, nest2)
  BY <1>8, <1>9, <1>10 DEF Placed
<1>. QED BY <1>11 DEF more, stack2, nest2

(***************************************************************************)
(* A function begins or ends outside all blocks, and forgets the frames    *)
(* (readKernelRequirementSource: conditions = nil, controlStack = nil).    *)
(***************************************************************************)
LEMMA FreshScanner ==
  ASSUME conditions' = <<>>, controlStack' = <<>>, nesting' = <<>>, function' \in Functions \cup {NoFunction},
         pendingLocalReset' \subseteq Functions,
         staticArrays' = <<>> \/ \E array \in Arrays \cup {NoArray} : staticArrays' = <<array>>
  PROVE  ScannerInv'
<1>1. Placed([k \in 1..0 |-> k], 0, <<>>, <<>>)
  BY DEF Placed
<1>2. Len(conditions') = 0
  OBVIOUS
<1>3. \E pos : Placed(pos, Len(conditions'), controlStack', nesting')
  BY <1>1, <1>2
<1>. QED BY <1>3 DEF ScannerInv

LEMMA FunctionTypes ==
  ASSUME TypeInv
  PROVE  /\ \A name \in Functions : ScanFunction(name) => TypeInv'
         /\ ScanBrace => TypeInv'
<1>1. ASSUME NEW name \in Functions, ScanFunction(name) PROVE TypeInv'
  <2>1. Writes(Line("function", name)) /\ name \in WhatOf("function") /\ "function" \in LineForms
    BY <1>1 DEF ScanFunction, WhatOf, LineForms
  <2>2. ProgramInv'
    BY <2>1, WriteFacts DEF TypeInv, ScannerInv
  <2>3. ScannerInv'
    BY <1>1, FreshScanner DEF TypeInv, ScannerInv, ScanFunction
  <2>4. FoundInv'
    BY <1>1 DEF TypeInv, FoundInv, ScanFunction, foundVars
  <2>. QED BY <2>2, <2>3, <2>4 DEF TypeInv
<1>2. ASSUME ScanBrace PROVE TypeInv'
  <2>1. Writes(Line("close", None)) /\ None \in WhatOf("close") /\ "close" \in LineForms
    BY <1>2 DEF ScanBrace, WhatOf, LineForms
  <2>2. ProgramInv'
    BY <2>1, WriteFacts DEF TypeInv, ScannerInv
  <2>3. ScannerInv'
    BY <1>2, FreshScanner DEF TypeInv, ScannerInv, ScanBrace
  <2>4. FoundInv'
    BY <1>2 DEF TypeInv, FoundInv, ScanBrace, foundVars
  <2>. QED BY <2>2, <2>3, <2>4 DEF TypeInv
<1>. QED BY <1>1, <1>2

(***************************************************************************)
(* What opens pushes one frame, and at most one condition.                 *)
(***************************************************************************)
LEMMA OpeningTypes ==
  ASSUME TypeInv
  PROVE  /\ \A condition \in UseTests : ScanIfUse(condition) => TypeInv'
         /\ \A test \in Tests : ScanIf(test) => TypeInv'
         /\ \A atom \in Opaque : ScanBlock(atom) => TypeInv'
         /\ \A ofKeys \in BOOLEAN : ScanLoop(ofKeys) => TypeInv'
<1>. DEFINE n == Len(conditions)
<1>0. /\ nesting \in Seq(Kinds) /\ controlStack \in Seq(Frames) /\ conditions \in Seq(UseConditions)
      /\ Len(controlStack) = Len(nesting) /\ n \in Nat
      /\ \E pos : Placed(pos, n, controlStack, nesting)
  BY DEF TypeInv, ScannerInv
<1>1. ASSUME NEW kind \in Kinds, NEW frame \in Frames, NEW form \in LineForms, NEW what \in WhatOf(form),
             Writes(Line(form, what)), UNCHANGED foundVars, nesting' = Append(nesting, kind),
             controlStack' = Append(controlStack, frame),
             \/ conditions' = conditions
             \/ frame.supported /\ kind \in IfKinds /\ \E u \in UseConditions : conditions' = Append(conditions, u),
             UNCHANGED <<function, pendingLocalReset, staticArrays>>
      PROVE  TypeInv'
  <2>1. ProgramInv'
    BY <1>1, WriteFacts DEF TypeInv, ScannerInv
  <2>2. /\ nesting' \in Seq(Kinds) /\ Len(nesting') = Len(nesting) + 1
        /\ controlStack' \in Seq(Frames) /\ Len(controlStack') = Len(controlStack) + 1
        /\ \A i \in DOMAIN nesting : nesting'[i] = nesting[i]
        /\ \A i \in DOMAIN controlStack : controlStack'[i] = controlStack[i]
    BY <1>0, <1>1, PushFacts
  <2>3. PICK pos : Placed(pos, n, controlStack, nesting)
    BY <1>0
  <2>4. conditions' \in Seq(UseConditions) /\ \E p : Placed(p, Len(conditions'), controlStack', nesting')
    <3>1. CASE conditions' = conditions
      <4>1. \A k \in 1..n : pos[k] \in 1..Len(controlStack) /\ controlStack[pos[k]].supported /\ nesting[pos[k]] \in IfKinds
        BY <2>3 DEF Placed
      <4>2. \A k \in 1..n : /\ pos[k] <= Len(controlStack')
                            /\ controlStack'[pos[k]].supported /\ nesting'[pos[k]] \in IfKinds
        BY <4>1, <2>2, <1>0
      <4>3. Len(controlStack) \in Nat
        BY <1>0
      <4>4. Placed(pos, n, controlStack', nesting')
        BY <4>2, <4>3, <2>2, <2>3, <1>0, PlacedMove
      <4>. QED BY <3>1, <4>4, <1>0
    <3>2. ASSUME frame.supported, kind \in IfKinds, NEW u \in UseConditions, conditions' = Append(conditions, u)
          PROVE  conditions' \in Seq(UseConditions) /\ \E p : Placed(p, Len(conditions'), controlStack', nesting')
      <4>1. conditions' \in Seq(UseConditions) /\ Len(conditions') = n + 1
        BY <3>2, <1>0, PushFacts
      <4>2. Placed(MorePlaces(pos, n, Len(controlStack) + 1), n + 1, controlStack', nesting')
        BY <3>2, <2>3, <1>0, <1>1, PlacedMore
      <4>. QED BY <4>1, <4>2
    <3>. QED BY <1>1, <3>1, <3>2
  <2>5. ScannerInv'
    BY <1>1, <2>2, <2>4, <1>0 DEF TypeInv, ScannerInv
  <2>6. FoundInv'
    BY <1>1 DEF TypeInv, FoundInv, foundVars
  <2>. QED BY <2>1, <2>5, <2>6 DEF TypeInv
<1>2. /\ "if" \in Kinds /\ "block" \in Kinds /\ "loop" \in Kinds /\ "if" \in LineForms /\ "for" \in LineForms
      /\ WhatOf("if") = WrittenTests /\ WhatOf("for") = BOOLEAN /\ "if" \in IfKinds
  BY DEF Kinds, LineForms, WhatOf, IfKinds
<1>3. ASSUME NEW condition \in UseTests, ScanIfUse(condition) PROVE TypeInv'
  <2>1. condition \in UseConditions /\ use(condition) \in WrittenTests
    BY ConstantFacts, TestTypes
  <2>2. Frame(TRUE, use(condition).node) \in Frames /\ Frame(TRUE, use(condition).node).supported
    BY <2>1, FrameTypes DEF WrittenTests, Frame
  <2>. QED BY <1>1, <1>2, <1>3, <2>1, <2>2 DEF ScanIfUse, Opens
<1>4. ASSUME NEW test \in Tests, ScanIf(test) PROVE TypeInv'
  <2>1. test \in WrittenTests
    BY ConstantFacts
  <2>2. Frame(test.parses, test.node) \in Frames
    BY <2>1, FrameTypes DEF WrittenTests
  <2>. QED BY <1>1, <1>2, <1>4, <2>1, <2>2 DEF ScanIf, Opens
<1>5. ASSUME NEW atom \in Opaque, ScanBlock(atom) PROVE TypeInv'
  <2>1. opaque(atom) \in WrittenTests /\ NoFrame \in Frames
    BY TestTypes, FrameTypes
  <2>. QED BY <1>1, <1>2, <1>5, <2>1 DEF ScanBlock, Opens
<1>6. ASSUME NEW ofKeys \in BOOLEAN, ScanLoop(ofKeys) PROVE TypeInv'
  <2>1. LoopFrame(FALSE, {}) \in Frames
    BY FrameTypes
  <2>2. ASSUME staticArrays # <<>>
        PROVE  /\ LoopFrame(TRUE, staticArrays[1].keys) \in Frames
               /\ LoopFrame(TRUE, staticArrays[1].values) \in Frames
    <3>1. PICK array \in AnyArrays : staticArrays = <<array>>
      BY <2>2, ConstantFacts DEF TypeInv, ScannerInv
    <3>2. staticArrays[1] = array /\ array.keys \in SUBSET Nat /\ array.values \in SUBSET Nat
      BY <3>1 DEF AnyArrays
    <3>. QED BY <3>2, FrameTypes
  <2>3. \E frame \in Frames : controlStack' = Append(controlStack, frame)
    BY <1>6, <2>1, <2>2 DEF ScanLoop
  <2>. QED BY <1>1, <1>2, <1>6, <2>3 DEF ScanLoop, Opens
<1>. QED BY <1>3, <1>4, <1>5, <1>6

(***************************************************************************)
(* An if goes on, or something ends.                                       *)
(***************************************************************************)
LEMMA ClosingTypes ==
  ASSUME TypeInv
  PROVE  /\ ScanElse => TypeInv'
         /\ \A test \in Tests : ScanElif(test) => TypeInv'
         /\ ScanFi => TypeInv'
         /\ ScanDone => TypeInv'
<1>. DEFINE n == Len(conditions)
            m == Len(controlStack)
<1>0. /\ nesting \in Seq(Kinds) /\ controlStack \in Seq(Frames) /\ conditions \in Seq(UseConditions)
      /\ Len(nesting) = m /\ n \in Nat /\ m \in Nat
      /\ \E pos : Placed(pos, n, controlStack, nesting)
  BY DEF TypeInv, ScannerInv
<1>a. nesting \in Seq(Kinds) /\ Len(nesting) = m
  BY <1>0
<1>b. controlStack \in Seq(Frames) /\ m = Len(controlStack) /\ m \in Nat
  BY <1>0
<1>d. nesting \in Seq(Kinds)
  BY <1>a
<1>e. controlStack \in Seq(Frames)
  BY <1>b
<1>c. DOMAIN controlStack = 1..m /\ DOMAIN nesting = 1..m
  BY <1>a, <1>b
<1>1. ASSUME NEW form \in LineForms, NEW what \in WhatOf(form), Writes(Line(form, what)), UNCHANGED foundVars,
             nesting' \in Seq(Kinds), controlStack' \in Seq(Frames), conditions' \in Seq(UseConditions),
             Len(controlStack') = Len(nesting'),
             \E pos : Placed(pos, Len(conditions'), controlStack', nesting'),
             UNCHANGED <<function, pendingLocalReset, staticArrays>>
      PROVE  TypeInv'
  <2>1. ProgramInv'
    BY <1>1, WriteFacts DEF TypeInv, ScannerInv
  <2>2. ScannerInv'
    BY <1>1 DEF TypeInv, ScannerInv
  <2>3. FoundInv'
    BY <1>1 DEF TypeInv, FoundInv, foundVars
  <2>. QED BY <2>1, <2>2, <2>3 DEF TypeInv
<1>2. PICK pos : Placed(pos, n, controlStack, nesting)
  BY <1>0
<1>3. \A k \in 1..n : pos[k] \in 1..m /\ controlStack[pos[k]].supported /\ nesting[pos[k]] \in IfKinds
  BY <1>2 DEF Placed
<1>4. /\ "else" \in Kinds /\ "else" \in IfKinds /\ IfKinds \subseteq Kinds
      /\ {"else", "fi", "elif"} \subseteq LineForms /\ None \in WhatOf("else") /\ None \in WhatOf("fi")
      /\ WhatOf("elif") = WrittenTests
  BY DEF Kinds, IfKinds, LineForms, WhatOf
<1>. HIDE DEF n, m
<1>5. ASSUME ScanElse PROVE TypeInv'
  <2>1. nesting # <<>> /\ m # 0 /\ controlStack # <<>>
    BY <1>0, <1>5 DEF ScanElse, Inside, m
  <2>2. nesting' = ReplaceTop(nesting, "else") /\ Writes(Line("else", None)) /\ UNCHANGED <<function, pendingLocalReset, staticArrays, foundVars>>
    BY <1>5 DEF ScanElse
  <2>3. /\ nesting' \in Seq(Kinds) /\ Len(nesting') = m /\ nesting'[m] = "else"
        /\ \A i \in DOMAIN nesting : i # m => nesting'[i] = nesting[i]
    <3>1. /\ ReplaceTop(nesting, "else") \in Seq(Kinds) /\ Len(ReplaceTop(nesting, "else")) = m
          /\ ReplaceTop(nesting, "else")[m] = "else"
          /\ \A i \in DOMAIN nesting : i # m => ReplaceTop(nesting, "else")[i] = nesting[i]
      <4>1. nesting # <<>> /\ "else" \in Kinds
        BY <2>1, <1>4
      <4>2. /\ ReplaceTop(nesting, "else") \in Seq(Kinds) /\ Len(ReplaceTop(nesting, "else")) = Len(nesting)
            /\ ReplaceTop(nesting, "else")[Len(nesting)] = "else"
            /\ \A i \in DOMAIN nesting : i # Len(nesting) => ReplaceTop(nesting, "else")[i] = nesting[i]
        BY <4>1, <1>d, ReplaceFacts
      <4>. QED BY <4>2, <1>a
    <3>. QED BY <3>1, <2>2
  <2>4. /\ controlStack' \in Seq(Frames) /\ Len(controlStack') = m
        /\ \A i \in DOMAIN controlStack : controlStack'[i].supported = controlStack[i].supported
    <3>1. CASE Last(controlStack).supported
      <4>. DEFINE frame == FrameElse(Last(controlStack))
      <4>1. /\ frame \in Frames /\ controlStack' = ReplaceTop(controlStack, frame)
            /\ Last(controlStack) = controlStack[m] /\ frame.supported = controlStack[m].supported
        BY <2>1, <1>0, <1>5, <3>1, PopFacts, FrameTypes DEF ScanElse, FrameElse, m, Frames
      <4>. HIDE DEF frame
      <4>2. /\ ReplaceTop(controlStack, frame) \in Seq(Frames) /\ Len(ReplaceTop(controlStack, frame)) = m
            /\ ReplaceTop(controlStack, frame)[m] = frame
            /\ \A i \in DOMAIN controlStack : i # m => ReplaceTop(controlStack, frame)[i] = controlStack[i]
        <5>1. controlStack # <<>> /\ frame \in Frames
          BY <4>1, <2>1
        <5>2. /\ ReplaceTop(controlStack, frame) \in Seq(Frames)
              /\ Len(ReplaceTop(controlStack, frame)) = Len(controlStack)
              /\ ReplaceTop(controlStack, frame)[Len(controlStack)] = frame
              /\ \A i \in DOMAIN controlStack :
                   i # Len(controlStack) => ReplaceTop(controlStack, frame)[i] = controlStack[i]
          BY <5>1, <1>e, ReplaceFacts
        <5>. QED BY <5>2, <1>b
      <4>. QED BY <4>1, <4>2
    <3>2. CASE ~Last(controlStack).supported
      BY <3>2, <1>0, <1>5 DEF ScanElse, m
    <3>. QED BY <3>1, <3>2
  <2>5. conditions' \in Seq(UseConditions) /\ Len(conditions') = n
    <3>1. CASE Guarded
      <4>1. conditions # <<>>
        BY <3>1 DEF Guarded
      <4>2. Last(conditions) \in UseConditions
        BY <4>1, <1>0, PopFacts
      <4>3. [Last(conditions) EXCEPT !.enabled = ~@] \in UseConditions
        BY <4>2 DEF UseConditions
      <4>4. conditions' = ReplaceTop(conditions, [Last(conditions) EXCEPT !.enabled = ~@])
        BY <1>5, <3>1 DEF ScanElse
      <4>. QED BY <4>1, <4>3, <4>4, <1>0, ReplaceFacts DEF n
    <3>2. CASE ~Guarded
      BY <3>2, <1>0, <1>5 DEF ScanElse, n
    <3>. QED BY <3>1, <3>2
  <2>6. \A k \in 1..n : /\ pos[k] <= Len(controlStack')
                        /\ controlStack'[pos[k]].supported /\ nesting'[pos[k]] \in IfKinds
    <3>1. ASSUME NEW k \in 1..n
          PROVE  pos[k] \in 1..m /\ controlStack'[pos[k]].supported /\ nesting'[pos[k]] \in IfKinds
      <4>1. pos[k] \in 1..m /\ controlStack[pos[k]].supported /\ nesting[pos[k]] \in IfKinds
        BY <1>3
      <4>2. controlStack'[pos[k]].supported
        BY <4>1, <2>4, <1>c
      <4>3. nesting'[pos[k]] \in IfKinds
        BY <4>1, <2>3, <1>4, <1>c
      <4>. QED BY <4>1, <4>2, <4>3
    <3>. QED BY <3>1, <2>4
  <2>7. Placed(pos, n, controlStack', nesting')
    BY <2>4, <2>6, <1>0, <1>2, PlacedMove DEF m
  <2>. QED BY <1>1, <1>4, <2>2, <2>3, <2>4, <2>5, <2>7
<1>7. ASSUME conditions # <<>>
      PROVE  /\ n # 0 /\ n - 1 \in Nat /\ Front(conditions) \in Seq(UseConditions) /\ Len(Front(conditions)) = n - 1
             /\ Placed(CutPlaces(pos, n), n - 1, controlStack, nesting)
             /\ \A k \in 1..n - 1 : /\ CutPlaces(pos, n)[k] \in 1..m /\ CutPlaces(pos, n)[k] < m
                                    /\ controlStack[CutPlaces(pos, n)[k]].supported
                                    /\ nesting[CutPlaces(pos, n)[k]] \in IfKinds
  <2>1. n # 0 /\ n - 1 \in Nat /\ Front(conditions) \in Seq(UseConditions) /\ Len(Front(conditions)) = n - 1
    BY <1>0, <1>7, PopFacts DEF n
  <2>2. /\ Placed(CutPlaces(pos, n), n - 1, controlStack, nesting)
        /\ \A k \in 1..n - 1 : CutPlaces(pos, n)[k] = pos[k] /\ pos[k] < m
    BY <2>1, <1>0, <1>2, PlacedCut DEF m
  <2>3. \A k \in 1..n - 1 : k \in 1..n
    BY <1>0
  <2>. QED BY <2>1, <2>2, <2>3, <1>3
\* the conditions that are left when the top frame may go or change
<1>8. ASSUME nesting # <<>>, conditions' = IF Guarded THEN Front(conditions) ELSE conditions
      PROVE  /\ conditions' \in Seq(UseConditions)
             /\ \E p : /\ Placed(p, Len(conditions'), controlStack, nesting)
                       /\ \A k \in 1..Len(conditions') :
                            /\ p[k] \in 1..m /\ controlStack[p[k]].supported /\ nesting[p[k]] \in IfKinds
                            /\ p[k] < m
  <2>1. CASE Guarded
    <3>1. conditions # <<>> /\ conditions' = Front(conditions)
      BY <1>8, <2>1 DEF Guarded
    <3>. QED BY <3>1, <1>7
  <2>2. CASE ~Guarded
    <3>1. conditions' = conditions
      BY <1>8, <2>2
    <3>2. controlStack # <<>>
      BY <1>0, <1>8 DEF m
    <3>3. ~Last(controlStack).supported \/ conditions = <<>>
      BY <2>2, <3>2 DEF Guarded
    <3>4. \A k \in 1..n : pos[k] < m
      <4>1. CASE conditions = <<>>
        BY <4>1 DEF n
      <4>2. CASE ~Last(controlStack).supported
        <5>1. Last(controlStack) = controlStack[m]
          BY <3>2, <1>0, PopFacts DEF m
        <5>. QED BY <4>2, <5>1, <1>0, <1>3
      <4>. QED BY <3>3, <4>1, <4>2
    <3>. QED BY <3>1, <3>4, <1>0, <1>2, <1>3 DEF n
  <2>. QED BY <2>1, <2>2
<1>9. ASSUME NEW test \in Tests, ScanElif(test) PROVE TypeInv'
  <2>1. nesting # <<>> /\ m # 0 /\ controlStack # <<>>
    BY <1>0, <1>9 DEF ScanElif, Inside, m
  <2>2. /\ Writes(Line("elif", test)) /\ UNCHANGED <<nesting, function, pendingLocalReset, staticArrays, foundVars>>
        /\ conditions' = IF Guarded THEN Front(conditions) ELSE conditions
    BY <1>9 DEF ScanElif
  <2>. DEFINE frame == FrameElif(Last(controlStack), test)
  <2>3. test \in WrittenTests
    BY ConstantFacts
  <2>4. frame \in Frames /\ controlStack' = ReplaceTop(controlStack, frame)
    BY <2>1, <2>3, <1>0, <1>9, PopFacts, FrameTypes DEF ScanElif
  <2>. HIDE DEF frame
  <2>5. /\ controlStack' \in Seq(Frames) /\ Len(controlStack') = m
        /\ \A i \in DOMAIN controlStack : i # m => controlStack'[i] = controlStack[i]
    <3>1. /\ ReplaceTop(controlStack, frame) \in Seq(Frames) /\ Len(ReplaceTop(controlStack, frame)) = m
          /\ \A i \in DOMAIN controlStack : i # m => ReplaceTop(controlStack, frame)[i] = controlStack[i]
      <4>1. controlStack # <<>> /\ frame \in Frames
        BY <2>1, <2>4
      <4>2. /\ ReplaceTop(controlStack, frame) \in Seq(Frames)
            /\ Len(ReplaceTop(controlStack, frame)) = Len(controlStack)
            /\ \A i \in DOMAIN controlStack :
                 i # Len(controlStack) => ReplaceTop(controlStack, frame)[i] = controlStack[i]
        BY <4>1, <1>e, ReplaceFacts
      <4>. QED BY <4>2, <1>b
    <3>. QED BY <3>1, <2>4
  <2>6. PICK p : /\ Placed(p, Len(conditions'), controlStack, nesting)
                 /\ \A k \in 1..Len(conditions') :
                      /\ p[k] \in 1..m /\ controlStack[p[k]].supported /\ nesting[p[k]] \in IfKinds /\ p[k] < m
    BY <1>8, <2>1, <2>2
  <2>7. conditions' \in Seq(UseConditions) /\ Len(conditions') \in Nat
    BY <1>8, <2>1, <2>2
  <2>8. \A k \in 1..Len(conditions') : /\ p[k] <= Len(controlStack')
                                       /\ controlStack'[p[k]].supported /\ nesting[p[k]] \in IfKinds
    BY <2>5, <2>6, <1>0 DEF m
  <2>9. Placed(p, Len(conditions'), controlStack', nesting)
    BY <2>5, <2>6, <2>7, <2>8, <1>0, PlacedMove DEF m
  <2>. QED BY <1>0, <1>1, <1>4, <2>2, <2>3, <2>5, <2>7, <2>9
<1>10. ASSUME nesting # <<>>, nesting' = Front(nesting), Writes(Line("fi", None)),
              UNCHANGED <<function, pendingLocalReset, staticArrays, foundVars>>,
              controlStack' = IF controlStack # <<>> THEN Front(controlStack) ELSE <<>>,
              conditions' \in Seq(UseConditions),
              \E p : /\ Placed(p, Len(conditions'), controlStack, nesting)
                     /\ \A k \in 1..Len(conditions') :
                          /\ p[k] \in 1..m /\ controlStack[p[k]].supported /\ nesting[p[k]] \in IfKinds
                          /\ p[k] < m
       PROVE  TypeInv'
  <2>1. controlStack # <<>> /\ controlStack' = Front(controlStack)
    BY <1>0, <1>10 DEF m
  <2>2. /\ controlStack' \in Seq(Frames) /\ Len(controlStack') = m - 1
        /\ \A i \in 1..m - 1 : controlStack'[i] = controlStack[i]
    BY <2>1, <1>0, PopFacts DEF m
  <2>3. nesting' \in Seq(Kinds) /\ Len(nesting') = m - 1 /\ \A i \in 1..m - 1 : nesting'[i] = nesting[i]
    BY <1>0, <1>10, PopFacts
  <2>4. PICK p : /\ Placed(p, Len(conditions'), controlStack, nesting)
                 /\ \A k \in 1..Len(conditions') :
                      /\ p[k] \in 1..m /\ controlStack[p[k]].supported /\ nesting[p[k]] \in IfKinds /\ p[k] < m
    BY <1>10
  <2>5. \A k \in 1..Len(conditions') : p[k] \in 1..m - 1
    BY <2>4, <1>0
  <2>6. \A k \in 1..Len(conditions') : /\ p[k] <= Len(controlStack')
                                       /\ controlStack'[p[k]].supported /\ nesting'[p[k]] \in IfKinds
    BY <2>2, <2>3, <2>4, <2>5
  <2>7. Len(conditions') \in Nat
    BY <1>10
  <2>8. Placed(p, Len(conditions'), controlStack', nesting')
    BY <2>2, <2>4, <2>6, <2>7, <1>0, PlacedMove DEF m
  <2>. QED BY <1>1, <1>4, <1>10, <2>2, <2>3, <2>8
<1>11. ASSUME ScanFi PROVE TypeInv'
  <2>1. /\ nesting # <<>> /\ nesting' = Front(nesting) /\ Writes(Line("fi", None))
        /\ UNCHANGED <<function, pendingLocalReset, staticArrays, foundVars>>
        /\ controlStack' = IF controlStack # <<>> THEN Front(controlStack) ELSE <<>>
        /\ conditions' = IF Guarded THEN Front(conditions) ELSE conditions
    BY <1>11 DEF ScanFi, Inside
  <2>. QED BY <2>1, <1>8, <1>10
<1>12. ASSUME ScanDone PROVE TypeInv'
  <2>1. /\ nesting # <<>> /\ nesting' = Front(nesting) /\ Writes(Line("fi", None))
        /\ UNCHANGED <<function, pendingLocalReset, staticArrays, foundVars>>
        /\ controlStack' = IF controlStack # <<>> THEN Front(controlStack) ELSE <<>>
        /\ conditions' = conditions
    BY <1>12 DEF ScanDone, Inside
  <2>2. nesting[m] \notin IfKinds
    <3>1. Last(nesting) \in {"block", "loop"}
      BY <1>12 DEF ScanDone, Inside
    <3>2. Last(nesting) = nesting[m]
      BY <2>1, <1>0, PopFacts
    <3>. QED BY <3>1, <3>2 DEF IfKinds
  <2>3. \A k \in 1..n : pos[k] < m
    BY <2>2, <1>0, <1>3
  <2>4. /\ Placed(pos, Len(conditions'), controlStack, nesting)
        /\ \A k \in 1..Len(conditions') :
             pos[k] \in 1..m /\ controlStack[pos[k]].supported /\ nesting[pos[k]] \in IfKinds /\ pos[k] < m
    BY <2>1, <2>3, <1>2, <1>3 DEF n
  <2>. QED BY <2>1, <2>4, <1>0, <1>10
<1>. QED BY <1>5, <1>9, <1>11, <1>12

(***************************************************************************)
(* Lines that leave the frames alone.                                      *)
(***************************************************************************)
LEMMA PlainTypes ==
  ASSUME TypeInv
  PROVE  /\ \A array \in Arrays \cup {NoArray, RuntimeArray} : ScanArray(array) => TypeInv'
         /\ ScanLocal => TypeInv'
         /\ \A guard \in Guards : ScanCheck(guard) => TypeInv'
         /\ \A callee \in Functions : ScanCall(callee) => TypeInv'
<1>0. /\ \A guard \in Guards : guard \in Guardings
      /\ {"array", "local", "check", "call"} \subseteq LineForms
      /\ WhatOf("array") = AnyArrays /\ WhatOf("check") = Guardings /\ None \in WhatOf("local") /\ None \in WhatOf("call")
  BY DEF Guards, Guardings, LineForms, WhatOf
<1>1. ASSUME NEW array \in Arrays \cup {NoArray, RuntimeArray}, ScanArray(array) PROVE TypeInv'
  <2>1. array \in AnyArrays /\ Writes(Line("array", array))
    BY <1>1, ConstantFacts DEF ScanArray
  <2>2. ProgramInv'
    BY <1>0, <2>1, WriteFacts DEF TypeInv, ScannerInv
  <2>3. array = RuntimeArray \/ array \in Arrays \cup {NoArray}
    OBVIOUS
  <2>4. staticArrays' = <<>> \/ \E a \in Arrays \cup {NoArray} : staticArrays' = <<a>>
    BY <1>1, <2>3 DEF ScanArray, TypeInv, ScannerInv
  <2>5. ScannerInv'
    BY <1>1, <2>4 DEF ScanArray, TypeInv, ScannerInv
  <2>6. FoundInv'
    BY <1>1 DEF ScanArray, TypeInv, FoundInv, foundVars
  <2>. QED BY <2>2, <2>5, <2>6 DEF TypeInv
<1>2. ASSUME ScanLocal PROVE TypeInv'
  <2>1. Writes(Line("local", None)) /\ function \in Functions
    BY <1>2 DEF ScanLocal, TypeInv, ScannerInv
  <2>2. ProgramInv'
    BY <1>0, <2>1, WriteFacts DEF TypeInv, ScannerInv
  <2>3. ScannerInv'
    BY <1>2, <2>1 DEF ScanLocal, TypeInv, ScannerInv
  <2>4. FoundInv'
    BY <1>2 DEF ScanLocal, TypeInv, FoundInv, foundVars
  <2>. QED BY <2>2, <2>3, <2>4 DEF TypeInv
<1>3. ASSUME NEW guard \in Guards, ScanCheck(guard) PROVE TypeInv'
  <2>1. guard \in Guardings /\ Writes(Line("check", guard))
    BY <1>0, <1>3 DEF ScanCheck
  <2>2. ProgramInv' /\ origin \in {"ebuild", "eclass"}
    BY <1>0, <2>1, WriteFacts DEF TypeInv, ScannerInv
  <2>3. ScannerInv'
    BY <1>3 DEF ScanCheck, TypeInv, ScannerInv, scanVars
  <2>4. Evidence(guard) \in Evidences
    BY <2>1, <2>2, EvidenceType
  <2>5. FoundInv'
    BY <1>3, <2>4 DEF ScanCheck, TypeInv, FoundInv
  <2>. QED BY <2>2, <2>3, <2>5 DEF TypeInv
<1>4. ASSUME NEW callee \in Functions, ScanCall(callee) PROVE TypeInv'
  <2>1. Writes(Line("call", None)) /\ function \in Functions
    BY <1>4 DEF ScanCall, TypeInv, ScannerInv
  <2>2. ProgramInv'
    BY <1>0, <2>1, WriteFacts DEF TypeInv, ScannerInv
  <2>3. ScannerInv'
    BY <1>4 DEF ScanCall, TypeInv, ScannerInv, scanVars
  <2>4. FoundInv'
    BY <1>4, <2>1 DEF ScanCall, TypeInv, FoundInv
  <2>. QED BY <2>2, <2>3, <2>4 DEF TypeInv
<1>. QED BY <1>1, <1>2, <1>3, <1>4

(***************************************************************************)
(* What a loop is expanded to are values of a frame.                       *)
(***************************************************************************)
LEMMA ExpandedFacts ==
  ASSUME NEW stack \in Seq(Frames), expandStaticLoopValues(stack) # {}
  PROVE  \E i \in DOMAIN stack :
           /\ stack[i].loopValues # <<>> /\ expandStaticLoopValues(stack) = stack[i].loopValues[1]
           /\ stack[i].loopValues[1] \in SUBSET Nat
           /\ \A j \in DOMAIN stack : stack[j].loopValues # <<>> => j <= i /\ stack[j].loopValues[1] # {}
<1>. DEFINE loops == {i \in DOMAIN stack : stack[i].loopValues # <<>>}
<1>1. /\ loops # {} /\ expandStaticLoopValues(stack) = stack[Max(loops)].loopValues[1]
      /\ \A i \in loops : stack[i].loopValues[1] # {}
  BY DEF expandStaticLoopValues
<1>2. Len(stack) \in Nat /\ loops \in SUBSET (1..Len(stack)) /\ DOMAIN stack = 1..Len(stack)
  OBVIOUS
<1>3. \A i \in loops : i \in DOMAIN stack /\ stack[i] \in Frames /\ stack[i].loopValues # <<>>
  OBVIOUS
<1>4. \A i \in DOMAIN stack : stack[i].loopValues # <<>> => i \in loops
  OBVIOUS
<1>. HIDE DEF loops
<1>5. Max(loops) \in loops /\ \A i \in loops : i <= Max(loops)
  BY <1>1, <1>2, Turns!MaxFacts DEF Max, Turns!Max
<1>6. ASSUME NEW i \in loops PROVE stack[i].loopValues[1] \in SUBSET Nat
  <2>1. stack[i].loopValues \in LoopValues /\ stack[i].loopValues # <<>>
    BY <1>3 DEF Frames
  <2>2. PICK values \in SUBSET Nat : stack[i].loopValues = <<values>>
    BY <2>1 DEF LoopValues
  <2>. QED BY <2>2
<1>. QED BY <1>1, <1>3, <1>4, <1>5, <1>6

(***************************************************************************)
(* An assignment is dynamic, or as many requirements as it has symbols.    *)
(***************************************************************************)
LEMMA AssignmentFacts ==
  ASSUME ScanAssign
  PROVE  \E guard \in Guards, severity \in Severities, operator \in {"=", "+="},
            value \in {"static", "each", "self", "dynamic", "unmatched"} :
           /\ Has(operator) /\ Has(value) /\ ScanAssignment(value, operator, severity, guard)
           /\ value = "each" => InLoop
           /\ value = "self" => operator = "="
BY DEF ScanAssign

LEMMA AssignmentTypes ==
  ASSUME TypeInv, ScanAssign
  PROVE  TypeInv'
<1>1. PICK guard \in Guards, severity \in Severities, operator \in {"=", "+="},
           value \in {"static", "each", "self", "dynamic", "unmatched"} :
             ScanAssignment(value, operator, severity, guard)
  BY AssignmentFacts
<1>. DEFINE assignment == [operator |-> IF value = "self" THEN "+=" ELSE operator, guard |-> guard, each |-> value = "each"]
<1>2. guard \in Guardings
  BY DEF Guards, Guardings
<1>3. assignment \in Assignments
  BY <1>2 DEF Assignments
<1>4. Writes(Line("assign", assignment))
  BY <1>1 DEF ScanAssignment
<1>5. "assign" \in LineForms /\ WhatOf("assign") = Assignments
  BY DEF LineForms, WhatOf
<1>. HIDE DEF assignment
<1>6. ProgramInv' /\ origin \in {"ebuild", "eclass"}
  BY <1>3, <1>4, <1>5, WriteFacts DEF TypeInv, ScannerInv
<1>7. UNCHANGED <<nesting, function, conditions, controlStack, staticArrays, invocations, calls>>
  BY <1>1 DEF ScanAssignment
<1>8. pendingLocalReset' \subseteq Functions
  BY <1>1 DEF ScanAssignment, TypeInv, ScannerInv
<1>9. ScannerInv'
  BY <1>7, <1>8 DEF TypeInv, ScannerInv
<1>10. Evidence(guard) \in Evidences
  BY <1>2, <1>6, EvidenceType
<1>11. severity \in {"fatal", "warning"}
  BY DEF Severities
<1>12. /\ [at |-> Evidence(guard), severity |-> "fatal"] \in Founds
       /\ [at |-> Evidence(guard), severity |-> severity] \in Founds
  BY <1>10, <1>11 DEF Founds
<1>13. AssignmentOperator(value, operator) \in {"=", "+="}
  BY DEF AssignmentOperator
<1>14. ASSUME ~IsDynamic(value) PROVE TokensOf(value) \subseteq Nat
  <2>1. CASE value # "each"
    BY <2>1 DEF TokensOf, Tokens
  <2>2. CASE value = "each"
    <3>1. controlStack \in Seq(Frames)
      BY DEF TypeInv, ScannerInv
    <3>2. expandStaticLoopValues(controlStack) # {}
      BY <1>14, <2>2 DEF IsDynamic
    <3>3. expandStaticLoopValues(controlStack) \subseteq Nat
      BY <3>1, <3>2, ExpandedFacts
    <3>. QED BY <2>2, <3>3 DEF TokensOf
  <2>. QED BY <2>1, <2>2
<1>15. dynamic' \subseteq Founds
  BY <1>1, <1>12 DEF ScanAssignment, TypeInv, FoundInv
<1>16. requirements' \subseteq Requirements
  <2>1. CASE requirements' = requirements
    BY <2>1 DEF TypeInv, FoundInv
  <2>2. ASSUME ~IsDynamic(value),
               requirements' = requirements \cup
                 {[at |-> Evidence(guard), severity |-> severity, token |-> t,
                   operator |-> AssignmentOperator(value, operator)] : t \in TokensOf(value)}
        PROVE  requirements' \subseteq Requirements
    <3>1. \A t \in TokensOf(value) :
            [at |-> Evidence(guard), severity |-> severity, token |-> t,
             operator |-> AssignmentOperator(value, operator)] \in Requirements
      BY <2>2, <1>10, <1>11, <1>13, <1>14 DEF Requirements
    <3>. QED BY <2>2, <3>1 DEF TypeInv, FoundInv
  <2>. QED BY <1>1, <2>1, <2>2 DEF ScanAssignment
<1>17. FoundInv'
  BY <1>7, <1>15, <1>16 DEF TypeInv, FoundInv
<1>. QED BY <1>6, <1>9, <1>17 DEF TypeInv

(***************************************************************************)
(* The end of a source.                                                    *)
(***************************************************************************)
LEMMA SourceTypes ==
  ASSUME TypeInv
  PROVE  /\ ScanEclass => TypeInv'
         /\ InheritMissing => TypeInv'
         /\ \A inherits \in BOOLEAN : Read(inherits) => TypeInv'
<1>1. ASSUME ScanEclass PROVE TypeInv'
  <2>1. ProgramInv'
    BY <1>1 DEF ScanEclass, TypeInv, ProgramInv
  <2>2. ScannerInv'
    BY <1>1, FreshScanner DEF ScanEclass, EndOfFile, TypeInv, ScannerInv
  <2>3. FoundInv'
    BY <1>1 DEF ScanEclass, TypeInv, FoundInv, foundVars
  <2>. QED BY <2>1, <2>2, <2>3 DEF TypeInv
<1>2. ASSUME InheritMissing PROVE TypeInv'
  <2>1. ProgramInv'
    BY <1>2 DEF InheritMissing, TypeInv, ProgramInv
  <2>2. ScannerInv'
    BY <1>2 DEF InheritMissing, TypeInv, ScannerInv, scanVars
  <2>3. EvidenceOfFile(NoFunction) \in Evidences
    BY FileEvidenceType
  <2>4. [at |-> EvidenceOfFile(NoFunction), severity |-> "fatal"] \in Founds
    BY <2>3 DEF Founds
  <2>5. FoundInv'
    BY <1>2, <2>4 DEF InheritMissing, TypeInv, FoundInv
  <2>. QED BY <2>1, <2>2, <2>5 DEF TypeInv
<1>3. ASSUME NEW inherits \in BOOLEAN, Read(inherits) PROVE TypeInv'
  <2>1. ProgramInv'
    BY <1>3 DEF Read, TypeInv, ProgramInv
  <2>2. ScannerInv'
    BY <1>3 DEF Read, TypeInv, ScannerInv, scanVars
  <2>3. EvidenceOfFile("pkg_setup") \in Evidences
    BY FileEvidenceType
  <2>5. FoundInv'
    BY <1>3, <2>3 DEF Read, TypeInv, FoundInv
  <2>. QED BY <2>1, <2>2, <2>5 DEF TypeInv
<1>. QED BY <1>1, <1>2, <1>3

(***************************************************************************)
(* The kinds of step.                                                      *)
(***************************************************************************)
LEMMA NextCases ==
  ASSUME [Next]_vars
  PROVE  \/ \E name \in Functions : ScanFunction(name)
         \/ \E name \in Functions : ScanCall(name)
         \/ \E condition \in UseTests : ScanIfUse(condition)
         \/ \E test \in Tests : ScanIf(test)
         \/ \E test \in Tests : ScanElif(test)
         \/ \E atom \in Opaque : ScanBlock(atom)
         \/ \E guard \in Guards : ScanCheck(guard)
         \/ \E array \in Arrays \cup {NoArray, RuntimeArray} :
              /\ ScanArray(array)
              /\ array \in Arrays => Has("array")
              /\ array = NoArray => Has("emptyArray")
              /\ array = RuntimeArray => Has("dynamicArray")
         \/ \E ofKeys \in BOOLEAN : ScanLoop(ofKeys)
         \/ ScanBrace \/ ScanElse \/ ScanFi \/ ScanDone \/ ScanLocal \/ ScanAssign
         \/ ScanEclass \/ InheritMissing
         \/ \E inherits \in BOOLEAN : Read(inherits)
         \/ UNCHANGED vars
<1>1. NoArray \notin Arrays /\ RuntimeArray \notin Arrays /\ NoArray # RuntimeArray
  <2>1. NoArray.values = {} /\ RuntimeArray.values = {0}
    BY DEF NoArray, RuntimeArray
  <2>. QED BY <2>1, ConstantFacts
<1>2. CASE UNCHANGED vars
  BY <1>2
<1>3. CASE Scan
  BY <1>1, <1>3 DEF Scan
<1>4. CASE ~Scan /\ Next
  BY <1>4 DEF Next, Done
<1>. QED BY <1>2, <1>3, <1>4 DEF Next

(***************************************************************************)
(* The types are inductive.                                                *)
(***************************************************************************)
LEMMA TypeInit == Init => TypeInv
<1>. SUFFICES ASSUME Init PROVE TypeInv
  OBVIOUS
<1>1. ProgramInv
  BY DEF Init, ProgramInv
<1>2. Placed([k \in 1..0 |-> k], 0, <<>>, <<>>)
  BY DEF Placed
<1>3. Len(conditions) = 0 /\ conditions = <<>> /\ controlStack = <<>> /\ nesting = <<>>
  BY DEF Init
<1>4. \E pos : Placed(pos, Len(conditions), controlStack, nesting)
  BY <1>2, <1>3
<1>5. ScannerInv
  BY <1>3, <1>4 DEF Init, ScannerInv
<1>6. FoundInv
  BY DEF Init, FoundInv
<1>. QED BY <1>1, <1>5, <1>6 DEF TypeInv

LEMMA TypeStep == TypeInv /\ [Next]_vars => TypeInv'
<1>. SUFFICES ASSUME TypeInv, [Next]_vars PROVE TypeInv'
  OBVIOUS
<1>1. CASE UNCHANGED vars
  BY <1>1 DEF vars, scanVars, foundVars, TypeInv, ProgramInv, ScannerInv, FoundInv
<1>. QED BY <1>1, NextCases, FunctionTypes, OpeningTypes, ClosingTypes, PlainTypes, AssignmentTypes, SourceTypes

(***************************************************************************)
(* Evidence stays where it was found, and new evidence is of the new line. *)
(***************************************************************************)
LEMMA LocatedWritten ==
  ASSUME TypeInv, LocatedInv, NEW form \in LineForms, NEW what \in WhatOf(form), Writes(Line(form, what)),
         \A r \in requirements' : r \in requirements \/ (form = "assign" /\ \E g \in Guardings : r.at = Evidence(g)),
         \A d \in dynamic' : d \in dynamic \/ (form = "assign" /\ \E g \in Guardings : d.at = Evidence(g)),
         \A i \in invocations' : i \in invocations \/ (form = "check" /\ \E g \in Guardings : i = Evidence(g))
  PROVE  LocatedInv'
<1>1. /\ DOMAIN program' = 1..Len(program) + 1 /\ DOMAIN program = 1..Len(program) /\ Len(program) \in Nat
      /\ LineNumber = Len(program) + 1 /\ program'[LineNumber] = Line(form, what)
      /\ \A n \in DOMAIN program : program'[n] = program[n]
      /\ origin' = origin /\ origin \in {"ebuild", "eclass"}
  BY WriteFacts DEF TypeInv, ScannerInv
<1>2. \A evidence, f : Located(evidence, f) => Located(evidence, f)'
  BY <1>1 DEF Located
<1>3. ASSUME NEW e, NEW g \in Guardings, e = Evidence(g) PROVE Located(e, form)'
  <2>1. e.line = LineNumber /\ e.origin = origin /\ e.function = function
    BY <1>1, <1>3, EvidenceType
  <2>2. Line(form, what).form = form /\ Line(form, what).origin = origin /\ Line(form, what).fn = function
    BY DEF Line
  <2>3. LineNumber \in DOMAIN program'
    BY <1>1
  <2>. HIDE DEF LineNumber
  <2>. QED BY <2>1, <2>2, <2>3, <1>1 DEF Located
<1>4. \A r \in requirements' : Located(r.at, "assign")'
  BY <1>2, <1>3 DEF LocatedInv
<1>5. \A d \in dynamic' : Located(d.at, "assign")' \/ (d.at = EvidenceOfFile(NoFunction) /\ origin' = "missing")
  BY <1>1, <1>2, <1>3 DEF LocatedInv
<1>6. \A i \in invocations' : Located(i, "check")' \/ i = EvidenceOfFile("pkg_setup")
  BY <1>2, <1>3 DEF LocatedInv
<1>. QED BY <1>4, <1>5, <1>6 DEF LocatedInv, EvidenceOfFile

(***************************************************************************)
(* Steps that find nothing write one line.                                 *)
(***************************************************************************)
LEMMA WrittenCases ==
  ASSUME TypeInv, [Next]_vars
  PROVE  \/ \E form \in LineForms \ {"check", "assign"} : \E what \in WhatOf(form) :
              Writes(Line(form, what)) /\ UNCHANGED <<requirements, dynamic, invocations>>
         \/ \E guard \in Guards : ScanCheck(guard)
         \/ ScanAssign
         \/ ScanEclass \/ InheritMissing
         \/ \E inherits \in BOOLEAN : Read(inherits)
         \/ UNCHANGED vars
<1>. DEFINE Plain == \E form \in LineForms \ {"check", "assign"} : \E what \in WhatOf(form) :
                       Writes(Line(form, what)) /\ UNCHANGED <<requirements, dynamic, invocations>>
<1>1. /\ {"function", "call", "if", "elif", "array", "for", "close", "else", "fi", "local"} \subseteq LineForms \ {"check", "assign"}
      /\ WhatOf("function") = Functions /\ None \in WhatOf("call") /\ WhatOf("if") = WrittenTests
      /\ WhatOf("elif") = WrittenTests /\ WhatOf("array") = AnyArrays /\ WhatOf("for") = BOOLEAN
      /\ None \in WhatOf("close") /\ None \in WhatOf("else") /\ None \in WhatOf("fi") /\ None \in WhatOf("local")
  BY DEF LineForms, WhatOf
<1>2. ASSUME NEW name \in Functions, ScanFunction(name) \/ ScanCall(name) PROVE Plain
  BY <1>1, <1>2 DEF ScanFunction, ScanCall, foundVars
<1>3. ASSUME NEW condition \in UseTests, ScanIfUse(condition) PROVE Plain
  <2>1. use(condition) \in WrittenTests
    BY ConstantFacts, TestTypes
  <2>. QED BY <1>1, <1>3, <2>1 DEF ScanIfUse, foundVars
<1>4. ASSUME NEW test \in Tests, ScanIf(test) \/ ScanElif(test) PROVE Plain
  <2>1. test \in WrittenTests
    BY ConstantFacts
  <2>. QED BY <1>1, <1>4, <2>1 DEF ScanIf, ScanElif, foundVars
<1>5. ASSUME NEW atom \in Opaque, ScanBlock(atom) PROVE Plain
  <2>1. opaque(atom) \in WrittenTests
    BY TestTypes
  <2>. QED BY <1>1, <1>5, <2>1 DEF ScanBlock, foundVars
<1>6. ASSUME NEW array \in Arrays \cup {NoArray, RuntimeArray}, ScanArray(array) PROVE Plain
  <2>1. array \in AnyArrays
    BY ConstantFacts
  <2>. QED BY <1>1, <1>6, <2>1 DEF ScanArray, foundVars
<1>7. ASSUME NEW ofKeys \in BOOLEAN, ScanLoop(ofKeys) PROVE Plain
  BY <1>1, <1>7 DEF ScanLoop, foundVars
<1>8. ASSUME ScanBrace \/ ScanElse \/ ScanFi \/ ScanDone \/ ScanLocal PROVE Plain
  BY <1>1, <1>8 DEF ScanBrace, ScanElse, ScanFi, ScanDone, ScanLocal, foundVars
<1>. HIDE DEF Plain
<1>9. \/ Plain \/ (\E guard \in Guards : ScanCheck(guard)) \/ ScanAssign \/ ScanEclass \/ InheritMissing
      \/ (\E inherits \in BOOLEAN : Read(inherits)) \/ UNCHANGED vars
  BY NextCases, <1>2, <1>3, <1>4, <1>5, <1>6, <1>7, <1>8
<1>. QED BY <1>9 DEF Plain

(***************************************************************************)
(* What an assignment finds.                                               *)
(***************************************************************************)
LEMMA AssignmentFound ==
  ASSUME TypeInv, NEW guard \in Guards, NEW severity \in Severities, NEW operator \in {"=", "+="},
         NEW value \in {"static", "each", "self", "dynamic", "unmatched"},
         ScanAssignment(value, operator, severity, guard)
  PROVE  LET line == [operator |-> IF value = "self" THEN "+=" ELSE operator, guard |-> guard, each |-> value = "each"]
         IN /\ guard \in Guardings /\ line \in Assignments /\ Writes(Line("assign", line))
            /\ "assign" \in LineForms /\ line \in WhatOf("assign")
            /\ \A r \in requirements' : r \in requirements \/ r.at = Evidence(guard)
            /\ \A d \in dynamic' : d \in dynamic \/ d.at = Evidence(guard)
            /\ UNCHANGED <<nesting, function, conditions, controlStack, staticArrays, invocations, calls>>
<1>1. guard \in Guardings
  BY DEF Guards, Guardings
<1>2. [operator |-> IF value = "self" THEN "+=" ELSE operator, guard |-> guard, each |-> value = "each"] \in Assignments
  BY <1>1 DEF Assignments
<1>3. "assign" \in LineForms /\ WhatOf("assign") = Assignments
  BY DEF LineForms, WhatOf
<1>4. /\ \A r \in requirements' : r \in requirements \/ r.at = Evidence(guard)
      /\ \A d \in dynamic' : d \in dynamic \/ d.at = Evidence(guard)
  BY DEF ScanAssignment
<1>. QED BY <1>1, <1>2, <1>3, <1>4 DEF ScanAssignment

LEMMA LocatedStep == TypeInv /\ LocatedInv /\ [Next]_vars => LocatedInv'
<1>. SUFFICES ASSUME TypeInv, LocatedInv, [Next]_vars PROVE LocatedInv'
  OBVIOUS
<1>1. ASSUME NEW form \in LineForms, NEW what \in WhatOf(form),
             Writes(Line(form, what)), UNCHANGED <<requirements, dynamic, invocations>>
      PROVE  LocatedInv'
  BY <1>1, LocatedWritten
<1>2. ASSUME NEW guard \in Guards, ScanCheck(guard) PROVE LocatedInv'
  <2>1. guard \in Guardings /\ "check" \in LineForms /\ WhatOf("check") = Guardings
    BY DEF Guards, Guardings, LineForms, WhatOf
  <2>2. /\ Writes(Line("check", guard)) /\ UNCHANGED <<requirements, dynamic>>
        /\ invocations' = invocations \cup {Evidence(guard)}
    BY <1>2 DEF ScanCheck
  <2>. QED BY <2>1, <2>2, LocatedWritten
<1>3. ASSUME ScanAssign PROVE LocatedInv'
  <2>1. PICK guard \in Guards, severity \in Severities, operator \in {"=", "+="},
             value \in {"static", "each", "self", "dynamic", "unmatched"} :
               ScanAssignment(value, operator, severity, guard)
    BY <1>3, AssignmentFacts
  <2>. QED BY <2>1, AssignmentFound, LocatedWritten
<1>4. ASSUME program' = program,
             \A r \in requirements' : r \in requirements,
             \A d \in dynamic' : d \in dynamic \/ (d.at = EvidenceOfFile(NoFunction) /\ origin' = "missing"),
             \A i \in invocations' : i \in invocations \/ i = EvidenceOfFile("pkg_setup"),
             origin = "missing" => origin' = "missing"
      PROVE  LocatedInv'
  <2>1. \A evidence, f : Located(evidence, f) => Located(evidence, f)'
    BY <1>4 DEF Located
  <2>2. \A r \in requirements' : Located(r.at, "assign")'
    BY <1>4, <2>1 DEF LocatedInv
  <2>3. \A d \in dynamic' : Located(d.at, "assign")' \/ (d.at = EvidenceOfFile(NoFunction) /\ origin' = "missing")
    BY <1>4, <2>1 DEF LocatedInv
  <2>4. \A i \in invocations' : Located(i, "check")' \/ i = EvidenceOfFile("pkg_setup")
    BY <1>4, <2>1 DEF LocatedInv
  <2>. QED BY <2>2, <2>3, <2>4 DEF LocatedInv, EvidenceOfFile
<1>5. CASE ScanEclass
  BY <1>4, <1>5 DEF ScanEclass, foundVars
<1>6. CASE InheritMissing
  <2>1. \A d \in dynamic' : d \in dynamic \/ d = [at |-> EvidenceOfFile(NoFunction), severity |-> "fatal"]
    BY <1>6 DEF InheritMissing
  <2>2. \A d \in dynamic' : d \in dynamic \/ d.at = EvidenceOfFile(NoFunction)
    BY <2>1
  <2>. QED BY <1>4, <1>6, <2>2 DEF InheritMissing
<1>7. ASSUME NEW inherits \in BOOLEAN, Read(inherits) PROVE LocatedInv'
  BY <1>4, <1>7 DEF Read
<1>8. CASE UNCHANGED vars
  BY <1>4, <1>8 DEF vars, foundVars
<1>. QED BY WrittenCases, <1>1, <1>2, <1>3, <1>5, <1>6, <1>7, <1>8

(***************************************************************************)
(* THE STATE HAS ITS TYPES, for all constants: the control stack is as     *)
(* deep as what is open in bash, the conditions are no more than that, and *)
(* all evidence is of a line that was read.                                *)
(***************************************************************************)
THEOREM StateHasItsTypes == Spec => []TypeOK
<1>1. Init => TypeInv /\ LocatedInv
  <2>1. Init => LocatedInv
    BY DEF Init, LocatedInv
  <2>. QED BY <2>1, TypeInit
<1>2. (TypeInv /\ LocatedInv) /\ [Next]_vars => (TypeInv /\ LocatedInv)'
  BY TypeStep, LocatedStep
<1>3. TypeInv /\ LocatedInv => TypeOK
  <2>. SUFFICES ASSUME TypeInv, LocatedInv PROVE TypeOK
    OBVIOUS
  <2>1. Len(conditions) <= Len(controlStack)
    <3>1. controlStack \in Seq(Frames) /\ Len(conditions) \in Nat
      BY DEF TypeInv, ScannerInv
    <3>. QED BY <3>1, PlacedBound DEF TypeInv, ScannerInv
  <2>2. staticArrays = <<>> \/ staticArrays[1] \in Arrays \cup {NoArray}
    BY DEF TypeInv, ScannerInv
  <2>3. \A r \in requirements : r.at.line \in DOMAIN program /\ r.operator \in {"=", "+="}
    BY DEF TypeInv, FoundInv, Requirements, LocatedInv, Located
  <2>4. \A d \in dynamic : d.at.line \in DOMAIN program \cup {0}
    BY DEF LocatedInv, Located, EvidenceOfFile
  <2>. QED BY <2>1, <2>2, <2>3, <2>4 DEF TypeOK, TypeInv, ProgramInv, ScannerInv, FoundInv
<1>. QED BY <1>1, <1>2, <1>3, PTL DEF Spec

-----------------------------------------------------------------------------
(* The search of the calls                                                 *)

Edges == SUBSET (Functions \X Functions)
\* the functions that n rounds of the edges come to
After(edges, n) == Rounds!Fold({Phase}, [round \in 1..n |-> edges])

LEMMA RoundFacts ==
  ASSUME NEW edges \in Edges
  PROVE  /\ After(edges, 0) = {Phase}
         /\ \A n \in Nat : After(edges, n + 1) = Follow(After(edges, n), edges)
<1>1. After(edges, 0) = {Phase}
  <2>1. [round \in 1..0 |-> edges] = <<>>
    OBVIOUS
  <2>. QED BY <2>1, Rounds!FoldEmpty DEF After
<1>2. ASSUME NEW n \in Nat PROVE After(edges, n + 1) = Follow(After(edges, n), edges)
  <2>. DEFINE q == [round \in 1..n |-> edges]
  <2>1. q \in Seq(Edges)
    OBVIOUS
  <2>2. [round \in 1..n + 1 |-> edges] = Append(q, edges)
    OBVIOUS
  <2>. HIDE DEF q
  <2>3. Rounds!Fold({Phase}, Append(q, edges)) = Follow(Rounds!Fold({Phase}, q), edges)
    BY <2>1, Rounds!FoldAppend
  <2>. QED BY <2>2, <2>3 DEF After, q
<1>. QED BY <1>1, <1>2

LEMMA ReachedIsAfter == \A n : Reached(n) = After(calls, n)
BY DEF Reached, After, Rounds!Fold, FoldLeft, Rounds!FoldLeft, MapThenFoldSet, Rounds!MapThenFoldSet, Max, Rounds!Max

(***************************************************************************)
(* A round comes to nothing outside a set that is closed.                  *)
(***************************************************************************)
LEMMA RoundsStayInside ==
  ASSUME NEW edges \in Edges, NEW set \in SUBSET Functions, Phase \in set,
         \A edge \in edges : edge[1] \in set => edge[2] \in set
  PROVE  \A n \in Nat : After(edges, n) \subseteq set
<1>. DEFINE S == {n \in Nat : After(edges, n) \subseteq set}
<1>1. 0 \in S
  BY RoundFacts
<1>2. ASSUME NEW n \in Nat, n \in S PROVE n + 1 \in S
  <2>1. After(edges, n + 1) = Follow(After(edges, n), edges)
    BY RoundFacts
  <2>. QED BY <1>2, <2>1 DEF Follow
<1>. HIDE DEF S
<1>3. Nat \subseteq S
  BY <1>1, <1>2, Rounds!Induction
<1>. QED BY <1>3 DEF S

(***************************************************************************)
(* As many rounds as there are functions leave nothing to come to: each    *)
(* round but the last comes to one function more.                          *)
(***************************************************************************)
LEMMA RoundsSuffice ==
  ASSUME NEW edges \in Edges
  PROVE  LET all == After(edges, Cardinality(Functions))
         IN all \subseteq Functions /\ Phase \in all /\ Follow(all, edges) = all
<1>0. IsFiniteSet(Functions) /\ Phase \in Functions
  BY ConstantFacts
<1>1. \A n \in Nat : After(edges, n) \subseteq Functions
  <2>1. \A edge \in edges : edge[2] \in Functions
    BY DEF Edges
  <2>2. Functions \in SUBSET Functions
    OBVIOUS
  <2>. QED BY <2>1, <2>2, <1>0, RoundsStayInside
<1>2. \A n \in Nat : /\ IsFiniteSet(After(edges, n)) /\ Cardinality(After(edges, n)) \in Nat
                     /\ Cardinality(After(edges, n)) <= Cardinality(Functions)
  BY <1>0, <1>1, FS_Subset, FS_CardinalityType
<1>. DEFINE Settled(n) == After(edges, n + 1) = After(edges, n)
            S == {n \in Nat : Phase \in After(edges, n)
                              /\ (Settled(n) \/ Cardinality(After(edges, n)) >= n + 1)}
<1>3. 0 \in S
  <2>1. After(edges, 0) = {Phase}
    BY RoundFacts
  <2>2. Cardinality(After(edges, 0)) = 1
    BY <2>1, FS_Singleton
  <2>. QED BY <2>1, <2>2
<1>4. ASSUME NEW n \in Nat, n \in S PROVE n + 1 \in S
  <2>1. /\ After(edges, n + 1) = Follow(After(edges, n), edges)
        /\ After(edges, n + 1 + 1) = Follow(After(edges, n + 1), edges)
    BY RoundFacts
  <2>2. After(edges, n) \subseteq After(edges, n + 1)
    BY <2>1 DEF Follow
  <2>3. CASE Settled(n)
    BY <1>4, <2>1, <2>2, <2>3
  <2>4. CASE ~Settled(n)
    <3>1. /\ Cardinality(After(edges, n)) <= Cardinality(After(edges, n + 1))
          /\ Cardinality(After(edges, n)) # Cardinality(After(edges, n + 1))
      <4>1. IsFiniteSet(After(edges, n + 1))
        BY <1>2
      <4>. QED BY <2>2, <2>4, <4>1, FS_Subset
    <3>2. Cardinality(After(edges, n)) \in Nat /\ Cardinality(After(edges, n + 1)) \in Nat
      BY <1>2
    <3>. QED BY <1>4, <2>2, <2>4, <3>1, <3>2
  <2>. QED BY <2>3, <2>4
<1>5. Nat \subseteq S
  <2>. HIDE DEF S
  <2>. QED BY <1>3, <1>4, Rounds!Induction
<1>6. Cardinality(Functions) \in Nat
  BY <1>0, FS_CardinalityType
<1>7. Cardinality(Functions) \in S
  BY <1>5, <1>6
<1>8. Settled(Cardinality(Functions))
  <2>1. Cardinality(After(edges, Cardinality(Functions))) <= Cardinality(Functions)
        /\ Cardinality(After(edges, Cardinality(Functions))) \in Nat
    BY <1>2, <1>6
  <2>. QED BY <1>6, <1>7, <2>1
<1>9. After(edges, Cardinality(Functions) + 1) = Follow(After(edges, Cardinality(Functions)), edges)
  BY <1>6, RoundFacts
<1>. QED BY <1>1, <1>6, <1>7, <1>8, <1>9

(***************************************************************************)
(* THE SEARCH OF THE CALLS IS EXACT (kernelFunctionReachable), for all     *)
(* ebuilds: it comes to all that the phase calls, directly or through      *)
(* others, and to nothing else.                                            *)
(***************************************************************************)
THEOREM SearchIsExact == Spec => []ChecksFollowCalls
<1>1. TypeInv => ChecksFollowCalls
  <2>. SUFFICES ASSUME TypeInv PROVE ChecksFollowCalls
    OBVIOUS
  <2>0. calls \in Edges /\ invocations \subseteq Evidences
    BY DEF TypeInv, FoundInv, Edges
  <2>. DEFINE all == After(calls, Cardinality(Functions))
  <2>1. all \subseteq Functions /\ Phase \in all /\ Follow(all, calls) = all
    BY <2>0, RoundsSuffice
  <2>2. \A name : kernelFunctionReachable(name) <=> name \in all
    BY ReachedIsAfter DEF kernelFunctionReachable
  <2>3. ASSUME NEW set \in SUBSET Functions, Closed(set) PROVE all \subseteq set
    <3>1. Cardinality(Functions) \in Nat
      BY ConstantFacts, FS_CardinalityType
    <3>. QED BY <2>0, <2>3, <3>1, RoundsStayInside DEF Closed
  <2>. HIDE DEF all
  <2>4. Closed(all)
    BY <2>1 DEF Closed, Follow
  <2>5. \A name : name \in all <=> \A set \in SUBSET Functions : Closed(set) => name \in set
    BY <2>1, <2>3, <2>4
  <2>6. \A i \in invocations : i.line \in Nat
    BY <2>0 DEF Evidences
  <2>7. EvidenceOfFile(NoFunction).function = NoFunction /\ EvidenceOfFile(NoFunction).line = 0
    BY DEF EvidenceOfFile
  <2>8. invocationsFor(EvidenceOfFile(NoFunction))
          = {i \in invocations : kernelFunctionReachable(i.function) \/ i.function \in Exported}
    BY <2>6, <2>7 DEF invocationsFor
  <2>. QED BY <2>2, <2>5, <2>8 DEF ChecksFollowCalls
<1>2. TypeInv /\ [Next]_vars => TypeInv'
  BY TypeStep
<1>. QED BY <1>1, <1>2, TypeInit, PTL DEF Spec

-----------------------------------------------------------------------------
(* Conditions and truth                                                    *)

LEMMA ContextTypes ==
  ASSUME NEW world \in Worlds, NEW useKnown \in BOOLEAN, NEW targetKnown \in BOOLEAN
  PROVE  /\ ContextOf(world, useKnown, targetKnown) \in Contexts
         /\ ContextOf(world, useKnown, targetKnown).useKnown = useKnown
         /\ ContextOf(world, useKnown, targetKnown).targetKnown = targetKnown
         /\ \A a \in Flags \cup Predicates : ContextOf(world, useKnown, targetKnown).answers[a] = world[a]
BY DEF ContextOf, Contexts, Worlds, Atoms

(***************************************************************************)
(* Composed conditions fit what is composed of the truths they fit         *)
(* (evaluate of conditionNot, conditionAnd and conditionOr).               *)
(***************************************************************************)
LEMMA FitsNot ==
  ASSUME NEW world \in Worlds, NEW node \in Nodes, NEW truth \in BOOLEAN, Fits(node, world, truth)
  PROVE  Fits(conditionNot(node), world, ~truth)
<1>. SUFFICES ASSUME NEW useKnown \in BOOLEAN, NEW targetKnown \in BOOLEAN
     PROVE  LET answer == conditionNot(node)[ContextOf(world, useKnown, targetKnown)]
            IN /\ answer = "applicable" => ~truth
               /\ answer = "inapplicable" => truth
               /\ useKnown /\ targetKnown => answer # "indeterminate"
  BY DEF Fits
<1>. DEFINE context == ContextOf(world, useKnown, targetKnown)
<1>1. context \in Contexts
  BY ContextTypes
<1>2. /\ node[context] = "applicable" => truth
      /\ node[context] = "inapplicable" => ~truth
      /\ useKnown /\ targetKnown => node[context] # "indeterminate"
  BY DEF Fits
<1>3. node[context] \in {"applicable", "inapplicable", "indeterminate"}
  BY <1>1 DEF Nodes, Applicability
<1>4. conditionNot(node)[context] = invertApplicability(node[context])
  BY <1>1 DEF conditionNot
<1>. HIDE DEF context
<1>. QED BY <1>2, <1>3, <1>4 DEF invertApplicability, context

LEMMA FitsAndOr ==
  ASSUME NEW world \in Worlds, NEW left \in Nodes, NEW right \in Nodes, NEW l \in BOOLEAN, NEW r \in BOOLEAN,
         Fits(left, world, l), Fits(right, world, r)
  PROVE  Fits(conditionAnd(left, right), world, l /\ r) /\ Fits(conditionOr(left, right), world, l \/ r)
<1>1. ASSUME NEW useKnown \in BOOLEAN, NEW targetKnown \in BOOLEAN
      PROVE  LET both == conditionAnd(left, right)[ContextOf(world, useKnown, targetKnown)]
                 one == conditionOr(left, right)[ContextOf(world, useKnown, targetKnown)]
             IN /\ both = "applicable" => l /\ r
                /\ both = "inapplicable" => ~(l /\ r)
                /\ useKnown /\ targetKnown => both # "indeterminate"
                /\ one = "applicable" => l \/ r
                /\ one = "inapplicable" => ~(l \/ r)
                /\ useKnown /\ targetKnown => one # "indeterminate"
  <2>. DEFINE context == ContextOf(world, useKnown, targetKnown)
  <2>1. context \in Contexts
    BY ContextTypes
  <2>2. /\ left[context] = "applicable" => l
        /\ left[context] = "inapplicable" => ~l
        /\ useKnown /\ targetKnown => left[context] # "indeterminate"
        /\ right[context] = "applicable" => r
        /\ right[context] = "inapplicable" => ~r
        /\ useKnown /\ targetKnown => right[context] # "indeterminate"
    BY DEF Fits
  <2>3. /\ left[context] \in {"applicable", "inapplicable", "indeterminate"}
        /\ right[context] \in {"applicable", "inapplicable", "indeterminate"}
    BY <2>1 DEF Nodes, Applicability
  <2>4. /\ conditionAnd(left, right)[context] = combineApplicability(left[context], right[context])
        /\ conditionOr(left, right)[context] = eitherApplicability(left[context], right[context])
    BY <2>1 DEF conditionAnd, conditionOr
  <2>. HIDE DEF context
  <2>. QED BY <2>2, <2>3, <2>4 DEF combineApplicability, AllApplicable, eitherApplicability, context
<1>. QED BY <1>1 DEF Fits

LEMMA FitsNothing == \A world \in Worlds : Fits(NoExpression, world, TRUE)
BY ContextTypes DEF Fits, NoExpression

(***************************************************************************)
(* The tests of the grammar never say what bash denies: what is assumed of *)
(* Tests holds of "use", kernel_is and merge_type, and of negations and    *)
(* disjunctions of tests of which it holds.                                *)
(***************************************************************************)
LEMMA GrammarAnswers ==
  /\ \A condition \in UseConditions : Answers(use(condition).node, use(condition).holds)
  /\ \A predicate \in Predicates : Answers(target(predicate).node, target(predicate).holds)
  /\ \A test \in WrittenTests : Answers(test.node, test.holds) => Answers(no(test).node, no(test).holds)
  /\ \A one, another \in WrittenTests :
       Answers(one.node, one.holds) /\ Answers(another.node, another.holds)
         => Answers(either(one, another).node, either(one, another).holds)
<1>1. ASSUME NEW flag \in Flags, NEW world \in Worlds PROVE Fits(conditionUse(flag), world, world[flag])
  BY ContextTypes DEF Fits, conditionUse, Told
<1>2. ASSUME NEW predicate \in Predicates, NEW world \in Worlds
      PROVE  Fits(conditionTarget(predicate), world, world[predicate])
  BY ContextTypes DEF Fits, conditionTarget, Told
<1>3. ASSUME NEW condition \in UseConditions PROVE Answers(use(condition).node, use(condition).holds)
  <2>. SUFFICES ASSUME NEW world \in Worlds PROVE Fits(use(condition).node, world, world \in use(condition).holds)
    BY DEF Answers
  <2>1. condition.flag \in Flags /\ condition.enabled \in BOOLEAN /\ world[condition.flag] \in BOOLEAN
    BY DEF UseConditions, Worlds, Atoms
  <2>2. conditionUse(condition.flag) \in Nodes /\ Fits(conditionUse(condition.flag), world, world[condition.flag])
    BY <1>1, <2>1, NodeTypes
  <2>3. CASE condition.enabled
    <3>1. use(condition).node = conditionUse(condition.flag)
      BY <2>3 DEF use
    <3>2. world \in use(condition).holds <=> world[condition.flag]
      BY <2>1, <2>3 DEF use
    <3>. QED BY <2>2, <3>1, <3>2 DEF Fits
  <2>4. CASE ~condition.enabled
    <3>1. Fits(conditionNot(conditionUse(condition.flag)), world, ~world[condition.flag])
      BY <2>1, <2>2, FitsNot
    <3>2. use(condition).node = conditionNot(conditionUse(condition.flag))
      BY <2>4 DEF use
    <3>3. world \in use(condition).holds <=> ~world[condition.flag]
      BY <2>1, <2>4 DEF use
    <3>. QED BY <3>1, <3>2, <3>3 DEF Fits
  <2>. QED BY <2>1, <2>3, <2>4
<1>4. ASSUME NEW predicate \in Predicates PROVE Answers(target(predicate).node, target(predicate).holds)
  <2>. SUFFICES ASSUME NEW world \in Worlds PROVE Fits(target(predicate).node, world, world \in target(predicate).holds)
    BY DEF Answers
  <2>1. target(predicate).node = conditionTarget(predicate) /\ (world \in target(predicate).holds <=> world[predicate])
    BY DEF target
  <2>. QED BY <1>2, <2>1 DEF Fits
<1>5. ASSUME NEW test \in WrittenTests, Answers(test.node, test.holds) PROVE Answers(no(test).node, no(test).holds)
  <2>. SUFFICES ASSUME NEW world \in Worlds PROVE Fits(no(test).node, world, world \in no(test).holds)
    BY DEF Answers
  <2>0. PICK truth \in BOOLEAN : truth <=> world \in test.holds
    OBVIOUS
  <2>1. Fits(test.node, world, truth) /\ test.node \in Nodes
    BY <1>5, <2>0 DEF Answers, WrittenTests, Fits
  <2>2. Fits(conditionNot(test.node), world, ~truth)
    BY <2>1, FitsNot
  <2>3. no(test).node = conditionNot(test.node) /\ (world \in no(test).holds <=> ~truth)
    BY <2>0 DEF no
  <2>. QED BY <2>2, <2>3 DEF Fits
<1>6. ASSUME NEW one \in WrittenTests, NEW another \in WrittenTests,
             Answers(one.node, one.holds), Answers(another.node, another.holds)
      PROVE  Answers(either(one, another).node, either(one, another).holds)
  <2>. SUFFICES ASSUME NEW world \in Worlds
       PROVE  Fits(either(one, another).node, world, world \in either(one, another).holds)
    BY DEF Answers
  <2>0. PICK l \in BOOLEAN, r \in BOOLEAN : (l <=> world \in one.holds) /\ (r <=> world \in another.holds)
    OBVIOUS
  <2>1. /\ Fits(one.node, world, l) /\ Fits(another.node, world, r)
        /\ one.node \in Nodes /\ another.node \in Nodes
    BY <1>6, <2>0 DEF Answers, WrittenTests, Fits
  <2>2. Fits(conditionOr(one.node, another.node), world, l \/ r)
    BY <2>1, FitsAndOr
  <2>3. /\ either(one, another).node = conditionOr(one.node, another.node)
        /\ world \in either(one, another).holds <=> l \/ r
    BY <2>0 DEF either
  <2>. QED BY <2>2, <2>3 DEF Fits
<1>. QED BY <1>3, <1>4, <1>5, <1>6

-----------------------------------------------------------------------------
(* The shell                                                               *)

Blocks == [now : BOOLEAN, tried : BOOLEAN, each : SUBSET Nat]
Shells ==
  [world : Worlds, file : {"ebuild", "eclass"}, blocks : Seq(Blocks), array : AnyArrays,
   value : SUBSET (Nat \X Nat), ran : SUBSET Nat, seen : SUBSET (Nat \X SUBSET (Nat \X Nat))]

LEMMA LineFacts ==
  ASSUME NEW line \in Lines
  PROVE  /\ line.form \in LineForms /\ line.number \in Nat
         /\ line.form \in {"if", "elif"} => line.what \in WrittenTests
         /\ line.form = "for" => line.what \in BOOLEAN
         /\ line.form = "array" => line.what \in AnyArrays
         /\ line.form = "check" => line.what \in Guardings
         /\ line.form = "assign" => line.what \in Assignments
<1>1. PICK form \in LineForms : line \in [form : {form}, what : WhatOf(form), fn : Functions \cup {NoFunction},
                                         origin : {"ebuild", "eclass"}, number : Nat]
  BY DEF Lines
<1>2. line.form = form /\ line.what \in WhatOf(form) /\ line.number \in Nat
  BY <1>1
<1>. QED BY <1>2 DEF WhatOf

(***************************************************************************)
(* What a line does to the blocks and to the array.                        *)
(***************************************************************************)
LEMMA ObeyBlocks ==
  ASSUME NEW bash \in Shells, NEW line \in Lines
  PROVE  LET after == Obey(bash, line)
             top == Last(bash.blocks)
             holds == bash.world \in line.what.holds
             elements == Elements(bash.array, line.what)
         IN /\ after.world = bash.world /\ after.file = bash.file
            /\ line.form = "if" =>
                 after.blocks = Append(bash.blocks, [now |-> holds, tried |-> holds, each |-> EachOf(bash.blocks)])
            /\ line.form = "for" =>
                 after.blocks = Append(bash.blocks, [now |-> elements # {}, tried |-> TRUE, each |-> elements])
            /\ line.form = "elif" =>
                 after.blocks = ReplaceTop(bash.blocks, [now |-> holds /\ ~top.tried, tried |-> holds \/ top.tried,
                                                         each |-> top.each])
            /\ line.form = "else" =>
                 after.blocks = ReplaceTop(bash.blocks, [now |-> ~top.tried, tried |-> TRUE, each |-> top.each])
            /\ line.form = "fi" => after.blocks = Front(bash.blocks)
            /\ line.form \notin {"if", "for", "elif", "else", "fi"} => after.blocks = bash.blocks
            /\ after.array = IF line.form = "array" THEN line.what ELSE bash.array
<1>1. line.form \in LineForms
  BY LineFacts
<1>2. CASE line.form = "if"
  BY <1>2 DEF Obey, Shells
<1>3. CASE line.form = "for"
  BY <1>3 DEF Obey, Shells
<1>4. CASE line.form = "elif"
  BY <1>4 DEF Obey, Shells
<1>5. CASE line.form = "else"
  BY <1>5 DEF Obey, Shells
<1>6. CASE line.form = "fi"
  BY <1>6 DEF Obey, Shells
<1>7. CASE line.form = "array"
  BY <1>7 DEF Obey, Shells
<1>8. CASE line.form = "local"
  BY <1>8 DEF Obey, Shells
<1>9. CASE line.form = "assign"
  BY <1>9 DEF Obey, Shells
<1>10. CASE line.form = "check"
  BY <1>10 DEF Obey, Shells
<1>11. CASE line.form \in {"function", "close", "call"}
  BY <1>11 DEF Obey
<1>. QED BY <1>1, <1>2, <1>3, <1>4, <1>5, <1>6, <1>7, <1>8, <1>9, <1>10, <1>11 DEF LineForms

(***************************************************************************)
(* What a line does to the value, and what comes of it.                    *)
(***************************************************************************)
LEMMA ObeyValue ==
  ASSUME NEW bash \in Shells, NEW line \in Lines
  PROVE  LET after == Obey(bash, line)
             assigns == line.form = "assign" /\ Runs(bash, line.what.guard)
             checks == line.form = "check" /\ Runs(bash, line.what)
         IN /\ after.ran = IF assigns \/ checks THEN bash.ran \cup {line.number} ELSE bash.ran
            /\ after.value = IF assigns THEN Assigned(bash, line.what, line.number)
                             ELSE IF line.form = "local" /\ Runs(bash, NoGuard) THEN {} ELSE bash.value
            /\ after.seen = IF checks THEN bash.seen \cup {<<line.number, bash.value>>} ELSE bash.seen
<1>1. line.form \in LineForms
  BY LineFacts
<1>2. CASE line.form \in {"if", "for", "elif", "else", "fi", "array"}
  BY <1>2 DEF Obey, Shells
<1>3. CASE line.form = "local"
  BY <1>3 DEF Obey, Shells
<1>4. CASE line.form = "assign"
  BY <1>4 DEF Obey, Shells
<1>5. CASE line.form = "check"
  BY <1>5 DEF Obey, Shells
<1>6. CASE line.form \in {"function", "close", "call"}
  BY <1>6 DEF Obey
<1>. QED BY <1>1, <1>2, <1>3, <1>4, <1>5, <1>6 DEF LineForms

LEMMA ShellParts ==
  ASSUME NEW bash \in Shells
  PROVE  /\ EachOf(bash.blocks) \in SUBSET Nat
         /\ \A ofKeys \in BOOLEAN : Elements(bash.array, ofKeys) \in SUBSET Nat
         /\ \A assignment \in Assignments, n \in Nat : Assigned(bash, assignment, n) \in SUBSET (Nat \X Nat)
         /\ bash.blocks # <<>> => Last(bash.blocks) \in Blocks
<1>1. bash.blocks \in Seq(Blocks) /\ bash.array \in AnyArrays /\ bash.value \in SUBSET (Nat \X Nat)
  BY DEF Shells
<1>2. bash.blocks # <<>> => Last(bash.blocks) \in Blocks
  BY <1>1, PopFacts
<1>3. EachOf(bash.blocks) \in SUBSET Nat
  BY <1>2 DEF EachOf, Blocks
<1>4. \A ofKeys \in BOOLEAN : Elements(bash.array, ofKeys) \in SUBSET Nat
  BY <1>1 DEF Elements, AnyArrays
<1>5. \A assignment \in Assignments, n \in Nat : Assigned(bash, assignment, n) \in SUBSET (Nat \X Nat)
  BY <1>1, <1>3 DEF Assigned, Tokens
<1>. QED BY <1>2, <1>3, <1>4, <1>5

LEMMA ReplaceType ==
  ASSUME NEW s \in Seq(Blocks), NEW b, s # <<>> => b \in Blocks
  PROVE  ReplaceTop(s, b) \in Seq(Blocks)
<1>1. CASE s = <<>>
  <2>1. ReplaceTop(s, b) = <<>>
    BY <1>1 DEF ReplaceTop
  <2>. QED BY <2>1
<1>2. CASE s # <<>>
  BY <1>2, ReplaceFacts
<1>. QED BY <1>1, <1>2

LEMMA FrontType ==
  ASSUME NEW S, NEW s \in Seq(S)
  PROVE  Front(s) \in Seq(S)
<1>1. CASE s = <<>>
  <2>1. Front(s) = <<>>
    BY <1>1 DEF Front
  <2>. QED BY <2>1
<1>2. CASE s # <<>>
  BY <1>2, PopFacts
<1>. QED BY <1>1, <1>2

LEMMA ObeyShape ==
  ASSUME NEW bash \in Shells, NEW line \in Lines
  PROVE  LET o == Obey(bash, line)
         IN o = [world |-> o.world, file |-> o.file, blocks |-> o.blocks, array |-> o.array, value |-> o.value,
                 ran |-> o.ran, seen |-> o.seen]
<1>1. line.form \in LineForms
  BY LineFacts
<1>2. CASE line.form = "if"
  BY <1>2 DEF Obey, Shells
<1>3. CASE line.form = "for"
  BY <1>3 DEF Obey, Shells
<1>4. CASE line.form = "elif"
  BY <1>4 DEF Obey, Shells
<1>5. CASE line.form = "else"
  BY <1>5 DEF Obey, Shells
<1>6. CASE line.form = "fi"
  BY <1>6 DEF Obey, Shells
<1>7. CASE line.form = "array"
  BY <1>7 DEF Obey, Shells
<1>8. CASE line.form = "local"
  BY <1>8 DEF Obey, Shells
<1>9. CASE line.form = "assign"
  BY <1>9 DEF Obey, Shells
<1>10. CASE line.form = "check"
  BY <1>10 DEF Obey, Shells
<1>11. CASE line.form \in {"function", "close", "call"}
  BY <1>11 DEF Obey, Shells
<1>. QED BY <1>1, <1>2, <1>3, <1>4, <1>5, <1>6, <1>7, <1>8, <1>9, <1>10, <1>11 DEF LineForms

(***************************************************************************)
(* A shell stays one.                                                      *)
(***************************************************************************)
LEMMA TurnType ==
  ASSUME NEW bash \in Shells, NEW line \in Lines
  PROVE  Turn(bash, line) \in Shells
<1>. DEFINE top == Last(bash.blocks)
            holds == bash.world \in line.what.holds
            elements == Elements(bash.array, line.what)
            o == Obey(bash, line)
<1>1. /\ bash.blocks \in Seq(Blocks) /\ bash.value \in SUBSET (Nat \X Nat) /\ bash.ran \in SUBSET Nat
      /\ bash.seen \in SUBSET (Nat \X SUBSET (Nat \X Nat)) /\ EachOf(bash.blocks) \in SUBSET Nat
      /\ bash.blocks # <<>> => top \in Blocks
      /\ bash.world \in Worlds /\ bash.file \in {"ebuild", "eclass"} /\ bash.array \in AnyArrays
  BY ShellParts DEF Shells
<1>2. /\ line.number \in Nat
      /\ line.form = "array" => line.what \in AnyArrays
      /\ line.form = "for" => elements \in SUBSET Nat
      /\ line.form = "assign" => Assigned(bash, line.what, line.number) \in SUBSET (Nat \X Nat)
  BY LineFacts, ShellParts
<1>3. o.blocks \in Seq(Blocks)
  <2>1. CASE line.form = "if"
    <3>1. [now |-> holds, tried |-> holds, each |-> EachOf(bash.blocks)] \in Blocks
      BY <1>1 DEF Blocks
    <3>2. Append(bash.blocks, [now |-> holds, tried |-> holds, each |-> EachOf(bash.blocks)]) \in Seq(Blocks)
      BY <1>1, <3>1, PushFacts
    <3>. QED BY <2>1, <3>2, ObeyBlocks
  <2>2. CASE line.form = "for"
    <3>1. [now |-> elements # {}, tried |-> TRUE, each |-> elements] \in Blocks
      BY <1>2, <2>2 DEF Blocks
    <3>2. Append(bash.blocks, [now |-> elements # {}, tried |-> TRUE, each |-> elements]) \in Seq(Blocks)
      BY <1>1, <3>1, PushFacts
    <3>. QED BY <2>2, <3>2, ObeyBlocks
  <2>3. CASE line.form = "elif"
    <3>1. bash.blocks # <<>> =>
            [now |-> holds /\ ~top.tried, tried |-> holds \/ top.tried, each |-> top.each] \in Blocks
      BY <1>1 DEF Blocks
    <3>2. ReplaceTop(bash.blocks, [now |-> holds /\ ~top.tried, tried |-> holds \/ top.tried, each |-> top.each])
            \in Seq(Blocks)
      BY <1>1, <3>1, ReplaceType
    <3>. QED BY <2>3, <3>2, ObeyBlocks
  <2>4. CASE line.form = "else"
    <3>1. bash.blocks # <<>> => [now |-> ~top.tried, tried |-> TRUE, each |-> top.each] \in Blocks
      BY <1>1 DEF Blocks
    <3>2. ReplaceTop(bash.blocks, [now |-> ~top.tried, tried |-> TRUE, each |-> top.each]) \in Seq(Blocks)
      BY <1>1, <3>1, ReplaceType
    <3>. QED BY <2>4, <3>2, ObeyBlocks
  <2>5. CASE line.form = "fi"
    <3>1. Front(bash.blocks) \in Seq(Blocks)
      BY <1>1, FrontType
    <3>. QED BY <2>5, <3>1, ObeyBlocks
  <2>6. CASE line.form \notin {"if", "for", "elif", "else", "fi"}
    BY <1>1, <2>6, ObeyBlocks
  <2>. QED BY <2>1, <2>2, <2>3, <2>4, <2>5, <2>6
<1>4. o.world = bash.world /\ o.file = bash.file /\ o.array \in AnyArrays
  BY <1>1, <1>2, ObeyBlocks
<1>5. o.ran \in SUBSET Nat /\ o.value \in SUBSET (Nat \X Nat) /\ o.seen \in SUBSET (Nat \X SUBSET (Nat \X Nat))
  <2>1. o.ran \in SUBSET Nat
    BY <1>1, <1>2, ObeyValue
  <2>2. o.value \in SUBSET (Nat \X Nat)
    <3>1. \/ line.form = "assign" /\ o.value = Assigned(bash, line.what, line.number)
          \/ o.value = {} \/ o.value = bash.value
      BY ObeyValue
    <3>. QED BY <1>1, <1>2, <3>1
  <2>3. o.seen \in SUBSET (Nat \X SUBSET (Nat \X Nat))
    <3>1. <<line.number, bash.value>> \in Nat \X SUBSET (Nat \X Nat)
      BY <1>1, <1>2
    <3>2. o.seen = bash.seen \/ o.seen = bash.seen \cup {<<line.number, bash.value>>}
      BY ObeyValue
    <3>. QED BY <1>1, <3>1, <3>2
  <2>. QED BY <2>1, <2>2, <2>3
<1>6. o = [world |-> o.world, file |-> o.file, blocks |-> o.blocks, array |-> o.array, value |-> o.value,
           ran |-> o.ran, seen |-> o.seen]
  BY ObeyShape
<1>. HIDE DEF o
<1>7. o \in Shells
  BY <1>1, <1>3, <1>4, <1>5, <1>6 DEF Shells
<1>. QED BY <1>7 DEF o, Turn

\* Shells that have sourced nothing of the file yet.
Starts == {shell \in Shells : shell.blocks = <<>>}
\* such a shell, when it has sourced all that is written
Sourcing(start) == Turns!Fold(start, program)
\* bash is where the scanner is, and obeys the line that is written next
Follows(bash) == origin = bash.file /\ function \in {NoFunction, Phase}

LEMMA SourcingFacts ==
  ASSUME program \in Seq(Lines), NEW start \in Starts
  PROVE  /\ Sourcing(start) \in Shells
         /\ Sourcing(start).world = start.world /\ Sourcing(start).file = start.file
         /\ start.ran \subseteq Sourcing(start).ran
<1>. DEFINE D == {bash \in Shells : bash.world = start.world /\ bash.file = start.file /\ start.ran \subseteq bash.ran}
<1>1. start \in D
  BY DEF Starts
<1>2. ASSUME NEW bash \in D, NEW line \in Lines PROVE Turn(bash, line) \in D
  <2>1. Turn(bash, line) \in Shells
    BY TurnType
  <2>2. /\ Obey(bash, line).world = bash.world /\ Obey(bash, line).file = bash.file
        /\ bash.ran \subseteq Obey(bash, line).ran
    BY ObeyBlocks, ObeyValue
  <2>. QED BY <2>1, <2>2 DEF Turn
<1>. HIDE DEF D
<1>3. Turns!Fold(start, program) \in D
  BY <1>1, <1>2, Turns!FoldInvariant
<1>. QED BY <1>3 DEF D, Sourcing

(***************************************************************************)
(* A line that is written is one turn more.                                *)
(***************************************************************************)
LEMMA TurnOfLine ==
  ASSUME TypeInv, NEW form \in LineForms, NEW what \in WhatOf(form), Writes(Line(form, what)),
         NEW start \in Starts, NEW after, after = Sourcing(start)'
  PROVE  \E bash \in Shells : \E line \in Lines :
           /\ bash = Sourcing(start) /\ line = Line(form, what) /\ line.form = form /\ line.what = what
           /\ line.number = LineNumber /\ line.fn = function /\ line.origin = origin
           /\ after \in Shells /\ after.world = bash.world /\ after.file = bash.file
           /\ Follows(bash) => after = Obey(bash, line)
           /\ ~Follows(bash) => after = bash
<1>1. program \in Seq(Lines) /\ Line(form, what) \in Lines /\ program' = Append(program, Line(form, what))
  BY WriteFacts DEF TypeInv, ScannerInv, ProgramInv
<1>2. PICK bash \in Shells : bash = Sourcing(start)
  BY <1>1, SourcingFacts
<1>3. PICK line \in Lines : line = Line(form, what)
  BY <1>1
<1>4. Turns!Fold(start, Append(program, line)) = Turn(Turns!Fold(start, program), line)
  BY <1>1, Turns!FoldAppend
<1>5. after = Turn(bash, line)
  BY <1>1, <1>2, <1>3, <1>4 DEF Sourcing
<1>6. line.form = form /\ line.what = what /\ line.number = LineNumber /\ line.fn = function /\ line.origin = origin
  BY <1>3 DEF Line
<1>7. (Follows(bash) => after = Obey(bash, line)) /\ (~Follows(bash) => after = bash)
  BY <1>5, <1>6 DEF Turn, Executes, Follows
<1>8. after \in Shells
  BY <1>5, TurnType
<1>9. after.world = bash.world /\ after.file = bash.file
  <2>1. Obey(bash, line).world = bash.world /\ Obey(bash, line).file = bash.file
    BY ObeyBlocks
  <2>. QED BY <1>7, <2>1
<1>. QED BY <1>2, <1>3, <1>6, <1>7, <1>8, <1>9

-----------------------------------------------------------------------------
(* Frames and blocks                                                       *)

\* What is said of a frame fits what bash does with the block.
Matches(frame, block, kind, world) ==
  /\ frame.supported /\ kind # "loop" => Fits(frame.expression, world, block.now)
  /\ frame.supported /\ kind = "if" => Fits(frame.prior, world, block.tried)
FramesMatch(bash) ==
  /\ Follows(bash) =>
       /\ Len(bash.blocks) = Len(controlStack)
       /\ \A i \in DOMAIN controlStack : Matches(controlStack[i], bash.blocks[i], nesting[i], bash.world)
  /\ ~Follows(bash) => bash.blocks = <<>>
FramesInv == \A start \in Starts, bash \in Shells : bash = Sourcing(start) => FramesMatch(bash)

StackTypes == nesting \in Seq(Kinds) /\ controlStack \in Seq(Frames) /\ Len(controlStack) = Len(nesting)

LEMMA FramesPush ==
  ASSUME StackTypes, NEW bash \in Shells, NEW after \in Shells, FramesMatch(bash),
         NEW kind \in Kinds, NEW frame \in Frames, NEW block \in Blocks,
         nesting' = Append(nesting, kind), controlStack' = Append(controlStack, frame),
         UNCHANGED <<function, origin>>, after.world = bash.world, after.file = bash.file,
         Follows(bash) => after.blocks = Append(bash.blocks, block), ~Follows(bash) => after = bash,
         Matches(frame, block, kind, bash.world)
  PROVE  FramesMatch(after)'
<1>1. Follows(after)' <=> Follows(bash)
  BY DEF Follows
<1>2. CASE ~Follows(bash)
  BY <1>1, <1>2 DEF FramesMatch
<1>3. CASE Follows(bash)
  <2>. DEFINE m == Len(controlStack)
  <2>1. /\ controlStack' \in Seq(Frames) /\ Len(controlStack') = m + 1 /\ controlStack'[m + 1] = frame
        /\ \A i \in DOMAIN controlStack : controlStack'[i] = controlStack[i]
    BY PushFacts DEF StackTypes
  <2>2. nesting'[m + 1] = kind /\ \A i \in DOMAIN nesting : nesting'[i] = nesting[i]
    BY PushFacts DEF StackTypes
  <2>3. bash.blocks \in Seq(Blocks) /\ Len(bash.blocks) = m
    BY <1>3 DEF Shells, FramesMatch
  <2>4. /\ Len(after.blocks) = m + 1 /\ after.blocks[m + 1] = block
        /\ \A i \in DOMAIN bash.blocks : after.blocks[i] = bash.blocks[i]
    <3>1. bash.blocks \in Seq(Blocks)
      BY <2>3
    <3>2. /\ Len(Append(bash.blocks, block)) = Len(bash.blocks) + 1
          /\ Append(bash.blocks, block)[Len(bash.blocks) + 1] = block
          /\ \A i \in DOMAIN bash.blocks : Append(bash.blocks, block)[i] = bash.blocks[i]
      BY <3>1, PushFacts
    <3>. QED BY <1>3, <2>3, <3>2
  <2>5. DOMAIN controlStack = 1..m /\ DOMAIN nesting = 1..m /\ DOMAIN controlStack' = 1..m + 1 /\ m \in Nat
    BY <2>1 DEF StackTypes
  <2>6. DOMAIN bash.blocks = 1..m
    BY <2>3
  <2>7. \A i \in 1..m : Matches(controlStack[i], bash.blocks[i], nesting[i], bash.world)
    BY <1>3, <2>5 DEF FramesMatch
  <2>. HIDE DEF m
  <2>8. ASSUME NEW i \in 1..m + 1
        PROVE  Matches(controlStack'[i], after.blocks[i], nesting'[i], after.world)
    <3>1. CASE i = m + 1
      BY <3>1, <2>1, <2>2, <2>4
    <3>2. CASE i \in 1..m
      BY <3>2, <2>1, <2>2, <2>4, <2>5, <2>6, <2>7
    <3>. QED BY <2>5, <3>1, <3>2
  <2>. QED BY <1>1, <1>3, <2>1, <2>4, <2>5, <2>8 DEF FramesMatch, m
<1>. QED BY <1>2, <1>3

LEMMA BlocksReplace ==
  ASSUME NEW blocks \in Seq(Blocks), NEW m \in Nat \ {0}, Len(blocks) = m, NEW block \in Blocks,
         NEW after, after = ReplaceTop(blocks, block)
  PROVE  /\ Len(after) = m /\ after[m] = block
         /\ \A i \in 1..m : i # m => after[i] = blocks[i]
<1>1. blocks # <<>> /\ DOMAIN blocks = 1..m
  OBVIOUS
<1>. QED BY <1>1 DEF ReplaceTop

LEMMA FramesReplace ==
  ASSUME StackTypes, NEW bash \in Shells, NEW after \in Shells, FramesMatch(bash), nesting # <<>>,
         NEW block \in Blocks, StackTypes', Len(controlStack') = Len(controlStack),
         \A i \in DOMAIN nesting : i # Len(nesting) => nesting'[i] = nesting[i] /\ controlStack'[i] = controlStack[i],
         UNCHANGED <<function, origin>>, after.world = bash.world, after.file = bash.file,
         Follows(bash) => after.blocks = ReplaceTop(bash.blocks, block), ~Follows(bash) => after = bash,
         Follows(bash) =>
           Matches(controlStack'[Len(controlStack)], block, nesting'[Len(controlStack)], bash.world)
  PROVE  FramesMatch(after)'
<1>1. Follows(after)' <=> Follows(bash)
  BY DEF Follows
<1>2. CASE ~Follows(bash)
  BY <1>1, <1>2 DEF FramesMatch
<1>3. CASE Follows(bash)
  <2>. DEFINE m == Len(controlStack)
  <2>1. /\ m \in Nat /\ m # 0 /\ DOMAIN controlStack = 1..m /\ DOMAIN nesting = 1..m /\ DOMAIN controlStack' = 1..m
        /\ Len(nesting) = m
    <3>1. controlStack \in Seq(Frames) /\ nesting \in Seq(Kinds) /\ Len(controlStack) = Len(nesting)
      BY DEF StackTypes
    <3>2. controlStack' \in Seq(Frames)
      BY DEF StackTypes
    <3>3. DOMAIN controlStack' = 1..Len(controlStack')
      BY <3>2
    <3>. QED BY <3>1, <3>3
  <2>2. bash.blocks \in Seq(Blocks) /\ Len(bash.blocks) = m
    BY <1>3 DEF Shells, FramesMatch
  <2>3. bash.blocks # <<>> /\ DOMAIN bash.blocks = 1..m
    BY <2>1, <2>2
  <2>4. Len(bash.blocks) = m /\ after.blocks = ReplaceTop(bash.blocks, block)
    BY <1>3, <2>2
  <2>5. /\ Len(after.blocks) = m /\ after.blocks[m] = block
        /\ \A i \in 1..m : i # m => after.blocks[i] = bash.blocks[i]
    <3>. HIDE DEF m
    <3>. QED BY <2>1, <2>2, <2>4, BlocksReplace
  <2>6. \A i \in 1..m : Matches(controlStack[i], bash.blocks[i], nesting[i], bash.world)
    BY <1>3, <2>1 DEF FramesMatch
  <2>7. Matches(controlStack'[m], block, nesting'[m], bash.world)
    BY <1>3
  <2>8. \A i \in 1..m : i # m => nesting'[i] = nesting[i] /\ controlStack'[i] = controlStack[i]
    <3>1. \A i \in 1..m : i # m => i \in DOMAIN nesting /\ i # Len(nesting)
      BY <2>1
    <3>. HIDE DEF m
    <3>. QED BY <3>1
  <2>9. Len(controlStack') = m
    OBVIOUS
  <2>. HIDE DEF m
  <2>10. ASSUME NEW i \in 1..m
         PROVE  Matches(controlStack'[i], after.blocks[i], nesting'[i], after.world)
    BY <2>5, <2>6, <2>7, <2>8
  <2>. QED BY <1>1, <1>3, <2>1, <2>5, <2>9, <2>10 DEF FramesMatch
<1>. QED BY <1>2, <1>3

LEMMA FramesPop ==
  ASSUME StackTypes, NEW bash \in Shells, NEW after \in Shells, FramesMatch(bash), nesting # <<>>,
         nesting' = Front(nesting), controlStack' = Front(controlStack),
         UNCHANGED <<function, origin>>, after.world = bash.world, after.file = bash.file,
         Follows(bash) => after.blocks = Front(bash.blocks), ~Follows(bash) => after = bash
  PROVE  FramesMatch(after)'
<1>1. Follows(after)' <=> Follows(bash)
  BY DEF Follows
<1>2. CASE ~Follows(bash)
  BY <1>1, <1>2 DEF FramesMatch
<1>3. CASE Follows(bash)
  <2>. DEFINE m == Len(controlStack)
  <2>1. m \in Nat /\ m # 0 /\ DOMAIN controlStack = 1..m /\ controlStack # <<>>
    <3>1. controlStack \in Seq(Frames) /\ nesting \in Seq(Kinds) /\ Len(controlStack) = Len(nesting)
      BY DEF StackTypes
    <3>2. Len(nesting) # 0
      BY <3>1
    <3>. QED BY <3>1, <3>2
  <2>2. /\ controlStack' \in Seq(Frames) /\ Len(controlStack') = m - 1
        /\ \A i \in 1..m - 1 : controlStack'[i] = controlStack[i]
    BY <2>1, PopFacts DEF StackTypes
  <2>3. \A i \in 1..m - 1 : nesting'[i] = nesting[i]
    <3>1. nesting \in Seq(Kinds) /\ Len(nesting) = m
      BY DEF StackTypes
    <3>2. DOMAIN Front(nesting) = 1..Len(nesting) - 1 /\ \A i \in DOMAIN Front(nesting) : Front(nesting)[i] = nesting[i]
      BY <3>1, PopFacts
    <3>. HIDE DEF m
    <3>. QED BY <3>1, <3>2
  <2>4. bash.blocks \in Seq(Blocks) /\ Len(bash.blocks) = m
    BY <1>3 DEF Shells, FramesMatch
  <2>5. bash.blocks # <<>>
    BY <2>1, <2>4
  <2>6. Len(after.blocks) = m - 1 /\ \A i \in 1..m - 1 : after.blocks[i] = bash.blocks[i]
    <3>1. /\ Len(Front(bash.blocks)) = Len(bash.blocks) - 1
          /\ DOMAIN Front(bash.blocks) = 1..Len(bash.blocks) - 1
          /\ \A i \in DOMAIN Front(bash.blocks) : Front(bash.blocks)[i] = bash.blocks[i]
      BY <2>4, <2>5, PopFacts
    <3>2. after.blocks = Front(bash.blocks)
      BY <1>3
    <3>. HIDE DEF m
    <3>. QED BY <2>4, <3>1, <3>2
  <2>7. \A i \in 1..m : Matches(controlStack[i], bash.blocks[i], nesting[i], bash.world)
    BY <1>3, <2>1 DEF FramesMatch
  <2>8. DOMAIN controlStack' = 1..m - 1
    BY <2>1, <2>2
  <2>. HIDE DEF m
  <2>9. ASSUME NEW i \in 1..m - 1
        PROVE  Matches(controlStack'[i], after.blocks[i], nesting'[i], after.world)
    BY <2>1, <2>2, <2>3, <2>6, <2>7
  <2>. QED BY <1>1, <1>3, <2>2, <2>6, <2>8, <2>9 DEF FramesMatch
<1>. QED BY <1>2, <1>3

LEMMA FramesStay ==
  ASSUME NEW bash \in Shells, NEW after \in Shells, FramesMatch(bash),
         UNCHANGED <<nesting, controlStack, function, origin>>,
         after.world = bash.world, after.file = bash.file, after.blocks = bash.blocks
  PROVE  FramesMatch(after)'
BY DEF FramesMatch, Follows

LEMMA FramesReset ==
  ASSUME StackTypes, NEW bash \in Shells, NEW after \in Shells, FramesMatch(bash), nesting = <<>>,
         controlStack' = <<>>, after.blocks = bash.blocks
  PROVE  FramesMatch(after)'
<1>1. bash.blocks \in Seq(Blocks)
  BY DEF Shells
<1>2. bash.blocks = <<>>
  BY <1>1 DEF FramesMatch, StackTypes
<1>. QED BY <1>2 DEF FramesMatch

-----------------------------------------------------------------------------
(* The shape of what is open                                               *)

\* A frame of a loop over an array, and no other, has values, and says nothing of when it runs.
Looped(frame, kind) ==
  /\ kind = "loop" <=> frame.loopValues # <<>>
  /\ kind = "loop" => frame.expression = NoExpression
NestInv ==
  /\ Len(nesting) <= dialect.depth
  /\ ~Has("ifUse") => conditions = <<>>
  /\ \A i \in DOMAIN nesting : Looped(controlStack[i], nesting[i])
  /\ \A i \in DOMAIN nesting : nesting[i] = "loop" => Has("loop")
  /\ staticArrays = <<NoArray>> => Has("emptyArray")
  /\ staticArrays # <<>> => Has("array") \/ Has("emptyArray")

LEMMA NestPush ==
  ASSUME TypeInv, NestInv, NEW kind \in Kinds, NEW frame \in Frames, Looped(frame, kind), kind = "loop" => Has("loop"),
         Len(nesting) < dialect.depth, nesting' = Append(nesting, kind), controlStack' = Append(controlStack, frame),
         conditions' = conditions \/ Has("ifUse"), UNCHANGED <<dialect, staticArrays>>
  PROVE  NestInv'
<1>1. StackTypes /\ dialect.depth \in Nat
  BY ConstantFacts DEF TypeInv, ScannerInv, ProgramInv, StackTypes
<1>2. /\ nesting' \in Seq(Kinds) /\ Len(nesting') = Len(nesting) + 1 /\ nesting'[Len(nesting) + 1] = kind
      /\ \A i \in DOMAIN nesting : nesting'[i] = nesting[i]
  BY <1>1, PushFacts DEF StackTypes
<1>3. /\ controlStack'[Len(controlStack) + 1] = frame
      /\ \A i \in DOMAIN controlStack : controlStack'[i] = controlStack[i]
  BY <1>1, PushFacts DEF StackTypes
<1>4. Len(nesting) \in Nat /\ DOMAIN nesting = 1..Len(nesting) /\ DOMAIN controlStack = 1..Len(nesting)
      /\ DOMAIN nesting' = 1..Len(nesting) + 1 /\ Len(controlStack) = Len(nesting)
  BY <1>1, <1>2 DEF StackTypes
<1>5. ASSUME NEW i \in DOMAIN nesting'
      PROVE  Looped(controlStack'[i], nesting'[i]) /\ (nesting'[i] = "loop" => Has("loop"))
  <2>1. CASE i = Len(nesting) + 1
    BY <2>1, <1>2, <1>3, <1>4
  <2>2. CASE i \in DOMAIN nesting
    BY <2>2, <1>2, <1>3, <1>4 DEF NestInv
  <2>. QED BY <1>4, <2>1, <2>2
<1>6. Len(nesting') <= dialect.depth
  BY <1>1, <1>2, <1>4
<1>. QED BY <1>5, <1>6 DEF NestInv, Has

LEMMA NestPop ==
  ASSUME TypeInv, NestInv, nesting # <<>>, nesting' = Front(nesting), controlStack' = Front(controlStack),
         conditions' = conditions \/ Has("ifUse"), UNCHANGED <<dialect, staticArrays>>
  PROVE  NestInv'
<1>1. StackTypes /\ dialect.depth \in Nat
  BY ConstantFacts DEF TypeInv, ScannerInv, ProgramInv, StackTypes
<1>2. Len(nesting) \in Nat /\ controlStack # <<>> /\ Len(controlStack) = Len(nesting)
  BY <1>1 DEF StackTypes
<1>3. /\ nesting' \in Seq(Kinds) /\ Len(nesting') = Len(nesting) - 1
      /\ \A i \in 1..Len(nesting) - 1 : nesting'[i] = nesting[i]
  BY <1>1, PopFacts DEF StackTypes
<1>4. \A i \in 1..Len(controlStack) - 1 : controlStack'[i] = controlStack[i]
  BY <1>1, <1>2, PopFacts DEF StackTypes
<1>5. DOMAIN nesting' = 1..Len(nesting) - 1 /\ DOMAIN nesting = 1..Len(nesting)
  BY <1>1, <1>3 DEF StackTypes
<1>6. \A i \in DOMAIN nesting' : Looped(controlStack'[i], nesting'[i]) /\ (nesting'[i] = "loop" => Has("loop"))
  BY <1>2, <1>3, <1>4, <1>5 DEF NestInv
<1>7. Len(nesting') <= dialect.depth
  BY <1>1, <1>2, <1>3 DEF NestInv
<1>. QED BY <1>6, <1>7 DEF NestInv, Has

LEMMA NestReplace ==
  ASSUME TypeInv, NestInv, nesting # <<>>, Last(nesting) \in IfKinds, StackTypes', Len(nesting') = Len(nesting),
         \A i \in DOMAIN nesting : i # Len(nesting) => nesting'[i] = nesting[i] /\ controlStack'[i] = controlStack[i],
         nesting'[Len(nesting)] \in IfKinds,
         controlStack'[Len(nesting)].loopValues = controlStack[Len(nesting)].loopValues,
         conditions' = conditions \/ Has("ifUse"), UNCHANGED <<dialect, staticArrays>>
  PROVE  NestInv'
<1>1. StackTypes
  BY DEF TypeInv, ScannerInv, StackTypes
<1>2. /\ Len(nesting) \in Nat /\ DOMAIN nesting = 1..Len(nesting) /\ Len(nesting) \in DOMAIN nesting
      /\ Last(nesting) = nesting[Len(nesting)]
  BY <1>1, PopFacts DEF StackTypes
<1>3. DOMAIN nesting' = DOMAIN nesting
  <2>1. nesting' \in Seq(Kinds)
    BY DEF StackTypes
  <2>2. DOMAIN nesting' = 1..Len(nesting')
    BY <2>1
  <2>. QED BY <2>2, <1>2
<1>4. "loop" \notin IfKinds
  BY DEF IfKinds
<1>5. ASSUME NEW i \in DOMAIN nesting'
      PROVE  Looped(controlStack'[i], nesting'[i]) /\ (nesting'[i] = "loop" => Has("loop"))
  <2>1. CASE i = Len(nesting)
    BY <2>1, <1>2, <1>4 DEF NestInv, Looped
  <2>2. CASE i # Len(nesting)
    BY <2>2, <1>3 DEF NestInv
  <2>. QED BY <2>1, <2>2
<1>6. Len(nesting') <= dialect.depth
  BY DEF NestInv
<1>. QED BY <1>5, <1>6 DEF NestInv, Has

\* ScanElse and ScanElif replace the top of the stack, and keep what is below.
ReplacesTop(frame) ==
  /\ nesting # <<>> /\ Last(nesting) = "if" /\ StackTypes' /\ Len(controlStack') = Len(controlStack)
  /\ \A i \in DOMAIN nesting : i # Len(nesting) => nesting'[i] = nesting[i] /\ controlStack'[i] = controlStack[i]
  /\ controlStack'[Len(controlStack)] = frame

LEMMA ElseReplaces ==
  ASSUME TypeInv, ScanElse
  PROVE  /\ ReplacesTop(IF Last(controlStack).supported THEN FrameElse(Last(controlStack)) ELSE Last(controlStack))
         /\ nesting'[Len(controlStack)] = "else" /\ Last(controlStack) \in Frames
<1>1. StackTypes
  BY DEF TypeInv, ScannerInv, StackTypes
<1>2. nesting # <<>> /\ Last(nesting) = "if" /\ controlStack # <<>> /\ nesting' = ReplaceTop(nesting, "else")
  BY <1>1 DEF ScanElse, Inside, StackTypes
<1>3. "else" \in Kinds
  BY DEF Kinds
<1>4. StackTypes'
  BY ClosingTypes DEF TypeInv, ScannerInv, StackTypes
<1>5. Last(controlStack) \in Frames /\ Last(controlStack) = controlStack[Len(controlStack)]
  BY <1>1, <1>2, PopFacts DEF StackTypes
<1>6. FrameElse(Last(controlStack)) \in Frames
  BY <1>5, FrameTypes
<1>7. /\ \A i \in DOMAIN nesting : i # Len(nesting) => ReplaceTop(nesting, "else")[i] = nesting[i]
      /\ ReplaceTop(nesting, "else")[Len(nesting)] = "else"
  <2>1. nesting \in Seq(Kinds) /\ nesting # <<>>
    BY <1>1, <1>2 DEF StackTypes
  <2>. QED BY <2>1, <1>3, ReplaceFacts
<1>8. ASSUME NEW frame \in Frames
      PROVE  LET changed == ReplaceTop(controlStack, frame)
             IN /\ Len(changed) = Len(controlStack) /\ changed[Len(controlStack)] = frame
                /\ \A i \in DOMAIN controlStack : i # Len(controlStack) => changed[i] = controlStack[i]
  <2>1. controlStack \in Seq(Frames)
    BY <1>1 DEF StackTypes
  <2>. QED BY <2>1, <1>2, ReplaceFacts
<1>9. DOMAIN nesting = DOMAIN controlStack /\ Len(nesting) = Len(controlStack)
  BY <1>1 DEF StackTypes
<1>10. CASE Last(controlStack).supported
  <2>1. controlStack' = ReplaceTop(controlStack, FrameElse(Last(controlStack)))
    BY <1>2, <1>10 DEF ScanElse
  <2>. QED BY <2>1, <1>2, <1>4, <1>5, <1>6, <1>7, <1>8, <1>9, <1>10 DEF ReplacesTop
<1>11. CASE ~Last(controlStack).supported
  <2>1. controlStack' = controlStack
    BY <1>2, <1>11 DEF ScanElse
  <2>. QED BY <2>1, <1>2, <1>4, <1>5, <1>7, <1>9, <1>11 DEF ReplacesTop
<1>. QED BY <1>10, <1>11

LEMMA ElifReplaces ==
  ASSUME TypeInv, NEW test \in Tests, ScanElif(test)
  PROVE  ReplacesTop(FrameElif(Last(controlStack), test)) /\ nesting' = nesting /\ Last(controlStack) \in Frames
<1>1. StackTypes
  BY DEF TypeInv, ScannerInv, StackTypes
<1>2. nesting # <<>> /\ Last(nesting) = "if" /\ controlStack # <<>> /\ nesting' = nesting
  BY <1>1 DEF ScanElif, Inside, StackTypes
<1>3. controlStack' = ReplaceTop(controlStack, FrameElif(Last(controlStack), test))
  BY <1>2 DEF ScanElif
<1>4. StackTypes'
  BY ClosingTypes DEF TypeInv, ScannerInv, StackTypes
<1>5. Last(controlStack) \in Frames /\ controlStack \in Seq(Frames)
  BY <1>1, <1>2, PopFacts DEF StackTypes
<1>6. FrameElif(Last(controlStack), test) \in Frames
  BY <1>5, FrameTypes, ConstantFacts
<1>7. ASSUME NEW frame \in Frames
      PROVE  LET changed == ReplaceTop(controlStack, frame)
             IN /\ Len(changed) = Len(controlStack) /\ changed[Len(controlStack)] = frame
                /\ \A i \in DOMAIN controlStack : i # Len(controlStack) => changed[i] = controlStack[i]
  BY <1>2, <1>5, ReplaceFacts
<1>8. DOMAIN nesting = DOMAIN controlStack /\ Len(nesting) = Len(controlStack)
  BY <1>1 DEF StackTypes
<1>. QED BY <1>2, <1>3, <1>4, <1>5, <1>6, <1>7, <1>8 DEF ReplacesTop

LEMMA ClosesTop ==
  ASSUME TypeInv, ScanFi \/ ScanDone
  PROVE  nesting # <<>> /\ controlStack # <<>> /\ nesting' = Front(nesting) /\ controlStack' = Front(controlStack)
BY DEF TypeInv, ScannerInv, ScanFi, ScanDone, Inside

(***************************************************************************)
(* The shape is inductive.                                                 *)
(***************************************************************************)
LEMMA NestInit == Init => NestInv
<1>. SUFFICES ASSUME Init PROVE NestInv
  OBVIOUS
<1>1. nesting = <<>> /\ Len(nesting) = 0 /\ dialect.depth \in Nat
  BY ConstantFacts DEF Init
<1>. QED BY <1>1 DEF Init, NestInv

LEMMA NestStep == TypeInv /\ NestInv /\ [Next]_vars => NestInv'
<1>. SUFFICES ASSUME TypeInv, NestInv, [Next]_vars PROVE NestInv'
  OBVIOUS
<1>0. "if" \in Kinds /\ "block" \in Kinds /\ "loop" \in Kinds /\ "if" \in IfKinds /\ "else" \in IfKinds
  BY DEF Kinds, IfKinds
<1>1. ASSUME UNCHANGED <<dialect, nesting, conditions, controlStack>>,
             staticArrays' = <<NoArray>> => staticArrays = <<NoArray>> \/ Has("emptyArray"),
             staticArrays' # <<>> => staticArrays # <<>> \/ Has("array") \/ Has("emptyArray")
      PROVE  NestInv'
  BY <1>1 DEF NestInv, Has
<1>2. ASSUME dialect' = dialect, nesting = <<>>, nesting' = <<>>, conditions' = <<>>, controlStack' = <<>>,
             staticArrays' = staticArrays \/ staticArrays' = <<>>
      PROVE  NestInv'
  <2>1. /\ staticArrays' = <<NoArray>> => Has("emptyArray")
        /\ staticArrays' # <<>> => Has("array") \/ Has("emptyArray")
    BY <1>2 DEF NestInv
  <2>. QED BY <1>2, <2>1 DEF NestInv, Has
<1>3. \A supported, node : Frame(supported, node).loopValues = <<>>
  BY DEF Frame
<1>4. ASSUME NEW name \in Functions, ScanFunction(name) \/ ScanCall(name) PROVE NestInv'
  BY <1>1, <1>2, <1>4 DEF ScanFunction, ScanCall, Writes, scanVars
<1>5. CASE ScanBrace
  BY <1>2, <1>5 DEF ScanBrace, Writes
<1>6. ASSUME NEW condition \in UseTests, ScanIfUse(condition) PROVE NestInv'
  <2>1. Frame(TRUE, use(condition).node) \in Frames
    BY ConstantFacts, TestTypes, FrameTypes DEF WrittenTests
  <2>. HIDE DEF Kinds
  <2>. QED BY <1>0, <1>3, <1>6, <2>1, NestPush DEF ScanIfUse, Opens, Writes, Looped
<1>7. ASSUME NEW test \in Tests, ScanIf(test) PROVE NestInv'
  <2>1. Frame(test.parses, test.node) \in Frames
    BY ConstantFacts, FrameTypes DEF WrittenTests
  <2>. QED BY <1>0, <1>3, <1>7, <2>1, NestPush DEF ScanIf, Opens, Writes, Looped
<1>8. ASSUME NEW atom \in Opaque, ScanBlock(atom) PROVE NestInv'
  <2>1. NoFrame \in Frames /\ NoFrame.loopValues = <<>>
    BY <1>3, FrameTypes DEF NoFrame
  <2>. QED BY <1>0, <1>8, <2>1, NestPush DEF ScanBlock, Opens, Writes, Looped
<1>9. ASSUME NEW ofKeys \in BOOLEAN, ScanLoop(ofKeys) PROVE NestInv'
  <2>1. \E known \in BOOLEAN, values \in SUBSET Nat : controlStack' = Append(controlStack, LoopFrame(known, values))
    <3>1. CASE staticArrays = <<>>
      BY <1>9, <3>1 DEF ScanLoop
    <3>2. CASE staticArrays # <<>>
      <4>1. PICK array \in AnyArrays : staticArrays = <<array>>
        BY <3>2, ConstantFacts DEF TypeInv, ScannerInv
      <4>2. staticArrays[1] = array /\ array.keys \in SUBSET Nat /\ array.values \in SUBSET Nat
        BY <4>1 DEF AnyArrays
      <4>. QED BY <1>9, <3>2, <4>2 DEF ScanLoop
    <3>. QED BY <3>1, <3>2
  <2>2. PICK known \in BOOLEAN, values \in SUBSET Nat : controlStack' = Append(controlStack, LoopFrame(known, values))
    BY <2>1
  <2>3. LoopFrame(known, values) \in Frames /\ Looped(LoopFrame(known, values), "loop")
    BY FrameTypes DEF LoopFrame, Frame, Looped
  <2>. QED BY <1>0, <1>9, <2>2, <2>3, NestPush DEF ScanLoop, Opens, Writes
<1>10. ASSUME NEW frame, ReplacesTop(frame), frame.loopValues = Last(controlStack).loopValues,
              nesting'[Len(nesting)] \in IfKinds, conditions' = conditions \/ conditions # <<>>,
              UNCHANGED <<dialect, staticArrays>>
       PROVE  NestInv'
  <2>1. Last(controlStack) = controlStack[Len(nesting)] /\ Len(controlStack) = Len(nesting) /\ StackTypes
    <3>1. StackTypes /\ nesting # <<>>
      BY <1>10 DEF TypeInv, ScannerInv, StackTypes, ReplacesTop
    <3>2. controlStack # <<>>
      BY <3>1 DEF StackTypes
    <3>3. Last(controlStack) = controlStack[Len(controlStack)]
      BY <3>1, <3>2, PopFacts DEF StackTypes
    <3>. QED BY <3>1, <3>3 DEF StackTypes
  <2>2. controlStack'[Len(nesting)].loopValues = controlStack[Len(nesting)].loopValues
    BY <1>10, <2>1 DEF ReplacesTop
  <2>3. Len(nesting') = Len(nesting)
    BY <1>10, <2>1 DEF ReplacesTop, StackTypes
  <2>4. conditions' = conditions \/ Has("ifUse")
    BY <1>10 DEF NestInv
  <2>. QED BY <1>0, <1>10, <2>2, <2>3, <2>4, NestReplace DEF ReplacesTop
<1>11. CASE ScanElse
  <2>1. UNCHANGED <<dialect, staticArrays>> /\ (conditions' = conditions \/ conditions # <<>>)
    BY <1>11 DEF ScanElse, Writes, Guarded
  <2>2. FrameElse(Last(controlStack)).loopValues = Last(controlStack).loopValues
    BY <1>11, ElseReplaces DEF FrameElse, Frames
  <2>3. Len(nesting) = Len(controlStack)
    BY DEF TypeInv, ScannerInv
  <2>. QED BY <1>0, <1>10, <1>11, <2>1, <2>2, <2>3, ElseReplaces
<1>12. ASSUME NEW test \in Tests, ScanElif(test) PROVE NestInv'
  <2>1. UNCHANGED <<dialect, staticArrays>> /\ (conditions' = conditions \/ conditions # <<>>)
    BY <1>12 DEF ScanElif, Writes, Guarded
  <2>2. FrameElif(Last(controlStack), test).loopValues = Last(controlStack).loopValues
    BY <1>12, ElifReplaces DEF FrameElif, Frames
  <2>3. nesting'[Len(nesting)] = "if"
    <3>1. nesting' = nesting /\ nesting # <<>> /\ Last(nesting) = "if" /\ nesting \in Seq(Kinds)
      BY <1>12, ElifReplaces DEF ReplacesTop, TypeInv, ScannerInv
    <3>. QED BY <3>1, PopFacts
  <2>. QED BY <1>0, <1>10, <1>12, <2>1, <2>2, <2>3, ElifReplaces
<1>13. CASE ScanFi \/ ScanDone
  <2>1. UNCHANGED <<dialect, staticArrays>> /\ (conditions' = conditions \/ conditions # <<>>)
    BY <1>13 DEF ScanFi, ScanDone, Writes, Guarded
  <2>2. conditions' = conditions \/ Has("ifUse")
    BY <2>1 DEF NestInv
  <2>. QED BY <1>13, <2>1, <2>2, ClosesTop, NestPop
<1>14. ASSUME NEW array \in Arrays \cup {NoArray, RuntimeArray}, ScanArray(array),
              array = NoArray => Has("emptyArray"), array \in Arrays => Has("array")
       PROVE  NestInv'
  BY <1>1, <1>14 DEF ScanArray, Writes
<1>15. CASE ScanLocal
  BY <1>1, <1>15 DEF ScanLocal, Writes
<1>16. ASSUME NEW guard \in Guards, ScanCheck(guard) PROVE NestInv'
  BY <1>1, <1>16 DEF ScanCheck, Writes, scanVars
<1>17. CASE ScanAssign
  <2>1. PICK guard \in Guards, severity \in Severities, operator \in {"=", "+="},
             value \in {"static", "each", "self", "dynamic", "unmatched"} :
               ScanAssignment(value, operator, severity, guard)
    BY <1>17, AssignmentFacts
  <2>2. UNCHANGED <<dialect, nesting, conditions, controlStack, staticArrays>>
    BY <2>1 DEF ScanAssignment, Writes
  <2>. QED BY <1>1, <2>2
<1>18. CASE ScanEclass
  BY <1>2, <1>18 DEF ScanEclass, EndOfFile
<1>19. CASE InheritMissing \/ UNCHANGED vars
  BY <1>1, <1>19 DEF InheritMissing, scanVars, vars
<1>20. ASSUME NEW inherits \in BOOLEAN, Read(inherits) PROVE NestInv'
  BY <1>1, <1>20 DEF Read, scanVars
<1>. QED BY NextCases, <1>4, <1>5, <1>6, <1>7, <1>8, <1>9, <1>11, <1>12, <1>13, <1>14, <1>15, <1>16, <1>17, <1>18, <1>19, <1>20

(***************************************************************************)
(* What else and elif say fits, when what was said before does.            *)
(***************************************************************************)
LEMMA ElseMatches ==
  ASSUME NEW world \in Worlds, NEW frame \in Frames, NEW top \in Blocks, Matches(frame, top, "if", world),
         NEW block \in Blocks, block.now <=> ~top.tried
  PROVE  Matches(IF frame.supported THEN FrameElse(frame) ELSE frame, block, "else", world)
<1>1. CASE ~frame.supported
  BY <1>1 DEF Matches
<1>2. CASE frame.supported
  <2>1. frame.prior \in Nodes /\ top.tried \in BOOLEAN /\ Fits(frame.prior, world, top.tried)
    BY <1>2 DEF Frames, Blocks, Matches
  <2>2. Fits(conditionNot(frame.prior), world, ~top.tried)
    BY <2>1, FitsNot
  <2>3. FrameElse(frame).expression = conditionNot(frame.prior)
    BY DEF FrameElse, Frames
  <2>4. Fits(FrameElse(frame).expression, world, block.now)
    BY <2>2, <2>3 DEF Fits
  <2>. QED BY <1>2, <2>4 DEF Matches
<1>. QED BY <1>1, <1>2

LEMMA ElifMatches ==
  ASSUME NEW world \in Worlds, NEW frame \in Frames, NEW top \in Blocks, Matches(frame, top, "if", world),
         NEW test \in Tests, NEW block \in Blocks,
         block.now <=> world \in test.holds /\ ~top.tried, block.tried <=> world \in test.holds \/ top.tried
  PROVE  Matches(FrameElif(frame, test), block, "if", world)
<1>1. /\ FrameElif(frame, test).supported <=> frame.supported /\ test.parses
      /\ FrameElif(frame, test).expression = conditionAnd(conditionNot(frame.prior), test.node)
      /\ FrameElif(frame, test).prior = conditionOr(frame.prior, test.node)
  BY DEF FrameElif, Frames
<1>2. SUFFICES ASSUME frame.supported, test.parses
               PROVE  /\ Fits(FrameElif(frame, test).expression, world, block.now)
                      /\ Fits(FrameElif(frame, test).prior, world, block.tried)
  BY <1>1 DEF Matches
<1>3. PICK holds \in BOOLEAN : holds <=> world \in test.holds
  OBVIOUS
<1>4. /\ frame.prior \in Nodes /\ top.tried \in BOOLEAN /\ Fits(frame.prior, world, top.tried)
      /\ test.node \in Nodes /\ conditionNot(frame.prior) \in Nodes
  BY <1>2, ConstantFacts, NodeTypes DEF Frames, Blocks, Matches, WrittenTests
<1>5. Fits(test.node, world, holds)
  BY <1>2, <1>3, ConstantFacts DEF Answers, Fits
<1>6. PICK untried \in BOOLEAN : untried <=> ~top.tried
  OBVIOUS
<1>7. Fits(conditionNot(frame.prior), world, ~top.tried)
  BY <1>4, FitsNot
<1>8. Fits(conditionNot(frame.prior), world, untried)
  BY <1>6, <1>7 DEF Fits
<1>9. Fits(conditionAnd(conditionNot(frame.prior), test.node), world, untried /\ holds)
  BY <1>4, <1>5, <1>8, FitsAndOr
<1>10. Fits(conditionOr(frame.prior, test.node), world, top.tried \/ holds)
  BY <1>4, <1>5, FitsAndOr
<1>11. (block.now <=> untried /\ holds) /\ (block.tried <=> top.tried \/ holds)
  BY <1>3, <1>6
<1>. QED BY <1>1, <1>9, <1>10, <1>11 DEF Fits

LEMMA FramesInit == Init => FramesInv
<1>. SUFFICES ASSUME Init, NEW start \in Starts, NEW bash \in Shells, bash = Sourcing(start)
              PROVE  FramesMatch(bash)
  BY DEF FramesInv
<1>1. bash.blocks = <<>>
  BY Turns!FoldEmpty DEF Init, Sourcing, Starts
<1>2. controlStack = <<>> /\ Len(controlStack) = 0
  BY DEF Init
<1>. QED BY <1>1, <1>2 DEF FramesMatch

(***************************************************************************)
(* Frames go on to match blocks.                                           *)
(***************************************************************************)
LEMMA FramesStep == TypeInv /\ NestInv /\ FramesInv /\ [Next]_vars => FramesInv'
<1>. SUFFICES ASSUME TypeInv, NestInv, FramesInv, [Next]_vars,
                     NEW start \in Starts, NEW after \in Shells, after = Sourcing(start)'
              PROVE  FramesMatch(after)'
  BY DEF FramesInv
<1>0. StackTypes /\ program \in Seq(Lines)
  BY DEF TypeInv, ScannerInv, ProgramInv, StackTypes
<1>a. /\ "if" \in Kinds /\ "block" \in Kinds /\ "loop" \in Kinds
      /\ LineForms = {"function", "close", "if", "elif", "else", "fi", "for", "array", "local", "call", "check", "assign"}
      /\ WhatOf("if") = WrittenTests /\ WhatOf("elif") = WrittenTests /\ WhatOf("for") = BOOLEAN
      /\ WhatOf("function") = Functions /\ WhatOf("array") = AnyArrays /\ WhatOf("check") = Guardings
      /\ None \in WhatOf("close") /\ None \in WhatOf("else") /\ None \in WhatOf("fi")
      /\ None \in WhatOf("local") /\ None \in WhatOf("call")
  BY DEF Kinds, LineForms, WhatOf
<1>b. \A bash \in Shells : bash = Sourcing(start) => FramesMatch(bash)
  BY DEF FramesInv
\* a test
<1>1. ASSUME NEW test \in WrittenTests, Writes(Line("if", test)), NEW kind \in {"if", "block"}, NEW frame \in Frames,
             nesting' = Append(nesting, kind), controlStack' = Append(controlStack, frame), function' = function,
             frame.supported => /\ frame.expression = test.node /\ frame.prior = test.node
                                /\ Answers(test.node, test.holds)
      PROVE  FramesMatch(after)'
  <2>1. PICK bash \in Shells, line \in Lines :
          /\ bash = Sourcing(start) /\ line.form = "if" /\ line.what = test
          /\ after.world = bash.world /\ after.file = bash.file
          /\ Follows(bash) => after = Obey(bash, line)
          /\ ~Follows(bash) => after = bash
    BY <1>1, <1>a, TurnOfLine
  <2>2. FramesMatch(bash) /\ bash.world \in Worlds /\ EachOf(bash.blocks) \in SUBSET Nat
    BY <2>1, <1>b, ShellParts DEF Shells
  <2>3. PICK holds \in BOOLEAN : holds <=> bash.world \in test.holds
    OBVIOUS
  <2>. DEFINE block == [now |-> holds, tried |-> holds, each |-> EachOf(bash.blocks)]
  <2>4. block \in Blocks
    BY <2>2 DEF Blocks
  <2>5. ASSUME Follows(bash) PROVE after.blocks = Append(bash.blocks, block)
    <3>1. line.form = "if" /\ line.what = test
      BY <2>1
    <3>2. Obey(bash, line).blocks = Append(bash.blocks, [now |-> bash.world \in test.holds, tried |-> bash.world \in test.holds,
                                                        each |-> EachOf(bash.blocks)])
      BY <3>1, ObeyBlocks
    <3>. QED BY <2>1, <2>3, <2>5, <3>2
  <2>6. Matches(frame, block, kind, bash.world)
    <3>1. frame.supported => Fits(test.node, bash.world, block.now) /\ Fits(test.node, bash.world, block.tried)
      BY <1>1, <2>2, <2>3 DEF Answers, Fits
    <3>. QED BY <1>1, <3>1 DEF Matches
  <2>7. origin' = origin
    BY <1>1 DEF Writes
  <2>. HIDE DEF block
  <2>. QED BY <1>0, <1>1, <1>a, <2>1, <2>2, <2>4, <2>5, <2>6, <2>7, FramesPush
<1>2. ASSUME NEW condition \in UseTests, ScanIfUse(condition) PROVE FramesMatch(after)'
  <2>. DEFINE test == use(condition)
              frame == Frame(TRUE, test.node)
  <2>1. condition \in UseConditions /\ test \in WrittenTests /\ Answers(test.node, test.holds)
    BY ConstantFacts, TestTypes, GrammarAnswers
  <2>2. test.node \in Nodes
    BY <2>1 DEF WrittenTests
  <2>3. frame \in Frames /\ frame.expression = test.node /\ frame.prior = test.node
    BY <2>2, FrameTypes DEF Frame
  <2>4. Writes(Line("if", test)) /\ nesting' = Append(nesting, "if") /\ controlStack' = Append(controlStack, frame)
        /\ function' = function
    BY <1>2 DEF ScanIfUse, Opens
  <2>. HIDE DEF test, frame
  <2>. QED BY <1>1, <2>1, <2>3, <2>4
<1>3. ASSUME NEW test \in Tests, ScanIf(test) PROVE FramesMatch(after)'
  <2>. DEFINE frame == Frame(test.parses, test.node)
  <2>1. test \in WrittenTests /\ test.parses \in BOOLEAN /\ test.node \in Nodes
        /\ (test.parses => Answers(test.node, test.holds))
    BY ConstantFacts DEF WrittenTests
  <2>3. frame \in Frames /\ frame.expression = test.node /\ frame.prior = test.node /\ frame.supported = test.parses
    BY <2>1, FrameTypes DEF Frame
  <2>4. Writes(Line("if", test)) /\ nesting' = Append(nesting, "if") /\ controlStack' = Append(controlStack, frame)
        /\ function' = function
    BY <1>3 DEF ScanIf, Opens
  <2>. HIDE DEF frame
  <2>. QED BY <1>1, <2>1, <2>3, <2>4
<1>4. ASSUME NEW atom \in Opaque, ScanBlock(atom) PROVE FramesMatch(after)'
  <2>1. opaque(atom) \in WrittenTests /\ NoFrame \in Frames /\ ~NoFrame.supported
    BY TestTypes, FrameTypes DEF NoFrame, Frame
  <2>2. /\ Writes(Line("if", opaque(atom))) /\ nesting' = Append(nesting, "block")
        /\ controlStack' = Append(controlStack, NoFrame) /\ function' = function
    BY <1>4 DEF ScanBlock, Opens
  <2>. QED BY <1>1, <2>1, <2>2
\* a loop
<1>5. ASSUME NEW ofKeys \in BOOLEAN, ScanLoop(ofKeys) PROVE FramesMatch(after)'
  <2>1. PICK bash \in Shells, line \in Lines :
          /\ bash = Sourcing(start) /\ line.form = "for" /\ line.what = ofKeys
          /\ after.world = bash.world /\ after.file = bash.file
          /\ Follows(bash) => after = Obey(bash, line)
          /\ ~Follows(bash) => after = bash
    BY <1>5, <1>a, TurnOfLine DEF ScanLoop
  <2>2. FramesMatch(bash) /\ Elements(bash.array, ofKeys) \in SUBSET Nat
    BY <2>1, <1>b, ShellParts
  <2>. DEFINE block == [now |-> Elements(bash.array, ofKeys) # {}, tried |-> TRUE, each |-> Elements(bash.array, ofKeys)]
  <2>3. block \in Blocks
    BY <2>2 DEF Blocks
  <2>4. ASSUME Follows(bash) PROVE after.blocks = Append(bash.blocks, block)
    <3>1. line.form = "for" /\ line.what = ofKeys
      BY <2>1
    <3>2. Obey(bash, line).blocks = Append(bash.blocks, block)
      BY <3>1, ObeyBlocks
    <3>. QED BY <2>1, <2>4, <3>2
  <2>5. PICK frame \in Frames : controlStack' = Append(controlStack, frame)
    <3>1. controlStack' \in Seq(Frames) /\ controlStack' # <<>> /\ Last(controlStack') \in Frames
      <4>1. TypeInv'
        BY <1>5, OpeningTypes
      <4>2. controlStack' \in Seq(Frames) /\ Len(controlStack') = Len(nesting')
        BY <4>1 DEF TypeInv, ScannerInv
      <4>3. Len(nesting') = Len(nesting) + 1 /\ Len(nesting) \in Nat
        BY <1>0, <1>a, <1>5, PushFacts DEF ScanLoop, Opens, StackTypes
      <4>4. controlStack' # <<>>
        BY <4>2, <4>3
      <4>. QED BY <4>2, <4>4, PopFacts
    <3>2. ASSUME NEW x, controlStack' = Append(controlStack, x) PROVE x \in Frames
      <4>1. Last(controlStack') = x
        BY <1>0, <3>2 DEF Last, StackTypes
      <4>. QED BY <3>1, <4>1
    <3>. QED BY <1>5, <3>2 DEF ScanLoop
  <2>6. Matches(frame, block, "loop", bash.world)
    BY DEF Matches
  <2>7. UNCHANGED <<origin, function>> /\ nesting' = Append(nesting, "loop")
    BY <1>5 DEF ScanLoop, Opens, Writes
  <2>. HIDE DEF block
  <2>. QED BY <1>0, <1>a, <2>1, <2>2, <2>3, <2>4, <2>5, <2>6, <2>7, FramesPush
\* the top of the stack, and of the blocks when bash is there
<1>6. ASSUME NEW bash \in Shells, FramesMatch(bash), nesting # <<>>, Last(nesting) = "if"
      PROVE  /\ Len(controlStack) \in DOMAIN nesting /\ Last(controlStack) = controlStack[Len(controlStack)]
             /\ Last(controlStack) \in Frames
             /\ Follows(bash) => /\ Last(bash.blocks) \in Blocks
                                 /\ Matches(Last(controlStack), Last(bash.blocks), "if", bash.world)
  <2>1. /\ Len(controlStack) \in DOMAIN nesting /\ Len(controlStack) = Len(nesting) /\ controlStack # <<>>
        /\ controlStack \in Seq(Frames) /\ Last(nesting) = nesting[Len(nesting)]
    BY <1>0, <1>6, PopFacts DEF StackTypes
  <2>2. Last(controlStack) = controlStack[Len(controlStack)] /\ Last(controlStack) \in Frames
        /\ Len(controlStack) \in DOMAIN controlStack
    BY <2>1, PopFacts
  <2>3. ASSUME Follows(bash)
        PROVE  Last(bash.blocks) \in Blocks /\ Matches(Last(controlStack), Last(bash.blocks), "if", bash.world)
    <3>1. bash.blocks \in Seq(Blocks) /\ Len(bash.blocks) = Len(controlStack)
      BY <1>6, <2>3 DEF Shells, FramesMatch
    <3>2. bash.blocks # <<>>
      BY <2>1, <3>1
    <3>3. Last(bash.blocks) = bash.blocks[Len(bash.blocks)] /\ Last(bash.blocks) \in Blocks
      BY <3>1, <3>2, PopFacts
    <3>. QED BY <1>6, <2>1, <2>2, <2>3, <3>1, <3>3 DEF FramesMatch
  <2>. QED BY <2>1, <2>2, <2>3
<1>7. CASE ScanElse
  <2>1. PICK bash \in Shells, line \in Lines :
          /\ bash = Sourcing(start) /\ line.form = "else"
          /\ after.world = bash.world /\ after.file = bash.file
          /\ Follows(bash) => after = Obey(bash, line)
          /\ ~Follows(bash) => after = bash
    BY <1>7, <1>a, TurnOfLine DEF ScanElse
  <2>2. FramesMatch(bash) /\ bash.world \in Worlds
    BY <2>1, <1>b DEF Shells
  <2>. DEFINE top == Last(bash.blocks)
              last == Last(controlStack)
              frame == IF last.supported THEN FrameElse(last) ELSE last
              m == Len(controlStack)
  <2>3. ReplacesTop(frame) /\ nesting'[m] = "else"
    BY <1>7, ElseReplaces
  <2>4. /\ m \in DOMAIN nesting /\ last \in Frames
        /\ Follows(bash) => top \in Blocks /\ Matches(last, top, "if", bash.world)
    BY <1>6, <2>2, <2>3 DEF ReplacesTop
  <2>5. PICK block \in Blocks : Follows(bash) => (block.now <=> ~top.tried) /\ block = [now |-> ~top.tried, tried |-> TRUE, each |-> top.each]
    <3>1. CASE Follows(bash)
      <4>1. [now |-> ~top.tried, tried |-> TRUE, each |-> top.each] \in Blocks
        BY <2>4, <3>1 DEF Blocks
      <4>. QED BY <4>1
    <3>2. CASE ~Follows(bash)
      <4>1. [now |-> TRUE, tried |-> TRUE, each |-> {}] \in Blocks
        BY DEF Blocks
      <4>. QED BY <3>2, <4>1
    <3>. QED BY <3>1, <3>2
  <2>6. ASSUME Follows(bash) PROVE after.blocks = ReplaceTop(bash.blocks, block)
    <3>1. line.form = "else"
      BY <2>1
    <3>2. Obey(bash, line).blocks = ReplaceTop(bash.blocks, [now |-> ~top.tried, tried |-> TRUE, each |-> top.each])
      BY <3>1, ObeyBlocks
    <3>. QED BY <2>1, <2>5, <2>6, <3>2
  <2>7. Follows(bash) => Matches(frame, block, "else", bash.world)
    BY <2>2, <2>4, <2>5, ElseMatches
  <2>8. UNCHANGED <<function, origin>>
    BY <1>7 DEF ScanElse, Writes
  <2>9. controlStack'[m] = frame
    BY <2>3 DEF ReplacesTop
  <2>. HIDE DEF frame, m, last, top
  <2>10. Follows(bash) => Matches(controlStack'[m], block, nesting'[m], bash.world)
    BY <2>3, <2>7, <2>9
  <2>. QED BY <1>0, <2>1, <2>2, <2>3, <2>6, <2>8, <2>10, FramesReplace DEF ReplacesTop, m
<1>8. ASSUME NEW test \in Tests, ScanElif(test) PROVE FramesMatch(after)'
  <2>0. test \in WrittenTests
    BY ConstantFacts
  <2>1. PICK bash \in Shells, line \in Lines :
          /\ bash = Sourcing(start) /\ line.form = "elif" /\ line.what = test
          /\ after.world = bash.world /\ after.file = bash.file
          /\ Follows(bash) => after = Obey(bash, line)
          /\ ~Follows(bash) => after = bash
    BY <1>8, <1>a, <2>0, TurnOfLine DEF ScanElif
  <2>2. FramesMatch(bash) /\ bash.world \in Worlds
    BY <2>1, <1>b DEF Shells
  <2>. DEFINE top == Last(bash.blocks)
              last == Last(controlStack)
              frame == FrameElif(last, test)
              m == Len(controlStack)
              holds == bash.world \in test.holds
              next == [now |-> holds /\ ~top.tried, tried |-> holds \/ top.tried, each |-> top.each]
  <2>3. ReplacesTop(frame) /\ nesting' = nesting
    BY <1>8, ElifReplaces
  <2>4. /\ m \in DOMAIN nesting /\ last \in Frames
        /\ Follows(bash) => top \in Blocks /\ Matches(last, top, "if", bash.world)
    BY <1>6, <2>2, <2>3 DEF ReplacesTop
  <2>5. PICK block \in Blocks : Follows(bash) => /\ block.now <=> holds /\ ~top.tried
                                                 /\ block.tried <=> holds \/ top.tried
                                                 /\ block = next
    <3>1. CASE Follows(bash)
      <4>1. next \in Blocks /\ (next.now <=> holds /\ ~top.tried) /\ (next.tried <=> holds \/ top.tried)
        BY <2>4, <3>1 DEF Blocks
      <4>. HIDE DEF next
      <4>. QED BY <4>1
    <3>2. CASE ~Follows(bash)
      <4>1. [now |-> TRUE, tried |-> TRUE, each |-> {}] \in Blocks
        BY DEF Blocks
      <4>. QED BY <3>2, <4>1
    <3>. QED BY <3>1, <3>2
  <2>6. ASSUME Follows(bash) PROVE after.blocks = ReplaceTop(bash.blocks, block)
    <3>1. line.form = "elif" /\ line.what = test
      BY <2>1
    <3>2. Obey(bash, line).blocks = ReplaceTop(bash.blocks, next)
      BY <3>1, ObeyBlocks
    <3>. QED BY <2>1, <2>5, <2>6, <3>2
  <2>7. Follows(bash) => Matches(frame, block, "if", bash.world)
    BY <2>2, <2>4, <2>5, ElifMatches
  <2>8. UNCHANGED <<function, origin>>
    BY <1>8 DEF ScanElif, Writes
  <2>9. controlStack'[m] = frame /\ nesting'[m] = "if"
    <3>1. nesting # <<>> /\ nesting \in Seq(Kinds) /\ Last(nesting) = "if" /\ m = Len(nesting)
      BY <1>0, <2>3 DEF ReplacesTop, StackTypes
    <3>2. Last(nesting) = nesting[Len(nesting)]
      BY <3>1, PopFacts
    <3>. QED BY <2>3, <3>1, <3>2 DEF ReplacesTop
  <2>. HIDE DEF frame, m, last, top, holds, next
  <2>10. Follows(bash) => Matches(controlStack'[m], block, nesting'[m], bash.world)
    BY <2>7, <2>9
  <2>. QED BY <1>0, <2>1, <2>2, <2>3, <2>6, <2>8, <2>10, FramesReplace DEF ReplacesTop, m
<1>9. CASE ScanFi \/ ScanDone
  <2>1. PICK bash \in Shells, line \in Lines :
          /\ bash = Sourcing(start) /\ line.form = "fi"
          /\ after.world = bash.world /\ after.file = bash.file
          /\ Follows(bash) => after = Obey(bash, line)
          /\ ~Follows(bash) => after = bash
    BY <1>9, <1>a, TurnOfLine DEF ScanFi, ScanDone
  <2>2. FramesMatch(bash)
    BY <2>1, <1>b
  <2>3. ASSUME Follows(bash) PROVE after.blocks = Front(bash.blocks)
    <3>1. line.form = "fi"
      BY <2>1
    <3>2. Obey(bash, line).blocks = Front(bash.blocks)
      BY <3>1, ObeyBlocks
    <3>. QED BY <2>1, <2>3, <3>2
  <2>4. UNCHANGED <<function, origin>>
    BY <1>9 DEF ScanFi, ScanDone, Writes
  <2>. QED BY <1>0, <1>9, <2>1, <2>2, <2>3, <2>4, ClosesTop, FramesPop
\* lines that leave blocks alone
<1>10. ASSUME NEW form \in LineForms, NEW what \in WhatOf(form), Writes(Line(form, what)),
              form \notin {"if", "for", "elif", "else", "fi"}
       PROVE  \E bash \in Shells : /\ FramesMatch(bash) /\ after.world = bash.world /\ after.file = bash.file
                                   /\ after.blocks = bash.blocks
  <2>1. PICK bash \in Shells, line \in Lines :
          /\ bash = Sourcing(start) /\ line.form = form
          /\ after.world = bash.world /\ after.file = bash.file
          /\ Follows(bash) => after = Obey(bash, line)
          /\ ~Follows(bash) => after = bash
    BY <1>10, TurnOfLine
  <2>2. FramesMatch(bash)
    BY <2>1, <1>b
  <2>3. after.blocks = bash.blocks
    <3>1. line.form \notin {"if", "for", "elif", "else", "fi"}
      BY <1>10, <2>1
    <3>2. Obey(bash, line).blocks = bash.blocks
      BY <3>1, ObeyBlocks
    <3>. QED BY <2>1, <3>2
  <2>. QED BY <2>1, <2>2, <2>3
<1>11. ASSUME NEW form \in LineForms, NEW what \in WhatOf(form), Writes(Line(form, what)),
              form \notin {"if", "for", "elif", "else", "fi"}, UNCHANGED <<nesting, controlStack, function>>
       PROVE  FramesMatch(after)'
  <2>1. origin' = origin
    BY <1>11 DEF Writes
  <2>. QED BY <1>10, <1>11, <2>1, FramesStay
<1>12. ASSUME NEW name \in Functions, ScanFunction(name) PROVE FramesMatch(after)'
  <2>1. Writes(Line("function", name)) /\ nesting = <<>> /\ controlStack' = <<>>
    BY <1>12 DEF ScanFunction
  <2>. QED BY <1>0, <1>a, <1>10, <2>1, FramesReset
<1>13. CASE ScanBrace
  <2>1. Writes(Line("close", None)) /\ nesting = <<>> /\ controlStack' = <<>>
    BY <1>13 DEF ScanBrace
  <2>. QED BY <1>0, <1>a, <1>10, <2>1, FramesReset
<1>14. ASSUME NEW name \in Functions, ScanCall(name) PROVE FramesMatch(after)'
  <2>1. Writes(Line("call", None)) /\ UNCHANGED <<nesting, controlStack, function>>
    BY <1>14 DEF ScanCall, scanVars
  <2>. QED BY <1>a, <1>11, <2>1
<1>15. ASSUME NEW array \in Arrays \cup {NoArray, RuntimeArray}, ScanArray(array) PROVE FramesMatch(after)'
  <2>1. Writes(Line("array", array)) /\ UNCHANGED <<nesting, controlStack, function>> /\ array \in AnyArrays
    BY <1>15, ConstantFacts DEF ScanArray
  <2>. QED BY <1>a, <1>11, <2>1
<1>16. CASE ScanLocal
  <2>1. Writes(Line("local", None)) /\ UNCHANGED <<nesting, controlStack, function>>
    BY <1>16 DEF ScanLocal
  <2>. QED BY <1>a, <1>11, <2>1
<1>17. ASSUME NEW guard \in Guards, ScanCheck(guard) PROVE FramesMatch(after)'
  <2>1. Writes(Line("check", guard)) /\ UNCHANGED <<nesting, controlStack, function>> /\ guard \in Guardings
    BY <1>17 DEF ScanCheck, scanVars, Guards, Guardings
  <2>. QED BY <1>a, <1>11, <2>1
<1>18. CASE ScanAssign
  <2>1. PICK guard \in Guards, severity \in Severities, operator \in {"=", "+="},
             value \in {"static", "each", "self", "dynamic", "unmatched"} :
               ScanAssignment(value, operator, severity, guard)
    BY <1>18, AssignmentFacts
  <2>2. PICK what \in WhatOf("assign") : Writes(Line("assign", what)) /\ UNCHANGED <<nesting, controlStack, function>>
    BY <2>1, AssignmentFound
  <2>. QED BY <1>a, <1>11, <2>2
\* steps that write nothing
<1>19. ASSUME program' = program PROVE \E bash \in Shells : bash = Sourcing(start) /\ after = bash /\ FramesMatch(bash)
  <2>1. after = Sourcing(start)
    BY <1>19 DEF Sourcing
  <2>. QED BY <2>1, <1>b
<1>20. CASE ScanEclass
  <2>1. program' = program /\ nesting = <<>> /\ controlStack' = <<>>
    BY <1>20 DEF ScanEclass, EndOfFile
  <2>. QED BY <1>0, <1>19, <2>1, FramesReset
<1>21. CASE InheritMissing
  <2>1. program' = program /\ nesting = <<>> /\ UNCHANGED scanVars
    BY <1>21 DEF InheritMissing, EndOfFile
  <2>2. controlStack' = <<>>
    BY <1>0, <2>1 DEF scanVars, StackTypes
  <2>. QED BY <1>0, <1>19, <2>1, <2>2, FramesReset
<1>22. ASSUME NEW inherits \in BOOLEAN, Read(inherits) PROVE FramesMatch(after)'
  <2>1. program' = program /\ UNCHANGED <<nesting, controlStack, function, origin>>
    BY <1>22 DEF Read, scanVars
  <2>. QED BY <1>19, <2>1, FramesStay
<1>23. CASE UNCHANGED vars
  <2>1. program' = program /\ UNCHANGED <<nesting, controlStack, function, origin>>
    BY <1>23 DEF vars, scanVars
  <2>. QED BY <1>19, <2>1, FramesStay
<1>. QED BY NextCases, <1>2, <1>3, <1>4, <1>5, <1>7, <1>8, <1>9, <1>12, <1>13, <1>14, <1>15, <1>16, <1>17, <1>18,
            <1>20, <1>21, <1>22, <1>23

-----------------------------------------------------------------------------
(* What a step keeps                                                       *)

\* The lowest n frames, and the blocks they stand for, are as they were.
Kept(n, bash, after) ==
  /\ Follows(after)' <=> Follows(bash)
  /\ \A i \in 1..n : /\ i \in DOMAIN controlStack /\ i \in DOMAIN controlStack' /\ i \in DOMAIN nesting
                     /\ nesting'[i] = nesting[i] /\ controlStack'[i] = controlStack[i]
                     /\ Follows(bash) => after.blocks[i] = bash.blocks[i]

LEMMA KeptByLine ==
  ASSUME TypeInv, NEW form \in LineForms, NEW what \in WhatOf(form), Writes(Line(form, what)), function' = function,
         NEW start \in Starts, NEW bash \in Shells, bash = Sourcing(start), FramesMatch(bash),
         NEW after \in Shells, after = Sourcing(start)'
  PROVE  /\ after.world = bash.world /\ after.file = bash.file /\ (Follows(after)' <=> Follows(bash))
         /\ ~Follows(bash) => after = bash
         /\ form # "array" => after.array = bash.array
         /\ \A i \in 1..Len(controlStack) :
              /\ i # Len(controlStack) \/ form \notin {"elif", "else", "fi"}
              /\ Follows(bash)
              => after.blocks[i] = bash.blocks[i]
<1>1. PICK line \in Lines :
        /\ line.form = form /\ line.what = what
        /\ after.world = bash.world /\ after.file = bash.file
        /\ Follows(bash) => after = Obey(bash, line)
        /\ ~Follows(bash) => after = bash
  BY TurnOfLine
<1>2. Follows(after)' <=> Follows(bash)
  BY <1>1 DEF Follows, Writes
<1>3. form # "array" => after.array = bash.array
  <2>1. Obey(bash, line).array = IF line.form = "array" THEN line.what ELSE bash.array
    BY ObeyBlocks
  <2>. QED BY <1>1, <2>1
<1>4. ASSUME Follows(bash), NEW i \in 1..Len(controlStack), i # Len(controlStack) \/ form \notin {"elif", "else", "fi"}
      PROVE  after.blocks[i] = bash.blocks[i]
  <2>. DEFINE blocks == bash.blocks
              m == Len(controlStack)
  <2>1. blocks \in Seq(Blocks) /\ Len(blocks) = m /\ m \in Nat /\ after = Obey(bash, line) /\ line.form = form
    BY <1>1, <1>4 DEF Shells, FramesMatch, TypeInv, ScannerInv
  <2>2. blocks # <<>> /\ DOMAIN blocks = 1..m
    BY <1>4, <2>1
  <2>3. CASE line.form \in {"if", "for"}
    <3>1. \E block : Obey(bash, line).blocks = Append(blocks, block)
      <4>1. CASE line.form = "if"
        <5>1. Obey(bash, line).blocks = Append(blocks, [now |-> bash.world \in line.what.holds, tried |-> bash.world \in line.what.holds,
                                                  each |-> EachOf(bash.blocks)])
          BY <4>1, ObeyBlocks
        <5>. QED BY <5>1
      <4>2. CASE line.form = "for"
        <5>1. Obey(bash, line).blocks = Append(blocks, [now |-> Elements(bash.array, line.what) # {}, tried |-> TRUE,
                                                  each |-> Elements(bash.array, line.what)])
          BY <4>2, ObeyBlocks
        <5>. QED BY <5>1
      <4>. QED BY <2>3, <4>1, <4>2
    <3>. QED BY <1>4, <2>1, <2>2, <3>1
  <2>4. CASE line.form \in {"elif", "else"}
    <3>1. \E block : Obey(bash, line).blocks = ReplaceTop(blocks, block)
      <4>1. CASE line.form = "elif"
        <5>1. Obey(bash, line).blocks = ReplaceTop(blocks, [now |-> bash.world \in line.what.holds /\ ~Last(bash.blocks).tried,
                             tried |-> bash.world \in line.what.holds \/ Last(bash.blocks).tried, each |-> Last(bash.blocks).each])
          BY <4>1, ObeyBlocks
        <5>. QED BY <5>1
      <4>2. CASE line.form = "else"
        <5>1. Obey(bash, line).blocks = ReplaceTop(blocks, [now |-> ~Last(bash.blocks).tried, tried |-> TRUE, each |-> Last(bash.blocks).each])
          BY <4>2, ObeyBlocks
        <5>. QED BY <5>1
      <4>. QED BY <2>4, <4>1, <4>2
    <3>2. i # m
      BY <1>4, <2>1, <2>4
    <3>. QED BY <1>4, <2>1, <2>2, <3>1, <3>2 DEF ReplaceTop
  <2>5. CASE line.form = "fi"
    <3>1. Obey(bash, line).blocks = Front(blocks)
      BY <2>5, ObeyBlocks
    <3>2. i \in 1..m - 1
      BY <1>4, <2>1, <2>5
    <3>3. \A j \in 1..Len(blocks) - 1 : Front(blocks)[j] = blocks[j]
      BY <2>1, <2>2, PopFacts
    <3>. QED BY <2>1, <3>1, <3>2, <3>3
  <2>6. CASE line.form \notin {"if", "for", "elif", "else", "fi"}
    <3>1. Obey(bash, line).blocks = blocks
      BY <2>6, ObeyBlocks
    <3>. QED BY <2>1, <3>1
  <2>. QED BY <2>3, <2>4, <2>5, <2>6
<1>. QED BY <1>1, <1>2, <1>3, <1>4

(***************************************************************************)
(* What is open below the top stays; the top is pushed, replaced, popped   *)
(* or kept.                                                                *)
(***************************************************************************)
LEMMA KeptByStep ==
  ASSUME TypeInv, NEW start \in Starts, NEW bash \in Shells, bash = Sourcing(start), FramesMatch(bash),
         NEW after \in Shells, after = Sourcing(start)'
  PROVE  LET m == Len(controlStack)
         IN /\ \/ \E condition \in UseTests : ScanIfUse(condition)
               \/ \E test \in Tests : ScanIf(test)
               \/ \E atom \in Opaque : ScanBlock(atom)
               \/ \E ofKeys \in BOOLEAN : ScanLoop(ofKeys)
               => Kept(m, bash, after) /\ Len(controlStack') = m + 1
            /\ ScanElse \/ (\E test \in Tests : ScanElif(test)) => Kept(m - 1, bash, after) /\ Len(controlStack') = m
            /\ ScanFi \/ ScanDone => Kept(m - 1, bash, after) /\ Len(controlStack') = m - 1
            /\ \/ \E name \in Functions : ScanCall(name)
               \/ \E array \in Arrays \cup {NoArray, RuntimeArray} : ScanArray(array)
               \/ \E guard \in Guards : ScanCheck(guard)
               \/ ScanLocal \/ ScanAssign \/ UNCHANGED vars
               \/ \E inherits \in BOOLEAN : Read(inherits)
               => Kept(m, bash, after) /\ controlStack' = controlStack
<1>. DEFINE m == Len(controlStack)
<1>0. /\ StackTypes /\ m \in Nat /\ Len(nesting) = m /\ DOMAIN nesting = 1..m /\ DOMAIN controlStack = 1..m
      /\ nesting \in Seq(Kinds) /\ controlStack \in Seq(Frames)
  BY DEF TypeInv, ScannerInv, StackTypes
<1>a. /\ "if" \in Kinds /\ "block" \in Kinds /\ "loop" \in Kinds
      /\ LineForms = {"function", "close", "if", "elif", "else", "fi", "for", "array", "local", "call", "check", "assign"}
      /\ WhatOf("if") = WrittenTests /\ WhatOf("elif") = WrittenTests /\ WhatOf("for") = BOOLEAN
      /\ WhatOf("function") = Functions /\ WhatOf("array") = AnyArrays /\ WhatOf("check") = Guardings
      /\ None \in WhatOf("close") /\ None \in WhatOf("else") /\ None \in WhatOf("fi")
      /\ None \in WhatOf("local") /\ None \in WhatOf("call")
  BY DEF Kinds, LineForms, WhatOf
<1>b. ASSUME NEW form \in LineForms, NEW what \in WhatOf(form), Writes(Line(form, what)), function' = function,
             NEW n \in Nat, n <= m, n # m \/ form \notin {"elif", "else", "fi"}, DOMAIN controlStack' = 1..Len(controlStack'),
             Len(controlStack') \in Nat, n <= Len(controlStack'),
             \A i \in 1..n : nesting'[i] = nesting[i] /\ controlStack'[i] = controlStack[i]
      PROVE  Kept(n, bash, after)
  <2>1. /\ Follows(after)' <=> Follows(bash)
        /\ \A i \in 1..m : /\ i # m \/ form \notin {"elif", "else", "fi"}
                           /\ Follows(bash)
                           => after.blocks[i] = bash.blocks[i]
    BY <1>b, KeptByLine
  <2>2. ASSUME NEW i \in 1..n PROVE i \in 1..m /\ (i # m \/ form \notin {"elif", "else", "fi"}) /\ i \in DOMAIN controlStack'
    <3>1. m \in Nat /\ n <= m
      BY <1>0, <1>b
    <3>2. i \in 1..m /\ (n # m => i # m)
      BY <3>1
    <3>3. i \in 1..Len(controlStack')
      BY <1>b
    <3>4. i \in DOMAIN controlStack'
      BY <1>b, <3>3
    <3>5. n # m \/ form \notin {"elif", "else", "fi"}
      BY <1>b
    <3>. QED BY <3>2, <3>4, <3>5
  <2>. HIDE DEF m
  <2>. QED BY <1>0, <1>b, <2>1, <2>2 DEF Kept
<1>1. ASSUME NEW kind \in Kinds, nesting' = Append(nesting, kind), NEW frame, controlStack' = Append(controlStack, frame),
             NEW form \in {"if", "for"}, NEW what \in WhatOf(form), Writes(Line(form, what)), function' = function
      PROVE  Kept(m, bash, after) /\ Len(controlStack') = m + 1
  <2>1. /\ Len(controlStack') = m + 1 /\ DOMAIN controlStack' = 1..m + 1
        /\ \A i \in 1..m : nesting'[i] = nesting[i] /\ controlStack'[i] = controlStack[i]
    BY <1>0, <1>1
  <2>2. form \in LineForms /\ form \notin {"elif", "else", "fi"} /\ Len(controlStack') \in Nat /\ m <= Len(controlStack')
        /\ DOMAIN controlStack' = 1..Len(controlStack')
    BY <1>0, <1>1, <1>a, <2>1
  <2>. HIDE DEF m
  <2>. QED BY <1>0, <1>1, <1>b, <2>1, <2>2
<1>2. ASSUME NEW condition \in UseTests, ScanIfUse(condition) PROVE Kept(m, bash, after) /\ Len(controlStack') = m + 1
  <2>1. use(condition) \in WrittenTests
    BY ConstantFacts, TestTypes
  <2>. HIDE DEF m
  <2>. QED BY <1>1, <1>2, <1>a, <2>1 DEF ScanIfUse, Opens
<1>3. ASSUME NEW test \in Tests, ScanIf(test) PROVE Kept(m, bash, after) /\ Len(controlStack') = m + 1
  <2>1. test \in WrittenTests
    BY ConstantFacts
  <2>. HIDE DEF m
  <2>. QED BY <1>1, <1>3, <1>a, <2>1 DEF ScanIf, Opens
<1>4. ASSUME NEW atom \in Opaque, ScanBlock(atom) PROVE Kept(m, bash, after) /\ Len(controlStack') = m + 1
  <2>1. opaque(atom) \in WrittenTests
    BY TestTypes
  <2>. HIDE DEF m
  <2>. QED BY <1>1, <1>4, <1>a, <2>1 DEF ScanBlock, Opens
<1>5. ASSUME NEW ofKeys \in BOOLEAN, ScanLoop(ofKeys) PROVE Kept(m, bash, after) /\ Len(controlStack') = m + 1
  <2>. HIDE DEF m
  <2>. QED BY <1>1, <1>5, <1>a DEF ScanLoop, Opens
<1>6. ASSUME NEW frame, ReplacesTop(frame), NEW form \in {"elif", "else"}, NEW what \in WhatOf(form),
             Writes(Line(form, what)), function' = function
      PROVE  Kept(m - 1, bash, after) /\ Len(controlStack') = m
  <2>1. m # 0 /\ m - 1 \in Nat
    BY <1>0, <1>6 DEF ReplacesTop
  <2>2. Len(controlStack') = m /\ DOMAIN controlStack' = 1..m
    <3>1. controlStack' \in Seq(Frames) /\ Len(controlStack') = m
      BY <1>6 DEF ReplacesTop, StackTypes
    <3>. QED BY <3>1
  <2>3. \A i \in 1..m - 1 : nesting'[i] = nesting[i] /\ controlStack'[i] = controlStack[i]
    BY <1>0, <1>6 DEF ReplacesTop
  <2>4. form \in LineForms
    BY <1>6, <1>a
  <2>. HIDE DEF m
  <2>5. m - 1 <= m /\ m - 1 # m /\ m - 1 <= Len(controlStack') /\ Len(controlStack') \in Nat
    BY <1>0, <2>2
  <2>6. DOMAIN controlStack' = 1..Len(controlStack')
    BY <2>2
  <2>. QED BY <1>6, <1>b, <2>1, <2>2, <2>3, <2>4, <2>5, <2>6
<1>7. ASSUME ScanElse PROVE Kept(m - 1, bash, after) /\ Len(controlStack') = m
  <2>1. Writes(Line("else", None)) /\ function' = function
    BY <1>7 DEF ScanElse
  <2>2. PICK frame : ReplacesTop(frame)
    BY <1>7, ElseReplaces
  <2>3. "else" \in {"elif", "else"} /\ None \in WhatOf("else")
    BY <1>a
  <2>. HIDE DEF m
  <2>. QED BY <1>6, <2>1, <2>2, <2>3
<1>8. ASSUME NEW test \in Tests, ScanElif(test) PROVE Kept(m - 1, bash, after) /\ Len(controlStack') = m
  <2>1. Writes(Line("elif", test)) /\ function' = function /\ test \in WrittenTests
    BY <1>8, ConstantFacts DEF ScanElif
  <2>. HIDE DEF m
  <2>. QED BY <1>6, <1>8, <1>a, <2>1, ElifReplaces
<1>9. ASSUME ScanFi \/ ScanDone PROVE Kept(m - 1, bash, after) /\ Len(controlStack') = m - 1
  <2>1. Writes(Line("fi", None)) /\ function' = function
    BY <1>9 DEF ScanFi, ScanDone
  <2>2. nesting # <<>> /\ controlStack # <<>> /\ nesting' = Front(nesting) /\ controlStack' = Front(controlStack)
    BY <1>9, ClosesTop
  <2>3. /\ m - 1 \in Nat /\ Len(controlStack') = m - 1 /\ DOMAIN controlStack' = 1..m - 1
        /\ \A i \in 1..m - 1 : controlStack'[i] = controlStack[i]
    <3>1. /\ Len(controlStack) \in Nat \ {0} /\ Len(Front(controlStack)) = Len(controlStack) - 1
          /\ DOMAIN Front(controlStack) = 1..Len(controlStack) - 1
          /\ \A i \in DOMAIN Front(controlStack) : Front(controlStack)[i] = controlStack[i]
      BY <1>0, <2>2, PopFacts
    <3>2. PICK n : n = Len(controlStack) /\ n = m
      OBVIOUS
    <3>. HIDE DEF m
    <3>3. /\ n \in Nat \ {0} /\ Len(controlStack') = n - 1 /\ DOMAIN controlStack' = 1..n - 1
          /\ \A i \in 1..n - 1 : controlStack'[i] = controlStack[i]
      BY <2>2, <3>1, <3>2
    <3>. QED BY <3>2, <3>3
  <2>4. \A i \in 1..Len(nesting) - 1 : nesting'[i] = nesting[i]
    BY <1>0, <2>2, PopFacts
  <2>. HIDE DEF m
  <2>5. m - 1 <= m /\ m - 1 # m /\ m - 1 <= Len(controlStack') /\ Len(controlStack') \in Nat
    BY <1>0, <2>3
  <2>6. DOMAIN controlStack' = 1..Len(controlStack') /\ \A i \in 1..m - 1 : nesting'[i] = nesting[i]
    BY <1>0, <2>3, <2>4
  <2>7. "fi" \in LineForms /\ None \in WhatOf("fi")
    BY <1>a
  <2>. QED BY <1>b, <2>1, <2>3, <2>5, <2>6, <2>7
<1>10. ASSUME NEW form \in {"call", "array", "check", "local", "assign"}, NEW what \in WhatOf(form),
              Writes(Line(form, what)), UNCHANGED <<nesting, controlStack, function>>
       PROVE  Kept(m, bash, after) /\ controlStack' = controlStack
  <2>1. form \in LineForms /\ form \notin {"elif", "else", "fi"}
    BY <1>10, <1>a
  <2>2. Len(controlStack') = m /\ DOMAIN controlStack' = 1..Len(controlStack') /\ m <= m
    BY <1>0, <1>10
  <2>3. \A i \in 1..m : nesting'[i] = nesting[i] /\ controlStack'[i] = controlStack[i]
    BY <1>10
  <2>. HIDE DEF m
  <2>. QED BY <1>0, <1>10, <1>b, <2>1, <2>2, <2>3
<1>11. ASSUME NEW name \in Functions, ScanCall(name) PROVE Kept(m, bash, after) /\ controlStack' = controlStack
  <2>1. Writes(Line("call", None)) /\ UNCHANGED <<nesting, controlStack, function>>
    BY <1>11 DEF ScanCall, scanVars
  <2>. HIDE DEF m
  <2>. QED BY <1>a, <1>10, <2>1
<1>12. ASSUME NEW array \in Arrays \cup {NoArray, RuntimeArray}, ScanArray(array)
       PROVE  Kept(m, bash, after) /\ controlStack' = controlStack
  <2>1. Writes(Line("array", array)) /\ UNCHANGED <<nesting, controlStack, function>> /\ array \in AnyArrays
    BY <1>12, ConstantFacts DEF ScanArray
  <2>. HIDE DEF m
  <2>. QED BY <1>a, <1>10, <2>1
<1>13. ASSUME ScanLocal PROVE Kept(m, bash, after) /\ controlStack' = controlStack
  <2>1. Writes(Line("local", None)) /\ UNCHANGED <<nesting, controlStack, function>>
    BY <1>13 DEF ScanLocal
  <2>. HIDE DEF m
  <2>. QED BY <1>a, <1>10, <2>1
<1>14. ASSUME NEW guard \in Guards, ScanCheck(guard) PROVE Kept(m, bash, after) /\ controlStack' = controlStack
  <2>1. Writes(Line("check", guard)) /\ UNCHANGED <<nesting, controlStack, function>> /\ guard \in Guardings
    BY <1>14 DEF ScanCheck, scanVars, Guards, Guardings
  <2>2. guard \in WhatOf("check")
    BY <1>a, <2>1
  <2>. HIDE DEF m
  <2>. QED BY <1>10, <2>1, <2>2
<1>15. ASSUME ScanAssign PROVE Kept(m, bash, after) /\ controlStack' = controlStack
  <2>1. PICK guard \in Guards, severity \in Severities, operator \in {"=", "+="},
             value \in {"static", "each", "self", "dynamic", "unmatched"} :
               ScanAssignment(value, operator, severity, guard)
    BY <1>15, AssignmentFacts
  <2>2. PICK what \in WhatOf("assign") : Writes(Line("assign", what)) /\ UNCHANGED <<nesting, controlStack, function>>
    BY <2>1, AssignmentFound
  <2>. HIDE DEF m
  <2>. QED BY <1>10, <2>2
<1>16. ASSUME UNCHANGED vars \/ \E inherits \in BOOLEAN : Read(inherits)
       PROVE  Kept(m, bash, after) /\ controlStack' = controlStack
  <2>1. UNCHANGED <<program, nesting, controlStack, function, origin>>
    BY <1>16 DEF vars, scanVars, Read
  <2>2. after = bash
    BY <2>1 DEF Sourcing
  <2>3. Follows(after)' <=> Follows(bash)
    BY <2>1, <2>2 DEF Follows
  <2>4. \A i \in 1..m : i \in DOMAIN controlStack /\ i \in DOMAIN controlStack' /\ i \in DOMAIN nesting
    BY <1>0, <2>1
  <2>. HIDE DEF m
  <2>. QED BY <2>1, <2>2, <2>3, <2>4 DEF Kept
<1>. HIDE DEF m
<1>. QED BY <1>2, <1>3, <1>4, <1>5, <1>7, <1>8, <1>9, <1>11, <1>12, <1>13, <1>14, <1>15, <1>16 DEF m

-----------------------------------------------------------------------------
(* Loops                                                                   *)

\* Bash runs the body of a loop that is known, unless its array may be empty.
LoopRuns(frame, block, kind, mayBeEmpty) ==
  kind = "loop" /\ frame.supported /\ (frame.loopValues[1] # {} \/ ~mayBeEmpty) => block.now
LoopsMatch(bash) ==
  Follows(bash) =>
    /\ staticArrays # <<>> => bash.array \in {staticArrays[1], RuntimeArray}
    /\ \A i \in DOMAIN controlStack : LoopRuns(controlStack[i], bash.blocks[i], nesting[i], Has("emptyArray"))
OfPhaseOnly(d) == d.functions \subseteq {Phase}
OutsideInv == OfPhaseOnly(dialect) => function \in {NoFunction, Phase}
LoopsInv ==
  OfPhaseOnly(dialect) => \A start \in Starts, bash \in Shells : bash = Sourcing(start) => LoopsMatch(bash)

LEMMA LoopsInit == Init => OutsideInv /\ LoopsInv
<1>. SUFFICES ASSUME Init PROVE OutsideInv /\ LoopsInv
  OBVIOUS
<1>1. function = NoFunction /\ staticArrays = <<>> /\ DOMAIN controlStack = {}
  BY DEF Init
<1>. QED BY <1>1 DEF OutsideInv, LoopsInv, LoopsMatch

LEMMA DialectStays ==
  ASSUME TypeInv, [Next]_vars
  PROVE  dialect' = dialect
<1>1. ASSUME ScanAssign PROVE dialect' = dialect
  <2>1. PICK guard \in Guards, severity \in Severities, operator \in {"=", "+="},
             value \in {"static", "each", "self", "dynamic", "unmatched"} :
               ScanAssignment(value, operator, severity, guard)
    BY <1>1, AssignmentFacts
  <2>. QED BY <2>1 DEF ScanAssignment, Writes
<1>. QED BY <1>1, WrittenCases DEF Writes, ScanCheck, ScanEclass, InheritMissing, Read, vars

(***************************************************************************)
(* Only the two lines of a function, and the eclass, change where it is.   *)
(***************************************************************************)
LEMMA FunctionStays ==
  ASSUME TypeInv, [Next]_vars
  PROVE  \/ function' = function
         \/ (\E name \in Functions : ScanFunction(name)) \/ ScanBrace \/ ScanEclass
<1>2. ASSUME ScanAssign PROVE function' = function
  <2>1. PICK guard \in Guards, severity \in Severities, operator \in {"=", "+="},
             value \in {"static", "each", "self", "dynamic", "unmatched"} :
               ScanAssignment(value, operator, severity, guard)
    BY <1>2, AssignmentFacts
  <2>. QED BY <2>1 DEF ScanAssignment
<1>3. ASSUME ScanElse \/ ScanFi \/ ScanDone \/ ScanLocal \/ InheritMissing \/ UNCHANGED vars
      PROVE  function' = function
  BY <1>3 DEF ScanElse, ScanFi, ScanDone, ScanLocal, InheritMissing, vars, scanVars
<1>4. /\ \A name : ScanCall(name) => function' = function
      /\ \A condition : ScanIfUse(condition) => function' = function
      /\ \A test : ScanIf(test) \/ ScanElif(test) => function' = function
      /\ \A atom : ScanBlock(atom) => function' = function
      /\ \A guard : ScanCheck(guard) => function' = function
      /\ \A array : ScanArray(array) => function' = function
      /\ \A ofKeys : ScanLoop(ofKeys) => function' = function
      /\ \A inherits : Read(inherits) => function' = function
  BY DEF ScanCall, ScanIfUse, ScanIf, ScanElif, ScanBlock, ScanCheck, ScanArray, ScanLoop, Read, scanVars
<1>. QED BY NextCases, <1>2, <1>3, <1>4

(***************************************************************************)
(* Where the phase's is the only function all lines are outside of         *)
(* functions or in it, and bash obeys them all.                            *)
(***************************************************************************)
LEMMA OutsideStep == TypeInv /\ OutsideInv /\ [Next]_vars => OutsideInv'
<1>. SUFFICES ASSUME TypeInv, [Next]_vars, OfPhaseOnly(dialect), function \in {NoFunction, Phase}
              PROVE  function' \in {NoFunction, Phase}
  BY DialectStays DEF OutsideInv, OfPhaseOnly
<1>1. ASSUME NEW name \in Functions, ScanFunction(name) PROVE function' = Phase
  BY <1>1 DEF ScanFunction, OfPhaseOnly
<1>2. ASSUME ScanBrace \/ ScanEclass PROVE function' = NoFunction
  BY <1>2 DEF ScanBrace, ScanEclass
<1>. QED BY <1>1, <1>2, FunctionStays

LEMMA ArrayOfFunction ==
  ASSUME TypeInv, OutsideInv, OfPhaseOnly(dialect), (\E name \in Functions : ScanFunction(name)) \/ ScanBrace,
         NEW start \in Starts, NEW bash \in Shells, bash = Sourcing(start), NEW after \in Shells, after = Sourcing(start)'
  PROVE  /\ Follows(after)' => Follows(bash)
         /\ after.array = bash.array /\ staticArrays' = staticArrays /\ controlStack' = <<>>
<1>1. PICK form \in {"function", "close"} : \E what \in WhatOf(form) :
        Writes(Line(form, what)) /\ staticArrays' = staticArrays /\ controlStack' = <<>>
  <2>1. WhatOf("function") = Functions /\ WhatOf("close") = {None}
    BY DEF WhatOf
  <2>. QED BY <2>1 DEF ScanFunction, ScanBrace
<1>2. PICK what \in WhatOf(form) :
        Writes(Line(form, what)) /\ staticArrays' = staticArrays /\ controlStack' = <<>>
  BY <1>1
<1>a. form \in LineForms
  BY DEF LineForms
<1>3. PICK line \in Lines :
        /\ line.form = form /\ after.file = bash.file
        /\ after \in {bash, Obey(bash, line)}
  BY <1>2, <1>a, TurnOfLine
<1>4. Obey(bash, line).array = IF line.form = "array" THEN line.what ELSE bash.array
  BY ObeyBlocks
<1>5. after.array = bash.array
  BY <1>3, <1>4
<1>6. origin' = origin
  BY <1>2 DEF Writes
<1>. QED BY <1>2, <1>3, <1>5, <1>6 DEF Follows, OutsideInv

(***************************************************************************)
(* An array is empty in bash only when the scanner knows it is.            *)
(***************************************************************************)
LEMMA LoopOfArray ==
  ASSUME NEW known \in Arrays \cup {NoArray}, NEW array \in {known, RuntimeArray}, NEW ofKeys \in BOOLEAN,
         known # NoArray \/ (IF ofKeys THEN known.keys ELSE known.values) # {}
  PROVE  Elements(array, ofKeys) # {}
<1>1. NoArray.keys = {} /\ NoArray.values = {} /\ RuntimeArray.keys = {} /\ RuntimeArray.values = {0}
  BY DEF NoArray, RuntimeArray
<1>2. known # NoArray
  BY <1>1
<1>3. known.values # {}
  BY <1>2, ConstantFacts
<1>4. array.values # {}
  BY <1>1, <1>3
<1>. QED BY <1>4 DEF Elements

LEMMA LoopsStep == TypeInv /\ NestInv /\ FramesInv /\ OutsideInv /\ LoopsInv /\ [Next]_vars => LoopsInv'
<1>. SUFFICES ASSUME TypeInv, NestInv, FramesInv, OutsideInv, LoopsInv, [Next]_vars, OfPhaseOnly(dialect'),
                     NEW start \in Starts, NEW after \in Shells, after = Sourcing(start)'
              PROVE  LoopsMatch(after)'
  BY DEF LoopsInv, OfPhaseOnly
<1>. DEFINE m == Len(controlStack)
<1>0. /\ StackTypes /\ m \in Nat /\ Len(nesting) = m /\ nesting \in Seq(Kinds) /\ program \in Seq(Lines)
      /\ m = 0 \/ m - 1 \in Nat
  BY DEF TypeInv, ScannerInv, StackTypes, ProgramInv
<1>1. PICK bash \in Shells : bash = Sourcing(start)
  BY <1>0, SourcingFacts
<1>2. dialect' = dialect /\ OfPhaseOnly(dialect) /\ FramesMatch(bash) /\ LoopsMatch(bash)
  <2>1. dialect' = dialect
    BY DialectStays
  <2>. QED BY <1>1, <2>1 DEF FramesInv, LoopsInv, OfPhaseOnly
<1>a. /\ LineForms = {"function", "close", "if", "elif", "else", "fi", "for", "array", "local", "call", "check", "assign"}
      /\ WhatOf("if") = WrittenTests /\ WhatOf("elif") = WrittenTests /\ WhatOf("for") = BOOLEAN
      /\ WhatOf("array") = AnyArrays /\ WhatOf("check") = Guardings
      /\ None \in WhatOf("else") /\ None \in WhatOf("fi") /\ None \in WhatOf("local") /\ None \in WhatOf("call")
  BY DEF LineForms, WhatOf
<1>. DEFINE ArrayKept == after.array = bash.array /\ staticArrays' = staticArrays
            Top(n) == LoopRuns(controlStack'[n], after.blocks[n], nesting'[n], Has("emptyArray"))
<1>b. ASSUME (\E name \in Functions : ScanFunction(name)) \/ ScanBrace PROVE LoopsMatch(after)'
  <2>1. /\ Follows(after)' => Follows(bash)
        /\ after.array = bash.array /\ staticArrays' = staticArrays /\ controlStack' = <<>>
    BY <1>1, <1>2, <1>b, ArrayOfFunction
  <2>2. DOMAIN controlStack' = {}
    BY <2>1
  <2>. QED BY <1>2, <2>1, <2>2 DEF LoopsMatch
<1>c. ASSUME ScanEclass PROVE LoopsMatch(after)'
  BY <1>c DEF ScanEclass, LoopsMatch
<1>. SUFFICES ASSUME function' = function PROVE LoopsMatch(after)'
  BY <1>b, <1>c, FunctionStays
\* below the top
<1>3. ASSUME NEW n \in Nat, Kept(n, bash, after), Len(controlStack') = n \/ (Len(controlStack') = n + 1 /\ Top(n + 1)),
             Follows(after)' /\ staticArrays' # <<>> => after.array \in {staticArrays'[1], RuntimeArray}
      PROVE  LoopsMatch(after)'
  <2>. SUFFICES ASSUME Follows(after)' PROVE \A i \in DOMAIN controlStack' : Top(i)
    BY <1>2, <1>3 DEF LoopsMatch, Has
  <2>1. Follows(bash)
    BY <1>3 DEF Kept
  <2>2. DOMAIN controlStack' = 1..Len(controlStack')
    <3>1. controlStack' \in Seq(Frames)
      BY TypeStep DEF TypeInv, ScannerInv
    <3>. QED BY <3>1
  <2>3. ASSUME NEW i \in 1..n PROVE Top(i)
    BY <1>2, <1>3, <2>1, <2>3 DEF Kept, LoopsMatch
  <2>4. ASSUME NEW i \in DOMAIN controlStack' PROVE i \in 1..n \/ (i = n + 1 /\ Len(controlStack') = n + 1)
    <3>1. i \in 1..Len(controlStack')
      BY <2>2, <2>4
    <3>2. n \in Nat /\ (Len(controlStack') = n \/ Len(controlStack') = n + 1)
      BY <1>3
    <3>. QED BY ONLY <3>1, <3>2
  <2>5. ASSUME NEW i \in DOMAIN controlStack' PROVE Top(i)
    <3>. HIDE DEF Top
    <3>1. CASE i \in 1..n
      BY <3>1, <2>3
    <3>2. CASE i = n + 1 /\ Len(controlStack') = n + 1
      <4>1. Top(n + 1)
        BY <1>3, <3>2
      <4>. QED BY <3>2, <4>1
    <3>. QED BY <3>1, <3>2, <2>4, <2>5
  <2>. HIDE DEF Top
  <2>. QED BY <2>5
<1>4. ASSUME ArrayKept, Follows(after)' <=> Follows(bash)
      PROVE  Follows(after)' /\ staticArrays' # <<>> => after.array \in {staticArrays'[1], RuntimeArray}
  BY <1>2, <1>4 DEF LoopsMatch
<1>5. ASSUME NEW form \in LineForms, NEW what \in WhatOf(form), Writes(Line(form, what)), form # "array",
             staticArrays' = staticArrays
      PROVE  ArrayKept
  BY <1>1, <1>2, <1>5, KeptByLine
<1>. HIDE DEF Top, ArrayKept, m
<1>6. ASSUME NEW n \in Nat, Kept(n, bash, after), Len(controlStack') = n \/ (Len(controlStack') = n + 1 /\ Top(n + 1)),
             ArrayKept
      PROVE  LoopsMatch(after)'
  <2>1. Follows(after)' <=> Follows(bash)
    BY <1>6 DEF Kept
  <2>. QED BY <1>3, <1>4, <1>6, <2>1
\* no loop on top
<1>7. ASSUME NEW n, nesting'[n] # "loop" PROVE Top(n)
  BY <1>7 DEF Top, LoopRuns
<1>8. ASSUME NEW condition \in UseTests, ScanIfUse(condition) PROVE LoopsMatch(after)'
  <2>1. /\ Writes(Line("if", use(condition))) /\ use(condition) \in WhatOf("if") /\ "if" \in LineForms
        /\ staticArrays' = staticArrays /\ nesting' = Append(nesting, "if")
    BY <1>8, <1>a, ConstantFacts, TestTypes DEF ScanIfUse, Opens
  <2>2. nesting'[m + 1] = "if"
    BY <1>0, <2>1
  <2>3. Kept(m, bash, after) /\ Len(controlStack') = m + 1
    BY <1>1, <1>2, <1>8, KeptByStep DEF m
  <2>4. ArrayKept /\ Top(m + 1)
    BY <1>5, <1>7, <2>1, <2>2
  <2>. QED BY <1>0, <1>6, <2>3, <2>4
<1>9. ASSUME NEW test \in Tests, ScanIf(test) PROVE LoopsMatch(after)'
  <2>1. /\ Writes(Line("if", test)) /\ test \in WhatOf("if") /\ "if" \in LineForms
        /\ staticArrays' = staticArrays /\ nesting' = Append(nesting, "if")
    BY <1>9, <1>a, ConstantFacts DEF ScanIf, Opens
  <2>2. nesting'[m + 1] = "if"
    BY <1>0, <2>1
  <2>3. Kept(m, bash, after) /\ Len(controlStack') = m + 1
    BY <1>1, <1>2, <1>9, KeptByStep DEF m
  <2>4. ArrayKept /\ Top(m + 1)
    BY <1>5, <1>7, <2>1, <2>2
  <2>. QED BY <1>0, <1>6, <2>3, <2>4
<1>10. ASSUME NEW atom \in Opaque, ScanBlock(atom) PROVE LoopsMatch(after)'
  <2>1. /\ Writes(Line("if", opaque(atom))) /\ opaque(atom) \in WhatOf("if") /\ "if" \in LineForms
        /\ staticArrays' = staticArrays /\ nesting' = Append(nesting, "block")
    BY <1>10, <1>a, TestTypes DEF ScanBlock, Opens
  <2>2. nesting'[m + 1] = "block"
    BY <1>0, <2>1
  <2>3. Kept(m, bash, after) /\ Len(controlStack') = m + 1
    BY <1>1, <1>2, <1>10, KeptByStep DEF m
  <2>4. ArrayKept /\ Top(m + 1)
    BY <1>5, <1>7, <2>1, <2>2
  <2>. QED BY <1>0, <1>6, <2>3, <2>4
\* the loop that is opened
<1>11. ASSUME NEW ofKeys \in BOOLEAN, ScanLoop(ofKeys) PROVE LoopsMatch(after)'
  <2>1. Writes(Line("for", ofKeys)) /\ ofKeys \in WhatOf("for") /\ "for" \in LineForms /\ staticArrays' = staticArrays
    BY <1>11, <1>a DEF ScanLoop
  <2>2. Kept(m, bash, after) /\ Len(controlStack') = m + 1
    BY <1>1, <1>2, <1>11, KeptByStep DEF m
  <2>3. CASE ~Follows(bash)
    <3>1. ~Follows(after)'
      BY <2>2, <2>3 DEF Kept
    <3>. QED BY <3>1 DEF LoopsMatch
  <2>4. CASE Follows(bash)
    <3>1. PICK line \in Lines : line.form = "for" /\ line.what = ofKeys /\ after = Obey(bash, line)
      <4>1. PICK shell \in Shells, line \in Lines :
              /\ shell = Sourcing(start) /\ line.form = "for" /\ line.what = ofKeys
              /\ Follows(shell) => after = Obey(shell, line)
        BY <2>1, TurnOfLine
      <4>. QED BY <1>1, <2>4, <4>1
    <3>. DEFINE block == [now |-> Elements(bash.array, ofKeys) # {}, tried |-> TRUE, each |-> Elements(bash.array, ofKeys)]
    <3>2. after.blocks = Append(bash.blocks, block)
      <4>1. line.form = "for" /\ line.what = ofKeys
        BY <3>1
      <4>2. Obey(bash, line).blocks = Append(bash.blocks, block)
        BY <4>1, ObeyBlocks
      <4>. QED BY <3>1, <4>2
    <3>3. bash.blocks \in Seq(Blocks) /\ Len(bash.blocks) = m
      BY <1>2, <2>4 DEF FramesMatch, Shells, m
    <3>4. after.blocks[m + 1].now <=> Elements(bash.array, ofKeys) # {}
      <4>1. block.now <=> Elements(bash.array, ofKeys) # {}
        OBVIOUS
      <4>. HIDE DEF block
      <4>2. after.blocks[m + 1] = block
        BY <3>2, <3>3
      <4>. QED BY <4>1, <4>2
    <3>5. Top(m + 1)
      <4>. SUFFICES ASSUME controlStack'[m + 1].supported, controlStack'[m + 1].loopValues[1] # {} \/ ~Has("emptyArray")
                    PROVE  Elements(bash.array, ofKeys) # {}
        BY <3>4 DEF Top, LoopRuns
      <4>. DEFINE frame == IF staticArrays = <<>> THEN LoopFrame(FALSE, {})
                           ELSE LoopFrame(TRUE, IF ofKeys THEN staticArrays[1].keys ELSE staticArrays[1].values)
      <4>1. controlStack'[m + 1] = frame
        <5>1. controlStack' = Append(controlStack, frame)
          BY <1>11 DEF ScanLoop
        <5>2. controlStack \in Seq(Frames)
          BY <1>0 DEF StackTypes
        <5>. HIDE DEF frame
        <5>. QED BY <5>1, <5>2 DEF m
      <4>2. staticArrays # <<>>
        BY <4>1 DEF LoopFrame, Frame
      <4>3. PICK known \in Arrays \cup {NoArray} : staticArrays = <<known>>
        BY <4>2 DEF TypeInv, ScannerInv
      <4>4. frame.loopValues[1] = IF ofKeys THEN known.keys ELSE known.values
        BY <4>2, <4>3 DEF LoopFrame, Frame
      <4>5. bash.array \in {known, RuntimeArray}
        BY <1>2, <2>4, <4>2, <4>3 DEF LoopsMatch
      <4>6. known = NoArray => Has("emptyArray")
        BY <4>3 DEF NestInv
      <4>. HIDE DEF frame
      <4>7. known # NoArray \/ (IF ofKeys THEN known.keys ELSE known.values) # {}
        BY <4>1, <4>4, <4>6
      <4>. QED BY <4>5, <4>7, LoopOfArray
    <3>6. ArrayKept
      BY <1>5, <2>1
    <3>. QED BY <1>0, <1>6, <2>2, <3>5, <3>6
  <2>. QED BY <2>3, <2>4
<1>12. ASSUME ScanElse PROVE LoopsMatch(after)'
  <2>1. Writes(Line("else", None)) /\ None \in WhatOf("else") /\ "else" \in LineForms /\ staticArrays' = staticArrays
    BY <1>12, <1>a DEF ScanElse
  <2>2. nesting'[m] = "else" /\ m # 0
    BY <1>0, <1>12, ElseReplaces DEF m, ReplacesTop
  <2>3. Kept(m - 1, bash, after) /\ Len(controlStack') = m
    BY <1>1, <1>2, <1>12, KeptByStep DEF m
  <2>4. ArrayKept /\ Top(m) /\ m - 1 + 1 = m /\ m - 1 \in Nat
    BY <1>0, <1>5, <1>7, <2>1, <2>2
  <2>. QED BY <1>6, <2>3, <2>4
<1>13. ASSUME NEW test \in Tests, ScanElif(test) PROVE LoopsMatch(after)'
  <2>1. Writes(Line("elif", test)) /\ test \in WhatOf("elif") /\ "elif" \in LineForms /\ staticArrays' = staticArrays
    BY <1>13, <1>a, ConstantFacts DEF ScanElif
  <2>2. nesting'[m] = "if" /\ m # 0
    <3>1. nesting' = nesting /\ nesting # <<>> /\ Last(nesting) = "if"
      BY <1>13, ElifReplaces DEF ReplacesTop
    <3>2. nesting \in Seq(Kinds) /\ Last(nesting) = nesting[Len(nesting)] /\ Len(nesting) # 0
      BY <1>0, <3>1, PopFacts
    <3>. QED BY <1>0, <3>1, <3>2
  <2>3. Kept(m - 1, bash, after) /\ Len(controlStack') = m
    BY <1>1, <1>2, <1>13, KeptByStep DEF m
  <2>4. ArrayKept /\ Top(m) /\ m - 1 + 1 = m /\ m - 1 \in Nat
    BY <1>0, <1>5, <1>7, <2>1, <2>2
  <2>. QED BY <1>6, <2>3, <2>4
<1>14. ASSUME ScanFi \/ ScanDone PROVE LoopsMatch(after)'
  <2>1. Writes(Line("fi", None)) /\ None \in WhatOf("fi") /\ "fi" \in LineForms /\ staticArrays' = staticArrays
    BY <1>14, <1>a DEF ScanFi, ScanDone
  <2>2. Kept(m - 1, bash, after) /\ Len(controlStack') = m - 1
    BY <1>1, <1>2, <1>14, KeptByStep DEF m
  <2>3. m # 0
    BY <1>14, ClosesTop, <1>0 DEF m, StackTypes
  <2>4. ArrayKept /\ m - 1 \in Nat
    BY <1>0, <1>5, <2>1, <2>3
  <2>. QED BY <1>6, <2>2, <2>4
\* the stack stays
<1>15. ASSUME NEW form \in {"call", "check", "local", "assign"}, NEW what \in WhatOf(form), Writes(Line(form, what)),
              staticArrays' = staticArrays, Kept(m, bash, after), controlStack' = controlStack
       PROVE  LoopsMatch(after)'
  <2>1. form \in LineForms /\ form # "array"
    BY <1>a
  <2>2. ArrayKept /\ Len(controlStack') = m
    BY <1>5, <1>15, <2>1 DEF m
  <2>. QED BY <1>0, <1>6, <1>15, <2>2
<1>16. ASSUME NEW name \in Functions, ScanCall(name) PROVE LoopsMatch(after)'
  <2>1. Kept(m, bash, after) /\ controlStack' = controlStack
    BY <1>1, <1>2, <1>16, KeptByStep DEF m
  <2>. QED BY <1>15, <1>16, <1>a, <2>1 DEF ScanCall, scanVars
<1>17. ASSUME ScanLocal PROVE LoopsMatch(after)'
  <2>1. Kept(m, bash, after) /\ controlStack' = controlStack
    BY <1>1, <1>2, <1>17, KeptByStep DEF m
  <2>. QED BY <1>15, <1>17, <1>a, <2>1 DEF ScanLocal
<1>18. ASSUME NEW guard \in Guards, ScanCheck(guard) PROVE LoopsMatch(after)'
  <2>1. Kept(m, bash, after) /\ controlStack' = controlStack
    BY <1>1, <1>2, <1>18, KeptByStep DEF m
  <2>2. Writes(Line("check", guard)) /\ staticArrays' = staticArrays /\ guard \in WhatOf("check")
    BY <1>18, <1>a DEF ScanCheck, scanVars, Guards, Guardings
  <2>. QED BY <1>15, <2>1, <2>2
<1>19. ASSUME ScanAssign PROVE LoopsMatch(after)'
  <2>1. Kept(m, bash, after) /\ controlStack' = controlStack
    BY <1>1, <1>2, <1>19, KeptByStep DEF m
  <2>2. PICK guard \in Guards, severity \in Severities, operator \in {"=", "+="},
             value \in {"static", "each", "self", "dynamic", "unmatched"} :
               ScanAssignment(value, operator, severity, guard)
    BY <1>19, AssignmentFacts
  <2>3. PICK what \in WhatOf("assign") : Writes(Line("assign", what)) /\ staticArrays' = staticArrays
    BY <2>2, AssignmentFound
  <2>. QED BY <1>15, <2>1, <2>3
<1>20. ASSUME NEW array \in Arrays \cup {NoArray, RuntimeArray}, ScanArray(array) PROVE LoopsMatch(after)'
  <2>1. Kept(m, bash, after) /\ Len(controlStack') = m
    BY <1>1, <1>2, <1>20, KeptByStep DEF m
  <2>2. Writes(Line("array", array)) /\ "array" \in LineForms /\ array \in WhatOf("array")
        /\ staticArrays' = IF array = RuntimeArray THEN staticArrays ELSE <<array>>
    BY <1>20, <1>a, ConstantFacts DEF ScanArray
  <2>3. ASSUME Follows(bash) PROVE after.array = array
    <3>1. PICK shell \in Shells, line \in Lines :
            /\ shell = Sourcing(start) /\ line.form = "array" /\ line.what = array
            /\ Follows(shell) => after = Obey(shell, line)
      BY <2>2, TurnOfLine
    <3>2. Obey(bash, line).array = array
      <4>1. line.form = "array" /\ line.what = array
        BY <3>1
      <4>2. Obey(bash, line).array = IF line.form = "array" THEN line.what ELSE bash.array
        BY ObeyBlocks
      <4>. QED BY <4>1, <4>2
    <3>. QED BY <1>1, <2>3, <3>1, <3>2
  <2>4. Follows(after)' => after.array = array
    BY <2>1, <2>3 DEF Kept
  <2>5. Follows(after)' /\ staticArrays' # <<>> => after.array \in {staticArrays'[1], RuntimeArray}
    BY <2>2, <2>4
  <2>. QED BY <1>0, <1>3, <2>1, <2>5
\* steps that write nothing
<1>21. ASSUME UNCHANGED vars \/ \E inherits \in BOOLEAN : Read(inherits) PROVE LoopsMatch(after)'
  <2>1. UNCHANGED <<program, staticArrays>> /\ controlStack' = controlStack /\ Kept(m, bash, after)
    BY <1>1, <1>2, <1>21, KeptByStep DEF m, vars, scanVars, Read
  <2>2. ArrayKept
    BY <1>1, <2>1 DEF ArrayKept, Sourcing
  <2>3. Len(controlStack') = m
    BY <2>1 DEF m
  <2>. QED BY <1>0, <1>6, <2>1, <2>2, <2>3
<1>23. ASSUME InheritMissing PROVE LoopsMatch(after)'
  BY <1>23 DEF InheritMissing, LoopsMatch, Follows, Shells
<1>. QED BY NextCases, <1>8, <1>9, <1>10, <1>11, <1>12, <1>13, <1>14, <1>16, <1>17, <1>18, <1>19, <1>20, <1>21,
            <1>23, <1>b, <1>c

-----------------------------------------------------------------------------
(* What runs                                                               *)

(***************************************************************************)
(* All is closed when all is read.                                         *)
(***************************************************************************)
ReadInv == phase = "read" => nesting = <<>> /\ function = NoFunction

LEMMA ReadInit == Init => ReadInv
BY DEF Init, ReadInv

LEMMA ReadStep == TypeInv /\ ReadInv /\ [Next]_vars => ReadInv'
<1>. SUFFICES ASSUME TypeInv, ReadInv, [Next]_vars PROVE ReadInv'
  OBVIOUS
<1>1. ASSUME NEW form, NEW what, Writes(Line(form, what)) PROVE ReadInv'
  BY <1>1 DEF Writes, ReadInv
<1>2. ASSUME ScanAssign PROVE ReadInv'
  <2>1. PICK guard \in Guards, severity \in Severities, operator \in {"=", "+="},
             value \in {"static", "each", "self", "dynamic", "unmatched"} :
               ScanAssignment(value, operator, severity, guard)
    BY <1>2, AssignmentFacts
  <2>. QED BY <1>1, <2>1 DEF ScanAssignment
<1>3. ASSUME NEW guard, ScanCheck(guard) PROVE ReadInv'
  BY <1>1, <1>3 DEF ScanCheck
<1>4. CASE ScanEclass \/ InheritMissing
  BY <1>4 DEF ScanEclass, InheritMissing, EndOfFile, ReadInv
<1>5. ASSUME NEW inherits, Read(inherits) PROVE ReadInv'
  BY <1>5 DEF Read, EndOfFile, ReadInv, scanVars
<1>6. CASE UNCHANGED vars
  BY <1>6 DEF vars, scanVars, ReadInv
<1>. QED BY WrittenCases, <1>1, <1>2, <1>3, <1>4, <1>5, <1>6

(***************************************************************************)
(* What bash does in the end: it sources the eclass, then the ebuild.      *)
(***************************************************************************)
LEMMA SourcedIsSourcing == \A bash, file : Sourced(bash, file) = Sourcing([bash EXCEPT !.file = file])
BY DEF Sourced, Sourcing, Turns!Fold, FoldLeft, Turns!FoldLeft, MapThenFoldSet, Turns!MapThenFoldSet, Max, Turns!Max

\* The shell that sources an eclass, and one that has done so.
EclassShell(world) == [Shell(world) EXCEPT !.file = "eclass"]
EbuildShell(world) == [Sourcing(EclassShell(world)) EXCEPT !.file = "ebuild"]

LEMMA BashIsSourcing ==
  ASSUME TypeInv, FramesInv, nesting = <<>>, NEW world \in Worlds
  PROVE  /\ EclassShell(world) \in Starts /\ EclassShell(world).world = world /\ EclassShell(world).file = "eclass"
         /\ EclassShell(world).ran = {} /\ EclassShell(world).seen = {} /\ EclassShell(world).value = {}
         /\ EbuildShell(world) \in Starts /\ EbuildShell(world).world = world /\ EbuildShell(world).file = "ebuild"
         /\ EbuildShell(world).ran = Sourcing(EclassShell(world)).ran
         /\ EbuildShell(world).seen = Sourcing(EclassShell(world)).seen
         /\ EbuildShell(world).value = Sourcing(EclassShell(world)).value
         /\ Bash(world) = Sourcing(EbuildShell(world))
<1>1. Shell(world) \in Shells /\ Shell(world).blocks = <<>> /\ Shell(world).world = world
      /\ Shell(world).ran = {} /\ Shell(world).seen = {} /\ Shell(world).value = {}
  <2>1. NoArray \in AnyArrays
    BY ConstantFacts
  <2>. QED BY <2>1 DEF Shell, Shells
<1>2. EclassShell(world) \in Starts /\ EclassShell(world).world = world /\ EclassShell(world).file = "eclass"
      /\ EclassShell(world).ran = {} /\ EclassShell(world).seen = {} /\ EclassShell(world).value = {}
  BY <1>1 DEF EclassShell, Shells, Starts
<1>3. program \in Seq(Lines) /\ controlStack = <<>> /\ Len(controlStack) = 0
  BY DEF TypeInv, ScannerInv, ProgramInv
<1>4. PICK middle \in Shells : middle = Sourcing(EclassShell(world)) /\ middle.world = world
  BY <1>2, <1>3, SourcingFacts
<1>5. middle.blocks = <<>>
  <2>1. FramesMatch(middle)
    BY <1>2, <1>4 DEF FramesInv
  <2>2. middle.blocks \in Seq(Blocks)
    BY DEF Shells
  <2>. QED BY <1>3, <2>1, <2>2 DEF FramesMatch
<1>6. /\ EbuildShell(world) \in Starts /\ EbuildShell(world).world = world /\ EbuildShell(world).file = "ebuild"
      /\ EbuildShell(world).ran = middle.ran /\ EbuildShell(world).seen = middle.seen
      /\ EbuildShell(world).value = middle.value
  BY <1>4, <1>5 DEF EbuildShell, Shells, Starts
<1>7. Bash(world) = Sourcing(EbuildShell(world))
  BY SourcedIsSourcing DEF Bash, EbuildShell, EclassShell
<1>. QED BY <1>2, <1>4, <1>6, <1>7

(***************************************************************************)
(* What a line adds to what ran.                                           *)
(***************************************************************************)
LEMMA RanByLine ==
  ASSUME TypeInv, NEW form \in LineForms, NEW what \in WhatOf(form), Writes(Line(form, what)),
         NEW start \in Starts, NEW bash \in Shells, bash = Sourcing(start), NEW after, after = Sourcing(start)'
  PROVE  /\ after \in Shells /\ after.world = bash.world /\ after.file = bash.file
         /\ after.ran = IF Follows(bash) /\ (\/ form = "assign" /\ Runs(bash, what.guard)
                                             \/ form = "check" /\ Runs(bash, what))
                        THEN bash.ran \cup {LineNumber} ELSE bash.ran
<1>1. PICK line \in Lines :
        /\ line.form = form /\ line.what = what /\ line.number = LineNumber
        /\ after \in Shells /\ after.world = bash.world /\ after.file = bash.file
        /\ Follows(bash) => after = Obey(bash, line)
        /\ ~Follows(bash) => after = bash
  BY TurnOfLine
<1>2. CASE ~Follows(bash)
  BY <1>1, <1>2
<1>3. CASE Follows(bash)
  <2>1. line.form = form /\ line.what = what /\ line.number = LineNumber
    BY <1>1
  <2>2. Obey(bash, line).ran = IF (line.form = "assign" /\ Runs(bash, line.what.guard)) \/ (line.form = "check" /\ Runs(bash, line.what))
                               THEN bash.ran \cup {line.number} ELSE bash.ran
    BY ObeyValue
  <2>3. after = Obey(bash, line)
    BY <1>1, <1>3
  <2>. HIDE DEF LineNumber
  <2>. QED BY <1>1, <1>3, <2>1, <2>2, <2>3
<1>. QED BY <1>2, <1>3

(***************************************************************************)
(* The frames of an evidence that applies are open in bash.                *)
(***************************************************************************)
LEMMA ApplicableParts ==
  ASSUME NEW evidence \in Evidences, NEW context \in Contexts, kernelEvidenceApplicability(evidence, context) = "applicable"
  PROVE  evidence.expression[context] = "applicable" /\ conditionsApplicability(evidence.conditions, context) = "applicable"
<1>1. evidence.expression[context] \in Applicability
  BY DEF Evidences, Nodes
<1>2. conditionsApplicability(evidence.conditions, context) \in Applicability
  BY DEF conditionsApplicability, Applicability
<1>3. ASSUME NEW one \in Applicability, NEW other \in Applicability, combineApplicability(one, other) = "applicable"
      PROVE  one = "applicable" /\ other = "applicable"
  BY <1>3 DEF combineApplicability, AllApplicable, Applicability
<1>. QED BY <1>1, <1>2, <1>3 DEF kernelEvidenceApplicability

LEMMA ApplicableRuns ==
  ASSUME TypeInv, NEW bash \in Shells, FramesMatch(bash), Follows(bash), origin \in {"ebuild", "eclass"},
         ~dynamicKernelControl(controlStack), \A i \in DOMAIN controlStack : nesting[i] = "loop" => bash.blocks[i].now,
         NEW guard \in Guardings, NEW useKnown \in BOOLEAN, NEW targetKnown \in BOOLEAN,
         kernelEvidenceApplicability(Evidence(guard), ContextOf(bash.world, useKnown, targetKnown)) = "applicable"
  PROVE  Runs(bash, guard)
<1>. DEFINE context == ContextOf(bash.world, useKnown, targetKnown)
            conds == conditions \o guard
<1>1. /\ context \in Contexts /\ bash.world \in Worlds /\ Evidence(guard) \in Evidences
      /\ Evidence(guard).conditions = conds /\ Evidence(guard).expression = joinedControlExpression(controlStack)
  <2>1. context \in Contexts /\ bash.world \in Worlds
    BY ContextTypes DEF Shells
  <2>. QED BY <2>1, EvidenceType DEF Evidence
<1>2. joinedControlExpression(controlStack)[context] = "applicable" /\ conditionsApplicability(conds, context) = "applicable"
  BY <1>1, ApplicableParts
<1>3. ASSUME NEW i \in DOMAIN controlStack PROVE controlStack[i].expression[context] = "applicable"
  <2>1. controlStack[i].supported /\ controlStack[i] \in Frames
    BY <1>3 DEF dynamicKernelControl, TypeInv, ScannerInv
  <2>2. controlStack[i].expression[context] \in Applicability
    BY <1>1, <2>1 DEF Frames, Nodes
  <2>3. AllApplicable({controlStack[j].expression[context] : j \in {k \in DOMAIN controlStack : controlStack[k].supported}})
          = "applicable"
    BY <1>1, <1>2 DEF joinedControlExpression
  <2>4. controlStack[i].expression[context]
          \in {controlStack[j].expression[context] : j \in {k \in DOMAIN controlStack : controlStack[k].supported}}
    BY <1>3, <2>1
  <2>. QED BY <2>2, <2>3, <2>4 DEF AllApplicable, Applicability
<1>4. ASSUME NEW i \in DOMAIN bash.blocks PROVE bash.blocks[i].now
  <2>1. i \in DOMAIN controlStack
    <3>1. bash.blocks \in Seq(Blocks) /\ controlStack \in Seq(Frames) /\ Len(bash.blocks) = Len(controlStack)
      BY DEF Shells, FramesMatch, TypeInv, ScannerInv
    <3>. QED BY <3>1
  <2>2. CASE nesting[i] = "loop"
    BY <2>1, <2>2
  <2>3. CASE nesting[i] # "loop"
    <3>1. controlStack[i].supported
      BY <2>1 DEF dynamicKernelControl
    <3>2. Fits(controlStack[i].expression, bash.world, bash.blocks[i].now)
      BY <2>1, <2>3, <3>1 DEF FramesMatch, Matches
    <3>. QED BY <1>3, <2>1, <3>2 DEF Fits
  <2>. QED BY <2>2, <2>3
<1>5. ASSUME NEW i \in DOMAIN guard PROVE bash.world[guard[i].flag] = guard[i].enabled
  <2>1. PICK condition \in UseConditions : guard = <<condition>> /\ i = 1
    BY <1>5, ConstantFacts DEF Guardings, NoGuard
  <2>2. conditions \in Seq(UseConditions) /\ Len(conditions) \in Nat
    BY DEF TypeInv, ScannerInv
  <2>3. Len(conditions) + 1 \in DOMAIN conds /\ conds[Len(conditions) + 1] = condition
    BY <2>1, <2>2
  <2>. HIDE DEF conds
  <2>4. context.answers[condition.flag] = condition.enabled
    BY <1>2, <2>3 DEF conditionsApplicability
  <2>5. context.answers[condition.flag] = bash.world[condition.flag]
    BY <2>1 DEF ContextOf, UseConditions
  <2>. QED BY <2>1, <2>4, <2>5
<1>. QED BY <1>4, <1>5 DEF Runs

-----------------------------------------------------------------------------
(* What applies                                                            *)

Applies(bash) ==
  \A r \in requirements, useKnown, targetKnown \in BOOLEAN :
    /\ r.at.origin = bash.file /\ OfPhase(r.at)
    /\ kernelEvidenceApplicability(r.at, ContextOf(bash.world, useKnown, targetKnown)) = "applicable"
    => r.at.line \in bash.ran
AppliesInv ==
  LoopsUnderstood(dialect) => \A start \in Starts, bash \in Shells : bash = Sourcing(start) => Applies(bash)

LEMMA AppliesInit == Init => AppliesInv
BY DEF Init, AppliesInv, Applies

(***************************************************************************)
(* The loops around an assignment that is read run.                        *)
(***************************************************************************)
LEMMA LoopsOfAssignment ==
  ASSUME TypeInv, NestInv, LoopsUnderstood(dialect), OutsideInv, LoopsInv, NEW start \in Starts, NEW bash \in Shells,
         bash = Sourcing(start), Follows(bash), ~dynamicKernelControl(controlStack),
         NEW value \in {"static", "each", "self"}, Has(value), ~IsDynamic(value), NEW i \in DOMAIN controlStack,
         nesting[i] = "loop"
  PROVE  bash.blocks[i].now
<1>0. nesting \in Seq(Kinds) /\ controlStack \in Seq(Frames) /\ DOMAIN nesting = DOMAIN controlStack
  BY DEF TypeInv, ScannerInv
<1>1. Has("loop") /\ controlStack[i].loopValues # <<>> /\ controlStack[i].supported
  BY <1>0 DEF NestInv, Looped, dynamicKernelControl
<1>2. OfPhaseOnly(dialect)
  BY <1>1 DEF LoopsUnderstood, Has, OfPhaseOnly
<1>3. LoopRuns(controlStack[i], bash.blocks[i], nesting[i], Has("emptyArray"))
  BY <1>2 DEF LoopsInv, LoopsMatch
<1>4. controlStack[i].loopValues[1] # {} \/ ~Has("emptyArray")
  <2>1. CASE value = "each"
    <3>1. expandStaticLoopValues(controlStack) # {}
      BY <2>1 DEF IsDynamic
    <3>. QED BY <1>0, <1>1, <3>1, ExpandedFacts
  <2>2. CASE value # "each"
    BY <1>1, <2>2 DEF LoopsUnderstood, Has
  <2>. QED BY <2>1, <2>2
<1>. QED BY <1>1, <1>3, <1>4 DEF LoopRuns

\* What an assignment finds: requirements when it is read, and otherwise a dynamic one.
LineOf(guard, value, operator) ==
  [operator |-> IF value = "self" THEN "+=" ELSE operator, guard |-> guard, each |-> value = "each"]
Unread(value) == dynamicKernelControl(controlStack) \/ value = "unmatched" \/ IsDynamic(value)
FindsRequirements(guard, value, operator) ==
  /\ \A r \in requirements' \ requirements :
       ~Unread(value) /\ r.at = Evidence(guard) /\ r.token \in TokensOf(value) /\ r.operator = AssignmentOperator(value, operator)
  /\ ~Unread(value) =>
       \A t \in TokensOf(value) :
         \E r \in requirements' : r.at = Evidence(guard) /\ r.token = t /\ r.operator = AssignmentOperator(value, operator)
  /\ requirements \subseteq requirements'
FindsDynamic(guard, value) ==
  /\ \A d \in dynamic' \ dynamic : d.at = Evidence(guard)
  /\ Unread(value) => \E d \in dynamic' : d.at = Evidence(guard)
  /\ dynamic \subseteq dynamic'
Finds(guard, value, operator) ==
  /\ Has(value) /\ Has(operator) /\ (value = "each" => InLoop) /\ (value = "self" => operator = "=")
  /\ Writes(Line("assign", LineOf(guard, value, operator)))
  /\ FindsRequirements(guard, value, operator) /\ FindsDynamic(guard, value)
  /\ UNCHANGED <<nesting, function, conditions, controlStack, staticArrays, invocations, calls>>
  /\ pendingLocalReset' = IF value = "unmatched" \/ dynamicKernelControl(controlStack) \/ ~Resets(operator)
                          THEN pendingLocalReset ELSE pendingLocalReset \ {function}

LEMMA NewRequirement ==
  ASSUME ScanAssign
  PROVE  \E guard \in Guards, value \in {"static", "each", "self", "dynamic", "unmatched"}, operator \in {"=", "+="} :
           Finds(guard, value, operator)
<1>1. PICK guard \in Guards, severity \in Severities, operator \in {"=", "+="},
           value \in {"static", "each", "self", "dynamic", "unmatched"} :
        /\ Has(operator) /\ Has(value) /\ ScanAssignment(value, operator, severity, guard)
        /\ value = "each" => InLoop
        /\ value = "self" => operator = "="
  BY AssignmentFacts
<1>2. /\ Writes(Line("assign", LineOf(guard, value, operator)))
      /\ UNCHANGED <<nesting, function, conditions, controlStack, staticArrays, invocations, calls>>
  BY <1>1 DEF ScanAssignment, LineOf
<1>5. ASSUME NEW s, dynamic' = dynamic \cup {[at |-> Evidence(guard), severity |-> s]}
      PROVE  FindsDynamic(guard, value)
  <2>. DEFINE found == [at |-> Evidence(guard), severity |-> s]
  <2>1. found.at = Evidence(guard)
    OBVIOUS
  <2>. HIDE DEF found
  <2>2. dynamic' = dynamic \cup {found}
    BY <1>5 DEF found
  <2>. QED BY <2>1, <2>2 DEF FindsDynamic
<1>6. ASSUME requirements' = requirements \cup
                       {[at |-> Evidence(guard), severity |-> severity, token |-> t,
                         operator |-> AssignmentOperator(value, operator)] : t \in TokensOf(value)},
             ~Unread(value)
      PROVE  FindsRequirements(guard, value, operator)
  <2>. DEFINE new(t) == [at |-> Evidence(guard), severity |-> severity, token |-> t,
                         operator |-> AssignmentOperator(value, operator)]
  <2>1. \A t : new(t).at = Evidence(guard) /\ new(t).token = t /\ new(t).operator = AssignmentOperator(value, operator)
    OBVIOUS
  <2>2. requirements' = requirements \cup {new(t) : t \in TokensOf(value)}
    BY <1>6
  <2>. HIDE DEF new
  <2>3. \A r \in requirements' \ requirements : \E t \in TokensOf(value) : r = new(t)
    BY <2>2
  <2>4. \A t \in TokensOf(value) : new(t) \in requirements'
    BY <2>2
  <2>5. requirements \subseteq requirements'
    BY <2>2
  <2>. QED BY <1>6, <2>1, <2>3, <2>4, <2>5 DEF FindsRequirements
<1>3. ASSUME value = "unmatched" \/ dynamicKernelControl(controlStack) PROVE Finds(guard, value, operator)
  <2>1. /\ dynamic' = dynamic \cup {[at |-> Evidence(guard), severity |-> "fatal"]}
        /\ requirements' = requirements /\ pendingLocalReset' = pendingLocalReset
    BY <1>1, <1>3 DEF ScanAssignment
  <2>2. Unread(value)
    BY <1>3 DEF Unread
  <2>3. FindsRequirements(guard, value, operator)
    BY <2>1, <2>2 DEF FindsRequirements
  <2>4. FindsDynamic(guard, value)
    BY <1>5, <2>1
  <2>. QED BY <1>1, <1>2, <1>3, <2>1, <2>3, <2>4 DEF Finds
<1>4. ASSUME value # "unmatched", ~dynamicKernelControl(controlStack) PROVE Finds(guard, value, operator)
  <2>1. /\ IsDynamic(value) => dynamic' = dynamic \cup {[at |-> Evidence(guard), severity |-> severity]}
                              /\ requirements' = requirements
        /\ ~IsDynamic(value) =>
             /\ dynamic' = dynamic
             /\ requirements' = requirements \cup
                       {[at |-> Evidence(guard), severity |-> severity, token |-> t,
                         operator |-> AssignmentOperator(value, operator)] : t \in TokensOf(value)}
        /\ pendingLocalReset' = IF Resets(operator) THEN pendingLocalReset \ {function} ELSE pendingLocalReset
    BY <1>1, <1>4 DEF ScanAssignment
  <2>2. Unread(value) <=> IsDynamic(value)
    BY <1>4 DEF Unread
  <2>3. FindsDynamic(guard, value)
    <3>1. CASE IsDynamic(value)
      BY <1>5, <2>1, <3>1
    <3>2. CASE ~IsDynamic(value)
      BY <2>1, <2>2, <3>2 DEF FindsDynamic
    <3>. QED BY <3>1, <3>2
  <2>4. FindsRequirements(guard, value, operator)
    <3>1. CASE IsDynamic(value)
      BY <2>1, <2>2, <3>1 DEF FindsRequirements
    <3>2. CASE ~IsDynamic(value)
      BY <1>6, <2>1, <2>2, <3>2
    <3>. QED BY <3>1, <3>2
  <2>. QED BY <1>1, <1>2, <1>4, <2>1, <2>3, <2>4 DEF Finds
<1>. QED BY <1>1, <1>3, <1>4

LEMMA LineOfTypes ==
  ASSUME NEW guard \in Guards, NEW value, NEW operator \in {"=", "+="}
  PROVE  /\ guard \in Guardings /\ LineOf(guard, value, operator) \in Assignments
         /\ LineOf(guard, value, operator) \in WhatOf("assign") /\ "assign" \in LineForms
         /\ LineOf(guard, value, operator).guard = guard
         /\ LineOf(guard, value, operator).operator = (IF value = "self" THEN "+=" ELSE operator)
         /\ LineOf(guard, value, operator).each <=> value = "each"
BY DEF Guards, Guardings, LineForms, WhatOf, Assignments, LineOf

LEMMA AppliesStep ==
  TypeInv /\ NestInv /\ FramesInv /\ OutsideInv /\ LoopsInv /\ AppliesInv /\ [Next]_vars => AppliesInv'
<1>. SUFFICES ASSUME TypeInv, NestInv, FramesInv, OutsideInv, LoopsInv, AppliesInv, [Next]_vars,
                     LoopsUnderstood(dialect'), NEW start \in Starts, NEW after \in Shells, after = Sourcing(start)'
              PROVE  Applies(after)'
  BY DEF AppliesInv, LoopsUnderstood
<1>1. PICK bash \in Shells : bash = Sourcing(start)
  BY SourcingFacts DEF TypeInv, ProgramInv
<1>2. LoopsUnderstood(dialect) /\ Applies(bash) /\ FramesMatch(bash)
  BY <1>1, DialectStays DEF AppliesInv, FramesInv
<1>3. ASSUME bash.ran \subseteq after.ran, after.world = bash.world, after.file = bash.file, requirements' = requirements
      PROVE  Applies(after)'
  <2>1. ASSUME NEW r \in requirements', NEW useKnown \in BOOLEAN, NEW targetKnown \in BOOLEAN,
               r.at.origin = after.file, OfPhase(r.at),
               kernelEvidenceApplicability(r.at, ContextOf(after.world, useKnown, targetKnown)) = "applicable"
        PROVE  r.at.line \in after.ran
    <3>1. r \in requirements /\ r.at.origin = bash.file /\ ContextOf(after.world, useKnown, targetKnown) = ContextOf(bash.world, useKnown, targetKnown)
      BY <1>3, <2>1
    <3>2. r.at.line \in bash.ran
      BY <1>2, <2>1, <3>1 DEF Applies
    <3>. QED BY <1>3, <3>2
  <2>. QED BY <2>1 DEF Applies, OfPhase
<1>4. ASSUME NEW form \in LineForms, NEW what \in WhatOf(form), Writes(Line(form, what)), requirements' = requirements
      PROVE  Applies(after)'
  <2>1. /\ after.world = bash.world /\ after.file = bash.file
        /\ after.ran = IF Follows(bash) /\ (\/ form = "assign" /\ Runs(bash, what.guard)
                                            \/ form = "check" /\ Runs(bash, what))
                       THEN bash.ran \cup {LineNumber} ELSE bash.ran
    BY <1>1, <1>4, RanByLine
  <2>2. bash.ran \subseteq after.ran
    BY <2>1
  <2>. QED BY <1>3, <1>4, <2>1, <2>2
<1>5. ASSUME NEW guard \in Guards, ScanCheck(guard) PROVE Applies(after)'
  <2>1. "check" \in LineForms /\ guard \in WhatOf("check")
    BY DEF LineForms, WhatOf, Guards, Guardings
  <2>. QED BY <1>4, <1>5, <2>1 DEF ScanCheck
<1>6. ASSUME ScanAssign PROVE Applies(after)'
  <2>1. PICK guard \in Guards, value \in {"static", "each", "self", "dynamic", "unmatched"}, operator \in {"=", "+="} :
           Finds(guard, value, operator)
    BY <1>6, NewRequirement
  <2>. DEFINE what == LineOf(guard, value, operator)
  <2>2. guard \in Guardings /\ what.guard = guard /\ what \in WhatOf("assign") /\ "assign" \in LineForms
    BY LineOfTypes
  <2>3. Writes(Line("assign", what)) /\ Has(value)
    BY <2>1 DEF Finds
  <2>4. origin \in {"ebuild", "eclass"}
    BY <2>3 DEF Writes, TypeInv, ProgramInv
  <2>. HIDE DEF what
  <2>5. /\ after.world = bash.world /\ after.file = bash.file /\ bash.ran \subseteq after.ran
        /\ Follows(bash) /\ Runs(bash, guard) => LineNumber \in after.ran
    <3>1. /\ after.world = bash.world /\ after.file = bash.file
          /\ after.ran = IF Follows(bash) /\ (\/ "assign" = "assign" /\ Runs(bash, what.guard)
                                              \/ "assign" = "check" /\ Runs(bash, what))
                         THEN bash.ran \cup {LineNumber} ELSE bash.ran
      BY <1>1, <2>2, <2>3, RanByLine
    <3>. HIDE DEF LineNumber
    <3>. QED BY <2>2, <3>1
  <2>6. ASSUME NEW r \in requirements', NEW useKnown \in BOOLEAN, NEW targetKnown \in BOOLEAN,
               r.at.origin = after.file, OfPhase(r.at),
               kernelEvidenceApplicability(r.at, ContextOf(after.world, useKnown, targetKnown)) = "applicable"
        PROVE  r.at.line \in after.ran
    <3>1. CASE r \in requirements
      BY <1>2, <2>5, <2>6, <3>1 DEF Applies
    <3>2. CASE r \notin requirements
      <4>1. value \in {"static", "each", "self"} /\ ~dynamicKernelControl(controlStack) /\ ~IsDynamic(value)
            /\ r.at = Evidence(guard)
        BY <2>1, <3>2 DEF Finds, FindsRequirements, Unread, IsDynamic
      <4>2. r.at.origin = origin /\ r.at.function = function /\ r.at.line = LineNumber
        BY <4>1 DEF Evidence
      <4>3. Follows(bash)
        BY <2>5, <2>6, <4>2 DEF Follows, OfPhase
      <4>4. \A i \in DOMAIN controlStack : nesting[i] = "loop" => bash.blocks[i].now
        BY <1>1, <1>2, <2>3, <4>1, <4>3, LoopsOfAssignment
      <4>5. kernelEvidenceApplicability(Evidence(guard), ContextOf(bash.world, useKnown, targetKnown)) = "applicable"
        BY <2>5, <2>6, <4>1
      <4>6. Runs(bash, guard)
        BY <1>2, <2>2, <2>4, <4>1, <4>3, <4>4, <4>5, ApplicableRuns
      <4>. QED BY <2>5, <4>2, <4>3, <4>6
    <3>. QED BY <3>1, <3>2
  <2>. QED BY <2>6 DEF Applies, OfPhase
<1>7. ASSUME program' = program, requirements' = requirements PROVE Applies(after)'
  <2>1. after = bash
    BY <1>1, <1>7 DEF Sourcing
  <2>. QED BY <1>3, <1>7, <2>1
<1>8. CASE ScanEclass \/ InheritMissing \/ UNCHANGED vars \/ \E inherits \in BOOLEAN : Read(inherits)
  BY <1>7, <1>8 DEF ScanEclass, InheritMissing, vars, foundVars, Read
<1>. QED BY WrittenCases, <1>4, <1>5, <1>6, <1>8

\* The invariants that what is said of all evidence rests on.
ScanInv == TypeInv /\ NestInv /\ FramesInv /\ ReadInv
LEMMA ScanIsInvariant == Spec => []ScanInv
<1>1. Init => ScanInv
  BY TypeInit, NestInit, FramesInit, ReadInit DEF ScanInv
<1>2. ScanInv /\ [Next]_vars => ScanInv'
  BY TypeStep, NestStep, FramesStep, ReadStep DEF ScanInv
<1>. QED BY <1>1, <1>2, PTL DEF Spec

(***************************************************************************)
(* WHAT APPLIES RUNS, for any tests that the parser understands, any world *)
(* and whatever the caller leaves out, where loops are understood.         *)
(***************************************************************************)
THEOREM ApplicableRequirementsRun ==
  ASSUME \A d \in Dialects : LoopsUnderstood(d)
  PROVE  Spec => []ApplicableIsActive
<1>1. Init => OutsideInv /\ LoopsInv /\ AppliesInv
  BY LoopsInit, AppliesInit
<1>2. ScanInv /\ (OutsideInv /\ LoopsInv /\ AppliesInv) /\ [Next]_vars => (OutsideInv /\ LoopsInv /\ AppliesInv)'
  BY OutsideStep, LoopsStep, AppliesStep DEF ScanInv
<1>3. ScanInv /\ OutsideInv /\ LoopsInv /\ AppliesInv => ApplicableIsActive
  <2>. SUFFICES ASSUME ScanInv, AppliesInv, phase = "read", NEW world \in Worlds,
                       NEW useKnown \in BOOLEAN, NEW targetKnown \in BOOLEAN, NEW r \in requirements, OfPhase(r.at),
                       kernelEvidenceApplicability(r.at, ContextOf(world, useKnown, targetKnown)) = "applicable"
                PROVE  r.at.line \in Bash(world).ran
    BY DEF ApplicableIsActive
  <2>1. TypeInv /\ FramesInv /\ nesting = <<>> /\ program \in Seq(Lines) /\ LoopsUnderstood(dialect)
    BY DEF ScanInv, ReadInv, TypeInv, ProgramInv
  <2>2. /\ EclassShell(world) \in Starts /\ EclassShell(world).world = world /\ EclassShell(world).file = "eclass"
        /\ EbuildShell(world) \in Starts /\ EbuildShell(world).world = world /\ EbuildShell(world).file = "ebuild"
        /\ EbuildShell(world).ran = Sourcing(EclassShell(world)).ran
        /\ Bash(world) = Sourcing(EbuildShell(world))
    BY <2>1, BashIsSourcing
  <2>3. PICK first \in Shells : first = Sourcing(EclassShell(world)) /\ first.world = world /\ first.file = "eclass"
    BY <2>1, <2>2, SourcingFacts
  <2>4. PICK bash \in Shells : /\ bash = Sourcing(EbuildShell(world)) /\ bash.world = world /\ bash.file = "ebuild"
                               /\ first.ran \subseteq bash.ran
    BY <2>1, <2>2, <2>3, SourcingFacts
  <2>5. Applies(first) /\ Applies(bash)
    BY <2>1, <2>2, <2>3, <2>4 DEF AppliesInv
  <2>6. r.at.origin \in {"ebuild", "eclass"}
    BY <2>1 DEF TypeInv, FoundInv, Requirements, Evidences
  <2>7. r.at.line \in bash.ran
    BY <2>3, <2>4, <2>5, <2>6 DEF Applies
  <2>. QED BY <2>2, <2>4, <2>7
<1>4. Spec => []ScanInv
  BY ScanIsInvariant
<1>. QED BY <1>1, <1>2, <1>3, <1>4, PTL DEF Spec

-----------------------------------------------------------------------------
(* Conditions and blocks                                                   *)

\* A condition holds when its block runs, and before the else the block is the first that may.
ConditionOf(condition, block, kind, world) ==
  /\ block.now <=> world[condition.flag] = condition.enabled
  /\ kind = "if" => (block.tried <=> block.now)
ConditionsAt(pos, conds, stack, nest, blocks, world) ==
  /\ Placed(pos, Len(conds), stack, nest)
  /\ \A k \in 1..Len(conds) : ConditionOf(conds[k], blocks[pos[k]], nest[pos[k]], world)
\* Every block that is an if has its condition.
Covers(pos, n, nest) == \A i \in DOMAIN nest : nest[i] \in IfKinds => \E k \in 1..n : pos[k] = i
OnlyUse(d) == {"if", "elif"} \cap d.forms = {}

ConditionsMatch(bash) ==
  Follows(bash) =>
    \E pos : /\ ConditionsAt(pos, conditions, controlStack, nesting, bash.blocks, bash.world)
             /\ OnlyUse(dialect) => Covers(pos, Len(conditions), nesting)
ConditionsInv ==
  ConditionsUnmixed(dialect) =>
    \A start \in Starts, bash \in Shells : bash = Sourcing(start) => ConditionsMatch(bash)

(***************************************************************************)
(* Conditions of blocks that stay.                                         *)
(***************************************************************************)
LEMMA ConditionsStay ==
  ASSUME NEW bash \in Shells, NEW after \in Shells, NEW low \in Nat, Kept(low, bash, after), Follows(bash),
         NEW n \in Nat, NEW conds, Len(conds) = n, NEW pos,
         ConditionsAt(pos, conds, controlStack, nesting, bash.blocks, bash.world),
         \A k \in 1..n : pos[k] <= low, controlStack \in Seq(Frames), controlStack' \in Seq(Frames)
  PROVE  ConditionsAt(pos, conds, controlStack', nesting', after.blocks, bash.world)
<1>1. Placed(pos, n, controlStack, nesting) /\ pos \in [1..n -> 1..Len(controlStack)] /\ Len(controlStack) \in Nat
  BY DEF ConditionsAt, Placed
<1>2. ASSUME NEW k \in 1..n
      PROVE  /\ pos[k] \in 1..low /\ pos[k] \in DOMAIN controlStack' /\ nesting'[pos[k]] = nesting[pos[k]]
             /\ controlStack'[pos[k]] = controlStack[pos[k]] /\ after.blocks[pos[k]] = bash.blocks[pos[k]]
  <2>1. PICK i \in 1..low : i = pos[k]
    BY <1>1
  <2>2. /\ i \in DOMAIN controlStack' /\ nesting'[i] = nesting[i] /\ controlStack'[i] = controlStack[i]
        /\ after.blocks[i] = bash.blocks[i]
    BY DEF Kept
  <2>. QED BY <2>1, <2>2
<1>3. Placed(pos, n, controlStack', nesting')
  <2>1. ASSUME NEW k \in 1..n
        PROVE  /\ pos[k] <= Len(controlStack') /\ controlStack'[pos[k]].supported /\ nesting'[pos[k]] \in IfKinds
    <3>1. controlStack[pos[k]].supported /\ nesting[pos[k]] \in IfKinds
      BY <1>1 DEF Placed
    <3>2. pos[k] \in DOMAIN controlStack'
      BY <1>2
    <3>3. pos[k] <= Len(controlStack')
      BY <3>2
    <3>. QED BY <1>2, <3>1, <3>3
  <2>. QED BY <1>1, <2>1, PlacedMove
<1>. QED BY <1>2, <1>3 DEF ConditionsAt

LEMMA ConditionsCut ==
  ASSUME NEW conds \in Seq(UseConditions), conds # <<>>, NEW pos, NEW stack \in Seq(Frames), NEW nest, NEW blocks, NEW world,
         ConditionsAt(pos, conds, stack, nest, blocks, world)
  PROVE  /\ ConditionsAt(CutPlaces(pos, Len(conds)), Front(conds), stack, nest, blocks, world)
         /\ \A k \in 1..Len(Front(conds)) : CutPlaces(pos, Len(conds))[k] = pos[k] /\ pos[k] < Len(stack)
<1>1. /\ Len(conds) \in Nat /\ Len(conds) # 0 /\ Len(Front(conds)) = Len(conds) - 1
      /\ \A k \in 1..Len(conds) - 1 : Front(conds)[k] = conds[k]
  BY PopFacts
<1>. DEFINE n == Len(conds)
            cut == CutPlaces(pos, n)
<1>2. /\ Placed(cut, n - 1, stack, nest)
      /\ \A k \in 1..n - 1 : cut[k] = pos[k] /\ pos[k] < Len(stack)
  BY <1>1, PlacedCut DEF ConditionsAt
<1>3. \A k \in 1..n - 1 : k \in 1..n
  BY <1>1
<1>4. \A k \in 1..n : ConditionOf(conds[k], blocks[pos[k]], nest[pos[k]], world)
  BY DEF ConditionsAt
<1>. HIDE DEF n, cut
<1>5. \A k \in 1..n - 1 : ConditionOf(Front(conds)[k], blocks[cut[k]], nest[cut[k]], world)
  BY <1>1, <1>2, <1>3, <1>4 DEF n
<1>6. Len(Front(conds)) = n - 1
  BY <1>1 DEF n
<1>7. ConditionsAt(cut, Front(conds), stack, nest, blocks, world)
  BY <1>2, <1>5, <1>6 DEF ConditionsAt
<1>. QED BY <1>2, <1>6, <1>7 DEF cut, n

(***************************************************************************)
(* The condition that else negates is that of the block on top.            *)
(***************************************************************************)
LEMMA ConditionOfTop ==
  ASSUME TypeInv, NestInv, ConditionsUnmixed(dialect), conditions # <<>>, nesting # <<>>, Last(nesting) \in IfKinds,
         NEW pos, Placed(pos, Len(conditions), controlStack, nesting),
         OnlyUse(dialect) => Covers(pos, Len(conditions), nesting)
  PROVE  pos[Len(conditions)] = Len(controlStack)
<1>. DEFINE n == Len(conditions)
            m == Len(controlStack)
<1>1. /\ n \in Nat /\ n # 0 /\ m \in Nat /\ m = Len(nesting) /\ DOMAIN nesting = 1..m
  BY DEF TypeInv, ScannerInv
<1>2. Last(nesting) = nesting[m] /\ m # 0
  <2>1. nesting \in Seq(Kinds)
    BY DEF TypeInv, ScannerInv
  <2>2. Last(nesting) = nesting[Len(nesting)] /\ Len(nesting) # 0
    BY <2>1, PopFacts
  <2>. QED BY <1>1, <2>2
<1>3. n \in 1..n /\ pos[n] \in 1..m /\ \A k, l \in 1..n : k < l => pos[k] < pos[l]
  BY <1>1 DEF Placed
<1>4. Has("ifUse")
  BY DEF NestInv
<1>5. CASE OnlyUse(dialect)
  <2>1. PICK k \in 1..n : pos[k] = m
    BY <1>1, <1>2, <1>5 DEF Covers
  <2>. HIDE DEF n, m
  <2>2. CASE k < n
    <3>1. m < pos[n]
      BY <1>3, <2>1, <2>2
    <3>. QED BY <1>1, <1>3, <3>1
  <2>3. CASE k = n
    BY <2>1, <2>3 DEF n, m
  <2>. QED BY <1>1, <2>2, <2>3
<1>6. CASE ~OnlyUse(dialect)
  <2>1. m <= 1
    <3>1. dialect.depth <= 1 /\ dialect.depth \in Nat
      BY <1>4, <1>6, ConstantFacts DEF ConditionsUnmixed, OnlyUse, Has, TypeInv, ProgramInv
    <3>2. Len(nesting) <= dialect.depth
      BY DEF NestInv
    <3>. QED BY <1>1, <3>1, <3>2
  <2>. QED BY <1>1, <1>2, <1>3, <2>1
<1>. QED BY <1>5, <1>6

(***************************************************************************)
(* The block of a "use flag", and of an else.                              *)
(***************************************************************************)
LEMMA UseBlock ==
  ASSUME TypeInv, NEW condition \in UseTests, ScanIfUse(condition), NEW start \in Starts, NEW bash \in Shells,
         bash = Sourcing(start), FramesMatch(bash), Follows(bash), NEW after \in Shells, after = Sourcing(start)'
  PROVE  ConditionOf(condition, after.blocks[Len(controlStack) + 1], "if", bash.world)
<1>. DEFINE test == use(condition)
<1>1. test \in WrittenTests /\ bash.world \in Worlds
  BY ConstantFacts, TestTypes DEF Shells
<1>2. Writes(Line("if", test)) /\ "if" \in LineForms /\ test \in WhatOf("if")
  BY <1>1 DEF ScanIfUse, LineForms, WhatOf
<1>3. PICK holds \in BOOLEAN : holds <=> bash.world \in test.holds
  OBVIOUS
<1>4. holds <=> bash.world[condition.flag] = condition.enabled
  BY <1>1, <1>3 DEF use
<1>. HIDE DEF test
<1>5. PICK line \in Lines : line.form = "if" /\ line.what = test /\ after = Obey(bash, line)
  <2>1. PICK shell \in Shells, line \in Lines :
          /\ shell = Sourcing(start) /\ line.form = "if" /\ line.what = test
          /\ Follows(shell) => after = Obey(shell, line)
    BY <1>2, TurnOfLine
  <2>. QED BY <2>1
<1>. DEFINE block == [now |-> holds, tried |-> holds, each |-> EachOf(bash.blocks)]
<1>6. after.blocks = Append(bash.blocks, block)
  <2>1. line.form = "if" /\ line.what = test
    BY <1>5
  <2>2. Obey(bash, line).blocks = Append(bash.blocks, [now |-> bash.world \in test.holds, tried |-> bash.world \in test.holds,
                                                      each |-> EachOf(bash.blocks)])
    BY <2>1, ObeyBlocks
  <2>. QED BY <1>3, <1>5, <2>2
<1>7. block.now = holds /\ block.tried = holds
  OBVIOUS
<1>8. bash.blocks \in Seq(Blocks) /\ Len(bash.blocks) = Len(controlStack)
  BY DEF Shells, FramesMatch
<1>. HIDE DEF block
<1>9. after.blocks[Len(controlStack) + 1] = block
  BY <1>6, <1>8
<1>. QED BY <1>4, <1>7, <1>9 DEF ConditionOf

LEMMA ElseBlock ==
  ASSUME TypeInv, ScanElse, NEW start \in Starts, NEW bash \in Shells,
         bash = Sourcing(start), FramesMatch(bash), Follows(bash), NEW after \in Shells, after = Sourcing(start)'
  PROVE  after.blocks[Len(controlStack)].now <=> ~bash.blocks[Len(controlStack)].tried
<1>1. Writes(Line("else", None)) /\ "else" \in LineForms /\ None \in WhatOf("else") /\ nesting # <<>>
  BY DEF ScanElse, LineForms, WhatOf, Inside
<1>2. PICK line \in Lines : line.form = "else" /\ after = Obey(bash, line)
  <2>1. PICK shell \in Shells, line \in Lines :
          /\ shell = Sourcing(start) /\ line.form = "else"
          /\ Follows(shell) => after = Obey(shell, line)
    BY <1>1, TurnOfLine
  <2>. QED BY <2>1
<1>3. bash.blocks \in Seq(Blocks) /\ Len(bash.blocks) = Len(controlStack) /\ bash.blocks # <<>>
  BY <1>1 DEF Shells, FramesMatch, TypeInv, ScannerInv
<1>4. Last(bash.blocks) = bash.blocks[Len(bash.blocks)] /\ Len(bash.blocks) \in DOMAIN bash.blocks /\ Last(bash.blocks) \in Blocks
  BY <1>3, PopFacts
<1>. DEFINE block == [now |-> ~Last(bash.blocks).tried, tried |-> TRUE, each |-> Last(bash.blocks).each]
<1>5. after.blocks = ReplaceTop(bash.blocks, block)
  <2>1. line.form = "else"
    BY <1>2
  <2>2. Obey(bash, line).blocks = ReplaceTop(bash.blocks, block)
    BY <2>1, ObeyBlocks
  <2>. QED BY <1>2, <2>2
<1>6. (block.now <=> ~Last(bash.blocks).tried) /\ block \in Blocks
  BY <1>4 DEF Blocks
<1>. HIDE DEF block
<1>7. after.blocks[Len(controlStack)] = block
  <2>1. PICK m \in Nat \ {0} : m = Len(controlStack) /\ Len(bash.blocks) = m
    BY <1>3
  <2>2. bash.blocks \in Seq(Blocks) /\ block \in Blocks
    BY <1>3, <1>6
  <2>3. after.blocks[m] = block
    BY <1>5, <2>1, <2>2, BlocksReplace
  <2>. QED BY <2>1, <2>3
<1>. QED BY <1>3, <1>4, <1>6, <1>7

LEMMA ConditionsUse ==
  ASSUME TypeInv, NEW condition \in UseTests, ScanIfUse(condition), NEW start \in Starts, NEW bash \in Shells,
         bash = Sourcing(start), FramesMatch(bash), Follows(bash), NEW after \in Shells, after = Sourcing(start)',
         NEW pos, ConditionsAt(pos, conditions, controlStack, nesting, bash.blocks, bash.world)
  PROVE  LET more == MorePlaces(pos, Len(conditions), Len(controlStack) + 1)
         IN /\ ConditionsAt(more, conditions', controlStack', nesting', after.blocks, bash.world)
            /\ Covers(pos, Len(conditions), nesting) => Covers(more, Len(conditions'), nesting')
<1>. DEFINE n == Len(conditions)
            m == Len(controlStack)
            more == MorePlaces(pos, n, m + 1)
            frame == Frame(TRUE, use(condition).node)
<1>1. /\ n \in Nat /\ m \in Nat /\ m = Len(nesting) /\ DOMAIN nesting = 1..m /\ nesting \in Seq(Kinds)
      /\ controlStack \in Seq(Frames) /\ conditions \in Seq(UseConditions) /\ condition \in UseConditions
  BY ConstantFacts DEF TypeInv, ScannerInv
<1>2. /\ nesting' = Append(nesting, "if") /\ controlStack' = Append(controlStack, frame)
      /\ conditions' = Append(conditions, condition)
  BY DEF ScanIfUse, Opens
<1>3. frame \in Frames /\ frame.supported /\ "if" \in IfKinds
  BY <1>1, TestTypes, FrameTypes DEF WrittenTests, Frame, IfKinds
<1>4. Kept(m, bash, after)
  BY KeptByStep
<1>5. ConditionOf(condition, after.blocks[m + 1], "if", bash.world)
  BY UseBlock
<1>6. Placed(pos, n, controlStack, nesting) /\ \A k \in 1..n : ConditionOf(conditions[k], bash.blocks[pos[k]], nesting[pos[k]], bash.world)
  BY DEF ConditionsAt
<1>. HIDE DEF frame
<1>7. Placed(more, n + 1, controlStack', nesting')
  <2>1. Placed(MorePlaces(pos, n, Len(controlStack) + 1), n + 1, Append(controlStack, frame), Append(nesting, "if"))
    <3>. HIDE DEF n, m
    <3>1. Len(controlStack) = Len(nesting)
      BY <1>1 DEF m
    <3>. QED BY <1>1, <1>3, <1>6, <3>1, PlacedMore
  <2>. QED BY <1>2, <2>1
<1>8. /\ Len(conditions') = n + 1 /\ conditions'[n + 1] = condition /\ nesting'[m + 1] = "if" /\ DOMAIN nesting' = 1..m + 1
      /\ \A k \in 1..n : conditions'[k] = conditions[k]
  BY <1>1, <1>2
<1>9. more[n + 1] = m + 1 /\ (\A k \in 1..n : more[k] = pos[k] /\ pos[k] \in 1..m)
  BY <1>1, <1>6 DEF MorePlaces, Placed
<1>. HIDE DEF n, m, more
<1>10. ASSUME NEW k \in 1..n + 1 PROVE ConditionOf(conditions'[k], after.blocks[more[k]], nesting'[more[k]], bash.world)
  <2>1. CASE k = n + 1
    BY <2>1, <1>5, <1>8, <1>9
  <2>2. CASE k \in 1..n
    <3>1. PICK i \in 1..m : i = pos[k] /\ i = more[k]
      BY <2>2, <1>9
    <3>2. nesting'[i] = nesting[i] /\ after.blocks[i] = bash.blocks[i]
      BY <1>4 DEF Kept
    <3>. QED BY <2>2, <1>6, <1>8, <3>1, <3>2
  <2>. QED BY <1>1, <2>1, <2>2
<1>11. ConditionsAt(more, conditions', controlStack', nesting', after.blocks, bash.world)
  BY <1>7, <1>8, <1>10 DEF ConditionsAt
<1>12. ASSUME Covers(pos, n, nesting), NEW i \in 1..m + 1, nesting'[i] \in IfKinds PROVE \E k \in 1..n + 1 : more[k] = i
  <2>1. CASE i = m + 1
    <3>1. n + 1 \in 1..n + 1
      BY <1>1
    <3>. QED BY <2>1, <1>9, <3>1
  <2>2. CASE i \in 1..m
    <3>1. nesting[i] \in IfKinds
      BY <2>2, <1>4, <1>12 DEF Kept
    <3>2. PICK k \in 1..n : pos[k] = i
      BY <2>2, <1>1, <1>12, <3>1 DEF Covers
    <3>3. k \in 1..n + 1
      BY <1>1
    <3>. QED BY <1>9, <3>2, <3>3
  <2>. QED BY <1>1, <2>1, <2>2
<1>. QED BY <1>8, <1>11, <1>12 DEF Covers, more, n, m

(***************************************************************************)
(* else negates the condition of the block on top, and no other.           *)
(***************************************************************************)
LEMMA ConditionsElse ==
  ASSUME TypeInv, NestInv, ConditionsUnmixed(dialect), ScanElse, Guarded, NEW start \in Starts, NEW bash \in Shells,
         bash = Sourcing(start), FramesMatch(bash), Follows(bash), NEW after \in Shells, after = Sourcing(start)',
         NEW pos, ConditionsAt(pos, conditions, controlStack, nesting, bash.blocks, bash.world),
         OnlyUse(dialect) => Covers(pos, Len(conditions), nesting)
  PROVE  /\ ConditionsAt(pos, conditions', controlStack', nesting', after.blocks, bash.world)
         /\ OnlyUse(dialect) => Covers(pos, Len(conditions'), nesting')
<1>. DEFINE n == Len(conditions)
            m == Len(controlStack)
            last == Last(controlStack)
            flipped == [Last(conditions) EXCEPT !.enabled = ~@]
<1>1. /\ n \in Nat /\ m \in Nat /\ m = Len(nesting) /\ DOMAIN nesting = 1..m /\ nesting \in Seq(Kinds)
      /\ controlStack \in Seq(Frames) /\ conditions \in Seq(UseConditions) /\ conditions # <<>> /\ n # 0
  BY DEF TypeInv, ScannerInv, Guarded
<1>2. /\ last.supported /\ nesting # <<>> /\ Last(nesting) = "if" /\ Last(nesting) \in IfKinds
      /\ ReplacesTop(FrameElse(last)) /\ nesting'[m] = "else" /\ last \in Frames
  BY ElseReplaces DEF Guarded, ReplacesTop, IfKinds
<1>3. conditions' = ReplaceTop(conditions, flipped)
  BY DEF ScanElse
<1>4. Kept(m - 1, bash, after) /\ Len(controlStack') = m
  BY KeptByStep
<1>5. Placed(pos, n, controlStack, nesting) /\ \A k \in 1..n : ConditionOf(conditions[k], bash.blocks[pos[k]], nesting[pos[k]], bash.world)
  BY DEF ConditionsAt
<1>6. pos[n] = m
  BY <1>1, <1>2, <1>5, ConditionOfTop
<1>7. /\ Last(conditions) = conditions[n] /\ Last(conditions) \in UseConditions /\ flipped \in UseConditions
      /\ flipped.flag = conditions[n].flag /\ flipped.enabled = ~conditions[n].enabled
  <2>1. Last(conditions) = conditions[n] /\ Last(conditions) \in UseConditions
    BY <1>1, PopFacts
  <2>. QED BY <2>1 DEF UseConditions
<1>8. after.blocks[m].now <=> ~bash.blocks[m].tried
  BY ElseBlock
<1>9. nesting[m] = "if"
  <2>1. Last(nesting) = nesting[Len(nesting)]
    BY <1>1, <1>2, PopFacts
  <2>. QED BY <1>1, <1>2, <2>1
<1>10. FrameElse(last).supported /\ controlStack'[m] = FrameElse(last)
  BY <1>2 DEF FrameElse, Frames, ReplacesTop
<1>. HIDE DEF flipped, last, n, m
<1>11. Len(conditions') = n /\ conditions'[n] = flipped /\ \A k \in 1..n : k # n => conditions'[k] = conditions[k]
  <2>1. DOMAIN conditions = 1..n
    BY <1>1 DEF n
  <2>2. /\ Len(ReplaceTop(conditions, flipped)) = Len(conditions) /\ ReplaceTop(conditions, flipped)[Len(conditions)] = flipped
        /\ \A k \in DOMAIN conditions : k # Len(conditions) => ReplaceTop(conditions, flipped)[k] = conditions[k]
    BY <1>1, <1>7, ReplaceFacts
  <2>. QED BY <1>3, <2>1, <2>2 DEF n
<1>12. ASSUME NEW k \in 1..n, k # n
       PROVE  /\ pos[k] \in 1..m - 1 /\ pos[k] \in DOMAIN controlStack' /\ nesting'[pos[k]] = nesting[pos[k]]
              /\ controlStack'[pos[k]] = controlStack[pos[k]] /\ after.blocks[pos[k]] = bash.blocks[pos[k]]
  <2>1. n \in 1..n /\ k < n
    BY <1>1, <1>12
  <2>2. pos[k] < pos[n] /\ pos[k] \in 1..m
    BY <1>5, <2>1 DEF Placed, m
  <2>3. PICK i \in 1..m - 1 : i = pos[k]
    BY <1>1, <1>6, <2>2
  <2>4. /\ i \in DOMAIN controlStack' /\ nesting'[i] = nesting[i] /\ controlStack'[i] = controlStack[i]
        /\ after.blocks[i] = bash.blocks[i]
    BY <1>4 DEF Kept
  <2>. QED BY <2>3, <2>4
<1>13. ASSUME NEW k \in 1..n
       PROVE  /\ pos[k] <= Len(controlStack') /\ controlStack'[pos[k]].supported /\ nesting'[pos[k]] \in IfKinds
              /\ ConditionOf(conditions'[k], after.blocks[pos[k]], nesting'[pos[k]], bash.world)
  <2>1. CASE k = n
    <3>1. ConditionOf(conditions[n], bash.blocks[m], "if", bash.world)
      BY <2>1, <1>5, <1>6, <1>9
    <3>2. bash.world[conditions[n].flag] \in BOOLEAN /\ conditions[n].enabled \in BOOLEAN
      BY <1>7 DEF Shells, Worlds, UseConditions, Atoms
    <3>3. ConditionOf(flipped, after.blocks[m], "else", bash.world)
      BY <1>7, <1>8, <3>1, <3>2 DEF ConditionOf
    <3>. QED BY <2>1, <1>1, <1>2, <1>4, <1>6, <1>10, <1>11, <3>3 DEF IfKinds
  <2>2. CASE k # n
    <3>1. pos[k] <= m
      BY <1>1, <1>12, <2>2
    <3>. QED BY <2>2, <1>4, <1>5, <1>11, <1>12, <3>1 DEF Placed
  <2>. QED BY <2>1, <2>2
<1>14. Placed(pos, n, controlStack', nesting')
  <2>1. controlStack' \in Seq(Frames)
    BY <1>2 DEF ReplacesTop, StackTypes
  <2>2. Len(controlStack) \in Nat
    BY <1>1
  <2>. QED BY <1>1, <1>5, <1>13, <2>1, <2>2, PlacedMove
<1>15. ConditionsAt(pos, conditions', controlStack', nesting', after.blocks, bash.world)
  BY <1>11, <1>13, <1>14 DEF ConditionsAt
<1>16. ASSUME Covers(pos, n, nesting) PROVE Covers(pos, n, nesting')
  <2>1. DOMAIN nesting' = 1..m
    <3>1. nesting' \in Seq(Kinds) /\ Len(nesting') = m
      BY <1>2, <1>4 DEF ReplacesTop, StackTypes
    <3>. QED BY <3>1
  <2>2. ASSUME NEW i \in 1..m, nesting'[i] \in IfKinds PROVE \E k \in 1..n : pos[k] = i
    <3>1. CASE i = m
      BY <3>1, <1>1, <1>6
    <3>2. CASE i # m
      <4>1. i \in 1..m - 1
        BY <1>1, <3>2
      <4>2. nesting[i] \in IfKinds
        BY <1>4, <2>2, <4>1 DEF Kept
      <4>. QED BY <1>1, <1>16, <4>2 DEF Covers
    <3>. QED BY <3>1, <3>2
  <2>. QED BY <2>1, <2>2 DEF Covers
<1>. QED BY <1>11, <1>15, <1>16 DEF n

(***************************************************************************)
(* A step leaves what ran, and the world.                                  *)
(***************************************************************************)
LEMMA StepKeepsWorld ==
  ASSUME TypeInv, [Next]_vars, NEW start \in Starts, NEW bash \in Shells, bash = Sourcing(start),
         NEW after \in Shells, after = Sourcing(start)'
  PROVE  after.world = bash.world /\ after.file = bash.file /\ bash.ran \subseteq after.ran
<1>1. ASSUME NEW form \in LineForms, NEW what \in WhatOf(form), Writes(Line(form, what))
      PROVE  after.world = bash.world /\ after.file = bash.file /\ bash.ran \subseteq after.ran
  <2>1. /\ after.world = bash.world /\ after.file = bash.file
        /\ after.ran = IF Follows(bash) /\ (\/ form = "assign" /\ Runs(bash, what.guard)
                                            \/ form = "check" /\ Runs(bash, what))
                       THEN bash.ran \cup {LineNumber} ELSE bash.ran
    BY <1>1, RanByLine
  <2>. QED BY <2>1
<1>2. ASSUME NEW guard \in Guards, ScanCheck(guard) PROVE \E form \in LineForms : \E what \in WhatOf(form) : Writes(Line(form, what))
  <2>1. "check" \in LineForms /\ guard \in WhatOf("check")
    BY DEF LineForms, WhatOf, Guards, Guardings
  <2>. QED BY <1>2, <2>1 DEF ScanCheck
<1>3. ASSUME ScanAssign PROVE \E form \in LineForms : \E what \in WhatOf(form) : Writes(Line(form, what))
  <2>1. PICK guard \in Guards, value \in {"static", "each", "self", "dynamic", "unmatched"}, operator \in {"=", "+="} :
           Finds(guard, value, operator)
    BY <1>3, NewRequirement
  <2>2. LineOf(guard, value, operator) \in WhatOf("assign") /\ "assign" \in LineForms
    BY LineOfTypes
  <2>. QED BY <2>1, <2>2 DEF Finds
<1>4. ASSUME program' = program PROVE after = bash
  BY <1>4 DEF Sourcing
<1>5. CASE ScanEclass \/ InheritMissing \/ UNCHANGED vars \/ \E inherits \in BOOLEAN : Read(inherits)
  BY <1>4, <1>5 DEF ScanEclass, InheritMissing, vars, Read
<1>. QED BY WrittenCases, <1>1, <1>2, <1>3, <1>5

LEMMA ConditionsInit == Init => ConditionsInv
<1>. SUFFICES ASSUME Init, NEW start \in Starts, NEW bash \in Shells PROVE ConditionsMatch(bash)
  BY DEF ConditionsInv
<1>. DEFINE pos == [k \in 1..0 |-> k]
<1>1. conditions = <<>> /\ nesting = <<>> /\ Len(conditions) = 0 /\ DOMAIN nesting = {} /\ 1..0 = {}
  BY DEF Init
<1>2. pos \in [1..0 -> 1..Len(controlStack)]
  OBVIOUS
<1>. HIDE DEF pos
<1>3. ConditionsAt(pos, conditions, controlStack, nesting, bash.blocks, bash.world)
  BY <1>1, <1>2 DEF ConditionsAt, Placed
<1>4. Covers(pos, Len(conditions), nesting)
  BY <1>1 DEF Covers
<1>. QED BY <1>3, <1>4 DEF ConditionsMatch

(***************************************************************************)
(* Conditions go on to match when none is of a block that changes.         *)
(***************************************************************************)
LEMMA ConditionsGo ==
  ASSUME NEW bash \in Shells, NEW after \in Shells, NEW low \in Nat, Kept(low, bash, after), after.world = bash.world,
         ConditionsMatch(bash), StackTypes, StackTypes', dialect' = dialect, NEW n \in Nat, Len(conditions') = n,
         \A pos : ConditionsAt(pos, conditions, controlStack, nesting, bash.blocks, bash.world)
                    /\ (OnlyUse(dialect) => Covers(pos, Len(conditions), nesting))
           => \E cut : /\ ConditionsAt(cut, conditions', controlStack, nesting, bash.blocks, bash.world)
                       /\ \A k \in 1..n : cut[k] <= low
                       /\ OnlyUse(dialect) => Covers(cut, n, nesting')
  PROVE  ConditionsMatch(after)'
<1>. SUFFICES ASSUME Follows(after)'
              PROVE  \E pos : /\ ConditionsAt(pos, conditions', controlStack', nesting', after.blocks, after.world)
                              /\ OnlyUse(dialect') => Covers(pos, Len(conditions'), nesting')
  BY DEF ConditionsMatch
<1>1. Follows(bash)
  BY DEF Kept
<1>2. PICK pos : /\ ConditionsAt(pos, conditions, controlStack, nesting, bash.blocks, bash.world)
                 /\ OnlyUse(dialect) => Covers(pos, Len(conditions), nesting)
  BY <1>1 DEF ConditionsMatch
<1>3. PICK cut : /\ ConditionsAt(cut, conditions', controlStack, nesting, bash.blocks, bash.world)
                 /\ \A k \in 1..n : cut[k] <= low
                 /\ OnlyUse(dialect) => Covers(cut, n, nesting')
  BY <1>2
<1>4. ConditionsAt(cut, conditions', controlStack', nesting', after.blocks, bash.world)
  BY <1>1, <1>3, ConditionsStay DEF StackTypes
<1>. QED BY <1>3, <1>4

LEMMA CoversStay ==
  ASSUME NEW bash, NEW after, NEW low \in Nat, Kept(low, bash, after), nesting' \in Seq(Kinds),
         \A i \in DOMAIN nesting' : i > low => nesting'[i] \notin IfKinds, NEW pos, NEW n, Covers(pos, n, nesting)
  PROVE  Covers(pos, n, nesting')
<1>1. ASSUME NEW i \in DOMAIN nesting', nesting'[i] \in IfKinds PROVE \E k \in 1..n : pos[k] = i
  <2>1. i \in 1..low
    <3>1. i \in Nat \ {0}
      BY <1>1
    <3>. QED BY <1>1, <3>1
  <2>2. i \in DOMAIN nesting /\ nesting[i] \in IfKinds
    BY <1>1, <2>1 DEF Kept
  <2>. QED BY <2>2 DEF Covers
<1>. QED BY <1>1 DEF Covers

LEMMA ConditionsStep == TypeInv /\ NestInv /\ FramesInv /\ ConditionsInv /\ [Next]_vars => ConditionsInv'
<1>. SUFFICES ASSUME TypeInv, NestInv, FramesInv, ConditionsInv, [Next]_vars, ConditionsUnmixed(dialect'),
                     NEW start \in Starts, NEW after \in Shells, after = Sourcing(start)'
              PROVE  ConditionsMatch(after)'
  BY DEF ConditionsInv, ConditionsUnmixed
<1>. DEFINE n == Len(conditions)
            m == Len(controlStack)
<1>0. /\ StackTypes /\ m \in Nat /\ Len(nesting) = m /\ nesting \in Seq(Kinds) /\ program \in Seq(Lines)
      /\ m = 0 \/ m - 1 \in Nat
      /\ conditions \in Seq(UseConditions) /\ n \in Nat /\ controlStack \in Seq(Frames)
  BY DEF TypeInv, ScannerInv, StackTypes, ProgramInv
<1>1. PICK bash \in Shells : bash = Sourcing(start)
  BY <1>0, SourcingFacts
<1>2. /\ dialect' = dialect /\ ConditionsUnmixed(dialect) /\ FramesMatch(bash) /\ ConditionsMatch(bash)
      /\ after.world = bash.world
  BY <1>1, DialectStays, StepKeepsWorld DEF FramesInv, ConditionsInv
<1>3. StackTypes' /\ nesting' \in Seq(Kinds) /\ DOMAIN nesting' = 1..Len(controlStack')
  <2>1. StackTypes' /\ nesting' \in Seq(Kinds) /\ Len(nesting') = Len(controlStack')
    BY TypeStep DEF TypeInv, ScannerInv, StackTypes
  <2>2. DOMAIN nesting' = 1..Len(nesting')
    BY <2>1
  <2>. QED BY <2>1, <2>2
<1>. DEFINE Below(low, pos) ==
              /\ \A k \in 1..n : pos[k] <= low
              /\ OnlyUse(dialect) /\ Covers(pos, n, nesting) => \A i \in DOMAIN nesting' : i > low => nesting'[i] \notin IfKinds
<1>4. ASSUME NEW low \in Nat, Kept(low, bash, after), conditions' = conditions,
             ASSUME NEW pos, Placed(pos, n, controlStack, nesting) PROVE Below(low, pos)
      PROVE  ConditionsMatch(after)'
  <2>1. ASSUME NEW pos, ConditionsAt(pos, conditions, controlStack, nesting, bash.blocks, bash.world),
               OnlyUse(dialect) => Covers(pos, n, nesting)
        PROVE  \E cut : /\ ConditionsAt(cut, conditions', controlStack, nesting, bash.blocks, bash.world)
                        /\ \A k \in 1..n : cut[k] <= low
                        /\ OnlyUse(dialect) => Covers(cut, n, nesting')
    <3>1. Below(low, pos)
      BY <1>4, <2>1 DEF ConditionsAt
    <3>2. OnlyUse(dialect) => Covers(pos, n, nesting')
      BY <1>3, <1>4, <2>1, <3>1, CoversStay
    <3>. QED BY <1>4, <2>1, <3>1, <3>2
  <2>2. Len(conditions') = n
    BY <1>4
  <2>. QED BY <1>0, <1>2, <1>3, <1>4, <2>1, <2>2, ConditionsGo
\* nothing on top has a condition
<1>5. ASSUME NEW pos, Placed(pos, n, controlStack, nesting), m # 0, ~Guarded \/ Last(nesting) \notin IfKinds
      PROVE  \A k \in 1..n : pos[k] <= m - 1
  <2>. SUFFICES ASSUME NEW k \in 1..n, ~(pos[k] <= m - 1) PROVE FALSE
    OBVIOUS
  <2>1. pos[k] \in 1..m /\ controlStack[pos[k]].supported /\ nesting[pos[k]] \in IfKinds
    BY <1>5 DEF Placed
  <2>2. pos[k] = m
    BY <1>0, <2>1
  <2>3. controlStack # <<>> /\ nesting # <<>> /\ conditions # <<>>
    BY <1>0, <1>5 DEF StackTypes
  <2>4. Last(controlStack) = controlStack[m] /\ Last(nesting) = nesting[m]
    BY <1>0, <2>3, PopFacts DEF StackTypes
  <2>. QED BY <1>5, <2>1, <2>2, <2>3, <2>4 DEF Guarded
<1>6. ASSUME NEW pos, Placed(pos, n, controlStack, nesting) PROVE \A k \in 1..n : pos[k] <= m
  <2>1. \A k \in 1..n : pos[k] \in 1..m
    BY <1>6 DEF Placed
  <2>. QED BY <1>0, <2>1
<1>7. ASSUME NEW low \in Nat, Len(controlStack') = low PROVE \A i \in DOMAIN nesting' : ~(i > low)
  BY <1>3, <1>7
<1>. HIDE DEF m, n, Below
\* tests
<1>8. ASSUME NEW condition \in UseTests, ScanIfUse(condition) PROVE ConditionsMatch(after)'
  <2>1. CASE ~Follows(bash)
    <3>1. ~Follows(after)'
      BY <1>1, <1>2, <1>8, <2>1, KeptByStep DEF Kept
    <3>. QED BY <3>1 DEF ConditionsMatch
  <2>2. CASE Follows(bash)
    <3>1. PICK pos : /\ ConditionsAt(pos, conditions, controlStack, nesting, bash.blocks, bash.world)
                     /\ OnlyUse(dialect) => Covers(pos, n, nesting)
      BY <1>2, <2>2 DEF ConditionsMatch, n
    <3>2. PICK more : /\ ConditionsAt(more, conditions', controlStack', nesting', after.blocks, bash.world)
                      /\ Covers(pos, n, nesting) => Covers(more, Len(conditions'), nesting')
      BY <1>1, <1>2, <1>8, <2>2, <3>1, ConditionsUse DEF n
    <3>. QED BY <1>2, <3>1, <3>2 DEF ConditionsMatch
  <2>. QED BY <2>1, <2>2
<1>9. ASSUME NEW test \in Tests, ScanIf(test) PROVE ConditionsMatch(after)'
  <2>1. Kept(m, bash, after)
    BY <1>1, <1>2, <1>9, KeptByStep DEF m
  <2>2. conditions' = conditions /\ ~OnlyUse(dialect)
    BY <1>9 DEF ScanIf, OnlyUse, Has
  <2>3. ASSUME NEW pos, Placed(pos, n, controlStack, nesting) PROVE Below(m, pos)
    BY <1>6, <2>2, <2>3 DEF Below
  <2>. QED BY <1>0, <1>4, <2>1, <2>2, <2>3
<1>10. ASSUME Kept(m, bash, after), Len(controlStack') = m + 1, nesting'[m + 1] \notin IfKinds, conditions' = conditions
       PROVE  ConditionsMatch(after)'
  <2>1. ASSUME NEW i \in DOMAIN nesting', i > m PROVE nesting'[i] \notin IfKinds
    <3>1. i = m + 1
      <4>1. i \in Nat /\ i <= m + 1
        BY <1>0, <1>3, <1>10, <2>1
      <4>. QED BY <1>0, <2>1, <4>1
    <3>. QED BY <1>10, <3>1
  <2>2. ASSUME NEW pos, Placed(pos, n, controlStack, nesting) PROVE Below(m, pos)
    BY <1>6, <2>1, <2>2 DEF Below
  <2>. QED BY <1>0, <1>4, <1>10, <2>2
<1>11. ASSUME NEW atom \in Opaque, ScanBlock(atom) PROVE ConditionsMatch(after)'
  <2>1. Kept(m, bash, after) /\ Len(controlStack') = m + 1
    BY <1>1, <1>2, <1>11, KeptByStep DEF m
  <2>2. nesting' = Append(nesting, "block") /\ conditions' = conditions
    BY <1>11 DEF ScanBlock, Opens
  <2>3. nesting'[m + 1] \notin IfKinds
    <3>1. nesting'[m + 1] = "block"
      BY <1>0, <2>2
    <3>. QED BY <3>1 DEF IfKinds
  <2>. QED BY <1>10, <2>1, <2>2, <2>3
<1>12. ASSUME NEW ofKeys \in BOOLEAN, ScanLoop(ofKeys) PROVE ConditionsMatch(after)'
  <2>1. Kept(m, bash, after) /\ Len(controlStack') = m + 1
    BY <1>1, <1>2, <1>12, KeptByStep DEF m
  <2>2. nesting' = Append(nesting, "loop") /\ conditions' = conditions
    BY <1>12 DEF ScanLoop, Opens
  <2>3. nesting'[m + 1] \notin IfKinds
    <3>1. nesting'[m + 1] = "loop"
      BY <1>0, <2>2
    <3>. QED BY <3>1 DEF IfKinds
  <2>. QED BY <1>10, <2>1, <2>2, <2>3
\* else and elif
<1>13. ASSUME ScanElse PROVE ConditionsMatch(after)'
  <2>1. Kept(m - 1, bash, after) /\ Len(controlStack') = m
    BY <1>1, <1>2, <1>13, KeptByStep DEF m
  <2>2. nesting # <<>> /\ Last(nesting) = "if" /\ m # 0 /\ nesting[m] \in IfKinds
    <3>1. nesting # <<>> /\ Last(nesting) = "if"
      BY <1>13 DEF ScanElse, Inside
    <3>2. Last(nesting) = nesting[Len(nesting)] /\ Len(nesting) # 0
      BY <1>0, <3>1, PopFacts
    <3>. QED BY <1>0, <3>1, <3>2 DEF IfKinds
  <2>3. CASE ~Guarded
    <3>1. conditions' = conditions
      BY <1>13, <2>3 DEF ScanElse
    <3>2. ASSUME NEW pos, Placed(pos, n, controlStack, nesting) PROVE Below(m - 1, pos)
      <4>1. \A k \in 1..n : pos[k] <= m - 1
        BY <1>5, <2>2, <2>3, <3>2
      <4>2. ~Covers(pos, n, nesting)
        <5>. SUFFICES ASSUME Covers(pos, n, nesting) PROVE FALSE
          OBVIOUS
        <5>1. m \in DOMAIN nesting
          BY <1>0, <2>2
        <5>2. PICK k \in 1..n : pos[k] = m
          BY <2>2, <5>1 DEF Covers
        <5>. QED BY <1>0, <4>1, <5>2
      <4>. QED BY <4>1, <4>2 DEF Below
    <3>. QED BY <1>0, <1>4, <2>1, <2>2, <3>1, <3>2
  <2>4. CASE Guarded /\ ~Follows(bash)
    <3>1. ~Follows(after)'
      BY <2>1, <2>4 DEF Kept
    <3>. QED BY <3>1 DEF ConditionsMatch
  <2>5. CASE Guarded /\ Follows(bash)
    <3>1. PICK pos : /\ ConditionsAt(pos, conditions, controlStack, nesting, bash.blocks, bash.world)
                     /\ OnlyUse(dialect) => Covers(pos, Len(conditions), nesting)
      BY <1>2, <2>5 DEF ConditionsMatch
    <3>2. /\ ConditionsAt(pos, conditions', controlStack', nesting', after.blocks, bash.world)
          /\ OnlyUse(dialect) => Covers(pos, Len(conditions'), nesting')
      BY <1>1, <1>2, <1>13, <2>5, <3>1, ConditionsElse
    <3>. QED BY <1>2, <3>2 DEF ConditionsMatch
  <2>. QED BY <2>3, <2>4, <2>5
\* the condition of the top goes
<1>14. ASSUME Guarded, Kept(m - 1, bash, after), m # 0, conditions' = Front(conditions), Last(nesting) \in IfKinds,
              ~OnlyUse(dialect) \/ Len(controlStack') = m - 1
       PROVE  ConditionsMatch(after)'
  <2>1. conditions # <<>> /\ nesting # <<>>
    BY <1>0, <1>14 DEF Guarded
  <2>2. Len(Front(conditions)) = n - 1 /\ n - 1 \in Nat
    BY <1>0, <2>1, PopFacts DEF n
  <2>3. ASSUME NEW pos, ConditionsAt(pos, conditions, controlStack, nesting, bash.blocks, bash.world),
               OnlyUse(dialect) => Covers(pos, Len(conditions), nesting)
        PROVE  \E cut : /\ ConditionsAt(cut, conditions', controlStack, nesting, bash.blocks, bash.world)
                        /\ \A k \in 1..n - 1 : cut[k] <= m - 1
                        /\ OnlyUse(dialect) => Covers(cut, n - 1, nesting')
    <3>1. Placed(pos, Len(conditions), controlStack, nesting)
      BY <2>3 DEF ConditionsAt
    <3>2. PICK cut : /\ ConditionsAt(cut, Front(conditions), controlStack, nesting, bash.blocks, bash.world)
                     /\ \A k \in 1..n - 1 : cut[k] = pos[k] /\ pos[k] < m
      <4>. DEFINE cut == CutPlaces(pos, Len(conditions))
      <4>1. /\ ConditionsAt(cut, Front(conditions), controlStack, nesting, bash.blocks, bash.world)
            /\ \A k \in 1..Len(Front(conditions)) : cut[k] = pos[k] /\ pos[k] < Len(controlStack)
        BY <1>0, <2>1, <2>3, ConditionsCut
      <4>. HIDE DEF cut
      <4>. QED BY <2>2, <4>1 DEF m
    <3>3. pos[n] = m
      BY <1>2, <1>14, <2>1, <2>3, <3>1, ConditionOfTop DEF n, m
    <3>4. \A k \in 1..n - 1 : cut[k] <= m - 1
      <4>1. ASSUME NEW k \in 1..n - 1 PROVE cut[k] <= m - 1
        <5>1. k \in 1..n
          BY <1>0
        <5>2. pos[k] \in 1..m
          BY <3>1, <5>1 DEF Placed, n, m
        <5>. QED BY <1>0, <3>2, <5>2
      <4>. QED BY <4>1
    <3>5. ASSUME OnlyUse(dialect) PROVE Covers(cut, n - 1, nesting')
      <4>1. Covers(pos, n, nesting) /\ Len(controlStack') = m - 1
        BY <1>14, <2>3, <3>5 DEF n
      <4>2. ASSUME NEW i \in DOMAIN nesting', nesting'[i] \in IfKinds PROVE \E k \in 1..n - 1 : cut[k] = i
        <5>1. i \in 1..m - 1
          BY <1>3, <4>1, <4>2
        <5>2. i \in DOMAIN nesting /\ nesting[i] \in IfKinds
          BY <1>14, <4>2, <5>1 DEF Kept
        <5>3. PICK k \in 1..n : pos[k] = i
          BY <4>1, <5>2 DEF Covers
        <5>4. k # n
          BY <1>0, <3>3, <5>1, <5>3
        <5>5. k \in 1..n - 1
          BY <1>0, <5>4
        <5>. QED BY <3>2, <5>3, <5>5
      <4>. QED BY <4>2 DEF Covers
    <3>. QED BY <1>14, <3>2, <3>4, <3>5
  <2>4. Len(conditions') = n - 1 /\ m - 1 \in Nat
    BY <1>0, <1>14, <2>2
  <2>. QED BY <1>2, <1>3, <1>0, <1>14, <2>2, <2>3, <2>4, ConditionsGo DEF n
<1>15. ASSUME NEW test \in Tests, ScanElif(test) PROVE ConditionsMatch(after)'
  <2>1. Kept(m - 1, bash, after) /\ Len(controlStack') = m
    BY <1>1, <1>2, <1>15, KeptByStep DEF m
  <2>2. nesting # <<>> /\ Last(nesting) \in IfKinds /\ m # 0 /\ ~OnlyUse(dialect)
    BY <1>0, <1>15 DEF ScanElif, Inside, OnlyUse, Has, IfKinds
  <2>3. CASE ~Guarded
    <3>1. conditions' = conditions
      BY <1>15, <2>3 DEF ScanElif
    <3>2. ASSUME NEW pos, Placed(pos, n, controlStack, nesting) PROVE Below(m - 1, pos)
      BY <1>5, <2>2, <2>3, <3>2 DEF Below
    <3>. QED BY <1>0, <1>4, <2>1, <2>2, <3>1, <3>2
  <2>4. CASE Guarded
    <3>1. conditions' = Front(conditions)
      BY <1>15, <2>4 DEF ScanElif
    <3>. QED BY <1>14, <2>1, <2>2, <2>4, <3>1
  <2>. QED BY <2>3, <2>4
\* the ends
<1>16. ASSUME ScanFi \/ ScanDone PROVE ConditionsMatch(after)'
  <2>1. Kept(m - 1, bash, after) /\ Len(controlStack') = m - 1
    BY <1>1, <1>2, <1>16, KeptByStep DEF m
  <2>2. m # 0
    BY <1>16, ClosesTop, <1>0 DEF m, StackTypes
  <2>3. CASE ScanFi /\ Guarded
    <3>1. conditions' = Front(conditions) /\ Last(nesting) \in IfKinds
      BY <2>3 DEF ScanFi, Inside, IfKinds
    <3>. QED BY <1>14, <2>1, <2>2, <2>3, <3>1
  <2>4. CASE ~(ScanFi /\ Guarded)
    <3>1. conditions' = conditions /\ (~Guarded \/ Last(nesting) \notin IfKinds)
      BY <1>16, <2>4 DEF ScanFi, ScanDone, Inside, IfKinds
    <3>2. m - 1 \in Nat
      BY <1>0, <2>2
    <3>3. ASSUME NEW pos, Placed(pos, n, controlStack, nesting) PROVE Below(m - 1, pos)
      BY <1>5, <1>7, <2>1, <2>2, <3>1, <3>2, <3>3 DEF Below
    <3>. QED BY <1>4, <2>1, <3>1, <3>2, <3>3
  <2>. QED BY <2>3, <2>4
\* the stack stays
<1>17. ASSUME Kept(m, bash, after), controlStack' = controlStack, conditions' = conditions PROVE ConditionsMatch(after)'
  <2>1. Len(controlStack') = m
    BY <1>17 DEF m
  <2>2. ASSUME NEW pos, Placed(pos, n, controlStack, nesting) PROVE Below(m, pos)
    BY <1>0, <1>6, <1>7, <2>1, <2>2 DEF Below
  <2>. QED BY <1>0, <1>4, <1>17, <2>2
<1>18. ASSUME NEW name \in Functions, ScanCall(name) PROVE ConditionsMatch(after)'
  <2>1. Kept(m, bash, after) /\ controlStack' = controlStack
    BY <1>1, <1>2, <1>18, KeptByStep DEF m
  <2>. QED BY <1>17, <1>18, <2>1 DEF ScanCall, scanVars
<1>19. ASSUME ScanLocal PROVE ConditionsMatch(after)'
  <2>1. Kept(m, bash, after) /\ controlStack' = controlStack
    BY <1>1, <1>2, <1>19, KeptByStep DEF m
  <2>. QED BY <1>17, <1>19, <2>1 DEF ScanLocal
<1>20. ASSUME NEW guard \in Guards, ScanCheck(guard) PROVE ConditionsMatch(after)'
  <2>1. Kept(m, bash, after) /\ controlStack' = controlStack
    BY <1>1, <1>2, <1>20, KeptByStep DEF m
  <2>. QED BY <1>17, <1>20, <2>1 DEF ScanCheck, scanVars
<1>21. ASSUME ScanAssign PROVE ConditionsMatch(after)'
  <2>1. Kept(m, bash, after) /\ controlStack' = controlStack
    BY <1>1, <1>2, <1>21, KeptByStep DEF m
  <2>2. conditions' = conditions
    BY <1>21, NewRequirement DEF Finds
  <2>. QED BY <1>17, <2>1, <2>2
<1>22. ASSUME NEW array \in Arrays \cup {NoArray, RuntimeArray}, ScanArray(array) PROVE ConditionsMatch(after)'
  <2>1. Kept(m, bash, after) /\ controlStack' = controlStack
    BY <1>1, <1>2, <1>22, KeptByStep DEF m
  <2>. QED BY <1>17, <1>22, <2>1 DEF ScanArray
<1>23. ASSUME UNCHANGED vars \/ \E inherits \in BOOLEAN : Read(inherits) PROVE ConditionsMatch(after)'
  <2>1. conditions' = conditions /\ controlStack' = controlStack /\ Kept(m, bash, after)
    BY <1>1, <1>2, <1>23, KeptByStep DEF m, vars, scanVars, Read
  <2>. QED BY <1>17, <2>1
\* nothing is open
<1>24. ASSUME conditions' = <<>>, nesting' = <<>> PROVE ConditionsMatch(after)'
  <2>. DEFINE pos == [k \in 1..0 |-> k]
  <2>1. Len(conditions') = 0 /\ DOMAIN nesting' = {} /\ 1..0 = {}
    BY <1>24
  <2>2. pos \in [1..0 -> 1..Len(controlStack')]
    OBVIOUS
  <2>. HIDE DEF pos
  <2>3. ConditionsAt(pos, conditions', controlStack', nesting', after.blocks, after.world)
    BY <2>1, <2>2 DEF ConditionsAt, Placed
  <2>4. Covers(pos, Len(conditions'), nesting')
    BY <2>1 DEF Covers
  <2>. QED BY <2>3, <2>4 DEF ConditionsMatch
<1>25. ASSUME ScanBrace \/ ScanEclass \/ \E name \in Functions : ScanFunction(name) PROVE ConditionsMatch(after)'
  BY <1>24, <1>25 DEF ScanBrace, ScanEclass, EndOfFile, ScanFunction
<1>26. ASSUME InheritMissing PROVE ConditionsMatch(after)'
  BY <1>26 DEF InheritMissing, ConditionsMatch, Follows, Shells
<1>. QED BY NextCases, <1>8, <1>9, <1>11, <1>12, <1>13, <1>15, <1>16, <1>18, <1>19, <1>20, <1>21, <1>22, <1>23,
            <1>25, <1>26

-----------------------------------------------------------------------------
(* What ran                                                                *)

LEMMA SeenByLine ==
  ASSUME TypeInv, NEW form \in LineForms, NEW what \in WhatOf(form), Writes(Line(form, what)),
         NEW start \in Starts, NEW bash \in Shells, bash = Sourcing(start), NEW after, after = Sourcing(start)'
  PROVE  after.seen = IF Follows(bash) /\ form = "check" /\ Runs(bash, what)
                      THEN bash.seen \cup {<<LineNumber, bash.value>>} ELSE bash.seen
<1>1. PICK line \in Lines :
        /\ line.form = form /\ line.what = what /\ line.number = LineNumber
        /\ Follows(bash) => after = Obey(bash, line)
        /\ ~Follows(bash) => after = bash
  BY TurnOfLine
<1>2. CASE ~Follows(bash)
  BY <1>1, <1>2
<1>3. CASE Follows(bash)
  <2>1. line.form = form /\ line.what = what /\ line.number = LineNumber
    BY <1>1
  <2>2. Obey(bash, line).seen = IF line.form = "check" /\ Runs(bash, line.what)
                                THEN bash.seen \cup {<<line.number, bash.value>>} ELSE bash.seen
    BY ObeyValue
  <2>3. after = Obey(bash, line)
    BY <1>1, <1>3
  <2>. HIDE DEF LineNumber
  <2>. QED BY <1>1, <1>3, <2>1, <2>2, <2>3
<1>. QED BY <1>2, <1>3

\* Only lines of the phase run, and what is seen is seen at one that ran.
RanHere(start, bash) ==
  /\ \A n \in bash.ran \ start.ran :
       n \in DOMAIN program /\ program[n].fn \in {NoFunction, Phase} /\ program[n].origin = bash.file
  /\ \A check \in bash.seen \ start.seen : check[1] \in bash.ran /\ check[1] \in DOMAIN program
RanInv == \A start \in Starts, bash \in Shells : bash = Sourcing(start) => RanHere(start, bash)

LEMMA RanInit == Init => RanInv
<1>. SUFFICES ASSUME Init, NEW start \in Starts PROVE Sourcing(start) = start
  BY DEF RanInv, RanHere
<1>. QED BY Turns!FoldEmpty DEF Init, Sourcing

\* The steps are lines, each of which may find something, and ends.
LEMMA LineCases ==
  ASSUME TypeInv, [Next]_vars
  PROVE  \/ \E form \in LineForms \ {"check", "assign"} : \E what \in WhatOf(form) :
              Writes(Line(form, what)) /\ UNCHANGED <<requirements, dynamic, invocations>>
         \/ \E guard \in Guards :
              /\ "check" \in LineForms /\ guard \in WhatOf("check") /\ guard \in Guardings
              /\ Writes(Line("check", guard)) /\ UNCHANGED <<requirements, dynamic>>
              /\ invocations' = invocations \cup {Evidence(guard)}
         \/ \E guard \in Guards, value \in {"static", "each", "self", "dynamic", "unmatched"}, operator \in {"=", "+="} :
              /\ "assign" \in LineForms /\ LineOf(guard, value, operator) \in WhatOf("assign") /\ guard \in Guardings
              /\ Finds(guard, value, operator) /\ Writes(Line("assign", LineOf(guard, value, operator)))
              /\ LineOf(guard, value, operator).guard = guard
         \/ /\ program' = program /\ dialect' = dialect /\ requirements' = requirements
            /\ \A d \in dynamic' : d \in dynamic \/ d.at = EvidenceOfFile(NoFunction)
            /\ \A i \in invocations' : i \in invocations \/ i = EvidenceOfFile("pkg_setup")
<1>1. ASSUME NEW guard \in Guards, ScanCheck(guard)
      PROVE  /\ "check" \in LineForms /\ guard \in WhatOf("check") /\ guard \in Guardings
             /\ Writes(Line("check", guard)) /\ UNCHANGED <<requirements, dynamic>>
             /\ invocations' = invocations \cup {Evidence(guard)}
  BY <1>1 DEF LineForms, WhatOf, Guards, Guardings, ScanCheck
<1>2. ASSUME ScanAssign
      PROVE  \E guard \in Guards, value \in {"static", "each", "self", "dynamic", "unmatched"}, operator \in {"=", "+="} :
               /\ "assign" \in LineForms /\ LineOf(guard, value, operator) \in WhatOf("assign") /\ guard \in Guardings
               /\ Finds(guard, value, operator) /\ Writes(Line("assign", LineOf(guard, value, operator)))
               /\ LineOf(guard, value, operator).guard = guard
  <2>1. PICK guard \in Guards, value \in {"static", "each", "self", "dynamic", "unmatched"}, operator \in {"=", "+="} :
           Finds(guard, value, operator)
    BY <1>2, NewRequirement
  <2>2. /\ guard \in Guardings /\ LineOf(guard, value, operator) \in WhatOf("assign") /\ "assign" \in LineForms
        /\ LineOf(guard, value, operator).guard = guard
    BY LineOfTypes
  <2>3. Writes(Line("assign", LineOf(guard, value, operator)))
    BY <2>1 DEF Finds
  <2>. QED BY <2>1, <2>2, <2>3
<1>3. ASSUME ScanEclass \/ InheritMissing \/ UNCHANGED vars \/ \E inherits \in BOOLEAN : Read(inherits)
      PROVE  /\ program' = program /\ dialect' = dialect /\ requirements' = requirements
             /\ \A d \in dynamic' : d \in dynamic \/ d.at = EvidenceOfFile(NoFunction)
             /\ \A i \in invocations' : i \in invocations \/ i = EvidenceOfFile("pkg_setup")
  <2>1. CASE ScanEclass \/ UNCHANGED vars
    BY <2>1 DEF ScanEclass, vars, foundVars
  <2>2. CASE InheritMissing
    <3>1. \A d \in dynamic' : d \in dynamic \/ d = [at |-> EvidenceOfFile(NoFunction), severity |-> "fatal"]
      BY <2>2 DEF InheritMissing
    <3>2. \A d \in dynamic' : d \in dynamic \/ d.at = EvidenceOfFile(NoFunction)
      BY <3>1
    <3>. QED BY <2>2, <3>2 DEF InheritMissing
  <2>3. ASSUME NEW inherits \in BOOLEAN, Read(inherits)
        PROVE  /\ program' = program /\ dialect' = dialect /\ requirements' = requirements /\ dynamic' = dynamic
               /\ \A i \in invocations' : i \in invocations \/ i = EvidenceOfFile("pkg_setup")
    BY <2>3 DEF Read
  <2>. QED BY <1>3, <2>1, <2>2, <2>3
<1>. QED BY WrittenCases, <1>1, <1>2, <1>3

LEMMA RanStep == TypeInv /\ RanInv /\ [Next]_vars => RanInv'
<1>. SUFFICES ASSUME TypeInv, RanInv, [Next]_vars, NEW start \in Starts, NEW after \in Shells, after = Sourcing(start)'
              PROVE  RanHere(start, after)'
  BY DEF RanInv
<1>1. PICK bash \in Shells : bash = Sourcing(start)
  BY SourcingFacts DEF TypeInv, ProgramInv
<1>2. RanHere(start, bash)
  BY <1>1 DEF RanInv
<1>3. ASSUME NEW form \in LineForms, NEW what \in WhatOf(form), Writes(Line(form, what)) PROVE RanHere(start, after)'
  <2>1. /\ program'[LineNumber] = Line(form, what) /\ LineNumber \in DOMAIN program'
        /\ \A n \in DOMAIN program : n \in DOMAIN program' /\ program'[n] = program[n]
    BY <1>3, WriteFacts DEF TypeInv, ScannerInv
  <2>2. program'[LineNumber].fn = function /\ program'[LineNumber].origin = origin
    BY <2>1 DEF Line
  <2>7. after.file = bash.file
    BY <1>1, StepKeepsWorld
  <2>3. after.ran = IF Follows(bash) /\ (\/ form = "assign" /\ Runs(bash, what.guard)
                                         \/ form = "check" /\ Runs(bash, what))
                    THEN bash.ran \cup {LineNumber} ELSE bash.ran
    BY <1>1, <1>3, RanByLine
  <2>4. after.seen = IF Follows(bash) /\ form = "check" /\ Runs(bash, what)
                     THEN bash.seen \cup {<<LineNumber, bash.value>>} ELSE bash.seen
    BY <1>1, <1>3, SeenByLine
  <2>. HIDE DEF LineNumber
  <2>5. ASSUME NEW n \in after.ran \ start.ran 
        PROVE  n \in DOMAIN program' /\ program'[n].fn \in {NoFunction, Phase} /\ program'[n].origin = after.file
    <3>1. CASE n \in bash.ran
      BY <1>2, <2>1, <2>5, <2>7, <3>1 DEF RanHere
    <3>2. CASE n \notin bash.ran
      <4>1. n = LineNumber /\ Follows(bash)
        BY <2>3, <2>5, <3>2
      <4>. QED BY <2>1, <2>2, <2>7, <4>1 DEF Follows
    <3>. QED BY <3>1, <3>2
  <2>6. ASSUME NEW check \in after.seen \ start.seen PROVE check[1] \in after.ran /\ check[1] \in DOMAIN program'
    <3>1. CASE check \in bash.seen
      BY <1>2, <2>1, <2>3, <2>6, <3>1 DEF RanHere
    <3>2. CASE check \notin bash.seen
      <4>1. check = <<LineNumber, bash.value>> /\ Follows(bash) /\ form = "check" /\ Runs(bash, what)
        BY <2>4, <2>6, <3>2
      <4>2. check[1] = LineNumber /\ LineNumber \in after.ran
        BY <2>3, <4>1
      <4>. QED BY <2>1, <4>2
    <3>. QED BY <3>1, <3>2
  <2>. QED BY <2>5, <2>6 DEF RanHere
<1>4. ASSUME program' = program PROVE RanHere(start, after)'
  <2>1. after = bash
    BY <1>1, <1>4 DEF Sourcing
  <2>. QED BY <1>2, <1>4, <2>1 DEF RanHere
<1>. QED BY LineCases, <1>3, <1>4

(***************************************************************************)
(* Lines of a function come after its head, and checks are in functions.   *)
(***************************************************************************)
DefinedInv ==
  /\ function # NoFunction => function \in Defined
  /\ \A n \in DOMAIN program : /\ program[n].fn # NoFunction => program[n].fn \in Defined
                               /\ program[n].form = "check" => program[n].fn # NoFunction
LEMMA DefinedInit == Init => DefinedInv
BY DEF Init, DefinedInv

LEMMA DefinedStep == TypeInv /\ DefinedInv /\ [Next]_vars => DefinedInv'
<1>. SUFFICES ASSUME TypeInv, DefinedInv, [Next]_vars PROVE DefinedInv'
  OBVIOUS
<1>1. ASSUME NEW form \in LineForms, NEW what \in WhatOf(form), Writes(Line(form, what)),
             function' \in {function, NoFunction} \/ (form = "function" /\ function' = what /\ function = NoFunction),
             form = "check" => function # NoFunction
      PROVE  DefinedInv'
  <2>1. /\ program'[LineNumber] = Line(form, what) /\ LineNumber \in DOMAIN program'
        /\ \A n \in DOMAIN program : n \in DOMAIN program' /\ program'[n] = program[n]
        /\ \A n \in DOMAIN program' : n \in DOMAIN program \/ n = LineNumber
    <3>1. /\ program'[LineNumber] = Line(form, what) /\ DOMAIN program' = 1..Len(program) + 1
          /\ DOMAIN program = 1..Len(program) /\ Len(program) \in Nat /\ LineNumber = Len(program) + 1
          /\ \A n \in DOMAIN program : program'[n] = program[n]
      BY <1>1, WriteFacts DEF TypeInv, ScannerInv
    <3>. QED BY <3>1
  <2>2. program'[LineNumber].fn = function /\ program'[LineNumber].form = form /\ program'[LineNumber].what = what
    BY <2>1 DEF Line
  <2>. HIDE DEF LineNumber
  <2>3. Defined \subseteq Defined' /\ (form = "function" => what \in Defined')
    BY <2>1, <2>2 DEF Defined
  <2>4. function' # NoFunction => function' \in Defined'
    BY <1>1, <2>3 DEF DefinedInv
  <2>5. \A n \in DOMAIN program' : /\ program'[n].fn # NoFunction => program'[n].fn \in Defined'
                                   /\ program'[n].form = "check" => program'[n].fn # NoFunction
    BY <1>1, <2>1, <2>2, <2>3 DEF DefinedInv
  <2>. QED BY <2>4, <2>5 DEF DefinedInv
<1>a. /\ LineForms = {"function", "close", "if", "elif", "else", "fi", "for", "array", "local", "call", "check", "assign"}
      /\ WhatOf("if") = WrittenTests /\ WhatOf("elif") = WrittenTests /\ WhatOf("for") = BOOLEAN
      /\ WhatOf("array") = AnyArrays /\ WhatOf("check") = Guardings /\ WhatOf("function") = Functions
      /\ None \in WhatOf("else") /\ None \in WhatOf("fi") /\ None \in WhatOf("local") /\ None \in WhatOf("call")
      /\ None \in WhatOf("close")
  BY DEF LineForms, WhatOf
<1>2. ASSUME NEW form \in LineForms \ {"check"}, NEW what \in WhatOf(form), Writes(Line(form, what)), function' = function
      PROVE  DefinedInv'
  BY <1>1, <1>2
<1>3. ASSUME NEW name \in Functions, ScanFunction(name) PROVE DefinedInv'
  BY <1>1, <1>3, <1>a DEF ScanFunction
<1>4. ASSUME NEW name \in Functions, ScanCall(name) PROVE DefinedInv'
  BY <1>2, <1>4, <1>a DEF ScanCall, scanVars
<1>5. ASSUME NEW condition \in UseTests, ScanIfUse(condition) PROVE DefinedInv'
  BY <1>2, <1>5, <1>a, ConstantFacts, TestTypes DEF ScanIfUse
<1>6. ASSUME NEW test \in Tests, ScanIf(test) \/ ScanElif(test) PROVE DefinedInv'
  BY <1>2, <1>6, <1>a, ConstantFacts DEF ScanIf, ScanElif
<1>7. ASSUME NEW atom \in Opaque, ScanBlock(atom) PROVE DefinedInv'
  BY <1>2, <1>7, <1>a, TestTypes DEF ScanBlock
<1>8. ASSUME NEW guard \in Guards, ScanCheck(guard) PROVE DefinedInv'
  BY <1>1, <1>8, <1>a DEF ScanCheck, scanVars, Guards, Guardings
<1>9. ASSUME NEW array \in Arrays \cup {NoArray, RuntimeArray}, ScanArray(array) PROVE DefinedInv'
  BY <1>2, <1>9, <1>a, ConstantFacts DEF ScanArray
<1>10. ASSUME NEW ofKeys \in BOOLEAN, ScanLoop(ofKeys) PROVE DefinedInv'
  BY <1>2, <1>10, <1>a DEF ScanLoop
<1>11. CASE ScanBrace
  BY <1>1, <1>11, <1>a DEF ScanBrace
<1>12. CASE ScanElse \/ ScanFi \/ ScanDone \/ ScanLocal
  BY <1>2, <1>12, <1>a DEF ScanElse, ScanFi, ScanDone, ScanLocal
<1>13. CASE ScanAssign
  <2>1. PICK guard \in Guards, value \in {"static", "each", "self", "dynamic", "unmatched"}, operator \in {"=", "+="} :
           Finds(guard, value, operator)
    BY <1>13, NewRequirement
  <2>2. LineOf(guard, value, operator) \in WhatOf("assign") /\ "assign" \in LineForms \ {"check"}
    BY LineOfTypes
  <2>3. Writes(Line("assign", LineOf(guard, value, operator))) /\ function' = function
    BY <2>1 DEF Finds
  <2>. QED BY <1>2, <2>2, <2>3
<1>14. CASE ScanEclass \/ InheritMissing \/ UNCHANGED vars \/ \E inherits \in BOOLEAN : Read(inherits)
  <2>1. program' = program /\ function' \in {function, NoFunction}
    BY <1>14 DEF ScanEclass, InheritMissing, vars, scanVars, Read
  <2>. QED BY <2>1 DEF DefinedInv, Defined
<1>. QED BY NextCases, <1>3, <1>4, <1>5, <1>6, <1>7, <1>8, <1>9, <1>10, <1>11, <1>12, <1>13, <1>14

\* Evidence is not denied in the world, and left open only when not all is told.
Upheld(evidence, world) ==
  \A useKnown, targetKnown \in BOOLEAN :
    LET answer == kernelEvidenceApplicability(evidence, ContextOf(world, useKnown, targetKnown))
    IN answer # "inapplicable" /\ (useKnown /\ targetKnown => answer # "indeterminate")

(***************************************************************************)
(* What runs is not denied: neither its conditions nor its frames are.     *)
(***************************************************************************)
LEMMA DeniedParts ==
  ASSUME NEW evidence, NEW context, NEW answer \in {"inapplicable", "indeterminate"},
         kernelEvidenceApplicability(evidence, context) = answer
  PROVE  evidence.expression[context] = answer \/ conditionsApplicability(evidence.conditions, context) = answer
BY DEF kernelEvidenceApplicability, combineApplicability, AllApplicable

LEMMA RunsIsKept ==
  ASSUME TypeInv, NestInv, NEW bash \in Shells, FramesMatch(bash), ConditionsMatch(bash), Follows(bash),
         origin \in {"ebuild", "eclass"}, NEW guard \in Guardings, Runs(bash, guard)
  PROVE  Upheld(Evidence(guard), bash.world)
<1>. SUFFICES ASSUME NEW useKnown \in BOOLEAN, NEW targetKnown \in BOOLEAN
              PROVE  LET answer == kernelEvidenceApplicability(Evidence(guard), ContextOf(bash.world, useKnown, targetKnown))
                     IN answer # "inapplicable" /\ (useKnown /\ targetKnown => answer # "indeterminate")
  BY DEF Upheld
<1>. DEFINE context == ContextOf(bash.world, useKnown, targetKnown)
            conds == conditions \o guard
            n == Len(conditions)
<1>1. /\ context \in Contexts /\ bash.world \in Worlds /\ Evidence(guard) \in Evidences
      /\ Evidence(guard).conditions = conds /\ Evidence(guard).expression = joinedControlExpression(controlStack)
  <2>1. context \in Contexts /\ bash.world \in Worlds
    BY ContextTypes DEF Shells
  <2>. QED BY <2>1, EvidenceType DEF Evidence
<1>2. /\ bash.blocks \in Seq(Blocks) /\ controlStack \in Seq(Frames) /\ Len(bash.blocks) = Len(controlStack)
      /\ DOMAIN bash.blocks = DOMAIN controlStack /\ DOMAIN controlStack = 1..Len(controlStack) /\ Len(nesting) = Len(controlStack)
      /\ nesting \in Seq(Kinds) /\ DOMAIN nesting = DOMAIN controlStack
      /\ conditions \in Seq(UseConditions) /\ n \in Nat
  BY DEF Shells, FramesMatch, TypeInv, ScannerInv
<1>3. ASSUME NEW answer \in {"inapplicable", "indeterminate"}, answer = "indeterminate" => useKnown /\ targetKnown
      PROVE  joinedControlExpression(controlStack)[context] # answer
  <2>. DEFINE told == {controlStack[j].expression[context] : j \in {k \in DOMAIN controlStack : controlStack[k].supported}}
  <2>. SUFFICES ASSUME joinedControlExpression(controlStack)[context] = answer PROVE FALSE
    OBVIOUS
  <2>1. joinedControlExpression(controlStack)[context] = AllApplicable(told)
    BY <1>1 DEF joinedControlExpression
  <2>2. answer \in told
    BY <2>1 DEF AllApplicable
  <2>3. PICK j \in DOMAIN controlStack : controlStack[j].supported /\ controlStack[j].expression[context] = answer
    BY <2>2
  <2>4. CASE nesting[j] = "loop"
    <3>1. controlStack[j].expression = NoExpression
      BY <1>2, <2>3, <2>4 DEF NestInv, Looped
    <3>. QED BY <1>1, <2>3, <3>1 DEF NoExpression
  <2>5. CASE nesting[j] # "loop"
    <3>1. Fits(controlStack[j].expression, bash.world, bash.blocks[j].now)
      BY <2>3, <2>5 DEF FramesMatch, Matches
    <3>2. bash.blocks[j].now
      BY <1>2, <2>3 DEF Runs
    <3>. QED BY <1>3, <2>3, <3>1, <3>2 DEF Fits
  <2>. QED BY <2>4, <2>5
<1>6. useKnown => conditionsApplicability(conds, context) # "indeterminate"
  BY <1>1, ContextTypes DEF conditionsApplicability, Shells
<1>4. conditionsApplicability(conds, context) # "inapplicable"
  <2>. SUFFICES ASSUME conditionsApplicability(conds, context) = "inapplicable" PROVE FALSE
    OBVIOUS
  <2>1. PICK k \in DOMAIN conds : context.answers[conds[k].flag] # conds[k].enabled
    BY DEF conditionsApplicability
  <2>2. \A flag \in Flags : context.answers[flag] = bash.world[flag]
    BY DEF ContextOf
  <2>3. PICK condition \in UseConditions : condition = conds[k] /\ bash.world[condition.flag] = condition.enabled
    <3>1. CASE k \in 1..n
      <4>1. conds[k] = conditions[k] /\ conditions[k] \in UseConditions
        <5>1. guard \in Seq(UseConditions)
          <6>1. CASE guard = <<>>
            BY <6>1
          <6>2. CASE guard # <<>>
            <7>1. PICK u \in UseTests : guard = <<u>>
              BY <6>2 DEF Guardings, NoGuard
            <7>2. u \in UseConditions
              BY ConstantFacts
            <7>. QED BY <7>1, <7>2
          <6>. QED BY <6>1, <6>2
        <5>. QED BY <1>2, <3>1, <5>1
      <4>2. PICK pos : ConditionsAt(pos, conditions, controlStack, nesting, bash.blocks, bash.world)
        BY DEF ConditionsMatch
      <4>3. PICK i \in 1..Len(controlStack) : i = pos[k]
        BY <3>1, <4>2 DEF ConditionsAt, Placed
      <4>4. bash.blocks[i].now <=> bash.world[conditions[k].flag] = conditions[k].enabled
        BY <3>1, <4>2, <4>3 DEF ConditionsAt, ConditionOf
      <4>5. bash.blocks[i].now
        BY <1>2, <4>3 DEF Runs
      <4>. QED BY <4>1, <4>4, <4>5
    <3>2. CASE k \notin 1..n
      <4>1. guard # <<>>
        BY <1>2, <2>1, <3>2
      <4>2. PICK u \in UseTests : guard = <<u>>
        BY <4>1 DEF Guardings, NoGuard
      <4>3. u \in UseConditions /\ k = n + 1 /\ conds[k] = u
        BY <1>2, <2>1, <3>2, <4>2, ConstantFacts
      <4>4. bash.world[u.flag] = u.enabled
        <5>1. 1 \in DOMAIN guard /\ guard[1] = u
          BY <4>2
        <5>. QED BY <5>1 DEF Runs
      <4>. QED BY <4>3, <4>4
    <3>. QED BY <3>1, <3>2
  <2>. HIDE DEF conds, context
  <2>4. context.answers[condition.flag] # condition.enabled
    BY <2>1, <2>3
  <2>5. condition.flag \in Flags
    BY <2>3 DEF UseConditions
  <2>. QED BY <2>2, <2>3, <2>4, <2>5
<1>. HIDE DEF context
<1>7. kernelEvidenceApplicability(Evidence(guard), context) # "inapplicable"
  BY <1>1, <1>3, <1>4, DeniedParts
<1>8. useKnown /\ targetKnown => kernelEvidenceApplicability(Evidence(guard), context) # "indeterminate"
  BY <1>1, <1>3, <1>6, DeniedParts
<1>. QED BY <1>7, <1>8 DEF context

\* All evidence, of lines read or not and of checks.
FoundAt == {found.at : found \in requirements \cup dynamic} \cup invocations
Keeps(start, bash) ==
  \A evidence \in FoundAt : evidence.line \in bash.ran \ start.ran => Upheld(evidence, bash.world)
KeepsInv ==
  ConditionsUnmixed(dialect) => \A start \in Starts, bash \in Shells : bash = Sourcing(start) => Keeps(start, bash)

LEMMA KeepsInit == Init => KeepsInv
BY DEF Init, KeepsInv, Keeps, FoundAt

LEMMA FoundLines ==
  ASSUME LocatedInv, NEW evidence \in FoundAt
  PROVE  evidence.line \in DOMAIN program \/ (evidence.line = 0 /\ evidence.function \in {NoFunction, "pkg_setup"})
<1>1. CASE \E found \in requirements : evidence = found.at
  BY <1>1 DEF LocatedInv, Located
<1>2. CASE \E found \in dynamic : evidence = found.at
  BY <1>2 DEF LocatedInv, Located, EvidenceOfFile
<1>3. CASE evidence \in invocations
  BY <1>3 DEF LocatedInv, Located, EvidenceOfFile
<1>. QED BY <1>1, <1>2, <1>3 DEF FoundAt

LEMMA KeepsStep ==
  TypeInv /\ NestInv /\ FramesInv /\ ConditionsInv /\ LocatedInv /\ RanInv /\ KeepsInv /\ [Next]_vars => KeepsInv'
<1>. SUFFICES ASSUME TypeInv, NestInv, FramesInv, ConditionsInv, LocatedInv, RanInv, KeepsInv, [Next]_vars,
                     ConditionsUnmixed(dialect'), NEW start \in Starts, NEW after \in Shells, after = Sourcing(start)'
              PROVE  Keeps(start, after)'
  BY DEF KeepsInv, ConditionsUnmixed
<1>1. PICK bash \in Shells : bash = Sourcing(start)
  BY SourcingFacts DEF TypeInv, ProgramInv
<1>2. /\ FramesMatch(bash) /\ ConditionsMatch(bash) /\ RanHere(start, bash) /\ Keeps(start, bash)
      /\ after.world = bash.world
  BY <1>1, DialectStays, StepKeepsWorld DEF FramesInv, ConditionsInv, RanInv, KeepsInv
<1>3. ASSUME \A evidence \in FoundAt' : evidence.line \in after.ran \ start.ran => Upheld(evidence, bash.world)
      PROVE  Keeps(start, after)'
  BY <1>2, <1>3 DEF Keeps
<1>4. ASSUME NEW evidence \in FoundAt, evidence.line \in bash.ran \ start.ran PROVE Upheld(evidence, bash.world)
  BY <1>2, <1>4 DEF Keeps
<1>5. ASSUME NEW form \in LineForms, NEW what \in WhatOf(form), Writes(Line(form, what)), NEW guard \in Guardings,
             \A evidence \in FoundAt' :
               \/ evidence \in FoundAt
               \/ /\ evidence = Evidence(guard)
                  /\ (form = "assign" /\ what.guard = guard) \/ (form = "check" /\ what = guard)
      PROVE  Keeps(start, after)'
  <2>1. LineNumber \notin DOMAIN program /\ LineNumber # 0 /\ origin \in {"ebuild", "eclass"}
    <3>1. /\ DOMAIN program = 1..Len(program) /\ Len(program) \in Nat /\ LineNumber = Len(program) + 1
          /\ origin \in {"ebuild", "eclass"}
      BY <1>5, WriteFacts DEF TypeInv, ScannerInv
    <3>. QED BY <3>1
  <2>2. after.ran = IF Follows(bash) /\ (\/ form = "assign" /\ Runs(bash, what.guard)
                                         \/ form = "check" /\ Runs(bash, what))
                    THEN bash.ran \cup {LineNumber} ELSE bash.ran
    BY <1>1, <1>5, RanByLine
  <2>. HIDE DEF LineNumber
  <2>3. ASSUME NEW evidence \in FoundAt', evidence.line \in after.ran \ start.ran PROVE Upheld(evidence, bash.world)
    <3>1. CASE evidence \in FoundAt
      <4>1. evidence.line # LineNumber
        BY <2>1, <3>1, FoundLines
      <4>2. evidence.line \in bash.ran \ start.ran
        BY <2>2, <2>3, <4>1
      <4>. QED BY <1>4, <3>1, <4>2
    <3>2. CASE evidence \notin FoundAt
      <4>1. /\ evidence = Evidence(guard)
            /\ (form = "assign" /\ what.guard = guard) \/ (form = "check" /\ what = guard)
        BY <1>5, <2>3, <3>2
      <4>2. evidence.line = LineNumber
        BY <4>1 DEF Evidence
      <4>3. LineNumber \notin bash.ran
        BY <1>2, <2>1, <2>3, <4>2 DEF RanHere
      <4>4. Follows(bash) /\ Runs(bash, guard)
        BY <2>2, <2>3, <4>1, <4>2, <4>3
      <4>5. Upheld(Evidence(guard), bash.world)
        BY <1>2, <1>5, <2>1, <4>4, RunsIsKept
      <4>. QED BY <4>1, <4>5
    <3>. QED BY <3>1, <3>2
  <2>. QED BY <1>3, <2>3
<1>6. ASSUME NEW form \in LineForms \ {"check", "assign"}, NEW what \in WhatOf(form),
             Writes(Line(form, what)), UNCHANGED <<requirements, dynamic, invocations>>
      PROVE  Keeps(start, after)'
  <2>1. \A evidence \in FoundAt' : evidence \in FoundAt
    BY <1>6 DEF FoundAt
  <2>2. NoGuard \in Guardings
    BY DEF Guardings
  <2>. QED BY <1>5, <1>6, <2>1, <2>2
<1>7. ASSUME NEW guard \in Guards, "check" \in LineForms, guard \in WhatOf("check"), guard \in Guardings,
             Writes(Line("check", guard)), UNCHANGED <<requirements, dynamic>>,
             invocations' = invocations \cup {Evidence(guard)}
      PROVE  Keeps(start, after)'
  <2>1. \A evidence \in FoundAt' : evidence \in FoundAt \/ evidence = Evidence(guard)
    BY <1>7 DEF FoundAt
  <2>. QED BY <1>5, <1>7, <2>1
<1>8. ASSUME NEW guard \in Guards, NEW value \in {"static", "each", "self", "dynamic", "unmatched"}, NEW operator \in {"=", "+="},
             "assign" \in LineForms, LineOf(guard, value, operator) \in WhatOf("assign"), guard \in Guardings,
             Finds(guard, value, operator), Writes(Line("assign", LineOf(guard, value, operator))),
             LineOf(guard, value, operator).guard = guard
      PROVE  Keeps(start, after)'
  <2>1. \A found \in requirements' \cup dynamic' : found \in requirements \cup dynamic \/ found.at = Evidence(guard)
    BY <1>8 DEF Finds, FindsRequirements, FindsDynamic
  <2>2. invocations' = invocations
    BY <1>8 DEF Finds
  <2>3. \A evidence \in FoundAt' : evidence \in FoundAt \/ evidence = Evidence(guard)
    BY <2>1, <2>2 DEF FoundAt
  <2>. QED BY <1>5, <1>8, <2>3
<1>9. ASSUME program' = program, requirements' = requirements,
             \A d \in dynamic' : d \in dynamic \/ d.at = EvidenceOfFile(NoFunction),
             \A i \in invocations' : i \in invocations \/ i = EvidenceOfFile("pkg_setup")
      PROVE  Keeps(start, after)'
  <2>1. after = bash
    BY <1>1, <1>9 DEF Sourcing
  <2>2. \A evidence \in FoundAt' : evidence \in FoundAt \/ evidence.line = 0
    BY <1>9 DEF FoundAt, EvidenceOfFile
  <2>3. 0 \notin bash.ran \ start.ran
    <3>1. 0 \notin DOMAIN program
      BY DEF TypeInv, ProgramInv
    <3>. QED BY <1>2, <3>1 DEF RanHere
  <2>. QED BY <1>3, <1>4, <2>1, <2>2, <2>3
<1>. QED BY LineCases, <1>6, <1>7, <1>8, <1>9

\* What is known of all evidence, in ebuilds whose conditions are those of their blocks.
EvidenceInv == ConditionsInv /\ LocatedInv /\ RanInv /\ DefinedInv /\ KeepsInv
LEMMA EvidenceIsInvariant == Spec => [](ScanInv /\ EvidenceInv)
<1>1. Init => EvidenceInv
  <2>1. Init => LocatedInv
    BY DEF Init, LocatedInv
  <2>. QED BY <2>1, ConditionsInit, RanInit, DefinedInit, KeepsInit DEF EvidenceInv
<1>2. ScanInv /\ EvidenceInv /\ [Next]_vars => EvidenceInv'
  BY ConditionsStep, LocatedStep, RanStep, DefinedStep, KeepsStep DEF ScanInv, EvidenceInv
<1>3. Spec => []ScanInv
  BY ScanIsInvariant
<1>. QED BY <1>1, <1>2, <1>3, PTL DEF Spec

(***************************************************************************)
(* Of what runs, in the eclass or in the ebuild.                           *)
(***************************************************************************)
LEMMA WhatRan ==
  ASSUME TypeInv, FramesInv, RanInv, KeepsInv, ConditionsUnmixed(dialect), nesting = <<>>, NEW world \in Worlds
  PROVE  /\ \A n \in Bash(world).ran : n \in DOMAIN program /\ program[n].fn \in {NoFunction, Phase}
         /\ \A check \in Bash(world).seen : check[1] \in Bash(world).ran /\ check[1] \in DOMAIN program
         /\ \A evidence \in FoundAt : evidence.line \in Bash(world).ran => Upheld(evidence, world)
<1>1. /\ EclassShell(world) \in Starts /\ EclassShell(world).world = world
      /\ EclassShell(world).ran = {} /\ EclassShell(world).seen = {}
      /\ EbuildShell(world) \in Starts /\ EbuildShell(world).world = world
      /\ EbuildShell(world).ran = Sourcing(EclassShell(world)).ran
      /\ EbuildShell(world).seen = Sourcing(EclassShell(world)).seen
      /\ Bash(world) = Sourcing(EbuildShell(world)) /\ program \in Seq(Lines)
  BY BashIsSourcing DEF TypeInv, ProgramInv
<1>2. PICK start \in Starts, first \in Shells :
        start = EclassShell(world) /\ start.ran = {} /\ start.seen = {} /\ first = Sourcing(start) /\ first.world = world
  BY <1>1, SourcingFacts
<1>3. PICK next \in Starts, bash \in Shells :
        /\ next = EbuildShell(world) /\ next.ran = first.ran /\ next.seen = first.seen
        /\ bash = Sourcing(next) /\ bash.world = world /\ first.ran \subseteq bash.ran /\ bash = Bash(world)
  BY <1>1, <1>2, SourcingFacts
<1>4. RanHere(start, first) /\ Keeps(start, first) /\ RanHere(next, bash) /\ Keeps(next, bash)
  BY <1>2, <1>3 DEF RanInv, KeepsInv
<1>5. ASSUME NEW n \in bash.ran PROVE n \in DOMAIN program /\ program[n].fn \in {NoFunction, Phase}
  BY <1>2, <1>3, <1>4, <1>5 DEF RanHere
<1>6. ASSUME NEW check \in bash.seen PROVE check[1] \in bash.ran /\ check[1] \in DOMAIN program
  BY <1>2, <1>3, <1>4, <1>6 DEF RanHere
<1>7. ASSUME NEW evidence \in FoundAt, evidence.line \in bash.ran PROVE Upheld(evidence, world)
  <2>1. CASE evidence.line \in first.ran
    BY <1>2, <1>4, <2>1 DEF Keeps
  <2>2. CASE evidence.line \notin first.ran
    BY <1>3, <1>4, <1>7, <2>2 DEF Keeps
  <2>. QED BY <2>1, <2>2
<1>. QED BY <1>3, <1>5, <1>6, <1>7

(***************************************************************************)
(* WHAT RUNS IS NOT DENIED (evidence is conservative), for any tests, any  *)
(* world and whatever the caller leaves out: read or not, an assignment    *)
(* that bash runs is not called inapplicable, in ebuilds whose conditions  *)
(* are those of their blocks.                                              *)
(***************************************************************************)
THEOREM ActiveEvidenceIsKept ==
  ASSUME \A d \in Dialects : ConditionsUnmixed(d)
  PROVE  Spec => []ActiveIsKept
<1>1. ScanInv /\ EvidenceInv => ActiveIsKept
  <2>. SUFFICES ASSUME ScanInv, EvidenceInv, phase = "read", NEW world \in Worlds,
                       NEW useKnown \in BOOLEAN, NEW targetKnown \in BOOLEAN, NEW found \in requirements \cup dynamic,
                       found.at.line \in Bash(world).ran
                PROVE  kernelEvidenceApplicability(found.at, ContextOf(world, useKnown, targetKnown)) # "inapplicable"
    BY DEF ActiveIsKept
  <2>1. TypeInv /\ FramesInv /\ RanInv /\ KeepsInv /\ ConditionsUnmixed(dialect) /\ nesting = <<>> /\ found.at \in FoundAt
    BY DEF ScanInv, EvidenceInv, ReadInv, TypeInv, ProgramInv, FoundAt
  <2>. QED BY <2>1, WhatRan DEF Upheld
<1>2. Spec => [](ScanInv /\ EvidenceInv)
  BY EvidenceIsInvariant
<1>. QED BY <1>1, <1>2, PTL

(***************************************************************************)
(* What the phase runs is reachable from it.                               *)
(***************************************************************************)
LEMMA PhaseIsReachable ==
  ASSUME TypeInv
  PROVE  kernelFunctionReachable(Phase)
<1>1. calls \in Edges
  BY DEF TypeInv, FoundInv, Edges
<1>2. Phase \in After(calls, Cardinality(Functions))
  BY <1>1, RoundsSuffice
<1>. QED BY <1>2, ReachedIsAfter DEF kernelFunctionReachable

LEMMA NotDenied ==
  ASSUME NEW one, NEW other, one # "inapplicable", other # "inapplicable"
  PROVE  combineApplicability(one, other) # "inapplicable"
BY DEF combineApplicability, AllApplicable

(***************************************************************************)
(* COMPLETE MEANS SETTLED, for any tests and any world, in ebuilds whose   *)
(* conditions are those of their blocks: no assignment that was not        *)
(* understood has run before a check that bash gets to.                    *)
(***************************************************************************)
THEOREM CompleteEvaluationIsSettled ==
  ASSUME \A d \in Dialects : ConditionsUnmixed(d)
  PROVE  Spec => []CompleteIsSettled
<1>1. ScanInv /\ EvidenceInv => CompleteIsSettled
  <2>. SUFFICES ASSUME ScanInv, EvidenceInv, phase = "read", NEW world \in Worlds,
                       NEW useKnown \in BOOLEAN, NEW targetKnown \in BOOLEAN,
                       Complete(ContextOf(world, useKnown, targetKnown)),
                       NEW d \in dynamic, NEW i \in invocations, NEW check \in Seen(Bash(world)),
                       d.severity = "fatal", d.at.line \in Bash(world).ran \cup {0}, check[1] = i.line,
                       ~(i.line # 0 /\ i.line < d.at.line /\ d.at.origin = i.origin)
                PROVE  FALSE
    BY DEF CompleteIsSettled
  <2>. DEFINE context == ContextOf(world, useKnown, targetKnown)
  <2>1. /\ TypeInv /\ FramesInv /\ RanInv /\ KeepsInv /\ LocatedInv /\ DefinedInv /\ ConditionsUnmixed(dialect)
        /\ nesting = <<>> /\ d.at \in FoundAt /\ i \in FoundAt /\ d.at \in Evidences /\ i \in Evidences
    BY DEF ScanInv, EvidenceInv, ReadInv, TypeInv, ProgramInv, FoundAt, FoundInv, Founds
  <2>2. /\ \A n \in Bash(world).ran : n \in DOMAIN program /\ program[n].fn \in {NoFunction, Phase}
        /\ \A one \in Bash(world).seen : one[1] \in Bash(world).ran /\ one[1] \in DOMAIN program
        /\ \A evidence \in FoundAt :
             evidence.line \in Bash(world).ran => kernelEvidenceApplicability(evidence, context) # "inapplicable"
    BY <2>1, WhatRan DEF Upheld
  <2>3. 0 \notin DOMAIN program /\ Phase # NoFunction /\ Phase \in Functions
    BY <2>1, ConstantFacts DEF TypeInv, ProgramInv
  <2>4. context \in Contexts
    BY ContextTypes
  <2>. HIDE DEF context
  \* what is said of no line is not denied
  <2>5. ASSUME NEW fn PROVE kernelEvidenceApplicability(EvidenceOfFile(fn), context) # "inapplicable"
    <3>1. EvidenceOfFile(fn).expression[context] = "applicable" /\ EvidenceOfFile(fn).conditions = <<>>
      BY <2>4 DEF EvidenceOfFile, NoExpression
    <3>2. conditionsApplicability(<<>>, context) = "applicable"
      BY DEF conditionsApplicability
    <3>. QED BY <3>1, <3>2, NotDenied DEF kernelEvidenceApplicability
  <2>6. /\ d.at.function \in {NoFunction, Phase} /\ kernelEvidenceApplicability(d.at, context) # "inapplicable"
        /\ d.at.function = Phase => Phase \in Defined
    <3>1. CASE d.at = EvidenceOfFile(NoFunction)
      <4>1. d.at.function = NoFunction
        BY <3>1 DEF EvidenceOfFile
      <4>. QED BY <2>3, <2>5, <3>1, <4>1
    <3>2. CASE d.at # EvidenceOfFile(NoFunction)
      <4>1. d.at.line \in DOMAIN program /\ program[d.at.line].fn = d.at.function
        BY <2>1, <3>2 DEF LocatedInv, Located
      <4>2. d.at.line \in Bash(world).ran
        BY <2>3, <4>1
      <4>. QED BY <2>1, <2>2, <2>3, <4>1, <4>2 DEF DefinedInv
    <3>. QED BY <3>1, <3>2
  <2>7. /\ i.function = Phase /\ kernelEvidenceApplicability(i, context) # "inapplicable"
        /\ i.line = 0 => Phase \notin Defined
    <3>1. CASE check \in Bash(world).seen
      <4>1. i.line \in Bash(world).ran /\ i.line \in DOMAIN program
        BY <2>2, <3>1
      <4>2. Located(i, "check")
        BY <2>1, <2>3, <4>1 DEF LocatedInv, EvidenceOfFile
      <4>3. program[i.line].form = "check" /\ program[i.line].fn = i.function
        BY <4>2 DEF Located
      <4>. QED BY <2>1, <2>2, <2>3, <4>1, <4>3 DEF DefinedInv
    <3>2. CASE check \notin Bash(world).seen
      <4>1. Phase = "pkg_setup" /\ Phase \notin Defined /\ check = <<0, Bash(world).value>>
        BY <3>2 DEF Seen
      <4>2. i.line = 0
        BY <4>1
      <4>3. i = EvidenceOfFile("pkg_setup")
        BY <2>1, <2>3, <4>2 DEF LocatedInv, Located
      <4>. QED BY <2>5, <4>1, <4>3 DEF EvidenceOfFile
    <3>. QED BY <3>1, <3>2
  <2>8. i \in invocationsFor(d.at)
    <3>1. kernelFunctionReachable(i.function)
      BY <2>1, <2>7, PhaseIsReachable
    <3>2. ~(d.at.function = i.function /\ d.at.origin = i.origin /\ d.at.line > i.line)
      <4>. SUFFICES ASSUME d.at.function = i.function, d.at.origin = i.origin, d.at.line > i.line PROVE FALSE
        OBVIOUS
      <4>1. i.line # 0
        BY <2>6, <2>7
      <4>2. i.line \in Nat /\ d.at.line \in Nat
        BY <2>1 DEF Evidences
      <4>. QED BY <4>1, <4>2
    <3>. QED BY <2>6, <2>7, <3>1, <3>2 DEF invocationsFor
  <2>9. ApplicabilityAt(d.at, i, context) # "inapplicable"
    <3>1. invocationApplicability(i, context) # "inapplicable"
      BY <2>3, <2>7 DEF invocationApplicability
    <3>. QED BY <2>6, <3>1, NotDenied DEF ApplicabilityAt
  <2>10. Blocking(d, context)
    BY <2>8, <2>9 DEF Blocking
  <2>. QED BY <2>10 DEF Complete, context
<1>2. Spec => [](ScanInv /\ EvidenceInv)
  BY EvidenceIsInvariant
<1>. QED BY <1>1, <1>2, PTL

-----------------------------------------------------------------------------
(* Values in loops                                                         *)

\* The i-th block has the values of the innermost loop around it, when they are known.
EachOfLoop(stack, blocks, i) ==
  \A j \in 1..i :
    /\ stack[j].loopValues # <<>> /\ stack[j].loopValues[1] # {}
    /\ \A k \in j + 1..i : stack[k].loopValues = <<>>
    => blocks[i].each = stack[j].loopValues[1]
EachMatch(bash) ==
  Follows(bash) =>
    /\ staticArrays # <<>> => bash.array = staticArrays[1]
    /\ \A i \in DOMAIN controlStack : EachOfLoop(controlStack, bash.blocks, i)
EachInv ==
  OfPhaseOnly(dialect) /\ ValuesUnderstood(dialect) =>
    \A start \in Starts, bash \in Shells : bash = Sourcing(start) => EachMatch(bash)

LEMMA EachInit == Init => EachInv
<1>. SUFFICES ASSUME Init PROVE EachInv
  OBVIOUS
<1>1. staticArrays = <<>> /\ DOMAIN controlStack = {}
  BY DEF Init
<1>. QED BY <1>1 DEF EachInv, EachMatch

LEMMA EachByLine ==
  ASSUME TypeInv, NEW form \in {"if", "elif", "else"}, NEW what \in WhatOf(form), Writes(Line(form, what)),
         NEW start \in Starts, NEW bash \in Shells, bash = Sourcing(start), FramesMatch(bash), Follows(bash),
         NEW after \in Shells, after = Sourcing(start)', Len(controlStack) # 0
  PROVE  after.blocks[IF form = "if" THEN Len(controlStack) + 1 ELSE Len(controlStack)].each
           = bash.blocks[Len(controlStack)].each
<1>. DEFINE blocks == bash.blocks
            m == Len(controlStack)
<1>1. form \in LineForms
  BY DEF LineForms
<1>2. PICK line \in Lines : line.form = form /\ line.what = what /\ after = Obey(bash, line)
  <2>1. PICK shell \in Shells, line \in Lines :
          /\ shell = Sourcing(start) /\ line.form = form /\ line.what = what
          /\ Follows(shell) => after = Obey(shell, line)
    BY <1>1, TurnOfLine
  <2>. QED BY <2>1
<1>3. blocks \in Seq(Blocks) /\ Len(blocks) = m /\ m \in Nat /\ blocks # <<>>
  BY DEF Shells, FramesMatch, TypeInv, ScannerInv
<1>4. Last(blocks) = blocks[m] /\ m \in DOMAIN blocks
  BY <1>3, PopFacts
<1>5. CASE form = "if"
  <2>. DEFINE block == [now |-> bash.world \in line.what.holds, tried |-> bash.world \in line.what.holds,
                        each |-> EachOf(bash.blocks)]
  <2>1. line.form = "if"
    BY <1>2, <1>5
  <2>2. Obey(bash, line).blocks = Append(blocks, block)
    BY <2>1, ObeyBlocks
  <2>3. block.each = blocks[m].each
    BY <1>3, <1>4 DEF EachOf
  <2>. HIDE DEF block
  <2>4. Append(blocks, block)[m + 1] = block
    BY <1>3
  <2>. HIDE DEF blocks
  <2>5. after.blocks = Append(blocks, block)
    BY <1>2, <2>2
  <2>. QED BY <1>5, <2>3, <2>4, <2>5 DEF blocks
<1>6. ASSUME form \in {"elif", "else"} PROVE after.blocks[m].each = blocks[m].each
  <2>1. \E block : Obey(bash, line).blocks = ReplaceTop(blocks, block) /\ block.each = Last(blocks).each
    <3>1. CASE form = "elif"
      <4>1. line.form = "elif"
        BY <1>2, <3>1
      <4>. DEFINE block == [now |-> bash.world \in line.what.holds /\ ~Last(bash.blocks).tried,
                            tried |-> bash.world \in line.what.holds \/ Last(bash.blocks).tried, each |-> Last(bash.blocks).each]
      <4>2. Obey(bash, line).blocks = ReplaceTop(blocks, block)
        BY <4>1, ObeyBlocks
      <4>3. block.each = Last(blocks).each
        OBVIOUS
      <4>. HIDE DEF block
      <4>. QED BY <4>2, <4>3
    <3>2. CASE form = "else"
      <4>1. line.form = "else"
        BY <1>2, <3>2
      <4>. DEFINE block == [now |-> ~Last(bash.blocks).tried, tried |-> TRUE, each |-> Last(bash.blocks).each]
      <4>2. Obey(bash, line).blocks = ReplaceTop(blocks, block)
        BY <4>1, ObeyBlocks
      <4>3. block.each = Last(blocks).each
        OBVIOUS
      <4>. HIDE DEF block
      <4>. QED BY <4>2, <4>3
    <3>. QED BY <1>6, <3>1, <3>2
  <2>2. PICK block : Obey(bash, line).blocks = ReplaceTop(blocks, block) /\ block.each = Last(blocks).each
    BY <2>1
  <2>3. ReplaceTop(blocks, block)[m] = block
    BY <1>3, <1>4 DEF ReplaceTop
  <2>. HIDE DEF blocks
  <2>4. after.blocks = ReplaceTop(blocks, block)
    BY <1>2, <2>2
  <2>. QED BY <1>4, <2>2, <2>3, <2>4
<1>. QED BY <1>5, <1>6

(***************************************************************************)
(* Blocks have the values of the loops that the scanner knows.             *)
(***************************************************************************)
LEMMA EachStep == TypeInv /\ NestInv /\ FramesInv /\ OutsideInv /\ EachInv /\ [Next]_vars => EachInv'
<1>. SUFFICES ASSUME TypeInv, NestInv, FramesInv, OutsideInv, EachInv, [Next]_vars, OfPhaseOnly(dialect'),
                     ValuesUnderstood(dialect'), NEW start \in Starts, NEW after \in Shells, after = Sourcing(start)'
              PROVE  EachMatch(after)'
  BY DEF EachInv, OfPhaseOnly, ValuesUnderstood
<1>. DEFINE m == Len(controlStack)
<1>0. /\ StackTypes /\ m \in Nat /\ Len(nesting) = m /\ nesting \in Seq(Kinds) /\ program \in Seq(Lines)
      /\ m = 0 \/ m - 1 \in Nat
      /\ controlStack \in Seq(Frames) /\ DOMAIN controlStack = 1..m /\ DOMAIN nesting = 1..m
  BY DEF TypeInv, ScannerInv, StackTypes, ProgramInv
<1>1. PICK bash \in Shells : bash = Sourcing(start)
  BY <1>0, SourcingFacts
<1>2. /\ dialect' = dialect /\ OfPhaseOnly(dialect) /\ FramesMatch(bash) /\ EachMatch(bash)
      /\ ValuesUnderstood(dialect)
  <2>1. dialect' = dialect
    BY DialectStays
  <2>. QED BY <1>1, <2>1 DEF FramesInv, EachInv, OfPhaseOnly
<1>a. /\ LineForms = {"function", "close", "if", "elif", "else", "fi", "for", "array", "local", "call", "check", "assign"}
      /\ WhatOf("if") = WrittenTests /\ WhatOf("elif") = WrittenTests /\ WhatOf("for") = BOOLEAN
      /\ WhatOf("array") = AnyArrays /\ WhatOf("check") = Guardings
      /\ None \in WhatOf("else") /\ None \in WhatOf("fi") /\ None \in WhatOf("local") /\ None \in WhatOf("call")
  BY DEF LineForms, WhatOf
<1>. DEFINE ArrayKept == after.array = bash.array /\ staticArrays' = staticArrays
            Top(i) == EachOfLoop(controlStack', after.blocks, i)
<1>b. ASSUME (\E name \in Functions : ScanFunction(name)) \/ ScanBrace PROVE EachMatch(after)'
  <2>1. /\ Follows(after)' => Follows(bash)
        /\ after.array = bash.array /\ staticArrays' = staticArrays /\ controlStack' = <<>>
    BY <1>1, <1>2, <1>b, ArrayOfFunction
  <2>2. DOMAIN controlStack' = {}
    BY <2>1
  <2>. QED BY <1>2, <2>1, <2>2 DEF EachMatch
<1>c. ASSUME ScanEclass PROVE EachMatch(after)'
  BY <1>c DEF ScanEclass, EachMatch
<1>. SUFFICES ASSUME function' = function PROVE EachMatch(after)'
  BY <1>b, <1>c, FunctionStays
\* below the top
<1>3. ASSUME NEW n \in Nat, Kept(n, bash, after), Len(controlStack') = n \/ (Len(controlStack') = n + 1 /\ (Follows(bash) => Top(n + 1))),
             Follows(after)' /\ staticArrays' # <<>> => after.array = staticArrays'[1]
      PROVE  EachMatch(after)'
  <2>. SUFFICES ASSUME Follows(after)' PROVE \A i \in DOMAIN controlStack' : Top(i)
    BY <1>3 DEF EachMatch
  <2>1. Follows(bash)
    BY <1>3 DEF Kept
  <2>2. DOMAIN controlStack' = 1..Len(controlStack')
    <3>1. controlStack' \in Seq(Frames)
      BY TypeStep DEF TypeInv, ScannerInv
    <3>. QED BY <3>1
  <2>3. ASSUME NEW i \in 1..n PROVE Top(i)
    <3>1. i \in DOMAIN controlStack /\ after.blocks[i] = bash.blocks[i]
      BY <1>3, <2>1 DEF Kept
    <3>2. \A j \in 1..i : controlStack'[j] = controlStack[j]
      BY <1>3 DEF Kept
    <3>3. EachOfLoop(controlStack, bash.blocks, i)
      BY <1>2, <2>1, <3>1 DEF EachMatch
    <3>4. ASSUME NEW j \in 1..i, controlStack'[j].loopValues # <<>>, controlStack'[j].loopValues[1] # {},
                 \A k \in j + 1..i : controlStack'[k].loopValues = <<>>
          PROVE  after.blocks[i].each = controlStack'[j].loopValues[1]
      <4>1. \A k \in j + 1..i : k \in 1..i
        OBVIOUS
      <4>2. \A k \in j + 1..i : controlStack[k].loopValues = <<>>
        BY <3>2, <3>4, <4>1
      <4>. QED BY <3>1, <3>2, <3>3, <3>4, <4>2 DEF EachOfLoop
    <3>. QED BY <3>4 DEF EachOfLoop
  <2>. HIDE DEF Top
  <2>4. Len(controlStack') = n + 1 => Top(n + 1)
    BY <1>3, <2>1
  <2>5. ASSUME NEW i \in DOMAIN controlStack' PROVE i \in 1..n \/ (i = n + 1 /\ Len(controlStack') = n + 1)
    <3>1. i \in 1..Len(controlStack') /\ (Len(controlStack') = n \/ Len(controlStack') = n + 1)
      BY <1>3, <2>2, <2>5
    <3>. QED BY <3>1
  <2>. QED BY <2>3, <2>4, <2>5
<1>4. ASSUME ArrayKept, Follows(after)' <=> Follows(bash)
      PROVE  Follows(after)' /\ staticArrays' # <<>> => after.array = staticArrays'[1]
  BY <1>2, <1>4 DEF EachMatch
<1>5. ASSUME NEW form \in LineForms, NEW what \in WhatOf(form), Writes(Line(form, what)), form # "array",
             staticArrays' = staticArrays
      PROVE  ArrayKept
  BY <1>1, <1>2, <1>5, KeptByLine
\* a top that is no loop
<1>7. ASSUME NEW n \in Nat, Kept(n, bash, after), Follows(bash), controlStack'[n + 1].loopValues = <<>>, NEW i \in Nat,
             n # 0 => /\ n <= i /\ i \in DOMAIN controlStack /\ after.blocks[n + 1].each = bash.blocks[i].each
                      /\ \A k \in n + 1..i : controlStack[k].loopValues = <<>>
      PROVE  Top(n + 1)
  <2>1. ASSUME NEW j \in 1..n + 1, controlStack'[j].loopValues # <<>>, controlStack'[j].loopValues[1] # {},
               \A k \in j + 1..n + 1 : controlStack'[k].loopValues = <<>>
        PROVE  after.blocks[n + 1].each = controlStack'[j].loopValues[1]
    <3>1. j \in 1..n /\ n # 0
      BY <1>7, <2>1
    <3>2. EachOfLoop(controlStack, bash.blocks, i) /\ j \in 1..i
      BY <1>2, <1>7, <3>1 DEF EachMatch
    <3>3. \A k \in 1..n : controlStack'[k] = controlStack[k]
      BY <1>7 DEF Kept
    <3>4. ASSUME NEW k \in j + 1..i PROVE controlStack[k].loopValues = <<>>
      <4>1. CASE k <= n
        <5>1. k \in 1..n /\ k \in j + 1..n + 1
          BY <3>1, <3>4, <4>1
        <5>. QED BY <2>1, <3>3, <5>1
      <4>2. CASE ~(k <= n)
        <5>1. k \in n + 1..i
          BY <3>4, <4>2
        <5>. QED BY <1>7, <3>1, <5>1
      <4>. QED BY <4>1, <4>2
    <3>5. controlStack[j].loopValues # <<>> /\ controlStack[j].loopValues[1] # {}
      BY <2>1, <3>1, <3>3
    <3>6. bash.blocks[i].each = controlStack[j].loopValues[1]
      BY <3>2, <3>4, <3>5 DEF EachOfLoop
    <3>. QED BY <1>7, <3>1, <3>3, <3>6
  <2>. QED BY <2>1 DEF EachOfLoop
<1>. HIDE DEF Top, ArrayKept, m
<1>6. ASSUME NEW n \in Nat, Kept(n, bash, after), Len(controlStack') = n \/ (Len(controlStack') = n + 1 /\ (Follows(bash) => Top(n + 1))),
             ArrayKept
      PROVE  EachMatch(after)'
  <2>1. Follows(after)' <=> Follows(bash)
    BY <1>6 DEF Kept
  <2>. QED BY <1>3, <1>4, <1>6, <2>1
\* the frames of an if are no loops, after the step and before
<1>8. ASSUME NEW i \in DOMAIN nesting', nesting'[i] # "loop" PROVE controlStack'[i].loopValues = <<>>
  BY <1>8, NestStep DEF NestInv, Looped
<1>9. ASSUME NEW i \in DOMAIN nesting, nesting[i] # "loop" PROVE controlStack[i].loopValues = <<>>
  BY <1>9 DEF NestInv, Looped
\* a block is opened
<1>10. ASSUME NEW what \in WhatOf("if"), Writes(Line("if", what)), staticArrays' = staticArrays, NEW kind \in {"if", "block"},
              nesting' = Append(nesting, kind), Kept(m, bash, after), Len(controlStack') = m + 1
       PROVE  EachMatch(after)'
  <2>1. "if" \in LineForms /\ ArrayKept
    BY <1>5, <1>10, <1>a
  <2>2. m + 1 \in DOMAIN nesting' /\ nesting'[m + 1] = kind
    BY <1>0, <1>10
  <2>3. controlStack'[m + 1].loopValues = <<>>
    BY <1>8, <1>10, <2>2
  <2>4. ASSUME Follows(bash) PROVE Top(m + 1)
    <3>1. ASSUME m # 0 PROVE after.blocks[m + 1].each = bash.blocks[m].each
      <4>1. after.blocks[IF "if" = "if" THEN Len(controlStack) + 1 ELSE Len(controlStack)].each
              = bash.blocks[Len(controlStack)].each
        BY <1>1, <1>2, <1>10, <2>4, <3>1, EachByLine DEF m
      <4>. QED BY <4>1 DEF m
    <3>2. m # 0 => m <= m /\ m \in DOMAIN controlStack
      BY <1>0
    <3>3. \A k \in m + 1..m : controlStack[k].loopValues = <<>>
      BY <1>0
    <3>. QED BY <1>0, <1>7, <1>10, <2>3, <2>4, <3>1, <3>2, <3>3
  <2>. QED BY <1>0, <1>6, <1>10, <2>1, <2>4
<1>11. ASSUME NEW condition \in UseTests, ScanIfUse(condition) PROVE EachMatch(after)'
  <2>1. /\ Writes(Line("if", use(condition))) /\ use(condition) \in WhatOf("if")
        /\ staticArrays' = staticArrays /\ nesting' = Append(nesting, "if")
    BY <1>11, <1>a, ConstantFacts, TestTypes DEF ScanIfUse, Opens
  <2>2. Kept(m, bash, after) /\ Len(controlStack') = m + 1
    BY <1>1, <1>2, <1>11, KeptByStep DEF m
  <2>. QED BY <1>10, <2>1, <2>2
<1>12. ASSUME NEW test \in Tests, ScanIf(test) PROVE EachMatch(after)'
  <2>1. /\ Writes(Line("if", test)) /\ test \in WhatOf("if")
        /\ staticArrays' = staticArrays /\ nesting' = Append(nesting, "if")
    BY <1>12, <1>a, ConstantFacts DEF ScanIf, Opens
  <2>2. Kept(m, bash, after) /\ Len(controlStack') = m + 1
    BY <1>1, <1>2, <1>12, KeptByStep DEF m
  <2>. QED BY <1>10, <2>1, <2>2
<1>13. ASSUME NEW atom \in Opaque, ScanBlock(atom) PROVE EachMatch(after)'
  <2>1. /\ Writes(Line("if", opaque(atom))) /\ opaque(atom) \in WhatOf("if")
        /\ staticArrays' = staticArrays /\ nesting' = Append(nesting, "block")
    BY <1>13, <1>a, TestTypes DEF ScanBlock, Opens
  <2>2. Kept(m, bash, after) /\ Len(controlStack') = m + 1
    BY <1>1, <1>2, <1>13, KeptByStep DEF m
  <2>. QED BY <1>10, <2>1, <2>2
\* a loop is opened: bash has the array that the scanner knows
<1>14. ASSUME NEW ofKeys \in BOOLEAN, ScanLoop(ofKeys) PROVE EachMatch(after)'
  <2>1. Writes(Line("for", ofKeys)) /\ ofKeys \in WhatOf("for") /\ "for" \in LineForms /\ staticArrays' = staticArrays
    BY <1>14, <1>a DEF ScanLoop
  <2>2. Kept(m, bash, after) /\ Len(controlStack') = m + 1
    BY <1>1, <1>2, <1>14, KeptByStep DEF m
  <2>3. ArrayKept
    BY <1>5, <2>1
  <2>4. ASSUME Follows(bash) PROVE Top(m + 1)
    <3>. DEFINE block == [now |-> Elements(bash.array, ofKeys) # {}, tried |-> TRUE, each |-> Elements(bash.array, ofKeys)]
                frame == IF staticArrays = <<>> THEN LoopFrame(FALSE, {})
                         ELSE LoopFrame(TRUE, IF ofKeys THEN staticArrays[1].keys ELSE staticArrays[1].values)
    <3>1. PICK line \in Lines : line.form = "for" /\ line.what = ofKeys /\ after = Obey(bash, line)
      <4>1. PICK shell \in Shells, line \in Lines :
              /\ shell = Sourcing(start) /\ line.form = "for" /\ line.what = ofKeys
              /\ Follows(shell) => after = Obey(shell, line)
        BY <2>1, TurnOfLine
      <4>. QED BY <1>1, <2>4, <4>1
    <3>2. after.blocks = Append(bash.blocks, block)
      <4>1. line.form = "for" /\ line.what = ofKeys
        BY <3>1
      <4>2. Obey(bash, line).blocks = Append(bash.blocks, block)
        BY <4>1, ObeyBlocks
      <4>. QED BY <3>1, <4>2
    <3>3. bash.blocks \in Seq(Blocks) /\ Len(bash.blocks) = m
      BY <1>2, <2>4 DEF FramesMatch, Shells, m
    <3>4. block.each = Elements(bash.array, ofKeys)
      OBVIOUS
    <3>5. controlStack' = Append(controlStack, frame)
      BY <1>14 DEF ScanLoop
    <3>6. /\ staticArrays = <<>> => frame.loopValues = <<{}>>
          /\ staticArrays # <<>> =>
               frame.loopValues = <<IF ofKeys THEN staticArrays[1].keys ELSE staticArrays[1].values>>
      BY DEF LoopFrame, Frame
    <3>. HIDE DEF block, frame
    <3>7. after.blocks[m + 1].each = Elements(bash.array, ofKeys)
      BY <3>2, <3>3, <3>4
    <3>8. controlStack'[m + 1] = frame
      BY <1>0, <3>5 DEF m
    <3>9. ASSUME frame.loopValues[1] # {} PROVE Elements(bash.array, ofKeys) = frame.loopValues[1]
      <4>1. staticArrays # <<>>
        BY <3>6, <3>9
      <4>2. bash.array = staticArrays[1]
        BY <1>2, <2>4, <4>1 DEF EachMatch
      <4>3. frame.loopValues[1] = IF ofKeys THEN bash.array.keys ELSE bash.array.values
        BY <3>6, <4>1, <4>2
      <4>. QED BY <3>9, <4>3 DEF Elements
    <3>10. frame.loopValues # <<>>
      <4>1. \A one : <<one>> # <<>>
        OBVIOUS
      <4>. QED BY <3>6, <4>1
    <3>11. ASSUME NEW j \in 1..m + 1, controlStack'[j].loopValues[1] # {},
                  \A k \in j + 1..m + 1 : controlStack'[k].loopValues = <<>>
           PROVE  after.blocks[m + 1].each = controlStack'[j].loopValues[1]
      <4>1. j = m + 1
        <5>1. m + 1 \notin j + 1..m + 1
          BY <3>8, <3>10, <3>11
        <5>. QED BY <1>0, <5>1
      <4>. QED BY <3>7, <3>8, <3>9, <3>11, <4>1
    <3>. QED BY <3>11 DEF Top, EachOfLoop
  <2>. QED BY <1>0, <1>6, <2>2, <2>3, <2>4
\* the top of an if changes
<1>15. ASSUME NEW form \in {"elif", "else"}, NEW what \in WhatOf(form), Writes(Line(form, what)), staticArrays' = staticArrays,
              NEW frame, ReplacesTop(frame), Last(nesting) # "loop", nesting'[m] # "loop",
              Kept(m - 1, bash, after), Len(controlStack') = m
       PROVE  EachMatch(after)'
  <2>1. form \in LineForms /\ ArrayKept
    BY <1>5, <1>15, <1>a
  <2>2. m # 0 /\ m - 1 \in Nat /\ m - 1 + 1 = m /\ m \in DOMAIN nesting /\ nesting[m] # "loop"
    <3>1. nesting # <<>>
      BY <1>15 DEF ReplacesTop
    <3>2. Last(nesting) = nesting[Len(nesting)] /\ Len(nesting) # 0
      BY <1>0, <3>1, PopFacts
    <3>. QED BY <1>0, <1>15, <3>2
  <2>3. m \in DOMAIN nesting'
    <3>1. nesting' \in Seq(Kinds) /\ Len(nesting') = Len(controlStack')
      BY TypeStep DEF TypeInv, ScannerInv
    <3>. QED BY <1>0, <1>15, <2>2, <3>1
  <2>4. controlStack[m].loopValues = <<>> /\ controlStack'[m].loopValues = <<>>
    BY <1>8, <1>9, <1>15, <2>2, <2>3
  <2>5. ASSUME Follows(bash) PROVE Top(m - 1 + 1)
    <3>1. after.blocks[m].each = bash.blocks[m].each
      <4>1. after.blocks[IF form = "if" THEN Len(controlStack) + 1 ELSE Len(controlStack)].each
              = bash.blocks[Len(controlStack)].each
        BY <1>1, <1>2, <1>15, <2>2, <2>5, EachByLine DEF m
      <4>. QED BY <1>15, <4>1 DEF m
    <3>2. m - 1 <= m /\ m \in DOMAIN controlStack /\ m \in Nat
      BY <1>0, <2>2
    <3>3. ASSUME NEW k \in m - 1 + 1..m PROVE controlStack[k].loopValues = <<>>
      <4>1. k = m
        BY <1>0, <3>3
      <4>. QED BY <2>4, <4>1
    <3>. QED BY <1>7, <1>15, <2>2, <2>4, <2>5, <3>1, <3>2, <3>3
  <2>. QED BY <1>6, <1>15, <2>1, <2>2, <2>5
<1>16. ASSUME ScanElse PROVE EachMatch(after)'
  <2>1. Writes(Line("else", None)) /\ None \in WhatOf("else") /\ staticArrays' = staticArrays /\ Last(nesting) = "if"
    BY <1>16, <1>a DEF ScanElse, Inside
  <2>2. \E frame : ReplacesTop(frame)
    BY <1>16, ElseReplaces
  <2>3. nesting'[m] = "else"
    BY <1>0, <1>16, ElseReplaces DEF m, ReplacesTop
  <2>4. Kept(m - 1, bash, after) /\ Len(controlStack') = m
    BY <1>1, <1>2, <1>16, KeptByStep DEF m
  <2>. QED BY <1>15, <2>1, <2>2, <2>3, <2>4
<1>17. ASSUME NEW test \in Tests, ScanElif(test) PROVE EachMatch(after)'
  <2>1. Writes(Line("elif", test)) /\ test \in WhatOf("elif") /\ staticArrays' = staticArrays
    BY <1>17, <1>a, ConstantFacts DEF ScanElif
  <2>2. \E frame : ReplacesTop(frame)
    BY <1>17, ElifReplaces
  <2>3. nesting'[m] = "if" /\ Last(nesting) = "if"
    <3>1. nesting' = nesting /\ nesting # <<>> /\ Last(nesting) = "if"
      BY <1>17, ElifReplaces DEF ReplacesTop
    <3>2. Last(nesting) = nesting[Len(nesting)]
      BY <1>0, <3>1, PopFacts
    <3>. QED BY <1>0, <3>1, <3>2
  <2>4. Kept(m - 1, bash, after) /\ Len(controlStack') = m
    BY <1>1, <1>2, <1>17, KeptByStep DEF m
  <2>. QED BY <1>15, <2>1, <2>2, <2>3, <2>4
<1>18. ASSUME ScanFi \/ ScanDone PROVE EachMatch(after)'
  <2>1. Writes(Line("fi", None)) /\ None \in WhatOf("fi") /\ "fi" \in LineForms /\ staticArrays' = staticArrays
    BY <1>18, <1>a DEF ScanFi, ScanDone
  <2>2. Kept(m - 1, bash, after) /\ Len(controlStack') = m - 1
    BY <1>1, <1>2, <1>18, KeptByStep DEF m
  <2>3. m # 0
    BY <1>18, ClosesTop, <1>0 DEF m, StackTypes
  <2>4. ArrayKept /\ m - 1 \in Nat
    BY <1>0, <1>5, <2>1, <2>3
  <2>. QED BY <1>6, <2>2, <2>4
\* the stack stays
<1>19. ASSUME NEW form \in {"call", "check", "local", "assign"}, NEW what \in WhatOf(form), Writes(Line(form, what)),
              staticArrays' = staticArrays, Kept(m, bash, after), controlStack' = controlStack
       PROVE  EachMatch(after)'
  <2>1. form \in LineForms /\ form # "array"
    BY <1>a
  <2>2. ArrayKept /\ Len(controlStack') = m
    BY <1>5, <1>19, <2>1 DEF m
  <2>. QED BY <1>0, <1>6, <1>19, <2>2
<1>20. ASSUME NEW name \in Functions, ScanCall(name) PROVE EachMatch(after)'
  <2>1. Kept(m, bash, after) /\ controlStack' = controlStack
    BY <1>1, <1>2, <1>20, KeptByStep DEF m
  <2>. QED BY <1>19, <1>20, <1>a, <2>1 DEF ScanCall, scanVars
<1>21. ASSUME ScanLocal PROVE EachMatch(after)'
  <2>1. Kept(m, bash, after) /\ controlStack' = controlStack
    BY <1>1, <1>2, <1>21, KeptByStep DEF m
  <2>. QED BY <1>19, <1>21, <1>a, <2>1 DEF ScanLocal
<1>22. ASSUME NEW guard \in Guards, ScanCheck(guard) PROVE EachMatch(after)'
  <2>1. Kept(m, bash, after) /\ controlStack' = controlStack
    BY <1>1, <1>2, <1>22, KeptByStep DEF m
  <2>2. Writes(Line("check", guard)) /\ staticArrays' = staticArrays /\ guard \in WhatOf("check")
    BY <1>22, <1>a DEF ScanCheck, scanVars, Guards, Guardings
  <2>. QED BY <1>19, <2>1, <2>2
<1>23. ASSUME ScanAssign PROVE EachMatch(after)'
  <2>1. Kept(m, bash, after) /\ controlStack' = controlStack
    BY <1>1, <1>2, <1>23, KeptByStep DEF m
  <2>2. PICK guard \in Guards, severity \in Severities, operator \in {"=", "+="},
             value \in {"static", "each", "self", "dynamic", "unmatched"} :
               ScanAssignment(value, operator, severity, guard)
    BY <1>23, AssignmentFacts
  <2>3. PICK what \in WhatOf("assign") : Writes(Line("assign", what)) /\ staticArrays' = staticArrays
    BY <2>2, AssignmentFound
  <2>. QED BY <1>19, <2>1, <2>3
\* an array that is not known replaces none that is
<1>24. ASSUME NEW array \in Arrays \cup {NoArray, RuntimeArray}, ScanArray(array), array = RuntimeArray => Has("dynamicArray")
       PROVE  EachMatch(after)'
  <2>1. Kept(m, bash, after) /\ Len(controlStack') = m
    BY <1>1, <1>2, <1>24, KeptByStep DEF m
  <2>2. Writes(Line("array", array)) /\ "array" \in LineForms /\ array \in WhatOf("array")
        /\ staticArrays' = IF array = RuntimeArray THEN staticArrays ELSE <<array>>
    BY <1>24, <1>a, ConstantFacts DEF ScanArray
  <2>3. ASSUME Follows(bash) PROVE after.array = array
    <3>1. PICK shell \in Shells, line \in Lines :
            /\ shell = Sourcing(start) /\ line.form = "array" /\ line.what = array
            /\ Follows(shell) => after = Obey(shell, line)
      BY <2>2, TurnOfLine
    <3>2. Obey(bash, line).array = array
      <4>1. line.form = "array" /\ line.what = array
        BY <3>1
      <4>2. Obey(bash, line).array = IF line.form = "array" THEN line.what ELSE bash.array
        BY ObeyBlocks
      <4>. QED BY <4>1, <4>2
    <3>. QED BY <1>1, <2>3, <3>1, <3>2
  <2>4. Follows(after)' => after.array = array
    BY <2>1, <2>3 DEF Kept
  <2>5. array = RuntimeArray => staticArrays = <<>>
    <3>1. Has("dynamicArray") => ~Has("array") /\ ~Has("emptyArray")
      BY <1>2 DEF ValuesUnderstood, Has
    <3>. QED BY <1>24, <3>1 DEF NestInv
  <2>6. Follows(after)' /\ staticArrays' # <<>> => after.array = staticArrays'[1]
    BY <2>2, <2>4, <2>5
  <2>. QED BY <1>0, <1>3, <2>1, <2>6
\* steps that write nothing
<1>25. ASSUME UNCHANGED vars \/ \E inherits \in BOOLEAN : Read(inherits) PROVE EachMatch(after)'
  <2>1. UNCHANGED <<program, staticArrays>> /\ controlStack' = controlStack /\ Kept(m, bash, after)
    BY <1>1, <1>2, <1>25, KeptByStep DEF m, vars, scanVars, Read
  <2>2. ArrayKept
    BY <1>1, <2>1 DEF ArrayKept, Sourcing
  <2>3. Len(controlStack') = m
    BY <2>1 DEF m
  <2>. QED BY <1>0, <1>6, <2>1, <2>2, <2>3
<1>27. ASSUME InheritMissing PROVE EachMatch(after)'
  BY <1>27 DEF InheritMissing, EachMatch, Follows, Shells
<1>. QED BY NextCases, <1>11, <1>12, <1>13, <1>14, <1>16, <1>17, <1>18, <1>20, <1>21, <1>22, <1>23, <1>24, <1>25,
            <1>27, <1>b, <1>c

(***************************************************************************)
(* What ${name} is expanded to is what bash has for it.                    *)
(***************************************************************************)
LEMMA EachExpanded ==
  ASSUME TypeInv, NEW bash \in Shells, FramesMatch(bash), EachMatch(bash), Follows(bash),
         expandStaticLoopValues(controlStack) # {}
  PROVE  EachOf(bash.blocks) = expandStaticLoopValues(controlStack)
<1>. DEFINE m == Len(controlStack)
<1>1. /\ controlStack \in Seq(Frames) /\ m \in Nat /\ DOMAIN controlStack = 1..m
      /\ bash.blocks \in Seq(Blocks) /\ Len(bash.blocks) = m
  BY DEF TypeInv, ScannerInv, Shells, FramesMatch
<1>2. PICK i \in DOMAIN controlStack :
        /\ controlStack[i].loopValues # <<>> /\ expandStaticLoopValues(controlStack) = controlStack[i].loopValues[1]
        /\ \A j \in DOMAIN controlStack : controlStack[j].loopValues # <<>> => j <= i
  BY <1>1, ExpandedFacts
<1>3. m \in DOMAIN controlStack /\ i \in 1..m
  BY <1>1, <1>2
<1>4. \A k \in i + 1..m : controlStack[k].loopValues = <<>>
  <2>. SUFFICES ASSUME NEW k \in i + 1..m, controlStack[k].loopValues # <<>> PROVE FALSE
    OBVIOUS
  <2>1. k \in DOMAIN controlStack /\ ~(k <= i)
    BY <1>1, <1>3
  <2>. QED BY <1>2, <2>1
<1>5. EachOfLoop(controlStack, bash.blocks, m)
  BY <1>3 DEF EachMatch
<1>. HIDE DEF m
<1>6. bash.blocks[m].each = expandStaticLoopValues(controlStack)
  BY <1>2, <1>3, <1>4, <1>5 DEF EachOfLoop
<1>7. bash.blocks # <<>> /\ Last(bash.blocks) = bash.blocks[m]
  <2>1. bash.blocks # <<>>
    BY <1>1, <1>3
  <2>. QED BY <1>1, <2>1, PopFacts
<1>. QED BY <1>6, <1>7 DEF EachOf

-----------------------------------------------------------------------------
(* The order of lines                                                      *)

\* The steps, by what they do to the function and to the bare locals that are pending.
LEMMA ScanCases ==
  ASSUME TypeInv, [Next]_vars
  PROVE  \/ \E form \in LineForms \ {"local", "assign"} : \E what \in WhatOf(form) :
              /\ Writes(Line(form, what)) /\ UNCHANGED <<requirements, dynamic, pendingLocalReset>>
              /\ form # "function" => function' \in {function, NoFunction}
              /\ form = "function" =>
                   function = NoFunction /\ function' = what /\ what \notin Defined /\ origin = "ebuild" /\ nesting' = <<>>
         \/ ScanLocal
         \/ \E guard \in Guards, value \in {"static", "each", "self", "dynamic", "unmatched"}, operator \in {"=", "+="} :
              Finds(guard, value, operator)
         \/ ScanEclass \/ InheritMissing \/ UNCHANGED vars \/ \E inherits \in BOOLEAN : Read(inherits)
<1>. DEFINE Plain == \E form \in LineForms \ {"local", "assign"} : \E what \in WhatOf(form) :
              /\ Writes(Line(form, what)) /\ UNCHANGED <<requirements, dynamic, pendingLocalReset>>
              /\ form # "function" => function' \in {function, NoFunction}
              /\ form = "function" =>
                   function = NoFunction /\ function' = what /\ what \notin Defined /\ origin = "ebuild" /\ nesting' = <<>>
            Assigns == \E guard \in Guards, value \in {"static", "each", "self", "dynamic", "unmatched"},
                          operator \in {"=", "+="} : Finds(guard, value, operator)
<1>a. /\ LineForms = {"function", "close", "if", "elif", "else", "fi", "for", "array", "local", "call", "check", "assign"}
      /\ WhatOf("if") = WrittenTests /\ WhatOf("elif") = WrittenTests /\ WhatOf("for") = BOOLEAN
      /\ WhatOf("array") = AnyArrays /\ WhatOf("check") = Guardings /\ WhatOf("function") = Functions
      /\ None \in WhatOf("else") /\ None \in WhatOf("fi") /\ None \in WhatOf("call") /\ None \in WhatOf("close")
  BY DEF LineForms, WhatOf
<1>1. ASSUME NEW form \in LineForms \ {"local", "assign", "function"}, NEW what \in WhatOf(form), Writes(Line(form, what)),
             UNCHANGED <<requirements, dynamic, pendingLocalReset>>, function' \in {function, NoFunction}
      PROVE  Plain
  BY <1>1
<1>2. ASSUME NEW name \in Functions, ScanFunction(name) PROVE Plain
  <2>1. /\ Writes(Line("function", name)) /\ UNCHANGED <<requirements, dynamic, pendingLocalReset>>
        /\ function = NoFunction /\ function' = name /\ name \notin Defined /\ origin = "ebuild" /\ nesting' = <<>>
    BY <1>2 DEF ScanFunction, foundVars
  <2>. QED BY <1>a, <2>1
<1>. HIDE DEF Plain
<1>3. ASSUME NEW name \in Functions, ScanCall(name) PROVE Plain
  BY <1>1, <1>3, <1>a DEF ScanCall, scanVars
<1>4. ASSUME NEW condition \in UseTests, ScanIfUse(condition) PROVE Plain
  BY <1>1, <1>4, <1>a, ConstantFacts, TestTypes DEF ScanIfUse, foundVars
<1>5. ASSUME NEW test \in Tests, ScanIf(test) \/ ScanElif(test) PROVE Plain
  BY <1>1, <1>5, <1>a, ConstantFacts DEF ScanIf, ScanElif, foundVars
<1>6. ASSUME NEW atom \in Opaque, ScanBlock(atom) PROVE Plain
  BY <1>1, <1>6, <1>a, TestTypes DEF ScanBlock, foundVars
<1>7. ASSUME NEW guard \in Guards, ScanCheck(guard) PROVE Plain
  BY <1>1, <1>7, <1>a DEF ScanCheck, scanVars, Guards, Guardings
<1>8. ASSUME NEW array \in Arrays \cup {NoArray, RuntimeArray}, ScanArray(array) PROVE Plain
  BY <1>1, <1>8, <1>a, ConstantFacts DEF ScanArray, foundVars
<1>9. ASSUME NEW ofKeys \in BOOLEAN, ScanLoop(ofKeys) PROVE Plain
  BY <1>1, <1>9, <1>a DEF ScanLoop, foundVars
<1>10. ASSUME ScanBrace \/ ScanElse \/ ScanFi \/ ScanDone PROVE Plain
  BY <1>1, <1>10, <1>a DEF ScanBrace, ScanElse, ScanFi, ScanDone, foundVars
<1>11. ASSUME ScanAssign PROVE Assigns
  BY <1>11, NewRequirement
<1>. HIDE DEF Assigns
<1>12. Plain \/ ScanLocal \/ Assigns \/ ScanEclass \/ InheritMissing \/ UNCHANGED vars \/ \E inherits \in BOOLEAN : Read(inherits)
  BY NextCases, <1>2, <1>3, <1>4, <1>5, <1>6, <1>7, <1>8, <1>9, <1>10, <1>11
<1>. QED BY <1>12 DEF Plain, Assigns

(***************************************************************************)
(* There are functions in the ebuild only; what it assigns outside of them *)
(* comes first.  A bare local comes first in its function.                 *)
(***************************************************************************)
OrderInv ==
  /\ function # NoFunction => origin = "ebuild"
  /\ origin = "eclass" => Has("eclass")
  /\ pendingLocalReset \subseteq Defined
  /\ \A n \in DOMAIN program :
       /\ program[n].fn # NoFunction => program[n].origin = "ebuild"
       /\ program[n].origin = "eclass" => Has("eclass")
       /\ program[n].form = "assign" /\ program[n].fn = NoFunction /\ program[n].origin = "ebuild" =>
            \A k \in DOMAIN program : program[k].fn # NoFunction => n < k
FirstInv ==
  program # <<>> =>
    /\ Last(program).form \in {"function", "local"} => nesting = <<>>
    /\ Last(program).form = "local" => Has("local") /\ function \in pendingLocalReset

LEMMA OrderInit == Init => OrderInv /\ FirstInv
BY DEF Init, OrderInv, FirstInv

LEMMA OrderStep == TypeInv /\ DefinedInv /\ OrderInv /\ [Next]_vars => OrderInv'
<1>. SUFFICES ASSUME TypeInv, DefinedInv, OrderInv, [Next]_vars PROVE OrderInv'
  OBVIOUS
<1>1. ASSUME NEW form \in LineForms, NEW what \in WhatOf(form), Writes(Line(form, what)),
             form # "function" => function' \in {function, NoFunction},
             form = "function" => origin = "ebuild",
             pendingLocalReset' \subseteq pendingLocalReset \cup Defined
      PROVE  OrderInv'
  <2>1. /\ program'[LineNumber] = Line(form, what) /\ DOMAIN program' = 1..Len(program) + 1
        /\ DOMAIN program = 1..Len(program) /\ Len(program) \in Nat /\ LineNumber = Len(program) + 1
        /\ \A n \in DOMAIN program : program'[n] = program[n]
        /\ origin' = origin /\ dialect' = dialect
    BY <1>1, WriteFacts DEF TypeInv, ScannerInv
  <2>2. /\ program'[LineNumber].fn = function /\ program'[LineNumber].form = form /\ program'[LineNumber].what = what
        /\ program'[LineNumber].origin = origin
    BY <2>1 DEF Line
  <2>3. /\ \A n \in DOMAIN program : n \in DOMAIN program' /\ n < LineNumber
        /\ \A n \in DOMAIN program' : n \in DOMAIN program \/ n = LineNumber
        /\ LineNumber \in DOMAIN program'
    BY <2>1
  <2>. HIDE DEF LineNumber
  <2>4. Defined \subseteq Defined'
    BY <2>1, <2>3 DEF Defined
  <2>5. pendingLocalReset' \subseteq Defined'
    BY <1>1, <2>4 DEF OrderInv
  <2>6. function' # NoFunction => origin' = "ebuild"
    BY <1>1, <2>1 DEF OrderInv
  <2>7. ASSUME form = "assign", function = NoFunction, origin = "ebuild", NEW k \in DOMAIN program', program'[k].fn # NoFunction
        PROVE  FALSE
    <3>1. Line(form, what).form = "assign"
      BY <2>7 DEF Line
    <3>2. Defined = {}
      BY <1>1, <2>7, <3>1 DEF Writes
    <3>3. k \in DOMAIN program /\ program[k].fn # NoFunction
      BY <2>1, <2>2, <2>3, <2>7
    <3>. QED BY <3>2, <3>3 DEF DefinedInv
  <2>8. ASSUME NEW n \in DOMAIN program'
        PROVE  /\ program'[n].fn # NoFunction => program'[n].origin = "ebuild"
               /\ program'[n].origin = "eclass" => Has("eclass")
               /\ program'[n].form = "assign" /\ program'[n].fn = NoFunction /\ program'[n].origin = "ebuild" =>
                    \A k \in DOMAIN program' : program'[k].fn # NoFunction => n < k
    <3>1. CASE n = LineNumber
      BY <2>2, <2>7, <3>1 DEF OrderInv
    <3>2. CASE n \in DOMAIN program
      <4>1. /\ program[n].fn # NoFunction => program[n].origin = "ebuild"
            /\ program[n].origin = "eclass" => Has("eclass")
            /\ program[n].form = "assign" /\ program[n].fn = NoFunction /\ program[n].origin = "ebuild" =>
                 \A k \in DOMAIN program : program[k].fn # NoFunction => n < k
        BY <3>2 DEF OrderInv
      <4>2. program'[n] = program[n]
        BY <2>1, <3>2
      <4>3. ASSUME program[n].form = "assign", program[n].fn = NoFunction, program[n].origin = "ebuild",
                   NEW k \in DOMAIN program', program'[k].fn # NoFunction
            PROVE  n < k
        <5>1. CASE k = LineNumber
          BY <2>3, <3>2, <5>1
        <5>2. CASE k \in DOMAIN program
          BY <2>1, <4>1, <4>3, <5>2
        <5>. QED BY <2>3, <5>1, <5>2
      <4>. QED BY <4>1, <4>2, <4>3
    <3>. QED BY <2>3, <3>1, <3>2
  <2>. QED BY <2>1, <2>5, <2>6, <2>8 DEF OrderInv, Has
<1>2. CASE ScanLocal
  <2>1. "local" \in LineForms /\ None \in WhatOf("local")
    BY DEF LineForms, WhatOf
  <2>2. function \in Defined
    BY <1>2 DEF ScanLocal, DefinedInv
  <2>. QED BY <1>1, <1>2, <2>1, <2>2 DEF ScanLocal
<1>3. ASSUME NEW guard \in Guards, NEW value \in {"static", "each", "self", "dynamic", "unmatched"}, NEW operator \in {"=", "+="},
             Finds(guard, value, operator)
      PROVE  OrderInv'
  <2>1. LineOf(guard, value, operator) \in WhatOf("assign") /\ "assign" \in LineForms
    BY LineOfTypes
  <2>2. /\ Writes(Line("assign", LineOf(guard, value, operator))) /\ function' = function
        /\ pendingLocalReset' \subseteq pendingLocalReset
    BY <1>3 DEF Finds
  <2>. QED BY <1>1, <2>1, <2>2
<1>4. ASSUME program' = program, dialect' = dialect, pendingLocalReset' \in {pendingLocalReset, {}},
             function' # NoFunction => function' = function /\ origin' = origin,
             origin' = "eclass" => Has("eclass")
      PROVE  OrderInv'
  <2>1. Defined' = Defined /\ (Has("eclass"))' = Has("eclass")
    BY <1>4 DEF Defined, Has
  <2>2. pendingLocalReset' \subseteq Defined'
    BY <1>4, <2>1 DEF OrderInv
  <2>. QED BY <1>4, <2>1, <2>2 DEF OrderInv
<1>5. CASE ScanEclass
  BY <1>4, <1>5 DEF ScanEclass
<1>6. CASE InheritMissing
  BY <1>4, <1>6 DEF InheritMissing, EndOfFile, scanVars
<1>7. CASE UNCHANGED vars \/ \E inherits \in BOOLEAN : Read(inherits)
  BY <1>4, <1>7 DEF vars, scanVars, Read, OrderInv
<1>8. ASSUME NEW form \in LineForms \ {"local", "assign"}, NEW what \in WhatOf(form),
             Writes(Line(form, what)), UNCHANGED <<requirements, dynamic, pendingLocalReset>>,
             form # "function" => function' \in {function, NoFunction},
             form = "function" =>
               function = NoFunction /\ function' = what /\ what \notin Defined /\ origin = "ebuild" /\ nesting' = <<>>
      PROVE  OrderInv'
  BY <1>1, <1>8
<1>. QED BY ScanCases, <1>2, <1>3, <1>5, <1>6, <1>7, <1>8

LEMMA LastOfLine ==
  ASSUME TypeInv, NEW form \in LineForms, NEW what \in WhatOf(form), Writes(Line(form, what))
  PROVE  program' # <<>> /\ Last(program').form = form
<1>1. /\ program' = Append(program, Line(form, what)) /\ program' \in Seq(Lines) /\ Len(program') = LineNumber
      /\ program'[LineNumber] = Line(form, what) /\ LineNumber # 0
  <2>1. /\ program' = Append(program, Line(form, what)) /\ program' \in Seq(Lines) /\ Len(program') = Len(program) + 1
        /\ LineNumber = Len(program) + 1 /\ program'[LineNumber] = Line(form, what) /\ Len(program) \in Nat
    BY WriteFacts DEF TypeInv, ScannerInv
  <2>. QED BY <2>1
<1>2. program' # <<>>
  <2>1. Len(<<>>) = 0
    OBVIOUS
  <2>. HIDE DEF LineNumber
  <2>. QED BY <1>1, <2>1
<1>. HIDE DEF LineNumber
<1>3. Last(program') = Line(form, what)
  BY <1>1 DEF Last
<1>. QED BY <1>2, <1>3 DEF Line

LEMMA FirstStep == TypeInv /\ DefinedInv /\ FirstInv /\ [Next]_vars => FirstInv'
<1>. SUFFICES ASSUME TypeInv, DefinedInv, FirstInv, [Next]_vars PROVE FirstInv'
  OBVIOUS
<1>1. ASSUME NEW form \in LineForms \ {"local"}, NEW what \in WhatOf(form), Writes(Line(form, what)),
             form = "function" => nesting' = <<>>
      PROVE  FirstInv'
  <2>1. Last(program').form = form
    BY <1>1, LastOfLine
  <2>. QED BY <1>1, <2>1 DEF FirstInv
<1>2. CASE ScanLocal
  <2>1. "local" \in LineForms /\ None \in WhatOf("local")
    BY DEF LineForms, WhatOf
  <2>2. Writes(Line("local", None)) /\ Line("local", None).form = "local" /\ function # NoFunction
    BY <1>2 DEF ScanLocal, Line
  <2>3. Last(program').form = "local" /\ dialect' = dialect
    BY <2>1, <2>2, LastOfLine DEF Writes
  <2>4. program # <<>>
    <3>1. function \in Defined
      BY <2>2 DEF DefinedInv
    <3>. QED BY <3>1 DEF Defined
  <2>5. nesting = <<>>
    BY <2>2, <2>4 DEF Writes, FirstInv
  <2>. QED BY <1>2, <2>3, <2>5 DEF ScanLocal, FirstInv, Has
<1>3. ASSUME NEW guard \in Guards, NEW value \in {"static", "each", "self", "dynamic", "unmatched"}, NEW operator \in {"=", "+="},
             Finds(guard, value, operator)
      PROVE  FirstInv'
  <2>1. LineOf(guard, value, operator) \in WhatOf("assign") /\ "assign" \in LineForms \ {"local"}
    BY LineOfTypes
  <2>2. Writes(Line("assign", LineOf(guard, value, operator)))
    BY <1>3 DEF Finds
  <2>. QED BY <1>1, <2>1, <2>2
<1>4. ASSUME UNCHANGED <<program, dialect, nesting, function>>,
             pendingLocalReset' = pendingLocalReset \/ function = NoFunction
      PROVE  FirstInv'
  <2>1. NoFunction \notin pendingLocalReset
    BY ConstantFacts DEF TypeInv, ScannerInv
  <2>2. (Has("local"))' = Has("local")
    BY <1>4 DEF Has
  <2>. QED BY <1>4, <2>1, <2>2 DEF FirstInv
<1>5. CASE ScanEclass
  BY <1>4, <1>5 DEF ScanEclass, EndOfFile
<1>6. CASE InheritMissing
  BY <1>4, <1>6 DEF InheritMissing, scanVars
<1>7. CASE UNCHANGED vars \/ \E inherits \in BOOLEAN : Read(inherits)
  BY <1>4, <1>7 DEF vars, scanVars, Read
<1>. QED BY ScanCases, <1>1, <1>2, <1>3, <1>5, <1>6, <1>7

(***************************************************************************)
(* What a line does to the value.                                          *)
(***************************************************************************)
LEMMA ValueByLine ==
  ASSUME TypeInv, NEW form \in LineForms, NEW what \in WhatOf(form), Writes(Line(form, what)),
         NEW start \in Starts, NEW bash \in Shells, bash = Sourcing(start), NEW after, after = Sourcing(start)'
  PROVE  /\ Follows(bash) /\ form = "assign" /\ Runs(bash, what.guard) => after.value = Assigned(bash, what, LineNumber)
         /\ Follows(bash) /\ form = "local" /\ Runs(bash, NoGuard) => after.value = {}
         /\ ~Follows(bash) => after = bash
         /\ \/ form \notin {"assign", "local"}
            \/ form = "assign" /\ ~Runs(bash, what.guard)
            => after.value = bash.value
<1>1. PICK line \in Lines :
        /\ line.form = form /\ line.what = what /\ line.number = LineNumber
        /\ Follows(bash) => after = Obey(bash, line)
        /\ ~Follows(bash) => after = bash
  BY TurnOfLine
<1>2. CASE ~Follows(bash)
  BY <1>1, <1>2
<1>3. CASE Follows(bash)
  <2>1. line.form = form /\ line.what = what /\ line.number = LineNumber
    BY <1>1
  <2>2. Obey(bash, line).value = IF line.form = "assign" /\ Runs(bash, line.what.guard) THEN Assigned(bash, line.what, line.number)
                                 ELSE IF line.form = "local" /\ Runs(bash, NoGuard) THEN {} ELSE bash.value
    BY ObeyValue
  <2>3. after = Obey(bash, line)
    BY <1>1, <1>3
  <2>. HIDE DEF LineNumber
  <2>. QED BY <1>1, <1>3, <2>1, <2>2, <2>3
<1>. QED BY <1>2, <1>3

-----------------------------------------------------------------------------
(* The value                                                               *)

\* The last = takes what was there before it.
ValueOf(found, value) ==
  {<<r.at.line, r.token>> : r \in {one \in found : ~\E later \in found : later.operator = "=" /\ one.at.line < later.at.line}}
    \cup (IF \E r \in found : r.operator = "=" THEN {} ELSE value)

\* There are the requirements of line n more, which name all of the symbols.
Adds(found, later, n, symbols, operator) ==
  \E more \in SUBSET Requirements :
    /\ later = found \cup more
    /\ \A r \in more : r.at.line = n /\ r.token \in symbols /\ r.operator = operator
    /\ \A t \in symbols : \E r \in more : r.token = t

\* They are on a later line, and name something.
Grows(found, later, n, symbols, operator) ==
  /\ found \in SUBSET Requirements /\ n \in Nat /\ symbols # {} /\ operator \in {"=", "+="}
  /\ \A r \in found : r.at.line < n
  /\ Adds(found, later, n, symbols, operator)
\* what an assignment on line n makes of the value
Effect(n, symbols, operator, value) == ({n} \X symbols) \cup (IF operator = "=" THEN {} ELSE value)

(***************************************************************************)
(* One line more, which replaces or appends.                               *)
(***************************************************************************)
LEMMA ValueAdd ==
  ASSUME NEW found, NEW later, NEW n, NEW T, NEW operator, NEW value, Grows(found, later, n, T, operator)
  PROVE  ValueOf(later, value) = Effect(n, T, operator, ValueOf(found, value))
<1>0. PICK more \in SUBSET Requirements :
        /\ later = found \cup more
        /\ \A r \in more : r.at.line = n /\ r.token \in T /\ r.operator = operator
        /\ \A t \in T : \E r \in more : r.token = t
  BY DEF Grows, Adds
<1>a. /\ found \in SUBSET Requirements /\ n \in Nat /\ T # {} /\ operator \in {"=", "+="}
      /\ \A r \in found : r.at.line < n
  BY DEF Grows
<1>. DEFINE all == found \cup more
            Stays(r, set) == ~\E other \in set : other.operator = "=" /\ r.at.line < other.at.line
            Pairs(set) == {<<r.at.line, r.token>> : r \in {one \in set : Stays(one, set)}}
<1>1. \A r \in all : r.at.line \in Nat /\ r \in Requirements
  BY <1>a DEF Requirements, Evidences
<1>2. PICK new \in more : new.at.line = n /\ new.operator = operator
  BY <1>0, <1>a
<1>3. \A r \in more : Stays(r, all)
  BY <1>0, <1>1, <1>a
<1>4. ASSUME operator = "=" PROVE ValueOf(all, value) = {n} \X T
  <2>1. \A r \in found : ~Stays(r, all)
    BY <1>2, <1>4, <1>a
  <2>2. \A r \in all : Stays(r, all) <=> r \in more
    BY <1>3, <2>1
  <2>. HIDE DEF Stays
  <2>3. Pairs(all) = {<<r.at.line, r.token>> : r \in more}
    BY <2>2
  <2>4. {<<r.at.line, r.token>> : r \in more} = {n} \X T
    BY <1>0
  <2>5. \E r \in all : r.operator = "="
    BY <1>2, <1>4
  <2>6. ValueOf(all, value) = Pairs(all) \cup (IF \E r \in all : r.operator = "=" THEN {} ELSE value)
    BY DEF ValueOf, Stays
  <2>. HIDE DEF Pairs, all
  <2>. QED BY <2>3, <2>4, <2>5, <2>6
<1>5. ASSUME operator = "+=" PROVE ValueOf(all, value) = ({n} \X T) \cup ValueOf(found, value)
  <2>1. \A r \in found : Stays(r, all) <=> Stays(r, found)
    BY <1>0, <1>5
  <2>. HIDE DEF Stays
  <2>2. Pairs(all) = {<<r.at.line, r.token>> : r \in more} \cup Pairs(found)
    <3>1. {one \in all : Stays(one, all)} = more \cup {one \in found : Stays(one, found)}
      BY <1>3, <2>1
    <3>. QED BY <3>1
  <2>3. {<<r.at.line, r.token>> : r \in more} = {n} \X T
    BY <1>0
  <2>4. (\E r \in all : r.operator = "=") <=> (\E r \in found : r.operator = "=")
    BY <1>0, <1>5
  <2>5. /\ ValueOf(all, value) = Pairs(all) \cup (IF \E r \in all : r.operator = "=" THEN {} ELSE value)
        /\ ValueOf(found, value) = Pairs(found) \cup (IF \E r \in found : r.operator = "=" THEN {} ELSE value)
    BY DEF ValueOf, Stays
  <2>. HIDE DEF Pairs, all
  <2>. QED BY <2>2, <2>3, <2>4, <2>5
<1>. HIDE DEF all
<1>6. ValueOf(all, value) = ({n} \X T) \cup (IF operator = "=" THEN {} ELSE ValueOf(found, value))
  BY <1>4, <1>5, <1>a
<1>. QED BY <1>0, <1>6 DEF all, Effect

\* when all is told
AppliesIn(evidence, world) == kernelEvidenceApplicability(evidence, ContextOf(world, TRUE, TRUE)) = "applicable"
\* The requirements of the file before a line that apply.
Applied(bash, l) ==
  {r \in requirements :
     r.at.origin = bash.file /\ OfPhase(r.at) /\ r.at.line < l /\ AppliesIn(r.at, bash.world)}
NoneDynamic(bash) == \A d \in dynamic : d.at.line \notin bash.ran
\* Bash has come to a bare local, whose assignment is next.
HoldsLocal(bash) == Follows(bash) /\ program # <<>> /\ Last(program).form = "local"
SeenMatch(start, bash) ==
  \A check \in bash.seen \ start.seen : check[2] = ValueOf(Applied(bash, check[1]), start.value)
ValueMatch(start, bash) ==
  NoneDynamic(bash) =>
    /\ SeenMatch(start, bash)
    /\ bash.value = IF HoldsLocal(bash) THEN {} ELSE ValueOf(Applied(bash, LineNumber), start.value)
    /\ Follows(bash) /\ function \in pendingLocalReset => HoldsLocal(bash)
Understood(d) == LoopsUnderstood(d) /\ ConditionsUnmixed(d) /\ ValuesUnderstood(d)
ValueInv ==
  Understood(dialect) => \A start \in Starts, bash \in Shells : bash = Sourcing(start) => ValueMatch(start, bash)

LEMMA ValueInit == Init => ValueInv
<1>. SUFFICES ASSUME Init, NEW start \in Starts PROVE ValueMatch(start, Sourcing(start))
  BY DEF ValueInv
<1>1. Sourcing(start) = start
  BY Turns!FoldEmpty DEF Init, Sourcing
<1>2. program = <<>> /\ requirements = {} /\ pendingLocalReset = {}
  BY DEF Init
<1>3. Applied(start, LineNumber) = {} /\ ~HoldsLocal(start)
  BY <1>2 DEF Applied, HoldsLocal
<1>4. ValueOf({}, start.value) = start.value
  BY DEF ValueOf
<1>. HIDE DEF LineNumber
<1>. QED BY <1>1, <1>2, <1>3, <1>4 DEF ValueMatch, SeenMatch

(***************************************************************************)
(* An assignment that is read runs when its evidence applies, and only     *)
(* then, when all is told.                                                 *)
(***************************************************************************)
LEMMA AssignmentRuns ==
  ASSUME TypeInv, NestInv, OutsideInv, LoopsInv, LoopsUnderstood(dialect), origin \in {"ebuild", "eclass"},
         NEW start \in Starts, NEW bash \in Shells, bash = Sourcing(start), FramesMatch(bash), ConditionsMatch(bash),
         Follows(bash), NEW guard \in Guardings, NEW value \in {"static", "each", "self"}, Has(value), ~Unread(value)
  PROVE  Runs(bash, guard) <=> AppliesIn(Evidence(guard), bash.world)
<1>1. ~dynamicKernelControl(controlStack) /\ ~IsDynamic(value)
  BY DEF Unread
<1>2. \A i \in DOMAIN controlStack : nesting[i] = "loop" => bash.blocks[i].now
  BY <1>1, LoopsOfAssignment
<1>3. kernelEvidenceApplicability(Evidence(guard), ContextOf(bash.world, TRUE, TRUE)) = "applicable" => Runs(bash, guard)
  BY <1>1, <1>2, ApplicableRuns
<1>. DEFINE answer == kernelEvidenceApplicability(Evidence(guard), ContextOf(bash.world, TRUE, TRUE))
<1>4. ASSUME Runs(bash, guard) PROVE answer = "applicable"
  <2>1. Upheld(Evidence(guard), bash.world)
    BY <1>4, RunsIsKept
  <2>2. answer # "inapplicable" /\ answer # "indeterminate"
    BY <2>1 DEF Upheld
  <2>3. answer \in {"applicable", "inapplicable", "indeterminate"}
    BY DEF kernelEvidenceApplicability, combineApplicability, AllApplicable
  <2>. QED BY <2>2, <2>3
<1>. QED BY <1>3, <1>4 DEF AppliesIn

(***************************************************************************)
(* Requirements are of lines that are written.                             *)
(***************************************************************************)
LEMMA AppliedLines ==
  ASSUME TypeInv, LocatedInv
  PROVE  /\ \A r \in requirements : r \in Requirements /\ r.at.line \in DOMAIN program /\ r.at.line < LineNumber /\ r.at.line \in Nat
         /\ DOMAIN program = 1..Len(program) /\ Len(program) \in Nat /\ LineNumber = Len(program) + 1
         /\ \A bash : Applied(bash, LineNumber + 1) = Applied(bash, LineNumber)
<1>1. DOMAIN program = 1..Len(program) /\ Len(program) \in Nat /\ LineNumber = Len(program) + 1 /\ requirements \subseteq Requirements
  BY DEF TypeInv, ProgramInv, FoundInv, LineNumber
<1>2. \A r \in requirements : r \in Requirements /\ r.at.line \in DOMAIN program
  BY <1>1 DEF LocatedInv, Located
<1>. HIDE DEF LineNumber
<1>3. \A r \in requirements : r.at.line < LineNumber /\ r.at.line \in Nat /\ r.at.line < LineNumber + 1
  BY <1>1, <1>2
<1>. QED BY <1>1, <1>2, <1>3 DEF Applied

(***************************************************************************)
(* At a bare local nothing is open, and what follows is no replacement.    *)
(***************************************************************************)
LEMMA LocalFacts ==
  ASSUME TypeInv, FirstInv, ValuesUnderstood(dialect), NEW bash \in Shells, FramesMatch(bash), HoldsLocal(bash)
  PROVE  /\ function \in pendingLocalReset /\ ~Has("=") /\ Guards = {NoGuard} /\ Runs(bash, NoGuard)
<1>1. /\ Follows(bash) /\ Has("local") /\ nesting = <<>> /\ function \in pendingLocalReset
  BY DEF HoldsLocal, FirstInv
<1>2. ~Has("=") /\ ~Has("guarded")
  BY <1>1 DEF ValuesUnderstood, Has
<1>3. bash.blocks = <<>>
  <2>1. Len(controlStack) = 0 /\ bash.blocks \in Seq(Blocks) /\ Len(bash.blocks) = Len(controlStack)
    BY <1>1 DEF TypeInv, ScannerInv, Shells, FramesMatch
  <2>. QED BY <2>1
<1>4. Runs(bash, NoGuard)
  BY <1>3 DEF Runs, NoGuard
<1>. QED BY <1>1, <1>2, <1>4 DEF Guards

(***************************************************************************)
(* What an assignment adds to what applies: nothing that is not on its     *)
(* line, and when it is read and runs, all its symbols.                    *)
(***************************************************************************)
LEMMA AppliedMore ==
  ASSUME TypeInv, LocatedInv, NEW bash \in Shells, NEW after \in Shells, after.world = bash.world, after.file = bash.file,
         NEW guard \in Guards, NEW value \in {"static", "each", "self", "dynamic", "unmatched"}, NEW operator \in {"=", "+="},
         Finds(guard, value, operator), TypeInv', NEW n, n = LineNumber
  PROVE  /\ \A l \in DOMAIN program : Applied(after, l)' = Applied(bash, l)
         /\ Unread(value) \/ ~Follows(bash) \/ ~AppliesIn(Evidence(guard), bash.world) => Applied(after, n + 1)' = Applied(bash, n)
         /\ ~Unread(value) /\ Follows(bash) /\ AppliesIn(Evidence(guard), bash.world) =>
              Adds(Applied(bash, n), Applied(after, n + 1)', n, TokensOf(value), AssignmentOperator(value, operator))
<1>. DEFINE Fit(r) == r.at.origin = bash.file /\ OfPhase(r.at) /\ AppliesIn(r.at, bash.world)
            old == requirements
            all == requirements'
<1>1. /\ old \subseteq all /\ all \subseteq Requirements
      /\ \A r \in all \ old :
           ~Unread(value) /\ r.at = Evidence(guard) /\ r.token \in TokensOf(value) /\ r.operator = AssignmentOperator(value, operator)
      /\ ~Unread(value) =>
           \A t \in TokensOf(value) :
             \E r \in all : r.at = Evidence(guard) /\ r.token = t /\ r.operator = AssignmentOperator(value, operator)
  BY DEF Finds, FindsRequirements, TypeInv, FoundInv
<1>2. /\ Evidence(guard).line = n /\ Evidence(guard).origin = origin /\ Evidence(guard).function = function
  BY DEF Evidence
<1>3. /\ \A r \in old : r.at.line \in DOMAIN program /\ r.at.line < n /\ r.at.line \in Nat
      /\ DOMAIN program = 1..Len(program) /\ Len(program) \in Nat /\ n = Len(program) + 1
  BY AppliedLines
<1>4. \A l : Applied(bash, l) = {r \in old : Fit(r) /\ r.at.line < l}
  BY DEF Applied
<1>a. ASSUME NEW l PROVE Applied(after, l)' = {r \in all : Fit(r) /\ r.at.line < l}
  BY DEF Applied, OfPhase, AppliesIn
<1>. HIDE DEF LineNumber
<1>5. ASSUME NEW r \in all \ old, Fit(r)
      PROVE  r.at.line = n /\ ~Unread(value) /\ Follows(bash) /\ AppliesIn(Evidence(guard), bash.world)
  <2>1. r.at = Evidence(guard) /\ ~Unread(value)
    BY <1>1, <1>5
  <2>2. r.at.origin = origin /\ r.at.function = function /\ r.at.line = n
    BY <1>2, <2>1
  <2>. QED BY <1>5, <2>1, <2>2 DEF Follows, OfPhase
<1>6. Follows(bash) /\ AppliesIn(Evidence(guard), bash.world) => \A r : r.at = Evidence(guard) => Fit(r)
  <2>1. Follows(bash) => Evidence(guard).origin = bash.file /\ OfPhase(Evidence(guard))
    BY <1>2 DEF Follows, OfPhase
  <2>. QED BY <2>1
<1>. HIDE DEF Fit, old, all
<1>7. ASSUME NEW l \in DOMAIN program PROVE Applied(after, l)' = Applied(bash, l)
  <2>1. ~(n < l)
    BY <1>3, <1>7
  <2>2. \A r \in all : Fit(r) /\ r.at.line < l => r \in old
    BY <1>5, <2>1
  <2>3. {r \in all : Fit(r) /\ r.at.line < l} = {r \in old : Fit(r) /\ r.at.line < l}
    BY <1>1, <2>2
  <2>4. Applied(after, l)' = {r \in all : Fit(r) /\ r.at.line < l}
    BY <1>a
  <2>. QED BY <1>4, <2>3, <2>4
<1>8. n < n + 1 /\ \A r \in old : r.at.line < n + 1
  BY <1>3
<1>9. ASSUME Unread(value) \/ ~Follows(bash) \/ ~AppliesIn(Evidence(guard), bash.world)
      PROVE  Applied(after, n + 1)' = Applied(bash, n)
  <2>1. \A r \in all : Fit(r) => r \in old
    BY <1>5, <1>9
  <2>2. {r \in all : Fit(r) /\ r.at.line < n + 1} = {r \in old : Fit(r) /\ r.at.line < n}
    BY <1>1, <1>3, <1>8, <2>1
  <2>3. Applied(after, n + 1)' = {r \in all : Fit(r) /\ r.at.line < n + 1}
    BY <1>a
  <2>. QED BY <1>4, <2>2, <2>3
<1>10. ASSUME ~Unread(value), Follows(bash), AppliesIn(Evidence(guard), bash.world)
       PROVE  Adds(Applied(bash, n), Applied(after, n + 1)', n, TokensOf(value), AssignmentOperator(value, operator))
  <2>. DEFINE more == {r \in all : r.at = Evidence(guard)}
  <2>1. \A r \in more : r \in all \ old /\ Fit(r) /\ r.at.line = n
    <3>1. ASSUME NEW r \in more PROVE r \in all \ old /\ Fit(r) /\ r.at.line = n
      <4>1. r.at = Evidence(guard) /\ r \in all
        OBVIOUS
      <4>2. r.at.line = n
        BY <1>2, <4>1
      <4>3. r \notin old
        <5>1. ~(n < n)
          BY <1>3
        <5>. QED BY <1>3, <4>2, <5>1
      <4>. QED BY <1>6, <1>10, <4>1, <4>2, <4>3
    <3>. QED BY <3>1
  <2>2. \A r \in all : Fit(r) => r \in old \/ r \in more
    BY <1>1
  <2>3. more \in SUBSET Requirements
    BY <1>1
  <2>5. \A r \in more : r.token \in TokensOf(value) /\ r.operator = AssignmentOperator(value, operator)
    BY <1>1, <2>1
  <2>6. \A t \in TokensOf(value) : \E r \in more : r.token = t
    BY <1>1, <1>10
  <2>. HIDE DEF more
  <2>4. Applied(after, n + 1)' = Applied(bash, n) \cup more
    <3>1. \A r \in more : r \in all /\ Fit(r) /\ r.at.line < n + 1
      BY <1>8, <2>1
    <3>2. {r \in all : Fit(r) /\ r.at.line < n + 1} = {r \in old : Fit(r) /\ r.at.line < n} \cup more
      BY <1>1, <1>3, <1>8, <2>2, <3>1
    <3>3. Applied(after, n + 1)' = {r \in all : Fit(r) /\ r.at.line < n + 1}
      BY <1>a
    <3>. QED BY <1>4, <3>2, <3>3
  <2>. QED BY <2>1, <2>3, <2>4, <2>5, <2>6 DEF Adds
<1>. QED BY <1>7, <1>9, <1>10

(***************************************************************************)
(* What an assignment makes of the value is what its requirements make of  *)
(* it, unless it is left out of the account by a dynamic one.              *)
(***************************************************************************)
LEMMA ValueOfAssignment ==
  ASSUME TypeInv, TypeInv', NestInv, OutsideInv, LoopsInv, EachInv, LocatedInv, FirstInv, Understood(dialect),
         NEW start \in Starts, NEW bash \in Shells, bash = Sourcing(start), FramesMatch(bash), ConditionsMatch(bash),
         NEW after \in Shells, after = Sourcing(start)', NoneDynamic(after)', NEW n, n = LineNumber,
         NEW guard \in Guards, NEW value \in {"static", "each", "self", "dynamic", "unmatched"}, NEW operator \in {"=", "+="},
         Finds(guard, value, operator),
         bash.value = IF HoldsLocal(bash) THEN {} ELSE ValueOf(Applied(bash, n), start.value),
         Follows(bash) /\ function \in pendingLocalReset => HoldsLocal(bash)
  PROVE  /\ after.value = ValueOf(Applied(after, n + 1)', start.value)
         /\ ~(Follows(bash) /\ function \in pendingLocalReset')
<1>. DEFINE line == LineOf(guard, value, operator)
            T == TokensOf(value)
            op == AssignmentOperator(value, operator)
<1>1. /\ line \in WhatOf("assign") /\ "assign" \in LineForms /\ guard \in Guardings /\ line.guard = guard
      /\ line.operator = (IF value = "self" THEN "+=" ELSE operator) /\ line.each = (value = "each")
  BY LineOfTypes DEF LineOf
<1>2. Writes(Line("assign", line))
  BY DEF Finds
<1>. HIDE DEF line
<1>3. /\ after.world = bash.world /\ after.file = bash.file
      /\ Follows(bash) /\ Runs(bash, guard) => n \in after.ran
  <2>1. /\ after.world = bash.world /\ after.file = bash.file
        /\ after.ran = IF Follows(bash) /\ (\/ "assign" = "assign" /\ Runs(bash, line.guard)
                                            \/ "assign" = "check" /\ Runs(bash, line))
                       THEN bash.ran \cup {LineNumber} ELSE bash.ran
    BY <1>1, <1>2, RanByLine
  <2>2. Runs(bash, line.guard) <=> Runs(bash, guard)
    BY <1>1
  <2>. QED BY <2>1, <2>2
<1>4. /\ Follows(bash) /\ Runs(bash, guard) => after.value = Assigned(bash, line, n)
      /\ ~Follows(bash) \/ ~Runs(bash, guard) => after.value = bash.value
  <2>1. /\ Follows(bash) /\ "assign" = "assign" /\ Runs(bash, line.guard) => after.value = Assigned(bash, line, LineNumber)
        /\ ~Follows(bash) => after = bash
        /\ \/ "assign" \notin {"assign", "local"}
           \/ "assign" = "assign" /\ ~Runs(bash, line.guard)
           => after.value = bash.value
    BY <1>1, <1>2, ValueByLine
  <2>2. Runs(bash, line.guard) <=> Runs(bash, guard)
    BY <1>1
  <2>3. ASSUME Follows(bash), Runs(bash, guard) PROVE after.value = Assigned(bash, line, n)
    BY <2>1, <2>2, <2>3
  <2>4. ASSUME ~Follows(bash) \/ ~Runs(bash, guard) PROVE after.value = bash.value
    <3>1. CASE ~Follows(bash)
      BY <2>1, <3>1
    <3>2. CASE ~Runs(bash, guard)
      BY <2>1, <2>2, <3>2
    <3>. QED BY <2>4, <3>1, <3>2
  <2>. QED BY <2>3, <2>4
<1>5. /\ Unread(value) \/ ~Follows(bash) \/ ~AppliesIn(Evidence(guard), bash.world) => Applied(after, n + 1)' = Applied(bash, n)
      /\ ~Unread(value) /\ Follows(bash) /\ AppliesIn(Evidence(guard), bash.world) =>
           Adds(Applied(bash, n), Applied(after, n + 1)', n, T, op)
  <2>1. after.world = bash.world /\ after.file = bash.file
    BY <1>3
  <2>2. TypeInv /\ LocatedInv /\ TypeInv' /\ Finds(guard, value, operator) /\ n = LineNumber
    OBVIOUS
  <2>3. /\ \A l \in DOMAIN program : Applied(after, l)' = Applied(bash, l)
        /\ Unread(value) \/ ~Follows(bash) \/ ~AppliesIn(Evidence(guard), bash.world) => Applied(after, n + 1)' = Applied(bash, n)
        /\ ~Unread(value) /\ Follows(bash) /\ AppliesIn(Evidence(guard), bash.world) =>
             Adds(Applied(bash, n), Applied(after, n + 1)', n, TokensOf(value), AssignmentOperator(value, operator))
    BY <2>1, <2>2, AppliedMore
  <2>. QED BY <2>3
<1>6. Unread(value) /\ Follows(bash) => ~Runs(bash, guard)
  <2>1. Unread(value) => \E d \in dynamic' : d.at = Evidence(guard)
    BY DEF Finds, FindsDynamic
  <2>2. Evidence(guard).line = n
    BY DEF Evidence
  <2>3. \A d \in dynamic' : d.at.line \notin after.ran
    BY DEF NoneDynamic
  <2>. QED BY <1>3, <2>1, <2>2, <2>3
<1>7. ~Unread(value) /\ Follows(bash) => (Runs(bash, guard) <=> AppliesIn(Evidence(guard), bash.world))
  <2>. SUFFICES ASSUME ~Unread(value), Follows(bash) PROVE Runs(bash, guard) <=> AppliesIn(Evidence(guard), bash.world)
    OBVIOUS
  <2>1. value \in {"static", "each", "self"}
    BY DEF Unread, IsDynamic
  <2>2. origin \in {"ebuild", "eclass"} /\ Has(value) /\ LoopsUnderstood(dialect)
    BY DEF Follows, Shells, Finds, Understood
  <2>. QED BY <1>1, <2>1, <2>2, AssignmentRuns
<1>8. HoldsLocal(bash) => function \in pendingLocalReset /\ operator = "+=" /\ value # "self" /\ Runs(bash, guard)
  <2>. SUFFICES ASSUME HoldsLocal(bash) PROVE function \in pendingLocalReset /\ operator = "+=" /\ value # "self" /\ Runs(bash, guard)
    OBVIOUS
  <2>1. function \in pendingLocalReset /\ ~Has("=") /\ Guards = {NoGuard} /\ Runs(bash, NoGuard)
    BY LocalFacts DEF Understood
  <2>2. Has(operator) /\ (value = "self" => operator = "=")
    BY DEF Finds
  <2>3. operator = "+="
    BY <2>1, <2>2
  <2>4. guard = NoGuard
    BY <2>1
  <2>. QED BY <2>1, <2>2, <2>3, <2>4
<1>9. pendingLocalReset' \subseteq pendingLocalReset
  BY DEF Finds
<1>10. HoldsLocal(bash) => Follows(bash)
  BY DEF HoldsLocal
<1>. HIDE DEF T
\* the assignment has no effect
<1>11. ASSUME ~Follows(bash) \/ ~Runs(bash, guard)
       PROVE  after.value = ValueOf(Applied(after, n + 1)', start.value) /\ ~(Follows(bash) /\ function \in pendingLocalReset')
  <2>1. ~HoldsLocal(bash)
    BY <1>8, <1>10, <1>11
  <2>2. after.value = bash.value
    BY <1>4, <1>11
  <2>3. Applied(after, n + 1)' = Applied(bash, n)
    BY <1>5, <1>7, <1>11
  <2>4. bash.value = ValueOf(Applied(bash, n), start.value)
    BY <2>1
  <2>5. after.value = ValueOf(Applied(after, n + 1)', start.value)
    BY <2>2, <2>3, <2>4
  <2>. QED BY <1>9, <2>1, <2>5
\* it takes effect, and is read
<1>12. ASSUME Follows(bash), Runs(bash, guard)
       PROVE  after.value = ValueOf(Applied(after, n + 1)', start.value) /\ ~(Follows(bash) /\ function \in pendingLocalReset')
  <2>1. ~Unread(value) /\ AppliesIn(Evidence(guard), bash.world)
    BY <1>6, <1>7, <1>12
  <2>2. PICK later : later = Applied(after, n + 1)' /\ Adds(Applied(bash, n), later, n, T, op)
    BY <1>5, <1>12, <2>1
  <2>3. T # {}
    <3>1. value = "each" => T = expandStaticLoopValues(controlStack) /\ T # {}
      BY <2>1 DEF T, TokensOf, Unread, IsDynamic
    <3>2. value # "each" => T = 1..2
      BY DEF T, TokensOf, Tokens
    <3>. QED BY <3>1, <3>2
  <2>4. (IF line.each THEN EachOf(bash.blocks) ELSE Tokens) = T
    <3>1. CASE value = "each"
      <4>1. InLoop
        BY <3>1 DEF Finds
      <4>2. Has("loop")
        BY <4>1 DEF InLoop, Range, NestInv
      <4>3. OfPhaseOnly(dialect) /\ ValuesUnderstood(dialect)
        BY <4>2 DEF Understood, LoopsUnderstood, Has, OfPhaseOnly
      <4>4. EachMatch(bash)
        BY <4>3 DEF EachInv
      <4>5. T = expandStaticLoopValues(controlStack) /\ T # {}
        BY <2>3, <3>1 DEF T, TokensOf
      <4>6. EachOf(bash.blocks) = expandStaticLoopValues(controlStack)
        BY <1>12, <4>4, <4>5, EachExpanded
      <4>. QED BY <1>1, <3>1, <4>5, <4>6
    <3>2. CASE value # "each"
      BY <1>1, <3>2 DEF T, TokensOf
    <3>. QED BY <3>1, <3>2
  <2>5. after.value = Effect(n, T, line.operator, bash.value)
    <3>1. after.value = Assigned(bash, line, n)
      BY <1>4, <1>12
    <3>. QED BY <2>4, <3>1 DEF Assigned, Effect
  <2>6. op \in {"=", "+="} /\ n \in Nat
    BY DEF AssignmentOperator, LineNumber, TypeInv, ProgramInv
  <2>7. Applied(bash, n) \in SUBSET Requirements /\ \A r \in Applied(bash, n) : r.at.line < n
    BY AppliedLines DEF Applied
  <2>. HIDE DEF op, LineNumber
  <2>8. ValueOf(later, start.value) = Effect(n, T, op, ValueOf(Applied(bash, n), start.value))
    <3>1. PICK found \in SUBSET Requirements : found = Applied(bash, n)
      BY <2>7
    <3>2. PICK o \in {"=", "+="} : o = op
      BY <2>6
    <3>3. Grows(found, later, n, T, o)
      BY <2>2, <2>3, <2>6, <2>7, <3>1, <3>2 DEF Grows
    <3>4. ValueOf(later, start.value) = Effect(n, T, o, ValueOf(found, start.value))
      BY <3>3, ValueAdd
    <3>. QED BY <3>1, <3>2, <3>4
  <2>9. after.value = ValueOf(Applied(after, n + 1)', start.value)
    <3>1. CASE HoldsLocal(bash)
      <4>1. op = "=" /\ bash.value = {}
        BY <1>8, <3>1 DEF op, AssignmentOperator, Resets
      <4>2. after.value = {n} \X T
        BY <2>5, <4>1 DEF Effect
      <4>3. ValueOf(later, start.value) = {n} \X T
        BY <2>8, <4>1 DEF Effect
      <4>. QED BY <2>2, <4>2, <4>3
    <3>2. CASE ~HoldsLocal(bash)
      <4>1. op = line.operator
        BY <1>1, <1>12, <3>2 DEF op, AssignmentOperator, Resets
      <4>2. bash.value = ValueOf(Applied(bash, n), start.value)
        BY <3>2
      <4>3. after.value = ValueOf(later, start.value)
        BY <2>5, <2>8, <4>1, <4>2
      <4>. QED BY <2>2, <4>3
    <3>. QED BY <3>1, <3>2
  <2>10. function \notin pendingLocalReset'
    <3>1. CASE HoldsLocal(bash)
      <4>1. ~(value = "unmatched" \/ dynamicKernelControl(controlStack) \/ ~Resets(operator))
        BY <1>8, <2>1, <3>1 DEF Unread, Resets
      <4>2. pendingLocalReset' = pendingLocalReset \ {function}
        BY <4>1 DEF Finds
      <4>. QED BY <4>2
    <3>2. CASE ~HoldsLocal(bash)
      BY <1>9, <1>12, <3>2
    <3>. QED BY <3>1, <3>2
  <2>. QED BY <2>9, <2>10
<1>. QED BY <1>11, <1>12

(***************************************************************************)
(* Every step keeps the value, line by line.                               *)
(***************************************************************************)
LEMMA ValueStep ==
  TypeInv /\ TypeInv' /\ NestInv /\ FramesInv /\ OutsideInv /\ LoopsInv /\ EachInv /\ ConditionsInv /\ LocatedInv /\ RanInv
    /\ FirstInv /\ FirstInv' /\ ValueInv /\ DefinedInv /\ OrderInv /\ [Next]_vars => ValueInv'
<1>. SUFFICES ASSUME TypeInv, TypeInv', NestInv, FramesInv, OutsideInv, LoopsInv, EachInv, ConditionsInv, LocatedInv, RanInv,
                     FirstInv, FirstInv', ValueInv, DefinedInv, OrderInv, [Next]_vars, Understood(dialect)',
                     NEW start \in Starts, NEW after \in Shells, after = Sourcing(start)', NoneDynamic(after)'
              PROVE  /\ SeenMatch(start, after)'
                     /\ (after.value = IF HoldsLocal(after) THEN {} ELSE ValueOf(Applied(after, LineNumber), start.value))'
                     /\ (Follows(after) /\ function \in pendingLocalReset => HoldsLocal(after))'
  BY DEF ValueInv, ValueMatch
<1>. DEFINE Goal(n) ==
              /\ SeenMatch(start, after)'
              /\ after.value = IF HoldsLocal(after)' THEN {} ELSE ValueOf(Applied(after, n)', start.value)
              /\ Follows(after)' /\ function' \in pendingLocalReset' => HoldsLocal(after)'
<1>1. PICK bash \in Shells : bash = Sourcing(start)
  BY SourcingFacts DEF TypeInv, ProgramInv
<1>2. dialect' = dialect /\ Understood(dialect)
  BY DialectStays
<1>3. after.world = bash.world /\ after.file = bash.file /\ bash.ran \subseteq after.ran
  BY <1>1, StepKeepsWorld
<1>4. FramesMatch(bash) /\ RanHere(start, bash) /\ ValueMatch(start, bash) /\ ConditionsMatch(bash)
  BY <1>1, <1>2 DEF FramesInv, RanInv, ValueInv, ConditionsInv, Understood
<1>5. dynamic \subseteq dynamic'
  BY ScanCases DEF Finds, FindsDynamic, ScanLocal, foundVars, ScanEclass, InheritMissing, vars, Read
<1>6. NoneDynamic(bash)
  BY <1>3, <1>5 DEF NoneDynamic
<1>7. PICK n \in Nat : n = LineNumber
  BY DEF LineNumber, TypeInv, ProgramInv
<1>8. /\ SeenMatch(start, bash) /\ n \notin DOMAIN program
      /\ bash.value = IF HoldsLocal(bash) THEN {} ELSE ValueOf(Applied(bash, n), start.value)
      /\ Follows(bash) /\ function \in pendingLocalReset => HoldsLocal(bash)
  <2>1. LineNumber \notin DOMAIN program
    BY DEF LineNumber, TypeInv, ProgramInv
  <2>. QED BY <1>4, <1>6, <1>7, <2>1 DEF ValueMatch
<1>9. Applied(bash, n + 1) = Applied(bash, n)
  BY <1>7, AppliedLines
<1>10. ASSUME requirements' = requirements, NEW l PROVE Applied(after, l)' = Applied(bash, l)
  BY <1>3, <1>10 DEF Applied, OfPhase
\* what has been seen stays as it was, and what is seen now is what there is
<1>11. ASSUME NEW check \in after.seen \ start.seen, check \in bash.seen,
              \A l \in DOMAIN program : Applied(after, l)' = Applied(bash, l)
       PROVE  check[2] = ValueOf(Applied(after, check[1])', start.value)
  <2>1. check[1] \in DOMAIN program
    BY <1>4, <1>11 DEF RanHere
  <2>2. check[2] = ValueOf(Applied(bash, check[1]), start.value)
    BY <1>8, <1>11 DEF SeenMatch
  <2>. QED BY <1>11, <2>1, <2>2
<1>12. ASSUME after.seen = bash.seen, \A l \in DOMAIN program : Applied(after, l)' = Applied(bash, l)
       PROVE  SeenMatch(start, after)'
  BY <1>11, <1>12 DEF SeenMatch
\* Defined functions are not pending, and nothing outside of them is.
<1>13. NoFunction \notin pendingLocalReset /\ pendingLocalReset \subseteq Defined
  BY ConstantFacts DEF TypeInv, ScannerInv, OrderInv
<1>14. ASSUME NEW form \in LineForms, NEW what \in WhatOf(form), Writes(Line(form, what))
       PROVE  /\ LineNumber' = n + 1 /\ program' # <<>> /\ Last(program').form = form /\ origin' = origin
              /\ program # <<>> /\ Last(program).form = "local" => form = "assign"
  <2>1. Len(program') = Len(program) + 1 /\ Line(form, what).form = form
    BY <1>14, WriteFacts DEF TypeInv, ScannerInv, Line
  <2>. QED BY <1>7, <1>14, <2>1, LastOfLine DEF LineNumber, Writes
<1>s. ASSUME NEW form \in LineForms, NEW what \in WhatOf(form), Writes(Line(form, what))
      PROVE  /\ after.seen = bash.seen \/ (form = "check" /\ after.seen = bash.seen \cup {<<n, bash.value>>})
  <2>1. after.seen = IF Follows(bash) /\ form = "check" /\ Runs(bash, what)
                     THEN bash.seen \cup {<<LineNumber, bash.value>>} ELSE bash.seen
    BY <1>1, <1>s, SeenByLine
  <2>. QED BY <1>7, <2>1
<1>15. ASSUME LineNumber' = n + 1, Goal(n + 1) PROVE
              /\ SeenMatch(start, after)'
              /\ (after.value = IF HoldsLocal(after) THEN {} ELSE ValueOf(Applied(after, LineNumber), start.value))'
              /\ (Follows(after) /\ function \in pendingLocalReset => HoldsLocal(after))'
  BY <1>15
<1>16. ASSUME LineNumber' = n, Goal(n) PROVE
              /\ SeenMatch(start, after)'
              /\ (after.value = IF HoldsLocal(after) THEN {} ELSE ValueOf(Applied(after, LineNumber), start.value))'
              /\ (Follows(after) /\ function \in pendingLocalReset => HoldsLocal(after))'
  BY <1>16
<1>. HIDE DEF LineNumber
<1>17. ASSUME NEW form \in LineForms \ {"local", "assign"}, NEW what \in WhatOf(form), Writes(Line(form, what)),
              UNCHANGED <<requirements, dynamic, pendingLocalReset>>,
              form # "function" => function' \in {function, NoFunction},
              form = "function" =>
                function = NoFunction /\ function' = what /\ what \notin Defined /\ origin = "ebuild" /\ nesting' = <<>>
       PROVE  Goal(n + 1)
  <2>1. ~HoldsLocal(bash) /\ ~HoldsLocal(after)'
    BY <1>14, <1>17 DEF HoldsLocal
  <2>2. after.value = bash.value
    BY <1>1, <1>17, ValueByLine
  <2>3. after.value = ValueOf(Applied(after, n + 1)', start.value)
    <3>1. Applied(after, n + 1)' = Applied(bash, n + 1)
      BY <1>10, <1>17
    <3>2. bash.value = ValueOf(Applied(bash, n), start.value)
      BY <1>8, <2>1
    <3>. QED BY <1>9, <2>2, <3>1, <3>2
  <2>4. SeenMatch(start, after)'
    <3>1. after.seen = bash.seen \/ after.seen = bash.seen \cup {<<n, bash.value>>}
      BY <1>17, <1>s
    <3>2. \A l \in DOMAIN program : Applied(after, l)' = Applied(bash, l)
      BY <1>10, <1>17
    <3>3. ASSUME NEW check \in after.seen \ start.seen PROVE check[2] = ValueOf(Applied(after, check[1])', start.value)
      <4>1. CASE check \in bash.seen
        BY <1>11, <3>2, <3>3, <4>1
      <4>2. CASE check \notin bash.seen
        <5>1. check = <<n, bash.value>>
          BY <3>1, <3>3, <4>2
        <5>2. check[1] = n /\ check[2] = bash.value
          BY <5>1
        <5>3. Applied(after, n)' = Applied(bash, n)
          BY <1>10, <1>17
        <5>4. check[2] = ValueOf(Applied(after, n)', start.value)
          BY <1>8, <2>1, <5>2, <5>3
        <5>. QED BY <5>2, <5>4
      <4>. QED BY <4>1, <4>2
    <3>. QED BY <3>3 DEF SeenMatch
  <2>5. ~(Follows(after)' /\ function' \in pendingLocalReset')
    <3>. SUFFICES ASSUME Follows(after)', function' \in pendingLocalReset PROVE FALSE
      BY <1>17
    <3>1. form # "function"
      BY <1>13, <1>17
    <3>2. function' = function
      BY <1>13, <1>17, <3>1
    <3>3. Follows(bash)
      BY <1>3, <1>14, <1>17, <3>2 DEF Follows
    <3>. QED BY <1>8, <2>1, <3>2, <3>3
  <2>. QED BY <2>1, <2>3, <2>4, <2>5
<1>18. ASSUME ScanLocal PROVE Goal(n + 1)
  <2>1. "local" \in LineForms /\ None \in WhatOf("local")
    BY DEF LineForms, WhatOf
  <2>2. /\ Writes(Line("local", None)) /\ requirements' = requirements /\ nesting' = nesting /\ function' = function
        /\ controlStack' = controlStack
    BY <1>18 DEF ScanLocal, foundVars
  <2>3. /\ program' # <<>> /\ Last(program').form = "local" /\ origin' = origin
        /\ ~(program # <<>> /\ Last(program).form = "local")
    <3>1. program # <<>> /\ Last(program).form = "local" => "local" = "assign"
      BY <1>14, <2>1, <2>2
    <3>. QED BY <1>14, <2>1, <2>2, <3>1
  <2>4. (Follows(after)' <=> Follows(bash)) /\ (HoldsLocal(after)' <=> Follows(bash)) /\ ~HoldsLocal(bash)
    BY <1>3, <2>2, <2>3 DEF Follows, HoldsLocal
  <2>5. SeenMatch(start, after)'
    <3>1. after.seen = bash.seen
      BY <1>s, <2>1, <2>2
    <3>2. \A l \in DOMAIN program : Applied(after, l)' = Applied(bash, l)
      BY <1>10, <2>2
    <3>. QED BY <1>12, <3>1, <3>2
  <2>6. CASE Follows(bash)
    <3>1. nesting = <<>>
      BY <2>2, <2>3 DEF FirstInv
    <3>2. bash.blocks = <<>>
      <4>1. Len(controlStack) = 0 /\ bash.blocks \in Seq(Blocks) /\ Len(bash.blocks) = Len(controlStack)
        BY <1>4, <3>1 DEF TypeInv, ScannerInv, Shells, FramesMatch
      <4>. QED BY <4>1
    <3>3. Runs(bash, NoGuard)
      BY <3>2 DEF Runs, NoGuard
    <3>4. after.value = {}
      BY <1>1, <2>1, <2>2, <2>6, <3>3, ValueByLine
    <3>. QED BY <2>4, <2>5, <2>6, <3>4
  <2>7. CASE ~Follows(bash)
    <3>1. after = bash
      BY <1>1, <2>1, <2>2, <2>7, ValueByLine
    <3>2. Applied(after, n + 1)' = Applied(bash, n + 1)
      BY <1>10, <2>2
    <3>3. bash.value = ValueOf(Applied(bash, n), start.value)
      BY <1>8, <2>4
    <3>4. after.value = ValueOf(Applied(after, n + 1)', start.value)
      BY <1>9, <3>1, <3>2, <3>3
    <3>. QED BY <2>4, <2>5, <2>7, <3>4
  <2>. QED BY <2>6, <2>7
<1>19. ASSUME NEW guard \in Guards, NEW value \in {"static", "each", "self", "dynamic", "unmatched"}, NEW operator \in {"=", "+="},
              Finds(guard, value, operator)
       PROVE  Goal(n + 1) /\ LineNumber' = n + 1
  <2>1. LineOf(guard, value, operator) \in WhatOf("assign") /\ "assign" \in LineForms
    BY LineOfTypes
  <2>2. Writes(Line("assign", LineOf(guard, value, operator))) /\ function' = function
    BY <1>19 DEF Finds
  <2>3. program' # <<>> /\ Last(program').form = "assign" /\ origin' = origin /\ LineNumber' = n + 1
    BY <1>14, <2>1, <2>2
  <2>4. ~HoldsLocal(after)' /\ (Follows(after)' <=> Follows(bash))
    BY <1>3, <2>2, <2>3 DEF Follows, HoldsLocal
  <2>5. SeenMatch(start, after)'
    <3>1. after.seen = bash.seen
      BY <1>s, <2>1, <2>2
    <3>2. \A l \in DOMAIN program : Applied(after, l)' = Applied(bash, l)
      BY <1>3, <1>7, <1>19, AppliedMore
    <3>. QED BY <1>12, <3>1, <3>2
  <2>6. /\ after.value = ValueOf(Applied(after, n + 1)', start.value)
        /\ ~(Follows(bash) /\ function \in pendingLocalReset')
    BY <1>1, <1>2, <1>4, <1>7, <1>8, <1>19, ValueOfAssignment
  <2>. QED BY <2>2, <2>3, <2>4, <2>5, <2>6
\* no line is written
<1>20. ASSUME program' = program, requirements' = requirements, HoldsLocal(after)' <=> HoldsLocal(bash),
              Follows(after)' /\ function' \in pendingLocalReset' => Follows(bash) /\ function \in pendingLocalReset
       PROVE  Goal(n) /\ LineNumber' = n
  <2>1. after = bash /\ LineNumber' = n
    BY <1>1, <1>7, <1>20 DEF Sourcing, LineNumber
  <2>2. \A l \in DOMAIN program : Applied(after, l)' = Applied(bash, l)
    BY <1>10, <1>20
  <2>3. SeenMatch(start, after)'
    BY <1>12, <2>1, <2>2
  <2>4. Applied(after, n)' = Applied(bash, n)
    BY <1>10, <1>20
  <2>5. after.value = IF HoldsLocal(after)' THEN {} ELSE ValueOf(Applied(after, n)', start.value)
    <3>1. CASE HoldsLocal(bash)
      BY <1>8, <1>20, <2>1, <3>1
    <3>2. CASE ~HoldsLocal(bash)
      BY <1>8, <1>20, <2>1, <2>4, <3>2
    <3>. QED BY <3>1, <3>2
  <2>. QED BY <1>8, <1>20, <2>1, <2>3, <2>5
<1>21. ASSUME ScanEclass \/ InheritMissing PROVE Goal(n) /\ LineNumber' = n
  <2>1. function = NoFunction /\ program' = program /\ requirements' = requirements /\ (pendingLocalReset' = {} \/ origin' = "missing")
    BY <1>21 DEF ScanEclass, InheritMissing, EndOfFile, foundVars
  <2>2. ~HoldsLocal(bash)
    BY <1>13, <2>1 DEF HoldsLocal, FirstInv
  <2>3. ~(Follows(after)' /\ function' \in pendingLocalReset')
    BY <2>1 DEF Follows, Shells
  <2>4. ~HoldsLocal(after)'
    <3>. SUFFICES ASSUME HoldsLocal(after)' PROVE FALSE
      OBVIOUS
    <3>1. Follows(after)' /\ program' # <<>> /\ Last(program').form = "local"
      BY DEF HoldsLocal
    <3>2. function' \in pendingLocalReset'
      BY <3>1 DEF FirstInv
    <3>. QED BY <2>3, <3>1, <3>2
  <2>. QED BY <1>20, <2>1, <2>2, <2>3, <2>4
<1>22. ASSUME UNCHANGED <<program, requirements, origin, function, pendingLocalReset>> PROVE Goal(n) /\ LineNumber' = n
  <2>1. (Follows(after)' <=> Follows(bash)) /\ (HoldsLocal(after)' <=> HoldsLocal(bash))
    BY <1>3, <1>22 DEF Follows, HoldsLocal
  <2>. QED BY <1>20, <1>22, <2>1
<1>23. ASSUME UNCHANGED vars \/ \E inherits \in BOOLEAN : Read(inherits) PROVE Goal(n) /\ LineNumber' = n
  BY <1>22, <1>23 DEF vars, scanVars, foundVars, Read
<1>24. ASSUME ScanLocal PROVE LineNumber' = n + 1
  <2>1. "local" \in LineForms /\ None \in WhatOf("local") /\ Writes(Line("local", None))
    BY <1>24 DEF LineForms, WhatOf, ScanLocal
  <2>. QED BY <1>14, <2>1
<1>. HIDE DEF Goal
<1>25. \/ Goal(n + 1) /\ LineNumber' = n + 1
       \/ Goal(n) /\ LineNumber' = n
  <2>1. CASE \E form \in LineForms \ {"local", "assign"} : \E what \in WhatOf(form) :
              /\ Writes(Line(form, what)) /\ UNCHANGED <<requirements, dynamic, pendingLocalReset>>
              /\ form # "function" => function' \in {function, NoFunction}
              /\ form = "function" =>
                   function = NoFunction /\ function' = what /\ what \notin Defined /\ origin = "ebuild" /\ nesting' = <<>>
    BY <1>14, <1>17, <2>1
  <2>2. CASE ScanLocal
    BY <1>18, <1>24, <2>2
  <2>3. CASE \E guard \in Guards, value \in {"static", "each", "self", "dynamic", "unmatched"}, operator \in {"=", "+="} :
               Finds(guard, value, operator)
    BY <1>19, <2>3
  <2>4. CASE ScanEclass \/ InheritMissing
    BY <1>21, <2>4
  <2>5. CASE UNCHANGED vars \/ \E inherits \in BOOLEAN : Read(inherits)
    BY <1>23, <2>5
  <2>. QED BY ScanCases, <2>1, <2>2, <2>3, <2>4, <2>5
<1>. QED BY <1>15, <1>16, <1>25

-----------------------------------------------------------------------------
(* The values                                                              *)

(***************************************************************************)
(* The replay of all that applies, an eclass before the ebuild, is that of *)
(* the ebuild on the value that the eclass leaves.                         *)
(***************************************************************************)
LEMMA ReplayedInOrder ==
  ASSUME NEW inEclass \in SUBSET Requirements, NEW inEbuild \in SUBSET Requirements,
         \A r \in inEclass : r.at.origin = "eclass", \A r \in inEbuild : r.at.origin = "ebuild",
         inEclass # {} => dialect.eclassFirst = TRUE
  PROVE  {<<r.at.line, r.token>> : r \in {one \in inEclass \cup inEbuild :
                                            ~\E later \in inEclass \cup inEbuild : Replaces(later, one)}}
           = ValueOf(inEbuild, ValueOf(inEclass, {}))
<1>. DEFINE all == inEclass \cup inEbuild
            Goes(r, set) == \E later \in set : later.operator = "=" /\ r.at.line < later.at.line
            Pairs(set) == {<<r.at.line, r.token>> : r \in set}
            resets == \E later \in inEbuild : later.operator = "="
<1>1. ASSUME NEW r \in inEbuild PROVE (\E later \in all : Replaces(later, r)) <=> Goes(r, inEbuild)
  <2>1. ASSUME NEW later \in inEclass PROVE ~Replaces(later, r)
    <3>1. later.at.origin = "eclass" /\ r.at.origin = "ebuild" /\ dialect.eclassFirst = TRUE
      BY <1>1, <2>1
    <3>. QED BY <3>1 DEF Replaces, Sorts
  <2>2. ASSUME NEW later \in inEbuild PROVE Replaces(later, r) <=> later.operator = "=" /\ r.at.line < later.at.line
    <3>1. later.at.origin = "ebuild" /\ r.at.origin = "ebuild"
      BY <1>1, <2>2
    <3>. QED BY <3>1 DEF Replaces, Sorts
  <2>. QED BY <2>1, <2>2
<1>2. ASSUME NEW r \in inEclass PROVE (\E later \in all : Replaces(later, r)) <=> Goes(r, inEclass) \/ resets
  <2>1. ASSUME NEW later \in inEbuild PROVE Replaces(later, r) <=> later.operator = "="
    <3>1. later.at.origin = "ebuild" /\ r.at.origin = "eclass" /\ dialect.eclassFirst = TRUE
      BY <1>2, <2>1
    <3>. QED BY <3>1 DEF Replaces, Sorts
  <2>2. ASSUME NEW later \in inEclass PROVE Replaces(later, r) <=> later.operator = "=" /\ r.at.line < later.at.line
    <3>1. later.at.origin = "eclass" /\ r.at.origin = "eclass"
      BY <1>2, <2>2
    <3>. QED BY <3>1 DEF Replaces, Sorts
  <2>. QED BY <2>1, <2>2
<1>. HIDE DEF Goes
<1>3. {one \in all : ~\E later \in all : Replaces(later, one)}
        = {one \in inEbuild : ~Goes(one, inEbuild)} \cup {one \in inEclass : ~Goes(one, inEclass) /\ ~resets}
  BY <1>1, <1>2
<1>4. Pairs({one \in all : ~\E later \in all : Replaces(later, one)})
        = Pairs({one \in inEbuild : ~Goes(one, inEbuild)}) \cup (IF resets THEN {} ELSE Pairs({one \in inEclass : ~Goes(one, inEclass)}))
  <2>1. CASE resets
    BY <1>3, <2>1
  <2>2. CASE ~resets
    BY <1>3, <2>2
  <2>. QED BY <2>1, <2>2
<1>5. ValueOf(inEclass, {}) = Pairs({one \in inEclass : ~Goes(one, inEclass)})
  BY DEF ValueOf, Goes
<1>6. \A value : ValueOf(inEbuild, value) = Pairs({one \in inEbuild : ~Goes(one, inEbuild)}) \cup (IF resets THEN {} ELSE value)
  BY DEF ValueOf, Goes
<1>. QED BY <1>4, <1>5, <1>6

\* What is known of values.
ExactInv == OutsideInv /\ LoopsInv /\ EachInv /\ OrderInv /\ FirstInv /\ ValueInv
LEMMA ValuesAreInvariant == Spec => [](ScanInv /\ EvidenceInv /\ ExactInv)
<1>1. Init => ExactInv
  BY LoopsInit, EachInit, OrderInit, ValueInit DEF ExactInv
<1>2. (ScanInv /\ EvidenceInv) /\ (ScanInv /\ EvidenceInv)' /\ ExactInv /\ [Next]_vars => ExactInv'
  <2>. SUFFICES ASSUME ScanInv, EvidenceInv, TypeInv', ExactInv, [Next]_vars PROVE ExactInv'
    BY DEF ScanInv
  <2>1. /\ TypeInv /\ NestInv /\ FramesInv /\ ConditionsInv /\ LocatedInv /\ RanInv /\ DefinedInv
        /\ OutsideInv /\ LoopsInv /\ EachInv /\ OrderInv /\ FirstInv /\ ValueInv
    BY DEF ScanInv, EvidenceInv, ExactInv
  <2>2. OutsideInv' /\ LoopsInv'
    BY <2>1, OutsideStep, LoopsStep
  <2>3. EachInv'
    BY <2>1, EachStep
  <2>4. OrderInv' /\ FirstInv'
    BY <2>1, OrderStep, FirstStep
  <2>5. ValueInv'
    BY <2>1, <2>4, ValueStep
  <2>. QED BY <2>2, <2>3, <2>4, <2>5 DEF ExactInv
<1>3. Spec => [](ScanInv /\ EvidenceInv)
  BY EvidenceIsInvariant
<1>. QED BY <1>1, <1>2, <1>3, PTL DEF Spec

(***************************************************************************)
(* What bash sees when all is read, file by file.                          *)
(***************************************************************************)
LEMMA WhatIsSeen ==
  ASSUME ScanInv, EvidenceInv, ExactInv, Understood(dialect), phase = "read", NEW world \in Worlds,
         \A d \in dynamic : d.at.line \notin Bash(world).ran
  PROVE  \E first, bash \in Shells :
           /\ bash = Bash(world) /\ bash.world = world /\ bash.file = "ebuild" /\ first.world = world /\ first.file = "eclass"
           /\ \A check \in first.seen : check[1] \in DOMAIN program /\ program[check[1]].origin = "eclass"
           /\ first.value = ValueOf(Applied(first, LineNumber), {})
           /\ bash.value = ValueOf(Applied(bash, LineNumber), first.value)
           /\ \A check \in bash.seen \ first.seen : check[2] = ValueOf(Applied(bash, check[1]), first.value)
<1>1. TypeInv /\ FramesInv /\ RanInv /\ FirstInv /\ ValueInv /\ nesting = <<>> /\ function = NoFunction /\ program \in Seq(Lines)
  BY DEF ScanInv, EvidenceInv, ExactInv, ReadInv, TypeInv, ProgramInv
<1>2. /\ EclassShell(world) \in Starts /\ EclassShell(world).world = world /\ EclassShell(world).file = "eclass"
      /\ EclassShell(world).ran = {} /\ EclassShell(world).seen = {} /\ EclassShell(world).value = {}
      /\ EbuildShell(world) \in Starts /\ EbuildShell(world).world = world /\ EbuildShell(world).file = "ebuild"
      /\ EbuildShell(world).ran = Sourcing(EclassShell(world)).ran
      /\ EbuildShell(world).seen = Sourcing(EclassShell(world)).seen
      /\ EbuildShell(world).value = Sourcing(EclassShell(world)).value
      /\ Bash(world) = Sourcing(EbuildShell(world))
  BY <1>1, BashIsSourcing
<1>3. PICK start \in Starts, first \in Shells :
        /\ start = EclassShell(world) /\ start.ran = {} /\ start.seen = {} /\ start.value = {}
        /\ first = Sourcing(start) /\ first.world = world /\ first.file = "eclass"
  BY <1>1, <1>2, SourcingFacts
<1>4. PICK next \in Starts, bash \in Shells :
        /\ next = EbuildShell(world) /\ next.ran = first.ran /\ next.seen = first.seen /\ next.value = first.value
        /\ bash = Sourcing(next) /\ bash.world = world /\ bash.file = "ebuild" /\ first.ran \subseteq bash.ran /\ bash = Bash(world)
  BY <1>1, <1>2, <1>3, SourcingFacts
<1>5. RanHere(start, first) /\ ValueMatch(start, first) /\ ValueMatch(next, bash)
  BY <1>1, <1>3, <1>4 DEF RanInv, ValueInv
<1>6. NoneDynamic(first) /\ NoneDynamic(bash)
  BY <1>4 DEF NoneDynamic
<1>7. \A shell : ~HoldsLocal(shell)
  <2>1. NoFunction \notin pendingLocalReset
    BY <1>1, ConstantFacts DEF TypeInv, ScannerInv
  <2>. QED BY <1>1, <2>1 DEF HoldsLocal, FirstInv
<1>8. first.value = ValueOf(Applied(first, LineNumber), {})
  <2>1. first.value = IF HoldsLocal(first) THEN {} ELSE ValueOf(Applied(first, LineNumber), start.value)
    BY <1>5, <1>6 DEF ValueMatch
  <2>. QED BY <1>3, <1>7, <2>1
<1>9. bash.value = ValueOf(Applied(bash, LineNumber), first.value) /\ SeenMatch(next, bash)
  <2>1. bash.value = (IF HoldsLocal(bash) THEN {} ELSE ValueOf(Applied(bash, LineNumber), next.value)) /\ SeenMatch(next, bash)
    BY <1>5, <1>6 DEF ValueMatch
  <2>. QED BY <1>4, <1>7, <2>1
<1>10. \A check \in bash.seen \ first.seen : check[2] = ValueOf(Applied(bash, check[1]), first.value)
  BY <1>4, <1>9 DEF SeenMatch
<1>11. \A check \in first.seen : check[1] \in DOMAIN program /\ program[check[1]].origin = "eclass"
  <2>. SUFFICES ASSUME NEW check \in first.seen PROVE check[1] \in DOMAIN program /\ program[check[1]].origin = "eclass"
    OBVIOUS
  <2>1. check[1] \in first.ran
    BY <1>3, <1>5 DEF RanHere
  <2>. QED BY <1>3, <1>5, <2>1 DEF RanHere
<1>. QED BY <1>3, <1>4, <1>8, <1>9, <1>10, <1>11

(***************************************************************************)
(* What applies at a check that bash gets to: what the eclass says, and    *)
(* what the ebuild says before the check.                                  *)
(***************************************************************************)
LEMMA AppliesAtCheck ==
  ASSUME TypeInv, LocatedInv, DefinedInv, OrderInv, NEW world \in Worlds, NEW i \in invocations, NEW l,
         i.function = Phase, i.origin = "ebuild", kernelEvidenceApplicability(i, ContextOf(world, TRUE, TRUE)) = "applicable",
         \/ i.line = 0 /\ Phase \notin Defined /\ l = LineNumber
         \/ Located(i, "check") /\ l = i.line,
         NEW first, first.world = world, first.file = "eclass", NEW bash, bash.world = world, bash.file = "ebuild"
  PROVE  {r \in requirements : /\ i \in invocationsFor(r.at)
                               /\ ApplicabilityAt(r.at, i, ContextOf(world, TRUE, TRUE)) = "applicable"}
           = Applied(first, LineNumber) \cup Applied(bash, l)
<1>. DEFINE context == ContextOf(world, TRUE, TRUE)
            Later(r) == r.at.function = Phase /\ r.at.origin = "ebuild" /\ r.at.line > i.line
            Apply(r) == OfPhase(r.at) /\ ~Later(r) /\ AppliesIn(r.at, world)
<1>1. Phase # NoFunction /\ kernelFunctionReachable(Phase)
  BY ConstantFacts, PhaseIsReachable
<1>2. ASSUME NEW r \in requirements PROVE i \in invocationsFor(r.at) <=> OfPhase(r.at) /\ ~Later(r)
  BY <1>1 DEF invocationsFor, OfPhase
<1>3. ASSUME NEW r \in requirements PROVE ApplicabilityAt(r.at, i, context) = "applicable" <=> AppliesIn(r.at, world)
  <2>1. invocationApplicability(i, context) = "applicable"
    BY <1>1 DEF invocationApplicability
  <2>2. kernelEvidenceApplicability(r.at, context) \in {"applicable", "inapplicable", "indeterminate"}
    BY DEF kernelEvidenceApplicability, combineApplicability, AllApplicable
  <2>3. \A one \in {"applicable", "inapplicable", "indeterminate"} : combineApplicability(one, "applicable") = "applicable" <=> one = "applicable"
    BY DEF combineApplicability, AllApplicable
  <2>. QED BY <2>1, <2>2, <2>3 DEF ApplicabilityAt, AppliesIn
<1>. HIDE DEF context, Later
<1>4. {r \in requirements : i \in invocationsFor(r.at) /\ ApplicabilityAt(r.at, i, context) = "applicable"} = {r \in requirements : Apply(r)}
  BY <1>2, <1>3
<1>5. \A r \in requirements : r.at.line < LineNumber /\ r.at.line \in DOMAIN program /\ r.at.line \in Nat /\ r.at.origin \in {"ebuild", "eclass"}
  <2>1. \A r \in requirements : r.at.line < LineNumber /\ r.at.line \in DOMAIN program /\ r.at.line \in Nat /\ r \in Requirements
    BY AppliedLines
  <2>. QED BY <2>1 DEF Requirements, Evidences
<1>. HIDE DEF LineNumber
<1>6. ASSUME NEW r \in requirements, r.at.origin = "eclass"
      PROVE  Apply(r) <=> OfPhase(r.at) /\ r.at.line < LineNumber /\ AppliesIn(r.at, world)
  BY <1>5, <1>6 DEF Later
<1>7. ASSUME NEW r \in requirements, r.at.origin = "ebuild", OfPhase(r.at)
      PROVE  ~Later(r) <=> r.at.line < l
  <2>1. /\ r.at.line \in DOMAIN program /\ program[r.at.line].form = "assign" /\ program[r.at.line].origin = "ebuild"
        /\ program[r.at.line].fn = r.at.function
    BY <1>7 DEF LocatedInv, Located
  <2>2. CASE i.line = 0 /\ Phase \notin Defined /\ l = LineNumber
    <3>1. r.at.function # Phase
      BY <1>1, <2>1, <2>2 DEF DefinedInv
    <3>. QED BY <1>5, <2>2, <3>1 DEF Later
  <2>3. CASE Located(i, "check") /\ l = i.line
    <3>1. l \in DOMAIN program /\ program[l].form = "check" /\ program[l].fn = Phase
      BY <2>3 DEF Located
    <3>2. l \in Nat /\ r.at.line \in Nat /\ r.at.line # l
      BY <1>5, <2>1, <3>1 DEF TypeInv, ProgramInv
    <3>3. CASE r.at.function = Phase
      BY <1>7, <2>3, <3>2, <3>3 DEF Later
    <3>4. CASE r.at.function # Phase
      <4>1. r.at.function = NoFunction
        BY <1>7, <3>4 DEF OfPhase
      <4>2. r.at.line < l
        BY <1>1, <2>1, <3>1, <4>1 DEF OrderInv
      <4>. QED BY <3>4, <4>2 DEF Later
    <3>. QED BY <3>3, <3>4
  <2>. QED BY <2>2, <2>3
<1>8. ASSUME NEW r \in requirements, r.at.origin = "ebuild"
      PROVE  Apply(r) <=> OfPhase(r.at) /\ r.at.line < l /\ AppliesIn(r.at, world)
  BY <1>7, <1>8
<1>9. /\ Applied(first, LineNumber)
           = {r \in requirements : r.at.origin = "eclass" /\ OfPhase(r.at) /\ r.at.line < LineNumber /\ AppliesIn(r.at, world)}
      /\ Applied(bash, l) = {r \in requirements : r.at.origin = "ebuild" /\ OfPhase(r.at) /\ r.at.line < l /\ AppliesIn(r.at, world)}
  BY DEF Applied
<1>. HIDE DEF Apply
<1>10. {r \in requirements : Apply(r)} = Applied(first, LineNumber) \cup Applied(bash, l)
  BY <1>5, <1>6, <1>8, <1>9
<1>. QED BY <1>4, <1>10 DEF context

(***************************************************************************)
(* A check that bash gets to is of the phase, in the ebuild, and applies.  *)
(***************************************************************************)
LEMMA CheckApplies ==
  ASSUME ScanInv, EvidenceInv, OrderInv, ConditionsUnmixed(dialect), phase = "read", NEW world \in Worlds,
         NEW i \in invocations, NEW check \in Seen(Bash(world)), check[1] = i.line
  PROVE  /\ i.function = Phase /\ i.origin = "ebuild"
         /\ kernelEvidenceApplicability(i, ContextOf(world, TRUE, TRUE)) = "applicable"
         /\ \/ /\ check \in Bash(world).seen /\ Located(i, "check") /\ program[i.line].origin = "ebuild"
            \/ /\ check = <<0, Bash(world).value>> /\ i.line = 0 /\ Phase \notin Defined
<1>. DEFINE context == ContextOf(world, TRUE, TRUE)
<1>1. /\ TypeInv /\ FramesInv /\ RanInv /\ KeepsInv /\ LocatedInv /\ DefinedInv /\ nesting = <<>> /\ i \in FoundAt
  BY DEF ScanInv, EvidenceInv, ReadInv, FoundAt
<1>2. /\ \A n \in Bash(world).ran : n \in DOMAIN program /\ program[n].fn \in {NoFunction, Phase}
      /\ \A one \in Bash(world).seen : one[1] \in Bash(world).ran /\ one[1] \in DOMAIN program
      /\ \A evidence \in FoundAt : evidence.line \in Bash(world).ran => Upheld(evidence, world)
  BY <1>1, WhatRan
<1>3. 0 \notin DOMAIN program /\ Phase # NoFunction
  BY <1>1, ConstantFacts DEF TypeInv, ProgramInv
<1>4. context \in Contexts
  BY ContextTypes
<1>. HIDE DEF context
<1>5. CASE check \in Bash(world).seen
  <2>1. i.line \in Bash(world).ran /\ i.line \in DOMAIN program
    BY <1>2, <1>5
  <2>2. Located(i, "check")
    BY <1>1, <1>3, <2>1 DEF LocatedInv, EvidenceOfFile
  <2>3. program[i.line].form = "check" /\ program[i.line].fn = i.function /\ program[i.line].origin = i.origin
    BY <2>2 DEF Located
  <2>4. i.function = Phase
    BY <1>1, <1>2, <2>1, <2>3 DEF DefinedInv
  <2>5. i.origin = "ebuild"
    BY <1>3, <2>1, <2>3, <2>4 DEF OrderInv
  <2>6. kernelEvidenceApplicability(i, context) # "inapplicable" /\ kernelEvidenceApplicability(i, context) # "indeterminate"
    BY <1>1, <1>2, <2>1 DEF Upheld, context
  <2>7. kernelEvidenceApplicability(i, context) \in {"applicable", "inapplicable", "indeterminate"}
    BY DEF kernelEvidenceApplicability, combineApplicability, AllApplicable
  <2>8. kernelEvidenceApplicability(i, context) = "applicable"
    BY <2>6, <2>7
  <2>. QED BY <1>5, <2>2, <2>3, <2>4, <2>5, <2>8 DEF context
<1>6. CASE check \notin Bash(world).seen
  <2>1. Phase = "pkg_setup" /\ Phase \notin Defined /\ check = <<0, Bash(world).value>>
    BY <1>6 DEF Seen
  <2>2. i.line = 0
    BY <2>1
  <2>3. i = EvidenceOfFile("pkg_setup")
    BY <1>1, <1>3, <2>2 DEF LocatedInv, Located
  <2>4. i.function = Phase /\ i.origin = "ebuild" /\ i.conditions = <<>> /\ i.expression = NoExpression
    BY <2>1, <2>3 DEF EvidenceOfFile
  <2>5. i.expression[context] = "applicable"
    BY <1>4, <2>4 DEF NoExpression
  <2>6. conditionsApplicability(i.conditions, context) = "applicable"
    BY <2>4 DEF conditionsApplicability
  <2>7. kernelEvidenceApplicability(i, context) = "applicable"
    BY <2>5, <2>6 DEF kernelEvidenceApplicability, combineApplicability, AllApplicable
  <2>. QED BY <2>1, <2>2, <2>4, <2>7 DEF context
<1>. QED BY <1>5, <1>6

(***************************************************************************)
(* VALUES ARE EXACT, for any tests, any arrays and any world: when all is  *)
(* told and nothing dynamic ran, the requirements that apply at a check    *)
(* are what CONFIG_CHECK names there, in ebuilds whose loops, conditions   *)
(* and values are those that the scanner understands.                      *)
(***************************************************************************)
THEOREM AppliedRequirementsAreTheValue ==
  ASSUME \A d \in Dialects : LoopsUnderstood(d) /\ ConditionsUnmixed(d) /\ ValuesUnderstood(d)
  PROVE  Spec => []ValueIsExact
<1>1. ScanInv /\ EvidenceInv /\ ExactInv => ValueIsExact
  <2>. SUFFICES ASSUME ScanInv, EvidenceInv, ExactInv, phase = "read", NEW world \in Worlds,
                       \A d \in dynamic : d.at.line \notin Bash(world).ran,
                       NEW i \in invocations, NEW check \in Seen(Bash(world)), check[1] = i.line
                PROVE  {<<r.at.line, r.token>> : r \in ApplicableRequirements(i, ContextOf(world, TRUE, TRUE))} = check[2]
    BY DEF ValueIsExact
  <2>. DEFINE context == ContextOf(world, TRUE, TRUE)
  <2>1. /\ TypeInv /\ LocatedInv /\ DefinedInv /\ OrderInv /\ Understood(dialect) /\ ConditionsUnmixed(dialect)
        /\ ValuesUnderstood(dialect)
    BY DEF ScanInv, EvidenceInv, ExactInv, TypeInv, ProgramInv, Understood
  <2>2. PICK first, bash \in Shells :
          /\ bash = Bash(world) /\ bash.world = world /\ bash.file = "ebuild" /\ first.world = world /\ first.file = "eclass"
          /\ \A one \in first.seen : one[1] \in DOMAIN program /\ program[one[1]].origin = "eclass"
          /\ first.value = ValueOf(Applied(first, LineNumber), {})
          /\ bash.value = ValueOf(Applied(bash, LineNumber), first.value)
          /\ \A one \in bash.seen \ first.seen : one[2] = ValueOf(Applied(bash, one[1]), first.value)
    BY <2>1, WhatIsSeen
  <2>3. /\ i.function = Phase /\ i.origin = "ebuild" /\ kernelEvidenceApplicability(i, context) = "applicable"
        /\ \/ /\ check \in Bash(world).seen /\ Located(i, "check") /\ program[i.line].origin = "ebuild"
           \/ /\ check = <<0, Bash(world).value>> /\ i.line = 0 /\ Phase \notin Defined
    BY <2>1, CheckApplies
  <2>4. PICK l : /\ \/ i.line = 0 /\ Phase \notin Defined /\ l = LineNumber
                    \/ Located(i, "check") /\ l = i.line
                 /\ check[2] = ValueOf(Applied(bash, l), first.value)
    <3>1. CASE check \in Bash(world).seen /\ Located(i, "check") /\ program[i.line].origin = "ebuild"
      <4>1. check \in bash.seen \ first.seen
        BY <2>2, <3>1
      <4>2. check[2] = ValueOf(Applied(bash, check[1]), first.value)
        BY <2>2, <4>1
      <4>. QED BY <3>1, <4>2
    <3>2. CASE check = <<0, Bash(world).value>> /\ i.line = 0 /\ Phase \notin Defined
      <4>1. check[2] = bash.value
        BY <2>2, <3>2
      <4>2. check[2] = ValueOf(Applied(bash, LineNumber), first.value)
        BY <2>2, <4>1
      <4>. QED BY <3>2, <4>2
    <3>. QED BY <2>3, <3>1, <3>2
  <2>5. {r \in requirements : i \in invocationsFor(r.at) /\ ApplicabilityAt(r.at, i, context) = "applicable"}
          = Applied(first, LineNumber) \cup Applied(bash, l)
    BY <2>1, <2>2, <2>3, <2>4, AppliesAtCheck
  <2>6. PICK inEclass, inEbuild : inEclass = Applied(first, LineNumber) /\ inEbuild = Applied(bash, l)
    OBVIOUS
  <2>7. /\ inEclass \in SUBSET Requirements /\ inEbuild \in SUBSET Requirements
        /\ \A r \in inEclass : r.at.origin = "eclass" /\ r \in requirements
        /\ \A r \in inEbuild : r.at.origin = "ebuild"
    BY <2>1, <2>2, <2>6 DEF Applied, TypeInv, FoundInv
  <2>8. inEclass # {} => dialect.eclassFirst = TRUE
    <3>. SUFFICES ASSUME NEW r \in inEclass PROVE dialect.eclassFirst = TRUE
      OBVIOUS
    <3>1. r.at.line \in DOMAIN program /\ program[r.at.line].origin = "eclass"
      BY <2>1, <2>7 DEF LocatedInv, Located
    <3>2. Has("eclass")
      BY <2>1, <3>1 DEF OrderInv
    <3>3. dialect.eclassFirst \in BOOLEAN
      BY <2>1, KernelAssumption DEF TypeInv, ProgramInv
    <3>. QED BY <2>1, <3>2, <3>3 DEF ValuesUnderstood, Has
  <2>9. ApplicableRequirements(i, context)
          = {one \in inEclass \cup inEbuild : ~\E later \in inEclass \cup inEbuild : Replaces(later, one)}
    BY <2>5, <2>6 DEF ApplicableRequirements
  <2>10. {<<r.at.line, r.token>> : r \in {one \in inEclass \cup inEbuild :
                                           ~\E later \in inEclass \cup inEbuild : Replaces(later, one)}}
           = ValueOf(inEbuild, ValueOf(inEclass, {}))
    BY <2>7, <2>8, ReplayedInOrder
  <2>11. check[2] = ValueOf(inEbuild, ValueOf(inEclass, {}))
    BY <2>2, <2>4, <2>6
  <2>. QED BY <2>9, <2>10, <2>11 DEF context
<1>2. Spec => [](ScanInv /\ EvidenceInv /\ ExactInv)
  BY ValuesAreInvariant
<1>. QED BY <1>1, <1>2, PTL

=============================================================================
