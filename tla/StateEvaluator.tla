--------------------------- MODULE StateEvaluator ---------------------------
(***************************************************************************)
(* The condition tree of a rule (server/stateevaluator.cpp) and the state  *)
(* descriptor in each of its nodes (libguh/types/statedescriptor.cpp).     *)
(*                                                                         *)
(* An evaluator is a function from the paths of its nodes to the nodes:    *)
(* <<>> is the evaluator itself, p \o <<i>> the i-th child evaluator of p. *)
(* Every operator below takes the evaluator as t and the states of the     *)
(* configured devices as states: a device outside DOMAIN states is not     *)
(* configured, a state type outside DOMAIN states[d] is one d does not     *)
(* have.  The module has no variables and no RECURSIVE operator, so that   *)
(* modules with proofs can use it.                                         *)
(***************************************************************************)
EXTENDS Integers, Sequences, FiniteSets

CONSTANTS
    NoDevice,      \* the null DeviceId of an empty StateDescriptor
    LegalValues    \* state type -> the values its StateType admits

\* StateDescriptor(): no device, no state type, no value: not isValid().
NoDescriptor ==
    [device |-> NoDevice, stateType |-> "none", operator |-> "Equals", value |-> 0,
     asText |-> FALSE]

ValueOperators ==
    {"Equals", "NotEquals", "Less", "Greater", "LessOrEqual", "GreaterOrEqual"}

StateOperators == {"And", "Or"}

\* How texts of numbers sort: digit by digit, the shorter first ("10" before "9"), and
\* the sign before any digit.  Bound: numbers of at most three digits.
Places(n) == IF n < 10 THEN 1 ELSE IF n < 100 THEN 2 ELSE 3
Aligned(n) == CASE Places(n) = 1 -> 100 * n [] Places(n) = 2 -> 10 * n [] OTHER -> n
UnsignedBefore(m, n) ==
    \/ Aligned(m) < Aligned(n)
    \/ Aligned(m) = Aligned(n) /\ Places(m) < Places(n)
NumeralBefore(m, n) ==
    IF m < 0 THEN n >= 0 \/ UnsignedBefore(-m, -n) ELSE n >= 0 /\ UnsignedBefore(m, n)

\* QVariant's < on two values of one type.
Smaller(m, n, asText) == IF asText THEN NumeralBefore(m, n) ELSE m < n

\* The comparison of StateDescriptor::operator==(State): the state's value is first
\* converted to the type of the descriptor's, which is a text once it has been in the
\* settings file.
Compares(operator, actual, wanted, asText) ==
    CASE operator = "Equals"         -> actual = wanted
      [] operator = "NotEquals"      -> actual # wanted
      [] operator = "Less"           -> Smaller(actual, wanted, asText)
      [] operator = "Greater"        -> Smaller(wanted, actual, asText)
      [] operator = "LessOrEqual"    -> ~Smaller(wanted, actual, asText)
      [] operator = "GreaterOrEqual" -> ~Smaller(actual, wanted, asText)

\* The descriptor's device is configured and has the descriptor's state.
Resolves(descriptor, states) ==
    /\ descriptor.device \in DOMAIN states
    /\ descriptor.stateType \in DOMAIN states[descriptor.device]

\* What the node's own descriptor says; an empty one constrains nothing.
Matches(descriptor, states) ==
    \/ descriptor = NoDescriptor
    \/ /\ Resolves(descriptor, states)
       /\ Compares(descriptor.operator,
                   states[descriptor.device][descriptor.stateType],
                   descriptor.value, descriptor.asText)

\* The checks isValid() makes on the node's own descriptor.
Acceptable(descriptor, states) ==
    \/ descriptor = NoDescriptor
    \/ /\ Resolves(descriptor, states)
       /\ descriptor.value \in LegalValues[descriptor.stateType]

Children(t, p) ==
    {q \in DOMAIN t : Len(q) = Len(p) + 1 /\ SubSeq(q, 1, Len(p)) = p}

\* Mutant of Evaluate: a node with a descriptor of its own ignores its children.
Evaluate_LeafOnly(t, states) ==
    LET holds[p \in DOMAIN t] ==
            IF t[p].descriptor # NoDescriptor THEN Matches(t[p].descriptor, states)
            ELSE IF t[p].operator = "Or"
                 THEN \E q \in Children(t, p) : holds[q]
                 ELSE \A q \in Children(t, p) : holds[q]
    IN  holds[<<>>]

\* The recursion of evaluate() and isValid(), where fine are the nodes whose own
\* descriptor passes: an Or node needs one child, any other node all its children.
HoldsWith(t, fine) ==
    LET holds[p \in DOMAIN t] ==
            /\ p \in fine
            /\ IF t[p].operator = "Or"
               THEN \E q \in Children(t, p) : holds[q]
               ELSE \A q \in Children(t, p) : holds[q]
    IN  holds[<<>>]

\* StateEvaluator::evaluate().
Matching(t, states) == {p \in DOMAIN t : Matches(t[p].descriptor, states)}
Evaluate(t, states) == HoldsWith(t, Matching(t, states))

\* StateEvaluator::isValid(): one acceptable child is enough for an Or node.
AcceptableNodes(t, states) == {p \in DOMAIN t : Acceptable(t[p].descriptor, states)}
IsValid(t, states) == HoldsWith(t, AcceptableNodes(t, states))

\* StateEvaluator::containsDevice().
ContainsDevice(t, d) == \E p \in DOMAIN t : t[p].descriptor.device = d

\* Mutant of WithoutDevice: the device goes, the rest of its descriptor stays.
WithoutDevice_KeepsValue(t, d) ==
    [p \in DOMAIN t |->
        IF t[p].descriptor.device = d
        THEN [t[p] EXCEPT !.descriptor.device = NoDevice]
        ELSE t[p]]

\* StateEvaluator::removeDevice(): the nodes stay, their descriptors go.
WithoutDevice(t, d) ==
    [p \in DOMAIN t |->
        IF t[p].descriptor.device = d
        THEN [t[p] EXCEPT !.descriptor = NoDescriptor]
        ELSE t[p]]

\* Mutant of ContainsState: child evaluators are not searched.
ContainsState_RootOnly(t, type) ==
    /\ t[<<>>].descriptor # NoDescriptor
    /\ t[<<>>].descriptor.stateType = type

\* RuleEngine::containsState(): only the state type is compared, not the
\* device the state belongs to.
ContainsState(t, type) ==
    \E p \in DOMAIN t : /\ t[p].descriptor # NoDescriptor
                        /\ t[p].descriptor.stateType = type

\* StateEvaluator::dumpToSettings(), read back by loadFromSettings(): the values are
\* texts.  The order of children, which ten of them or more lose, is not modelled.
AsTexts(t) ==
    [p \in DOMAIN t |->
        IF t[p].descriptor = NoDescriptor THEN t[p]
        ELSE [t[p] EXCEPT !.descriptor.asText = TRUE]]

\* Some descriptor asks which of two values is the greater.
OrdersValues(t) ==
    \E p \in DOMAIN t :
        /\ t[p].descriptor # NoDescriptor
        /\ t[p].descriptor.operator \notin {"Equals", "NotEquals"}

\* A well-formed evaluator: a finite tree of nodes below a root.
IsEvaluator(t, Descriptors) ==
    /\ <<>> \in DOMAIN t
    /\ DOMAIN t \subseteq Seq(Nat)
    /\ IsFiniteSet(DOMAIN t)
    /\ \A p \in DOMAIN t : t[p] \in [descriptor : Descriptors, operator : StateOperators]

=============================================================================
