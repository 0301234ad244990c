--------------------------- MODULE GuhCoreProofs ---------------------------
(***************************************************************************)
(* Safety of the rule engine and of GuhCore for every set of rules,        *)
(* devices, client configurations and plugin effects; what conditions mean,*)
(* for every condition.                                                    *)
(***************************************************************************)
EXTENDS GuhCore, Conditions, SequenceTheorems, FiniteSetTheorems, TLAPS

-----------------------------------------------------------------------------
(***************************************************************************)
(* Conditions.  evaluate() and isValid() are one recursion over the nodes  *)
(* of a condition.  The nodes that can stand together solve it, so it has  *)
(* a value; and any solution of it agrees with them at the root, because a *)
(* node on which the two differed would have such a child, and so on       *)
(* without end.                                                            *)
(***************************************************************************)

\* What a tree has to be for evaluate() to come to an end
Condition(t) ==
    /\ <<>> \in DOMAIN t
    /\ DOMAIN t \subseteq Seq(Nat)
    /\ IsFiniteSet(DOMAIN t)
    /\ \A p \in DOMAIN t : t[p].operator \in StateOperators

\* What the recursion makes of the nodes, given what it makes of their children, when the
\* descriptors of some nodes pass
Step(f, t, fine) ==
    [p \in DOMAIN t |->
        /\ p \in fine
        /\ IF t[p].operator = "Or"
           THEN \E q \in Children(t, p) : f[q]
           ELSE \A q \in Children(t, p) : f[q]]

\* evaluate() and isValid() are the recursion that Step describes.
LEMMA HoldsWithIsStep ==
    ASSUME NEW t, NEW fine
    PROVE  HoldsWith(t, fine) = (CHOOSE f : f = Step(f, t, fine))[<<>>]
BY DEF HoldsWith, Step

\* Nodes that can stand together: the property's reading with the passing descriptors as
\* a parameter
Together(nodes, t, fine) ==
    \A p \in nodes :
        /\ p \in fine
        /\ t[p].operator = "And" => Children(t, p) \subseteq nodes
        /\ t[p].operator = "Or" => Children(t, p) \cap nodes # {}

JustifiedBy(t, fine) ==
    \E nodes \in SUBSET DOMAIN t : <<>> \in nodes /\ Together(nodes, t, fine)

\* There are nodes that can stand together and comprise all that can.
Standing(t, fine) ==
    UNION {nodes \in SUBSET DOMAIN t : Together(nodes, t, fine)}

\* All that can stand together can stand.
LEMMA StandingStands ==
    ASSUME NEW t, NEW fine
    PROVE  Together(Standing(t, fine), t, fine)
<1> DEFINE G == Standing(t, fine)
<1> SUFFICES ASSUME NEW p \in G
             PROVE  /\ p \in fine
                    /\ t[p].operator = "And" => Children(t, p) \subseteq G
                    /\ t[p].operator = "Or" => Children(t, p) \cap G # {}
  BY DEF Together
<1>1. PICK nodes \in SUBSET DOMAIN t : p \in nodes /\ Together(nodes, t, fine)
  BY DEF Standing
<1>2. nodes \subseteq G
  BY <1>1 DEF Standing
<1>3. /\ p \in fine
      /\ t[p].operator = "And" => Children(t, p) \subseteq nodes
      /\ t[p].operator = "Or" => Children(t, p) \cap nodes # {}
  BY <1>1 DEF Together
<1> HIDE DEF G
<1>4. QED
  BY <1>2, <1>3

\* What can stand is among it.
LEMMA StandingIsAll ==
    ASSUME NEW t, NEW fine, NEW nodes \in SUBSET DOMAIN t, Together(nodes, t, fine)
    PROVE  nodes \subseteq Standing(t, fine)
BY DEF Standing

\* The nodes that can stand solve the recursion, so that it has a value.
LEMMA StepHasSolution ==
    ASSUME NEW t, NEW fine, Condition(t)
    PROVE  LET f == CHOOSE f : f = Step(f, t, fine) IN f = Step(f, t, fine)
<1> DEFINE G == Standing(t, fine)
           h == [p \in DOMAIN t |-> p \in G]
<1>1. G \subseteq DOMAIN t
  BY DEF Standing
<1>2. Together(G, t, fine)
  BY StandingStands
<1>3. ASSUME NEW p \in DOMAIN t
      PROVE  Children(t, p) \subseteq DOMAIN t
  BY DEF Children
<1> HIDE DEF G
<1>4. ASSUME NEW p \in DOMAIN t
      PROVE  p \in G <=> /\ p \in fine
                         /\ IF t[p].operator = "Or"
                            THEN \E q \in Children(t, p) : q \in G
                            ELSE \A q \in Children(t, p) : q \in G
  <2>1. t[p].operator \in {"And", "Or"}
    BY DEF Condition, StateOperators
  <2>2. ASSUME p \in G
        PROVE  /\ p \in fine
               /\ t[p].operator = "And" => Children(t, p) \subseteq G
               /\ t[p].operator = "Or" => Children(t, p) \cap G # {}
    BY <1>2, <2>2 DEF Together
  <2>3. ASSUME p \in fine,
               IF t[p].operator = "Or"
               THEN \E q \in Children(t, p) : q \in G
               ELSE \A q \in Children(t, p) : q \in G
        PROVE  p \in G
    <3>1. Together(G \cup {p}, t, fine)
      <4> SUFFICES ASSUME NEW q \in G \cup {p}
                   PROVE  /\ q \in fine
                          /\ t[q].operator = "And" => Children(t, q) \subseteq G \cup {p}
                          /\ t[q].operator = "Or" => Children(t, q) \cap (G \cup {p}) # {}
        BY DEF Together
      <4>1. CASE q \in G
        BY <1>2, <4>1 DEF Together
      <4>2. CASE q = p
        BY <2>3, <4>2
      <4>3. QED
        BY <4>1, <4>2
    <3>2. G \cup {p} \subseteq Standing(t, fine)
      BY <1>1, <3>1, StandingIsAll
    <3>3. QED
      BY <3>2 DEF G
  <2>4. QED
    BY <2>1, <2>2, <2>3
<1>5. h = Step(h, t, fine)
  <2>1. ASSUME NEW p \in DOMAIN t
        PROVE  h[p] = (/\ p \in fine
                       /\ IF t[p].operator = "Or"
                          THEN \E q \in Children(t, p) : h[q]
                          ELSE \A q \in Children(t, p) : h[q])
    <3>1. \A q \in Children(t, p) : h[q] = (q \in G)
      BY <1>3
    <3>2. h[p] = (p \in G)
      OBVIOUS
    <3> HIDE DEF h
    <3>3. (\E q \in Children(t, p) : h[q]) <=> (\E q \in Children(t, p) : q \in G)
      BY <3>1, Zenon
    <3>4. (\A q \in Children(t, p) : h[q]) <=> (\A q \in Children(t, p) : q \in G)
      BY <3>1, Zenon
    <3> DEFINE one == p \in G
               other == /\ p \in fine
                        /\ IF t[p].operator = "Or"
                           THEN \E q \in Children(t, p) : h[q]
                           ELSE \A q \in Children(t, p) : h[q]
    <3>5. one <=> other
      BY <1>4, <3>3, <3>4
    <3>6. one \in BOOLEAN
      OBVIOUS
    <3>7. other \in BOOLEAN
      BY Zenon
    <3> HIDE DEF one, other
    <3>8. one = other
      BY <3>5, <3>6, <3>7
    <3>9. QED
      BY <3>2, <3>8, Zenon DEF one, other
  <2>2. h = [p \in DOMAIN t |-> h[p]]
    OBVIOUS
  <2> HIDE DEF h
  <2>3. QED
    BY <2>1, <2>2, Zenon DEF Step
<1> HIDE DEF h
<1>6. QED
  BY <1>5, Zenon

\* Nodes that each have a child among them have no end: a finite tree has none.
LEMMA NoEndlessBranch ==
    ASSUME NEW t, Condition(t), NEW nodes \in SUBSET DOMAIN t,
           \A p \in nodes : Children(t, p) \cap nodes # {}
    PROVE  nodes = {}
<1> SUFFICES ASSUME nodes # {}
             PROVE  FALSE
  OBVIOUS
<1> DEFINE D == DOMAIN t
           Deeper(p) == {q \in D : Len(q) > Len(p)}
           R == StrictSubsetOrdering(D)
           T == {Deeper(p) : p \in nodes}
<1>1. IsFiniteSet(D) /\ \A p \in D : Len(p) \in Nat
  BY LenProperties DEF Condition
<1>2. IsWellFoundedOn(R, FiniteSubsetsOf(D))
  BY FS_StrictSubsetOrderingWellFounded
<1>3. FiniteSubsetsOf(D) = SUBSET D
  BY <1>1, FS_FiniteSubsetsOfFinite
<1>4. T \subseteq FiniteSubsetsOf(D) /\ T # {}
  <2>1. \A p \in nodes : Deeper(p) \in SUBSET D
    OBVIOUS
  <2> HIDE DEF Deeper
  <2>2. QED
    BY <1>3, <2>1
<1>5. \E x \in T : \A y \in T : <<y, x>> \notin R
  <2> HIDE DEF R, T
  <2>1. QED
    BY <1>2, <1>4, WFMin, Zenon
<1>6. PICK p \in nodes : \A y \in T : <<y, Deeper(p)>> \notin R
  BY <1>5
<1>7. PICK q \in nodes : q \in Children(t, p)
  OBVIOUS
<1>8. q \in D /\ p \in D /\ Len(q) = Len(p) + 1
  BY <1>7 DEF Children
<1>9. Deeper(q) \subseteq Deeper(p) /\ Deeper(q) # Deeper(p)
  <2>0. Len(p) \in Nat /\ Len(q) \in Nat
    BY <1>1, <1>8
  <2>1. q \in Deeper(p) /\ q \notin Deeper(q)
    BY <2>0, <1>8, SMT
  <2>2. ASSUME NEW r \in D, Len(r) > Len(q)
        PROVE  Len(r) > Len(p)
    BY <1>1, <1>8, <2>2
  <2>3. QED
    BY <2>1, <2>2
<1>10. <<Deeper(q), Deeper(p)>> \in R
  BY <1>9 DEF StrictSubsetOrdering
<1>11. QED
  BY <1>6, <1>10

\* The recursion over a finite condition gives true exactly when some of the nodes justify
\* the root.
LEMMA HoldsJustified ==
    ASSUME NEW t, NEW fine, Condition(t)
    PROVE  HoldsWith(t, fine) <=> JustifiedBy(t, fine)
<1> DEFINE f == CHOOSE f : f = Step(f, t, fine)
           G == Standing(t, fine)
           H == {p \in DOMAIN t : f[p]}
           B == {p \in G : ~f[p]}
<1>1. f = Step(f, t, fine)
  BY StepHasSolution
<1>2. HoldsWith(t, fine) = f[<<>>]
  BY HoldsWithIsStep
<1> HIDE DEF f
<1>3. ASSUME NEW p \in DOMAIN t
      PROVE  f[p] = (/\ p \in fine
                     /\ IF t[p].operator = "Or"
                        THEN \E q \in Children(t, p) : f[q]
                        ELSE \A q \in Children(t, p) : f[q])
  <2>1. Step(f, t, fine)[p] = (/\ p \in fine
                     /\ IF t[p].operator = "Or"
                        THEN \E q \in Children(t, p) : f[q]
                        ELSE \A q \in Children(t, p) : f[q])
    BY DEF Step
  <2>2. QED
    BY <1>1, <2>1, Zenon
<1>4. \A p \in DOMAIN t : Children(t, p) \subseteq DOMAIN t /\ t[p].operator \in {"And", "Or"}
  BY DEF Children, Condition, StateOperators
<1>5. <<>> \in DOMAIN t
  BY DEF Condition
<1>6. ASSUME f[<<>>]
      PROVE  JustifiedBy(t, fine)
  <2>1. Together(H, t, fine)
    <3> SUFFICES ASSUME NEW p \in DOMAIN t, f[p]
                 PROVE  /\ p \in fine
                        /\ t[p].operator = "And" => Children(t, p) \subseteq H
                        /\ t[p].operator = "Or" => Children(t, p) \cap H # {}
      BY DEF Together
    <3>1. /\ p \in fine
          /\ IF t[p].operator = "Or"
             THEN \E q \in Children(t, p) : f[q]
             ELSE \A q \in Children(t, p) : f[q]
      BY <1>3, Zenon
    <3>2. QED
      BY <1>4, <3>1
  <2>2. <<>> \in H /\ H \in SUBSET DOMAIN t
    BY <1>5, <1>6
  <2>3. QED
    BY <2>1, <2>2 DEF JustifiedBy
<1>7. ASSUME JustifiedBy(t, fine)
      PROVE  f[<<>>]
  <2>1. <<>> \in G
    BY <1>7, StandingIsAll DEF JustifiedBy
  <2>2. G \subseteq DOMAIN t /\ Together(G, t, fine)
    BY StandingStands DEF Standing
  <2> HIDE DEF G
  <2>3. ASSUME NEW p \in B
        PROVE  Children(t, p) \cap B # {}
    <3>1. p \in DOMAIN t /\ p \in G /\ ~f[p]
      BY <2>2
    <3>2. /\ p \in fine
          /\ t[p].operator = "And" => Children(t, p) \subseteq G
          /\ t[p].operator = "Or" => Children(t, p) \cap G # {}
      BY <2>2, <3>1 DEF Together
    <3>3. ~ IF t[p].operator = "Or"
            THEN \E q \in Children(t, p) : f[q]
            ELSE \A q \in Children(t, p) : f[q]
      BY <1>3, <3>1, <3>2, Zenon
    <3>4. QED
      BY <1>4, <3>1, <3>2, <3>3
  <2>4. B = {}
    <3>1. B \in SUBSET DOMAIN t
      BY <2>2
    <3> HIDE DEF B
    <3>2. QED
      BY <2>3, <3>1, NoEndlessBranch
  <2>5. QED
    BY <2>1, <2>4
<1>8. QED
  BY <1>2, <1>6, <1>7

\* More passing descriptors in the same tree never make it fail.
LEMMA HoldsMonotone ==
    ASSUME NEW t, NEW u, NEW fine, NEW more, Condition(t),
           DOMAIN u = DOMAIN t, \A p \in DOMAIN t : u[p].operator = t[p].operator,
           \A p \in DOMAIN t : p \in fine => p \in more,
           HoldsWith(t, fine)
    PROVE  HoldsWith(u, more)
<1>1. PICK nodes \in SUBSET DOMAIN t : <<>> \in nodes /\ Together(nodes, t, fine)
  BY HoldsJustified DEF JustifiedBy
<1>2. \A p \in DOMAIN t : Children(u, p) = Children(t, p)
  BY DEF Children
<1>3. Together(nodes, u, more)
  BY <1>1, <1>2 DEF Together
<1>4. JustifiedBy(u, more)
  BY <1>1, <1>3 DEF JustifiedBy
<1>5. Condition(u)
  BY DEF Condition
<1>6. QED
  BY <1>4, <1>5, HoldsJustified

\* The condition of a rule is a finite tree.
LEMMA EvaluatorIsCondition ==
    ASSUME NEW t, NEW D, IsEvaluator(t, D)
    PROVE  Condition(t)
BY DEF IsEvaluator, Condition

\* evaluate() of a finite condition is true exactly when some of the nodes justify the root.
THEOREM EvaluateJustified ==
    ASSUME NEW t, NEW now, Condition(t)
    PROVE  Evaluate(t, now) <=> Justified(t, now)
<1>1. Evaluate(t, now) <=> JustifiedBy(t, Matching(t, now))
  BY HoldsJustified DEF Evaluate
<1>2. ASSUME NEW nodes \in SUBSET DOMAIN t
      PROVE  Together(nodes, t, Matching(t, now)) <=> Stand(nodes, t, now)
  BY DEF Together, Stand, Matching
<1>3. QED
  BY <1>1, <1>2 DEF JustifiedBy, Justified

\* The condition stays a finite tree: a device that goes takes descriptors with it, no nodes.
LEMMA WithoutDeviceCondition ==
    ASSUME NEW t, NEW d, Condition(t)
    PROVE  Condition(WithoutDevice(t, d))
BY DEF Condition, WithoutDevice

\* What clients send is a finite tree.
LEMMA ConditionsInit_Condition ==
    ASSUME ConditionsInit
    PROVE  Condition(tree)
<1>1. IsEvaluator(tree, Descriptors)
  BY TreesAssumption DEF ConditionsInit
<1>2. QED
  BY <1>1, EvaluatorIsCondition

\* No step makes it anything else.
LEMMA ConditionsNext_Condition ==
    ASSUME Condition(tree), [ConditionsNext]_conditionVars
    PROVE  Condition(tree)'
<1>1. CASE \E d \in DOMAIN deviceStates : RemoveFromTree(d)
  <2>1. PICK d \in DOMAIN deviceStates : RemoveFromTree(d)
    BY <1>1
  <2>2. tree' = WithoutDevice(tree, d)
    BY <2>1 DEF RemoveFromTree
  <2>3. QED
    BY <2>2, WithoutDeviceCondition
<1>2. CASE tree' = tree
  BY <1>2 DEF Condition
<1>3. QED
  BY <1>1, <1>2 DEF ConditionsNext, StateTakes, RemoveConfigured, conditionVars

\* The condition is always a finite tree.
LEMMA ConditionsInvariance == ConditionsSpec => []Condition(tree)
<1>1. QED
  BY ConditionsInit_Condition, ConditionsNext_Condition, PTL DEF ConditionsSpec

\* The conditions of rules mean what And/Or trees mean, over all changes of the states, of
\* the devices and of the condition (StateEvaluator::evaluate).
THEOREM EvaluateIsJustifiedCorrect == ConditionsSpec => []EvaluateIsJustified
<1>1. Condition(tree) => EvaluateIsJustified
  BY EvaluateJustified DEF EvaluateIsJustified, Holds
<1>2. QED
  BY <1>1, ConditionsInvariance, PTL

\* A condition depends on the states only by what they make of the descriptors of its
\* nodes: evaluate() asks nothing else.
LEMMA EvaluateLocal ==
    ASSUME NEW t, NEW one, NEW other,
           \A p \in DOMAIN t : Matches(t[p].descriptor, one) = Matches(t[p].descriptor, other)
    PROVE  Evaluate(t, one) = Evaluate(t, other)
BY DEF Evaluate, Matching

\* A new value of a state changes no condition that containsState() does not find,
\* whatever the device (StateEvaluator::containsState).
LEMMA OtherStateUnconcerned ==
    ASSUME NEW t, NEW one, NEW other, NEW d, NEW s, NEW v,
           d \in DOMAIN one, ~ContainsState(t, s), other = [one EXCEPT ![d][s] = v]
    PROVE  Evaluate(t, other) = Evaluate(t, one)
<1>1. ASSUME NEW p \in DOMAIN t
      PROVE  Matches(t[p].descriptor, other) = Matches(t[p].descriptor, one)
  <2> DEFINE x == t[p].descriptor
  <2>1. CASE x = NoDescriptor
    BY <2>1 DEF Matches
  <2>2. CASE x # NoDescriptor
    <3>1. x.stateType # s
      BY <2>2 DEF ContainsState
    <3> HIDE DEF x
    <3>2. /\ DOMAIN other = DOMAIN one
          /\ \A e \in DOMAIN one \ {d} : other[e] = one[e]
          /\ other[d] = [one[d] EXCEPT ![s] = v]
      OBVIOUS
    <3>3. /\ DOMAIN other[d] = DOMAIN one[d]
          /\ \A y \in DOMAIN one[d] \ {s} : other[d][y] = one[d][y]
      BY <3>2
    <3>4. Resolves(x, other) <=> Resolves(x, one)
      BY <3>2, <3>3 DEF Resolves
    <3>5. Resolves(x, one) =>
            other[x.device][x.stateType] = one[x.device][x.stateType]
      BY <3>1, <3>2, <3>3 DEF Resolves
    <3>6. Matches(x, other) = Matches(x, one)
      BY <2>2, <3>4, <3>5 DEF Matches
    <3>7. QED
      BY <3>6 DEF x
  <2>3. QED
    BY <2>1, <2>2
<1>2. QED
  BY <1>1, EvaluateLocal

\* Taking a device out of a condition only weakens it.
LEMMA WithoutDeviceWeaker ==
    ASSUME NEW t, NEW now, NEW d, Condition(t)
    PROVE  /\ Evaluate(t, now) => Evaluate(WithoutDevice(t, d), now)
           /\ IsValid(t, now) => IsValid(WithoutDevice(t, d), now)
<1> DEFINE u == WithoutDevice(t, d)
<1>1. DOMAIN u = DOMAIN t
  BY DEF WithoutDevice
<1>2. ASSUME NEW p \in DOMAIN t
      PROVE  /\ u[p].operator = t[p].operator
             /\ u[p].descriptor = t[p].descriptor \/ u[p].descriptor = NoDescriptor
  BY DEF WithoutDevice
<1> HIDE DEF u
<1>3. /\ \A p \in DOMAIN t : p \in Matching(t, now) => p \in Matching(u, now)
      /\ \A p \in DOMAIN t : p \in AcceptableNodes(t, now) => p \in AcceptableNodes(u, now)
  BY <1>1, <1>2 DEF Matching, AcceptableNodes, Matches, Acceptable
<1>4. HoldsWith(t, Matching(t, now)) => HoldsWith(u, Matching(u, now))
  BY <1>1, <1>2, <1>3, HoldsMonotone
<1>5. HoldsWith(t, AcceptableNodes(t, now)) => HoldsWith(u, AcceptableNodes(u, now))
  BY <1>1, <1>2, <1>3, HoldsMonotone
<1>6. QED
  BY <1>4, <1>5 DEF u, Evaluate, IsValid

\* isValid() asks which devices there are and which states they have, not for their values.
LEMMA IsValidLocal ==
    ASSUME NEW t, NEW one, NEW other, DOMAIN other = DOMAIN one,
           \A d \in DOMAIN one : DOMAIN other[d] = DOMAIN one[d]
    PROVE  IsValid(t, other) = IsValid(t, one)
<1>1. AcceptableNodes(t, other) = AcceptableNodes(t, one)
  BY DEF AcceptableNodes, Acceptable, Resolves
<1>2. QED
  BY <1>1 DEF IsValid

\* Nor for a device that the condition does not name.
LEMMA IsValidWithout ==
    ASSUME NEW t, NEW now, NEW d, ~ContainsDevice(t, d), NEW rest,
           DOMAIN rest = DOMAIN now \ {d}, \A e \in DOMAIN rest : rest[e] = now[e]
    PROVE  IsValid(t, rest) = IsValid(t, now)
<1>1. AcceptableNodes(t, rest) = AcceptableNodes(t, now)
  BY DEF AcceptableNodes, Acceptable, Resolves, ContainsDevice
<1>2. QED
  BY <1>1 DEF IsValid

\* What the settings file makes of a condition: the same tree, each descriptor with its
\* value as a text (StateEvaluator::dumpToSettings, loadFromSettings).
LEMMA AsTextsNodes ==
    ASSUME NEW t, NEW p \in DOMAIN t, t[p].descriptor \in StateDescriptors,
           t[p] \in [descriptor : StateDescriptors, operator : StateOperators]
    PROVE  /\ AsTexts(t)[p] \in [descriptor : StateDescriptors, operator : StateOperators]
           /\ AsTexts(t)[p].operator = t[p].operator
           /\ AsTexts(t)[p].descriptor.device = t[p].descriptor.device
           /\ AsTexts(t)[p].descriptor.stateType = t[p].descriptor.stateType
           /\ AsTexts(t)[p].descriptor.operator = t[p].descriptor.operator
           /\ AsTexts(t)[p].descriptor.value = t[p].descriptor.value
           /\ t[p].descriptor = NoDescriptor <=> AsTexts(t)[p].descriptor = NoDescriptor
           /\ AsTexts(AsTexts(t))[p] = AsTexts(t)[p]
<1> DEFINE x == t[p].descriptor
           y == AsTexts(t)[p].descriptor
<1>1. CASE x = NoDescriptor
  BY <1>1 DEF AsTexts
<1>2. CASE x # NoDescriptor
  <2>1. x \in [device : DeviceIds, stateType : EventTypes, operator : ValueOperators,
               value : Int, asText : BOOLEAN]
    BY <1>2 DEF StateDescriptors
  <2>2. AsTexts(t)[p] = [t[p] EXCEPT !.descriptor.asText = TRUE]
    BY <1>2 DEF AsTexts
  <2>3. /\ y = [x EXCEPT !.asText = TRUE]
        /\ AsTexts(t)[p] = [t[p] EXCEPT !.descriptor = y]
        /\ AsTexts(t)[p].operator = t[p].operator
    BY <2>2
  <2>4. y \in [device : {x.device}, stateType : {x.stateType}, operator : {x.operator},
               value : {x.value}, asText : {TRUE}]
    BY <2>1, <2>3
  <2>5. y # NoDescriptor
    <3>1. y.asText = TRUE /\ NoDescriptor.asText = FALSE
      BY <2>4 DEF NoDescriptor
    <3> HIDE DEF y
    <3>2. QED
      BY <3>1
  <2>6. AsTexts(AsTexts(t))[p] = [AsTexts(t)[p] EXCEPT !.descriptor.asText = TRUE]
    BY <2>5 DEF AsTexts
  <2>7. y \in StateDescriptors
    BY <2>1, <2>4 DEF StateDescriptors
  <2>8. AsTexts(AsTexts(t))[p] = AsTexts(t)[p]
    <3> DEFINE z == AsTexts(t)[p]
    <3>1. z \in [descriptor : {y}, operator : {t[p].operator}]
      BY <2>3
    <3> HIDE DEF x, y, z
    <3>2. [y EXCEPT !.asText = TRUE] = y
      BY <2>4
    <3>3. [z EXCEPT !.descriptor = y] = z
      BY <3>1
    <3>4. z.descriptor = y
      BY <3>1
    <3>5. AsTexts(AsTexts(t))[p] = [z EXCEPT !.descriptor = [y EXCEPT !.asText = TRUE]]
      BY <2>6, <3>4 DEF z
    <3>6. QED
      BY <3>2, <3>3, <3>5 DEF z
  <2> HIDE DEF x, y
  <2>9. QED
    BY <1>2, <2>3, <2>4, <2>5, <2>7, <2>8 DEF x, y
<1>3. QED
  BY <1>1, <1>2

\* No change of a state that the search overlooks changes the condition, and a device that
\* is taken out only weakens it (containsState, removeDevice).
THEOREM ConditionChangesSoundCorrect == ConditionsSpec => ConditionChangesSound
<1>1. ASSUME NEW s \in StateTypeNames, NEW d \in DOMAIN deviceStates, NEW v \in StateValues,
             StateTakes(d, s, v), ~ContainsState(tree, s)
      PROVE  Holds' = Holds
  <2>1. /\ deviceStates' = [deviceStates EXCEPT ![d][s] = v]
        /\ tree' = tree
    BY <1>1 DEF StateTakes
  <2>2. Evaluate(tree, deviceStates') = Evaluate(tree, deviceStates)
    BY <1>1, <2>1, OtherStateUnconcerned
  <2>3. QED
    BY <2>1, <2>2, Zenon DEF Holds
<1>2. ASSUME Condition(tree), NEW d \in DOMAIN deviceStates, RemoveFromTree(d), Holds
      PROVE  Holds'
  BY <1>2, WithoutDeviceWeaker DEF RemoveFromTree, Holds
<1>3. Condition(tree) =>
        /\ \A s \in StateTypeNames :
             (\E d \in DOMAIN deviceStates, v \in StateValues : StateTakes(d, s, v))
                 /\ ~ContainsState(tree, s)
             => Holds' = Holds
        /\ \A d \in DOMAIN deviceStates : RemoveFromTree(d) /\ Holds => Holds'
  BY <1>1, <1>2
<1>4. QED
  BY <1>3, ConditionsInvariance, PTL DEF ConditionChangesSound
-----------------------------------------------------------------------------
(***************************************************************************)
(* The rule engine.  The inductive invariant is the conjunction of the     *)
(* invariants TLC checks: the index, the hash, the settings file and the   *)
(* devices depend on each other, so none of them is inductive alone.       *)
(***************************************************************************)

Inv ==
    /\ TypeOK
    /\ OrderMatchesRules
    /\ SettingsMatchRules
    /\ ActiveRulesCanLeave
    /\ ReferencesConfigured

-----------------------------------------------------------------------------
(* The list operations of the model.                                       *)

\* Taking the id at a position out of a list without repetitions leaves a list
\* without repetitions of the other ids (m_ruleIds.takeAt).
LEMMA IdsWithoutProperties ==
    ASSUME NEW S, NEW ids \in Seq(S), NEW id \in Range(ids),
           \A i, j \in DOMAIN ids : ids[i] = ids[j] => i = j
    PROVE  /\ IdsWithout(ids, id) \in Seq(S)
           /\ \A i, j \in DOMAIN IdsWithout(ids, id) :
                IdsWithout(ids, id)[i] = IdsWithout(ids, id)[j] => i = j
           /\ Range(IdsWithout(ids, id)) = Range(ids) \ {id}
<1> DEFINE at == CHOOSE i \in DOMAIN ids : ids[i] = id
           rest == [i \in 1..(Len(ids) - 1) |-> IF i < at THEN ids[i] ELSE ids[i + 1]]
<1>1. at \in DOMAIN ids /\ ids[at] = id
  BY DEF Range
<1>2. DOMAIN ids = 1..Len(ids) /\ Len(ids) \in Nat
  OBVIOUS
<1>3. at \in 1..Len(ids)
  BY <1>1, <1>2
<1> HIDE DEF at
<1>4. rest \in Seq(S) /\ DOMAIN rest = 1..(Len(ids) - 1)
  <2>1. \A i \in 1..(Len(ids) - 1) : rest[i] \in S
    BY <1>2, <1>3
  <2>2. Len(ids) - 1 \in Nat
    BY <1>2, <1>3
  <2>3. rest \in [1..(Len(ids) - 1) -> S]
    BY <2>1
  <2>4. QED
    BY <2>2, <2>3
<1>5. \A i \in DOMAIN rest : rest[i] = IF i < at THEN ids[i] ELSE ids[i + 1]
  BY <1>4
<1> HIDE DEF rest
<1>6. \A i, j \in DOMAIN rest : rest[i] = rest[j] => i = j
  BY <1>1, <1>2, <1>3, <1>4, <1>5
<1>7. Range(rest) = Range(ids) \ {id}
  <2>1. ASSUME NEW x \in Range(rest) PROVE x \in Range(ids) \ {id}
    BY <1>1, <1>2, <1>3, <1>4, <1>5 DEF Range
  <2>2. ASSUME NEW x \in Range(ids) \ {id} PROVE x \in Range(rest)
    <3>1. PICK k \in DOMAIN ids : ids[k] = x
      BY DEF Range
    <3>2. CASE k < at
      <4>1. k \in DOMAIN rest /\ rest[k] = x
        BY <3>1, <3>2, <1>1, <1>2, <1>3, <1>4, <1>5
      <4>2. QED
        BY <4>1 DEF Range
    <3>3. CASE k > at
      <4>1. k - 1 \in DOMAIN rest /\ rest[k - 1] = x
        BY <3>1, <3>3, <1>1, <1>2, <1>3, <1>4, <1>5
      <4>2. QED
        BY <4>1 DEF Range
    <3>4. k # at
      BY <3>1, <1>1
    <3>5. QED
      BY <3>2, <3>3, <3>4, <1>1, <1>2
  <2>3. QED
    BY <2>1, <2>2
<1>8. rest = IdsWithout(ids, id)
  BY DEF rest, at, IdsWithout
<1>9. QED
  BY <1>4, <1>6, <1>7, <1>8

\* Appending an id the list does not have keeps it without repetitions.
LEMMA AppendFresh ==
    ASSUME NEW S, NEW ids \in Seq(S), NEW id \in S, id \notin Range(ids),
           \A i, j \in DOMAIN ids : ids[i] = ids[j] => i = j
    PROVE  /\ Append(ids, id) \in Seq(S)
           /\ \A i, j \in DOMAIN Append(ids, id) :
                Append(ids, id)[i] = Append(ids, id)[j] => i = j
           /\ Range(Append(ids, id)) = Range(ids) \cup {id}
<1> DEFINE longer == Append(ids, id)
<1>1. /\ longer \in Seq(S)
      /\ Len(longer) = Len(ids) + 1
      /\ \A i \in 1..Len(ids) : longer[i] = ids[i]
      /\ longer[Len(ids) + 1] = id
      /\ Len(ids) \in Nat
      /\ DOMAIN ids = 1..Len(ids)
      /\ DOMAIN longer = 1..(Len(ids) + 1)
  OBVIOUS
<1> HIDE DEF longer
<1>2. \A i \in DOMAIN ids : longer[i] # id
  BY <1>1 DEF Range
<1>3. \A i, j \in DOMAIN longer : longer[i] = longer[j] => i = j
  BY <1>1, <1>2
<1>4. Range(longer) = Range(ids) \cup {id}
  BY <1>1 DEF Range
<1>5. QED
  BY <1>1, <1>3, <1>4 DEF longer

\* An evaluation order names finitely many rules, so the settings file does.
LEMMA FiniteRange ==
    ASSUME NEW S, NEW ids \in Seq(S)
    PROVE  IsFiniteSet(Range(ids))
<1>1. IsFiniteSet(1..Len(ids))
  BY FS_Interval
<1>2. ids \in Surjection(1..Len(ids), Range(ids))
  BY DEF Range, Surjection
<1>3. QED
  BY <1>1, <1>2, FS_Surjection

-----------------------------------------------------------------------------
(* The configurations.                                                     *)

\* A sequence whose elements are made of those of another one.
LEMMA MappedSeq ==
    ASSUME NEW S, NEW list \in Seq(S), NEW T, NEW other,
           other = [i \in DOMAIN list |-> other[i]], \A i \in DOMAIN list : other[i] \in T
    PROVE  other \in Seq(T) /\ Len(other) = Len(list) /\ DOMAIN other = DOMAIN list
<1>1. DOMAIN list = 1..Len(list) /\ Len(list) \in Nat
  OBVIOUS
<1>2. other \in [1..Len(list) -> T]
  BY <1>1
<1>3. QED
  BY <1>1, <1>2

\* Each place of a compacted list has a position it comes from.
LEMMA KthIsPosition ==
    ASSUME NEW n \in Nat, NEW kept \in SUBSET (1..n)
    PROVE  \A k \in 1..Cardinality(kept) : Kth(kept, k) \in kept
<1> DEFINE m == Cardinality(kept)
           upto(i) == {j \in kept : j <= i}
           f == [i \in kept |-> Cardinality(upto(i))]
<1>1. IsFiniteSet(kept) /\ m \in Nat
  <2>1. IsFiniteSet(1..n)
    BY FS_Interval
  <2>2. IsFiniteSet(kept)
    BY <2>1, FS_Subset
  <2>3. QED
    BY <2>2, FS_CardinalityType
<1>2. ASSUME NEW i \in kept
      PROVE  IsFiniteSet(upto(i)) /\ Cardinality(upto(i)) \in 1..m
  <2>1. upto(i) \in SUBSET kept /\ i \in upto(i)
    OBVIOUS
  <2> HIDE DEF upto
  <2>2. IsFiniteSet(upto(i)) /\ Cardinality(upto(i)) <= m /\ Cardinality(upto(i)) \in Nat
    BY <1>1, <2>1, FS_Subset, FS_CardinalityType
  <2>3. Cardinality(upto(i)) # 0
    BY <2>1, <2>2, FS_EmptySet
  <2>4. QED
    BY <1>1, <2>2, <2>3
<1>3. ASSUME NEW i \in kept, NEW j \in kept, i < j
      PROVE  Cardinality(upto(i)) # Cardinality(upto(j))
  <2>0. \A k \in kept : k \in Int
    OBVIOUS
  <2>1. upto(i) \in SUBSET upto(j) /\ j \in upto(j) /\ j \notin upto(i)
    <3> HIDE DEF m
    <3>1. \A k \in kept : k <= i => k <= j
      BY <1>3, <2>0
    <3>2. upto(i) \in SUBSET upto(j)
      BY <3>1
    <3>3. j \in upto(j)
      BY <2>0
    <3>4. j \notin upto(i)
      BY <1>3, <2>0
    <3>5. QED
      BY <3>2, <3>3, <3>4
  <2>2. upto(i) # upto(j) /\ IsFiniteSet(upto(j))
    BY <1>2, <2>1
  <2> HIDE DEF upto
  <2>3. QED
    BY <2>1, <2>2, FS_Subset
<1>4. f \in Injection(kept, 1..m)
  <2>1. f \in [kept -> 1..m]
    BY <1>2
  <2>2. \A i, j \in kept : f[i] = f[j] => i = j
    BY <1>3
  <2> HIDE DEF f
  <2>3. QED
    BY <2>1, <2>2 DEF Injection, IsInjective
<1>5. IsFiniteSet(1..m) /\ Cardinality(1..m) = m
  BY <1>1, FS_Interval
<1>6. f \in Surjection(kept, 1..m)
  <2> HIDE DEF f
  <2>1. Cardinality(kept) = Cardinality(1..m)
    BY <1>5
  <2>2. QED
    BY <1>4, <1>5, <2>1, FS_Injection
<1>7. ASSUME NEW k \in 1..m
      PROVE  \E i \in kept : Cardinality({j \in kept : j <= i}) = k
  BY <1>6 DEF Surjection
<1>8. QED
  BY <1>7 DEF Kth

\* Compacting a list leaves a list of the other devices' actions (takeAt).
LEMMA ActionsWithoutElements ==
    ASSUME NEW list, IsActionList(list), NEW d
    PROVE  /\ IsActionList(ActionsWithout(list, d))
           /\ \A k \in DOMAIN ActionsWithout(list, d) : \E i \in DOMAIN list :
                /\ ActionsWithout(list, d)[k] = list[i]
                /\ list[i].device # d
<1> DEFINE kept == DOMAIN list \ ActionsOn(list, d)
           m == Cardinality(kept)
           shorter == ActionsWithout(list, d)
<1>1. DOMAIN list = 1..Len(list) /\ Len(list) \in Nat /\ kept \in SUBSET (1..Len(list))
  BY DEF IsActionList
<1>2. m \in Nat
  <2>1. IsFiniteSet(1..Len(list))
    BY <1>1, FS_Interval
  <2>2. IsFiniteSet(kept)
    BY <1>1, <2>1, FS_Subset
  <2>3. QED
    BY <2>2, FS_CardinalityType
<1>3. \A k \in 1..m : Kth(kept, k) \in kept
  BY <1>1, KthIsPosition
<1>4. shorter = [k \in 1..m |-> list[Kth(kept, k)]]
  BY DEF ActionsWithout
<1>5. \A i \in kept : i \in DOMAIN list /\ list[i].device # d /\ list[i] \in RuleAction
  BY <1>1 DEF ActionsOn, IsActionList
<1> HIDE DEF kept, m, shorter
<1>6. shorter \in [1..m -> RuleAction]
  BY <1>3, <1>4, <1>5
<1>7. shorter \in Seq(RuleAction)
  BY <1>2, <1>6
<1>8. \A k \in DOMAIN shorter : \E i \in DOMAIN list :
        shorter[k] = list[i] /\ list[i].device # d
  BY <1>3, <1>4, <1>5
<1>9. QED
  BY <1>7, <1>8 DEF shorter, IsActionList

\* Compacting a list without actions of the device changes nothing.
LEMMA ActionsWithoutNothing ==
    ASSUME NEW list, IsActionList(list), NEW d, ActionsOn(list, d) = {}
    PROVE  ActionsWithout(list, d) = list
<1>1. PICK n \in Nat : n = Len(list)
  BY DEF IsActionList
<1>2. DOMAIN list = 1..n
  BY <1>1 DEF IsActionList
<1>3. Cardinality(1..n) = n
  BY FS_Interval
<1>4. ActionsWithout(list, d) = [k \in 1..n |-> list[Kth(1..n, k)]]
  <2>1. DOMAIN list \ ActionsOn(list, d) = 1..n
    BY <1>2
  <2>2. QED
    BY <1>3, <2>1, Zenon DEF ActionsWithout
<1>5. ASSUME NEW k \in 1..n
      PROVE  Kth(1..n, k) = k
  <2>1. ASSUME NEW i \in 1..n
        PROVE  Cardinality({j \in 1..n : j <= i}) = i
    <3>1. {j \in 1..n : j <= i} = 1..i
      OBVIOUS
    <3>2. Cardinality(1..i) = i
      BY FS_Interval
    <3>3. QED
      BY <3>1, <3>2, Zenon
  <2>2. QED
    BY <2>1, Zenon DEF Kth
<1>6. list = [k \in 1..n |-> list[k]]
  BY <1>2 DEF IsActionList
<1>7. QED
  BY <1>4, <1>5, <1>6, Zenon

\* A rule that loses a device is a well-formed one (removeDeviceFromRule).
LEMMA ConfigWithoutDeviceOK ==
    ASSUME NEW c, IsConfig(c), NEW d
    PROVE  /\ IsConfig(ConfigWithoutDevice(c, d))
           /\ ReferencesOf(ConfigWithoutDevice(c, d)) \subseteq ReferencesOf(c)
<1> DEFINE new == ConfigWithoutDevice(c, d)
<1>1. IsEvaluator(new.evaluator, StateDescriptors)
  BY DEF IsConfig, ConfigWithoutDevice, IsEvaluator, WithoutDevice, StateDescriptors
<1>2. IsActionList(c.actions)
  BY DEF IsConfig
<1>3. /\ new.events = {e \in c.events : e.device # d}
      /\ new.actions = ActionsWithout(c.actions, d)
      /\ new.exitActions = <<>>
  BY DEF ConfigWithoutDevice
<1>4. IsActionList(new.actions) /\ IsActionList(new.exitActions)
  BY <1>2, <1>3, ActionsWithoutElements DEF IsActionList
<1>5. IsConfig(new)
  BY <1>1, <1>4 DEF IsConfig, ConfigWithoutDevice, ConfigFields
<1>6. \A k \in DOMAIN new.actions : \E i \in DOMAIN c.actions : new.actions[k] = c.actions[i]
  BY <1>2, <1>3, ActionsWithoutElements
<1> HIDE DEF new
<1>7. ReferencesOf(new) \subseteq ReferencesOf(c)
  BY <1>3, <1>6 DEF ReferencesOf
<1>8. QED
  BY <1>5, <1>7 DEF new

\* Setting the enabled flag changes nothing else of a configuration.
LEMMA ConfigEnabledOK ==
    ASSUME NEW c, IsConfig(c), NEW on \in BOOLEAN
    PROVE  /\ IsConfig([c EXCEPT !.enabled = on])
           /\ ReferencesOf([c EXCEPT !.enabled = on]) = ReferencesOf(c)
           /\ [c EXCEPT !.enabled = on].events = c.events
           /\ [c EXCEPT !.enabled = on].evaluator = c.evaluator
           /\ [c EXCEPT !.enabled = on].actions = c.actions
           /\ [c EXCEPT !.enabled = on].exitActions = c.exitActions
BY DEF IsConfig, ConfigFields, ReferencesOf

\* What addRule() accepts names configured devices only.
LEMMA CanAddReferences ==
    ASSUME NEW c, CanAdd(c)
    PROVE  ReferencesOf(c) \subseteq Configured
BY DEF CanAdd, ReferencesOf

-----------------------------------------------------------------------------
(* What the settings file makes of a configuration.                        *)

\* Sound() for any states.
SoundIn(c, now) == ReferencesOf(c) \subseteq DOMAIN now /\ IsValid(c.evaluator, now)

\* Of a condition it keeps all but what the values are compared as.
LEMMA AsTextsOK ==
    ASSUME NEW t, IsEvaluator(t, StateDescriptors)
    PROVE  /\ IsEvaluator(AsTexts(t), StateDescriptors)
           /\ AsTexts(AsTexts(t)) = AsTexts(t)
           /\ DOMAIN AsTexts(t) = DOMAIN t
           /\ \A p \in DOMAIN t : AsTexts(t)[p].operator = t[p].operator
<1>1. DOMAIN AsTexts(t) = DOMAIN t
  BY DEF AsTexts
<1>2. ASSUME NEW p \in DOMAIN t
      PROVE  /\ AsTexts(t)[p] \in [descriptor : StateDescriptors, operator : StateOperators]
             /\ AsTexts(t)[p].operator = t[p].operator
             /\ AsTexts(AsTexts(t))[p] = AsTexts(t)[p]
  BY AsTextsNodes DEF IsEvaluator
<1>3. AsTexts(t) = [p \in DOMAIN t |-> AsTexts(t)[p]]
  BY DEF AsTexts
<1>4. AsTexts(AsTexts(t)) = [p \in DOMAIN t |-> AsTexts(AsTexts(t))[p]]
  BY <1>1 DEF AsTexts
<1>5. AsTexts(AsTexts(t)) = AsTexts(t)
  BY <1>2, <1>3, <1>4, Zenon
<1>6. QED
  BY <1>1, <1>2, <1>5 DEF IsEvaluator

\* It is valid where the condition in memory is.
LEMMA AsTextsValid ==
    ASSUME NEW t, IsEvaluator(t, StateDescriptors), NEW now, IsValid(t, now)
    PROVE  IsValid(AsTexts(t), now)
<1>1. Condition(t)
  BY EvaluatorIsCondition
<1>2. /\ DOMAIN AsTexts(t) = DOMAIN t
      /\ \A p \in DOMAIN t : AsTexts(t)[p].operator = t[p].operator
  BY AsTextsOK
<1>3. ASSUME NEW p \in DOMAIN t, Acceptable(t[p].descriptor, now)
      PROVE  Acceptable(AsTexts(t)[p].descriptor, now)
  <2>1. /\ AsTexts(t)[p].descriptor.device = t[p].descriptor.device
        /\ AsTexts(t)[p].descriptor.stateType = t[p].descriptor.stateType
        /\ AsTexts(t)[p].descriptor.value = t[p].descriptor.value
        /\ t[p].descriptor = NoDescriptor <=> AsTexts(t)[p].descriptor = NoDescriptor
    BY AsTextsNodes DEF IsEvaluator
  <2>2. QED
    BY <1>3, <2>1 DEF Acceptable, Resolves
<1>4. \A p \in DOMAIN t : p \in AcceptableNodes(t, now) =>
                                p \in AcceptableNodes(AsTexts(t), now)
  BY <1>2, <1>3 DEF AcceptableNodes
<1>5. QED
  BY <1>1, <1>2, <1>4, HoldsMonotone DEF IsValid

\* It decides as the condition in memory unless that asks for the greater of two values.
LEMMA AsTextsDecides ==
    ASSUME NEW t, IsEvaluator(t, StateDescriptors), NEW now, ~OrdersValues(t)
    PROVE  Evaluate(AsTexts(t), now) <=> Evaluate(t, now)
<1> DEFINE u == AsTexts(t)
<1>1. Condition(t) /\ Condition(u)
  BY AsTextsOK, EvaluatorIsCondition
<1>2. /\ DOMAIN u = DOMAIN t
      /\ \A p \in DOMAIN t : u[p].operator = t[p].operator
  BY AsTextsOK
<1>3. ASSUME NEW p \in DOMAIN t
      PROVE  Matches(u[p].descriptor, now) <=> Matches(t[p].descriptor, now)
  <2>1. /\ u[p].descriptor.device = t[p].descriptor.device
        /\ u[p].descriptor.stateType = t[p].descriptor.stateType
        /\ u[p].descriptor.operator = t[p].descriptor.operator
        /\ u[p].descriptor.value = t[p].descriptor.value
        /\ t[p].descriptor = NoDescriptor <=> u[p].descriptor = NoDescriptor
    BY AsTextsNodes DEF IsEvaluator
  <2>2. t[p].descriptor # NoDescriptor => t[p].descriptor.operator \in {"Equals", "NotEquals"}
    BY DEF OrdersValues
  <2> DEFINE x == t[p].descriptor
             y == u[p].descriptor
  <2> HIDE DEF x, y
  <2>3. \A a : x # NoDescriptor =>
            (Compares(y.operator, a, y.value, y.asText) <=> Compares(x.operator, a, x.value, x.asText))
    BY <2>1, <2>2 DEF x, y, Compares
  <2>4. Matches(y, now) <=> Matches(x, now)
    BY <2>1, <2>3 DEF x, y, Matches, Resolves
  <2>5. QED
    BY <2>4 DEF x, y
<1> HIDE DEF u
<1>4. /\ \A p \in DOMAIN t : p \in Matching(t, now) => p \in Matching(u, now)
      /\ \A p \in DOMAIN u : p \in Matching(u, now) => p \in Matching(t, now)
  BY <1>2, <1>3 DEF Matching
<1>5. Evaluate(t, now) => Evaluate(u, now)
  BY <1>1, <1>2, <1>4, HoldsMonotone DEF Evaluate
<1>6. Evaluate(u, now) => Evaluate(t, now)
  BY <1>1, <1>2, <1>4, HoldsMonotone DEF Evaluate
<1>7. QED
  BY <1>5, <1>6 DEF u

\* Of exit actions it keeps all but the events of their parameters.
LEMMA WithoutEventsOK ==
    ASSUME NEW list, IsActionList(list)
    PROVE  /\ IsActionList(WithoutEvents(list))
           /\ Len(WithoutEvents(list)) = Len(list)
           /\ DOMAIN WithoutEvents(list) = DOMAIN list
           /\ \A i \in DOMAIN list : WithoutEvents(list)[i].device = list[i].device
           /\ WithoutEvents(WithoutEvents(list)) = WithoutEvents(list)
<1> DEFINE plain == WithoutEvents(list)
<1>1. plain = [i \in DOMAIN list |-> plain[i]]
  BY DEF WithoutEvents
<1>2. ASSUME NEW i \in DOMAIN list
      PROVE  /\ plain[i] \in RuleAction
             /\ plain[i].device = list[i].device
             /\ [plain[i] EXCEPT !.fromEvent = NoEvent] = plain[i]
  <2>1. list[i] \in RuleAction
    BY DEF IsActionList
  <2>2. plain[i] = [list[i] EXCEPT !.fromEvent = NoEvent]
    BY DEF WithoutEvents
  <2> HIDE DEF plain
  <2>3. QED
    BY <2>1, <2>2 DEF RuleAction
<1>3. DOMAIN plain = DOMAIN list
  BY DEF WithoutEvents
<1>4. WithoutEvents(plain) = plain
  BY <1>1, <1>2, <1>3, Zenon DEF WithoutEvents
<1> HIDE DEF plain
<1>5. plain \in Seq(RuleAction) /\ Len(plain) = Len(list)
  BY <1>1, <1>2, MappedSeq DEF IsActionList
<1>6. QED
  BY <1>2, <1>3, <1>4, <1>5 DEF plain, IsActionList

\* Keys of events that a former action of the same number left do not change what an
\* action does to which device.
LEMMA SavedActionsOK ==
    ASSUME NEW before, IsActionList(before), NEW list, IsActionList(list)
    PROVE  /\ IsActionList(SavedActions(before, list))
           /\ Len(SavedActions(before, list)) = Len(list)
           /\ DOMAIN SavedActions(before, list) = DOMAIN list
           /\ \A i \in DOMAIN list : SavedActions(before, list)[i].device = list[i].device
           /\ before = list => SavedActions(before, list) = list
<1> DEFINE mixed == SavedActions(before, list)
<1>1. mixed = [i \in DOMAIN list |-> mixed[i]] /\ DOMAIN mixed = DOMAIN list
  BY DEF SavedActions
<1>2. ASSUME NEW i \in DOMAIN list
      PROVE  /\ mixed[i] \in RuleAction
             /\ mixed[i].device = list[i].device
             /\ before = list => mixed[i] = list[i]
  <2>1. list[i] \in RuleAction /\ (i \in DOMAIN before => before[i] \in RuleAction)
    BY DEF IsActionList
  <2>2. \/ mixed[i] = list[i]
        \/ i \in DOMAIN before /\ mixed[i] = [list[i] EXCEPT !.fromEvent = before[i].fromEvent]
    BY DEF SavedActions
  <2> HIDE DEF mixed
  <2>3. QED
    BY <2>1, <2>2 DEF RuleAction
<1>3. before = list => mixed = list
  <2>1. list = [i \in DOMAIN list |-> list[i]]
    BY DEF IsActionList
  <2> HIDE DEF mixed
  <2>2. QED
    BY <1>1, <1>2, <2>1, Zenon
<1> HIDE DEF mixed
<1>4. mixed \in Seq(RuleAction) /\ Len(mixed) = Len(list)
  BY <1>1, <1>2, MappedSeq DEF IsActionList
<1>5. QED
  BY <1>1, <1>2, <1>3, <1>4 DEF mixed, IsActionList

\* The groups come in the order of their numbers as texts, up to the bound of GroupAt.
LEMMA GroupsSorted ==
    ASSUME NEW n \in 11..20, NEW i \in 0..(n - 1), NEW j \in 0..(n - 1), i < j
    PROVE  NumeralBefore(GroupAt(i, n), GroupAt(j, n))
BY DEF NumeralBefore, UnsignedBefore, Aligned, Places, GroupAt

\* The text order of the numbers of more than ten actions is an order of all of them
\* (childGroups).
LEMMA LoadedActionsOK ==
    ASSUME NEW list, IsActionList(list)
    PROVE  /\ IsActionList(LoadedActions(list))
           /\ Len(LoadedActions(list)) = Len(list)
           /\ \A i \in DOMAIN LoadedActions(list) : \E j \in DOMAIN list :
                LoadedActions(list)[i] = list[j]
           /\ \A j \in DOMAIN list : \E i \in DOMAIN LoadedActions(list) :
                LoadedActions(list)[i] = list[j]
           /\ AtMostTen(list) => LoadedActions(list) = list
<1>1. CASE AtMostTen(list)
  BY <1>1 DEF LoadedActions
<1>2. CASE ~AtMostTen(list)
  <2> DEFINE other == Reordered(list)
  <2>1. PICK n \in Nat : n = Len(list)
    BY DEF IsActionList
  <2>2. n > 10 /\ DOMAIN list = 1..n /\ LoadedActions(list) = other
    BY <1>2, <2>1 DEF AtMostTen, LoadedActions, IsActionList
  <2>3. \A i \in 1..n : other[i] = list[GroupAt(i - 1, n) + 1]
    BY <2>1, <2>2 DEF Reordered
  <2>4. other = [i \in DOMAIN list |-> other[i]] /\ DOMAIN other = 1..n
    BY <2>2 DEF Reordered
  <2> HIDE DEF other
  <2>5. ASSUME NEW i \in 1..n
        PROVE  GroupAt(i - 1, n) + 1 \in 1..n
    BY <2>2 DEF GroupAt
  <2>6. ASSUME NEW j \in 1..n
        PROVE  \E i \in 1..n : GroupAt(i - 1, n) + 1 = j
    <3>1. CASE j <= 2
      <4>1. GroupAt(j - 1, n) + 1 = j
        BY <3>1 DEF GroupAt
      <4>2. QED
        BY <4>1
    <3>2. CASE j > 10
      <4>1. j - 8 \in 1..n /\ GroupAt((j - 8) - 1, n) + 1 = j
        BY <2>2, <3>2 DEF GroupAt
      <4>2. QED
        BY <4>1
    <3>3. CASE j > 2 /\ j <= 10
      <4>1. j + (n - 10) \in 1..n /\ GroupAt((j + (n - 10)) - 1, n) + 1 = j
        BY <2>2, <3>3 DEF GroupAt
      <4>2. QED
        BY <4>1
    <3>4. QED
      BY <3>1, <3>2, <3>3
  <2>7. \A i \in DOMAIN other : \E j \in DOMAIN list : other[i] = list[j]
    BY <2>2, <2>3, <2>4, <2>5
  <2>8. \A j \in DOMAIN list : \E i \in DOMAIN other : other[i] = list[j]
    <3> SUFFICES ASSUME NEW j \in 1..n
                 PROVE  \E i \in 1..n : other[i] = list[j]
      BY <2>2, <2>4
    <3>1. PICK i \in 1..n : GroupAt(i - 1, n) + 1 = j
      BY <2>6
    <3>2. QED
      BY <2>3, <3>1
  <2>9. \A i \in DOMAIN list : other[i] \in RuleAction
    BY <2>2, <2>4, <2>7 DEF IsActionList
  <2>10. other \in Seq(RuleAction) /\ Len(other) = Len(list)
    BY <2>4, <2>9, MappedSeq DEF IsActionList
  <2>11. QED
    BY <1>2, <2>2, <2>7, <2>8, <2>10 DEF IsActionList
<1>3. QED
  BY <1>1, <1>2

\* Configurations with the same events and the same devices in their lists refer to the
\* same devices.
LEMMA SameReferences ==
    ASSUME NEW c, NEW s, s.events = c.events,
           {s.actions[i].device : i \in DOMAIN s.actions} =
                {c.actions[i].device : i \in DOMAIN c.actions},
           {s.exitActions[i].device : i \in DOMAIN s.exitActions} =
                {c.exitActions[i].device : i \in DOMAIN c.exitActions}
    PROVE  ReferencesOf(s) = ReferencesOf(c)
BY DEF ReferencesOf

\* What saveRule() writes, whatever was in the group, is a rule and the stored form of what
\* it was given.
LEMMA SavedOK ==
    ASSUME NEW c, IsConfig(c), NEW list, IsActionList(list), Len(list) = Len(c.actions),
           DOMAIN list = DOMAIN c.actions,
           \A i \in DOMAIN list : list[i].device = c.actions[i].device,
           AtMostTen(c.actions) => list = c.actions,
           NEW s, s = [Saved(c) EXCEPT !.actions = list]
    PROVE  IsConfig(s) /\ StoredAs(s, c)
<1>1. IsEvaluator(c.evaluator, StateDescriptors) /\ IsActionList(c.exitActions)
  BY DEF IsConfig
<1>2. /\ IsEvaluator(AsTexts(c.evaluator), StateDescriptors)
      /\ IsActionList(WithoutEvents(c.exitActions))
      /\ Len(WithoutEvents(c.exitActions)) = Len(c.exitActions)
      /\ DOMAIN WithoutEvents(c.exitActions) = DOMAIN c.exitActions
      /\ \A i \in DOMAIN c.exitActions :
            WithoutEvents(c.exitActions)[i].device = c.exitActions[i].device
  BY <1>1, AsTextsOK, WithoutEventsOK
<1>3. /\ DOMAIN s = ConfigFields
      /\ s.events = c.events
      /\ s.evaluator = AsTexts(c.evaluator)
      /\ s.actions = list
      /\ s.exitActions = WithoutEvents(c.exitActions)
      /\ s.enabled = c.enabled
      /\ s.executable = c.executable
  BY DEF Saved, IsConfig, ConfigFields
<1>4. IsConfig(s)
  BY <1>2, <1>3 DEF IsConfig
<1>5. ReferencesOf(s) = ReferencesOf(c)
  <2> DEFINE plain == WithoutEvents(c.exitActions)
  <2>1. {list[i].device : i \in DOMAIN list} = {c.actions[i].device : i \in DOMAIN c.actions}
    OBVIOUS
  <2>2. {plain[i].device : i \in DOMAIN plain} =
            {c.exitActions[i].device : i \in DOMAIN c.exitActions}
    BY <1>2
  <2>3. {s.actions[i].device : i \in DOMAIN s.actions} =
            {c.actions[i].device : i \in DOMAIN c.actions}
    BY <1>3, <2>1, Zenon
  <2>4. {s.exitActions[i].device : i \in DOMAIN s.exitActions} =
            {c.exitActions[i].device : i \in DOMAIN c.exitActions}
    BY <1>3, <2>2, ZenonT(40)
  <2>5. s.events = c.events
    BY <1>3
  <2>6. QED
    BY <2>3, <2>4, <2>5, Zenon DEF ReferencesOf
<1>6. StoredAs(s, c)
  BY <1>2, <1>3, <1>5 DEF StoredAs
<1>7. QED
  BY <1>4, <1>6

\* Saving into an empty group.
LEMMA SavedNew ==
    ASSUME NEW c, IsConfig(c)
    PROVE  IsConfig(Saved(c)) /\ StoredAs(Saved(c), c)
<1>1. IsActionList(c.actions)
  BY DEF IsConfig
<1>2. Saved(c) = [Saved(c) EXCEPT !.actions = c.actions]
  <2> DEFINE s == Saved(c)
  <2>1. s = [f \in ConfigFields |-> s[f]] /\ s.actions = c.actions
    BY DEF Saved, IsConfig, ConfigFields
  <2> HIDE DEF s
  <2>2. QED
    BY <2>1 DEF s
<1>3. QED
  BY <1>1, <1>2, SavedOK

\* Saving over the group of the rule.
LEMMA SavedOverOK ==
    ASSUME NEW file, NEW id, NEW c, IsConfig(c),
           id \in DOMAIN file => IsConfig(file[id]) /\ Len(file[id].actions) = Len(c.actions)
                                 /\ (AtMostTen(c.actions) => file[id].actions = c.actions)
    PROVE  IsConfig(SavedOver(file, id, c)) /\ StoredAs(SavedOver(file, id, c), c)
<1>1. CASE id \notin DOMAIN file
  BY <1>1, SavedNew DEF SavedOver
<1>2. CASE id \in DOMAIN file
  <2> DEFINE list == SavedActions(file[id].actions, c.actions)
  <2>1. IsActionList(c.actions) /\ IsActionList(file[id].actions)
    BY <1>2 DEF IsConfig
  <2>2. /\ IsActionList(list)
        /\ Len(list) = Len(c.actions)
        /\ DOMAIN list = DOMAIN c.actions
        /\ \A i \in DOMAIN list : list[i].device = c.actions[i].device
        /\ AtMostTen(c.actions) => list = c.actions
    BY <1>2, <2>1, SavedActionsOK
  <2>3. SavedOver(file, id, c) = [Saved(c) EXCEPT !.actions = list]
    <3> DEFINE s == Saved(c)
    <3>1. s.actions = c.actions /\ DOMAIN s = ConfigFields
      BY DEF Saved, IsConfig, ConfigFields
    <3>2. SavedOver(file, id, c) = [s EXCEPT !.actions = SavedActions(file[id].actions, @)]
      BY <1>2 DEF SavedOver
    <3> HIDE DEF s
    <3>3. QED
      BY <3>1, <3>2 DEF s
  <2> HIDE DEF list
  <2>4. QED
    BY <2>2, <2>3, SavedOK
<1>3. QED
  BY <1>1, <1>2

\* The stored form of a sound configuration is sound.
LEMMA StoredSound ==
    ASSUME NEW c, IsConfig(c), NEW s, StoredAs(s, c), NEW now, SoundIn(c, now)
    PROVE  SoundIn(s, now)
<1>1. IsEvaluator(c.evaluator, StateDescriptors)
  BY DEF IsConfig
<1>2. IsValid(AsTexts(c.evaluator), now)
  BY <1>1, AsTextsValid DEF SoundIn
<1>3. QED
  BY <1>2 DEF StoredAs, SoundIn

\* The constructor makes of the stored form of a rule a rule that has this stored form, as
\* sound as it, with the same events, flags and condition, and of ten actions or fewer the
\* same ones.
LEMMA LoadedOK ==
    ASSUME NEW c, IsConfig(c), NEW s, IsConfig(s), StoredAs(s, c), NEW l, l = Loaded(s)
    PROVE  /\ IsConfig(l)
           /\ StoredAs(s, l)
           /\ ReferencesOf(l) = ReferencesOf(s)
           /\ l.evaluator = s.evaluator
           /\ l.events = s.events /\ l.enabled = s.enabled /\ l.executable = s.executable
           /\ AtMostTen(c.actions) => l.actions = c.actions
           /\ AtMostTen(c.exitActions) => l.exitActions = WithoutEvents(c.exitActions)
<1>1. /\ IsActionList(s.actions) /\ IsActionList(s.exitActions)
      /\ IsActionList(c.actions) /\ IsActionList(c.exitActions)
      /\ IsEvaluator(c.evaluator, StateDescriptors)
  BY DEF IsConfig
<1>2. /\ DOMAIN l = ConfigFields
      /\ l.events = s.events
      /\ l.evaluator = s.evaluator
      /\ l.actions = LoadedActions(s.actions)
      /\ l.exitActions = LoadedActions(s.exitActions)
      /\ l.enabled = s.enabled
      /\ l.executable = s.executable
  BY DEF Loaded, IsConfig, ConfigFields
<1>3. /\ IsActionList(l.actions)
      /\ Len(l.actions) = Len(s.actions)
      /\ \A i \in DOMAIN l.actions : \E j \in DOMAIN s.actions : l.actions[i] = s.actions[j]
      /\ \A j \in DOMAIN s.actions : \E i \in DOMAIN l.actions : l.actions[i] = s.actions[j]
      /\ AtMostTen(s.actions) => l.actions = s.actions
  BY <1>1, <1>2, LoadedActionsOK
<1>4. /\ IsActionList(l.exitActions)
      /\ Len(l.exitActions) = Len(s.exitActions)
      /\ \A i \in DOMAIN l.exitActions :
            \E j \in DOMAIN s.exitActions : l.exitActions[i] = s.exitActions[j]
      /\ \A j \in DOMAIN s.exitActions :
            \E i \in DOMAIN l.exitActions : l.exitActions[i] = s.exitActions[j]
      /\ AtMostTen(s.exitActions) => l.exitActions = s.exitActions
  BY <1>1, <1>2, LoadedActionsOK
<1>5. /\ s.evaluator = AsTexts(c.evaluator)
      /\ Len(s.actions) = Len(c.actions)
      /\ Len(s.exitActions) = Len(c.exitActions)
      /\ AtMostTen(c.actions) => s.actions = c.actions
      /\ AtMostTen(c.exitActions) => s.exitActions = WithoutEvents(c.exitActions)
  BY DEF StoredAs
<1>6. /\ AtMostTen(c.actions) <=> AtMostTen(s.actions)
      /\ AtMostTen(c.exitActions) <=> AtMostTen(s.exitActions)
      /\ AtMostTen(l.actions) <=> AtMostTen(s.actions)
      /\ AtMostTen(l.exitActions) <=> AtMostTen(s.exitActions)
  BY <1>3, <1>4, <1>5 DEF AtMostTen
<1>7. IsConfig(l)
  BY <1>2, <1>3, <1>4 DEF IsConfig
<1>8. /\ {l.actions[i].device : i \in DOMAIN l.actions} =
            {s.actions[i].device : i \in DOMAIN s.actions}
      /\ {l.exitActions[i].device : i \in DOMAIN l.exitActions} =
            {s.exitActions[i].device : i \in DOMAIN s.exitActions}
  <2> DEFINE la == l.actions
             sa == s.actions
             le == l.exitActions
             se == s.exitActions
  <2>1. /\ \A i \in DOMAIN la : \E j \in DOMAIN sa : la[i] = sa[j]
        /\ \A j \in DOMAIN sa : \E i \in DOMAIN la : la[i] = sa[j]
        /\ \A i \in DOMAIN le : \E j \in DOMAIN se : le[i] = se[j]
        /\ \A j \in DOMAIN se : \E i \in DOMAIN le : le[i] = se[j]
    BY <1>3, <1>4
  <2> HIDE DEF la, sa, le, se
  <2>2. /\ {la[i].device : i \in DOMAIN la} = {sa[i].device : i \in DOMAIN sa}
        /\ {le[i].device : i \in DOMAIN le} = {se[i].device : i \in DOMAIN se}
    BY <2>1
  <2>3. QED
    BY <2>2 DEF la, sa, le, se
<1>9. ReferencesOf(l) = ReferencesOf(s)
  BY <1>2, <1>8, SameReferences, ZenonT(40)
<1>10. s.evaluator = AsTexts(l.evaluator)
  BY <1>1, <1>2, <1>5, AsTextsOK
<1>11. AtMostTen(l.exitActions) => s.exitActions = WithoutEvents(l.exitActions)
  BY <1>1, <1>4, <1>5, <1>6, WithoutEventsOK
<1>12. StoredAs(s, l)
  BY <1>2, <1>3, <1>4, <1>6, <1>9, <1>10, <1>11 DEF StoredAs
<1>13. QED
  BY <1>2, <1>3, <1>4, <1>5, <1>6, <1>7, <1>9, <1>12

-----------------------------------------------------------------------------
(* The inductive invariant.                                                *)

\* Rules that are sound in memory are sound in the settings file.
LEMMA SoundInFile ==
    ASSUME TypeOK', SettingsMatchRules',
           \A id \in DOMAIN m_rules' : SoundIn(m_rules'[id].config, states')
    PROVE  ReferencesConfigured'
<1>1. ASSUME NEW id \in DOMAIN settings'
      PROVE  SoundIn(settings'[id], states')
  <2>1. /\ id \in DOMAIN m_rules'
        /\ StoredAs(settings'[id], m_rules'[id].config)
    BY DEF SettingsMatchRules
  <2>2. IsConfig(m_rules'[id].config)
    BY <2>1 DEF TypeOK, IsRule
  <2>3. QED
    BY <2>1, <2>2, StoredSound
<1>2. QED
  BY <1>1 DEF ReferencesConfigured, Sound, SoundIn, Configured

\* A rule list that loses an id and gets it back at the end is as before, up
\* to its order (editRule).
LEMMA MovedToEnd ==
    ASSUME TypeOK, OrderMatchesRules, NEW id \in DOMAIN m_rules
    PROVE  LET moved == Append(IdsWithout(m_ruleIds, id), id)
           IN  /\ moved \in Seq(RuleIds)
               /\ \A i, j \in DOMAIN moved : moved[i] = moved[j] => i = j
               /\ Range(moved) = DOMAIN m_rules
<1>1. /\ IdsWithout(m_ruleIds, id) \in Seq(RuleIds)
      /\ \A i, j \in DOMAIN IdsWithout(m_ruleIds, id) :
            IdsWithout(m_ruleIds, id)[i] = IdsWithout(m_ruleIds, id)[j] => i = j
      /\ Range(IdsWithout(m_ruleIds, id)) = DOMAIN m_rules \ {id}
  BY IdsWithoutProperties DEF TypeOK, OrderMatchesRules
<1>2. id \in RuleIds /\ id \notin Range(IdsWithout(m_ruleIds, id))
  BY <1>1 DEF TypeOK
<1> DEFINE others == IdsWithout(m_ruleIds, id)
<1> HIDE DEF others
<1>3. /\ Append(others, id) \in Seq(RuleIds)
      /\ \A i, j \in DOMAIN Append(others, id) :
            Append(others, id)[i] = Append(others, id)[j] => i = j
      /\ Range(Append(others, id)) = Range(others) \cup {id}
  BY <1>1, <1>2, AppendFresh DEF others
<1>4. Range(others) \cup {id} = DOMAIN m_rules
  BY <1>1 DEF others
<1>5. QED
  BY <1>3, <1>4 DEF others

\* The first start: no rule in memory, none in the settings.
LEMMA InitInv == Init => Inv
<1> SUFFICES ASSUME Init PROVE Inv
  OBVIOUS
<1>1. TypeOK
  <2>1. states \in DeviceStates(DeviceIds)
    BY DEF Init
  <2>2. Configured = DeviceIds /\ \A d \in DeviceIds : DOMAIN states[d] = StateTypesOf[d]
    BY <2>1 DEF DeviceStates, Configured
  <2>3. QED
    BY <2>2 DEF Init, TypeOK
<1>2. OrderMatchesRules
  BY DEF Init, OrderMatchesRules, Range
<1>3. SettingsMatchRules /\ ActiveRulesCanLeave /\ ReferencesConfigured
  BY DEF Init, SettingsMatchRules, ActiveRulesCanLeave, ReferencesConfigured
<1>4. QED
  BY <1>1, <1>2, <1>3 DEF Inv

\* A new rule enters the order, the hash and the settings together.
LEMMA AddRuleInv ==
    ASSUME Inv, NEW id \in RuleIds, NEW c \in Configs, AddRule(id, c)
    PROVE  Inv'
<1> USE DEF Inv
<1>1. /\ IsConfig(c) /\ IsRule(NewRule(c)) /\ NewRule(c).config = c /\ ~NewRule(c).active
      /\ IsConfig(Saved(c)) /\ StoredAs(Saved(c), c)
  BY ConfigsAssumption, SavedNew DEF NewRule, IsRule
<1>2. /\ m_ruleIds' \in Seq(RuleIds)
      /\ \A i, j \in DOMAIN m_ruleIds' : m_ruleIds'[i] = m_ruleIds'[j] => i = j
      /\ Range(m_ruleIds') = DOMAIN m_rules \cup {id}
  BY AppendFresh DEF AddRule, TypeOK, OrderMatchesRules
<1>3. /\ DOMAIN m_rules' = DOMAIN m_rules \cup {id}
      /\ m_rules'[id] = NewRule(c)
      /\ \A i \in DOMAIN m_rules \ {id} : m_rules'[i] = m_rules[i]
      /\ DOMAIN settings' = DOMAIN settings \cup {id}
      /\ settings'[id] = Saved(c)
      /\ \A i \in DOMAIN settings \ {id} : settings'[i] = settings[i]
      /\ UNCHANGED states
  BY DEF AddRule, With
<1>4. TypeOK'
  BY <1>1, <1>2, <1>3 DEF AddRule, TypeOK, Configured
<1>5. OrderMatchesRules'
  BY <1>2, <1>3 DEF OrderMatchesRules
<1>6. SettingsMatchRules'
  BY <1>1, <1>3 DEF SettingsMatchRules
<1>7. ActiveRulesCanLeave'
  BY <1>1, <1>3 DEF AddRule, ActiveRulesCanLeave
<1>8. ReferencesConfigured'
  <2>1. SoundIn(c, states)
    BY CanAddReferences DEF AddRule, Submittable, SoundIn, Configured
  <2>2. \A i \in DOMAIN m_rules' : SoundIn(m_rules'[i].config, states')
    BY <1>1, <1>3, <2>1 DEF ReferencesConfigured, Sound, SoundIn, Configured
  <2>3. QED
    BY <1>4, <1>6, <2>2, SoundInFile
<1>9. QED
  BY <1>4, <1>5, <1>6, <1>7, <1>8

\* Editing moves the rule to the end and makes it a new, inactive one.
LEMMA EditRuleInv ==
    ASSUME Inv, NEW id \in RuleIds, NEW c \in Configs, EditRule(id, c)
    PROVE  Inv'
<1> USE DEF Inv
<1>1. /\ IsConfig(c) /\ IsRule(NewRule(c)) /\ NewRule(c).config = c /\ ~NewRule(c).active
      /\ IsConfig(Saved(c)) /\ StoredAs(Saved(c), c)
  BY ConfigsAssumption, SavedNew DEF NewRule, IsRule
<1>2. /\ m_ruleIds' \in Seq(RuleIds)
      /\ \A i, j \in DOMAIN m_ruleIds' : m_ruleIds'[i] = m_ruleIds'[j] => i = j
      /\ Range(m_ruleIds') = DOMAIN m_rules
  BY MovedToEnd DEF EditRule
<1>3. /\ DOMAIN m_rules' = DOMAIN m_rules
      /\ m_rules'[id] = NewRule(c)
      /\ \A i \in DOMAIN m_rules \ {id} : m_rules'[i] = m_rules[i]
      /\ DOMAIN settings' = DOMAIN settings \cup {id}
      /\ settings'[id] = Saved(c)
      /\ \A i \in DOMAIN settings \ {id} : settings'[i] = settings[i]
      /\ UNCHANGED states
  BY DEF EditRule, With
<1>4. TypeOK'
  BY <1>1, <1>2, <1>3 DEF EditRule, TypeOK, Configured
<1>5. OrderMatchesRules'
  BY <1>2, <1>3 DEF OrderMatchesRules
<1>6. SettingsMatchRules'
  BY <1>1, <1>3 DEF EditRule, SettingsMatchRules
<1>7. ActiveRulesCanLeave'
  BY <1>1, <1>3 DEF EditRule, ActiveRulesCanLeave
<1>8. ReferencesConfigured'
  <2>1. SoundIn(c, states)
    BY CanAddReferences DEF EditRule, Submittable, SoundIn, Configured
  <2>2. \A i \in DOMAIN m_rules' : SoundIn(m_rules'[i].config, states')
    BY <1>1, <1>3, <2>1 DEF ReferencesConfigured, Sound, SoundIn, Configured
  <2>3. QED
    BY <1>4, <1>6, <2>2, SoundInFile
<1>9. QED
  BY <1>4, <1>5, <1>6, <1>7, <1>8

\* A failed edit loses the stored copy, never the order or the hash.
LEMMA EditRuleFailsInv ==
    ASSUME Inv, NEW id \in RuleIds, NEW c \in Configs, EditRuleFails(id, c)
    PROVE  Inv'
<1> USE DEF Inv
<1>1. /\ m_ruleIds' \in Seq(RuleIds)
      /\ \A i, j \in DOMAIN m_ruleIds' : m_ruleIds'[i] = m_ruleIds'[j] => i = j
      /\ Range(m_ruleIds') = DOMAIN m_rules
  BY MovedToEnd DEF EditRuleFails
<1>2. /\ DOMAIN settings' = DOMAIN settings \ {id}
      /\ \A i \in DOMAIN settings' : settings'[i] = settings[i]
      /\ UNCHANGED <<m_rules, m_activeRules, states>>
  BY DEF EditRuleFails, Without, Restrict
<1>3. TypeOK'
  BY <1>1, <1>2 DEF TypeOK, Configured
<1>4. OrderMatchesRules'
  BY <1>1, <1>2 DEF OrderMatchesRules
<1>5. SettingsMatchRules'
  BY <1>2 DEF SettingsMatchRules
<1>6. ActiveRulesCanLeave'
  BY <1>2 DEF ActiveRulesCanLeave
<1>7. ReferencesConfigured'
  BY <1>2 DEF ReferencesConfigured, Sound, Configured
<1>8. QED
  BY <1>3, <1>4, <1>5, <1>6, <1>7

\* A removed rule leaves the order, the hash and the settings together.
LEMMA RemoveRuleInv ==
    ASSUME Inv, NEW id \in RuleIds, RemoveRule(id)
    PROVE  Inv'
<1> USE DEF Inv
<1>1. /\ m_ruleIds' \in Seq(RuleIds)
      /\ \A i, j \in DOMAIN m_ruleIds' : m_ruleIds'[i] = m_ruleIds'[j] => i = j
      /\ Range(m_ruleIds') = DOMAIN m_rules \ {id}
  BY IdsWithoutProperties DEF RemoveRule, TypeOK, OrderMatchesRules
<1>2. /\ DOMAIN m_rules' = DOMAIN m_rules \ {id}
      /\ \A i \in DOMAIN m_rules' : m_rules'[i] = m_rules[i]
      /\ DOMAIN settings' = DOMAIN settings \ {id}
      /\ \A i \in DOMAIN settings' : settings'[i] = settings[i]
      /\ UNCHANGED <<m_activeRules, states>>
  BY DEF RemoveRule, Without, Restrict
<1>3. TypeOK'
  BY <1>1, <1>2 DEF TypeOK, Configured
<1>4. OrderMatchesRules'
  BY <1>1, <1>2 DEF OrderMatchesRules
<1>5. SettingsMatchRules'
  BY <1>2 DEF SettingsMatchRules
<1>6. ActiveRulesCanLeave'
  BY <1>2 DEF ActiveRulesCanLeave
<1>7. ReferencesConfigured'
  BY <1>2 DEF ReferencesConfigured, Sound, Configured
<1>8. QED
  BY <1>3, <1>4, <1>5, <1>6, <1>7

\* Enabling or disabling writes the same configuration to memory and disk.
LEMMA SetEnabledInv ==
    ASSUME Inv, NEW id \in RuleIds, NEW on \in BOOLEAN, SetEnabled(id, on)
    PROVE  Inv'
<1> USE DEF Inv
<1> DEFINE c == [m_rules[id].config EXCEPT !.enabled = on]
<1>1. id \in DOMAIN m_rules /\ IsRule(m_rules[id]) /\ IsConfig(m_rules[id].config)
  BY DEF SetEnabled, TypeOK, IsRule
<1>2. /\ IsConfig(c)
      /\ ReferencesOf(c) = ReferencesOf(m_rules[id].config)
      /\ c.events = m_rules[id].config.events
      /\ c.evaluator = m_rules[id].config.evaluator
      /\ c.actions = m_rules[id].config.actions
  BY <1>1, ConfigEnabledOK
<1> DEFINE s == SavedOver(settings, id, c)
<1>3. /\ m_rules' = [m_rules EXCEPT ![id].config = c]
      /\ settings' = With(settings, id, s)
      /\ UNCHANGED <<m_ruleIds, m_activeRules, states>>
  BY DEF SetEnabled
<1> HIDE DEF c
<1>12. IsConfig(s) /\ StoredAs(s, c)
  <2>1. id \in DOMAIN settings =>
            /\ IsConfig(settings[id])
            /\ Len(settings[id].actions) = Len(c.actions)
            /\ AtMostTen(c.actions) => settings[id].actions = c.actions
    BY <1>2 DEF TypeOK, SettingsMatchRules, StoredAs
  <2>2. QED
    BY <1>2, <2>1, SavedOverOK
<1> HIDE DEF s
<1>4. /\ DOMAIN m_rules' = DOMAIN m_rules
      /\ IsRule(m_rules'[id]) /\ m_rules'[id].config = c
      /\ m_rules'[id].active = m_rules[id].active
      /\ \A i \in DOMAIN m_rules \ {id} : m_rules'[i] = m_rules[i]
  BY <1>1, <1>2, <1>3 DEF IsRule
<1>5. /\ DOMAIN settings' = DOMAIN settings \cup {id}
      /\ settings'[id] = s
      /\ \A i \in DOMAIN settings \ {id} : settings'[i] = settings[i]
  BY <1>3 DEF With
<1>6. TypeOK'
  BY <1>1, <1>2, <1>3, <1>4, <1>5, <1>12 DEF TypeOK, Configured
<1>7. OrderMatchesRules'
  BY <1>3, <1>4 DEF OrderMatchesRules
<1>8. SettingsMatchRules'
  BY <1>1, <1>4, <1>5, <1>12 DEF SettingsMatchRules
<1>9. ActiveRulesCanLeave'
  BY <1>1, <1>2, <1>3, <1>4 DEF ActiveRulesCanLeave, StateBased
<1>10. ReferencesConfigured'
  <2>1. \A i \in DOMAIN m_rules' : SoundIn(m_rules'[i].config, states')
    BY <1>1, <1>2, <1>3, <1>4 DEF ReferencesConfigured, Sound, SoundIn, Configured
  <2>2. QED
    BY <1>6, <1>8, <2>1, SoundInFile
<1>11. QED
  BY <1>6, <1>7, <1>8, <1>9, <1>10

\* A rule that loses a device is written back to memory and disk alike.
LEMMA RemoveDeviceFromRuleInv ==
    ASSUME Inv, NEW id \in RuleIds, NEW d, RemoveDeviceFromRule(id, d)
    PROVE  Inv'
<1> USE DEF Inv
<1> DEFINE c == ConfigWithoutDevice(m_rules[id].config, d)
<1>1. id \in DOMAIN m_rules /\ IsConfig(m_rules[id].config)
  BY DEF RemoveDeviceFromRule, TypeOK, IsRule
<1>2. /\ IsConfig(c)
      /\ ReferencesOf(c) \subseteq ReferencesOf(m_rules[id].config)
      /\ IsConfig(Saved(c)) /\ StoredAs(Saved(c), c)
      /\ c.evaluator = WithoutDevice(m_rules[id].config.evaluator, d)
  BY <1>1, ConfigWithoutDeviceOK, SavedNew DEF ConfigWithoutDevice
<1>3. /\ m_rules' = With(m_rules, id, NewRule(c))
      /\ settings' = With(settings, id, Saved(c))
      /\ UNCHANGED <<m_ruleIds, m_activeRules, states>>
  BY DEF RemoveDeviceFromRule
<1> HIDE DEF c
<1>4. IsRule(NewRule(c)) /\ NewRule(c).config = c /\ ~NewRule(c).active
  BY <1>2 DEF NewRule, IsRule
<1>5. /\ DOMAIN m_rules' = DOMAIN m_rules
      /\ m_rules'[id] = NewRule(c)
      /\ \A i \in DOMAIN m_rules \ {id} : m_rules'[i] = m_rules[i]
      /\ DOMAIN settings' = DOMAIN settings \cup {id}
      /\ settings'[id] = Saved(c)
      /\ \A i \in DOMAIN settings \ {id} : settings'[i] = settings[i]
  BY <1>1, <1>3 DEF With
<1>6. TypeOK'
  BY <1>2, <1>3, <1>4, <1>5 DEF TypeOK, Configured
<1>7. OrderMatchesRules'
  BY <1>3, <1>5 DEF OrderMatchesRules
<1>8. SettingsMatchRules'
  BY <1>1, <1>2, <1>4, <1>5 DEF SettingsMatchRules
<1>9. ActiveRulesCanLeave'
  BY <1>3, <1>4, <1>5 DEF ActiveRulesCanLeave
<1>10. ReferencesConfigured'
  <2>1. Condition(m_rules[id].config.evaluator)
    BY <1>1, EvaluatorIsCondition DEF IsConfig
  <2>2. SoundIn(c, states)
    BY <1>1, <1>2, <2>1, WithoutDeviceWeaker DEF ReferencesConfigured, Sound, SoundIn, Configured
  <2>3. \A i \in DOMAIN m_rules' : SoundIn(m_rules'[i].config, states')
    BY <1>3, <1>4, <1>5, <2>2 DEF ReferencesConfigured, Sound, SoundIn, Configured
  <2>4. QED
    BY <1>6, <1>8, <2>3, SoundInFile
<1>11. QED
  BY <1>6, <1>7, <1>8, <1>9, <1>10

\* The bookkeeping of an event keeps the flags of the rules and the list of
\* active rules in step; entering and leaving exclude each other.
LEMMA EvaluateEventInv ==
    ASSUME Inv, NEW event, NEW now, EvaluateEvent(event, now),
           DOMAIN states' = DOMAIN states,
           \A d \in DOMAIN states : DOMAIN states'[d] = DOMAIN states[d]
    PROVE  Inv'
<1> USE DEF Inv
<1> DEFINE entering == Entering(event, now)
           leaving  == Leaving(event, now)
<1>1. /\ entering \subseteq DOMAIN m_rules
      /\ \A id \in entering : StateBased(m_rules[id].config) /\ id \notin leaving
  BY DEF Entering, Leaving
<1>2. /\ m_rules' = [id \in DOMAIN m_rules |->
                        IF id \in entering THEN [m_rules[id] EXCEPT !.active = TRUE]
                        ELSE IF id \in leaving THEN [m_rules[id] EXCEPT !.active = FALSE]
                        ELSE m_rules[id]]
      /\ m_activeRules' = (m_activeRules \cup entering) \ leaving
      /\ UNCHANGED <<m_ruleIds, settings>>
  BY DEF EvaluateEvent
<1> HIDE DEF entering, leaving
<1>3. ASSUME NEW id \in DOMAIN m_rules
      PROVE  /\ IsRule(m_rules'[id])
             /\ m_rules'[id].config = m_rules[id].config
             /\ m_rules'[id].active =>
                    id \in entering \/ (id \notin leaving /\ m_rules[id].active)
  <2>1. IsRule(m_rules[id])
    BY DEF TypeOK
  <2>2. CASE id \in entering
    <3>1. m_rules'[id] = [m_rules[id] EXCEPT !.active = TRUE]
      BY <1>2, <2>2
    <3>2. QED
      BY <2>1, <2>2, <3>1 DEF IsRule
  <2>3. CASE id \notin entering /\ id \in leaving
    <3>1. m_rules'[id] = [m_rules[id] EXCEPT !.active = FALSE]
      BY <1>2, <2>3
    <3>2. QED
      BY <2>1, <2>3, <3>1 DEF IsRule
  <2>4. CASE id \notin entering /\ id \notin leaving
    BY <1>2, <2>1, <2>4
  <2>5. QED
    BY <2>2, <2>3, <2>4
<1>4. DOMAIN m_rules' = DOMAIN m_rules
  BY <1>2
<1>5. TypeOK'
  BY <1>1, <1>2, <1>3, <1>4 DEF TypeOK, Configured
<1>6. OrderMatchesRules'
  BY <1>2, <1>4 DEF OrderMatchesRules
<1>7. SettingsMatchRules'
  BY <1>2, <1>3, <1>4 DEF SettingsMatchRules
<1>8. ActiveRulesCanLeave'
  <2>1. ASSUME NEW id \in DOMAIN m_rules, m_rules'[id].active
        PROVE  id \in m_activeRules' /\ StateBased(m_rules[id].config)
    BY <1>1, <1>2, <1>3, <2>1 DEF ActiveRulesCanLeave
  <2>2. QED
    BY <1>3, <1>4, <2>1 DEF ActiveRulesCanLeave, StateBased
<1>9. ReferencesConfigured'
  <2>1. ASSUME NEW id \in DOMAIN m_rules
        PROVE  SoundIn(m_rules'[id].config, states')
    <3>1. SoundIn(m_rules[id].config, states)
      BY DEF ReferencesConfigured, Sound, SoundIn, Configured
    <3>2. \A t : IsValid(t, states') = IsValid(t, states)
      BY IsValidLocal
    <3>3. QED
      BY <1>3, <3>1, <3>2 DEF SoundIn
  <2>2. QED
    BY <1>4, <1>5, <1>7, <2>1, SoundInFile
<1>10. QED
  BY <1>5, <1>6, <1>7, <1>8, <1>9

\* A device no rule refers to can go; the settings hold nothing else.
LEMMA DeviceRemovedInv ==
    ASSUME Inv, NEW d \in Configured, DeviceRemoved(d)
    PROVE  Inv'
<1> USE DEF Inv
<1>1. /\ DOMAIN states' = DOMAIN states \ {d}
      /\ \A e \in DOMAIN states' : states'[e] = states[e]
      /\ UNCHANGED engineVars
  BY DEF DeviceRemoved, Without, Restrict
<1>2. ASSUME NEW id \in DOMAIN m_rules
      PROVE  /\ d \notin ReferencesOf(m_rules[id].config)
             /\ ~ContainsDevice(m_rules[id].config.evaluator, d)
  BY DEF DeviceRemoved, FindRules, ActionsOn, ReferencesOf
<1>3. TypeOK'
  BY <1>1 DEF TypeOK, engineVars, Configured
<1>4. OrderMatchesRules' /\ SettingsMatchRules' /\ ActiveRulesCanLeave'
  BY <1>1 DEF engineVars, OrderMatchesRules, SettingsMatchRules, ActiveRulesCanLeave
<1>5. ReferencesConfigured'
  <2>1. ASSUME NEW id \in DOMAIN m_rules
        PROVE  SoundIn(m_rules[id].config, states')
    <3>1. SoundIn(m_rules[id].config, states)
      BY DEF ReferencesConfigured, Sound, SoundIn, Configured
    <3>2. IsValid(m_rules[id].config.evaluator, states') =
            IsValid(m_rules[id].config.evaluator, states)
      BY <1>1, <1>2, IsValidWithout, ZenonT(40)
    <3>3. QED
      BY <1>1, <1>2, <3>1, <3>2 DEF SoundIn
  <2>2. QED
    BY <1>1, <1>3, <1>4, <2>1, SoundInFile DEF engineVars
<1>6. QED
  BY <1>3, <1>4, <1>5

\* Loading rules of the settings file gives a sound engine again.
LEMMA LoadFromInv ==
    ASSUME Inv, NEW stored, LoadFrom(stored),
           DOMAIN stored \subseteq DOMAIN settings,
           \A id \in DOMAIN stored : stored[id] = settings[id]
    PROVE  Inv'
<1> USE DEF Inv
<1>1. /\ settings' = stored /\ m_activeRules' = {}
      /\ DOMAIN m_rules' = DOMAIN stored
      /\ \A id \in DOMAIN stored : m_rules'[id] = NewRule(Loaded(stored[id]))
  BY DEF LoadFrom
<1>13. /\ DOMAIN states' = DOMAIN states
       /\ \A d \in DOMAIN states : DOMAIN states'[d] = DOMAIN states[d]
  <2>1. states' \in DeviceStates(Configured)
    BY DEF LoadFrom
  <2>2. DOMAIN states' = Configured
        /\ \A d \in Configured : DOMAIN states'[d] = StateTypesOf[d]
    BY <2>1 DEF DeviceStates
  <2>3. QED
    BY <2>2 DEF TypeOK, Configured
<1>2. ASSUME NEW id \in DOMAIN stored
      PROVE  /\ id \in RuleIds /\ IsConfig(stored[id])
             /\ IsRule(m_rules'[id])
             /\ m_rules'[id].config = Loaded(stored[id]) /\ ~m_rules'[id].active
             /\ StoredAs(stored[id], Loaded(stored[id]))
             /\ SoundIn(Loaded(stored[id]), states')
  <2> DEFINE c == m_rules[id].config
             s == stored[id]
             l == Loaded(s)
  <2>1. id \in RuleIds /\ IsConfig(s) /\ id \in DOMAIN m_rules
    BY DEF TypeOK, SettingsMatchRules
  <2>2. IsConfig(c) /\ StoredAs(s, c)
    BY <2>1 DEF TypeOK, IsRule, SettingsMatchRules
  <2>3. m_rules'[id] = NewRule(l)
    BY <1>1
  <2>4. ReferencesOf(s) \subseteq DOMAIN states /\ IsValid(s.evaluator, states)
    BY DEF ReferencesConfigured, Sound, Configured
  <2> HIDE DEF c, s, l
  <2>5. /\ IsConfig(l)
        /\ StoredAs(s, l)
        /\ ReferencesOf(l) = ReferencesOf(s)
        /\ l.evaluator = s.evaluator
    <3>1. l = Loaded(s)
      BY DEF l
    <3>2. QED
      BY <2>1, <2>2, <3>1, LoadedOK
  <2>6. IsValid(l.evaluator, states')
    BY <1>13, <2>4, <2>5, IsValidLocal
  <2>7. SoundIn(l, states')
    BY <1>13, <2>4, <2>5, <2>6 DEF SoundIn
  <2>8. IsRule(m_rules'[id]) /\ m_rules'[id].config = l /\ ~m_rules'[id].active
    BY <2>3, <2>5 DEF NewRule, IsRule
  <2>9. QED
    BY <2>1, <2>5, <2>7, <2>8 DEF s, l
<1>3. Cardinality(DOMAIN stored) \in Nat
  <2>1. IsFiniteSet(DOMAIN m_rules)
    BY FiniteRange DEF TypeOK, OrderMatchesRules
  <2>2. DOMAIN stored \subseteq DOMAIN m_rules
    BY DEF SettingsMatchRules
  <2>3. QED
    BY <2>1, <2>2, FS_Subset, FS_CardinalityType
<1> DEFINE n == Cardinality(DOMAIN stored)
<1>4. /\ m_ruleIds' \in [1..n -> DOMAIN stored]
      /\ Range(m_ruleIds') = DOMAIN stored
      /\ \A i, j \in DOMAIN m_ruleIds' : i < j => m_ruleIds'[i] < m_ruleIds'[j]
  BY DEF LoadFrom
<1> HIDE DEF n
<1>5. n \in Nat
  BY <1>3 DEF n
<1>6. m_ruleIds' \in Seq(RuleIds)
  BY <1>2, <1>4, <1>5
<1>7. TypeOK'
  BY <1>1, <1>2, <1>6, <1>13 DEF TypeOK, Configured
<1>8. OrderMatchesRules'
  <2>1. ASSUME NEW i \in 1..n, NEW j \in 1..n, i < j PROVE m_ruleIds'[i] # m_ruleIds'[j]
    <3>1. m_ruleIds'[i] \in Nat /\ m_ruleIds'[j] \in Nat
      BY <1>2, <1>4, RuleIdsAssumption
    <3>2. m_ruleIds'[i] < m_ruleIds'[j]
      BY <1>4, <2>1
    <3>3. QED
      BY <3>1, <3>2
  <2>2. \A i, j \in 1..n : m_ruleIds'[i] = m_ruleIds'[j] => i = j
    BY <1>5, <2>1
  <2>3. QED
    BY <1>1, <1>4, <2>2 DEF OrderMatchesRules
<1>9. SettingsMatchRules'
  BY <1>1, <1>2 DEF SettingsMatchRules
<1>10. ActiveRulesCanLeave'
  BY <1>1, <1>2 DEF ActiveRulesCanLeave
<1>11. ReferencesConfigured'
  BY <1>1, <1>2, <1>7, <1>9, SoundInFile
<1>12. QED
  BY <1>7, <1>8, <1>9, <1>10, <1>11

-----------------------------------------------------------------------------
(* The theorems.                                                           *)

\* Every operation of the engine, every event and every start keeps it sound.
THEOREM InvInductive == Inv /\ [Next]_vars => Inv'
<1> SUFFICES ASSUME Inv, [Next]_vars PROVE Inv'
  OBVIOUS
<1>1. ASSUME NEW id \in RuleIds, NEW c \in Configs, AddRule(id, c) PROVE Inv'
  BY <1>1, AddRuleInv
<1>2. ASSUME NEW id \in RuleIds, NEW c \in Configs, EditRule(id, c) PROVE Inv'
  BY <1>2, EditRuleInv
<1>3. ASSUME NEW id \in RuleIds, NEW c \in Configs, EditRuleFails(id, c) PROVE Inv'
  BY <1>3, EditRuleFailsInv
<1>4. ASSUME NEW id \in RuleIds, RemoveRule(id) PROVE Inv'
  BY <1>4, RemoveRuleInv
<1>5. ASSUME NEW id \in RuleIds, EnableRule(id) \/ DisableRule(id) PROVE Inv'
  BY <1>5, SetEnabledInv DEF EnableRule, DisableRule
<1>6. ASSUME NEW id \in RuleIds, CrashInEdit(id) PROVE Inv'
  BY <1>6, LoadFromInv DEF CrashInEdit, Without, Restrict
<1>7. ASSUME NEW id \in RuleIds, NEW d \in Configured, RemoveDeviceFromRule(id, d)
      PROVE  Inv'
  BY <1>7, RemoveDeviceFromRuleInv
<1>8. ASSUME NEW d \in Configured, NEW s \in StateTypesOf[d], NEW v \in Values,
             StateChange(d, s, v)
      PROVE  Inv'
  <2>1. /\ DOMAIN states' = DOMAIN states
        /\ \A e \in DOMAIN states : DOMAIN states'[e] = DOMAIN states[e]
    BY <1>8 DEF StateChange
  <2>2. QED
    BY <1>8, <2>1, EvaluateEventInv DEF StateChange
<1>9. ASSUME NEW d \in Configured, NEW e \in EventTypesOf[d], DeviceEvent(d, e)
      PROVE  Inv'
  BY <1>9, EvaluateEventInv DEF DeviceEvent
<1>10. ASSUME NEW d \in Configured, DeviceRemoved(d) PROVE Inv'
  BY <1>10, DeviceRemovedInv
<1>11. CASE Restart
  BY <1>11, LoadFromInv DEF Restart
<1>12. CASE UNCHANGED vars
  BY <1>12 DEF vars, engineVars, Inv, TypeOK, OrderMatchesRules, SettingsMatchRules,
               ActiveRulesCanLeave, ReferencesConfigured, Sound, Configured
<1>13. QED
  BY <1>1, <1>2, <1>3, <1>4, <1>5, <1>6, <1>7, <1>8, <1>9, <1>10, <1>11, <1>12 DEF Next

\* Every reachable state of the engine is sound, whatever the rules, the
\* devices and the configurations clients submit.
THEOREM Invariance == Spec => []Inv
BY InitInv, InvInductive, PTL DEF Spec

\* The types of the engine's state.
THEOREM TypeCorrectness == Spec => []TypeOK
BY Invariance, PTL DEF Inv

\* The evaluation order names each rule exactly once.
THEOREM OrderCorrect == Spec => []OrderMatchesRules
BY Invariance, PTL DEF Inv

\* The settings file holds the stored form of what is in memory and nothing else: where
\* saving loses something or writes over what was there, it says what is left.
THEOREM SettingsCorrect == Spec => []SettingsMatchRules
BY Invariance, PTL DEF Inv

\* The hash, the evaluation order and the settings file agree on the rules.
THEOREM ListsAndFileCorrect == Spec => []ListsAndFileAgree
BY Invariance, PTL DEF Inv, ListsAndFileAgree

\* A rule shown as active can leave.
THEOREM ActiveCorrect == Spec => []ActiveRulesCanLeave
BY Invariance, PTL DEF Inv

\* No rule keeps an event descriptor or action of a device that is gone, and the condition
\* of none comes to depend on one.
THEOREM ReferencesCorrect == Spec => []ReferencesConfigured
BY Invariance, PTL DEF Inv

\* A start brings back only what was there: the same events and flags, up to ten actions as
\* they were and exit actions without their events, and a condition that decides as before
\* unless it asks for the greater of two values (from SettingsMatchRules, whatever the
\* crash point).
THEOREM RestartCorrect == Spec => RestartFaithful
<1>1. Inv /\ [Next]_vars =>
        [Starting => \A id \in DOMAIN m_rules' :
            /\ id \in DOMAIN m_rules
            /\ ComesBackAs(m_rules[id].config, m_rules'[id].config)]_vars
  <2> SUFFICES ASSUME Inv, Starting, NEW id \in DOMAIN m_rules'
               PROVE  /\ id \in DOMAIN m_rules
                      /\ ComesBackAs(m_rules[id].config, m_rules'[id].config)
    OBVIOUS
  <2>1. PICK stored :
            /\ LoadFrom(stored)
            /\ DOMAIN stored \subseteq DOMAIN settings
            /\ \A i \in DOMAIN stored : stored[i] = settings[i]
    <3>1. CASE Restart
      BY <3>1 DEF Restart
    <3>2. CASE \E i \in DOMAIN m_rules : CrashInEdit(i)
      <4>1. PICK i \in DOMAIN m_rules : LoadFrom(Without(settings, i))
        BY <3>2 DEF CrashInEdit
      <4>2. /\ DOMAIN Without(settings, i) \subseteq DOMAIN settings
            /\ \A j \in DOMAIN Without(settings, i) : Without(settings, i)[j] = settings[j]
        BY DEF Without, Restrict
      <4>3. QED
        BY <4>1, <4>2
    <3>3. QED
      BY <3>1, <3>2 DEF Starting
  <2> DEFINE c == m_rules[id].config
             s == settings[id]
             l == m_rules'[id].config
  <2>2. id \in DOMAIN settings /\ l = Loaded(s)
    BY <2>1 DEF LoadFrom, NewRule
  <2>3. id \in DOMAIN m_rules /\ IsConfig(c) /\ IsConfig(s) /\ StoredAs(s, c)
    BY <2>2 DEF Inv, TypeOK, IsRule, SettingsMatchRules
  <2> HIDE DEF c, s, l
  <2>4. /\ l.evaluator = s.evaluator
        /\ l.events = s.events /\ l.enabled = s.enabled /\ l.executable = s.executable
        /\ AtMostTen(c.actions) => l.actions = c.actions
        /\ AtMostTen(c.exitActions) => l.exitActions = WithoutEvents(c.exitActions)
    BY <2>2, <2>3, LoadedOK
  <2>5. /\ s.events = c.events /\ s.enabled = c.enabled /\ s.executable = c.executable
        /\ s.evaluator = AsTexts(c.evaluator)
        /\ IsEvaluator(c.evaluator, StateDescriptors)
    BY <2>3 DEF StoredAs, IsConfig
  <2>6. ~OrdersValues(c.evaluator) =>
            (Evaluate(l.evaluator, states') <=> Evaluate(c.evaluator, states'))
    BY <2>4, <2>5, AsTextsDecides
  <2>7. ComesBackAs(c, l)
    BY <2>4, <2>5, <2>6 DEF ComesBackAs
  <2>8. QED
    BY <2>3, <2>7 DEF c, l
<1>2. QED
  BY <1>1, Invariance, PTL DEF Spec, RestartFaithful

\* A new value of a state changes no condition that containsState() does not find.
LEMMA UnconcernedByState ==
    ASSUME NEW t, NEW d \in Configured, NEW s \in StateTypesOf[d], NEW v,
           ~ContainsState(t, s), states' = [states EXCEPT ![d][s] = v]
    PROVE  Evaluate(t, states') = Evaluate(t, states)
<1>1. d \in DOMAIN states
  BY DEF Configured
<1>2. QED
  BY <1>1, OtherStateUnconcerned

\* A device that findRules() finds no rule of changes no condition when it goes.
LEMMA UnconcernedByDevice ==
    ASSUME NEW t, NEW d \in DeviceIds, ~ContainsDevice(t, d), states' = Without(states, d)
    PROVE  Evaluate(t, states') = Evaluate(t, states)
<1>1. ASSUME NEW p \in DOMAIN t
      PROVE  Matches(t[p].descriptor, states') = Matches(t[p].descriptor, states)
  <2> DEFINE x == t[p].descriptor
  <2>1. x.device # d
    BY DEF ContainsDevice
  <2> HIDE DEF x
  <2>2. /\ DOMAIN states' = DOMAIN states \ {d}
        /\ \A e \in DOMAIN states \ {d} : states'[e] = states[e]
    BY DEF Without, Restrict
  <2>3. Resolves(x, states') <=> Resolves(x, states)
    BY <2>1, <2>2 DEF Resolves
  <2>4. Resolves(x, states) => states'[x.device] = states[x.device]
    BY <2>1, <2>2 DEF Resolves
  <2>5. Matches(x, states') = Matches(x, states)
    BY <2>3, <2>4 DEF Matches
  <2>6. QED
    BY <2>5 DEF x
<1>2. QED
  BY <1>1, EvaluateLocal

\* A state based rule that the engine looks at is in step afterwards, one that it does not
\* look at stays what it was in the list.
LEMMA LookedAt ==
    ASSUME NEW event, NEW now, EvaluateEvent(event, now),
           NEW id \in DOMAIN m_rules, StateBased(m_rules[id].config)
    PROVE  /\ Concerns(m_rules[id].config, event) =>
                (id \in m_activeRules' <=> Evaluate(m_rules[id].config.evaluator, now))
           /\ ~Concerns(m_rules[id].config, event) =>
                (id \in m_activeRules' <=> id \in m_activeRules)
<1>1. m_activeRules' = (m_activeRules \cup Entering(event, now)) \ Leaving(event, now)
  BY DEF EvaluateEvent
<1>2. QED
  BY <1>1 DEF Entering, Leaving

\* Between two moments that nobody edits the rule, the engine's idea of it stays right
\* (evaluateEvent, containsState).
LEMMA StepMissesNothing ==
    ASSUME Inv, [Next]_vars, ~Starting,
           NEW id \in DOMAIN m_rules \cap DOMAIN m_rules',
           m_rules'[id].config = m_rules[id].config,
           StateBased(m_rules[id].config),
           m_rules[id].config.enabled,
           InSync(id)
    PROVE  InSync(id)'
<1> DEFINE t == m_rules[id].config.evaluator
<1>1. m_rules'[id].config.evaluator = t
  OBVIOUS
<1>2. ASSUME m_activeRules' = m_activeRules, Evaluate(t, states') = Evaluate(t, states)
      PROVE  InSync(id)'
  BY <1>1, <1>2 DEF InSync
<1>3. ASSUME NEW d \in Configured, NEW s \in StateTypesOf[d], NEW v \in Values,
             StateChange(d, s, v)
      PROVE  InSync(id)'
  <2> DEFINE event == [device |-> d, type |-> s]
  <2>1. /\ states' = [states EXCEPT ![d][s] = v]
        /\ EvaluateEvent(event, states')
    BY <1>3 DEF StateChange
  <2>2. Concerns(m_rules[id].config, event) <=> ContainsState(t, s)
    BY DEF Concerns
  <2>3. CASE ContainsState(t, s)
    BY <1>1, <2>1, <2>2, <2>3, LookedAt DEF InSync
  <2>4. CASE ~ContainsState(t, s)
    <3>1. Evaluate(t, states') = Evaluate(t, states)
      BY <2>1, <2>4, UnconcernedByState
    <3>2. id \in m_activeRules' <=> id \in m_activeRules
      BY <2>1, <2>2, <2>4, LookedAt
    <3>3. QED
      BY <1>1, <3>1, <3>2 DEF InSync
  <2>5. QED
    BY <2>3, <2>4
<1>4. ASSUME NEW d \in Configured, NEW e \in EventTypesOf[d], DeviceEvent(d, e)
      PROVE  InSync(id)'
  <2> DEFINE event == [device |-> d, type |-> e]
  <2>1. states' = states /\ EvaluateEvent(event, states)
    BY <1>4 DEF DeviceEvent
  <2>2. id \in m_activeRules' <=> id \in m_activeRules
    BY <2>1, LookedAt DEF InSync
  <2>3. QED
    BY <1>1, <2>1, <2>2 DEF InSync
<1>5. ASSUME NEW d \in Configured, DeviceRemoved(d) PROVE InSync(id)'
  <2>1. /\ states' = Without(states, d)
        /\ m_activeRules' = m_activeRules
        /\ id \notin FindRules(d)
    BY <1>5 DEF DeviceRemoved, engineVars
  <2>2. ~ContainsDevice(t, d)
    BY <2>1 DEF FindRules
  <2>3. d \in DeviceIds
    BY DEF Inv, TypeOK
  <2>4. QED
    BY <1>2, <2>1, <2>2, <2>3, UnconcernedByDevice
<1>6. ASSUME NEW i \in RuleIds, NEW c \in Configs,
             AddRule(i, c) \/ EditRule(i, c) \/ EditRuleFails(i, c)
      PROVE  InSync(id)'
  BY <1>2, <1>6 DEF AddRule, EditRule, EditRuleFails
<1>7. ASSUME NEW i \in RuleIds, RemoveRule(i) \/ EnableRule(i) \/ DisableRule(i)
      PROVE  InSync(id)'
  BY <1>2, <1>7 DEF RemoveRule, EnableRule, DisableRule, SetEnabled
<1>8. ASSUME NEW i \in RuleIds, NEW d \in Configured, RemoveDeviceFromRule(i, d)
      PROVE  InSync(id)'
  BY <1>2, <1>8 DEF RemoveDeviceFromRule
<1>9. CASE UNCHANGED vars
  BY <1>2, <1>9 DEF vars, engineVars
<1>10. ASSUME NEW i \in RuleIds, CrashInEdit(i) PROVE FALSE
  BY <1>10 DEF Starting, CrashInEdit
<1>11. ~Restart
  BY DEF Starting
<1>12. QED
  BY <1>3, <1>4, <1>5, <1>6, <1>7, <1>8, <1>9, <1>10, <1>11 DEF Next

\* However states change, and whichever rules containsState() passes over: a state based
\* rule that is enabled and not edited has its place among the active ones exactly while
\* its condition holds, once it has (RuleEngine::evaluateEvent).
THEOREM MissesNothing == Spec => NoMissedTransition
<1>1. Inv /\ [Next]_vars =>
        [\A id \in DOMAIN m_rules \cap DOMAIN m_rules' :
            /\ m_rules'[id].config = m_rules[id].config
            /\ StateBased(m_rules[id].config)
            /\ m_rules[id].config.enabled
            /\ InSync(id)
            => InSync(id)' \/ Starting]_vars
  BY StepMissesNothing
<1>2. QED
  BY <1>1, Invariance, PTL DEF Spec, NoMissedTransition

-----------------------------------------------------------------------------
(***************************************************************************)
(* GuhCore.  The inductive invariant is that of the rule engine with two   *)
(* additions: what the calls in progress still have to do concerns devices *)
(* that are there, and a removal has a step left for each rule that names  *)
(* one of its devices.                                                     *)
(***************************************************************************)

\* What may wait in the stack while the devices are the configured ones.
ReachableEntries == {e \in Entry : e.action.device \in Configured}

SoundFrames ==
    {f \in Frames :
        /\ f.run \in Seq(ReachableEntries)
        /\ f.signals # <<>> => f.device \in Configured
        /\ \A i \in DOMAIN f.signals : f.signals[i].type \in EventTypesOf[f.device]}

CallsSound == stack \in Seq(SoundFrames)

\* The shape of the removal in progress.
RemovalTyped ==
    /\ DOMAIN removal = {"root", "devices", "policy", "left"}
    /\ removal.root \in DeviceIds \cup {NoDevice}
    /\ removal.devices \subseteq DeviceIds
    /\ DOMAIN removal.policy \subseteq DOMAIN m_rules
    /\ \A id \in DOMAIN removal.policy : removal.policy[id] \in RemovePolicies
    /\ DOMAIN removal.left = DOMAIN removal.policy
    /\ \A id \in DOMAIN removal.left : removal.left[id] \subseteq removal.devices

\* The removal is of a whole family, and every rule that names a member that
\* is still there is still to be dealt with for that member.
RemovalSound ==
    removal # NoRemoval =>
        /\ stack = <<>>
        /\ removal.root \in removal.devices \cap Configured
        /\ ParentOf[removal.root] = NoDevice
        /\ FindChildDevices(removal.root) \subseteq removal.devices
        /\ \A d \in removal.devices \ {removal.root} : ParentOf[d] = removal.root
        /\ DOMAIN removal.policy # {} => removal.devices \subseteq Configured
        /\ \A d \in removal.devices \cap Configured : \A id \in FindRules(d) :
                /\ id \in DOMAIN removal.policy
                /\ removal.policy[id] = "Update" => d \in removal.left[id]

CoreInv == Inv /\ CallsSound /\ RemovalTyped /\ RemovalSound

-----------------------------------------------------------------------------
(* The lists that gotEvent() makes.                                        *)

\* A listing of finitely many entries is a sequence of them.
LEMMA ListsAreSequences ==
    ASSUME NEW entries, IsFiniteSet(entries), NEW list \in Lists(entries)
    PROVE  list \in Seq(entries)
<1>1. Cardinality(entries) \in Nat
  BY FS_CardinalityType
<1>2. list \in [1..Cardinality(entries) -> entries]
  BY DEF Lists
<1>3. QED
  BY <1>1, <1>2

\* The entries made of one of a rule's lists: finitely many, each of the rule.
LEMMA DueOfList ==
    ASSUME NEW id \in RuleIds, NEW list, IsActionList(list), NEW cause \in Causes
    PROVE  /\ IsFiniteSet(Due(id, list, cause))
           /\ Due(id, list, cause) \subseteq Entry
           /\ \A e \in Due(id, list, cause) :
                \E k \in DOMAIN list : e.action.device = list[k].device
<1> DEFINE entry(k) == [rule |-> id, cause |-> cause, at |-> k, action |-> list[k]]
           f == [k \in DOMAIN list |-> entry(k)]
<1>1. IsFiniteSet(DOMAIN list) /\ DOMAIN list \subseteq Nat
      /\ \A k \in DOMAIN list : list[k] \in RuleAction
  <2>1. DOMAIN list = 1..Len(list) /\ Len(list) \in Nat
    BY DEF IsActionList
  <2>2. IsFiniteSet(DOMAIN list)
    BY <2>1, FS_Interval
  <2>3. QED
    BY <2>1, <2>2 DEF IsActionList
<1>2. f \in Surjection(DOMAIN list, Due(id, list, cause))
  BY DEF Surjection, Due
<1>3. IsFiniteSet(Due(id, list, cause))
  BY <1>1, <1>2, FS_Surjection
<1>4. Due(id, list, cause) \subseteq Entry
  BY <1>1 DEF Due, Entry
<1>5. \A e \in Due(id, list, cause) :
        \E k \in DOMAIN list : e.action.device = list[k].device
  BY DEF Due
<1>6. QED
  BY <1>3, <1>4, <1>5

\* For a rule of the engine: the entries of both its lists can be reached.
LEMMA DueOfRule ==
    ASSUME Inv, NEW id \in DOMAIN m_rules, NEW cause \in Causes,
           NEW list \in {m_rules[id].config.actions, m_rules[id].config.exitActions}
    PROVE  /\ IsFiniteSet(Due(id, list, cause))
           /\ Due(id, list, cause) \subseteq ReachableEntries
<1>1. id \in RuleIds /\ IsConfig(m_rules[id].config)
  BY DEF Inv, TypeOK, IsRule
<1>2. IsActionList(list)
  BY <1>1 DEF IsConfig
<1>3. \A k \in DOMAIN list : list[k].device \in Configured
  BY DEF Inv, ReferencesConfigured, Sound, ReferencesOf
<1>4. QED
  BY <1>1, <1>2, <1>3, DueOfList DEF ReachableEntries

\* What one event makes due, over all rules.
LEMMA DueForEvent ==
    ASSUME Inv, NEW event, NEW now
    PROVE  /\ IsFiniteSet(DueFor(event, now))
           /\ DueFor(event, now) \subseteq ReachableEntries
<1> DEFINE A(id) == Due(id, m_rules[id].config.actions, "event")
           B(id) == Due(id, m_rules[id].config.actions, "enters")
           C(id) == Due(id, m_rules[id].config.exitActions, "leaves")
           SA == {A(id) : id \in Triggered(event, now)}
           SB == {B(id) : id \in Entering(event, now)}
           SC == {C(id) : id \in Leaving(event, now)}
<1>1. IsFiniteSet(DOMAIN m_rules)
  BY FiniteRange DEF Inv, TypeOK, OrderMatchesRules
<1>2. /\ Triggered(event, now) \subseteq DOMAIN m_rules
      /\ Entering(event, now) \subseteq DOMAIN m_rules
      /\ Leaving(event, now) \subseteq DOMAIN m_rules
  BY DEF Triggered, Entering, Leaving
<1>3. /\ IsFiniteSet(Triggered(event, now))
      /\ IsFiniteSet(Entering(event, now))
      /\ IsFiniteSet(Leaving(event, now))
  BY <1>1, <1>2, FS_Subset
<1>4. ASSUME NEW id \in DOMAIN m_rules
      PROVE  /\ IsFiniteSet(A(id)) /\ A(id) \subseteq ReachableEntries
             /\ IsFiniteSet(B(id)) /\ B(id) \subseteq ReachableEntries
             /\ IsFiniteSet(C(id)) /\ C(id) \subseteq ReachableEntries
  BY DueOfRule DEF Causes
<1> HIDE DEF A, B, C
<1>5. /\ [id \in Triggered(event, now) |-> A(id)] \in Surjection(Triggered(event, now), SA)
      /\ [id \in Entering(event, now) |-> B(id)] \in Surjection(Entering(event, now), SB)
      /\ [id \in Leaving(event, now) |-> C(id)] \in Surjection(Leaving(event, now), SC)
  BY DEF Surjection
<1>6. IsFiniteSet(SA) /\ IsFiniteSet(SB) /\ IsFiniteSet(SC)
  BY <1>3, <1>5, FS_Surjection
<1>7. IsFiniteSet(SA \cup SB \cup SC)
  BY <1>6, FS_Union
<1>8. \A T \in SA \cup SB \cup SC : IsFiniteSet(T) /\ T \subseteq ReachableEntries
  BY <1>2, <1>4
<1>9. DueFor(event, now) = UNION (SA \cup SB \cup SC)
  BY DEF DueFor, A, B, C
<1> HIDE DEF SA, SB, SC
<1>10. IsFiniteSet(UNION (SA \cup SB \cup SC))
  BY <1>7, <1>8, FS_UNION
<1>11. QED
  BY <1>8, <1>9, <1>10

-----------------------------------------------------------------------------
(* The calls in progress.                                                  *)

\* The devices alone decide what may wait.
LEMMA SameDevices ==
    ASSUME Configured' = Configured
    PROVE  SoundFrames' = SoundFrames
BY DEF SoundFrames, ReachableEntries

\* A new call on top of sound ones.
LEMMA CallingSound ==
    ASSUME NEW run \in Seq(ReachableEntries), NEW calls \in Seq(SoundFrames)
    PROVE  Calling(run, calls) \in Seq(SoundFrames)
<1>1. <<>> \in Seq(Signal) /\ DOMAIN <<>> = {}
  OBVIOUS
<1>2. run \in Seq(Entry)
  BY DEF ReachableEntries
<1>3. Frame(NoDevice, <<>>, run) \in SoundFrames
  BY <1>1, <1>2 DEF Frame, Frames, SoundFrames
<1>4. <<Frame(NoDevice, <<>>, run)>> \in Seq(SoundFrames)
  BY <1>3
<1>5. QED
  BY <1>4 DEF Calling

\* The innermost call goes on to the plugin's next signal.
LEMMA SignalledSound ==
    ASSUME CallsSound, stack # <<>>, stack[1].signals # <<>>
    PROVE  /\ Signalled \in Seq(SoundFrames)
           /\ stack[1].device \in Configured
           /\ Head(stack[1].signals) \in Signal
           /\ Head(stack[1].signals).type \in EventTypesOf[stack[1].device]
<1> DEFINE top == stack[1]
           next == [top EXCEPT !.signals = Tail(@)]
<1>1. 1 \in DOMAIN stack /\ top \in SoundFrames
  BY DEF CallsSound
<1>2. top \in Frames /\ top.signals \in Seq(Signal) /\ top.run \in Seq(ReachableEntries)
      /\ top.device \in Configured
      /\ \A i \in DOMAIN top.signals : top.signals[i].type \in EventTypesOf[top.device]
  BY <1>1 DEF SoundFrames, Frames
<1>3. /\ next.device = top.device
      /\ next.run = top.run
      /\ next.signals = Tail(top.signals)
      /\ next \in [device : {top.device}, signals : {Tail(top.signals)}, run : {top.run}]
  BY <1>2 DEF Frames
<1> HIDE DEF next
<1>4. /\ Tail(top.signals) \in Seq(Signal)
      /\ \A i \in DOMAIN Tail(top.signals) :
            i + 1 \in DOMAIN top.signals /\ Tail(top.signals)[i] = top.signals[i + 1]
      /\ Head(top.signals) = top.signals[1] /\ 1 \in DOMAIN top.signals
      /\ top.signals[1] \in Signal
  BY <1>2
<1>5. \A i \in DOMAIN next.signals : next.signals[i].type \in EventTypesOf[next.device]
  BY <1>2, <1>3, <1>4
<1>6. next \in Frames
  BY <1>2, <1>3, <1>4 DEF Frames
<1>7. next \in SoundFrames
  BY <1>2, <1>3, <1>5, <1>6 DEF SoundFrames
<1>8. Signalled = [stack EXCEPT ![1] = next]
  BY DEF Signalled, next
<1>9. QED
  BY <1>1, <1>2, <1>4, <1>7, <1>8 DEF CallsSound

\* executeAction() of the next entry.
LEMMA ExecuteNextSound ==
    ASSUME CallsSound, ExecuteNext
    PROVE  stack' \in Seq(SoundFrames)
<1> DEFINE top == stack[1]
           action == Head(top.run).action
           rest == Tail(top.run)
<1>1. 1 \in DOMAIN stack /\ top \in SoundFrames /\ stack # <<>> /\ top.run # <<>>
      /\ top.signals = <<>>
  BY DEF CallsSound, ExecuteNext
<1>2. /\ top \in Frames
      /\ top.run \in Seq(ReachableEntries)
  BY <1>1 DEF SoundFrames
<1>3. /\ rest \in Seq(ReachableEntries)
      /\ Head(top.run) \in ReachableEntries
  BY <1>1, <1>2
<1>4. /\ rest \in Seq(Entry)
      /\ action.device \in Configured
      /\ action \in RuleAction
  <2>1. ReachableEntries \subseteq Entry
    BY DEF ReachableEntries
  <2>2. rest \in Seq(Entry)
    BY <1>3, <2>1
  <2>3. action.device \in Configured /\ action \in RuleAction
    BY <1>3 DEF ReachableEntries, Entry
  <2>4. QED
    BY <2>2, <2>3
<1>5. action.device \in DeviceIds /\ action.type \in ActionTypes
  BY <1>4 DEF RuleAction
<1>6. PICK signals \in Effects(action.device, action.type) :
        stack' = [stack EXCEPT ![1] = Frame(action.device, signals, rest)]
  BY <1>4 DEF ExecuteNext
<1>7. /\ signals \in Seq(Signal)
      /\ \A i \in DOMAIN signals : signals[i].type \in EventTypesOf[action.device]
  <2>1. CASE signals = <<>>
    BY <2>1
  <2>2. CASE signals # <<>>
    BY <2>2, <1>5, EffectsAssumption DEF Effects
  <2>3. QED
    BY <2>1, <2>2
<1> DEFINE frame == Frame(action.device, signals, rest)
<1>8. /\ frame.device = action.device
      /\ frame.signals = signals
      /\ frame.run = rest
  BY DEF Frame
<1>9. frame \in Frames
  BY <1>4, <1>5, <1>7 DEF Frame, Frames
<1> HIDE DEF frame, action, rest
<1>10. frame \in SoundFrames
  BY <1>3, <1>4, <1>7, <1>8, <1>9 DEF SoundFrames
<1>11. QED
  BY <1>1, <1>6, <1>10 DEF CallsSound, frame, action, rest

\* A plugin's signal: the engine takes a step of its own or none, and the
\* actions it makes due are on top of the stack.
LEMMA PluginSignalsSound ==
    ASSUME CoreInv, PluginSignals
    PROVE  [Next]_vars /\ Configured' = Configured /\ stack' \in Seq(SoundFrames)
<1> DEFINE d == stack[1].device
           s == Head(stack[1].signals).type
           v == Head(stack[1].signals).value
<1>1. /\ Signalled \in Seq(SoundFrames)
      /\ d \in Configured
      /\ Head(stack[1].signals) \in Signal
      /\ s \in EventTypesOf[d]
  BY SignalledSound DEF CoreInv, PluginSignals
<1>2. v \in Values
  BY <1>1 DEF Signal
<1>3. SetStateValue(d, s, v) \/ EmitEvent(d, s)
  BY DEF PluginSignals
<1>4. ASSUME NEW event, NEW now, NEW run \in Lists(DueFor(event, now))
      PROVE  Calling(run, Signalled) \in Seq(SoundFrames)
  <2>1. run \in Seq(ReachableEntries)
    BY ListsAreSequences, DueForEvent DEF CoreInv
  <2>2. QED
    BY <1>1, <2>1, CallingSound
<1> HIDE DEF d, s, v
<1>5. CASE SetStateValue(d, s, v)
  <2>1. CASE states[d][s] = v
    BY <1>1, <1>5, <2>1 DEF SetStateValue, vars, Configured
  <2>2. CASE states[d][s] # v
    <3>1. StateChange(d, s, v) /\ s \in StateTypesOf[d]
      BY <1>5, <2>2 DEF SetStateValue
    <3>2. Next
      BY <1>1, <1>2, <3>1 DEF Next
    <3>3. Configured' = Configured
      BY <3>1 DEF StateChange, Configured
    <3>4. stack' \in Seq(SoundFrames)
      BY <1>4, <1>5, <2>2 DEF SetStateValue
    <3>5. QED
      BY <3>2, <3>3, <3>4
  <2>3. QED
    BY <2>1, <2>2
<1>6. CASE EmitEvent(d, s)
  <2>1. DeviceEvent(d, s)
    BY <1>6 DEF EmitEvent
  <2>2. Next
    BY <1>1, <2>1 DEF Next
  <2>3. Configured' = Configured
    BY <2>1 DEF DeviceEvent, Configured
  <2>4. stack' \in Seq(SoundFrames)
    BY <1>4, <1>6 DEF EmitEvent
  <2>5. QED
    BY <2>2, <2>3, <2>4
<1>7. QED
  BY <1>3, <1>5, <1>6

-----------------------------------------------------------------------------
(* The removal of a device.                                                *)

\* Deleting a rule takes nothing but the rule from what names a device.
LEMMA RemoveRuleFinds ==
    ASSUME NEW id, RemoveRule(id), NEW d
    PROVE  FindRules(d)' \subseteq FindRules(d) \ {id}
<1>1. /\ DOMAIN m_rules' = DOMAIN m_rules \ {id}
      /\ \A i \in DOMAIN m_rules' : m_rules'[i] = m_rules[i]
  BY DEF RemoveRule, Without, Restrict
<1>2. QED
  BY <1>1 DEF FindRules

\* A rule that loses a device no longer names it, and names no other one that
\* it did not name before.
LEMMA WithoutDeviceFinds ==
    ASSUME Inv, NEW id, NEW d \in DeviceIds, RemoveDeviceFromRule(id, d), NEW e \in DeviceIds
    PROVE  FindRules(e)' \subseteq FindRules(e) /\ id \notin FindRules(d)'
<1> DEFINE c == m_rules[id].config
           new == ConfigWithoutDevice(c, d)
<1>1. /\ id \in DOMAIN m_rules
      /\ m_rules' = With(m_rules, id, NewRule(new))
  BY DEF RemoveDeviceFromRule
<1>2. /\ DOMAIN m_rules' = DOMAIN m_rules
      /\ m_rules'[id].config = new
      /\ \A i \in DOMAIN m_rules \ {id} : m_rules'[i] = m_rules[i]
  BY <1>1 DEF With, NewRule
<1>3. /\ new.events = {ev \in c.events : ev.device # d}
      /\ new.exitActions = <<>>
      /\ new.actions = ActionsWithout(c.actions, d)
      /\ new.evaluator = WithoutDevice(c.evaluator, d)
  BY DEF ConfigWithoutDevice
<1> HIDE DEF new
<1>4. ASSUME NEW x \in DeviceIds
      PROVE  /\ ActionsOn(new.actions, x) # {} => ActionsOn(c.actions, x) # {}
             /\ ActionsOn(new.actions, d) = {}
             /\ ActionsOn(new.exitActions, x) = {}
  <2>1. \A k \in DOMAIN new.actions : \E i \in DOMAIN c.actions :
            new.actions[k] = c.actions[i] /\ c.actions[i].device # d
    <3>1. IsActionList(c.actions)
      BY <1>1 DEF Inv, TypeOK, IsRule, IsConfig
    <3>2. QED
      BY <1>3, <3>1, ActionsWithoutElements
  <2>2. DOMAIN new.exitActions = {}
    BY <1>3
  <2> HIDE DEF c
  <2>3. ActionsOn(new.actions, x) # {} => ActionsOn(c.actions, x) # {}
    BY <2>1 DEF ActionsOn
  <2>4. ActionsOn(new.actions, d) = {}
    BY <2>1 DEF ActionsOn
  <2>5. ActionsOn(new.exitActions, x) = {}
    BY <2>2 DEF ActionsOn
  <2>6. QED
    BY <2>3, <2>4, <2>5
<1>5. ASSUME NEW x \in DeviceIds
      PROVE  /\ ContainsDevice(new.evaluator, x) => ContainsDevice(c.evaluator, x)
             /\ ~ContainsDevice(new.evaluator, d)
  <2>1. /\ DOMAIN new.evaluator = DOMAIN c.evaluator
        /\ \A p \in DOMAIN c.evaluator :
                new.evaluator[p] = IF c.evaluator[p].descriptor.device = d
                                   THEN [c.evaluator[p] EXCEPT !.descriptor = NoDescriptor]
                                   ELSE c.evaluator[p]
    BY <1>3 DEF WithoutDevice
  <2>2. IsEvaluator(c.evaluator, StateDescriptors)
    BY <1>1 DEF Inv, TypeOK, IsRule, IsConfig
  <2>3. NoDescriptor.device = NoDevice /\ NoDevice \notin DeviceIds
    BY NoDeviceAssumption DEF NoDescriptor
  <2>4. ASSUME NEW p \in DOMAIN c.evaluator
        PROVE  \/ new.evaluator[p].descriptor.device = NoDevice
               \/ /\ new.evaluator[p].descriptor.device = c.evaluator[p].descriptor.device
                  /\ c.evaluator[p].descriptor.device # d
    BY <2>1, <2>2, <2>3 DEF IsEvaluator
  <2>5. QED
    BY <2>1, <2>3, <2>4 DEF ContainsDevice
<1>6. FindRules(e)' \subseteq FindRules(e)
  BY <1>1, <1>2, <1>3, <1>4, <1>5 DEF FindRules
<1>7. id \notin FindRules(d)'
  BY <1>1, <1>2, <1>3, <1>4, <1>5 DEF FindRules
<1>8. QED
  BY <1>6, <1>7

\* What Settled() leaves of the removal.
LEMMA SettledRemoval ==
    ASSUME RemovalTyped, NEW id
    PROVE  /\ DOMAIN Settled(id) = DOMAIN removal
           /\ Settled(id).root = removal.root
           /\ Settled(id).devices = removal.devices
           /\ DOMAIN Settled(id).policy = DOMAIN removal.policy \ {id}
           /\ DOMAIN Settled(id).left = DOMAIN removal.policy \ {id}
           /\ \A i \in DOMAIN removal.policy \ {id} :
                /\ Settled(id).policy[i] = removal.policy[i]
                /\ Settled(id).left[i] = removal.left[i]
<1>1. /\ DOMAIN Without(removal.policy, id) = DOMAIN removal.policy \ {id}
      /\ DOMAIN Without(removal.left, id) = DOMAIN removal.policy \ {id}
      /\ \A i \in DOMAIN removal.policy \ {id} :
            /\ Without(removal.policy, id)[i] = removal.policy[i]
            /\ Without(removal.left, id)[i] = removal.left[i]
  BY DEF Without, Restrict, RemovalTyped
<1>2. /\ DOMAIN Settled(id) = DOMAIN removal
      /\ Settled(id).root = removal.root
      /\ Settled(id).devices = removal.devices
      /\ Settled(id).policy = Without(removal.policy, id)
      /\ Settled(id).left = Without(removal.left, id)
  BY DEF Settled, RemovalTyped
<1>3. QED
  BY <1>1, <1>2

\* A removal starts with every rule that names a member of the family.
LEMMA BeginRemovalSound ==
    ASSUME CoreInv, NEW root \in DeviceIds, NEW policies \in Policies,
           BeginRemoval(root, policies)
    PROVE  RemovalTyped' /\ RemovalSound'
<1> DEFINE devices == {root} \cup FindChildDevices(root)
           offending == OffendingRules(root, devices)
           policy == ToBeChanged(offending, policies)
           left == [id \in DOMAIN policy |-> devices]
<1>1. /\ stack' = <<>>
      /\ root \in Configured
      /\ ParentOf[root] = NoDevice
      /\ offending \subseteq DOMAIN policies
      /\ removal' = [root |-> root, devices |-> devices, policy |-> policy, left |-> left]
      /\ UNCHANGED vars
  BY DEF BeginRemoval, Idle
<1>2. /\ Configured' = Configured
      /\ m_rules' = m_rules
  BY <1>1 DEF vars, engineVars, Configured
<1>3. \A d : FindRules(d)' = FindRules(d)
  BY <1>2 DEF FindRules
<1>4. FindChildDevices(root)' = FindChildDevices(root)
  BY <1>2 DEF FindChildDevices
<1>5. /\ devices \subseteq Configured
      /\ \A d \in devices \ {root} : ParentOf[d] = root
      /\ Configured \subseteq DeviceIds
  BY <1>1 DEF FindChildDevices, CoreInv, Inv, TypeOK
<1>6. /\ offending \subseteq DOMAIN m_rules
      /\ \A d \in devices : FindRules(d) \subseteq offending
  BY DEF OffendingRules, FindRules
<1>7. /\ DOMAIN policy = offending
      /\ \A id \in offending : policy[id] = policies[id]
  BY DEF ToBeChanged, Restrict
<1>8. \A id \in DOMAIN policies : policies[id] \in RemovePolicies
  BY DEF Policies
<1>9. DOMAIN left = offending /\ \A id \in offending : left[id] = devices
  BY <1>7
<1>10. /\ removal'.root = root
       /\ removal'.devices = devices
       /\ removal'.policy = policy
       /\ removal'.left = left
       /\ DOMAIN removal' = {"root", "devices", "policy", "left"}
  BY <1>1
<1> HIDE DEF devices, offending, policy, left
<1>11. RemovalTyped'
  BY <1>1, <1>2, <1>5, <1>6, <1>7, <1>8, <1>9, <1>10 DEF RemovalTyped
<1>12. RemovalSound'
  <2>1. root \in devices /\ FindChildDevices(root) \subseteq devices
    BY DEF devices
  <2>2. QED
    BY <1>1, <1>2, <1>3, <1>4, <1>5, <1>6, <1>7, <1>9, <1>10, <2>1 DEF RemovalSound
<1>13. QED
  BY <1>11, <1>12

\* A deleted rule names nothing, so it may leave the list of the removal.
LEMMA RemovalCascadesSound ==
    ASSUME CoreInv, NEW id \in RuleIds, RemovalCascades(id)
    PROVE  Next /\ Configured' = Configured /\ RemovalTyped' /\ RemovalSound'
<1>1. /\ RemoveRule(id)
      /\ id \in DOMAIN removal.policy
      /\ removal' = Settled(id)
      /\ stack' = stack
  BY DEF RemovalCascades, Current
<1>2. /\ Configured' = Configured
      /\ DOMAIN m_rules' = DOMAIN m_rules \ {id}
  BY <1>1 DEF RemoveRule, Configured, Without, Restrict
<1>3. \A d : FindRules(d)' \subseteq FindRules(d) \ {id}
  BY <1>1, RemoveRuleFinds
<1>4. \A d : FindChildDevices(d)' = FindChildDevices(d)
  BY <1>2 DEF FindChildDevices
<1>5. removal # NoRemoval
  BY <1>1 DEF NoRemoval
<1>6. RemovalTyped /\ RemovalSound
  BY DEF CoreInv
<1>7. RemovalTyped'
  <2>1. /\ DOMAIN removal' = DOMAIN removal
        /\ removal'.root = removal.root
        /\ removal'.devices = removal.devices
        /\ DOMAIN removal'.policy = DOMAIN removal.policy \ {id}
        /\ DOMAIN removal'.left = DOMAIN removal.policy \ {id}
        /\ \A i \in DOMAIN removal.policy \ {id} :
              /\ removal'.policy[i] = removal.policy[i]
              /\ removal'.left[i] = removal.left[i]
    BY <1>1, <1>6, SettledRemoval
  <2>2. QED
    BY <1>2, <1>6, <2>1 DEF RemovalTyped
<1>8. RemovalSound'
  BY <1>1, <1>2, <1>3, <1>4, <1>5, <1>6, SettledRemoval DEF RemovalSound
<1>9. Next
  BY <1>1 DEF Next
<1>10. QED
  BY <1>2, <1>7, <1>8, <1>9

\* A rule leaves the list with the last device it was left for.
LEMMA RemovalUpdatesSound ==
    ASSUME CoreInv, NEW id \in RuleIds, NEW d \in DeviceIds, RemovalUpdates(id, d)
    PROVE  Next /\ Configured' = Configured /\ RemovalTyped' /\ RemovalSound'
<1>1. /\ RemoveDeviceFromRule(id, d)
      /\ id \in DOMAIN removal.policy
      /\ d \in removal.left[id]
      /\ removal' = IF removal.left[id] = {d} THEN Settled(id)
                     ELSE [removal EXCEPT !.left[id] = @ \ {d}]
      /\ stack' = stack
  BY DEF RemovalUpdates, Current
<1>2. /\ Configured' = Configured
      /\ DOMAIN m_rules' = DOMAIN m_rules
  BY <1>1 DEF RemoveDeviceFromRule, Configured, With
<1>3. \A e \in DeviceIds : FindRules(e)' \subseteq FindRules(e) /\ id \notin FindRules(d)'
  BY <1>1, WithoutDeviceFinds DEF CoreInv
<1>4. \A e : FindChildDevices(e)' = FindChildDevices(e)
  BY <1>2 DEF FindChildDevices
<1>5. removal # NoRemoval
  BY <1>1 DEF NoRemoval
<1>6. RemovalTyped /\ RemovalSound /\ Configured \subseteq DeviceIds
  BY DEF CoreInv, Inv, TypeOK
<1>7. Next
  BY <1>1, <1>5, <1>6 DEF Next, RemovalTyped, RemovalSound
<1>8. CASE removal.left[id] = {d}
  <2>1. removal' = Settled(id)
    BY <1>1, <1>8
  <2>2. RemovalTyped'
    <3>1. /\ DOMAIN removal' = DOMAIN removal
          /\ removal'.root = removal.root
          /\ removal'.devices = removal.devices
          /\ DOMAIN removal'.policy = DOMAIN removal.policy \ {id}
          /\ DOMAIN removal'.left = DOMAIN removal.policy \ {id}
          /\ \A i \in DOMAIN removal.policy \ {id} :
                /\ removal'.policy[i] = removal.policy[i]
                /\ removal'.left[i] = removal.left[i]
      BY <1>6, <2>1, SettledRemoval
    <3>2. QED
      BY <1>2, <1>6, <3>1 DEF RemovalTyped
  <2>3. ASSUME NEW e \in removal.devices \cap Configured PROVE id \notin FindRules(e)'
    <3>1. CASE e = d
      BY <1>3, <3>1, <1>6
    <3>2. CASE e # d
      \* removal.left[id] is {d}: the rule named no other device any more.
      <4>1. id \notin FindRules(e) \/ removal.policy[id] # "Update"
        BY <1>5, <1>6, <1>8, <3>2 DEF RemovalSound
      <4>2. removal.policy[id] = "Update"
        BY DEF RemovalUpdates
      <4>3. QED
        BY <1>3, <1>6, <4>1, <4>2
    <3>3. QED
      BY <3>1, <3>2
  <2>4. RemovalSound'
    BY <1>1, <1>2, <1>3, <1>4, <1>5, <1>6, <2>1, <2>3, SettledRemoval DEF RemovalSound
  <2>5. QED
    BY <1>2, <1>7, <2>2, <2>4
<1>9. CASE removal.left[id] # {d}
  <2>1. removal' = [removal EXCEPT !.left[id] = @ \ {d}]
    BY <1>1, <1>9
  <2>2. /\ DOMAIN removal' = DOMAIN removal
        /\ removal'.root = removal.root
        /\ removal'.devices = removal.devices
        /\ removal'.policy = removal.policy
        /\ DOMAIN removal'.left = DOMAIN removal.left
        /\ removal'.left[id] = removal.left[id] \ {d}
        /\ \A i \in DOMAIN removal.left \ {id} : removal'.left[i] = removal.left[i]
    BY <1>1, <1>6, <2>1 DEF RemovalTyped
  <2>3. RemovalTyped'
    BY <1>2, <1>6, <2>2 DEF RemovalTyped
  <2>4. RemovalSound'
    BY <1>1, <1>2, <1>3, <1>4, <1>5, <1>6, <2>2 DEF RemovalSound, RemovalTyped
  <2>5. QED
    BY <1>2, <1>7, <2>3, <2>4
<1>10. QED
  BY <1>8, <1>9

\* A child goes when no rule is left to deal with, so no rule names it.
LEMMA RemovalTakesChildSound ==
    ASSUME CoreInv, NEW d \in DeviceIds, RemovalTakesChild(d)
    PROVE  /\ Next /\ stack' = stack
           /\ Configured' = Configured \ {d}
           /\ RemovalTyped' /\ RemovalSound'
<1>1. /\ removal # NoRemoval
      /\ DOMAIN removal.policy = {}
      /\ d \in removal.devices \ {removal.root}
      /\ d \in Configured
      /\ states' = Without(states, d)
      /\ UNCHANGED <<engineVars, stack, removal>>
  BY DEF RemovalTakesChild, TakeDevice
<1>2. /\ Configured' = Configured \ {d}
      /\ m_rules' = m_rules
  BY <1>1 DEF engineVars, Configured, Without, Restrict
<1>3. \A e : FindRules(e)' = FindRules(e)
  BY <1>2 DEF FindRules
<1>4. \A e : FindChildDevices(e)' \subseteq FindChildDevices(e)
  BY <1>2 DEF FindChildDevices
<1>5. RemovalTyped /\ RemovalSound
  BY DEF CoreInv
<1>6. FindRules(d) = {}
  BY <1>1, <1>5 DEF RemovalSound
<1>7. Next
  BY <1>1, <1>6 DEF Next, DeviceRemoved
<1>8. RemovalTyped'
  BY <1>1, <1>2, <1>5 DEF RemovalTyped
<1>9. RemovalSound'
  BY <1>1, <1>2, <1>3, <1>4, <1>5 DEF RemovalSound
<1>10. QED
  BY <1>1, <1>2, <1>7, <1>8, <1>9

\* Without a removal there is nothing to keep.
LEMMA NoRemovalSound ==
    ASSUME removal' = NoRemoval
    PROVE  RemovalTyped' /\ RemovalSound'
<1>1. /\ DOMAIN removal' = {"root", "devices", "policy", "left"}
      /\ removal'.root = NoDevice
      /\ removal'.devices = {}
      /\ DOMAIN removal'.policy = {}
      /\ DOMAIN removal'.left = {}
  BY DEF NoRemoval
<1>2. QED
  BY <1>1 DEF RemovalTyped, RemovalSound

\* The root goes last, and no rule names it.
LEMMA RemovalTakesRootSound ==
    ASSUME CoreInv, RemovalTakesRoot
    PROVE  /\ Next /\ stack' = stack
           /\ Configured' = Configured \ {removal.root}
           /\ RemovalTyped' /\ RemovalSound'
<1> DEFINE root == removal.root
<1>1. /\ removal # NoRemoval
      /\ DOMAIN removal.policy = {}
      /\ states' = Without(states, root)
      /\ removal' = NoRemoval
      /\ UNCHANGED <<engineVars, stack>>
  BY DEF RemovalTakesRoot, TakeDevice
<1>2. root \in Configured /\ FindRules(root) = {}
  BY <1>1 DEF CoreInv, RemovalSound
<1>3. Next
  BY <1>1, <1>2 DEF Next, DeviceRemoved
<1>4. Configured' = Configured \ {root}
  BY <1>1 DEF Configured, Without, Restrict
<1>5. QED
  BY <1>1, <1>3, <1>4, NoRemovalSound

-----------------------------------------------------------------------------
(* The inductive invariant and what follows from it.                       *)

\* A call that starts from the event loop with a list for a client.
LEMMA ClientCallSound ==
    ASSUME CoreInv, NEW id \in RuleIds, ExecuteActions(id) \/ ExecuteExitActions(id)
    PROVE  /\ UNCHANGED vars /\ removal' = removal /\ removal = NoRemoval
           /\ stack' \in Seq(SoundFrames)
<1>1. /\ id \in DOMAIN m_rules
      /\ UNCHANGED vars /\ removal' = removal /\ removal = NoRemoval
  BY DEF ExecuteActions, ExecuteExitActions, Idle
<1>2. PICK list \in {m_rules[id].config.actions, m_rules[id].config.exitActions} :
        \E run \in Lists(Due(id, list, "client")) : stack' = Calling(run, <<>>)
  BY DEF ExecuteActions, ExecuteExitActions
<1>3. PICK run \in Lists(Due(id, list, "client")) : stack' = Calling(run, <<>>)
  BY <1>2
<1>4. /\ IsFiniteSet(Due(id, list, "client"))
      /\ Due(id, list, "client") \subseteq ReachableEntries
  BY <1>1, DueOfRule DEF CoreInv, Causes
<1>5. run \in Seq(ReachableEntries)
  BY <1>4, ListsAreSequences
<1>6. <<>> \in Seq(SoundFrames)
  OBVIOUS
<1>7. QED
  BY <1>1, <1>3, <1>5, <1>6, CallingSound

\* Each step of the core is a step of the rule engine or leaves it alone, and
\* keeps the invariant.  One step below per action.
THEOREM CoreStep ==
    ASSUME CoreInv, [CoreNext]_coreVars
    PROVE  [Next]_vars /\ CoreInv'
<1> USE DEF CoreInv
<1>1. ASSUME [Next]_vars, Configured' = Configured, stack' \in Seq(SoundFrames),
             RemovalTyped', RemovalSound'
      PROVE  [Next]_vars /\ CoreInv'
  BY <1>1, InvInductive, SameDevices DEF CallsSound
<1>2. ASSUME [Next]_vars, stack' = <<>>, RemovalTyped', RemovalSound'
      PROVE  [Next]_vars /\ CoreInv'
  <2>1. CallsSound'
    BY <1>2 DEF CallsSound
  <2>2. QED
    BY <1>2, <2>1, InvInductive
<1>3. stack # <<>> => removal = NoRemoval
  BY DEF RemovalSound
<1>4. UNCHANGED vars => Configured' = Configured
  BY DEF vars, Configured
<1>5. CASE PluginSignals
  <2>1. removal' = NoRemoval
    BY <1>3, <1>5 DEF PluginSignals
  <2>2. QED
    BY <1>1, <1>5, <2>1, PluginSignalsSound, NoRemovalSound
<1>6. CASE ExecuteNext
  <2>1. removal' = NoRemoval /\ UNCHANGED vars
    BY <1>3, <1>6 DEF ExecuteNext
  <2>2. QED
    BY <1>1, <1>4, <1>6, <2>1, ExecuteNextSound, NoRemovalSound
<1>7. CASE ReturnFromCall
  <2>1. removal' = NoRemoval /\ UNCHANGED vars /\ stack' = Tail(stack) /\ stack # <<>>
    BY <1>3, <1>7 DEF ReturnFromCall
  <2>2. stack' \in Seq(SoundFrames)
    BY <2>1 DEF CallsSound
  <2>3. QED
    BY <1>1, <1>4, <2>1, <2>2, NoRemovalSound
<1>8. ASSUME NEW id \in RuleIds, RemovalCascades(id) PROVE [Next]_vars /\ CoreInv'
  <2>1. stack' = stack
    BY <1>8 DEF RemovalCascades
  <2>2. QED
    BY <1>1, <1>8, <2>1, RemovalCascadesSound DEF CallsSound
<1>9. ASSUME NEW id \in RuleIds, NEW d \in DeviceIds, RemovalUpdates(id, d)
      PROVE  [Next]_vars /\ CoreInv'
  <2>1. stack' = stack
    BY <1>9 DEF RemovalUpdates
  <2>2. QED
    BY <1>1, <1>9, <2>1, RemovalUpdatesSound DEF CallsSound
<1>10. ASSUME NEW d \in DeviceIds, RemovalTakesChild(d) PROVE [Next]_vars /\ CoreInv'
  <2>1. stack = <<>>
    BY <1>10 DEF RemovalTakesChild, RemovalSound
  <2>2. QED
    BY <1>2, <1>10, <2>1, RemovalTakesChildSound
<1>11. CASE RemovalTakesRoot
  <2>1. stack = <<>>
    BY <1>11 DEF RemovalTakesRoot, RemovalSound
  <2>2. QED
    BY <1>2, <1>11, <2>1, RemovalTakesRootSound
<1>12. ASSUME NEW d \in DeviceIds, NEW signal \in Signal, PluginCalled(d, signal)
       PROVE  [Next]_vars /\ CoreInv'
  <2>1. /\ removal' = NoRemoval /\ UNCHANGED vars
        /\ d \in Configured /\ signal.type \in EventTypesOf[d]
        /\ stack' = <<Frame(d, <<signal>>, <<>>)>>
    BY <1>12 DEF PluginCalled, Idle
  <2>2. /\ <<signal>> \in Seq(Signal)
        /\ DOMAIN <<signal>> = {1}
        /\ <<signal>>[1] = signal
        /\ <<>> \in Seq(Entry) /\ <<>> \in Seq(ReachableEntries)
    OBVIOUS
  <2>3. Frame(d, <<signal>>, <<>>) \in SoundFrames
    BY <2>1, <2>2 DEF Frame, Frames, SoundFrames
  <2>4. stack' \in Seq(SoundFrames)
    BY <2>1, <2>3
  <2>5. QED
    BY <1>1, <1>4, <2>1, <2>4, NoRemovalSound
<1>13. ASSUME NEW id \in RuleIds, ExecuteActions(id) \/ ExecuteExitActions(id)
       PROVE  [Next]_vars /\ CoreInv'
  BY <1>1, <1>4, <1>13, ClientCallSound, NoRemovalSound
<1>14. ASSUME NEW root \in DeviceIds, NEW policies \in Policies, BeginRemoval(root, policies)
       PROVE  [Next]_vars /\ CoreInv'
  <2>1. UNCHANGED vars /\ stack' = <<>>
    BY <1>14 DEF BeginRemoval, Idle
  <2>2. QED
    BY <1>2, <1>14, <2>1, BeginRemovalSound
<1>15. CASE ClientAction
  <2>1. removal' = NoRemoval /\ stack' = <<>>
    BY <1>15 DEF ClientAction, Idle
  <2>2. Next
    BY <1>15 DEF ClientAction, Next
  <2>3. QED
    BY <1>2, <2>1, <2>2, NoRemovalSound
<1>16. CASE CoreRestart
  BY <1>2, <1>16, NoRemovalSound DEF CoreRestart, Next
<1>17. CASE UNCHANGED coreVars
  <2>1. UNCHANGED vars /\ stack' = stack /\ removal' = removal
    BY <1>17 DEF coreVars
  <2>2. m_rules' = m_rules /\ Configured' = Configured
    BY <2>1, <1>4 DEF vars, engineVars
  <2>3. RemovalTyped' /\ RemovalSound'
    BY <2>1, <2>2 DEF RemovalTyped, RemovalSound, FindChildDevices, FindRules
  <2>4. QED
    BY <1>1, <2>1, <2>2, <2>3 DEF CallsSound
<1>18. QED
  BY <1>5, <1>6, <1>7, <1>8, <1>9, <1>10, <1>11, <1>12, <1>13, <1>14, <1>15, <1>16, <1>17
  DEF CoreNext, Dispatch, RemovalStep

\* Every reachable state of the core is sound.
THEOREM CoreInvariance == CoreSpec => []CoreInv
<1>1. CoreInit => CoreInv
  <2> SUFFICES ASSUME CoreInit PROVE CoreInv
    OBVIOUS
  <2>1. Init /\ stack = <<>> /\ removal = NoRemoval
    BY DEF CoreInit
  <2>2. Inv
    BY <2>1, InitInv
  <2>3. CallsSound
    BY <2>1 DEF CallsSound
  <2>4. /\ DOMAIN removal = {"root", "devices", "policy", "left"}
        /\ removal.root = NoDevice
        /\ removal.devices = {}
        /\ DOMAIN removal.policy = {}
        /\ DOMAIN removal.left = {}
    BY <2>1 DEF NoRemoval
  <2>5. RemovalTyped /\ RemovalSound
    BY <2>1, <2>4 DEF RemovalTyped, RemovalSound
  <2>6. QED
    BY <2>2, <2>3, <2>5 DEF CoreInv
<1>2. CoreInv /\ [CoreNext]_coreVars => CoreInv'
  BY CoreStep
<1>3. QED
  BY <1>1, <1>2, PTL DEF CoreSpec

\* The types of the core's state, the calls in progress among it.
THEOREM CoreTypeCorrectness == CoreSpec => []CoreTypeOK
<1>1. CoreInv => CoreTypeOK
  <2> SUFFICES ASSUME CoreInv PROVE CoreTypeOK
    OBVIOUS
  <2>1. SoundFrames \subseteq Frames
    BY DEF SoundFrames
  <2>2. stack \in Seq(Frames)
    BY <2>1 DEF CoreInv, CallsSound
  <2>3. QED
    BY <2>2 DEF CoreInv, Inv, RemovalTyped, CoreTypeOK
<1>2. QED
  BY <1>1, CoreInvariance, PTL

\* No action waits for a device that has been removed, however the calls nest
\* and whatever was removed before (executeRuleActions, removeConfiguredDevice).
THEOREM WaitingCorrect == CoreSpec => []WaitingActionsReachable
<1>1. CoreInv => WaitingActionsReachable
  <2> SUFFICES ASSUME CoreInv, NEW i \in DOMAIN stack
               PROVE  /\ \A k \in DOMAIN stack[i].run :
                            stack[i].run[k].action.device \in Configured
                      /\ stack[i].signals # <<>> => stack[i].device \in Configured
    BY DEF WaitingActionsReachable
  <2>1. stack[i] \in SoundFrames
    BY DEF CoreInv, CallsSound
  <2>2. stack[i].run \in Seq(ReachableEntries)
    BY <2>1 DEF SoundFrames
  <2>3. \A k \in DOMAIN stack[i].run : stack[i].run[k] \in ReachableEntries
    BY <2>2
  <2>4. QED
    BY <2>1, <2>3 DEF SoundFrames, ReachableEntries
<1>2. QED
  BY <1>1, CoreInvariance, PTL

\* The core uses the engine as the engine's specification allows: a device
\* leaves the system only when no rule names it, with any number of children
\* and of rules, and with a crash between any two steps of the removal.
THEOREM CoreRefinesEngine == CoreSpec => RefinesRuleEngine
<1>1. CoreInit => Init
  BY DEF CoreInit
<1>2. CoreInv /\ [CoreNext]_coreVars => [Next]_vars
  BY CoreStep
<1>3. QED
  BY <1>1, <1>2, CoreInvariance, PTL DEF CoreSpec, RefinesRuleEngine

\* So all that is proved of the engine holds in the core: no rule, in memory or
\* on disk, names a device that a removal took.
THEOREM CoreReferences == CoreSpec => []ReferencesConfigured
BY CoreInvariance, PTL DEF CoreInv, Inv

\* Nor does a rule miss a transition when events nest in the actions they cause and
\* removals take devices step by step: those are steps of the engine.
THEOREM CoreMissesNothing == CoreSpec => NoMissedTransition
<1>1. CoreInv /\ [CoreNext]_coreVars =>
        [\A id \in DOMAIN m_rules \cap DOMAIN m_rules' :
            /\ m_rules'[id].config = m_rules[id].config
            /\ StateBased(m_rules[id].config)
            /\ m_rules[id].config.enabled
            /\ InSync(id)
            => InSync(id)' \/ Starting]_vars
  <2> SUFFICES ASSUME CoreInv, [CoreNext]_coreVars
               PROVE  [\A id \in DOMAIN m_rules \cap DOMAIN m_rules' :
                          /\ m_rules'[id].config = m_rules[id].config
                          /\ StateBased(m_rules[id].config)
                          /\ m_rules[id].config.enabled
                          /\ InSync(id)
                          => InSync(id)' \/ Starting]_vars
    OBVIOUS
  <2>1. Inv /\ [Next]_vars
    BY CoreStep DEF CoreInv
  <2>2. QED
    BY <2>1, StepMissesNothing
<1>2. QED
  BY <1>1, CoreInvariance, PTL DEF CoreSpec, NoMissedTransition

\* No child is left without its parent, not by a crash in a removal either, if
\* plugins give children to root devices only.
THEOREM ChildrenCorrect ==
    ASSUME ParentsAreRoots
    PROVE  CoreSpec => []ChildrenHaveParents
<1>1. CoreInit => ChildrenHaveParents
  BY ParentAssumption DEF CoreInit, Init, Configured, DeviceStates, ChildrenHaveParents
<1>2. CoreInv /\ ChildrenHaveParents /\ [CoreNext]_coreVars => ChildrenHaveParents'
  <2> SUFFICES ASSUME CoreInv, ChildrenHaveParents, [CoreNext]_coreVars
               PROVE  ChildrenHaveParents'
    OBVIOUS
  <2>1. CASE \E d \in DeviceIds : RemovalTakesChild(d)
    <3>1. PICK d \in DeviceIds : RemovalTakesChild(d)
      BY <2>1
    <3>2. Configured' = Configured \ {d}
      BY <3>1, RemovalTakesChildSound
    <3>3. ParentOf[d] = removal.root /\ removal.root \in Configured
      BY <3>1 DEF RemovalTakesChild, CoreInv, RemovalSound
    <3>4. Configured \subseteq DeviceIds
      BY DEF CoreInv, Inv, TypeOK
    <3>5. ParentOf[d] # NoDevice
      BY <3>3, <3>4, NoDeviceAssumption
    <3>6. \A e \in Configured : ParentOf[e] # d
      BY <3>4, <3>5, ParentAssumption, NoDeviceAssumption DEF ParentsAreRoots
    <3>7. QED
      BY <3>2, <3>6 DEF ChildrenHaveParents
  <2>2. CASE RemovalTakesRoot
    <3>1. Configured' = Configured \ {removal.root}
      BY <2>2, RemovalTakesRootSound
    <3>2. \A e \in Configured : ParentOf[e] = removal.root => e \in removal.devices
      BY <2>2 DEF RemovalTakesRoot, CoreInv, RemovalSound, FindChildDevices
    <3>3. removal.devices \cap Configured = {removal.root}
      BY <2>2 DEF RemovalTakesRoot
    <3>4. QED
      BY <3>1, <3>2, <3>3 DEF ChildrenHaveParents
  <2>3. CASE Configured' = Configured
    BY <2>3 DEF ChildrenHaveParents
  <2>4. \/ \E d \in DeviceIds : RemovalTakesChild(d)
        \/ RemovalTakesRoot
        \/ Configured' = Configured
    <3>1. UNCHANGED vars => Configured' = Configured
      BY DEF vars, Configured
    <3>2. CASE PluginSignals
      BY <3>2, PluginSignalsSound
    <3>3. CASE ExecuteNext \/ ReturnFromCall
      BY <3>1, <3>3 DEF ExecuteNext, ReturnFromCall
    <3>4. ASSUME NEW id \in RuleIds, RemovalCascades(id) PROVE Configured' = Configured
      BY <3>4, RemovalCascadesSound
    <3>5. ASSUME NEW id \in RuleIds, NEW d \in DeviceIds, RemovalUpdates(id, d)
          PROVE  Configured' = Configured
      BY <3>5, RemovalUpdatesSound
    <3>6. CASE \/ \E d \in DeviceIds, signal \in Signal : PluginCalled(d, signal)
               \/ \E id \in RuleIds : ExecuteActions(id) \/ ExecuteExitActions(id)
               \/ \E root \in DeviceIds, policies \in Policies : BeginRemoval(root, policies)
               \/ UNCHANGED coreVars
      BY <3>1, <3>6 DEF PluginCalled, ExecuteActions, ExecuteExitActions, BeginRemoval, coreVars
    <3>7. CASE ClientAction
      BY <3>7 DEF ClientAction, AddRule, EditRule, EditRuleFails, RemoveRule, EnableRule,
                  DisableRule, SetEnabled, Configured
    <3>8. CASE CoreRestart
      BY <3>8 DEF CoreRestart, Restart, LoadFrom, DeviceStates, Configured
    <3>9. QED
      BY <3>2, <3>3, <3>4, <3>5, <3>6, <3>7, <3>8 DEF CoreNext, Dispatch, RemovalStep
  <2>5. QED
    BY <2>1, <2>2, <2>3, <2>4
<1>3. QED
  BY <1>1, <1>2, CoreInvariance, PTL DEF CoreSpec

\* No action that waits and no child is left to a device that is gone, under the same
\* condition.
THEOREM NothingDanglesCorrect ==
    ASSUME ParentsAreRoots
    PROVE  CoreSpec => []NothingDangles
BY WaitingCorrect, ChildrenCorrect, PTL DEF NothingDangles
\* Taking out a device that a rule without a device does not name changes nothing of it:
\* what removeDeviceFromRule() clears is cleared already.
LEMMA NothingLeftToTake ==
    ASSUME NEW c, NEW d, NEW e, IsActionList(ConfigWithoutDevice(c, d).actions),
           \A ev \in ConfigWithoutDevice(c, d).events : ev.device # e,
           ~ContainsDevice(ConfigWithoutDevice(c, d).evaluator, e),
           ActionsOn(ConfigWithoutDevice(c, d).actions, e) = {}
    PROVE  ConfigWithoutDevice(ConfigWithoutDevice(c, d), e) = ConfigWithoutDevice(c, d)
<1> DEFINE old == ConfigWithoutDevice(c, d)
<1>1. {ev \in old.events : ev.device # e} = old.events
  OBVIOUS
<1>2. WithoutDevice(old.evaluator, e) = old.evaluator
  <2> DEFINE t == old.evaluator
  <2>1. t = WithoutDevice(c.evaluator, d)
    BY DEF ConfigWithoutDevice
  <2>2. t = [p \in DOMAIN t |-> t[p]]
    BY <2>1 DEF WithoutDevice
  <2>3. \A p \in DOMAIN t : t[p].descriptor.device # e
    BY DEF ContainsDevice
  <2> HIDE DEF t
  <2>4. WithoutDevice(t, e) = t
    BY <2>2, <2>3 DEF WithoutDevice
  <2>5. QED
    BY <2>4 DEF t
<1>3. ActionsWithout(old.actions, e) = old.actions
  BY ActionsWithoutNothing
<1>4. ConfigWithoutDevice(old, e) =
        [events |-> old.events, evaluator |-> old.evaluator, actions |-> old.actions,
         exitActions |-> <<>>, enabled |-> FALSE, executable |-> FALSE]
  BY <1>1, <1>2, <1>3 DEF ConfigWithoutDevice
<1>5. old = [events |-> old.events, evaluator |-> old.evaluator, actions |-> old.actions,
             exitActions |-> <<>>, enabled |-> FALSE, executable |-> FALSE]
  BY DEF ConfigWithoutDevice
<1>6. QED
  BY <1>4, <1>5

\* What the removal still has to do with a rule: all of it, and the rule names one of
\* the devices; or a device has been taken out of the rule already.
Concerned(id) == \E d \in removal.devices : id \in FindRules(d)

Stripped(id) == \E c, d : m_rules[id].config = ConfigWithoutDevice(c, d)

Planned ==
    \A id \in DOMAIN removal.policy :
        \/ Concerned(id)
        \/ removal.policy[id] = "Update" /\ Stripped(id)

\* A rule that a step of the engine leaves alone names what it named.
LEMMA SameFinds ==
    ASSUME NEW id \in DOMAIN m_rules \cap DOMAIN m_rules', m_rules'[id] = m_rules[id], NEW d
    PROVE  id \in FindRules(d)' <=> id \in FindRules(d)
BY DEF FindRules

\* The two steps that change a rule change no other one.
LEMMA OneRuleChanges ==
    ASSUME NEW id, NEW d, RemoveRule(id) \/ RemoveDeviceFromRule(id, d)
    PROVE  \A i \in DOMAIN m_rules \ {id} : i \in DOMAIN m_rules' /\ m_rules'[i] = m_rules[i]
BY DEF RemoveRule, RemoveDeviceFromRule, Without, With, Restrict

\* What is planned stays so.
LEMMA StaysPlanned ==
    ASSUME CoreInv, Planned, [CoreNext]_coreVars
    PROVE  Planned'
<1>1. ASSUME removal' = NoRemoval PROVE Planned'
  <2>1. DOMAIN removal'.policy = {}
    BY <1>1 DEF NoRemoval
  <2>2. QED
    BY <2>1 DEF Planned
<1>2. stack # <<>> => removal = NoRemoval
  BY DEF CoreInv, RemovalSound
<1>3. CASE Dispatch
  BY <1>1, <1>2, <1>3 DEF Dispatch, PluginSignals, ExecuteNext, ReturnFromCall
<1>4. ASSUME NEW id \in RuleIds, RemovalCascades(id) PROVE Planned'
  <2>1. RemoveRule(id) /\ removal' = Settled(id)
    BY <1>4 DEF RemovalCascades
  <2>2. /\ removal'.devices = removal.devices
        /\ DOMAIN removal'.policy = DOMAIN removal.policy \ {id}
        /\ \A i \in DOMAIN removal.policy \ {id} : removal'.policy[i] = removal.policy[i]
    BY <2>1, SettledRemoval DEF CoreInv
  <2>3. ASSUME NEW i \in DOMAIN removal.policy \ {id}
        PROVE  /\ m_rules'[i] = m_rules[i]
               /\ \A d : i \in FindRules(d)' <=> i \in FindRules(d)
    <3>1. i \in DOMAIN m_rules /\ i \in DOMAIN m_rules' /\ m_rules'[i] = m_rules[i]
      BY <2>1, OneRuleChanges DEF CoreInv, RemovalTyped
    <3>2. QED
      BY <3>1, SameFinds
  <2>4. QED
    BY <2>2, <2>3 DEF Planned, Concerned, Stripped
<1>5. ASSUME NEW id \in RuleIds, NEW d \in DeviceIds, RemovalUpdates(id, d) PROVE Planned'
  <2>1. /\ RemoveDeviceFromRule(id, d)
        /\ removal.policy[id] = "Update"
        /\ removal' = IF removal.left[id] = {d} THEN Settled(id)
                      ELSE [removal EXCEPT !.left[id] = @ \ {d}]
    BY <1>5 DEF RemovalUpdates
  <2>2. /\ removal'.devices = removal.devices
        /\ DOMAIN removal'.policy \subseteq DOMAIN removal.policy
        /\ \A i \in DOMAIN removal'.policy : removal'.policy[i] = removal.policy[i]
    <3>1. CASE removal.left[id] = {d}
      <4>1. removal' = Settled(id)
        BY <2>1, <3>1
      <4>2. QED
        BY <4>1, SettledRemoval DEF CoreInv
    <3>2. CASE removal.left[id] # {d}
      BY <2>1, <3>2 DEF CoreInv, RemovalTyped
    <3>3. QED
      BY <3>1, <3>2
  <2>3. ASSUME NEW i \in DOMAIN removal.policy \ {id}
        PROVE  /\ m_rules'[i] = m_rules[i]
               /\ \A e : i \in FindRules(e)' <=> i \in FindRules(e)
    <3>1. i \in DOMAIN m_rules /\ i \in DOMAIN m_rules' /\ m_rules'[i] = m_rules[i]
      BY <2>1, OneRuleChanges DEF CoreInv, RemovalTyped
    <3>2. QED
      BY <3>1, SameFinds
  <2>4. Stripped(id)'
    <3>1. m_rules'[id].config = ConfigWithoutDevice(m_rules[id].config, d)
      BY <2>1 DEF RemoveDeviceFromRule, With, NewRule
    <3>2. QED
      BY <3>1 DEF Stripped
  <2>5. ASSUME NEW i \in DOMAIN removal'.policy
        PROVE  Concerned(i)' \/ (removal'.policy[i] = "Update" /\ Stripped(i)')
    <3>1. CASE i = id
      BY <2>1, <2>2, <2>4, <3>1
    <3>2. CASE i # id
      BY <2>2, <2>3, <3>2 DEF Planned, Concerned, Stripped
    <3>3. QED
      BY <3>1, <3>2
  <2>6. QED
    BY <2>5 DEF Planned
<1>6. ASSUME NEW d \in DeviceIds, RemovalTakesChild(d) PROVE Planned'
  BY <1>6 DEF RemovalTakesChild, Planned
<1>7. CASE RemovalTakesRoot
  BY <1>1, <1>7 DEF RemovalTakesRoot
<1>8. ASSUME NEW d \in DeviceIds, NEW signal \in Signal, PluginCalled(d, signal) PROVE Planned'
  BY <1>1, <1>8 DEF PluginCalled, Idle
<1>9. ASSUME NEW id \in RuleIds, ExecuteActions(id) \/ ExecuteExitActions(id) PROVE Planned'
  BY <1>1, <1>9 DEF ExecuteActions, ExecuteExitActions, Idle
<1>10. ASSUME NEW root \in DeviceIds, NEW policies \in Policies, BeginRemoval(root, policies)
       PROVE  Planned'
  <2> DEFINE devices == {root} \cup FindChildDevices(root)
             offending == OffendingRules(root, devices)
             policy == ToBeChanged(offending, policies)
  <2>1. /\ removal'.devices = devices
        /\ removal'.policy = policy
        /\ m_rules' = m_rules
    BY <1>10 DEF BeginRemoval, vars, engineVars
  <2>2. DOMAIN policy = offending
    BY DEF ToBeChanged, Restrict
  <2>3. \A id \in offending : \E d \in devices : id \in FindRules(d)
    BY DEF OffendingRules
  <2>4. \A d : FindRules(d)' = FindRules(d)
    BY <2>1 DEF FindRules
  <2> HIDE DEF devices, offending, policy
  <2>5. QED
    BY <2>1, <2>2, <2>3, <2>4 DEF Planned, Concerned
<1>11. CASE ClientAction
  BY <1>1, <1>11 DEF ClientAction, Idle
<1>12. CASE CoreRestart
  BY <1>1, <1>12 DEF CoreRestart
<1>13. CASE UNCHANGED coreVars
  <2>1. removal' = removal /\ m_rules' = m_rules
    BY <1>13 DEF coreVars, vars, engineVars
  <2>2. \A d : FindRules(d)' = FindRules(d)
    BY <2>1 DEF FindRules
  <2>3. QED
    BY <2>1, <2>2 DEF Planned, Concerned, Stripped
<1>14. QED
  BY <1>3, <1>4, <1>5, <1>6, <1>7, <1>8, <1>9, <1>10, <1>11, <1>12, <1>13
  DEF CoreNext, RemovalStep

\* A step of a removal spares every rule that names none of its devices.
LEMMA StepSpares ==
    ASSUME CoreInv, Planned, RemovalStep, NEW id \in DOMAIN m_rules
    PROVE  \/ id \in DOMAIN m_rules' /\ m_rules'[id].config = m_rules[id].config
           \/ Concerned(id)
<1>1. ASSUME NEW i \in RuleIds, RemovalCascades(i)
      PROVE  \/ id \in DOMAIN m_rules' /\ m_rules'[id].config = m_rules[id].config
             \/ Concerned(id)
  <2>1. CASE i = id
    BY <1>1, <2>1 DEF RemovalCascades, Current, Planned
  <2>2. CASE i # id
    BY <1>1, <2>2, OneRuleChanges DEF RemovalCascades
  <2>3. QED
    BY <2>1, <2>2
<1>2. ASSUME NEW i \in RuleIds, NEW d \in DeviceIds, RemovalUpdates(i, d)
      PROVE  \/ id \in DOMAIN m_rules' /\ m_rules'[id].config = m_rules[id].config
             \/ Concerned(id)
  <2>1. CASE i # id
    BY <1>2, <2>1, OneRuleChanges DEF RemovalUpdates
  <2>2. CASE i = id /\ ~Concerned(id)
    <3>1. /\ id \in DOMAIN removal.policy
          /\ d \in removal.devices
          /\ RemoveDeviceFromRule(id, d)
      BY <1>2, <2>2 DEF RemovalUpdates, Current, CoreInv, RemovalTyped
    <3>2. id \notin FindRules(d)
      BY <2>2, <3>1 DEF Concerned
    <3>3. PICK c, e : m_rules[id].config = ConfigWithoutDevice(c, e)
      BY <2>2, <3>1 DEF Planned, Stripped
    <3>4. ConfigWithoutDevice(m_rules[id].config, d) = m_rules[id].config
      <4>1. IsActionList(m_rules[id].config.actions)
        BY DEF CoreInv, Inv, TypeOK, IsRule, IsConfig
      <4>2. QED
        BY <3>2, <3>3, <4>1, NothingLeftToTake DEF FindRules
    <3>5. /\ DOMAIN m_rules' = DOMAIN m_rules
          /\ m_rules'[id].config = ConfigWithoutDevice(m_rules[id].config, d)
      BY <3>1 DEF RemoveDeviceFromRule, With, NewRule
    <3>6. QED
      BY <3>4, <3>5
  <2>3. QED
    BY <2>1, <2>2
<1>3. CASE (\E d \in DeviceIds : RemovalTakesChild(d)) \/ RemovalTakesRoot
  BY <1>3 DEF RemovalTakesChild, RemovalTakesRoot, TakeDevice, engineVars
<1>4. QED
  BY <1>1, <1>2, <1>3 DEF RemovalStep

\* Removing a device changes or deletes only rules that name it or one of its children,
\* whatever policies the client lists and in whichever order the rules are dealt with
\* (GuhCore::removeConfiguredDevice).
THEOREM OtherRulesSparedCorrect == CoreSpec => OtherRulesSpared
<1>1. CoreInit => Planned
  <2>1. CoreInit => DOMAIN removal.policy = {}
    BY DEF CoreInit, NoRemoval
  <2>2. QED
    BY <2>1 DEF Planned
<1>2. CoreInv /\ Planned /\ [CoreNext]_coreVars => Planned'
  BY StaysPlanned
<1>3. CoreInv /\ Planned =>
        [RemovalStep =>
            \A id \in DOMAIN m_rules :
                \/ id \in DOMAIN m_rules' /\ m_rules'[id].config = m_rules[id].config
                \/ \E d \in removal.devices : id \in FindRules(d)]_coreVars
  BY StepSpares DEF Concerned
<1>4. QED
  BY <1>1, <1>2, <1>3, CoreInvariance, PTL DEF CoreSpec, OtherRulesSpared
=============================================================================
