------------------------- MODULE PolicyReload_proofs -------------------------
(***************************************************************************)
(* Proofs about PolicyReload, for any files, rules and ConfigMaps.         *)
(***************************************************************************)
EXTENDS PolicyReload, TLAPS

\* What a call has read from a file, or found missing in its list, is what the
\* mount showed at some moment of the call.
ReadInv ==
    /\ phase = "loading" => View \in seen
    /\ phase # "idle" =>
          \A f \in Files \ listed : \E v \in seen : loaded[f] = RulesOf(v[f])
    /\ outcome # "none" => outcome = Outcome(loaded, request)

-------------------------------------------------------------------------------
(* Type correctness *)

\* The mount shows a content for each name.
LEMMA ViewType == ASSUME mounted \in Versions PROVE View \in [Files -> Contents]
  BY PolicyAssumption DEF View, Contents

\* A content contributes a list of rules.
LEMMA RulesOfType == ASSUME NEW c \in Contents PROVE RulesOf(c) \in Seq(Rules)
  BY DEF Contents, RulesOf

\* A decision is one of three.
LEMMA OutcomeType ==
    ASSUME NEW rules, NEW r PROVE Outcome(rules, r) \in {"allowed", "denied", "raised"}
  BY DEF Outcome

\* Every step of the kubelet records what the mount shows after it.
LEMMA ShowType ==
    ASSUME TypeOK, mounted' \in Versions, Show PROVE seen' \subseteq [Files -> Contents]
  <1>1. View' \in [Files -> Contents]
    BY PolicyAssumption DEF View, Contents
  <1> QED
    BY <1>1 DEF Show, TypeOK

\* Every action keeps the types.
LEMMA TypeStep == TypeOK /\ [Next]_vars => TypeOK'
  <1> SUFFICES ASSUME TypeOK, [Next]_vars PROVE TypeOK'
    OBVIOUS
  <1> USE DEF mountVars, callVars
  <1>1. CASE Swap
    <2>1. mounted' \in Versions
      BY <1>1 DEF Swap
    <2> QED
      BY <1>1, <2>1, ShowType DEF Swap, Show, TypeOK
  <1>2. CASE Link
    <2>1. mounted' \in Versions /\ visible' \subseteq Files
      BY <1>2 DEF Link, Names, TypeOK
    <2> QED
      BY <1>2, <2>1, ShowType DEF Link, Show, TypeOK
  <1>3. CASE Begin
    <2>1. View \in [Files -> Contents]
      BY ViewType DEF TypeOK
    <2>2. loaded' \in [Files -> Seq(Rules)]
      BY <1>3 DEF Begin
    <2> QED
      BY <1>3, <2>1, <2>2 DEF Begin, TypeOK
  <1>4. CASE Load
    <2>1. PICK f \in listed : /\ listed' = listed \ {f}
                              /\ loaded' = [loaded EXCEPT ![f] = RulesOf(View[f])]
      BY <1>4 DEF Load
    <2>2. f \in Files /\ View[f] \in Contents
      BY <2>1, ViewType DEF TypeOK
    <2>3. loaded' \in [Files -> Seq(Rules)]
      BY <2>1, <2>2, RulesOfType DEF TypeOK
    <2> QED
      BY <1>4, <2>1, <2>3 DEF Load, TypeOK
  <1>5. CASE Answer
    <2>1. outcome' \in {"allowed", "denied", "raised"}
      BY <1>5, OutcomeType DEF Answer
    <2> QED
      BY <1>5, <2>1 DEF Answer, TypeOK
  <1>6. CASE UNCHANGED vars
    BY <1>6 DEF vars, TypeOK
  <1> QED
    BY <1>1, <1>2, <1>3, <1>4, <1>5, <1>6 DEF Next

\* Every variable of the policy plugin has its type.
THEOREM TypeCorrect == Spec => []TypeOK
  <1>1. Init => TypeOK
    BY DEF Init, Names, TypeOK
  <1> QED
    BY <1>1, TypeStep, PTL DEF Spec

-------------------------------------------------------------------------------
(* What a call reads *)

\* Every action keeps the account of what was read and when.
LEMMA ReadStep == TypeOK /\ ReadInv /\ [Next]_vars => ReadInv'
  <1> SUFFICES ASSUME TypeOK, ReadInv, [Next]_vars PROVE ReadInv'
    OBVIOUS
  <1> USE DEF mountVars, callVars
  <1>1. CASE Swap \/ Link
    <2>1. Show
      BY <1>1 DEF Swap, Link
    <2>2. phase = "loading" => View' \in seen'
      BY <2>1 DEF Show
    <2>3. seen \subseteq seen'
      BY <2>1 DEF Show
    <2> QED
      BY <2>1, <2>2, <2>3 DEF Show, ReadInv
  <1>2. CASE Begin
    <2>1. View' = View
      BY <1>2 DEF Begin, View
    <2>2. ASSUME NEW f \in Files \ listed' PROVE loaded'[f] = RulesOf(View[f])
      <3>1. View[f] = Absent /\ loaded'[f] = <<>>
        BY <1>2, <2>2 DEF Begin, View
      <3> QED
        BY <3>1 DEF RulesOf
    <2> QED
      BY <1>2, <2>1, <2>2 DEF Begin, ReadInv
  <1>3. CASE Load
    <2>1. PICK f \in listed : /\ listed' = listed \ {f}
                              /\ loaded' = [loaded EXCEPT ![f] = RulesOf(View[f])]
      BY <1>3 DEF Load
    <2>2. View \in seen /\ View' = View
      BY <1>3 DEF Load, ReadInv, View
    <2>3. ASSUME NEW g \in Files \ listed'
          PROVE  \E v \in seen : loaded'[g] = RulesOf(v[g])
      <3>1. CASE g = f
        BY <2>1, <2>2, <2>3, <3>1 DEF TypeOK
      <3>2. CASE g # f
        <4>1. g \in Files \ listed /\ loaded'[g] = loaded[g]
          BY <2>1, <2>3, <3>2 DEF TypeOK
        <4> QED
          BY <1>3, <4>1 DEF Load, ReadInv
      <3> QED
        BY <3>1, <3>2
    <2> QED
      BY <1>3, <2>2, <2>3 DEF Load, ReadInv, TypeOK
  <1>4. CASE Answer
    BY <1>4 DEF Answer, ReadInv
  <1>5. CASE UNCHANGED vars
    <2>1. View' = View
      BY <1>5 DEF vars, View
    <2> QED
      BY <1>5, <2>1 DEF vars, ReadInv
  <1> QED
    BY <1>1, <1>2, <1>3, <1>4, <1>5 DEF Next

\* A call reads of each file what the mount showed at some moment of the call.
THEOREM ReadsWhatWasMounted == Spec => []ReadInv
  <1>1. Init => ReadInv
    BY DEF Init, ReadInv
  <1> QED
    BY TypeCorrect, <1>1, ReadStep, PTL DEF Spec

-------------------------------------------------------------------------------
(* What a call decides *)

\* A rule that denies is not overlooked: it denies, or something raised before.
LEMMA DenialNotAllowed ==
    ASSUME NEW rules, NEW r, NEW f \in Files, NEW i \in DOMAIN rules[f],
           Denies(rules[f][i], r)
    PROVE  Outcome(rules, r) # "allowed"
  <1>1. <<f, i>> \in Places(rules)
    BY DEF Places
  <1> DEFINE Denying == {p \in Places(rules) : Denies(rules[p[1]][p[2]], r)}
             Raising == {p \in Places(rules) : rules[p[1]][p[2]].effect = "malformed"}
  <1>2. <<f, i>> \in Denying
    BY <1>1
  <1>3. CASE Raising = {}
    BY <1>2, <1>3 DEF Outcome
  <1>4. CASE Raising # {}
    BY <1>4 DEF Outcome
  <1> QED
    BY <1>3, <1>4

\* A denial has a rule that denies.
LEMMA DenialHasRule ==
    ASSUME NEW rules, NEW r, Outcome(rules, r) = "denied"
    PROVE  \E f \in Files : \E i \in DOMAIN rules[f] : Denies(rules[f][i], r)
  <1>1. PICK p \in Places(rules) : Denies(rules[p[1]][p[2]], r)
    BY DEF Outcome
  <1>2. p[1] \in Files /\ p[2] \in DOMAIN rules[p[1]]
    BY DEF Places
  <1> QED
    BY <1>1, <1>2

\* Files that deny a request during the whole call block it.
THEOREM StableDenyBlocksHolds == Spec => []StableDenyBlocks
  <1>1. ASSUME TypeOK, ReadInv PROVE StableDenyBlocks
    <2> SUFFICES ASSUME phase = "done", outcome = "allowed", NEW f \in Files
                 PROVE  \E v \in seen : \A i \in DOMAIN RulesOf(v[f]) :
                           ~Denies(RulesOf(v[f])[i], request)
      BY DEF StableDenyBlocks
    <2>1. PICK v \in seen : loaded[f] = RulesOf(v[f])
      BY <1>1 DEF TypeOK, ReadInv
    <2>2. Outcome(loaded, request) = "allowed"
      BY <1>1 DEF ReadInv
    <2>3. \A i \in DOMAIN loaded[f] : ~Denies(loaded[f][i], request)
      BY <2>2, DenialNotAllowed
    <2> QED
      BY <2>1, <2>3
  <1> QED
    BY TypeCorrect, ReadsWhatWasMounted, <1>1, PTL

\* A denial comes from a rule that was mounted while the call ran.
THEOREM DeniedByACurrentRuleHolds == Spec => []DeniedByACurrentRule
  <1>1. ASSUME TypeOK, ReadInv PROVE DeniedByACurrentRule
    <2> SUFFICES ASSUME outcome = "denied"
                 PROVE  \E v \in seen, f \in Files : \E i \in DOMAIN RulesOf(v[f]) :
                           Denies(RulesOf(v[f])[i], request)
      BY DEF DeniedByACurrentRule
    <2>1. phase = "done" /\ listed = {}
      BY <1>1 DEF TypeOK
    <2>2. PICK f \in Files : \E i \in DOMAIN loaded[f] : Denies(loaded[f][i], request)
      BY <1>1, DenialHasRule DEF ReadInv
    <2>3. PICK v \in seen : loaded[f] = RulesOf(v[f])
      BY <1>1, <2>1 DEF ReadInv
    <2> QED
      BY <2>2, <2>3
  <1> QED
    BY TypeCorrect, ReadsWhatWasMounted, <1>1, PTL

\* A call during which at most one file changes is decided at one moment.
THEOREM OneChangeIsAtomicHolds == Spec => []OneChangeIsAtomic
  <1>1. ASSUME TypeOK, ReadInv PROVE OneChangeIsAtomic
    <2> SUFFICES ASSUME phase = "done", OneFileChanged
                 PROVE  \E v \in seen : outcome = Outcome(AllRules(v), request)
      BY DEF OneChangeIsAtomic
    <2>1. PICK f \in Files : \A v, w \in seen : \A g \in Files \ {f} : v[g] = w[g]
      BY DEF OneFileChanged
    <2>2. \A g \in Files : \E w \in seen : loaded[g] = RulesOf(w[g])
      BY <1>1 DEF TypeOK, ReadInv
    <2>3. PICK v \in seen : loaded[f] = RulesOf(v[f])
      BY <2>2
    <2>4. ASSUME NEW g \in Files PROVE loaded[g] = RulesOf(v[g])
      <3>1. CASE g = f
        BY <2>3, <3>1
      <3>2. CASE g # f
        <4>1. PICK w \in seen : loaded[g] = RulesOf(w[g])
          BY <2>2
        <4>2. w[g] = v[g]
          BY <2>1, <3>2
        <4> QED
          BY <4>1, <4>2
      <3> QED
        BY <3>1, <3>2
    <2>5. loaded = AllRules(v)
      BY <1>1, <2>4 DEF TypeOK, AllRules
    <2>6. outcome = Outcome(loaded, request)
      BY <1>1 DEF TypeOK, ReadInv
    <2> QED
      BY <2>5, <2>6
  <1> QED
    BY TypeCorrect, ReadsWhatWasMounted, <1>1, PTL

\* The call is decided by what was mounted at some moment of it (policy.py:27-38).
DecidedAtOneMoment ==
    phase = "done" => \E v \in seen : outcome = Outcome(AllRules(v), request)

\* So is every call over the mount of one file, which is what is deployed.
THEOREM OneFileDecides == ASSUME NumFiles = 1 PROVE Spec => []DecidedAtOneMoment
  <1>1. Files = {1}
    BY DEF Files
  <1>2. OneChangeIsAtomic => DecidedAtOneMoment
    BY <1>1 DEF OneChangeIsAtomic, OneFileChanged, DecidedAtOneMoment
  <1> QED
    BY <1>2, OneChangeIsAtomicHolds, PTL

\* A call during which the mount shows one thing decides by that (policy.py:7-8).
QuietCallIsCurrent ==
    \A v \in [Files -> Contents] :
        phase = "done" /\ seen = {v} => outcome = Outcome(AllRules(v), request)

\* However many files there are, a quiet call sees the update before it, whole.
THEOREM QuietCallIsCurrentHolds == Spec => []QuietCallIsCurrent
  <1>1. ASSUME TypeOK, ReadInv PROVE QuietCallIsCurrent
    <2> SUFFICES ASSUME NEW v \in [Files -> Contents], phase = "done", seen = {v}
                 PROVE  outcome = Outcome(AllRules(v), request)
      BY DEF QuietCallIsCurrent
    <2>1. \A f \in Files : loaded[f] = RulesOf(v[f])
      BY <1>1 DEF TypeOK, ReadInv
    <2>2. loaded = AllRules(v)
      BY <1>1, <2>1 DEF TypeOK, AllRules
    <2> QED
      BY <1>1, <2>2 DEF TypeOK, ReadInv
  <1> QED
    BY TypeCorrect, ReadsWhatWasMounted, <1>1, PTL

\* Rules only restrict: whatever is added to the rules that deny a request, in
\* whatever file and place, the request is not allowed (policy.py:61-76).
THEOREM RulesOnlyRestrict ==
    ASSUME NEW rules, NEW more, NEW r,
           \A f \in Files : \A i \in DOMAIN rules[f] :
               \E g \in Files : \E j \in DOMAIN more[g] : more[g][j] = rules[f][i],
           Outcome(rules, r) = "denied"
    PROVE  Outcome(more, r) # "allowed"
  <1>1. PICK f \in Files : \E i \in DOMAIN rules[f] : Denies(rules[f][i], r)
    BY DenialHasRule
  <1>2. PICK i \in DOMAIN rules[f] : Denies(rules[f][i], r)
    BY <1>1
  <1>3. PICK g \in Files : \E j \in DOMAIN more[g] : more[g][j] = rules[f][i]
    OBVIOUS
  <1>4. PICK j \in DOMAIN more[g] : more[g][j] = rules[f][i]
    BY <1>3
  <1>5. Denies(more[g][j], r)
    BY <1>2, <1>4
  <1> QED
    BY <1>5, DenialNotAllowed
=============================================================================
