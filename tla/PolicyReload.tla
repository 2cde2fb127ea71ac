---------------------------- MODULE PolicyReload ----------------------------
(***************************************************************************)
(* policy.py: evaluate_policy lists the rule files of a mounted ConfigMap, *)
(* reads them one by one in the order of their names, and answers by the   *)
(* first rule that denies the request.  Meanwhile the kubelet may replace  *)
(* the ConfigMap: all contents in one step (the directory they are linked  *)
(* to), and after that the links to new and to removed names, one by one.  *)
(*                                                                         *)
(* Calls share nothing, so one call at a time stands for all.  A file is a *)
(* number, its place in the order of the names.  seen does not exist in    *)
(* the code: it records what the mount showed from the start of a call to  *)
(* its answer.                                                             *)
(***************************************************************************)
EXTENDS Naturals, Sequences, FiniteSets

CONSTANTS
    NumFiles,   \* names that a ConfigMap may have
    Absent,     \* a name that is not there
    Unreadable, \* a file that does not parse, or has no list of rules
    Any,        \* serverName or toolName is left out of a rule
    Servers, Tools,
    Versions,   \* the ConfigMaps that may be mounted
    MaxViews    \* bound: what the mount may show during one call

Files == 1 .. NumFiles

\* An entry of effect "malformed" is not a mapping at all.
Rules == [effect : {"deny", "other", "malformed"},
          server : Servers \union {Any}, tool : Tools \union {Any}]
Contents == {Absent, Unreadable} \union Seq(Rules)
Requests == [server : Servers, tool : Tools]

ASSUME PolicyAssumption ==
    /\ NumFiles \in Nat /\ MaxViews \in Nat
    /\ \A v \in Versions : DOMAIN v = Files /\ \A f \in Files : v[f] \in Contents

VARIABLES
    mounted,    \* the ConfigMap whose contents are mounted
    visible,    \* the names in the directory
    phase,      \* of the call: "idle", "loading", "done"
    request,    \* its argument
    listed,     \* what is left of sorted(glob.glob(...))
    loaded,     \* file -> the rules the call has read from it
    outcome,    \* "none", "allowed", "denied", "raised"
    seen        \* what the mount showed during the call

mountVars == <<mounted, visible>>
callVars == <<phase, request, listed, loaded, outcome>>
vars == <<mountVars, callVars, seen>>

Names(v) == {f \in Files : v[f] # Absent}

\* What opening each name shows now.
View == [f \in Files |-> IF f \in visible THEN mounted[f] ELSE Absent]

-------------------------------------------------------------------------------
(* The decision *)

\* What a file contributes: nothing, when it cannot be opened or used.
RulesOf(content) == IF content \in {Absent, Unreadable} THEN <<>> ELSE content
AllRules(view) == [f \in Files |-> RulesOf(view[f])]

\* _match
Match(rule, r) == rule.server \in {Any, r.server} /\ rule.tool \in {Any, r.tool}

Denies(rule, r) == rule.effect = "deny" /\ Match(rule, r)

\* The merged list has the rules by file, then by place.
Places(rules) == UNION {{f} \X DOMAIN rules[f] : f \in Files}
Before(p, q) == p[1] < q[1] \/ (p[1] = q[1] /\ p[2] < q[2])

\* The loop of _evaluate ends at the first rule that denies, or raises at an
\* entry that has no get.
Outcome(rules, r) ==
    LET Denying == {p \in Places(rules) : Denies(rules[p[1]][p[2]], r)}
        Raising == {p \in Places(rules) : rules[p[1]][p[2]].effect = "malformed"}
    IN  IF \E p \in Denying : \A q \in Raising : ~Before(q, p) THEN "denied"
        ELSE IF Raising # {} THEN "raised" ELSE "allowed"

-------------------------------------------------------------------------------
Init ==
    /\ mounted \in Versions
    /\ visible = Names(mounted)
    /\ phase = "idle"
    /\ request \in Requests
    /\ listed = {}
    /\ loaded = [f \in Files |-> <<>>]
    /\ outcome = "none"
    /\ seen = {}

(* The kubelet *)

\* The mount shows something else, in the middle of a call or between calls.
Show ==
    /\ phase = "loading" => Cardinality(seen) < MaxViews
    /\ seen' = IF phase = "loading" THEN seen \union {View'} ELSE seen
    /\ UNCHANGED callVars

\* The directory that all names are linked to is replaced.
Swap ==
    /\ visible = Names(mounted)
    /\ \E v \in Versions : mounted' = v
    /\ UNCHANGED visible
    /\ Show

\* The links follow.
Link ==
    /\ \/ \E f \in Names(mounted) \ visible : visible' = visible \union {f}
       \/ \E f \in visible \ Names(mounted) : visible' = visible \ {f}
    /\ UNCHANGED mounted
    /\ Show

(* evaluate_policy *)

\* Faulty variant: rules that were read once are kept.
BeginCached ==
    /\ phase \in {"idle", "done"}
    /\ \E r \in Requests : request' = r
    /\ phase' = "loading"
    /\ listed' = {f \in visible : loaded[f] = <<>>}
    /\ outcome' = "none"
    /\ seen' = {View}
    /\ UNCHANGED <<mountVars, loaded>>

\* Faulty variant: the last decision is still there.
BeginDirty ==
    /\ phase \in {"idle", "done"}
    /\ \E r \in Requests : request' = r
    /\ phase' = "loading"
    /\ listed' = visible
    /\ loaded' = [f \in Files |-> <<>>]
    /\ seen' = {View}
    /\ UNCHANGED <<mountVars, outcome>>

\* A call lists the files.
Begin ==
    /\ phase \in {"idle", "done"}
    /\ \E r \in Requests : request' = r
    /\ phase' = "loading"
    /\ listed' = visible
    /\ loaded' = [f \in Files |-> <<>>]
    /\ outcome' = "none"
    /\ seen' = {View}
    /\ UNCHANGED mountVars

\* Faulty variant: the try is around the loop, so a bad file ends it.
LoadUntilError ==
    /\ phase = "loading"
    /\ \E f \in listed :
          /\ \A g \in listed : f <= g
          /\ listed' = IF View[f] \in {Absent, Unreadable} THEN {} ELSE listed \ {f}
          /\ loaded' = [loaded EXCEPT ![f] = RulesOf(View[f])]
    /\ UNCHANGED <<mountVars, phase, request, outcome, seen>>

\* Faulty variant: the first file with rules is the policy.
LoadFirst ==
    /\ phase = "loading"
    /\ \E f \in listed :
          /\ \A g \in listed : f <= g
          /\ listed' = IF RulesOf(View[f]) # <<>> THEN {} ELSE listed \ {f}
          /\ loaded' = [loaded EXCEPT ![f] = RulesOf(View[f])]
    /\ UNCHANGED <<mountVars, phase, request, outcome, seen>>

\* The next file is opened, through the directory it is now linked to.
Load ==
    /\ phase = "loading"
    /\ \E f \in listed :
          /\ \A g \in listed : f <= g
          /\ listed' = listed \ {f}
          /\ loaded' = [loaded EXCEPT ![f] = RulesOf(View[f])]
    /\ UNCHANGED <<mountVars, phase, request, outcome, seen>>

Answer ==
    /\ phase = "loading"
    /\ listed = {}
    /\ phase' = "done"
    /\ outcome' = Outcome(loaded, request)
    /\ UNCHANGED <<mountVars, request, listed, loaded, seen>>

Next == Swap \/ Link \/ Begin \/ Load \/ Answer

\* A call goes on, and the kubelet finishes what it began.
Fairness == WF_vars(Load \/ Answer) /\ WF_vars(Link)

Spec == Init /\ [][Next]_vars
FairSpec == Spec /\ Fairness

-------------------------------------------------------------------------------
\* Every variable has its type, and there is a decision once all listed files
\* were read (policy.py:60-76).
TypeOK ==
    /\ mounted \in Versions
    /\ visible \subseteq Files
    /\ phase \in {"idle", "loading", "done"}
    /\ request \in Requests
    /\ listed \subseteq Files
    /\ loaded \in [Files -> Seq(Rules)]
    /\ outcome \in {"none", "allowed", "denied", "raised"}
    /\ outcome # "none" <=> phase = "done"
    /\ phase = "done" => listed = {}
    /\ seen \subseteq [Files -> Contents]

\* "a deny anywhere blocks the call" (docs/group-based-access.md:378): a file that
\* denies the request as long as the call takes has it not allowed, whatever
\* happens to the other files and whether or not they can be read.  A rule that
\* moves to another file meanwhile may be missed.
StableDenyBlocks ==
    phase = "done" /\ outcome = "allowed" =>
        \A f \in Files : \E v \in seen : \A i \in DOMAIN RulesOf(v[f]) :
            ~Denies(RulesOf(v[f])[i], request)

\* "files are re-read on every call" (policy.py:7): a call is denied only by a
\* rule that was mounted while it ran.
DeniedByACurrentRule ==
    outcome = "denied" =>
        \E v \in seen, f \in Files : \E i \in DOMAIN RulesOf(v[f]) :
            Denies(RulesOf(v[f])[i], request)

OneFileChanged ==
    \E f \in Files : \A v, w \in seen : \A g \in Files \ {f} : v[g] = w[g]

\* "Load and merge all policy YAML files" (policy.py:28): when at most one file
\* changes during a call, its decision is that of what was mounted at some moment
\* of it, although the files are read one by one.  This covers the mount of one
\* file that is deployed (manifests/team-a-policy.yaml).
OneChangeIsAtomic ==
    phase = "done" /\ OneFileChanged =>
        \E v \in seen : outcome = Outcome(AllRules(v), request)

\* "changes take effect without a sidecar restart" (policy.py:7-8): when the
\* ConfigMap is not changed any more, calls are in the end decided by it.
UpdateTakesEffect ==
    <>[][UNCHANGED mounted]_vars /\ []<>(phase = "loading") =>
        <>[](phase = "done" => outcome = Outcome(AllRules(mounted), request))
=============================================================================
