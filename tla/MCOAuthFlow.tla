---------------------------- MODULE MCOAuthFlow ----------------------------
(* Small instances of OAuthFlow for TLC. *)
EXTENDS OAuthFlow, TLC

CONSTANTS f1, f2, pod1, pod2, app, plain, headed

TwoFlows == {f1, f2}
OneFlow == {f1}
OnePod == {pod1}
TwoPods == {pod1, pod2}
OneApp == {app}
BothConfigs == {plain, headed}
PlainOnly == {plain}
Headed == {headed}
NoneHeaded == {}
FlowSymmetry == Permutations(TwoFlows)
============================================================================
