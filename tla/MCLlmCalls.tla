----------------------------- MODULE MCLlmCalls -----------------------------
(* LlmCalls for TLC: models of one provider, whose keys the calls share.      *)
EXTENDS LlmCalls

CONSTANTS m1, m2, c1, provider

OnOneProvider == [m \in Models |-> provider]
TheModels     == [c \in Calls |-> IF c = c1 THEN m1 ELSE m2]
TwoModels     == <<m1, m2>>
AnyVendor     == [x \in Providers |-> TheVendors]
TheTypes      == [s \in Signatures |-> "world"]
OneRest       == <<1>>
=============================================================================
