------------------------- MODULE MCSubscriptionBundle -------------------------
(* An instance for TLC: an event and its base type; the bundle's two        *)
(* subscriptions and two others, with orders that tie and that do not.      *)
EXTENDS SubscriptionBundle

MCTypeOf  == [own1 |-> "child", own2 |-> "base", other1 |-> "child", other2 |-> "child"]
MCOrderOf == [own1 |-> 0, own2 |-> 0, other1 |-> 0, other2 |-> 1]
MCMro     == <<"child", "base">>
==============================================================================
