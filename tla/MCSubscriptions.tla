-------------------------- MODULE MCSubscriptions --------------------------
(* Instances of Subscriptions: a customer and a reseller; a plan without a  *)
(* price, a cheap one that lasts and a dear one that does not.              *)
EXTENDS Subscriptions, TLC

CONSTANTS ann, rep, c1, c2, g1, s1, s2, s3

MCPlans == {"trial", "basic", "pro"}
MCPrice == [p \in MCPlans |-> CASE p = "trial" -> 0 [] p = "basic" -> 2 [] p = "pro" -> 3]
MCCut == [p \in MCPlans |-> CASE p = "trial" -> 0 [] p = "basic" -> 1 [] p = "pro" -> 2]
MCDays == [p \in MCPlans |-> CASE p = "trial" -> 1 [] p = "basic" -> 3 [] p = "pro" -> 1]
MCGiftPlan == [g \in Gifts |-> "basic"]
MCShifts == {-2, 1}

Interchangeable == Permutations(Ids) \cup Permutations(Chats)
=============================================================================
