---------------------------- MODULE MCBotUpdates ----------------------------
(* Instance of BotUpdates for TLC: an administrator and one more account,   *)
(* two users of which one is bound.                                         *)
EXTENDS BotUpdates

CONSTANTS ann, bob, phone, boss

MCUsers == {ann, bob}
MCAccounts == {phone, boss}
MCAdmins == {boss}
MCOwner == [x \in MCUsers |-> IF x = ann THEN phone ELSE Nobody]
=============================================================================
