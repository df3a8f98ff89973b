------------------------------- MODULE MCDialog -------------------------------
(* Two messages: answers to the last question of two owners' wizards, or   *)
(* both questions of one.                                                  *)
EXTENDS Dialog, TLC

CONSTANTS a, b

MCTexts   == {"cancel", "/nginx", "-", "d1", "d2", "{", "a b"}
MCDomains == MCTexts \ {"cancel", "/nginx"}
MCGiven   == {a :> "d2" @@ b :> "d1", a :> None @@ b :> "domain"}
=============================================================================
