---------------------------- MODULE MCDispatcher ----------------------------
(* Five presses: three in a topic and two of a user.                       *)
EXTENDS Dispatcher, TLC

CONSTANTS a1, a2, a3, a4, a5, topic, user

MCKeyOf == (a1 :> topic) @@ (a2 :> topic) @@ (a3 :> topic) @@ (a4 :> user) @@ (a5 :> user)
=============================================================================
