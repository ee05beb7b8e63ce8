----------------------------- MODULE BardKeyboard -----------------------------
(***************************************************************************)
(* What the game is promised: a keyboard on which one key at a time goes   *)
(* down, and only once the key before it has come up ("There is no         *)
(* polyphony, so release any pressed key before we can press another       *)
(* one", sussybard.cpp:242).                                               *)
(***************************************************************************)
CONSTANT KeyCodes
VARIABLE keysDown

Init == keysDown = {}

Press(code) == keysDown = {} /\ keysDown' = {code}

Release(code) == keysDown = {code} /\ keysDown' = {}

Next == \E code \in KeyCodes : Press(code) \/ Release(code)

Spec == Init /\ [][Next]_keysDown
=============================================================================
