---------------------------- MODULE MCMainThread ----------------------------
(***************************************************************************)
(* An instance of MainThread: two keys of the local player, and the note   *)
(* both windows contain.                                                   *)
(***************************************************************************)
EXTENDS MainThread

ThreeNotes == {40, 71, 72}

DefaultBaseKey == [local |-> 36, remote |-> 72]
DefaultOctaves == [local |-> 3, remote |-> 3]
DefaultTranspose == [local |-> 12, remote |-> 0]

ZeroWord == [on |-> FALSE, channel |-> 0, key |-> 0]

Win32KeyCodes == {Win32TranslateKey[c] : c \in BindChars}
=============================================================================
