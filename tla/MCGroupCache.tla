---------------------------- MODULE MCGroupCache ----------------------------
(* Sessions and keys are interchangeable: if all but one session ask for   *)
(* the first key, and the other for any, every case is met up to renaming. *)
EXTENDS GroupCache

CONSTANTS FirstKey, AnySession

FirstOrAny == [s \in Sessions |-> IF s = AnySession THEN Keys ELSE {FirstKey}]
AllRings == SUBSET Keys
=============================================================================
