-------------------------------- MODULE Lru --------------------------------
(***************************************************************************)
(* The OrderedDict idiom the repository uses for every bounded map: a key  *)
(* that is read or written moves to the end, and a write that makes the    *)
(* map larger than its bound drops the entry at the front.  Only the order *)
(* of the keys is kept here; the values live beside it.                    *)
(***************************************************************************)
EXTENDS SequencesExt

\* OrderedDict.move_to_end after an insertion that may be new.
Touch(order, x) == Append(RemoveFirst(order, x), x)

\* The key a write of x would drop, as a set: empty while there is room.
Victims(order, x, max) ==
    IF Len(Touch(order, x)) > max THEN {Head(Touch(order, x))} ELSE {}

\* The order after a write of x.
Admit(order, x, max) ==
    IF Len(Touch(order, x)) > max THEN Tail(Touch(order, x)) ELSE Touch(order, x)
=============================================================================
