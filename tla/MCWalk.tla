------------------------------- MODULE MCWalk -------------------------------
(* Instances of KeyspaceWalk for TLC.                                      *)
EXTENDS WalkProperties, TLC

CONSTANTS walk, otherWalk, sweep

AllCursors == Odometers \cup {NoCursor}
SomeValid == {c \in Odometers : c[CursorLength] = 1}
SomeFunded == {c \in SomeValid : c[1] = 1}
=============================================================================
