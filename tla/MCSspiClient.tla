---------------------------- MODULE MCSspiClient ----------------------------
(* Model-checking instance of SspiClient: the constants get small values.  *)
EXTENDS SspiClient

CONSTANTS o1, o2

\* One object: no other object's context can be aliased by garbage.
MCObjsOne == {o1}

\* Two objects: one object's uninitialised m_Context may name the other's.
MCObjsTwo == {o1, o2}

MCMaxRounds == 3
MCMaxRoundsTwo == 2
MCMaxToken == 1

=============================================================================
