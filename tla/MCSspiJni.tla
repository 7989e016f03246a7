----------------------------- MODULE MCSspiJni ------------------------------
(* Model-checking instance of SspiJni.                                      *)
EXTENDS SspiJni, TLC

CONSTANTS o1, o2, o3, t1, t2

\* Three SspiClient objects: three logins, so that a later login can find
\* the object an earlier one left behind.
MCObjs == {o1, o2, o3}

\* The objects are interchangeable: nothing in the model orders them.
MCObjSym == Permutations(MCObjs)

\* One Java thread logging in again and again, or two logging in at once.
MCThreadsOne == {t1}
MCThreadsTwo == {t1, t2}

\* prepareSSORequest and prepareSSOSubmit make two rounds per object.
MCMaxRounds == 2
MCMaxToken == 1

\* Two loads: a second initialize while the DLL is loaded.
MCMaxLoads == 2

=============================================================================
