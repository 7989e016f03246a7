---------------------------- MODULE MCSspiPackage ----------------------------
(* Model-checking instance of SspiPackage: two descriptors, so that one    *)
(* can be copied from and assigned from the other, and two copies each, so *)
(* that an assignment over an existing copy happens.                       *)
EXTENDS SspiPackage

CONSTANTS d1, d2

MCPkgs == {d1, d2}
MCMaxCopies == 2
=============================================================================
