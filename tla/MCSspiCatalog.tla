---------------------------- MODULE MCSspiCatalog ----------------------------
(* Model-checking instance of SspiCatalog: two records, each needing a     *)
(* temporary and an element, so four descriptors of one copy each.        *)
EXTENDS SspiCatalog

CONSTANTS d1, d2, d3, d4

MCCatPkgs == {d1, d2, d3, d4}
MCCatMaxCopies == 1
MCMaxRecords == 2
=============================================================================
