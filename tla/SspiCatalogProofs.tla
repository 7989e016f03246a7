------------------------ MODULE SspiCatalogProofs ---------------------------
(***************************************************************************)
(* Proofs about SspiPackageList, for every number of records and every set *)
(* of descriptors.  The descriptor facts come from SspiPackageProofs.      *)
(***************************************************************************)
EXTENDS SspiCatalog, SspiPackageProofs, FiniteSetTheorems

USE PackageAssumption, CatalogAssumption

\* The points of the constructor at which the push_back's temporary exists.
TempPcs == {"copy", "drop", "dropfail"}

(* CatalogStringsOwned follows from NoStringLeak (a live string belongs to *)
(* a living descriptor with a package) and from the list's bookkeeping:    *)
(* the elements are alive with a package, the temporary is one while it    *)
(* exists and is no element, and no other descriptor is alive.             *)
CatShape ==
    /\ \A d \in catElems : plife[d] = "alive" /\ m_HavePkg[d]
    /\ catPc \in TempPcs =>
          /\ plife[catTemp] = "alive" /\ m_HavePkg[catTemp]
          /\ catTemp \notin catElems
          /\ catLeft > 0
    /\ \A d \in Pkgs :
          plife[d] = "alive" => d \in catElems \/ (catPc \in TempPcs /\ d = catTemp)

CatInv == PkgInv /\ CatTypeOK /\ NoStringLeak /\ CatShape

LEMMA InitCatInv == CatInit => CatInv
<1> SUFFICES ASSUME CatInit PROVE CatInv
  OBVIOUS
<1>1. PkgInv
  BY InitPkgInv DEF CatInit
<1>2. CatTypeOK
  <2>1. 0 \in 0..MaxRecords
    BY CatalogAssumption
  <2>2. QED
    BY <1>1, <2>1 DEF CatInit, CatTypeOK, CatPcs, PkgInv
<1>3. NoStringLeak
  BY DEF CatInit, PkgInit, NoStringLeak
<1>4. CatShape
  BY DEF CatInit, PkgInit, CatShape, TempPcs
<1>5. QED
  BY <1>1, <1>2, <1>3, <1>4 DEF CatInv

\* A GetLocalPkgCopy that constructs d loses no string: the new strings are
\* d's if they stay live, and every other live string keeps its owner.
LEMMA CopyNoLeak ==
    ASSUME PkgInv, NoStringLeak, NEW d \in Pkgs, plife[d] = "unborn",
           NEW nameOk \in BOOLEAN, NEW commentOk \in BOOLEAN,
           GetLocalPkgCopy(d, nameOk, commentOk),
           plife' = [plife EXCEPT ![d] = IF nameOk /\ commentOk THEN "alive"
                                                               ELSE "threw"]
    PROVE  NoStringLeak'
<1> DEFINE k == copies[d] + 1
           n == <<d, k, "Name">>
           c == <<d, k, "Comment">>
<1>1. /\ pName' = [pName EXCEPT ![d] = IF nameOk THEN n ELSE NoStr]
      /\ pComment' = [pComment EXCEPT ![d] = IF nameOk /\ commentOk THEN c ELSE NoStr]
      /\ str' = [str EXCEPT ![n] = IF nameOk THEN (IF commentOk THEN "live" ELSE "freed")
                                             ELSE @,
                             ![c] = IF nameOk /\ commentOk THEN "live" ELSE @]
      /\ m_HavePkg' = [m_HavePkg EXCEPT ![d] = nameOk /\ commentOk]
  BY DEF GetLocalPkgCopy
<1>2. n \in Strs /\ c \in Strs /\ n # c
  BY DEF GetLocalPkgCopy, PkgInv, PkgTypeOK, Strs
<1> SUFFICES ASSUME NEW s \in Strs, str'[s] = "live"
             PROVE  \E e \in Pkgs : /\ plife'[e] = "alive" /\ m_HavePkg'[e]
                                    /\ s \in {pName'[e], pComment'[e]}
  BY DEF NoStringLeak
<1>3. CASE s \in {n, c}
  <2>0. str[s] # "live"
    BY <1>3 DEF NoStringLeak, PkgInv, Ownership
  <2>1. nameOk /\ commentOk
    BY <1>1, <1>2, <1>3, <2>0 DEF PkgInv, PkgTypeOK
  <2>2. QED
    BY <1>1, <1>2, <1>3, <2>1 DEF PkgInv, PkgTypeOK
<1>4. CASE s \notin {n, c}
  <2>1. PICK e \in Pkgs : /\ plife[e] = "alive" /\ m_HavePkg[e]
                          /\ s \in {pName[e], pComment[e]}
    BY <1>1, <1>4 DEF NoStringLeak, PkgInv, PkgTypeOK
  <2>2. e # d
    BY <2>1
  <2>3. QED
    BY <1>1, <2>1, <2>2 DEF PkgInv, PkgTypeOK
<1>5. QED
  BY <1>3, <1>4

\* The destructor of d frees only d's strings, so every other live string
\* keeps its living owner.
LEMMA DestroyNoLeak ==
    ASSUME PkgInv, NoStringLeak, NEW d \in Pkgs, Destroy(d)
    PROVE  NoStringLeak'
<1> SUFFICES ASSUME NEW s \in Strs, str'[s] = "live"
             PROVE  \E e \in Pkgs : /\ plife'[e] = "alive" /\ m_HavePkg'[e]
                                    /\ s \in {pName'[e], pComment'[e]}
  BY DEF NoStringLeak
<1>1. s \notin {pName[d], pComment[d]} \/ ~m_HavePkg[d]
  BY DEF Destroy, Free, PkgInv, PkgTypeOK, OwnedStringsLive
<1>2. str[s] = "live"
  BY <1>1 DEF Destroy, Free, PkgInv, PkgTypeOK, OwnedStringsLive
<1>3. PICK e \in Pkgs : /\ plife[e] = "alive" /\ m_HavePkg[e]
                        /\ s \in {pName[e], pComment[e]}
  BY <1>2 DEF NoStringLeak
<1>4. e # d
  BY <1>1, <1>3
<1>5. QED
  BY <1>3, <1>4 DEF Destroy, PkgInv, PkgTypeOK

\* A step that leaves the descriptors and the heap alone.
LEMMA PkgStutter ==
    ASSUME PkgInv, NoStringLeak, UNCHANGED pvars
    PROVE  PkgInv' /\ NoStringLeak'
BY DEF pvars, PkgInv, PkgTypeOK, Ownership, OwnedStringsLive, NoDoubleFree,
       NoStringLeak, Strs

\* push_back's temporary, built from the record.
LEMMA TempCatInv ==
    ASSUME CatInv, NEW d \in Pkgs, CatTemp(d)
    PROVE  CatInv'
<1>1. plife[d] = "unborn" /\ provBuf' = provBuf
  BY DEF CatTemp, ConstructFromRecord
<1>2. PICK nameOk \in BOOLEAN, commentOk \in BOOLEAN :
        /\ GetLocalPkgCopy(d, nameOk, commentOk)
        /\ plife' = [plife EXCEPT ![d] = IF nameOk /\ commentOk THEN "alive"
                                                               ELSE "threw"]
  BY DEF CatTemp, ConstructFromRecord
<1>3. PkgInv'
  BY <1>1, <1>2, CopyPkgInv DEF CatInv, PkgInv, PkgTypeOK
<1>4. NoStringLeak'
  BY <1>1, <1>2, CopyNoLeak DEF CatInv
<1>5. d \notin catElems /\ m_HavePkg'[d] = (nameOk /\ commentOk)
  BY <1>1, <1>2 DEF CatInv, CatShape, GetLocalPkgCopy, PkgInv, PkgTypeOK
<1>6. CatTypeOK'
  BY <1>2, <1>3 DEF CatTemp, CatInv, CatTypeOK, CatPcs, PkgInv
<1>7. CatShape'
  <2>1. \A e \in Pkgs \ {d} : plife'[e] = plife[e] /\ m_HavePkg'[e] = m_HavePkg[e]
    BY <1>2 DEF GetLocalPkgCopy, CatInv, PkgInv, PkgTypeOK
  <2>2. /\ catPc = "loop" /\ catLeft > 0 /\ catLeft' = catLeft /\ catElems' = catElems
        /\ catTemp' = d /\ catPc' = IF plife'[d] = "alive" THEN "copy" ELSE "unwind"
    BY DEF CatTemp
  <2>3. plife'[d] = "alive" <=> nameOk /\ commentOk
    BY <1>2 DEF CatInv, PkgInv, PkgTypeOK
  <2>4. catElems \subseteq Pkgs /\ catPc \notin TempPcs
    BY <2>2 DEF CatInv, CatTypeOK, TempPcs
  <2>5. \A e \in catElems' : plife'[e] = "alive" /\ m_HavePkg'[e]
    BY <1>5, <2>1, <2>2, <2>4 DEF CatInv, CatShape
  <2>6. catPc' \in TempPcs =>
          /\ plife'[catTemp'] = "alive" /\ m_HavePkg'[catTemp']
          /\ catTemp' \notin catElems' /\ catLeft' > 0
    BY <1>5, <2>2, <2>3 DEF TempPcs
  <2>7. \A e \in Pkgs : plife'[e] = "alive" =>
          e \in catElems' \/ (catPc' \in TempPcs /\ e = catTemp')
    BY <2>1, <2>2, <2>3, <2>4 DEF CatInv, CatShape, TempPcs
  <2>8. QED
    BY <2>5, <2>6, <2>7 DEF CatShape
<1>8. QED
  BY <1>3, <1>4, <1>6, <1>7 DEF CatInv

\* The element, copy-constructed from the temporary.
LEMMA CopyCatInv ==
    ASSUME CatInv, NEW d \in Pkgs, CatCopy(d)
    PROVE  CatInv'
<1>1. /\ plife[d] = "unborn" /\ provBuf' = provBuf /\ catPc = "copy"
      /\ m_HavePkg[catTemp] /\ plife[catTemp] = "alive"
  BY DEF CatCopy, CopyConstruct, CatInv, CatShape, TempPcs
<1>2. PICK nameOk \in BOOLEAN, commentOk \in BOOLEAN :
        /\ GetLocalPkgCopy(d, nameOk, commentOk)
        /\ plife' = [plife EXCEPT ![d] = IF nameOk /\ commentOk THEN "alive"
                                                               ELSE "threw"]
  BY <1>1 DEF CatCopy, CopyConstruct
<1>3. PkgInv'
  BY <1>1, <1>2, CopyPkgInv DEF CatInv, PkgInv, PkgTypeOK
<1>4. NoStringLeak'
  BY <1>1, <1>2, CopyNoLeak DEF CatInv
<1>5. /\ d \notin catElems /\ d # catTemp
      /\ m_HavePkg'[d] = (nameOk /\ commentOk)
      /\ \A e \in Pkgs \ {d} : m_HavePkg'[e] = m_HavePkg[e]
  BY <1>1, <1>2 DEF CatInv, CatShape, GetLocalPkgCopy, PkgInv, PkgTypeOK
<1>6. CatTypeOK'
  BY <1>2, <1>3 DEF CatCopy, CatInv, CatTypeOK, CatPcs, PkgInv
<1>7. CatShape'
  <2>1. \A e \in Pkgs \ {d} : plife'[e] = plife[e]
    BY <1>2 DEF CatInv, PkgInv, PkgTypeOK
  <2>2. /\ catLeft' = catLeft /\ catTemp' = catTemp
        /\ catElems' = IF plife'[d] = "alive" THEN catElems \cup {d} ELSE catElems
        /\ catPc' = IF plife'[d] = "alive" THEN "drop" ELSE "dropfail"
    BY DEF CatCopy
  <2>3. plife'[d] = "alive" <=> nameOk /\ commentOk
    BY <1>2 DEF CatInv, PkgInv, PkgTypeOK
  <2>4. catElems \subseteq Pkgs /\ catTemp \in Pkgs /\ catTemp # d
    BY <1>5 DEF CatInv, CatTypeOK
  <2>5. \A e \in catElems' : plife'[e] = "alive" /\ m_HavePkg'[e]
    BY <1>5, <2>1, <2>2, <2>3, <2>4 DEF CatInv, CatShape
  <2>6. catPc' \in TempPcs =>
          /\ plife'[catTemp'] = "alive" /\ m_HavePkg'[catTemp']
          /\ catTemp' \notin catElems' /\ catLeft' > 0
    BY <1>1, <1>5, <2>1, <2>2, <2>4 DEF CatInv, CatShape, TempPcs
  <2>7. \A e \in Pkgs : plife'[e] = "alive" =>
          e \in catElems' \/ (catPc' \in TempPcs /\ e = catTemp')
    BY <1>1, <2>1, <2>2, <2>3 DEF CatInv, CatShape, TempPcs
  <2>8. QED
    BY <2>5, <2>6, <2>7 DEF CatShape
<1>8. QED
  BY <1>3, <1>4, <1>6, <1>7 DEF CatInv

\* A destructor the list runs: of the temporary or of an element.
LEMMA DestroyCatInv ==
    ASSUME CatInv, NEW d \in Pkgs, Destroy(d)
    PROVE  PkgInv' /\ NoStringLeak' /\ plife' = [plife EXCEPT ![d] = "dead"]
           /\ m_HavePkg' = m_HavePkg
BY DestroyPkgInv, DestroyNoLeak DEF CatInv, Destroy

LEMMA NextCatInv == CatInv /\ [CatNext]_allPkgVars => CatInv'
<1> SUFFICES ASSUME CatInv, [CatNext]_allPkgVars PROVE CatInv'
  OBVIOUS
<1>1. CASE CatEnumerate
  <2>1. PkgInv' /\ NoStringLeak'
    BY <1>1, PkgStutter DEF CatEnumerate, CatInv
  <2>2. QED
    BY <1>1, <2>1 DEF CatEnumerate, CatInv, PkgInv, CatTypeOK, CatPcs, CatShape, TempPcs, pvars
<1>2. ASSUME NEW d \in Pkgs, CatTemp(d) PROVE CatInv'
  BY <1>2, TempCatInv
<1>3. ASSUME NEW d \in Pkgs, CatCopy(d) PROVE CatInv'
  BY <1>3, CopyCatInv
<1>4. CASE CatDrop
  <2>1. /\ catPc \in TempPcs /\ catTemp \in Pkgs /\ catTemp \notin catElems
        /\ catLeft > 0
    BY <1>4 DEF CatDrop, CatInv, CatShape, CatTypeOK, TempPcs
  <2>2. PkgInv' /\ NoStringLeak' /\ plife' = [plife EXCEPT ![catTemp] = "dead"]
        /\ m_HavePkg' = m_HavePkg
    BY <1>4, <2>1, DestroyCatInv DEF CatDrop
  <2>3. CatTypeOK'
    BY <1>4, <2>1, <2>2 DEF CatDrop, CatInv, CatTypeOK, CatPcs, PkgInv
  <2>4. CatShape'
    BY <1>4, <2>1, <2>2 DEF CatDrop, CatInv, CatShape, TempPcs, PkgInv, PkgTypeOK
  <2>5. QED
    BY <2>2, <2>3, <2>4 DEF CatInv
<1>5. CASE CatRelease
  <2>1. PkgInv' /\ NoStringLeak'
    BY <1>5, PkgStutter DEF CatRelease, CatInv
  <2>2. QED
    BY <1>5, <2>1 DEF CatRelease, CatInv, PkgInv, CatTypeOK, CatPcs, CatShape, TempPcs, pvars
<1>6. ASSUME NEW d \in Pkgs, CatVecDestroy(d) PROVE CatInv'
  <2>1. d \in catElems /\ catPc \notin TempPcs
    BY <1>6 DEF CatVecDestroy, TempPcs
  <2>2. PkgInv' /\ NoStringLeak' /\ plife' = [plife EXCEPT ![d] = "dead"]
        /\ m_HavePkg' = m_HavePkg
    BY <1>6, DestroyCatInv DEF CatVecDestroy
  <2>3. CatTypeOK'
    BY <1>6, <2>2 DEF CatVecDestroy, CatInv, CatTypeOK, CatPcs, PkgInv
  <2>4. CatShape'
    BY <1>6, <2>1, <2>2 DEF CatVecDestroy, CatInv, CatShape, TempPcs, PkgInv, PkgTypeOK
  <2>5. QED
    BY <2>2, <2>3, <2>4 DEF CatInv
<1>7. CASE CatVecDone
  <2>1. PkgInv' /\ NoStringLeak'
    BY <1>7, PkgStutter DEF CatVecDone, CatInv
  <2>2. QED
    BY <1>7, <2>1 DEF CatVecDone, CatInv, PkgInv, CatTypeOK, CatPcs, CatShape, TempPcs, pvars
<1>8. CASE UNCHANGED allPkgVars
  <2>1. PkgInv' /\ NoStringLeak'
    BY <1>8, PkgStutter DEF allPkgVars, CatInv
  <2>2. QED
    BY <1>8, <2>1 DEF allPkgVars, catVars, CatInv, PkgInv, CatTypeOK, CatShape, TempPcs, pvars
<1>9. QED
  BY <1>1, <1>2, <1>3, <1>4, <1>5, <1>6, <1>7, <1>8 DEF CatNext

LEMMA CatInvStringsOwned == CatInv => CatalogStringsOwned
BY DEF CatInv, NoStringLeak, CatShape, CatalogStringsOwned, TempPcs

\* Whatever the provider returns and whichever copy fails, every string the
\* list's descriptors hold belongs to an element of m_Packages or to the
\* push_back's temporary, so a destroyed or unwound list leaves none behind
\* (push_back's temporary, the copy constructor's rollback, ~vector).
THEOREM CatalogNeverLeaks == CatSpec => []CatalogStringsOwned
BY InitCatInv, NextCatInv, CatInvStringsOwned, PTL DEF CatSpec
-----------------------------------------------------------------------------
(* The list's size.  Each pass of the loop is CatTemp, CatCopy, CatDrop;   *)
(* the copy adds one element, a fresh descriptor (it was unborn, and every *)
(* element is alive), and the drop counts the record off.  So the elements *)
(* and the records left always add up to numpkgs, with the one element     *)
(* pushed ahead of the count between the copy and the drop.                *)

PushCount ==
    /\ IsFiniteSet(catElems)
    /\ catPc = "init" => catElems = {}
    /\ catPc \in {"loop", "copy"} => Cardinality(catElems) + catLeft = numpkgs
    /\ catPc = "drop" => Cardinality(catElems) + catLeft = numpkgs + 1
    /\ catPc = "built" => Cardinality(catElems) = numpkgs

LEMMA InitPushCount == CatInit => PushCount
BY FS_EmptySet DEF CatInit, PushCount

LEMMA NextPushCount ==
    ASSUME CatInv, PushCount, [CatNext]_allPkgVars
    PROVE  PushCount'
<1>1. Cardinality(catElems) \in Nat
  BY FS_CardinalityType DEF PushCount
<1>2. CASE CatEnumerate
  BY <1>2, FS_EmptySet DEF CatEnumerate, PushCount
<1>3. ASSUME NEW d \in Pkgs, CatTemp(d) PROVE PushCount'
  <2>1. catPc = "loop" /\ catPc' \in {"copy", "unwind"}
    BY <1>3 DEF CatTemp
  <2>2. QED
    BY <1>3, <2>1 DEF CatTemp, PushCount
<1>4. ASSUME NEW d \in Pkgs, CatCopy(d) PROVE PushCount'
  <2>1. catPc = "copy" /\ plife[d] = "unborn"
    BY <1>4 DEF CatCopy, CopyConstruct
  <2>2. d \notin catElems
    BY <2>1 DEF CatInv, CatShape
  <2>3. IsFiniteSet(catElems \cup {d})
        /\ Cardinality(catElems \cup {d}) = Cardinality(catElems) + 1
    BY <2>2, FS_AddElement DEF PushCount
  <2>4. \/ catElems' = catElems \cup {d} /\ catPc' = "drop"
        \/ catElems' = catElems /\ catPc' = "dropfail"
    BY <1>4 DEF CatCopy
  <2>5. catLeft' = catLeft /\ numpkgs' = numpkgs /\ catLeft \in Nat /\ numpkgs \in Nat
    BY <1>4 DEF CatCopy, CatInv, CatTypeOK
  <2>6. CASE catElems' = catElems \cup {d} /\ catPc' = "drop"
    <3>1. Cardinality(catElems') = Cardinality(catElems) + 1
      BY <2>3, <2>6
    <3>2. Cardinality(catElems') + catLeft' = numpkgs' + 1
      BY <1>1, <2>1, <2>5, <3>1 DEF PushCount
    <3>3. QED
      BY <2>3, <2>6, <3>2 DEF PushCount
  <2>7. CASE catElems' = catElems /\ catPc' = "dropfail"
    BY <2>7 DEF PushCount
  <2>8. QED
    BY <2>4, <2>6, <2>7
<1>5. CASE CatDrop
  <2>1. catLeft \in Nat /\ numpkgs \in Nat
    BY DEF CatInv, CatTypeOK
  <2>2. /\ catElems' = catElems /\ numpkgs' = numpkgs
        /\ catPc \in {"drop", "dropfail"}
        /\ catPc = "drop" => catPc' = "loop" /\ catLeft' = catLeft - 1
        /\ catPc = "dropfail" => catPc' = "unwind"
    BY <1>5 DEF CatDrop
  <2>3. IsFiniteSet(catElems') /\ Cardinality(catElems') = Cardinality(catElems)
    BY <2>2 DEF PushCount
  <2>4. CASE catPc = "drop"
    BY <1>1, <2>1, <2>2, <2>3, <2>4 DEF PushCount
  <2>5. CASE catPc = "dropfail"
    BY <2>2, <2>3, <2>5 DEF PushCount
  <2>6. QED
    BY <2>2, <2>4, <2>5
<1>6. CASE CatRelease
  BY <1>1, <1>6 DEF CatRelease, PushCount
<1>7. ASSUME NEW d \in Pkgs, CatVecDestroy(d) PROVE PushCount'
  <2>1. IsFiniteSet(catElems \ {d})
    BY FS_RemoveElement DEF PushCount
  <2>2. QED
    BY <1>7, <2>1 DEF CatVecDestroy, PushCount
<1>8. CASE CatVecDone
  BY <1>8 DEF CatVecDone, PushCount
<1>9. CASE UNCHANGED allPkgVars
  BY <1>9 DEF allPkgVars, catVars, PushCount
<1>10. QED
  BY <1>2, <1>3, <1>4, <1>5, <1>6, <1>7, <1>8, <1>9 DEF CatNext

\* However many records the provider reports and whichever copy fails, a
\* list whose constructor returned has exactly one element per record
\* (the push_back loop of SspiPackageList's constructor).
THEOREM CatalogSizeAlwaysMatches == CatSpec => []CatalogSizeMatches
<1>1. CatInv /\ PushCount /\ [CatNext]_allPkgVars => CatInv' /\ PushCount'
  BY NextCatInv, NextPushCount
<1>2. PushCount => CatalogSizeMatches
  BY DEF PushCount, CatalogSizeMatches
<1>3. QED
  BY <1>1, <1>2, InitCatInv, InitPushCount, PTL DEF CatSpec

=============================================================================
