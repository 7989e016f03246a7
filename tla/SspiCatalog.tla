----------------------------- MODULE SspiCatalog -----------------------------
(***************************************************************************)
(* SspiPackageList of src/src/SSO/Src/SspiPackage.cpp: the constructor     *)
(* enumerates the provider's packages and pushes one SspiPackage per       *)
(* record into a std::vector, then frees the provider's array; the         *)
(* destructor (of the vector) destroys the elements.  push_back(&rec)      *)
(* builds a temporary SspiPackage from the record, copy-constructs the     *)
(* element from it and destroys the temporary: three steps of the          *)
(* descriptor model.  The copies a reallocation of the vector makes are    *)
(* left out (each is a CopyConstruct and a Destroy of the old element).    *)
(***************************************************************************)
EXTENDS SspiPackage, FiniteSets

CONSTANT MaxRecords   \* bound on the number of records the provider returns

ASSUME CatalogAssumption == MaxRecords \in Nat

VARIABLES
    catPc,    \* where the list's constructor or destructor is
    catBuf,   \* the SecPkgInfo array EnumerateSecurityPackages returned
    numpkgs,  \* the record count EnumerateSecurityPackages reported
    catLeft,  \* records not yet pushed
    catTemp,  \* the temporary of the push_back under way
    catElems  \* the descriptors in m_Packages

catVars == <<catPc, catBuf, numpkgs, catLeft, catTemp, catElems>>
allPkgVars == <<pvars, catVars>>

CatPcs == {"init", "loop", "copy", "drop", "dropfail", "unwind", "built",
           "dying", "threw", "gone"}

CatTypeOK ==
    /\ PkgTypeOK
    /\ catPc \in CatPcs
    /\ catBuf \in {"none", "live", "freed"}
    /\ numpkgs \in 0..MaxRecords
    /\ catLeft \in 0..MaxRecords
    /\ catTemp \in Pkgs
    /\ catElems \subseteq Pkgs

CatInit ==
    /\ PkgInit
    /\ catPc = "init" /\ catBuf = "none" /\ numpkgs = 0 /\ catLeft = 0
    /\ catTemp \in Pkgs /\ catElems = {}

\* No EnumerateSecurityPackages in the table (ErrorNoSecurityInterface) or
\* a status other than SEC_E_OK (ErrorPackageEnumerationFailed): throw
\* with nothing allocated.  Otherwise numpkgs records in a provider buffer.
CatEnumerate ==
    /\ catPc = "init"
    /\ \/ catPc' = "threw" /\ UNCHANGED <<catBuf, numpkgs, catLeft>>
       \/ /\ catPc' = "loop" /\ catBuf' = "live"
          /\ numpkgs' \in 0..MaxRecords /\ catLeft' = numpkgs'
    /\ UNCHANGED <<pvars, catTemp, catElems>>

\* push_back(&packages[i]): the temporary SspiPackage(const SecPkgInfo*);
\* if it throws ErrorNoPackage the constructor unwinds.
CatTemp(d) ==
    /\ catPc = "loop" /\ catLeft > 0
    /\ ConstructFromRecord(d)
    /\ catTemp' = d
    /\ catPc' = IF plife'[d] = "alive" THEN "copy" ELSE "unwind"
    /\ UNCHANGED <<catBuf, numpkgs, catLeft, catElems>>

\* The element, copy-constructed from the temporary.
CatCopy(d) ==
    /\ catPc = "copy"
    /\ CopyConstruct(d, catTemp)
    /\ catElems' = IF plife'[d] = "alive" THEN catElems \cup {d} ELSE catElems
    /\ catPc' = IF plife'[d] = "alive" THEN "drop" ELSE "dropfail"
    /\ UNCHANGED <<catBuf, numpkgs, catLeft, catTemp>>

\* Fault variant of CatDrop: the temporary is never destroyed.
CatDropKept ==
    /\ catPc \in {"drop", "dropfail"}
    /\ catLeft' = IF catPc = "drop" THEN catLeft - 1 ELSE catLeft
    /\ catPc' = IF catPc = "drop" THEN "loop" ELSE "unwind"
    /\ UNCHANGED <<pvars, catBuf, numpkgs, catTemp, catElems>>

\* The temporary's destructor, at the end of the push_back expression
\* (normally or while the copy's exception propagates).
CatDrop ==
    /\ catPc \in {"drop", "dropfail"}
    /\ Destroy(catTemp)
    /\ catLeft' = IF catPc = "drop" THEN catLeft - 1 ELSE catLeft
    /\ catPc' = IF catPc = "drop" THEN "loop" ELSE "unwind"
    /\ UNCHANGED <<catBuf, numpkgs, catTemp, catElems>>

\* Fault variant of CatRelease: the loop stops one record short
\* (i < numpkgs - 1).
CatReleaseEarly ==
    /\ catPc = "loop" /\ catLeft <= 1
    /\ \E hasFree \in BOOLEAN : catBuf' = IF hasFree THEN "freed" ELSE catBuf
    /\ catPc' = "built"
    /\ UNCHANGED <<pvars, numpkgs, catLeft, catTemp, catElems>>

\* After the loop: FreeContextBuffer(packages), called only when the table
\* has a FreeContextBuffer entry (otherwise the array stays allocated).
CatRelease ==
    /\ catPc = "loop" /\ catLeft = 0
    /\ \E hasFree \in BOOLEAN : catBuf' = IF hasFree THEN "freed" ELSE catBuf
    /\ catPc' = "built"
    /\ UNCHANGED <<pvars, numpkgs, catLeft, catTemp, catElems>>

\* ~vector<SspiPackage>, run by ~SspiPackageList or, while the
\* constructor's exception propagates, on the member: one element at a time.
CatVecDestroy(d) ==
    /\ catPc \in {"unwind", "built", "dying"}
    /\ d \in catElems
    /\ Destroy(d)
    /\ catElems' = catElems \ {d}
    /\ catPc' = IF catPc = "unwind" THEN "unwind" ELSE "dying"
    /\ UNCHANGED <<catBuf, numpkgs, catLeft, catTemp>>

CatVecDone ==
    /\ catPc \in {"unwind", "built", "dying"}
    /\ catElems = {}
    /\ catPc' = IF catPc = "unwind" THEN "threw" ELSE "gone"
    /\ UNCHANGED <<pvars, catBuf, numpkgs, catLeft, catTemp, catElems>>

\* One SspiPackageList is built and destroyed; its descriptors are fresh.
CatNext ==
    \/ CatEnumerate
    \/ \E d \in Pkgs : CatTemp(d) \/ CatCopy(d)
    \/ CatDrop
    \/ CatRelease
    \/ \E d \in Pkgs : CatVecDestroy(d)
    \/ CatVecDone

CatSpec == CatInit /\ [][CatNext]_allPkgVars

-----------------------------------------------------------------------------
(* Properties.                                                             *)

\* Every live string belongs to an element of m_Packages or to the
\* temporary of the push_back under way: nothing the loop copies is lost,
\* and once the list is destroyed, or its constructor has thrown and
\* unwound, no string is left (push_back's temporary and copy,
\* GetLocalPkgCopy's rollback, the vector's destruction).
CatalogStringsOwned ==
    \A s \in Strs :
        str[s] = "live" =>
            \E d \in catElems \cup (IF catPc \in {"copy", "drop", "dropfail"}
                                    THEN {catTemp} ELSE {}) :
                /\ plife[d] = "alive" /\ m_HavePkg[d]
                /\ s \in {pName[d], pComment[d]}

\* A list whose constructor has returned holds one descriptor per record
\* the provider reported (spec 8: the catalog's size equals the provider's
\* package count): every pass of the loop pushes exactly one element, and
\* a failed push_back unwinds instead of leaving the list short.
CatalogSizeMatches ==
    catPc = "built" => Cardinality(catElems) = numpkgs

=============================================================================
