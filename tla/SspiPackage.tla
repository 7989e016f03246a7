----------------------------- MODULE SspiPackage ----------------------------
(***************************************************************************)
(* The package descriptor of src/src/SSO/Src/SspiPackage.cpp: SspiPackage  *)
(* objects holding their own copies (_tcsdup) of the Name and Comment      *)
(* strings of a provider SecPkgInfo record, and the provider buffer that   *)
(* QuerySecurityPackageInfo hands out.  Strings are named after the object *)
(* and the GetLocalPkgCopy call that allocated them; their bytes are not   *)
(* kept.  The caller is any library user: it constructs, copies, assigns   *)
(* and destroys descriptors in any order.                                  *)
(***************************************************************************)
EXTENDS Naturals

CONSTANTS
    Pkgs,       \* the SspiPackage objects (model values)
    NoStr,      \* a TCHAR* the object does not own (NULL or borrowed)
    MaxCopies   \* bound on GetLocalPkgCopy calls per object

ASSUME PackageAssumption ==
    /\ MaxCopies \in Nat \ {0}

VARIABLES
    plife,      \* "unborn", "alive", "dead", or "threw" (its constructor threw)
    m_HavePkg,  \* the bool member m_HavePkg
    pName,      \* m_PkgInfo.Name
    pComment,   \* m_PkgInfo.Comment
    copies,     \* GetLocalPkgCopy calls made on each object
    str,        \* allocator: state of each string; "corrupt" after a double free
    provBuf     \* the SecPkgInfo buffer QuerySecurityPackageInfo returned to each object

pvars == <<plife, m_HavePkg, pName, pComment, copies, str, provBuf>>

Strs == Pkgs \X (1..MaxCopies) \X {"Name", "Comment"}

PkgTypeOK ==
    /\ plife \in [Pkgs -> {"unborn", "alive", "dead", "threw"}]
    /\ m_HavePkg \in [Pkgs -> BOOLEAN]
    /\ pName \in [Pkgs -> Strs \cup {NoStr}]
    /\ pComment \in [Pkgs -> Strs \cup {NoStr}]
    /\ copies \in [Pkgs -> 0..MaxCopies]
    /\ str \in [Strs -> {"unalloc", "live", "freed", "corrupt"}]
    /\ provBuf \in [Pkgs -> {"none", "live", "freed"}]

PkgInit ==
    /\ plife = [d \in Pkgs |-> "unborn"]
    /\ m_HavePkg = [d \in Pkgs |-> FALSE]
    /\ pName = [d \in Pkgs |-> NoStr]
    /\ pComment = [d \in Pkgs |-> NoStr]
    /\ copies = [d \in Pkgs |-> 0]
    /\ str = [s \in Strs |-> "unalloc"]
    /\ provBuf = [d \in Pkgs |-> "none"]

\* free() of a string: a second free corrupts the heap.
Free(s) == IF str[s] = "live" THEN "freed" ELSE "corrupt"

-----------------------------------------------------------------------------
(* SspiPackage::GetLocalPkgCopy, as the part of an action it is.  After    *)
(* the memcpy, Name := _tcsdup(Name) (nameOk says whether it returned a    *)
(* string) and, if it did, Comment := _tcsdup(Comment) (commentOk); if the *)
(* second fails the first is freed (the pointer is left dangling).         *)
(* m_HavePkg is set iff both succeeded; the result is that value.          *)

\* Fault variant of GetLocalPkgCopy: m_HavePkg is set before the Comment
\* copy is checked.
GetLocalPkgCopyEarlyFlag(d, nameOk, commentOk) ==
    LET k == copies[d] + 1
        n == <<d, k, "Name">>
        c == <<d, k, "Comment">> IN
    /\ copies[d] < MaxCopies
    /\ copies' = [copies EXCEPT ![d] = k]
    /\ pName' = [pName EXCEPT ![d] = IF nameOk THEN n ELSE NoStr]
    /\ pComment' = [pComment EXCEPT ![d] = IF nameOk /\ commentOk THEN c ELSE NoStr]
    /\ str' = [str EXCEPT ![n] = IF nameOk THEN (IF commentOk THEN "live" ELSE "freed")
                                          ELSE @,
                          ![c] = IF nameOk /\ commentOk THEN "live" ELSE @]
    /\ m_HavePkg' = [m_HavePkg EXCEPT ![d] = nameOk]

GetLocalPkgCopy(d, nameOk, commentOk) ==
    LET k == copies[d] + 1
        n == <<d, k, "Name">>
        c == <<d, k, "Comment">> IN
    /\ copies[d] < MaxCopies
    /\ copies' = [copies EXCEPT ![d] = k]
    /\ pName' = [pName EXCEPT ![d] = IF nameOk THEN n ELSE NoStr]
    /\ pComment' = [pComment EXCEPT ![d] = IF nameOk /\ commentOk THEN c ELSE NoStr]
    /\ str' = [str EXCEPT ![n] = IF nameOk THEN (IF commentOk THEN "live" ELSE "freed")
                                          ELSE @,
                          ![c] = IF nameOk /\ commentOk THEN "live" ELSE @]
    /\ m_HavePkg' = [m_HavePkg EXCEPT ![d] = nameOk /\ commentOk]

-----------------------------------------------------------------------------
(* The operations.                                                         *)

\* SspiPackage::SspiPackage(PackageName) with PackageName != NULL:
\* QuerySecurityPackageInfo (failing: throw ErrorNoPackage), GetLocalPkgCopy
\* (failing: throw ErrorNoPackage), then FreeContextBuffer of the record
\* (the provider tables in use all export FreeContextBuffer).
ConstructByName(d) ==
    /\ plife[d] = "unborn"
    /\ \/ /\ plife' = [plife EXCEPT ![d] = "threw"]
          /\ UNCHANGED <<m_HavePkg, pName, pComment, copies, str, provBuf>>
       \/ \E nameOk, commentOk \in BOOLEAN :
            /\ GetLocalPkgCopy(d, nameOk, commentOk)
            /\ plife' = [plife EXCEPT ![d] = IF nameOk /\ commentOk THEN "alive"
                                                                ELSE "threw"]
            /\ provBuf' = [provBuf EXCEPT ![d] = IF nameOk /\ commentOk THEN "freed"
                                                                    ELSE "live"]

\* SspiPackage::SspiPackage(NULL): m_HavePkg(false), nothing copied.
ConstructEmpty(d) ==
    /\ plife[d] = "unborn"
    /\ plife' = [plife EXCEPT ![d] = "alive"]
    /\ UNCHANGED <<m_HavePkg, pName, pComment, copies, str, provBuf>>

\* SspiPackage::SspiPackage(const SecPkgInfo*): GetLocalPkgCopy from a
\* record the caller owns, throwing ErrorNoPackage if it fails.
ConstructFromRecord(d) ==
    /\ plife[d] = "unborn"
    /\ \E nameOk, commentOk \in BOOLEAN :
         /\ GetLocalPkgCopy(d, nameOk, commentOk)
         /\ plife' = [plife EXCEPT ![d] = IF nameOk /\ commentOk THEN "alive"
                                                             ELSE "threw"]
    /\ UNCHANGED provBuf

\* SspiPackage::SspiPackage(const SspiPackage&): throws ErrorNoPackage if
\* the source has no package, else GetLocalPkgCopy of the source's strings.
CopyConstruct(d, src) ==
    /\ plife[d] = "unborn"
    /\ plife[src] = "alive"
    /\ \/ /\ ~m_HavePkg[src]
          /\ plife' = [plife EXCEPT ![d] = "threw"]
          /\ UNCHANGED <<m_HavePkg, pName, pComment, copies, str>>
       \/ /\ m_HavePkg[src]
          /\ \E nameOk, commentOk \in BOOLEAN :
               /\ GetLocalPkgCopy(d, nameOk, commentOk)
               /\ plife' = [plife EXCEPT ![d] = IF nameOk /\ commentOk THEN "alive"
                                                                   ELSE "threw"]
    /\ UNCHANGED provBuf

\* SspiPackage::operator=(const SspiPackage&) for this != &package, and
\* operator=(const SecPkgInfo*): GetLocalPkgCopy over the current strings,
\* which are not freed first; a failed copy throws, the object stays.
\* (Assigning from an object without a package reads its uninitialised
\* m_PkgInfo and is not modelled: the source here has a package.)
Assign(d, src) ==
    /\ plife[d] = "alive"
    /\ src \in Pkgs \ {d} => plife[src] = "alive" /\ m_HavePkg[src]
    /\ \E nameOk, commentOk \in BOOLEAN : GetLocalPkgCopy(d, nameOk, commentOk)
    /\ UNCHANGED <<plife, provBuf>>

\* Fault variant of Destroy: FreePkgInfo without its m_HavePkg test (free of
\* a NULL pointer does nothing).
DestroyUnchecked(d) ==
    /\ plife[d] = "alive"
    /\ plife' = [plife EXCEPT ![d] = "dead"]
    /\ str' = [s \in Strs |-> IF s \in {pName[d], pComment[d]} THEN Free(s)
                                                               ELSE str[s]]
    /\ UNCHANGED <<m_HavePkg, pName, pComment, copies, provBuf>>

\* SspiPackage::~SspiPackage: FreePkgInfo frees Name and Comment if m_HavePkg.
Destroy(d) ==
    /\ plife[d] = "alive"
    /\ plife' = [plife EXCEPT ![d] = "dead"]
    /\ str' = IF m_HavePkg[d]
              THEN [str EXCEPT ![pName[d]] = Free(pName[d]),
                               ![pComment[d]] = Free(pComment[d])]
              ELSE str
    /\ UNCHANGED <<m_HavePkg, pName, pComment, copies, provBuf>>

\* Assign's source is another object or, for operator=(const SecPkgInfo*),
\* a provider record (named by the object itself).
PkgNext ==
    \E d \in Pkgs :
        \/ ConstructByName(d)
        \/ ConstructEmpty(d)
        \/ ConstructFromRecord(d)
        \/ \E src \in Pkgs \ {d} : CopyConstruct(d, src)
        \/ \E src \in Pkgs : Assign(d, src)
        \/ Destroy(d)

PkgSpec == PkgInit /\ [][PkgNext]_pvars

-----------------------------------------------------------------------------
(* Properties.                                                             *)

\* No half-copied descriptor is observable: a living object with m_HavePkg
\* owns a live Name and a live Comment (GetLocalPkgCopy's rollback,
\* FreePkgInfo), whatever sequence of copies, assignments and destructions
\* led there.
OwnedStringsLive ==
    \A d \in Pkgs :
        plife[d] = "alive" /\ m_HavePkg[d] =>
            /\ pName[d] \in Strs /\ str[pName[d]] = "live"
            /\ pComment[d] \in Strs /\ str[pComment[d]] = "live"

\* No string is freed twice (FreePkgInfo, GetLocalPkgCopy's rollback).
NoDoubleFree ==
    \A s \in Strs : str[s] # "corrupt"

\* Every allocated string belongs to a living descriptor that will free it
\* (operator= and GetLocalPkgCopy must not drop the strings held before).
NoStringLeak ==
    \A s \in Strs :
        str[s] = "live" =>
            \E d \in Pkgs : /\ plife[d] = "alive" /\ m_HavePkg[d]
                            /\ s \in {pName[d], pComment[d]}

\* Once its constructor has finished, normally or by throwing, an object has
\* given back the record QuerySecurityPackageInfo allocated for it
\* (SspiPackage::SspiPackage(PackageName)).
ProviderBufferReleased ==
    \A d \in Pkgs : plife[d] # "unborn" => provBuf[d] # "live"

=============================================================================
