------------------------ MODULE SspiPackageProofs ---------------------------
(***************************************************************************)
(* Proofs about SspiPackage, for every set of descriptors and every bound. *)
(***************************************************************************)
EXTENDS SspiPackage, TLAPS

USE PackageAssumption

(* OwnedStringsLive and NoDoubleFree are not inductive by themselves: a    *)
(* free in ~SspiPackage or in GetLocalPkgCopy's rollback must not hit a    *)
(* string another living descriptor owns.  They are, together with the    *)
(* fact that a descriptor with a package owns exactly the two strings of   *)
(* its latest GetLocalPkgCopy, which no other descriptor can name.         *)
Ownership ==
    \A d \in Pkgs :
        /\ plife[d] = "unborn" => ~m_HavePkg[d]
        /\ m_HavePkg[d] =>
              /\ copies[d] \in 1..MaxCopies
              /\ pName[d] = <<d, copies[d], "Name">>
              /\ pComment[d] = <<d, copies[d], "Comment">>

PkgInv == PkgTypeOK /\ Ownership /\ OwnedStringsLive /\ NoDoubleFree

LEMMA InitPkgInv == PkgInit => PkgInv
BY DEF PkgInit, PkgInv, PkgTypeOK, Ownership, OwnedStringsLive, NoDoubleFree

\* One GetLocalPkgCopy on d, inside any operation that leaves the other
\* objects' lifetimes alone and d constructed.
LEMMA CopyPkgInv ==
    ASSUME PkgInv, NEW d \in Pkgs, NEW nameOk \in BOOLEAN, NEW commentOk \in BOOLEAN,
           GetLocalPkgCopy(d, nameOk, commentOk),
           plife' \in [Pkgs -> {"unborn", "alive", "dead", "threw"}],
           plife'[d] # "unborn",
           \A e \in Pkgs \ {d} : plife'[e] = plife[e],
           provBuf' \in [Pkgs -> {"none", "live", "freed"}]
    PROVE  PkgInv'
<1> DEFINE k == copies[d] + 1
           n == <<d, k, "Name">>
           c == <<d, k, "Comment">>
<1>1. /\ copies[d] < MaxCopies
      /\ copies' = [copies EXCEPT ![d] = k]
      /\ pName' = [pName EXCEPT ![d] = IF nameOk THEN n ELSE NoStr]
      /\ pComment' = [pComment EXCEPT ![d] = IF nameOk /\ commentOk THEN c ELSE NoStr]
      /\ str' = [str EXCEPT ![n] = IF nameOk THEN (IF commentOk THEN "live" ELSE "freed")
                                             ELSE @,
                             ![c] = IF nameOk /\ commentOk THEN "live" ELSE @]
      /\ m_HavePkg' = [m_HavePkg EXCEPT ![d] = nameOk /\ commentOk]
  BY DEF GetLocalPkgCopy
<1>2. n \in Strs /\ c \in Strs /\ n # c
  BY <1>1 DEF PkgInv, PkgTypeOK, Strs
<1>3. PkgTypeOK'
  BY <1>1, <1>2 DEF PkgInv, PkgTypeOK
<1>4. Ownership'
  BY <1>1 DEF PkgInv, PkgTypeOK, Ownership
<1>5. \A e \in Pkgs \ {d} : m_HavePkg[e] =>
          /\ pName[e] \notin {n, c} /\ pComment[e] \notin {n, c}
  BY DEF PkgInv, Ownership
<1>6. OwnedStringsLive'
  BY <1>1, <1>2, <1>5 DEF PkgInv, PkgTypeOK, OwnedStringsLive
<1>7. NoDoubleFree'
  BY <1>1, <1>2 DEF PkgInv, PkgTypeOK, NoDoubleFree
<1>8. QED
  BY <1>3, <1>4, <1>6, <1>7 DEF PkgInv

LEMMA DestroyPkgInv ==
    ASSUME PkgInv, NEW d \in Pkgs, Destroy(d)
    PROVE  PkgInv'
<1>1. CASE m_HavePkg[d]
  <2>1. /\ pName[d] \in Strs /\ str[pName[d]] = "live"
        /\ pComment[d] \in Strs /\ str[pComment[d]] = "live"
        /\ pName[d] # pComment[d]
    BY <1>1 DEF Destroy, PkgInv, OwnedStringsLive, Ownership
  <2>2. str' = [str EXCEPT ![pName[d]] = "freed", ![pComment[d]] = "freed"]
    BY <1>1, <2>1 DEF Destroy, Free
  <2>3. \A e \in Pkgs \ {d} : m_HavePkg[e] =>
          pName[e] \notin {pName[d], pComment[d]}
          /\ pComment[e] \notin {pName[d], pComment[d]}
    BY <1>1 DEF PkgInv, Ownership
  <2>4. QED
    BY <2>1, <2>2, <2>3 DEF Destroy, PkgInv, PkgTypeOK, Ownership,
                            OwnedStringsLive, NoDoubleFree
<1>2. CASE ~m_HavePkg[d]
  BY <1>2 DEF Destroy, PkgInv, PkgTypeOK, Ownership, OwnedStringsLive, NoDoubleFree
<1>3. QED
  BY <1>1, <1>2

LEMMA NextPkgInv == PkgInv /\ [PkgNext]_pvars => PkgInv'
<1> SUFFICES ASSUME PkgInv, [PkgNext]_pvars PROVE PkgInv'
  OBVIOUS
<1>1. ASSUME NEW d \in Pkgs, ConstructByName(d) PROVE PkgInv'
  <2>1. CASE /\ plife' = [plife EXCEPT ![d] = "threw"]
             /\ UNCHANGED <<m_HavePkg, pName, pComment, copies, str, provBuf>>
    BY <1>1, <2>1 DEF ConstructByName, PkgInv, PkgTypeOK, Ownership,
                      OwnedStringsLive, NoDoubleFree
  <2>2. ASSUME NEW nameOk \in BOOLEAN, NEW commentOk \in BOOLEAN,
               GetLocalPkgCopy(d, nameOk, commentOk),
               plife' = [plife EXCEPT ![d] = IF nameOk /\ commentOk THEN "alive"
                                                                   ELSE "threw"],
               provBuf' = [provBuf EXCEPT ![d] = IF nameOk /\ commentOk THEN "freed"
                                                                       ELSE "live"]
        PROVE  PkgInv'
    BY <2>2, CopyPkgInv DEF PkgInv, PkgTypeOK
  <2>3. QED
    BY <1>1, <2>1, <2>2 DEF ConstructByName
<1>2. ASSUME NEW d \in Pkgs, ConstructEmpty(d) PROVE PkgInv'
  BY <1>2 DEF ConstructEmpty, PkgInv, PkgTypeOK, Ownership, OwnedStringsLive,
              NoDoubleFree
<1>3. ASSUME NEW d \in Pkgs, ConstructFromRecord(d) PROVE PkgInv'
  <2>1. PICK nameOk \in BOOLEAN, commentOk \in BOOLEAN :
          /\ GetLocalPkgCopy(d, nameOk, commentOk)
          /\ plife' = [plife EXCEPT ![d] = IF nameOk /\ commentOk THEN "alive"
                                                               ELSE "threw"]
    BY <1>3 DEF ConstructFromRecord
  <2>2. QED
    BY <1>3, <2>1, CopyPkgInv DEF ConstructFromRecord, PkgInv, PkgTypeOK
<1>4. ASSUME NEW d \in Pkgs, NEW src \in Pkgs \ {d}, CopyConstruct(d, src)
      PROVE PkgInv'
  <2>1. CASE /\ plife' = [plife EXCEPT ![d] = "threw"]
             /\ UNCHANGED <<m_HavePkg, pName, pComment, copies, str>>
    BY <1>4, <2>1 DEF CopyConstruct, PkgInv, PkgTypeOK, Ownership,
                      OwnedStringsLive, NoDoubleFree
  <2>2. ASSUME NEW nameOk \in BOOLEAN, NEW commentOk \in BOOLEAN,
               GetLocalPkgCopy(d, nameOk, commentOk),
               plife' = [plife EXCEPT ![d] = IF nameOk /\ commentOk THEN "alive"
                                                                   ELSE "threw"]
        PROVE  PkgInv'
    BY <1>4, <2>2, CopyPkgInv DEF CopyConstruct, PkgInv, PkgTypeOK
  <2>3. QED
    BY <1>4, <2>1, <2>2 DEF CopyConstruct
<1>5. ASSUME NEW d \in Pkgs, NEW src \in Pkgs, Assign(d, src) PROVE PkgInv'
  BY <1>5, CopyPkgInv DEF Assign, PkgInv, PkgTypeOK
<1>6. ASSUME NEW d \in Pkgs, Destroy(d) PROVE PkgInv'
  BY <1>6, DestroyPkgInv
<1>7. CASE UNCHANGED pvars
  BY <1>7 DEF pvars, PkgInv, PkgTypeOK, Ownership, OwnedStringsLive, NoDoubleFree
<1>8. QED
  BY <1>1, <1>2, <1>3, <1>4, <1>5, <1>6, <1>7 DEF PkgNext

\* Every reachable state is well typed, and no sequence of constructions,
\* copies, assignments (failed ones included) and destructions of
\* SspiPackage objects frees a string twice or leaves a descriptor with a
\* package pointing at a freed string (GetLocalPkgCopy's rollback and
\* FreePkgInfo's m_HavePkg test).
THEOREM PackageStringsSafe ==
    PkgSpec => [](PkgTypeOK /\ OwnedStringsLive /\ NoDoubleFree)
<1>1. PkgInv => PkgTypeOK /\ OwnedStringsLive /\ NoDoubleFree
  BY DEF PkgInv
<1>2. QED
  BY <1>1, InitPkgInv, NextPkgInv, PTL DEF PkgSpec

\* A living descriptor with m_HavePkg never points at a freed Name or
\* Comment, whatever the order of constructions, copies, assignments and
\* destructions (GetLocalPkgCopy's rollback, FreePkgInfo).
THEOREM OwnedStringsAlwaysLive == PkgSpec => []OwnedStringsLive
<1>1. PkgTypeOK /\ OwnedStringsLive /\ NoDoubleFree => OwnedStringsLive
  OBVIOUS
<1>2. QED
  BY <1>1, PackageStringsSafe, PTL
=============================================================================
