------------------------- MODULE SspiClientProofs --------------------------
(***************************************************************************)
(* Proofs about SspiClient, for every set of objects and every bound.      *)
(***************************************************************************)
EXTENDS SspiClient, TLAPS

USE ConstantsAssumption

\* The status-to-state switch of PrepareOutboundPackage yields an AuthState.
LEMMA StateOfType ==
    ASSUME NEW st \in Statuses
    PROVE  StateOf(st) \in AuthStates
BY DEF StateOf, AuthStates, Statuses, ProviderStatuses, InvalidHandle

-----------------------------------------------------------------------------
(* Type correctness.                                                       *)

LEMMA InitTypeOK == Init => TypeOK
BY DEF Init, TypeOK, AuthStates

LEMMA NewTypeOK ==
    ASSUME TypeOK, NEW o \in Objs, New(o) PROVE TypeOK'
BY DEF New, TypeOK, AuthStates

LEMMA AcquireTypeOK ==
    ASSUME TypeOK, NEW o \in Objs, NEW ok \in BOOLEAN, AcquireCredentials(o, ok)
    PROVE  TypeOK'
BY DEF AcquireCredentials, TypeOK

LEMMA PrepareTypeOK ==
    ASSUME TypeOK, NEW o \in Objs, PrepareOutboundPackage(o) PROVE TypeOK'
<1> DEFINE b == <<o, rounds[o] + 1>>
<1>1. b \in Bufs /\ b \in Handles
  BY DEF PrepareOutboundPackage, TypeOK, Bufs, Handles
<1>2. PICK st \in Statuses, n \in 0..MaxToken :
        LET creates == ~ExistingContext(o) /\ st \in ContextStatuses IN
        /\ status' = [status EXCEPT ![o] = st]
        /\ m_State' = [m_State EXCEPT ![o] = StateOf(st)]
        /\ ctx' = IF creates THEN [ctx EXCEPT ![b] = "live"] ELSE ctx
        /\ m_Context' = IF creates THEN [m_Context EXCEPT ![o] = b] ELSE m_Context
        /\ heap' = [heap EXCEPT ![b] = IF st \in DefaultStatuses THEN "freed"
                                                                ELSE "live"]
        /\ size' = [size EXCEPT ![b] = n]
  BY DEF PrepareOutboundPackage, Statuses
<1>3. StateOf(st) \in AuthStates
  BY StateOfType
<1>4. status' \in [Objs -> Statuses \cup {"none"}]
      /\ m_State' \in [Objs -> AuthStates]
  BY <1>2, <1>3 DEF TypeOK
<1>5. ctx' \in [Handles -> {"none", "live", "deleted"}]
      /\ m_Context' \in [Objs -> Handles \cup {NoHandle}]
  BY <1>1, <1>2 DEF TypeOK
<1>6. heap' \in [Bufs -> {"unalloc", "live", "freed"}]
      /\ size' \in [Bufs -> 0..MaxToken]
  BY <1>1, <1>2 DEF TypeOK
<1>7. /\ m_HaveContext' = [m_HaveContext EXCEPT ![o] = TRUE]
      /\ rounds' = [rounds EXCEPT ![o] = @ + 1]
      /\ held' = [held EXCEPT ![o] = @ \cup {b}]
      /\ life' = life /\ m_Credentials' = m_Credentials
      /\ rounds[o] < MaxRounds
  BY DEF PrepareOutboundPackage
<1>8. /\ m_HaveContext' \in [Objs -> BOOLEAN]
      /\ rounds' \in [Objs -> 0..MaxRounds]
      /\ held' \in [Objs -> SUBSET Bufs]
  BY <1>1, <1>7 DEF TypeOK
<1>9. QED
  BY <1>4, <1>5, <1>6, <1>7, <1>8 DEF TypeOK

LEMMA FreeBufferTypeOK ==
    ASSUME TypeOK, NEW o \in Objs, NEW b \in held[o], FreeBuffer(o, b)
    PROVE  TypeOK'
BY DEF FreeBuffer, TypeOK

LEMMA DeleteTypeOK ==
    ASSUME TypeOK, NEW o \in Objs, Delete(o) PROVE TypeOK'
BY DEF Delete, TypeOK

LEMMA NextTypeOK == TypeOK /\ [Next]_vars => TypeOK'
<1> SUFFICES ASSUME TypeOK, [Next]_vars PROVE TypeOK'
  OBVIOUS
<1>1. CASE UNCHANGED vars
  BY <1>1 DEF vars, TypeOK
<1>2. QED
  BY <1>1, NewTypeOK, AcquireTypeOK, PrepareTypeOK, FreeBufferTypeOK,
     DeleteTypeOK DEF Next

\* Every reachable state is well typed.
THEOREM TypeCorrect == Spec => []TypeOK
BY InitTypeOK, NextTypeOK, PTL DEF Spec

-----------------------------------------------------------------------------------------------------------------------------------------------------
(* No context leaks.  NoContextLeak is inductive together with TypeOK: a   *)
(* context is created only by a round of its object that passes no         *)
(* existing context, which means m_HaveContext was false and so, by the    *)
(* invariant, that the object held no live context; the same round sets    *)
(* m_HaveContext and points m_Context at the new handle.  ~SspiClient      *)
(* deletes exactly the context m_Context names, which is the object's own  *)
(* whenever it has one.                                                    *)

\* The conclusion of NoContextLeak for one handle.
Owned(h) ==
    /\ life[h[1]] = "alive"
    /\ m_HaveContext[h[1]]
    /\ m_Context[h[1]] = h

LEMMA PrepareNoContextLeak ==
    ASSUME TypeOK, NoContextLeak, NEW o \in Objs, PrepareOutboundPackage(o)
    PROVE  NoContextLeak'
<1> DEFINE hn == <<o, rounds[o] + 1>>
           creates(st) == ~ExistingContext(o) /\ st \in ContextStatuses
<1>1. hn \in Handles /\ hn[1] = o
  BY DEF PrepareOutboundPackage, TypeOK, Handles
<1>2. PICK st \in Statuses :
        /\ ctx' = IF creates(st) THEN [ctx EXCEPT ![hn] = "live"] ELSE ctx
        /\ m_Context' = IF creates(st) THEN [m_Context EXCEPT ![o] = hn]
                                       ELSE m_Context
  BY DEF PrepareOutboundPackage, Statuses
<1>3. m_HaveContext' = [m_HaveContext EXCEPT ![o] = TRUE] /\ life' = life
  BY DEF PrepareOutboundPackage
<1>4. SUFFICES ASSUME NEW h \in Handles, ctx'[h] = "live"
               PROVE  Owned(h)'
  BY DEF NoContextLeak, Owned
<1>5. CASE creates(st) /\ h = hn
  <2>1. life[o] = "alive"
    BY DEF PrepareOutboundPackage
  <2>2. QED
    BY <1>1, <1>2, <1>3, <1>5, <2>1 DEF Owned, TypeOK
<1>6. CASE ~(creates(st) /\ h = hn)
  <2>1. ctx[h] = "live"
    BY <1>1, <1>2, <1>4, <1>6 DEF TypeOK
  <2>2. Owned(h)
    BY <2>1 DEF NoContextLeak, Owned
  <2>3. m_Context'[h[1]] = m_Context[h[1]]
    BY <1>2, <2>2 DEF Owned, ExistingContext, TypeOK, Handles
  <2>4. QED
    BY <1>3, <2>2, <2>3 DEF Owned, TypeOK, Handles
<1>7. QED
  BY <1>5, <1>6

LEMMA DeleteNoContextLeak ==
    ASSUME TypeOK, NoContextLeak, NEW o \in Objs, Delete(o)
    PROVE  NoContextLeak'
<1> DEFINE deletes == m_HaveContext[o] /\ m_Context[o] \in Handles
                      /\ ctx[m_Context[o]] = "live"
<1>1. ctx' = IF deletes THEN [ctx EXCEPT ![m_Context[o]] = "deleted"] ELSE ctx
  BY DEF Delete
<1>2. SUFFICES ASSUME NEW h \in Handles, ctx'[h] = "live"
               PROVE  Owned(h)'
  BY DEF NoContextLeak, Owned
<1>3. ctx[h] = "live" /\ ~(deletes /\ h = m_Context[o])
  BY <1>1, <1>2 DEF TypeOK
<1>4. Owned(h)
  BY <1>3 DEF NoContextLeak, Owned
<1>5. h[1] # o
  BY <1>3, <1>4 DEF Owned
<1>6. QED
  BY <1>4, <1>5 DEF Delete, Owned, TypeOK, Handles

LEMMA NextNoContextLeak ==
    TypeOK /\ NoContextLeak /\ [Next]_vars => NoContextLeak'
<1> SUFFICES ASSUME TypeOK, NoContextLeak, [Next]_vars
             PROVE  NoContextLeak'
  OBVIOUS
<1>1. ASSUME NEW o \in Objs, New(o) PROVE NoContextLeak'
  BY <1>1 DEF New, NoContextLeak, TypeOK, Handles
<1>2. ASSUME NEW o \in Objs, NEW ok \in BOOLEAN, AcquireCredentials(o, ok)
      PROVE NoContextLeak'
  BY <1>2 DEF AcquireCredentials, NoContextLeak
<1>3. ASSUME NEW o \in Objs, PrepareOutboundPackage(o) PROVE NoContextLeak'
  BY <1>3, PrepareNoContextLeak
<1>4. ASSUME NEW o \in Objs, NEW b \in held[o], FreeBuffer(o, b)
      PROVE NoContextLeak'
  BY <1>4 DEF FreeBuffer, NoContextLeak
<1>5. ASSUME NEW o \in Objs, Delete(o) PROVE NoContextLeak'
  BY <1>5, DeleteNoContextLeak
<1>6. CASE UNCHANGED vars
  BY <1>6 DEF vars, NoContextLeak
<1>7. QED
  BY <1>1, <1>2, <1>3, <1>4, <1>5, <1>6 DEF Next

\* No SspiClient ever loses track of a live security context: each is
\* named by its living creator's m_Context with m_HaveContext set.
THEOREM ContextNeverLeaks == Spec => []NoContextLeak
<1>1. Init => NoContextLeak
  BY DEF Init, NoContextLeak
<1>2. QED
  BY <1>1, InitTypeOK, NextTypeOK, NextNoContextLeak, PTL DEF Spec

-----------------------------------------------------------------------------
(* Refinement of Negotiation, for one SspiClient.  With several objects   *)
(* it fails: an object whose first round made no context keeps a garbage  *)
(* m_Context that may name another object's context, and its destructor   *)
(* deletes that context (the context_alias run).  For one object the step *)
(* mapping rests on NoContextLeak and two facts about the provider's       *)
(* contexts: none exists for an object not yet constructed, and a deleted  *)
(* one belongs to a destroyed object.                                      *)

SingleObject == \E o \in Objs : Objs = {o}

UnbornNoContext == \A h \in Handles : life[h[1]] = "unborn" => ctx[h] = "none"

DeletedOnlyDead == \A h \in Handles : ctx[h] = "deleted" => life[h[1]] = "dead"

UnbornInitial == \A o \in Objs : life[o] = "unborn" => m_State[o] = "AuthContinue"

RInv == TypeOK /\ NoContextLeak /\ UnbornNoContext /\ DeletedOnlyDead /\ UnbornInitial

LEMMA InitRInv == Init => RInv
BY InitTypeOK DEF Init, RInv, NoContextLeak, UnbornNoContext, DeletedOnlyDead,
                  UnbornInitial

\* A live context of an object is the one its m_Context names.
LEMMA LiveIsOwned ==
    ASSUME TypeOK, NoContextLeak, NEW h \in Handles, ctx[h] = "live"
    PROVE  /\ life[h[1]] = "alive" /\ m_HaveContext[h[1]]
           /\ m_Context[h[1]] = h
BY DEF NoContextLeak

LEMMA NextRInv ==
    ASSUME SingleObject, RInv, [Next]_vars
    PROVE  RInv'
<1>1. TypeOK' /\ NoContextLeak'
  BY NextTypeOK, NextNoContextLeak DEF RInv
<1>2. ASSUME NEW o \in Objs, New(o) PROVE (UnbornNoContext /\ DeletedOnlyDead /\ UnbornInitial)'
  BY <1>2 DEF New, RInv, TypeOK, UnbornNoContext, DeletedOnlyDead, UnbornInitial, Handles
<1>3. ASSUME NEW o \in Objs, NEW ok \in BOOLEAN, AcquireCredentials(o, ok)
      PROVE (UnbornNoContext /\ DeletedOnlyDead /\ UnbornInitial)'
  BY <1>3 DEF AcquireCredentials, RInv, UnbornNoContext, DeletedOnlyDead, UnbornInitial
<1>4. ASSUME NEW o \in Objs, PrepareOutboundPackage(o)
      PROVE (UnbornNoContext /\ DeletedOnlyDead /\ UnbornInitial)'
  <2> DEFINE hn == <<o, rounds[o] + 1>>
  <2>1. hn \in Handles /\ hn[1] = o /\ life[o] = "alive" /\ life' = life
    BY <1>4 DEF PrepareOutboundPackage, RInv, TypeOK, Handles
  <2>2. \A h \in Handles : ctx'[h] = ctx[h] \/ (h = hn /\ ctx'[h] = "live")
    BY <1>4, <2>1 DEF PrepareOutboundPackage, RInv, TypeOK
  <2>3. \A e \in Objs \ {o} : m_State'[e] = m_State[e]
    BY <1>4 DEF PrepareOutboundPackage, RInv, TypeOK
  <2>4. QED
    BY <2>1, <2>2, <2>3 DEF RInv, UnbornNoContext, DeletedOnlyDead, UnbornInitial
<1>5. ASSUME NEW o \in Objs, NEW b \in held[o], FreeBuffer(o, b)
      PROVE (UnbornNoContext /\ DeletedOnlyDead /\ UnbornInitial)'
  BY <1>5 DEF FreeBuffer, RInv, UnbornNoContext, DeletedOnlyDead, UnbornInitial
<1>6. ASSUME NEW o \in Objs, Delete(o)
      PROVE (UnbornNoContext /\ DeletedOnlyDead /\ UnbornInitial)'
  <2>1. \A h \in Handles : h[1] = o
    BY DEF SingleObject, Handles
  <2>2. \A h \in Handles : ctx'[h] = ctx[h] \/ (ctx[h] = "live" /\ ctx'[h] = "deleted")
    BY <1>6 DEF Delete, RInv, TypeOK
  <2>3. /\ life'[o] = "dead" /\ life[o] = "alive"
        /\ \A e \in Objs \ {o} : life'[e] = life[e]
        /\ m_State' = m_State
    BY <1>6 DEF Delete, RInv, TypeOK
  <2>4. QED
    BY <2>1, <2>2, <2>3 DEF RInv, UnbornNoContext, DeletedOnlyDead, UnbornInitial
<1>7. CASE UNCHANGED vars
  BY <1>7 DEF vars, RInv, TypeOK, NoContextLeak, UnbornNoContext, DeletedOnlyDead,
              UnbornInitial
<1>8. QED
  BY <1>1, <1>2, <1>3, <1>4, <1>5, <1>6, <1>7 DEF Next, RInv

\* The abstract context of o is unchanged by a step that leaves ctx alone.
LEMMA CtxOfUnchanged ==
    ASSUME ctx' = ctx PROVE [o \in Objs |-> CtxOf(o)]' = [o \in Objs |-> CtxOf(o)]
BY DEF CtxOf

LEMMA InitRefines == Init => Abs!NInit
BY DEF Init, Abs!NInit, CtxOf

LEMMA PrepareRefines ==
    ASSUME RInv, NEW o \in Objs, PrepareOutboundPackage(o),
           m_State[o] = "AuthContinue"
    PROVE  Abs!Round(o)
<1> DEFINE hn == <<o, rounds[o] + 1>>
           creates(st) == ~ExistingContext(o) /\ st \in ContextStatuses
           A == [e \in Objs |-> CtxOf(e)]
<1>1. hn \in Handles /\ hn[1] = o /\ life[o] = "alive" /\ life' = life
  BY DEF PrepareOutboundPackage, RInv, TypeOK, Handles
<1>2. PICK st \in Statuses :
        /\ m_State' = [m_State EXCEPT ![o] = StateOf(st)]
        /\ ctx' = IF creates(st) THEN [ctx EXCEPT ![hn] = "live"] ELSE ctx
  BY DEF PrepareOutboundPackage, Statuses
<1>3. StateOf(st) \in Abs!States
  BY StateOfType DEF Abs!States, AuthStates
<1>4. CASE creates(st)
  <2>1. CtxOf(o) = "none"
    <3>1. \A h \in Handles : h[1] = o => ctx[h] # "live"
      BY <1>4, LiveIsOwned DEF RInv, ExistingContext
    <3>2. \A h \in Handles : h[1] = o => ctx[h] # "deleted"
      BY <1>1 DEF RInv, DeletedOnlyDead
    <3>3. QED
      BY <3>1, <3>2 DEF CtxOf
  <2>2. CtxOf(o)' = "live"
    BY <1>1, <1>2, <1>4 DEF CtxOf, RInv, TypeOK
  <2>3. \A e \in Objs \ {o} : CtxOf(e)' = CtxOf(e)
    BY <1>1, <1>2, <1>4 DEF CtxOf, RInv, TypeOK
  <2>4. StateOf(st) \in {"AuthSuccess", "AuthContinue"}
    BY <1>4 DEF StateOf, ContextStatuses
  <2>5. A' = [A EXCEPT ![o] = "live"]
    BY <2>2, <2>3
  <2>6. QED
    BY <1>1, <1>2, <1>3, <2>1, <2>4, <2>5 DEF Abs!Round
<1>5. CASE ~creates(st)
  <2>1. A' = A
    BY <1>2, <1>5, CtxOfUnchanged
  <2>2. A[o] \in IF A[o] = "none" THEN {"none", "live"} ELSE {A[o]}
    OBVIOUS
  <2>3. A' = [A EXCEPT ![o] = A[o]]
    BY <2>1
  <2>4. QED
    BY <1>1, <1>2, <1>3, <2>2, <2>3 DEF Abs!Round
<1>6. QED
  BY <1>4, <1>5

LEMMA DeleteRefines ==
    ASSUME SingleObject, RInv, NEW o \in Objs, Delete(o)
    PROVE  Abs!Destroy(o)
<1> DEFINE A == [e \in Objs |-> CtxOf(e)]
           deletes == m_HaveContext[o] /\ m_Context[o] \in Handles
                      /\ ctx[m_Context[o]] = "live"
<1>1. Objs = {o}
  BY DEF SingleObject
<1>2. \A h \in Handles : h[1] = o
  BY <1>1 DEF Handles
<1>3. ctx' = IF deletes THEN [ctx EXCEPT ![m_Context[o]] = "deleted"] ELSE ctx
  BY DEF Delete
<1>4. CASE deletes
  <2>1. \A h \in Handles : ctx[h] = "live" => h = m_Context[o]
    BY <1>2, LiveIsOwned DEF RInv
  <2>2. CtxOf(o) = "live"
    BY <1>2, <1>4 DEF CtxOf
  <2>3. CtxOf(o)' = "released"
    BY <1>2, <1>3, <1>4, <2>1 DEF CtxOf, RInv, TypeOK
  <2>4. A' = [A EXCEPT ![o] = IF @ = "live" THEN "released" ELSE @]
    BY <1>1, <2>2, <2>3
  <2>5. QED
    BY <2>4 DEF Delete, Abs!Destroy
<1>5. CASE ~deletes
  <2>1. CtxOf(o) # "live"
    BY <1>2, <1>5, LiveIsOwned DEF RInv, CtxOf
  <2>2. A' = A
    BY <1>3, <1>5, CtxOfUnchanged
  <2>3. A' = [A EXCEPT ![o] = IF @ = "live" THEN "released" ELSE @]
    BY <2>1, <2>2
  <2>4. QED
    BY <2>3 DEF Delete, Abs!Destroy
<1>6. QED
  BY <1>4, <1>5

LEMMA NextRefines ==
    ASSUME SingleObject, RInv, [Next]_vars
    PROVE  [Abs!NNext]_Abs!avars
<1> DEFINE A == [e \in Objs |-> CtxOf(e)]
<1>1. ASSUME NEW o \in Objs, New(o) PROVE Abs!Create(o)
  <2>1. m_State' = m_State
    BY <1>1 DEF New, RInv, UnbornInitial, TypeOK
  <2>2. QED
    BY <1>1, <2>1, CtxOfUnchanged DEF New, Abs!Create
<1>2. ASSUME NEW o \in Objs, NEW ok \in BOOLEAN, AcquireCredentials(o, ok)
      PROVE UNCHANGED Abs!avars
  BY <1>2, CtxOfUnchanged DEF AcquireCredentials, Abs!avars
<1>3. ASSUME NEW o \in Objs, NEW b \in held[o], FreeBuffer(o, b)
      PROVE UNCHANGED Abs!avars
  BY <1>3, CtxOfUnchanged DEF FreeBuffer, Abs!avars
<1>4. CASE UNCHANGED vars
  BY <1>4, CtxOfUnchanged DEF vars, Abs!avars
<1>5. QED
  BY <1>1, <1>2, <1>3, <1>4, PrepareRefines, DeleteRefines
     DEF Next, Abs!NNext, Abs!avars

\* For one SspiClient, every behaviour of the engine is a behaviour of the
\* negotiation engine of spec 4.3 (NegotiationRefined): states move only
\* out of AuthContinue, the one context appears with AuthContinue or
\* AuthSuccess, is kept across rounds, and ~SspiClient deletes it.
THEOREM RefinesNegotiation ==
    ASSUME SingleObject PROVE Spec => NegotiationRefined
<1>1. RInv /\ [Next]_vars => RInv'
  BY NextRInv
<1>2. RInv /\ [Next]_vars => [Abs!NNext]_Abs!avars
  BY NextRefines
<1>3. QED
  BY <1>1, <1>2, InitRInv, InitRefines, PTL DEF Spec, NegotiationRefined, Abs!NSpec

-----------------------------------------------------------------------------
(* ContextInUseIsLive, for one SspiClient.  A round that reports           *)
(* AuthContinue or AuthSuccess either created the context (no existing    *)
(* one was passed) or was passed the existing one, which was live because *)
(* the round before reported AuthContinue; a round is the first exactly   *)
(* when m_HaveContext is still false.  Only ~SspiClient deletes a context, *)
(* and only the object's own when it is alone.                             *)

FreshNoContext ==
    \A o \in Objs : /\ rounds[o] = 0 => ~m_HaveContext[o]
                    /\ life[o] = "unborn" => rounds[o] = 0

CInv == RInv /\ FreshNoContext /\ ContextInUseIsLive

LEMMA InitCInv == Init => CInv
BY InitRInv DEF Init, CInv, FreshNoContext, ContextInUseIsLive

\* The statuses the switch maps to AuthContinue or AuthSuccess are exactly
\* those that leave a context.
LEMMA StateOfContext ==
    ASSUME NEW st \in Statuses
    PROVE  StateOf(st) \in {"AuthContinue", "AuthSuccess"} <=> st \in ContextStatuses
BY DEF StateOf, ContextStatuses, Statuses, ProviderStatuses, InvalidHandle

LEMMA PrepareCInv ==
    ASSUME CInv, NEW o \in Objs, PrepareOutboundPackage(o),
           m_State[o] = "AuthContinue"
    PROVE  (FreshNoContext /\ ContextInUseIsLive)'
<1> DEFINE hn == <<o, rounds[o] + 1>>
           creates(st) == ~ExistingContext(o) /\ st \in ContextStatuses
<1>1. /\ hn \in Handles /\ life[o] = "alive" /\ life' = life
      /\ rounds' = [rounds EXCEPT ![o] = @ + 1]
      /\ m_HaveContext' = [m_HaveContext EXCEPT ![o] = TRUE]
  BY DEF PrepareOutboundPackage, CInv, RInv, TypeOK, Handles
<1>2. PICK st \in Statuses :
        /\ m_State' = [m_State EXCEPT ![o] = StateOf(st)]
        /\ ctx' = IF creates(st) THEN [ctx EXCEPT ![hn] = "live"] ELSE ctx
        /\ m_Context' = IF creates(st) THEN [m_Context EXCEPT ![o] = hn]
                                       ELSE m_Context
  BY DEF PrepareOutboundPackage, Statuses
<1>3. FreshNoContext'
  BY <1>1 DEF CInv, RInv, TypeOK, FreshNoContext
<1>4. \A e \in Objs \ {o} :
        (life[e] = "alive" /\ rounds[e] > 0 /\ m_State[e] \in {"AuthContinue", "AuthSuccess"})
          => ctx'[m_Context[e]] = "live" /\ m_Context'[e] = m_Context[e]
  BY <1>1, <1>2 DEF CInv, RInv, TypeOK, ContextInUseIsLive
<1>5. ASSUME StateOf(st) \in {"AuthContinue", "AuthSuccess"}
      PROVE  m_Context'[o] \in Handles /\ ctx'[m_Context'[o]] = "live"
  <2>1. st \in ContextStatuses
    BY <1>5, StateOfContext
  <2>2. CASE ~ExistingContext(o)
    BY <1>1, <1>2, <2>1, <2>2 DEF CInv, RInv, TypeOK
  <2>3. CASE ExistingContext(o)
    <3>1. rounds[o] > 0
      BY <2>3 DEF ExistingContext, CInv, FreshNoContext, RInv, TypeOK
    <3>2. m_Context[o] \in Handles /\ ctx[m_Context[o]] = "live"
      BY <1>1, <3>1 DEF CInv, ContextInUseIsLive
    <3>3. QED
      BY <1>2, <2>3, <3>2
  <2>4. QED
    BY <2>2, <2>3
<1>6. QED
  BY <1>1, <1>2, <1>3, <1>4, <1>5 DEF CInv, RInv, TypeOK, ContextInUseIsLive

LEMMA NextCInv ==
    ASSUME SingleObject, CInv, [Next]_vars
    PROVE  CInv'
<1>1. RInv'
  BY NextRInv DEF CInv
<1>2. ASSUME NEW o \in Objs, New(o) PROVE (FreshNoContext /\ ContextInUseIsLive)'
  BY <1>2 DEF New, CInv, RInv, TypeOK, FreshNoContext, ContextInUseIsLive
<1>3. ASSUME NEW o \in Objs, NEW ok \in BOOLEAN, AcquireCredentials(o, ok)
      PROVE (FreshNoContext /\ ContextInUseIsLive)'
  BY <1>3 DEF AcquireCredentials, CInv, FreshNoContext, ContextInUseIsLive
<1>4. ASSUME NEW o \in Objs, m_State[o] = "AuthContinue", PrepareOutboundPackage(o)
      PROVE (FreshNoContext /\ ContextInUseIsLive)'
  BY <1>4, PrepareCInv
<1>5. ASSUME NEW o \in Objs, NEW b \in held[o], FreeBuffer(o, b)
      PROVE (FreshNoContext /\ ContextInUseIsLive)'
  BY <1>5 DEF FreeBuffer, CInv, FreshNoContext, ContextInUseIsLive
<1>6. ASSUME NEW o \in Objs, Delete(o)
      PROVE (FreshNoContext /\ ContextInUseIsLive)'
  <2>1. Objs = {o}
    BY DEF SingleObject
  <2>2. life'[o] = "dead" /\ rounds' = rounds /\ m_HaveContext' = m_HaveContext
    BY <1>6 DEF Delete, CInv, RInv, TypeOK
  <2>3. QED
    BY <2>1, <2>2 DEF CInv, FreshNoContext, ContextInUseIsLive
<1>7. CASE UNCHANGED vars
  BY <1>1, <1>7 DEF vars, CInv, FreshNoContext, ContextInUseIsLive
<1>8. CASE Next
  <2>1. PICK o \in Objs :
          \/ New(o)
          \/ m_Credentials[o] = "unset" /\ rounds[o] = 0
             /\ \E ok \in BOOLEAN : AcquireCredentials(o, ok)
          \/ m_Credentials[o] = "held" /\ m_State[o] = "AuthContinue"
             /\ PrepareOutboundPackage(o)
          \/ \E b \in held[o] : FreeBuffer(o, b)
          \/ Delete(o)
    BY <1>8 DEF Next
  <2>2. (FreshNoContext /\ ContextInUseIsLive)'
    BY <2>1, <1>2, <1>3, <1>4, <1>5, <1>6
  <2>3. QED
    BY <1>1, <2>2 DEF CInv
<1>9. QED
  BY <1>7, <1>8

\* For one SspiClient, whenever it reports AuthContinue or AuthSuccess after
\* a round, m_Context names a context the provider holds live: the next
\* round, and the destructor, are given a real context
\* (PrepareOutboundPackage's m_HaveContext, ~SspiClient).
THEOREM ContextInUseStaysLive ==
    ASSUME SingleObject PROVE Spec => []ContextInUseIsLive
<1>1. CInv /\ [Next]_vars => CInv'
  BY NextCInv
<1>2. CInv => ContextInUseIsLive
  BY DEF CInv
<1>3. QED
  BY <1>1, <1>2, InitCInv, PTL DEF Spec

=============================================================================
