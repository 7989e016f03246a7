--------------------------- MODULE SspiJniProofs ----------------------------
(***************************************************************************)
(* Proofs about the JNI layer of SSPIJNIClient.cpp (module SspiJni): type  *)
(* correctness and the engine's context bookkeeping (every live context    *)
(* held by its living creator) for any number of Java threads, and, for   *)
(* one thread, that no native method uses a deleted or null client.  The  *)
(* engine's actions are reasoned about through the lemmas of               *)
(* SspiClientProofs, which hold whoever calls them.                        *)
(***************************************************************************)
EXTENDS SspiJni, SspiClientProofs

USE ConstantsAssumption, JniAssumption

\* The steps that leave the binding and the engine alone but for pc.
LoginSteps(t) ==
    \/ \E o \in Objs : RequestNew(t, o)
    \/ RequestNoPackage(t)
    \/ RequestAcquire(t)
    \/ RequestPrepare(t)
    \/ SubmitPrepare(t)
    \/ SubmitDelete(t)

-----------------------------------------------------------------------------
(* Type correctness.  The load count stays in 0..MaxLoads because          *)
(* unInitialize decrements it only while _hProvider holds a handle, and a  *)
(* handle is held only after a load that incremented it.                   *)

ProviderLoaded == hProvider => dllRefs > 0

JInv == JniTypeOK /\ ProviderLoaded

\* A step that leaves the engine's variables alone keeps them well typed.
LEMMA TypeUnchanged ==
    ASSUME TypeOK, vars' = vars PROVE TypeOK'
BY DEF vars, TypeOK

LEMMA InitJInv == JniInit => JInv
<1> SUFFICES ASSUME JniInit PROVE JInv
  OBVIOUS
<1>1. TypeOK
  BY InitTypeOK DEF JniInit
<1>2. client \in Objs \cup {NULL} /\ pc \in [Threads -> Pcs]
  BY DEF JniInit, Pcs
<1>3. hProvider \in BOOLEAN /\ iface \in BOOLEAN /\ initialized \in BOOLEAN
  BY DEF JniInit
<1>6. dllRefs \in 0..MaxLoads
  BY JniAssumption DEF JniInit
<1>4. pinned \subseteq Handles
  BY DEF JniInit
<1>5. QED
  BY <1>1, <1>2, <1>3, <1>4, <1>6 DEF JniInit, JInv, JniTypeOK, ProviderLoaded

LEMMA BindingStepJInv ==
    ASSUME JInv, NEW t \in Threads, Initialize(t) \/ UnInitialize(t)
    PROVE  JInv'
<1>1. vars' = vars /\ client' = client /\ pc' = pc /\ pinned' = pinned
  BY DEF Initialize, UnInitialize
<1>2. TypeOK'
  BY <1>1, TypeUnchanged DEF JInv, JniTypeOK
<1>3. (hProvider \in BOOLEAN /\ iface \in BOOLEAN /\ initialized \in BOOLEAN)'
  BY DEF Initialize, UnInitialize, JInv, JniTypeOK
<1>4. ASSUME Initialize(t) PROVE (dllRefs \in 0..MaxLoads /\ ProviderLoaded)'
  BY <1>4 DEF Initialize, JInv, JniTypeOK, ProviderLoaded
<1>5. ASSUME UnInitialize(t) PROVE (dllRefs \in 0..MaxLoads /\ ProviderLoaded)'
  BY <1>5 DEF UnInitialize, JInv, JniTypeOK, ProviderLoaded
<1>6. (dllRefs \in 0..MaxLoads /\ ProviderLoaded)'
  BY <1>4, <1>5
<1>7. QED
  BY <1>1, <1>2, <1>3, <1>6 DEF JInv, JniTypeOK

LEMMA LoginStepJInv ==
    ASSUME JInv, NEW t \in Threads, LoginSteps(t)
    PROVE  JInv'
<1>1. bindVars' = bindVars
  BY DEF LoginSteps, RequestNew, RequestNoPackage, RequestAcquire,
         RequestPrepare, SubmitPrepare, SubmitDelete
<1>2. ProviderLoaded'
  BY <1>1 DEF JInv, ProviderLoaded, bindVars
<1>3. (/\ hProvider \in BOOLEAN /\ iface \in BOOLEAN /\ dllRefs \in 0..MaxLoads
       /\ initialized \in BOOLEAN)'
  BY <1>1 DEF JInv, JniTypeOK, bindVars
<1>4. ASSUME NEW o \in Objs, RequestNew(t, o) PROVE JniTypeOK'
  BY <1>3, <1>4, NewTypeOK DEF RequestNew, JInv, JniTypeOK, Pcs
<1>5. ASSUME RequestNoPackage(t) PROVE JniTypeOK'
  <2>1. vars' = vars /\ client' = client /\ pinned' = pinned
    BY <1>5 DEF RequestNoPackage
  <2>2. TypeOK'
    BY <2>1, TypeUnchanged DEF JInv, JniTypeOK
  <2>3. QED
    BY <1>3, <1>5, <2>1, <2>2 DEF RequestNoPackage, JInv, JniTypeOK, Pcs
<1>6. ASSUME RequestAcquire(t) PROVE JniTypeOK'
  <2>1. PICK ok \in BOOLEAN :
          /\ AcquireCredentials(client, ok)
          /\ pc' = [pc EXCEPT ![t] = IF ok THEN "req_prepare" ELSE "thrown"]
    BY <1>6 DEF RequestAcquire
  <2>2. TypeOK'
    BY <1>6, <2>1, AcquireTypeOK DEF RequestAcquire, JInv, JniTypeOK
  <2>3. QED
    BY <1>3, <1>6, <2>1, <2>2 DEF RequestAcquire, JInv, JniTypeOK, Pcs
<1>7. ASSUME RequestPrepare(t) PROVE JniTypeOK'
  <2>1. TypeOK'
    BY <1>7, PrepareTypeOK DEF RequestPrepare, JInv, JniTypeOK
  <2>2. QED
    BY <1>3, <1>7, <2>1 DEF RequestPrepare, JInv, JniTypeOK, Pcs
<1>8. ASSUME SubmitPrepare(t) PROVE JniTypeOK'
  <2>1. TypeOK'
    BY <1>8, PrepareTypeOK DEF SubmitPrepare, JInv, JniTypeOK
  <2>2. NextBuf(client) \in Handles
    BY <1>8 DEF SubmitPrepare, PrepareOutboundPackage, NextBuf, JInv,
                JniTypeOK, TypeOK, Handles
  <2>3. QED
    BY <1>3, <1>8, <2>1, <2>2 DEF SubmitPrepare, JInv, JniTypeOK, Pcs
<1>9. ASSUME SubmitDelete(t) PROVE JniTypeOK'
  <2>1. TypeOK'
    BY <1>9, DeleteTypeOK DEF SubmitDelete, JInv, JniTypeOK
  <2>2. QED
    BY <1>3, <1>9, <2>1 DEF SubmitDelete, JInv, JniTypeOK, Pcs
<1>10. QED
  BY <1>2, <1>4, <1>5, <1>6, <1>7, <1>8, <1>9 DEF LoginSteps, JInv

LEMMA NextJInv == JInv /\ [JniNext]_allVars => JInv'
<1> SUFFICES ASSUME JInv, [JniNext]_allVars PROVE JInv'
  OBVIOUS
<1>1. CASE UNCHANGED allVars
  BY <1>1 DEF allVars, vars, jniVars, bindVars, JInv, JniTypeOK, TypeOK,
              ProviderLoaded
<1>2. QED
  BY <1>1, BindingStepJInv, LoginStepJInv DEF JniNext, LoginSteps

\* Every reachable state of the JNI layer is well typed, for any number of
\* threads, objects and DLL loads; in particular unInitialize never drives
\* the load count below zero.
THEOREM JniTypeCorrect == JniSpec => []JniTypeOK
BY InitJInv, NextJInv, PTL DEF JniSpec, JInv

-----------------------------------------------------------------------------
(* No context leaks, for any number of threads.  The JNI layer reaches the *)
(* engine only through New, AcquireCredentials, PrepareOutboundPackage and *)
(* Delete, and the lemmas of SspiClientProofs show that each of them keeps *)
(* NoContextLeak whoever calls it, in whatever state: even two threads     *)
(* racing on `client`, or a round after a terminal state, lose no context. *)

LEMMA NextJniNoContextLeak ==
    ASSUME JInv, NoContextLeak, [JniNext]_allVars
    PROVE  NoContextLeak'
<1>1. CASE UNCHANGED allVars
  BY <1>1 DEF allVars, vars, NoContextLeak
<1>2. ASSUME NEW t \in Threads, Initialize(t) \/ UnInitialize(t) \/ RequestNoPackage(t)
      PROVE  NoContextLeak'
  <2>1. vars' = vars
    BY <1>2 DEF Initialize, UnInitialize, RequestNoPackage
  <2>2. QED
    BY <2>1 DEF vars, NoContextLeak
<1>3. ASSUME NEW t \in Threads, NEW o \in Objs, RequestNew(t, o)
      PROVE  NoContextLeak'
  BY <1>3 DEF RequestNew, New, NoContextLeak, JInv, JniTypeOK, TypeOK, Handles
<1>4. ASSUME NEW t \in Threads, RequestAcquire(t) PROVE NoContextLeak'
  BY <1>4 DEF RequestAcquire, AcquireCredentials, NoContextLeak
<1>5. ASSUME NEW t \in Threads, RequestPrepare(t) \/ SubmitPrepare(t)
      PROVE  NoContextLeak'
  <2>1. client \in Objs /\ PrepareOutboundPackage(client)
    BY <1>5 DEF RequestPrepare, SubmitPrepare
  <2>2. QED
    BY <2>1, PrepareNoContextLeak DEF JInv, JniTypeOK
<1>6. ASSUME NEW t \in Threads, SubmitDelete(t) PROVE NoContextLeak'
  <2>1. client \in Objs /\ Delete(client)
    BY <1>6 DEF SubmitDelete
  <2>2. QED
    BY <2>1, DeleteNoContextLeak DEF JInv, JniTypeOK
<1>7. QED
  BY <1>1, <1>2, <1>3, <1>4, <1>5, <1>6 DEF JniNext

\* However many Java threads race on `client`, and whatever round a
\* thread runs after a terminal state, every live security context stays
\* named by the m_Context of its living creator with m_HaveContext set, so
\* the engine's bookkeeping never drops a context (prepareSSORequest's
\* `new`, the rounds of both native methods, prepareSSOSubmit's `delete
\* client`).  It does not say the context is ever deleted: a creator the
\* global no longer names still holds it, and nothing deletes that object
\* (run jni_orphan).
THEOREM JniContextNeverLeaks == JniSpec => []NoContextLeak
<1>1. JniInit => NoContextLeak
  BY DEF JniInit, Init, NoContextLeak
<1>2. QED
  BY <1>1, InitJInv, NextJInv, NextJniNoContextLeak, PTL DEF JniSpec

-----------------------------------------------------------------------------
(* One Java thread.  With a second thread the property below fails (the   *)
(* jni_concurrent run: one thread's `new` or `delete client` lands between *)
(* the other's calls), so the theorem assumes one thread, which is what a  *)
(* driver that serialises its logins gives the native code.                *)

SingleThread == \E t \in Threads : Threads = {t}

UInv == JInv /\ ClientLiveWhenUsed

LEMMA InitUInv == JniInit => UInv
BY InitJInv DEF JniInit, UInv, ClientLiveWhenUsed, UsesClient

LEMMA NextUInv ==
    ASSUME SingleThread, UInv, [JniNext]_allVars
    PROVE  UInv'
<1>1. PICK t0 \in Threads : Threads = {t0}
  BY DEF SingleThread
<1>2. JInv'
  BY NextJInv DEF UInv
<1>3. CASE UNCHANGED allVars
  BY <1>2, <1>3 DEF allVars, vars, jniVars, UInv, ClientLiveWhenUsed
<1>4. ASSUME NEW t \in Threads, Initialize(t) \/ UnInitialize(t)
      PROVE  UInv'
  <2>1. pc' = pc /\ client' = client /\ life' = life /\ pc[t0] = "idle"
    BY <1>1, <1>4 DEF Initialize, UnInitialize, vars
  <2>2. ClientLiveWhenUsed'
    BY <1>1, <2>1 DEF UInv, ClientLiveWhenUsed, UsesClient
  <2>3. QED
    BY <1>2, <2>2 DEF UInv
<1>5. ASSUME NEW t \in Threads, LoginSteps(t) PROVE UInv'
  <2>1. t = t0
    BY <1>1
  <2>2. SUFFICES ASSUME pc'[t0] \in UsesClient
                 PROVE  client' \in Objs /\ life'[client'] = "alive"
    BY <1>1, <1>2 DEF UInv, ClientLiveWhenUsed
  <2>3. ASSUME NEW o \in Objs, RequestNew(t, o)
        PROVE  client' \in Objs /\ life'[client'] = "alive"
    BY <2>3 DEF RequestNew, New, UInv, JInv, JniTypeOK, TypeOK
  <2>4. ASSUME RequestNoPackage(t) \/ SubmitDelete(t) PROVE FALSE
    BY <2>1, <2>2, <2>4 DEF RequestNoPackage, SubmitDelete, UInv, JInv,
                            JniTypeOK, UsesClient
  <2>5. ASSUME RequestAcquire(t) \/ RequestPrepare(t) \/ SubmitPrepare(t)
        PROVE  client' \in Objs /\ life'[client'] = "alive"
    <3>1. client' = client /\ life' = life /\ pc[t0] \in UsesClient
      BY <2>1, <2>5 DEF RequestAcquire, RequestPrepare, SubmitPrepare,
                        AcquireCredentials, PrepareOutboundPackage, UsesClient
    <3>2. QED
      BY <3>1 DEF UInv, ClientLiveWhenUsed
  <2>6. QED
    BY <1>5, <2>3, <2>4, <2>5 DEF LoginSteps
<1>6. QED
  BY <1>3, <1>4, <1>5 DEF JniNext, LoginSteps

\* With one Java thread, whenever a native method is about to call a method
\* of `client` (AcquireCredentials, either PrepareOutboundPackage, or
\* `delete client`), `client` points to a living SspiClient: no native
\* method dereferences a null or deleted client, for any number of logins
\* (failed, empty-token and thrown ones included) and DLL loads
\* (prepareSSORequest, prepareSSOSubmit).
THEOREM ClientAlwaysLiveWhenUsed ==
    ASSUME SingleThread PROVE JniSpec => []ClientLiveWhenUsed
<1>1. UInv /\ [JniNext]_allVars => UInv'
  BY NextUInv
<1>2. QED
  BY <1>1, InitUInv, PTL DEF JniSpec, UInv

=============================================================================
