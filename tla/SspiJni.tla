------------------------------- MODULE SspiJni -------------------------------
(***************************************************************************)
(* The JNI entry points of src/src/SSO/Src/SSPIJNIClient.cpp driving the   *)
(* SspiClient engine through the process-wide pointer `client`.            *)
(*                                                                         *)
(* Each Java thread that logs in calls prepareSSORequest, sends the token  *)
(* to the server, and calls prepareSSOSubmit with the server's challenge.  *)
(* A native method runs in its Java caller's thread and takes no lock, so  *)
(* the steps of two threads interleave; each engine method is one atomic   *)
(* step, and every use of `client` reads the global at that step.          *)
(***************************************************************************)
EXTENDS SspiClient

CONSTANTS
    Threads,   \* Java threads calling the native methods (model values)
    NULL,      \* the null SspiClient pointer
    MaxLoads   \* bound on the provider DLL's load count

ASSUME JniAssumption == NULL \notin Objs /\ MaxLoads \in Nat \ {0}

VARIABLES
    client,    \* the global SspiClient* client
    pc,        \* where each thread is in its login
    hProvider, \* whether the global _hProvider holds a module handle
    iface,     \* whether the global _pSecurityInterface is non-NULL
    dllRefs,   \* the provider DLL's load count (LoadLibrary - FreeLibrary)
    initialized, \* the Java side's view: the last initialize returned normally
    pinned     \* challenge arrays whose elements GetByteArrayElements pinned,
               \* named by the round they were passed to

bindVars == <<hProvider, iface, dllRefs, initialized>>
jniVars == <<client, pc, pinned, bindVars>>
allVars == <<vars, jniVars>>

\* Points of a thread's login: "idle" (no native call running), inside
\* prepareSSORequest after `new` ("req_acquire") and after
\* AcquireCredentials ("req_prepare"), back in Java waiting for the
\* server's challenge ("await"), inside prepareSSOSubmit before
\* `delete client` ("sub_delete"), and "thrown" once an SspiException
\* has escaped the native method.
Pcs == {"idle", "req_acquire", "req_prepare", "await", "sub_delete", "thrown"}

\* The points at which a thread's next step dereferences `client`.
UsesClient == {"req_acquire", "req_prepare", "await", "sub_delete"}

JniTypeOK ==
    /\ TypeOK
    /\ client \in Objs \cup {NULL}
    /\ pc \in [Threads -> Pcs]
    /\ hProvider \in BOOLEAN /\ iface \in BOOLEAN /\ dllRefs \in 0..MaxLoads
    /\ initialized \in BOOLEAN
    /\ pinned \subseteq Handles

JniInit ==
    /\ Init
    /\ client = NULL
    /\ pc = [t \in Threads |-> "idle"]
    /\ hProvider = FALSE /\ iface = FALSE /\ dllRefs = 0 /\ initialized = FALSE
    /\ pinned = {}

\* The block PrepareOutboundPackage(o) allocates in its next round.
NextBuf(o) == <<o, rounds[o] + 1>>

-----------------------------------------------------------------------------
(* Java_net_sourceforge_jtds_util_SSPIJNIClient_initialize and             *)
(* unInitialize, called by a thread that is not inside a login.  The Java  *)
(* caller starts a login only after initialize has returned normally (the  *)
(* binding is established before any negotiation, spec 4.4); the native    *)
(* methods themselves never test the binding.                              *)

\* LoadLibrary("secur32.dll"), else LoadLibrary("security.dll"); if both
\* fail, _hProvider is NULL and ErrorNoLibrary is thrown.  Otherwise the
\* module's load count grows and GetProcAddress either fails (throw
\* ErrorNoSecurityInterface, the table untouched) or InitSecurityInterface()
\* is stored in _pSecurityInterface; a NULL table throws the same error.
Initialize(t) ==
    /\ pc[t] = "idle"
    /\ \/ /\ hProvider' = FALSE /\ initialized' = FALSE
          /\ UNCHANGED <<iface, dllRefs>>
       \/ /\ dllRefs < MaxLoads
          /\ hProvider' = TRUE
          /\ dllRefs' = dllRefs + 1
          /\ \/ UNCHANGED iface /\ initialized' = FALSE
             \/ iface' = FALSE /\ initialized' = FALSE
             \/ iface' = TRUE /\ initialized' = TRUE
    /\ UNCHANGED <<vars, client, pc, pinned>>

\* FreeLibrary(_hProvider) (nothing for a NULL handle); _hProvider = NULL;
\* _pSecurityInterface = NULL.
UnInitialize(t) ==
    /\ pc[t] = "idle"
    /\ dllRefs' = IF hProvider THEN dllRefs - 1 ELSE dllRefs
    /\ hProvider' = FALSE
    /\ iface' = FALSE
    /\ initialized' = FALSE
    /\ UNCHANGED <<vars, client, pc, pinned>>

-----------------------------------------------------------------------------
(* Java_net_sourceforge_jtds_util_SSPIJNIClient_prepareSSORequest          *)

\* Fault variant of RequestNew: the new object goes to a local variable
\* shadowing the global (SspiClient* client = new ...).
RequestNewShadowed(t, o) ==
    /\ pc[t] = "idle" /\ initialized
    /\ New(o)
    /\ UNCHANGED <<client, pinned, bindVars>>
    /\ pc' = [pc EXCEPT ![t] = "req_acquire"]

\* client = new SspiClient(_T("NTLM"), NULL);
RequestNew(t, o) ==
    /\ pc[t] = "idle" /\ initialized
    /\ New(o)
    /\ client' = o
    /\ pc' = [pc EXCEPT ![t] = "req_acquire"]
    /\ UNCHANGED <<pinned, bindVars>>

\* The same `new`, when the temporary SspiPackage(_T("NTLM")) the
\* constructor's argument is converted to throws ErrorNoPackage: no object
\* is made, `client` keeps its value and the exception leaves the method.
RequestNoPackage(t) ==
    /\ pc[t] = "idle" /\ initialized
    /\ pc' = [pc EXCEPT ![t] = "thrown"]
    /\ UNCHANGED <<vars, client, pinned, bindVars>>

\* client->AcquireCredentials(); a failure throws out of the native method.
RequestAcquire(t) ==
    /\ pc[t] = "req_acquire"
    /\ client \in Objs
    /\ \E ok \in BOOLEAN :
          /\ AcquireCredentials(client, ok)
          /\ pc' = [pc EXCEPT ![t] = IF ok THEN "req_prepare" ELSE "thrown"]
    /\ UNCHANGED <<client, pinned, bindVars>>

\* ntlmMsg = client->PrepareOutboundPackage(NULL, 0); the bytes are returned
\* to Java if ntlmMsg->Size > 0, NULL (and a failed login) otherwise.
RequestPrepare(t) ==
    /\ pc[t] = "req_prepare"
    /\ client \in Objs
    /\ PrepareOutboundPackage(client)
    /\ pc' = [pc EXCEPT ![t] = IF size'[NextBuf(client)] > 0 THEN "await"
                                                             ELSE "idle"]
    /\ UNCHANGED <<client, pinned, bindVars>>

-----------------------------------------------------------------------------
(* Java_net_sourceforge_jtds_util_SSPIJNIClient_prepareSSOSubmit           *)

\* newBuf = GetByteArrayElements(buf, NULL) (no ReleaseByteArrayElements
\* follows); ntlmMsg = client->PrepareOutboundPackage(newBuf, size); on
\* Size > 0 the method goes on to delete client, otherwise returns NULL.
SubmitPrepare(t) ==
    /\ pc[t] = "await"
    /\ client \in Objs
    /\ PrepareOutboundPackage(client)
    /\ pc' = [pc EXCEPT ![t] = IF size'[NextBuf(client)] > 0 THEN "sub_delete"
                                                             ELSE "idle"]
    /\ pinned' = pinned \cup {NextBuf(client)}
    /\ UNCHANGED <<client, bindVars>>

\* delete client; return retBuf.  The global is not reset.
SubmitDelete(t) ==
    /\ pc[t] = "sub_delete"
    /\ client \in Objs
    /\ Delete(client)
    /\ pc' = [pc EXCEPT ![t] = "idle"]
    /\ UNCHANGED <<client, pinned, bindVars>>

JniNext ==
    \E t \in Threads :
        \/ Initialize(t)
        \/ UnInitialize(t)
        \/ \E o \in Objs : RequestNew(t, o)
        \/ RequestNoPackage(t)
        \/ RequestAcquire(t)
        \/ RequestPrepare(t)
        \/ SubmitPrepare(t)
        \/ SubmitDelete(t)

JniSpec == JniInit /\ [][JniNext]_allVars

-----------------------------------------------------------------------------
(* Properties.                                                             *)

\* Whenever a thread is about to call a method on `client` (the next step
\* of prepareSSORequest, the prepareSSOSubmit it will make, or the
\* `delete client` it is about to run), `client` points to a living
\* SspiClient: no native method dereferences a deleted or null client.
ClientLiveWhenUsed ==
    \A t \in Threads :
        pc[t] \in UsesClient => client \in Objs /\ life[client] = "alive"

\* Every living SspiClient is the one `client` points to: an object the
\* global no longer names can never be deleted, so its context and
\* credentials leak (prepareRequest's `new`, prepareSSOSubmit's `delete`).
NoOrphanClient ==
    \A o \in Objs : life[o] = "alive" => o = client

\* When no thread is inside a login, the native methods hold nothing of
\* what they obtained: every token block PrepareOutboundPackage returned
\* has been given back with FreeBuffer (spec 4.3: ReleaseToken exactly once
\* per returned buffer) and every challenge array prepareSSOSubmit pinned
\* with GetByteArrayElements has been released.
NativeBuffersReleased ==
    (\A t \in Threads : pc[t] \in {"idle", "thrown"})
        => /\ \A o \in Objs : \A b \in held[o] : heap[b] # "live"
           /\ pinned = {}

\* A round is run only on an engine still in AuthContinue (spec 4.3: the
\* state sequence ends at Success, Failed or Error; section 9 calls a round
\* after that a contract violation).  prepareSSORequest hands Java any
\* non-empty token, whatever m_State the round left, and prepareSSOSubmit
\* calls PrepareOutboundPackage without looking at it.
NoRoundAfterTerminal ==
    [][\A o \in Objs : rounds'[o] > rounds[o] => m_State[o] = "AuthContinue"]_allVars

=============================================================================
