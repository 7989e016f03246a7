----------------------------- MODULE SspiClient -----------------------------
(***************************************************************************)
(* The negotiation engine of src/src/SSO/Src/SspiClient.cpp: SspiClient    *)
(* objects driving InitializeSecurityContext of the SSPI provider, seen    *)
(* together with the provider-side resources they use: one credential     *)
(* handle per object, the security contexts the provider creates, and the  *)
(* heap blocks that carry outbound tokens (SspiData, SspiDef.h).           *)
(*                                                                         *)
(* Data is abstracted away: a token is its Size field, a status is the    *)
(* name of the SECURITY_STATUS constant.  A context handle and a token    *)
(* block are named after the object and the round that produced them.     *)
(*                                                                         *)
(* The caller modelled by Next is one that keeps the contract of the spec: *)
(* AcquireCredentials before any round, no round after a terminal state,   *)
(* FreeBuffer once per returned token, destruction at any time.  The JNI   *)
(* layer that does not keep it is SspiJni.                                 *)
(***************************************************************************)
EXTENDS Naturals, FiniteSets

CONSTANTS
    Objs,                 \* the SspiClient objects (model values)
    NoHandle,             \* a CtxtHandle value naming no context of the provider
    MaxRounds,            \* bound on PrepareOutboundPackage calls per object
    MaxToken              \* m_Package->cbMaxToken, abstracted to a small bound

ASSUME ConstantsAssumption ==
    /\ NoHandle \notin Objs \X Nat
    /\ MaxRounds \in Nat \ {0}
    /\ MaxToken \in Nat

VARIABLES
    life,           \* object lifetime: "unborn" (not yet new'd), "alive", "dead"
    m_Credentials,  \* "unset" (never written) or "held" (a provider credential handle)
    m_Context,      \* the CtxtHandle member: a context name or garbage
    m_HaveContext,  \* the bool member m_HaveContext
    m_State,        \* the AuthState member m_State
    status,         \* SECURITY_STATUS of the object's last InitializeSecurityContext
    rounds,         \* PrepareOutboundPackage calls made on the object
    ctx,            \* provider: state of each context handle it may hand out
    heap,           \* allocator: state of each token block
    size,           \* the Size field of each token block
    held            \* token blocks returned to the caller and not yet released

vars == <<life, m_Credentials, m_Context, m_HaveContext, m_State, status,
          rounds, ctx, heap, size, held>>

-----------------------------------------------------------------------------
(* Constants of the code, abstracted to names.                             *)

AuthStates == {"AuthSuccess", "AuthFailed", "AuthContinue", "AuthError"}

\* Statuses InitializeSecurityContext can return for a valid call; the last
\* one stands for every status the switch of PrepareOutboundPackage sends to
\* its default branch.
ProviderStatuses == {"SEC_E_OK", "SEC_I_COMPLETE_NEEDED", "SEC_I_CONTINUE_NEEDED",
                     "SEC_I_COMPLETE_AND_CONTINUE", "SEC_E_LOGON_DENIED",
                     "SEC_E_INTERNAL_ERROR"}

\* What the provider answers when a handle passed to it names nothing it holds.
InvalidHandle == "SEC_E_INVALID_HANDLE"

Statuses == ProviderStatuses \cup {InvalidHandle}

\* Statuses that leave a (possibly partial) context behind for the caller.
ContextStatuses == {"SEC_E_OK", "SEC_I_COMPLETE_NEEDED", "SEC_I_CONTINUE_NEEDED",
                    "SEC_I_COMPLETE_AND_CONTINUE"}

\* Statuses that the switch of PrepareOutboundPackage sends to default.
DefaultStatuses == Statuses \ (ContextStatuses \cup {"SEC_E_LOGON_DENIED"})

Bufs == Objs \X (1..MaxRounds)

Handles == Objs \X (1..MaxRounds)

-----------------------------------------------------------------------------
TypeOK ==
    /\ life \in [Objs -> {"unborn", "alive", "dead"}]
    /\ m_Credentials \in [Objs -> {"unset", "held"}]
    /\ m_Context \in [Objs -> Handles \cup {NoHandle}]
    /\ m_HaveContext \in [Objs -> BOOLEAN]
    /\ m_State \in [Objs -> AuthStates]
    /\ status \in [Objs -> Statuses \cup {"none"}]
    /\ rounds \in [Objs -> 0..MaxRounds]
    /\ ctx \in [Handles -> {"none", "live", "deleted"}]
    /\ heap \in [Bufs -> {"unalloc", "live", "freed"}]
    /\ size \in [Bufs -> 0..MaxToken]
    /\ held \in [Objs -> SUBSET Bufs]

Init ==
    /\ life = [o \in Objs |-> "unborn"]
    /\ m_Credentials = [o \in Objs |-> "unset"]
    /\ m_Context = [o \in Objs |-> NoHandle]
    /\ m_HaveContext = [o \in Objs |-> FALSE]
    /\ m_State = [o \in Objs |-> "AuthContinue"]
    /\ status = [o \in Objs |-> "none"]
    /\ rounds = [o \in Objs |-> 0]
    /\ ctx = [h \in Handles |-> "none"]
    /\ heap = [b \in Bufs |-> "unalloc"]
    /\ size = [b \in Bufs |-> 0]
    /\ held = [o \in Objs |-> {}]

-----------------------------------------------------------------------------
(* The operations of SspiClient.  Each is the whole method body.           *)

\* SspiClient::SspiClient: m_HaveContext(false), m_State(AuthContinue); the
\* identity fields are NULL.  m_Context and m_Credentials are not
\* initialised: m_Context holds whatever the memory held, which may be the
\* name of any context the provider ever handed out.
New(o) ==
    /\ life[o] = "unborn"
    /\ life' = [life EXCEPT ![o] = "alive"]
    /\ \E garbage \in Handles \cup {NoHandle} :
          m_Context' = [m_Context EXCEPT ![o] = garbage]
    /\ m_HaveContext' = [m_HaveContext EXCEPT ![o] = FALSE]
    /\ m_State' = [m_State EXCEPT ![o] = "AuthContinue"]
    /\ UNCHANGED <<m_Credentials, status, rounds, ctx, heap, size, held>>

\* SspiClient::AcquireCredentials: AcquireCredentialsHandle either succeeds
\* and writes m_Credentials, or fails and the method throws
\* ErrorNoCredentials leaving m_Credentials as it was; ok is the outcome.
AcquireCredentials(o, ok) ==
    /\ life[o] = "alive"
    /\ m_Credentials' = [m_Credentials EXCEPT ![o] = IF ok THEN "held" ELSE @]
    /\ UNCHANGED <<life, m_Context, m_HaveContext, m_State, status, rounds,
                   ctx, heap, size, held>>

\* Fault variant of ExistingContext: the call always passes NULL.
ExistingContextNever(o) == FALSE

\* Whether InitializeSecurityContext is passed &m_Context as the existing
\* context (m_HaveContext ? &m_Context : NULL).
ExistingContext(o) == m_HaveContext[o]

\* Whether InitializeSecurityContext accepts the handles o passes it.
HandlesValid(o) ==
    /\ m_Credentials[o] = "held"
    /\ ExistingContext(o) => m_Context[o] \in Handles /\ ctx[m_Context[o]] = "live"

\* Fault variant of StateOf: the default branch reports AuthContinue.
StateOfDefaultContinue(st) ==
    CASE st \in {"SEC_E_OK", "SEC_I_COMPLETE_NEEDED"}                   -> "AuthSuccess"
      [] st \in {"SEC_I_CONTINUE_NEEDED", "SEC_I_COMPLETE_AND_CONTINUE"} -> "AuthContinue"
      [] st = "SEC_E_LOGON_DENIED"                                       -> "AuthFailed"
      [] OTHER                                                          -> "AuthContinue"

\* Fault variant of StateOf: SEC_I_COMPLETE_NEEDED grouped with the denial.
StateOfCompleteFailed(st) ==
    CASE st = "SEC_E_OK"                                                -> "AuthSuccess"
      [] st \in {"SEC_I_CONTINUE_NEEDED", "SEC_I_COMPLETE_AND_CONTINUE"} -> "AuthContinue"
      [] st \in {"SEC_E_LOGON_DENIED", "SEC_I_COMPLETE_NEEDED"}          -> "AuthFailed"
      [] OTHER                                                          -> "AuthFailed"

\* The switch (status) of PrepareOutboundPackage.
StateOf(st) ==
    CASE st \in {"SEC_E_OK", "SEC_I_COMPLETE_NEEDED"}                   -> "AuthSuccess"
      [] st \in {"SEC_I_CONTINUE_NEEDED", "SEC_I_COMPLETE_AND_CONTINUE"} -> "AuthContinue"
      [] st = "SEC_E_LOGON_DENIED"                                       -> "AuthFailed"
      [] OTHER                                                          -> "AuthFailed"

\* SspiClient::PrepareOutboundPackage.  Allocates block b, calls
\* InitializeSecurityContext (which, given no existing context and a
\* status that leaves one, writes a fresh handle h into m_Context), calls
\* CompleteAuthToken when asked to and the provider has it (it changes only
\* the token bytes, which the model does not keep), maps
\* the status to m_State, frees b on the default branch, sets
\* m_HaveContext, writes the provider's length n to b->Size and returns b.
PrepareOutboundPackage(o) ==
    LET b == <<o, rounds[o] + 1>>
        h == <<o, rounds[o] + 1>> IN
    /\ life[o] = "alive"
    /\ rounds[o] < MaxRounds
    /\ \E st \in IF HandlesValid(o) THEN ProviderStatuses ELSE {InvalidHandle},
          n \in 0..MaxToken :
          LET creates == ~ExistingContext(o) /\ st \in ContextStatuses IN
          /\ status' = [status EXCEPT ![o] = st]
          /\ m_State' = [m_State EXCEPT ![o] = StateOf(st)]
          /\ ctx' = IF creates THEN [ctx EXCEPT ![h] = "live"] ELSE ctx
          /\ m_Context' = IF creates THEN [m_Context EXCEPT ![o] = h] ELSE m_Context
          /\ heap' = [heap EXCEPT ![b] = IF st \in DefaultStatuses THEN "freed"
                                                                  ELSE "live"]
          /\ size' = [size EXCEPT ![b] = n]
    /\ m_HaveContext' = [m_HaveContext EXCEPT ![o] = TRUE]
    /\ rounds' = [rounds EXCEPT ![o] = @ + 1]
    /\ held' = [held EXCEPT ![o] = @ \cup {b}]
    /\ UNCHANGED <<life, m_Credentials>>

\* SspiClient::FreeBuffer: delete[] of a block the caller holds.
FreeBuffer(o, b) ==
    /\ b \in held[o]
    /\ heap' = [heap EXCEPT ![b] = "freed"]
    /\ held' = [held EXCEPT ![o] = @ \ {b}]
    /\ UNCHANGED <<life, m_Credentials, m_Context, m_HaveContext, m_State,
                   status, rounds, ctx, size>>

\* SspiClient::~SspiClient: DeleteSecurityContext(&m_Context) if
\* m_HaveContext (the provider deletes it only if it names a live context);
\* the identity fields are NULL.  m_Credentials is never released.
Delete(o) ==
    /\ life[o] = "alive"
    /\ life' = [life EXCEPT ![o] = "dead"]
    /\ ctx' = IF m_HaveContext[o] /\ m_Context[o] \in Handles
                 /\ ctx[m_Context[o]] = "live"
              THEN [ctx EXCEPT ![m_Context[o]] = "deleted"]
              ELSE ctx
    /\ UNCHANGED <<m_Credentials, m_Context, m_HaveContext, m_State, status,
                   rounds, heap, size, held>>

-----------------------------------------------------------------------------
(* A caller keeping the contract of the spec (section 4.3).                *)

Next ==
    \E o \in Objs :
        \/ New(o)
        \/ m_Credentials[o] = "unset" /\ rounds[o] = 0
           /\ \E ok \in BOOLEAN : AcquireCredentials(o, ok)
        \/ m_Credentials[o] = "held" /\ m_State[o] = "AuthContinue"
           /\ PrepareOutboundPackage(o)
        \/ \E b \in held[o] : FreeBuffer(o, b)
        \/ Delete(o)

Spec == Init /\ [][Next]_vars

-----------------------------------------------------------------------------
(* Properties.                                                             *)

\* No context leaks: every context the provider holds live is the one named
\* by m_Context of the living object that created it (h[1]), with
\* m_HaveContext set, so that later rounds pass it back instead of creating
\* another and ~SspiClient deletes it (PrepareOutboundPackage, ~SspiClient).
NoContextLeak ==
    \A h \in Handles :
        ctx[h] = "live" =>
            /\ life[h[1]] = "alive"
            /\ m_HaveContext[h[1]]
            /\ m_Context[h[1]] = h

\* A living object that has run a round and reports AuthContinue or
\* AuthSuccess holds a live context: the token it handed out belongs to a
\* negotiation the provider still has (PrepareOutboundPackage, ~SspiClient).
ContextInUseIsLive ==
    \A o \in Objs :
        (life[o] = "alive" /\ rounds[o] > 0
         /\ m_State[o] \in {"AuthContinue", "AuthSuccess"})
            => m_Context[o] \in Handles /\ ctx[m_Context[o]] = "live"

\* Every token PrepareOutboundPackage returned and the caller has not yet
\* released is allocated memory (the caller reads its Size and bytes).
HeldTokensLive ==
    \A o \in Objs : \A b \in held[o] : heap[b] = "live"

-----------------------------------------------------------------------------
(* Refinement of the engine promise of spec section 4.3 (Negotiation).     *)

\* The context of object o as the abstract engine sees it: a context the
\* provider created for one of o's rounds, live or already deleted.
CtxOf(o) ==
    IF \E h \in Handles : h[1] = o /\ ctx[h] = "live" THEN "live"
    ELSE IF \E h \in Handles : h[1] = o /\ ctx[h] = "deleted" THEN "released"
    ELSE "none"

Abs == INSTANCE Negotiation
         WITH Engines <- Objs, alife <- life, astate <- m_State,
              actx <- [o \in Objs |-> CtxOf(o)]

\* SspiClient implements the negotiation engine of spec 4.3: one context per
\* object, created by a round that reports AuthContinue or AuthSuccess, kept
\* across rounds, and deleted by ~SspiClient and by nothing else
\* (PrepareOutboundPackage's existing-context argument, ~SspiClient's
\* DeleteSecurityContext).
NegotiationRefined == Abs!NSpec

=============================================================================
