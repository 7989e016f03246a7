# TLA+ models of the jTDS SSO/SSPI native client

This directory holds TLA+ models of the native single-sign-on library under
`src/src/SSO/Src/`, TLC configurations that check them on small instances,
and TLAPS proofs of their main safety properties for every instance.
`PROJECT.json` records every run, mutant, source mapping, finding and hazard.

## The system

| Part | Source | What it does |
|---|---|---|
| NegotiationEngine | `SspiClient.cpp/.h`, `SspiDef.h` | `SspiClient` holds the credentials handle, the security context and the `AuthState`. `PrepareOutboundPackage` runs one round of `InitializeSecurityContext` and returns a freshly allocated `SspiData` token. |
| JNI adapter | `SSPIJNIClient.cpp` | `prepareSSORequest` makes a new `SspiClient` in the process-wide `client` pointer and produces the first token. `prepareSSOSubmit` answers the server's challenge, then deletes the client. |
| ProviderBinding | `SSPIJNIClient.cpp` (`initialize`, `unInitialize`) | Loads `secur32.dll` or `security.dll` and publishes the function table `_pSecurityInterface`, through which every other part calls the provider. |
| PackageDescriptor | `SspiPackage.cpp/.h` | `SspiPackage` keeps its own copies (`_tcsdup`) of a provider record's Name and Comment. It is copied, assigned and destroyed. |
| PackageCatalog | `SspiPackage.cpp` (`SspiPackageList`) | A vector of descriptors, one per package `EnumerateSecurityPackages` returns. |
| ErrorModel | `SspiEx.cpp/.h` | Exception objects with a code and a message. |

How the parts interact on the path the code uses:

1. Java calls `initialize`, which loads the provider DLL and stores its function table.
2. Java calls `prepareSSORequest`. It builds a temporary `SspiPackage("NTLM")`, which `SspiClient` copies.
3. It calls `AcquireCredentials`, then `PrepareOutboundPackage(NULL, 0)`.
4. Java later calls `prepareSSOSubmit(challenge)`. It pins the challenge array, runs a second `PrepareOutboundPackage`, and then runs `delete client`.
5. Java may call `unInitialize`, which frees the DLL and clears the table.

Native methods take no lock, so the steps of different Java threads interleave.

## Modules

- **`SspiClient`** models the engine.
  - State is one variable per member, each a function over a set `Objs` of objects:
    - `m_Credentials`, `m_Context`, `m_HaveContext`, `m_State`;
    - the last provider status `status`;
    - the round count `rounds`.
  - Two variables stand for the provider's and the heap's view:
    - `ctx` gives the state of each security context;
    - `heap`/`size` give each token block and its `Size`.
  - `held` holds the blocks handed to the caller.
  - Contexts and blocks are named `<<object, round>>`, which keeps every round's allocation apart.
  - The uninitialised `m_Context` of a new object is a nondeterministic choice among all handles and "none". This is how the model reads the undefined read at lines 153 and 46.
  - There is one action per method:
    - `New` is the constructor;
    - `AcquireCredentials` has success and throw outcomes;
    - `PrepareOutboundPackage` is the whole method: the ISC call, the status switch `StateOf`, the free on the default branch, `m_HaveContext = true` and the returned block;
    - `FreeBuffer`;
    - `Delete` is the destructor.
  - `Next` is a caller that keeps the contract of spec §4.3: credentials first, and rounds only while `AuthContinue`.
  - The module ends with the refinement mapping to `Negotiation` (see below).
- **`Negotiation`** is the abstract specification of spec §4.3, written from the spec rather than from the code.
  - Each engine starts in `AuthContinue` and runs rounds only while it is in `AuthContinue`.
  - It owns one context. The context comes into existence only in a round that leaves `AuthContinue` or `AuthSuccess`.
  - Later rounds keep the context (it is updated, never replaced), and only destruction releases it.
- **`SspiJni`** extends `SspiClient` with the JNI layer:
  - the global `client`;
  - a program counter per Java thread;
  - the binding globals: `hProvider` (is `_hProvider` set), `iface` (is `_pSecurityInterface` set) and `dllRefs` (the DLL's load count);
  - `initialized`, the Java side's knowledge that the last `initialize` returned normally;
  - `pinned`, the challenge arrays `GetByteArrayElements` pinned.

  Actions:
  - `Initialize` has every outcome: both loads fail; `GetProcAddress` fails; the table is NULL; success.
  - `UnInitialize`.
  - Each engine call made by a login native method is one step, which reads the global at that step:
    - `RequestNew`, or `RequestNoPackage` when the temporary `SspiPackage` throws;
    - `RequestAcquire`;
    - `RequestPrepare`;
    - `SubmitPrepare`;
    - `SubmitDelete`.
  - A thrown exception moves the thread to `"thrown"`.

  Java code is not in this repository, so the Java caller is modelled from spec §4.4. It starts a login only after `initialize` has returned normally. It calls `initialize` and `unInitialize` only between logins.
- **`SspiPackage`** models descriptors over a string heap (`str`) and the provider record of `QuerySecurityPackageInfo` (`provBuf`).
  - `GetLocalPkgCopy` is an action fragment that each operation includes. It covers both `_tcsdup` outcomes and the rollback.
  - The operations are the three constructors, the copy constructor, `operator=` (both forms), and the destructor with `FreePkgInfo`.
- **`SspiCatalog`** extends `SspiPackage` with one `SspiPackageList`.
  - Its state: the constructor's point `catPc`, the enumeration buffer `catBuf`, the record count `numpkgs` the provider reported, the records left `catLeft`, the loop's temporary `catTemp`, and the elements `catElems`.
  - `push_back(&packages[i])` is three steps of the descriptor model:
    1. `CatTemp` constructs the temporary from the record;
    2. `CatCopy` copy-constructs the element;
    3. `CatDrop` destroys the temporary.
  - A throw in any of them unwinds: the vector destroys its elements (`CatVecDestroy`), and the list ends in `"threw"`.
  - The copies that a vector reallocation makes are left out.
- **`SspiClientProofs`**, **`SspiJniProofs`**, **`SspiPackageProofs`** and **`SspiCatalogProofs`** hold the TLAPS proofs.
- **`MCSspiClient`**, **`MCSspiJni`**, **`MCSspiPackage`** and **`MCSspiCatalog`** give the constants model values for TLC.

### Refinement

`SspiClient` maps onto `Negotiation` with:

- `Engines <- Objs`;
- `alife <- life`;
- `astate <- m_State`;
- `actx <- CtxOf(o)`, which is "live" if the provider holds a live context created by `o`, "released" if one was deleted, and "none" otherwise.

The property `NegotiationRefined == Abs!NSpec` holds for one client (run `engine_single`, theorem `RefinesNegotiation`). It fails for two. A client whose first round created no context still sets `m_HaveContext`, and its destructor then passes its uninitialised `m_Context` to `DeleteSecurityContext`. That `m_Context` may name another client's context, so the deletion releases a context that is not the client's own. That bug is the finding of `context_alias`.

## Runs

| Run | Expect | Shows |
|---|---|---|
| `engine_single` (1 object, 3 rounds) | pass | `NoContextLeak`: every live context is owned by its living creator, which will delete it. `ContextInUseIsLive`: while negotiation goes on, `m_Context` names a live context. `NegotiationRefined`: the engine implements `Negotiation`. |
| `jni_single` (1 thread, 3 objects, 2 rounds, 2 loads) | pass | Sequential logins, with `initialize`/`unInitialize` between them and failed and thrown logins included, never call a method of, or delete, a deleted or null client (`ClientLiveWhenUsed`). |
| `pkg_lifecycle` (2 descriptors, 2 copies each) | pass | `OwnedStringsLive` and `NoDoubleFree` hold under every order of construction, copy, assignment (failing or not) and destruction. |
| `pkg_catalog` (up to 2 records, 4 descriptors) | pass | Whichever copy fails, every live string belongs to an element or to the loop's temporary, so a destroyed or unwound list leaves none (`CatalogStringsOwned`). A built list has one element per record the provider reported (`CatalogSizeMatches`, spec §8). |
| `token_after_free` | violation | The default branch returns a freed block (`HeldTokensLive`). |
| `context_alias` (2 objects) | violation | A client whose first round is denied made no context but still sets `m_HaveContext` (line 195) over its uninitialised `m_Context`, which here names the other client's context. Its destructor (line 46) passes that handle to `DeleteSecurityContext`, so the other client, in `AuthSuccess`, holds a deleted context (`ContextInUseIsLive`). |
| `jni_orphan` | violation | A login ending in an empty token leaves its client alive, and the next login overwrites the only pointer to it. |
| `jni_token_leak` | violation | The native methods never call `FreeBuffer`, and never release the array they pin (`NativeBuffersReleased`). |
| `jni_concurrent` (2 threads) | violation | Two concurrent logins share `client`, so one deletes or replaces the other's object. |
| `jni_after_terminal` | violation | The first round can end in `AuthSuccess` or `AuthFailed` with a non-empty token. Java then calls `prepareSSOSubmit`, which runs another round on the finished negotiation (`NoRoundAfterTerminal`). |
| `pkg_assign_leak` | violation | `operator=` drops the strings the descriptor owned. |
| `pkg_provider_leak` | violation | A failed copy throws before `FreeContextBuffer`. |

Each property of a passing run has a mutant in `PROJECT.json`: a plausible bug in the mapped code that TLC must catch. The mutants are:

- ISC never given the existing context;
- the default branch reporting `AuthContinue`;
- `SEC_I_COMPLETE_NEEDED` grouped with the denial;
- `new` assigned to a shadowing local;
- `m_HavePkg` set before the Comment copy is checked;
- `FreePkgInfo` without its `m_HavePkg` test;
- the loop's temporary never destroyed;
- the push loop stopping one record short.

**Bounds.**

- Three rounds cover the paths a login takes: a request and a submit, plus one more round. The extra round exercises reuse of a context after a round that made none.
- Two objects are enough for one to alias the other's context, and for an orphan to be overwritten.
- Three objects let `jni_single` run several logins in sequence. The objects are interchangeable, so `jni_single` uses symmetry over them.
- Two DLL loads let a second `initialize` happen while the DLL is loaded.
- Token sizes range over {0, 1}: 0 is the empty-token branch of the native methods, and 1 stands for any non-empty token.
- Two descriptors with two copies each let one be copied from, and assigned over, the other.
- Two records make the catalog's loop run twice. The second element's copy can then fail after one element is already in the vector.
- `NoContextLeak` for any number of clients is proved, not only model-checked (below).

**Deadlock.** Every run sets `CHECK_DEADLOCK FALSE`, and the system really stops in each case:

- a client's rounds are bounded;
- a thread whose exception escaped a native method does nothing more;
- a catalog's life ends once it is destroyed.

**Fairness and liveness.** No liveness property is checked, and no fairness is assumed. The native methods run only when Java calls them, and Java calls them only when the server answers. Nothing in this repository makes a login progress, so the code justifies no fairness. Every engine operation is a single call that runs to completion, and there is no loop or wait inside one that a liveness property could be about.

## Proofs (TLAPS)

- `SspiClientProofs!TypeCorrect` proves `Spec => []TypeOK`.
- `SspiClientProofs!ContextNeverLeaks` proves `Spec => []NoContextLeak` for every `Objs`, `MaxRounds` and `MaxToken`.
  - The inductive invariant is `TypeOK /\ NoContextLeak`.
  - A context is created only by a round that passes no existing context. Such a round has `m_HaveContext = FALSE`, so by the invariant its object owns no live context. The same step sets `m_HaveContext` and `m_Context` to the new handle.
  - The destructor deletes exactly the context its `m_Context` names.
- `SspiClientProofs!RefinesNegotiation` proves `Spec => NegotiationRefined` when `Objs` has one element (`SingleObject`).
  - The invariant `RInv` adds three facts to `NoContextLeak`:
    - an unborn object has no context and is in `AuthContinue`;
    - a deleted context belongs to a dead object.
  - With these facts, `New` maps to `Create`, a round to `Round` (the context appears only with `AuthContinue`/`AuthSuccess`), and `Delete` to `Destroy`.
  - Every other step maps to a stutter.
- `SspiClientProofs!ContextInUseStaysLive` proves `Spec => []ContextInUseIsLive` for one client.
  - The invariant adds `FreshNoContext` to `RInv`: before the first round `m_HaveContext` is false.
  - A round that finds `m_HaveContext` set therefore follows an earlier round. By the invariant, that round left a live context in `m_Context`.
- `SspiPackageProofs!PackageStringsSafe` proves `PkgSpec => [](PkgTypeOK /\ OwnedStringsLive /\ NoDoubleFree)`. `OwnedStringsAlwaysLive` is its corollary for `OwnedStringsLive`.
  - The strengthening is `Ownership`: an unborn descriptor has no package, and a descriptor with a package owns exactly the two strings of its latest `GetLocalPkgCopy`, which are named after it. Without it, a free in one object's destructor or rollback could not be shown to miss another object's strings.
  - The lemma `CopyPkgInv` covers one `GetLocalPkgCopy` inside any operation. The lemma `DestroyPkgInv` covers the destructor.
- `SspiCatalogProofs!CatalogNeverLeaks` proves `CatSpec => []CatalogStringsOwned` for every number of records and descriptors.
  - The invariant `CatInv` is made of three parts:
    - the descriptor invariant;
    - `NoStringLeak`, which holds here because the list never assigns;
    - `CatShape`: the elements are alive with a package, the temporary is one and is no element while it exists, and no other descriptor is alive.
  - It reuses `CopyPkgInv` and `DestroyPkgInv`. It adds `CopyNoLeak` (a construction allocates only strings it then owns) and `DestroyNoLeak`.

- `SspiClientProofs` states one lemma per engine operation for type correctness (`NewTypeOK`, `AcquireTypeOK`, `PrepareTypeOK`, `FreeBufferTypeOK`, `DeleteTypeOK`), and `PrepareNoContextLeak` and `DeleteNoContextLeak` for the context invariant. None of them assumes anything about the caller, so the JNI proofs reuse them.
- `SspiJniProofs!JniTypeCorrect` proves `JniSpec => []JniTypeOK` for any number of threads.
  - The strengthening is `ProviderLoaded`: `_hProvider` is set only while the load count is positive.
  - This is needed because `unInitialize` decrements the count whenever `_hProvider` is set.
- `SspiJniProofs!JniContextNeverLeaks` proves `JniSpec => []NoContextLeak` for any number of threads: every live context stays named by its living creator's `m_Context`. It does not say the context is ever deleted: an orphaned creator still holds it, and nothing deletes that creator (`jni_orphan`).
  - The JNI layer reaches the engine only through `New`, `AcquireCredentials`, `PrepareOutboundPackage` and `Delete`, and the engine lemmas hold whoever calls them.
  - So two threads racing on `client`, or a round after a terminal state, do not break the engine's bookkeeping. They fail other properties instead (`jni_concurrent`, `jni_after_terminal`).
- `SspiJniProofs!ClientAlwaysLiveWhenUsed` proves `JniSpec => []ClientLiveWhenUsed` for one thread (`SingleThread`).
  - The invariant `UInv` is `JniTypeOK /\ ProviderLoaded /\ ClientLiveWhenUsed`.
  - `RequestNew` points `client` at the object it just constructed. Every later step of the login leaves `life` and `client` alone until `SubmitDelete` returns the thread to `"idle"`.
  - With a second thread the property fails (`jni_concurrent`).
- `SspiCatalogProofs!CatalogSizeAlwaysMatches` proves `CatSpec => []CatalogSizeMatches` for every number of records.
  - The invariant `PushCount` says that `catElems` is finite and that the elements plus the records left add up to `numpkgs`. Between a copy and its drop, the pushed element is one ahead of the count.
  - `CatCopy` adds a fresh element: the descriptor was unborn and, by `CatShape`, every element is alive. The cardinality steps cite `FS_AddElement` and `FS_RemoveElement` of `FiniteSetTheorems`.

Every invariant and action property of the passing runs is now also a theorem. What stays with TLC:

- the one-thread restriction of `ClientLiveWhenUsed`, and the one-object restriction of the refinement and `ContextInUseIsLive`. With more threads or objects these properties fail, and the violation runs show how;
- the violation runs themselves, which are counterexamples found by TLC;
- anything stated with ENABLED, and liveness. None is stated here (see *Fairness and liveness*).

## Not modelled, and why

- **ErrorModel and the dumper.** These are pure data and formatting. A throw's effect on control flow is part of each action that throws. The clamp of an out-of-range code (`SspiEx.cpp:68`) only ever sees enum constants.
- **Credentials release.** The destructor never calls `FreeCredentialsHandle`. This is visible in the source alone, so no run states it.
- **`AuthError`.** No line assigns it. A provider error gives `AuthFailed` (`SspiClient.cpp:189`), which is visible in the switch alone.
- **Assignment from a descriptor without a package.** This reads uninitialised or freed memory (`m_PkgInfo`), and no outcome of it can be stated.
- **The binding under a login.** No operation tests `_pSecurityInterface`, so a login started before `initialize`, or one that another thread's `initialize`/`unInitialize` interleaves with, calls through NULL. The modelled Java caller (spec §4.4) starts logins only after a normal `initialize` and changes the binding only between its own logins, so with one thread this cannot happen. No run lets another thread change the binding during a login, so the race is not checked.
- **Repeated `initialize`.** The model counts DLL loads, but no property says that teardown unloads the DLL. Spec §4.4 has the binding established once, and Java's call pattern is outside this repository.
- **The catalog's enumeration buffer.** `CatRelease` frees it only when the table has `FreeContextBuffer` (line 230), and a throw out of the loop leaks it, as `pkg_provider_leak` shows for the by-name constructor. No passing property is stated about it: on the normal path it would restate that one step.
- **Composition.** The temporary `SspiPackage("NTLM")` inside `new SspiClient` is not connected to the descriptor model. Its throw appears as `RequestNoPackage`.
- **Data that is abstracted away.** This covers the bytes of tokens and Java arrays, `m_Target` (NULL on the JNI path), the identity fields, and vector reallocation.
