--------------------------- MODULE KedrCoreProofs ----------------------------
(****************************************************************************)
(* Proofs about KedrCore, for any number of targets, providers and plugins  *)
(* and any number of interrupted mutex_lock_killable() calls.  CoreInv is   *)
(* the inductive invariant; every action of Next has a lemma, here or in the*)
(* modules this one extends.                                                *)
(****************************************************************************)
EXTENDS KedrModuleProofs

USE DEF kernel, session, config, fh, told, session_active, Idle, OpAt, Modules, Roles,
        KEDR_PR_EVENT_HANDLERS, KEDR_PR_LS_ALLOCATOR, KEDR_PR_HOOKS,
        KEDR_PR_NUM_ROLES, FH_PLUGIN

\* The core before it is loaded.
LEMMA Init_Inv == Init => CoreInv
<1> SUFFICES ASSUME Init PROVE CoreInv
  OBVIOUS
<1>1. TypeOK
  <2>1. Idle \in [step : Steps, t : Names \cup {NULL},
                  i : 0 .. KEDR_PR_NUM_ROLES, rest : SUBSET Providers]
    BY DEF Steps
  <2>2. kills \in 0 .. MaxKills /\ num_loaded \in Nat
    BY CoreAssumptions DEF Init
  <2> QED
    BY <2>1, <2>2 DEF Init, TypeOK
<1>2. OpShape /\ CoreShape /\ KernelShape /\ I13nShape
  BY DEF Init, OpShape, Starting, CoreShape, KernelShape, I13nShape
<1>3. NumLoadedIsCount
  <2>1. LoadedTargets = {}
    BY DEF Init, LoadedTargets
  <2> QED
    BY <2>1, FS_EmptySet DEF Init, NumLoadedIsCount, Starting
<1>4. RefBalance /\ LockedIsLive /\ SessOnShape
  BY DEF Init, RefBalance, LockedIsLive, SessOnShape
<1> QED BY <1>1, <1>2, <1>3, <1>4 DEF CoreInv

\* CoreInv is inductive.
LEMMA Next_Inv == CoreInv /\ [Next]_vars => CoreInv'
<1> SUFFICES ASSUME CoreInv, [Next]_vars PROVE CoreInv'
  OBVIOUS
<1>1. CASE UNCHANGED vars
  <2>1. TypeOK' /\ KernelShape'
    BY <1>1 DEF vars, CoreInv, TypeOK, KernelShape
  <2> QED BY <1>1, <2>1, KernelStep_Inv DEF vars
<1>2. CASE Next
  BY <1>1, <1>2, ProvidersGet_Inv, PluginsGet_Inv, SessionStarted_Inv,
     ProcessModule_Inv, SessionEnds_Inv, Kernel_Inv, OnModuleLoad_Inv,
     OnModuleUnload_Inv, Provider_Inv, Core_Inv DEF Next, Stopped
<1> QED BY <1>1, <1>2

\* CoreInv holds in every reachable state of the core.
THEOREM CoreInvariant == Spec => []CoreInv
  BY Init_Inv, Next_Inv, PTL DEF Spec

\* What is locked during a session is live.
LEMMA CoreInv_SessionPins == CoreInv => SessionPins
<1> SUFFICES ASSUME CoreInv, sess_on PROVE SessionPins
  BY DEF SessionPins
<1> USE DEF CoreInv
<1>1. taken = ProviderRefs \cup PluginRefs(plugins)
  BY DEF RefBalance, SessOnShape
<1>2. \A r \in Roles : <<providers[r], r>> \in taken /\ providers[r] \in Modules
  BY <1>1 DEF ProviderRefs, TypeOK
<1>3. \A p \in plugins : <<p, p>> \in taken /\ p \in Providers
  BY <1>1 DEF PluginRefs, TypeOK
<1>4. \A r \in Roles : IF providers[r] = Core THEN corestate = "handling"
                                            ELSE pstate[providers[r]] = "live"
  BY <1>2 DEF LockedIsLive
<1>5. \A p \in plugins : pstate[p] = "live"
  BY <1>3, CoreAssumptions DEF LockedIsLive
<1>6. corestate = "handling"
  <2>1. 0 \in Roles
    OBVIOUS
  <2>2. CASE providers[0] = Core
    BY <1>4, <2>1, <2>2
  <2>3. CASE providers[0] # Core
    BY <1>2, <1>4, <2>1, <2>3 DEF CoreShape
  <2> QED BY <2>2, <2>3
<1> QED BY <1>4, <1>5, <1>6 DEF SessionPins

\* The state of the core is always well-formed; in particular, num_loaded is
\* never decremented below zero by on_module_unload() or session_end().
THEOREM CoreTypeOK == Spec => []TypeOK
<1>1. CoreInv => TypeOK
  BY DEF CoreInv
<1> QED BY <1>1, CoreInvariant, PTL

\* The references on the providers and plugins are balanced on every path of
\* session_start() and session_end().
THEOREM CoreRefBalance == Spec => []RefBalance
<1>1. CoreInv => RefBalance
  BY DEF CoreInv
<1> QED BY <1>1, CoreInvariant, PTL

\* num_loaded is the number of the target objects with a module unless the
\* session failed to start, however the notifications interleave or get lost.
THEOREM CoreNumLoadedIsCount == Spec => []NumLoadedIsCount
<1>1. CoreInv => NumLoadedIsCount
  BY DEF CoreInv
<1> QED BY <1>1, CoreInvariant, PTL

\* No module whose code the session uses, and not the core, is being removed
\* while the session is active.
THEOREM CoreSessionPins == Spec => []SessionPins
  BY CoreInv_SessionPins, CoreInvariant, PTL

\* No step of the system changes what is registered while something is locked.
LEMMA Step_ConfigFrozen ==
    ASSUME CoreInv, [Next]_vars, taken # {}
    PROVE  UNCHANGED config
<1> USE DEF CoreInv
<1>1. ASSUME op = Idle PROVE session_active
  BY <1>1 DEF RefBalance
<1>2. corestate \in {"handling", "going"}
  <2>1. num_loaded # 0 \/ op.step # "none"
    BY <1>1 DEF OpShape
  <2> QED BY <2>1 DEF OpShape, CoreShape
<1>3. ASSUME NEW p \in Providers, ProviderInit(p) PROVE UNCHANGED config
  <2>1. session_active
    BY <1>1, <1>3 DEF ProviderInit, MutexFree
  <2>2. CASE Kind[p] = KEDR_PR_EVENT_HANDLERS
    BY <1>3, <2>1, <2>2 DEF ProviderInit, kedr_register_event_handlers
  <2>3. CASE Kind[p] = FH_PLUGIN
    BY <1>3, <2>1, <2>3 DEF ProviderInit, kedr_fh_plugin_register
  <2>4. CASE Kind[p] \notin {KEDR_PR_EVENT_HANDLERS, FH_PLUGIN}
    BY <1>3, <2>1, <2>4 DEF ProviderInit, kedr_set
  <2> QED BY <2>2, <2>3, <2>4
<1>4. ASSUME NEW p \in Providers, ProviderExit(p) PROVE UNCHANGED config
  <2>1. session_active
    BY <1>1, <1>4 DEF ProviderExit, MutexFree
  <2>2. CASE Kind[p] = KEDR_PR_EVENT_HANDLERS
    BY <1>4, <2>1, <2>2 DEF ProviderExit, kedr_unregister_event_handlers,
       SetProvider
  <2>3. CASE Kind[p] = FH_PLUGIN
    BY <1>4, <2>1, <2>3 DEF ProviderExit, kedr_fh_plugin_unregister
  <2>4. CASE Kind[p] \notin {KEDR_PR_EVENT_HANDLERS, FH_PLUGIN}
    BY <1>4, <2>1, <2>4 DEF ProviderExit, kedr_set
  <2> QED BY <2>2, <2>3, <2>4
<1>5. ~CoreInit
  BY <1>2 DEF CoreInit
<1>6. CASE UNCHANGED vars
  BY <1>6 DEF vars
<1>7. ASSUME Holder PROVE UNCHANGED config
  BY <1>7 DEF Holder, ProvidersGet, PluginsGet, SessionStartFails,
     SessionStarted, ProcessModule, SessionEnds
<1>8. ASSUME NEW n \in Names,
             KernelLoad(n) \/ KernelUnload(n) \/ Notification(n)
      PROVE  UNCHANGED config
  BY <1>8 DEF KernelLoad, KernelUnload, Notification, NotificationMissed,
     NotificationIgnored, OnModuleLoad, OnModuleUnload
<1>9. CASE Next
  BY <1>3, <1>4, <1>5, <1>6, <1>7, <1>8, <1>9 DEF Next, Stopped, Holder,
     Notification, ProviderRmmod, ProviderInitKilled, ProviderExitKilled,
     CoreRegisterNotifier, CoreHandleNotifications, CoreRmmod, CoreExit
<1> QED BY <1>6, <1>9

\* The providers and the plugins stay the same from the first lock taken by
\* session_start() to the end of the session.
THEOREM CoreConfigFrozen == Spec => ConfigFrozen
<1>1. CoreInv /\ [Next]_vars => [taken # {} => UNCHANGED config]_vars
  BY Step_ConfigFrozen
<1> QED BY <1>1, CoreInvariant, PTL DEF Spec, ConfigFrozen

==============================================================================
