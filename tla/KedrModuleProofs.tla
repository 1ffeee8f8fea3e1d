-------------------------- MODULE KedrModuleProofs ---------------------------
(****************************************************************************)
(* The rest of the kernel preserves CoreInv: modules come and go, their     *)
(* notifications are missed or ignored, and providers, plugins and the core *)
(* itself are loaded and unloaded.                                          *)
(****************************************************************************)
EXTENDS KedrNotifierProofs

USE DEF kernel, session, config, fh, told, session_active, Idle, OpAt, Modules, Roles,
        KEDR_PR_EVENT_HANDLERS, KEDR_PR_LS_ALLOCATOR, KEDR_PR_HOOKS,
        KEDR_PR_NUM_ROLES, FH_PLUGIN

\* One more interrupted mutex_lock_killable() call stays within the bound.
LEMMA KillsBounded ==
    ASSUME kills \in 0 .. MaxKills,
           UNCHANGED kills \/ (kills < MaxKills /\ kills' = kills + 1)
    PROVE  kills' \in 0 .. MaxKills
  BY CoreAssumptions

\* A step that only concerns the kernel's view of the targets.
LEMMA KernelStep_Inv ==
    ASSUME CoreInv, TypeOK', KernelShape',
           UNCHANGED <<pstate, corestate, session, config, fh, op, taken, told>>
    PROVE  CoreInv'
<1> USE DEF CoreInv
<1>1. OpShape' /\ CoreShape' /\ I13nShape'
  BY DEF OpShape, Starting, CoreShape, I13nShape
<1>2. NumLoadedIsCount'
  BY DEF NumLoadedIsCount, LoadedTargets, Starting
<1>3. RefBalance'
  BY DEF RefBalance, ProviderRefs, PluginRefs
<1>4. LockedIsLive' /\ SessOnShape'
  BY DEF LockedIsLive, SessOnShape
<1> QED BY <1>1, <1>2, <1>3, <1>4

\* Loading, unloading, and the notifications the core does not process.
LEMMA Kernel_Inv ==
    ASSUME CoreInv, NEW n \in Names,
           \/ KernelLoad(n) \/ KernelUnload(n)
           \/ NotificationMissed(n) \/ NotificationIgnored(n)
    PROVE  CoreInv'
<1>1. CASE KernelLoad(n)
  <2>1. PICK a \in Ptrs : kmod' = [kmod EXCEPT ![n] = a]
    BY <1>1 DEF KernelLoad
  <2>2. TypeOK'
    BY <1>1, <2>1 DEF KernelLoad, CoreInv, TypeOK
  <2>3. KernelShape'
    BY <1>1, <2>1, CoreAssumptions DEF KernelLoad, CoreInv, TypeOK, KernelShape
  <2> QED BY <1>1, <2>2, <2>3, KernelStep_Inv DEF KernelLoad
<1>2. CASE KernelUnload(n)
  <2>1. TypeOK' /\ KernelShape'
    BY <1>2 DEF KernelUnload, CoreInv, TypeOK, KernelShape
  <2> QED BY <1>2, <2>1, KernelStep_Inv DEF KernelUnload
<1>3. CASE NotificationMissed(n)
  <2>1. kills' \in 0 .. MaxKills
    <3>1. UNCHANGED kills \/ (kills < MaxKills /\ kills' = kills + 1)
      BY <1>3 DEF NotificationMissed
    <3> QED BY <3>1, KillsBounded DEF CoreInv, TypeOK
  <2>2. TypeOK' /\ KernelShape'
    BY <1>3, <2>1 DEF NotificationMissed, KernelDone, CoreInv, TypeOK, KernelShape
  <2> QED BY <1>3, <2>2, KernelStep_Inv DEF NotificationMissed
<1>4. CASE NotificationIgnored(n)
  <2>1. TypeOK' /\ KernelShape'
    BY <1>4 DEF NotificationIgnored, KernelDone, CoreInv, TypeOK, KernelShape
  <2> QED BY <1>4, <2>1, KernelStep_Inv DEF NotificationIgnored
<1> QED BY <1>1, <1>2, <1>3, <1>4

\* A step that changes the state of a provider that nobody has locked, and what
\* is registered only outside of a session.
LEMMA ProviderStep_Inv ==
    ASSUME CoreInv, NEW p \in Providers, NEW s \in {"out", "live", "going"},
           pstate' = [pstate EXCEPT ![p] = s], UNCHANGED Others,
           bug' \in BOOLEAN, kills' \in 0 .. MaxKills,
           providers' \in [Roles -> Modules], plugins' \subseteq Providers,
           s = "live" \/ ~Pinned(p), s # "out" => corestate = "handling",
           (op = Idle /\ ~session_active) \/ UNCHANGED config
    PROVE  CoreInv'
<1> USE DEF CoreInv, Others
<1>1. TypeOK'
  BY DEF TypeOK
<1>2. num_loaded \in Nat /\ pstate \in [Providers -> {"out", "live", "going"}]
  BY DEF TypeOK
<1>3. OpShape'
  BY DEF OpShape, Starting
<1>4. CoreShape' /\ KernelShape' /\ I13nShape'
  BY <1>2 DEF CoreShape, KernelShape, I13nShape
<1>5. NumLoadedIsCount'
  BY DEF NumLoadedIsCount, LoadedTargets, Starting
<1>6. RefBalance'
  BY <1>2 DEF RefBalance, ProviderRefs, PluginRefs
<1>7. LockedIsLive'
  BY <1>2 DEF LockedIsLive, Pinned
<1>8. SessOnShape'
  BY DEF SessOnShape
<1> QED BY <1>1, <1>3, <1>4, <1>5, <1>6, <1>7, <1>8

\* Nobody has locked a module that is not live.
LEMMA NotLiveNotPinned ==
    ASSUME CoreInv, NEW p \in Providers, pstate[p] # "live"
    PROVE  ~Pinned(p)
  BY CoreAssumptions DEF CoreInv, LockedIsLive, Pinned

\* set_provider() and reset_provider() keep providers[] well-formed.
LEMMA SetProvider_Type ==
    ASSUME NEW r \in Roles, NEW m \in Modules, SetProvider(r, m),
           providers \in [Roles -> Modules], bug \in BOOLEAN
    PROVE  /\ providers' \in [Roles -> Modules] /\ bug' \in BOOLEAN
           /\ ~session_active \/ UNCHANGED providers
<1>1. CASE session_active
  BY <1>1 DEF SetProvider
<1>2. CASE ~session_active
  BY <1>2 DEF SetProvider
<1> QED BY <1>1, <1>2

\* The init and exit functions of the providers.
LEMMA Provider_Inv ==
    ASSUME CoreInv, NEW p \in Providers,
           \/ ProviderInit(p) \/ ProviderRmmod(p) \/ ProviderExit(p)
           \/ ProviderInitKilled(p) \/ ProviderExitKilled(p)
    PROVE  CoreInv'
<1> USE DEF CoreInv
<1>1. /\ providers \in [Roles -> Modules] /\ plugins \subseteq Providers
      /\ bug \in BOOLEAN /\ kills \in 0 .. MaxKills
  BY DEF TypeOK
<1>2. CASE ProviderInit(p)
  <2>1. /\ ~Pinned(p) /\ corestate = "handling" /\ op = Idle
        /\ UNCHANGED <<Others, kills>>
    BY <1>2, NotLiveNotPinned DEF ProviderInit, MutexFree
  <2>2. \E ok \in BOOLEAN : InitResult(p, ok)
    BY <1>2 DEF ProviderInit, kedr_register_event_handlers,
       kedr_fh_plugin_register
  <2>3. \E s \in {"out", "live", "going"} :
            pstate' = [pstate EXCEPT ![p] = s]
    BY <2>2 DEF InitResult
  <2>4. /\ bug' \in BOOLEAN
        /\ providers' \in [Roles -> Modules] /\ plugins' \subseteq Providers
        /\ ~session_active \/ UNCHANGED config
    <3>1. CASE Kind[p] = KEDR_PR_EVENT_HANDLERS
      <4>1. kedr_register_event_handlers(p)
        BY <1>2, <3>1 DEF ProviderInit
      <4>2. \/ UNCHANGED <<config, bug>>
            \/ /\ UNCHANGED plugins
               /\ \E m \in Modules : SetProvider(KEDR_PR_EVENT_HANDLERS, m)
        BY <4>1 DEF kedr_register_event_handlers
      <4>3. KEDR_PR_EVENT_HANDLERS \in Roles
        OBVIOUS
      <4> QED BY <1>1, <4>2, <4>3, SetProvider_Type
    <3>2. CASE Kind[p] = FH_PLUGIN
      <4>1. kedr_fh_plugin_register(p)
        BY <1>2, <3>2 DEF ProviderInit
      <4>2. /\ UNCHANGED <<providers, bug>>
            /\ \/ UNCHANGED plugins
               \/ ~session_active /\ plugins' = plugins \cup {p}
        BY <4>1 DEF kedr_fh_plugin_register
      <4> QED BY <1>1, <4>2
    <3>3. CASE Kind[p] \notin {KEDR_PR_EVENT_HANDLERS, FH_PLUGIN}
      <4>1. kedr_set(Kind[p], p)
        BY <1>2, <3>3 DEF ProviderInit
      <4>2. Kind[p] \in Roles
        BY <3>3, CoreAssumptions
      <4>3. \/ UNCHANGED <<config, bug>>
            \/ /\ UNCHANGED plugins
               /\ \E m \in Modules : SetProvider(Kind[p], m)
        BY <4>1 DEF kedr_set
      <4> QED BY <1>1, <4>2, <4>3, SetProvider_Type
    <3> QED BY <3>1, <3>2, <3>3
  <2> QED BY <1>1, <2>1, <2>3, <2>4, ProviderStep_Inv
<1>3. CASE ProviderRmmod(p)
  <2>1. corestate = "handling"
    BY <1>3 DEF ProviderRmmod, CoreShape
  <2> QED BY <1>1, <1>3, <2>1, ProviderStep_Inv DEF ProviderRmmod
<1>4. CASE ProviderExit(p)
  <2>1. ~Pinned(p) /\ op = Idle /\ UNCHANGED <<Others, kills>>
    BY <1>4, NotLiveNotPinned DEF ProviderExit, MutexFree
  <2>2. pstate' = [pstate EXCEPT ![p] = "out"]
    BY <1>4 DEF ProviderExit
  <2>3. /\ bug' \in BOOLEAN
        /\ providers' \in [Roles -> Modules] /\ plugins' \subseteq Providers
        /\ ~session_active \/ UNCHANGED config
    <3>1. CASE Kind[p] = KEDR_PR_EVENT_HANDLERS
      <4>1. kedr_unregister_event_handlers(p)
        BY <1>4, <3>1 DEF ProviderExit
      <4>2. \/ UNCHANGED <<config, bug>>
            \/ /\ UNCHANGED plugins
               /\ \E m \in Modules : SetProvider(KEDR_PR_EVENT_HANDLERS, m)
        BY <4>1 DEF kedr_unregister_event_handlers
      <4>3. KEDR_PR_EVENT_HANDLERS \in Roles
        OBVIOUS
      <4> QED BY <1>1, <4>2, <4>3, SetProvider_Type
    <3>2. CASE Kind[p] = FH_PLUGIN
      BY <1>1, <1>4, <3>2 DEF ProviderExit, kedr_fh_plugin_unregister
    <3>3. CASE Kind[p] \notin {KEDR_PR_EVENT_HANDLERS, FH_PLUGIN}
      <4>1. kedr_set(Kind[p], NULL)
        BY <1>4, <3>3 DEF ProviderExit
      <4>2. Kind[p] \in Roles
        BY <3>3, CoreAssumptions
      <4>3. \/ UNCHANGED <<config, bug>>
            \/ /\ UNCHANGED plugins
               /\ \E m \in Modules : SetProvider(Kind[p], m)
        BY <4>1 DEF kedr_set
      <4> QED BY <1>1, <4>2, <4>3, SetProvider_Type
    <3> QED BY <3>1, <3>2, <3>3
  <2> QED BY <1>1, <2>1, <2>2, <2>3, ProviderStep_Inv
<1>5. CASE ProviderInitKilled(p) \/ ProviderExitKilled(p)
  <2>1. ~Pinned(p) /\ UNCHANGED <<Others, config, bug>>
    BY <1>5, NotLiveNotPinned DEF ProviderInitKilled, ProviderExitKilled
  <2>2. kills' \in 0 .. MaxKills
    BY <1>1, <1>5, CoreAssumptions DEF ProviderInitKilled, ProviderExitKilled
  <2>3. \E s \in {"out", "live", "going"} :
            /\ pstate' = [pstate EXCEPT ![p] = s]
            /\ s # "out" => corestate = "handling"
    BY <1>5 DEF ProviderInitKilled, ProviderExitKilled, InitResult
  <2> QED BY <1>1, <2>1, <2>2, <2>3, ProviderStep_Inv
<1> QED BY <1>2, <1>3, <1>4, <1>5

\* Loading and unloading of the core.
LEMMA Core_Inv ==
    ASSUME CoreInv,
           \/ CoreInit \/ CoreRegisterNotifier \/ CoreHandleNotifications
           \/ CoreRmmod \/ CoreExit
    PROVE  CoreInv'
<1> USE DEF CoreInv
<1>1. CASE CoreInit
  <2>1. op = Idle /\ taken = {} /\ ~sess_on
    BY <1>1 DEF CoreInit, OpShape, CoreShape, RefBalance, SessOnShape
  <2>2. TypeOK'
    BY <1>1, CoreAssumptions DEF CoreInit, TypeOK
  <2>3. OpShape' /\ CoreShape' /\ KernelShape' /\ I13nShape'
    BY <1>1, <2>1 DEF CoreInit, OpShape, Starting, CoreShape, KernelShape, I13nShape
  <2>4. NumLoadedIsCount'
    <3>1. LoadedTargets' = {}
      BY <1>1, CoreAssumptions DEF CoreInit, LoadedTargets
    <3> QED
      BY <1>1, <2>1, <3>1, FS_EmptySet DEF CoreInit, NumLoadedIsCount, Starting
  <2>5. RefBalance' /\ LockedIsLive' /\ SessOnShape'
    BY <1>1, <2>1 DEF CoreInit, RefBalance, LockedIsLive, SessOnShape
  <2> QED BY <2>2, <2>3, <2>4, <2>5
<1>2. CASE CoreRegisterNotifier \/ CoreRmmod
  <2>1. UNCHANGED <<kmod, kphase, pstate, session, config, fh, op, taken, told,
                    bug, kills>>
    BY <1>2 DEF CoreRegisterNotifier, CoreRmmod
  <2>2. TypeOK'
    BY <1>2, <2>1 DEF TypeOK, CoreRegisterNotifier, CoreRmmod
  <2>3. OpShape' /\ KernelShape' /\ I13nShape'
    BY <1>2, <2>1 DEF OpShape, Starting, KernelShape, I13nShape,
       CoreRegisterNotifier, CoreRmmod
  <2>4. CoreShape'
    BY <1>2, <2>1 DEF CoreShape, CoreRegisterNotifier, CoreRmmod
  <2>5. NumLoadedIsCount' /\ SessOnShape'
    BY <2>1 DEF NumLoadedIsCount, LoadedTargets, Starting, SessOnShape
  <2>6. RefBalance'
    BY <2>1 DEF RefBalance, ProviderRefs, PluginRefs
  <2>7. LockedIsLive'
    BY <1>2, <2>1, CoreAssumptions DEF LockedIsLive, CoreRegisterNotifier,
       CoreRmmod, Pinned
  <2> QED BY <2>2, <2>3, <2>4, <2>5, <2>6, <2>7
<1>3. CASE CoreHandleNotifications \/ CoreExit
  <2>1. /\ op = Idle
        /\ UNCHANGED <<kmod, kphase, pstate, tmod, ti13n, num_loaded, is_broken,
                       config, fh, op, taken, told>>
    BY <1>3 DEF CoreHandleNotifications, CoreExit, MutexFree
  <2>2. \/ UNCHANGED known
        \/ known' = {} /\ num_loaded = 0 /\ corestate' = "out"
    BY <1>3 DEF CoreHandleNotifications, CoreExit, CoreShape, TypeOK
  <2>3. TypeOK'
    <3>1. kills' \in 0 .. MaxKills
      BY <1>3, CoreAssumptions DEF TypeOK, CoreHandleNotifications, CoreExit
    <3> QED
      BY <1>3, <2>1, <2>2, <3>1 DEF TypeOK, CoreHandleNotifications, CoreExit
  <2>4. OpShape' /\ KernelShape' /\ I13nShape'
    BY <2>1 DEF OpShape, Starting, KernelShape, I13nShape
  <2>5. CoreShape'
    BY <1>3, <2>1, <2>2 DEF CoreShape, CoreHandleNotifications, CoreExit, TypeOK
  <2>6. NumLoadedIsCount'
    <3>1. CASE UNCHANGED known
      BY <2>1, <3>1 DEF NumLoadedIsCount, LoadedTargets, Starting
    <3>2. CASE known' = {} /\ num_loaded = 0
      <4>1. LoadedTargets' = {}
        BY <3>2 DEF LoadedTargets
      <4> QED
        BY <2>1, <3>2, <4>1, FS_EmptySet DEF NumLoadedIsCount, Starting
    <3> QED BY <2>2, <3>1, <3>2
  <2>7. RefBalance' /\ SessOnShape'
    BY <2>1 DEF RefBalance, ProviderRefs, PluginRefs, SessOnShape
  <2>8. LockedIsLive'
    <3>1. corestate' = corestate \/ taken = {}
      BY <1>3, <2>1 DEF CoreHandleNotifications, CoreExit, CoreShape, RefBalance,
         TypeOK
    <3> QED BY <2>1, <3>1 DEF LockedIsLive
  <2> QED BY <2>3, <2>4, <2>5, <2>6, <2>7, <2>8
<1> QED BY <1>1, <1>2, <1>3

==============================================================================
