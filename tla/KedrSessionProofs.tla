-------------------------- MODULE KedrSessionProofs --------------------------
(****************************************************************************)
(* Every step of starting, running and ending a session preserves CoreInv,  *)
(* the inductive invariant of KedrCore: session_start() one lock at a time, *)
(* the instrumentation of the target, session_end().                        *)
(****************************************************************************)
EXTENDS KedrCore, FiniteSetTheorems, TLAPS

USE DEF kernel, session, config, fh, told, session_active, Idle, OpAt, Modules, Roles,
        KEDR_PR_EVENT_HANDLERS, KEDR_PR_LS_ALLOCATOR, KEDR_PR_HOOKS,
        KEDR_PR_NUM_ROLES, FH_PLUGIN

\* There are finitely many loaded targets.
LEMMA LoadedFinite ==
    ASSUME TypeOK
    PROVE  IsFiniteSet(LoadedTargets) /\ Cardinality(LoadedTargets) \in Nat
<1>1. LoadedTargets \subseteq Names
  BY DEF TypeOK, LoadedTargets
<1> QED
  BY <1>1, CoreAssumptions, FS_Subset, FS_CardinalityType

\* One more target object has a module.
LEMMA CountAdd ==
    ASSUME TypeOK, NEW n \in Names, n \notin LoadedTargets,
           LoadedTargets' = LoadedTargets \cup {n}
    PROVE  Cardinality(LoadedTargets') = Cardinality(LoadedTargets) + 1
  BY LoadedFinite, FS_AddElement

\* One target object less has a module.
LEMMA CountRemove ==
    ASSUME TypeOK, NEW n \in LoadedTargets, LoadedTargets' = LoadedTargets \ {n}
    PROVE  Cardinality(LoadedTargets') = Cardinality(LoadedTargets) - 1
  BY LoadedFinite, FS_RemoveElement

\* A failed session_start() that gives back everything it has locked.
LEMMA SessionStartFails_Inv ==
    ASSUME CoreInv, NEW refs, SessionStartFails(refs), taken \subseteq refs,
           op.step \in {"providers_get", "plugins_get"}
    PROVE  CoreInv'
<1>1. TypeOK'
  BY CoreAssumptions DEF CoreInv, TypeOK, OpShape, SessionStartFails, KernelDone, Steps
<1>2. OpShape'
  BY DEF CoreInv, OpShape, Starting, SessionStartFails
<1>3. CoreShape' /\ I13nShape'
  BY DEF CoreInv, OpShape, CoreShape, I13nShape, SessionStartFails
<1>8. KernelShape'
  BY DEF CoreInv, TypeOK, OpShape, KernelShape, SessionStartFails, KernelDone
<1>4. NumLoadedIsCount'
  BY DEF NumLoadedIsCount, SessionStartFails
<1>5. RefBalance'
  BY DEF CoreInv, OpShape, RefBalance, SessionStartFails
<1>6. LockedIsLive'
  BY DEF CoreInv, LockedIsLive, SessionStartFails
<1>7. SessOnShape'
  BY DEF CoreInv, OpShape, SessOnShape, SessionStartFails
<1> QED BY <1>1, <1>2, <1>3, <1>4, <1>5, <1>6, <1>7, <1>8 DEF CoreInv

\* An iteration of the loop of providers_get().
LEMMA ProvidersGet_Inv ==
    ASSUME CoreInv, ProvidersGet
    PROVE  CoreInv'
<1> USE DEF CoreInv
<1>1. CASE ~try_module_get(providers[op.i])
  <2>1. SessionStartFails(ProvidersUndo)
    BY <1>1 DEF ProvidersGet
  <2>2. taken \subseteq ProvidersUndo
    BY DEF ProvidersGet, ProvidersUndo, RefBalance
  <2> QED
    BY <2>1, <2>2, SessionStartFails_Inv DEF ProvidersGet
<1>2. CASE try_module_get(providers[op.i])
  <2>1. /\ NextProvider
        /\ taken' = taken \cup {<<providers[op.i], op.i>>}
        /\ UNCHANGED <<kernel, session, config, fh, told, bug, kills>>
    BY <1>2 DEF ProvidersGet
  <2>2. /\ op.step = "providers_get" /\ op.i \in Roles /\ num_loaded = 0
        /\ op.t \in known /\ tmod[op.t] # NULL /\ ~is_broken
        /\ corestate \in {"handling", "going"}
    BY DEF ProvidersGet, OpShape, TypeOK, Starting
  <2>3. /\ op' \in [step : Steps, t : Names \cup {NULL},
                    i : 0 .. KEDR_PR_NUM_ROLES, rest : SUBSET Providers]
        /\ op'.t = op.t
        /\ \/ op'.step = "providers_get" /\ op'.i = op.i + 1 /\ op'.i < 3
           \/ op'.step = "plugins_get" /\ op.i = 2 /\ op'.rest = plugins
    <3>1. op \in [step : Steps, t : Names \cup {NULL},
                  i : 0 .. KEDR_PR_NUM_ROLES, rest : SUBSET Providers]
          /\ plugins \in SUBSET Providers
      BY DEF TypeOK
    <3>2. CASE op.i + 1 < KEDR_PR_NUM_ROLES
      BY <2>1, <2>2, <3>1, <3>2 DEF NextProvider, Steps
    <3>3. CASE ~(op.i + 1 < KEDR_PR_NUM_ROLES)
      <4>1. op' = [step |-> "plugins_get", t |-> op.t, i |-> 0, rest |-> plugins]
        BY <2>1, <3>3 DEF NextProvider
      <4>2. op.i = 2
        BY <2>2, <3>3
      <4> QED BY <3>1, <4>1, <4>2 DEF Steps
    <3> QED BY <3>2, <3>3
  <2>4. TypeOK'
    BY <2>1, <2>2, <2>3 DEF TypeOK
  <2>5. OpShape'
    BY <2>1, <2>2, <2>3 DEF OpShape, Starting, TypeOK
  <2>6. CoreShape' /\ KernelShape' /\ I13nShape'
    BY <2>1 DEF CoreShape, KernelShape, I13nShape
  <2>7. NumLoadedIsCount'
    <3>1. LoadedTargets' = LoadedTargets
      BY <2>1 DEF LoadedTargets
    <3> QED
      BY <2>1, <2>2, <2>3, <3>1 DEF NumLoadedIsCount, Starting
  <2>8. RefBalance'
    BY <2>1, <2>2, <2>3 DEF RefBalance, ProviderRefs, PluginRefs
  <2>9. LockedIsLive'
    BY <1>2, <2>1, <2>2 DEF LockedIsLive, try_module_get
  <2>10. SessOnShape'
    BY <2>1, <2>2, <2>3 DEF SessOnShape
  <2> QED BY <2>4, <2>5, <2>6, <2>7, <2>8, <2>9, <2>10
<1> QED BY <1>1, <1>2

\* An iteration of the loop of kedr_fh_plugins_get().
LEMMA PluginsGet_Inv ==
    ASSUME CoreInv, PluginsGet
    PROVE  CoreInv'
<1> USE DEF CoreInv
<1>0. PICK p \in op.rest :
        IF try_module_get(p)
        THEN /\ taken' = taken \cup {<<p, p>>}
             /\ op' = [op EXCEPT !.rest = @ \ {p}]
             /\ UNCHANGED <<kernel, session, config, fh, told, bug, kills>>
        ELSE SessionStartFails(PluginsUndo)
  BY DEF PluginsGet
<1>1. CASE ~try_module_get(p)
  <2>1. taken \subseteq PluginsUndo
    BY DEF PluginsGet, PluginsUndo, RefBalance
  <2> QED
    BY <1>0, <1>1, <2>1, SessionStartFails_Inv DEF PluginsGet
<1>2. CASE try_module_get(p)
  <2>1. /\ taken' = taken \cup {<<p, p>>}
        /\ op' = [op EXCEPT !.rest = @ \ {p}]
        /\ UNCHANGED <<kernel, session, config, fh, told, bug, kills>>
    BY <1>0, <1>2
  <2>2. /\ op.step = "plugins_get" /\ num_loaded = 0 /\ ~is_broken
        /\ op.rest \subseteq plugins /\ p \in Providers /\ p # Core
        /\ corestate \in {"handling", "going"}
    BY CoreAssumptions DEF PluginsGet, OpShape, TypeOK
  <2>3. /\ op' \in [step : Steps, t : Names \cup {NULL},
                    i : 0 .. KEDR_PR_NUM_ROLES, rest : SUBSET Providers]
        /\ op'.t = op.t /\ op'.step = op.step /\ op'.rest = op.rest \ {p}
    BY <2>1, <2>2 DEF TypeOK, Steps
  <2>4. TypeOK'
    BY <2>1, <2>2, <2>3 DEF TypeOK
  <2>5. OpShape'
    BY <2>1, <2>2, <2>3 DEF OpShape, Starting
  <2>6. CoreShape' /\ KernelShape' /\ I13nShape'
    BY <2>1 DEF CoreShape, KernelShape, I13nShape
  <2>7. NumLoadedIsCount'
    <3>1. LoadedTargets' = LoadedTargets
      BY <2>1 DEF LoadedTargets
    <3> QED
      BY <2>1, <2>2, <2>3, <3>1 DEF NumLoadedIsCount, Starting
  <2>8. RefBalance'
    BY <2>1, <2>2, <2>3 DEF RefBalance, ProviderRefs, PluginRefs
  <2>9. LockedIsLive'
    BY <1>2, <2>1, <2>2 DEF LockedIsLive, try_module_get
  <2>10. SessOnShape'
    BY <2>1, <2>2, <2>3 DEF SessOnShape
  <2> QED BY <2>4, <2>5, <2>6, <2>7, <2>8, <2>9, <2>10
<1> QED BY <1>1, <1>2

\* session_start() after everything has been locked.
LEMMA SessionStarted_Inv ==
    ASSUME CoreInv, SessionStarted
    PROVE  CoreInv'
<1> USE DEF CoreInv
<1>1. /\ op.step = "plugins_get" /\ op.rest = {} /\ op.t \in Names
      /\ op.t \in known /\ tmod[op.t] # NULL /\ num_loaded = 0 /\ ~is_broken
      /\ corestate \in {"handling", "going"}
  BY DEF SessionStarted, OpShape, Starting
<1>2. /\ sess_on' = TRUE /\ op' = OpAt("process", op.t)
      /\ UNCHANGED <<kernel, session, config, per_target, taken, reported, bug,
                     kills>>
  BY DEF SessionStarted
<1>3. handlers' \in {"NULL", "allocated", "dangling"}
      /\ table' \subseteq UNION {Funcs[p] : p \in Providers}
  BY DEF SessionStarted, prepare_handler_table, TypeOK
<1>4. TypeOK'
  BY <1>1, <1>2, <1>3 DEF TypeOK, Steps
<1>5. OpShape'
  BY <1>1, <1>2 DEF OpShape, Starting
<1>6. CoreShape' /\ KernelShape' /\ I13nShape'
  BY <1>2 DEF CoreShape, KernelShape, I13nShape
<1>7. NumLoadedIsCount'
  <2>1. LoadedTargets' = LoadedTargets
    BY <1>2 DEF LoadedTargets
  <2> QED
    BY <1>1, <1>2, <2>1 DEF NumLoadedIsCount, Starting
<1>8. RefBalance'
  BY <1>1, <1>2 DEF RefBalance, ProviderRefs, PluginRefs
<1>9. LockedIsLive'
  BY <1>2 DEF LockedIsLive
<1>10. SessOnShape'
  BY <1>2 DEF SessOnShape
<1> QED BY <1>4, <1>5, <1>6, <1>7, <1>8, <1>9, <1>10

\* on_module_load() from the instrumentation on.
LEMMA ProcessModule_Inv ==
    ASSUME CoreInv, ProcessModule
    PROVE  CoreInv'
<1> USE DEF CoreInv
<1>1. /\ op.step = "process" /\ op.t \in Names /\ ~is_broken
      /\ corestate \in {"handling", "going"}
      /\ op.t \in known /\ tmod[op.t] # NULL /\ num_loaded \in Nat
  BY DEF ProcessModule, OpShape, TypeOK, Starting
<1>2. /\ op' = Idle /\ num_loaded' = num_loaded + 1
      /\ UNCHANGED <<pstate, corestate, known, tmod, is_broken, config,
                     handlers, table, taken, sess_on, bug, kills>>
  BY DEF ProcessModule
<1>3. /\ ti13n' \in [Names -> BOOLEAN] /\ reported' \subseteq Names
      /\ per_target' \subseteq Ptrs
  BY <1>1 DEF ProcessModule, FhOnTargetLoad, TypeOK
<1>4. kmod' \in [Names -> Ptrs \cup {NULL}]
      /\ kphase' \in [Names -> {"out", "coming", "live", "going"}]
  BY <1>1 DEF ProcessModule, KernelDone, TypeOK
<1>5. TypeOK'
  BY <1>1, <1>2, <1>3, <1>4 DEF TypeOK, Steps
<1>6. OpShape'
  BY <1>2 DEF OpShape, Starting
<1>7. CoreShape'
  BY <1>1, <1>2 DEF CoreShape
<1>12. KernelShape'
  BY <1>1 DEF KernelShape, ProcessModule, KernelDone, TypeOK
<1>13. I13nShape'
  BY <1>1, <1>2 DEF I13nShape, ProcessModule, TypeOK
<1>8. NumLoadedIsCount'
  <2>1. LoadedTargets' = LoadedTargets
    BY <1>2 DEF LoadedTargets
  <2> QED
    BY <1>1, <1>2, <2>1, LoadedFinite DEF NumLoadedIsCount, Starting
<1>9. RefBalance'
  BY <1>1, <1>2 DEF RefBalance, ProviderRefs, PluginRefs
<1>10. LockedIsLive'
  BY <1>2 DEF LockedIsLive
<1>11. SessOnShape'
  BY <1>1, <1>2 DEF SessOnShape
<1> QED BY <1>5, <1>6, <1>7, <1>8, <1>9, <1>10, <1>11, <1>12, <1>13

\* session_end() gives back everything that is locked.
LEMMA SessionEnds_Inv ==
    ASSUME CoreInv, SessionEnds
    PROVE  CoreInv'
<1> USE DEF CoreInv
<1>1. op.step = "session_end" /\ op.t \in Names /\ num_loaded = 1 /\ ~is_broken
  BY DEF SessionEnds, OpShape
<1>2. /\ op' = Idle /\ num_loaded' = 0 /\ sess_on' = FALSE /\ per_target' = {}
      /\ taken' = (taken \ PluginRefs(plugins)) \ ProviderRefs
      /\ UNCHANGED <<pstate, corestate, known, tmod, ti13n, is_broken, config,
                     reported, bug, kills>>
  BY <1>1 DEF SessionEnds
<1>3. taken' = {}
  BY <1>1, <1>2 DEF RefBalance
<1>4. handlers' \in {"NULL", "allocated", "dangling"} /\ table' = {}
  BY DEF SessionEnds, destroy_handler_table
<1>5. kmod' \in [Names -> Ptrs \cup {NULL}]
      /\ kphase' \in [Names -> {"out", "coming", "live", "going"}]
  BY <1>1 DEF SessionEnds, KernelDone, TypeOK
<1>6. TypeOK'
  <2>1. Idle \in [step : Steps, t : Names \cup {NULL},
                  i : 0 .. KEDR_PR_NUM_ROLES, rest : SUBSET Providers]
    BY DEF Steps
  <2> QED
    BY <1>2, <1>3, <1>4, <1>5, <2>1 DEF TypeOK
<1>7. OpShape'
  BY <1>2 DEF OpShape, Starting
<1>8. CoreShape' /\ I13nShape'
  BY <1>1, <1>2 DEF CoreShape, I13nShape
<1>13. KernelShape'
  BY <1>1 DEF KernelShape, SessionEnds, KernelDone, TypeOK
<1>9. NumLoadedIsCount'
  <2>1. LoadedTargets' = LoadedTargets
    BY <1>2 DEF LoadedTargets
  <2> QED
    BY <1>1, <1>2, <2>1, LoadedFinite DEF NumLoadedIsCount, Starting
<1>10. RefBalance'
  BY <1>2, <1>3 DEF RefBalance
<1>11. LockedIsLive'
  BY <1>3 DEF LockedIsLive
<1>12. SessOnShape'
  BY <1>2 DEF SessOnShape
<1> QED BY <1>6, <1>7, <1>8, <1>9, <1>10, <1>11, <1>12, <1>13

==============================================================================
