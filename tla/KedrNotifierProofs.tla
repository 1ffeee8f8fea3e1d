------------------------- MODULE KedrNotifierProofs --------------------------
(****************************************************************************)
(* A handled module notification preserves CoreInv: on_module_load(), with  *)
(* the target object it may create, and on_module_unload().                 *)
(****************************************************************************)
EXTENDS KedrSessionProofs

USE DEF kernel, session, config, fh, told, session_active, Idle, OpAt, Modules, Roles,
        KEDR_PR_EVENT_HANDLERS, KEDR_PR_LS_ALLOCATOR, KEDR_PR_HOOKS,
        KEDR_PR_NUM_ROLES, FH_PLUGIN

\* The COMING notification of a target.
LEMMA OnModuleLoad_Inv ==
    ASSUME CoreInv, NEW n \in Names, OnModuleLoad(n)
    PROVE  CoreInv'
<1> USE DEF CoreInv
<1>1. /\ op = Idle /\ kmod[n] # NULL /\ corestate \in {"handling", "going"}
      /\ kmod[n] \in Ptrs \cup {NULL}
  BY DEF OnModuleLoad, MutexFree, handle_module_notifications, KernelShape, TypeOK
<1>2. /\ UNCHANGED <<pstate, corestate, ti13n, num_loaded, is_broken, config,
                     fh, taken, told, kills>>
  BY DEF OnModuleLoad
<1>3. CASE UNCHANGED <<kmod, kphase, known, tmod, op>> /\ bug' = TRUE
  <2>1. TypeOK'
    BY <1>2, <1>3 DEF TypeOK
  <2>2. LoadedTargets' = LoadedTargets
    BY <1>3 DEF LoadedTargets
  <2>3. OpShape' /\ CoreShape' /\ KernelShape' /\ I13nShape'
    BY <1>2, <1>3 DEF OpShape, Starting, CoreShape, KernelShape, I13nShape
  <2>4. NumLoadedIsCount'
    BY <1>2, <1>3, <2>2 DEF NumLoadedIsCount, Starting
  <2>5. RefBalance'
    BY <1>2, <1>3 DEF RefBalance, ProviderRefs, PluginRefs
  <2>6. LockedIsLive' /\ SessOnShape'
    BY <1>2, <1>3 DEF LockedIsLive, SessOnShape
  <2> QED BY <2>1, <2>3, <2>4, <2>5, <2>6
<1>4. CASE ~(UNCHANGED <<kmod, kphase, known, tmod, op>> /\ bug' = TRUE)
  <2>1. /\ tmod[n] = NULL
        /\ known' = known \cup {n}
        /\ tmod' = [tmod EXCEPT ![n] = kmod[n]]
    BY <1>4 DEF OnModuleLoad
  <2>2. /\ kmod' \in [Names -> Ptrs \cup {NULL}]
        /\ kphase' \in [Names -> {"out", "coming", "live", "going"}]
        /\ bug' \in BOOLEAN
    BY <1>4 DEF OnModuleLoad, KernelDone, TypeOK
  <2>3. \/ op' = Idle /\ is_broken
        \/ op' = OpAt("providers_get", n) /\ num_loaded = 0 /\ ~is_broken
        \/ op' = OpAt("process", n) /\ num_loaded # 0 /\ ~is_broken
    <3>1. ~ti13n[n]
      BY <2>1 DEF I13nShape
    <3>2. CASE is_broken
      BY <1>1, <1>4, <2>1, <3>2 DEF OnModuleLoad
    <3>3. CASE ~is_broken
      BY <1>1, <1>4, <2>1, <3>1, <3>3 DEF OnModuleLoad
    <3> QED BY <3>2, <3>3
  <2>4. TypeOK'
    <3>1. op' \in [step : Steps, t : Names \cup {NULL},
                   i : 0 .. KEDR_PR_NUM_ROLES, rest : SUBSET Providers]
      BY <2>3 DEF Steps
    <3>2. tmod' \in [Names -> Ptrs \cup {NULL}]
      BY <1>1, <2>1 DEF TypeOK
    <3> QED
      BY <1>2, <2>1, <2>2, <3>1, <3>2 DEF TypeOK
  <2>5. tmod'[n] # NULL /\ n \in known'
    BY <1>1, <2>1 DEF TypeOK
  <2>6. OpShape'
    BY <1>1, <1>2, <2>3, <2>5 DEF OpShape, Starting
  <2>7. CoreShape'
    BY <1>2 DEF CoreShape
  <2>13. KernelShape'
    BY <1>4 DEF KernelShape, OnModuleLoad, KernelDone, TypeOK
  <2>14. I13nShape'
    BY <1>2, <2>1, <2>5 DEF I13nShape, TypeOK
  <2>8. LoadedTargets' = LoadedTargets \cup {n} /\ n \notin LoadedTargets
    BY <1>1, <2>1 DEF LoadedTargets, TypeOK
  <2>10. RefBalance'
    BY <1>1, <1>2, <2>3 DEF RefBalance, ProviderRefs, PluginRefs, TypeOK
  <2>11. LockedIsLive'
    BY <1>2 DEF LockedIsLive
  <2>12. SessOnShape'
    <3>1. num_loaded \in Nat /\ op.step = "none"
      BY <1>1 DEF TypeOK
    <3> QED
      BY <1>2, <2>3, <3>1 DEF SessOnShape
  <2>9. NumLoadedIsCount'
    <3>1. /\ Cardinality(LoadedTargets') = Cardinality(LoadedTargets) + 1
          /\ Cardinality(LoadedTargets) \in Nat
      BY <2>8, CountAdd, LoadedFinite
    <3>2. ~is_broken => num_loaded = Cardinality(LoadedTargets)
      BY <1>1, <3>1 DEF NumLoadedIsCount, Starting
    <3> QED
      BY <1>2, <2>3, <3>1, <3>2 DEF NumLoadedIsCount, Starting
  <2> QED BY <2>4, <2>6, <2>7, <2>9, <2>10, <2>11, <2>12, <2>13, <2>14
<1> QED BY <1>3, <1>4

\* The GOING notification of a target: the count of the targets is not zero.
LEMMA OnModuleUnload_Inv ==
    ASSUME CoreInv, NEW n \in Names, OnModuleUnload(n)
    PROVE  CoreInv'
<1> USE DEF CoreInv
<1>1. PICK m \in known :
        /\ tmod[m] = kmod[n]
        /\ IF UnloadSkipped
           THEN KernelDone(n) /\ UNCHANGED <<tmod, ti13n, num_loaded, op,
                                             reported, per_target>>
           ELSE /\ ClearTarget(m)
                /\ IF ti13n[m]
                   THEN /\ reported' = reported \ {m}
                        /\ FhOnTargetUnload(tmod[m])
                   ELSE UNCHANGED <<reported, per_target>>
                /\ IF session_ends
                   THEN /\ op' = OpAt("session_end", n)
                        /\ UNCHANGED <<kmod, kphase, num_loaded>>
                   ELSE /\ num_loaded' = num_loaded - 1
                        /\ KernelDone(n)
                        /\ UNCHANGED op
  BY DEF OnModuleUnload
<1>2. /\ op = Idle /\ corestate \in {"handling", "going"} /\ m \in Names
      /\ kmod[n] # NULL /\ num_loaded \in Nat
  BY DEF OnModuleUnload, MutexFree, handle_module_notifications, TypeOK, KernelShape
<1>3. UNCHANGED <<pstate, corestate, known, is_broken, config, handlers,
                  table, taken, sess_on, bug, kills>>
  BY DEF OnModuleUnload
<1>4. /\ kmod' \in [Names -> Ptrs \cup {NULL}]
      /\ kphase' \in [Names -> {"out", "coming", "live", "going"}]
  BY <1>1 DEF KernelDone, TypeOK
<1>5. KernelShape'
  BY <1>1 DEF KernelShape, KernelDone, TypeOK
<1>6. CASE is_broken
  <2>1. UNCHANGED <<tmod, ti13n, num_loaded, op, reported, per_target>>
    BY <1>1, <1>6 DEF UnloadSkipped
  <2>2. TypeOK'
    BY <1>3, <1>4, <2>1 DEF TypeOK
  <2>3. OpShape' /\ CoreShape' /\ I13nShape' /\ NumLoadedIsCount'
    BY <1>3, <1>6, <2>1 DEF OpShape, Starting, CoreShape, I13nShape, NumLoadedIsCount
  <2>4. RefBalance'
    BY <1>3, <2>1 DEF RefBalance, ProviderRefs, PluginRefs
  <2>5. LockedIsLive' /\ SessOnShape'
    BY <1>3, <2>1 DEF LockedIsLive, SessOnShape
  <2> QED BY <1>5, <2>2, <2>3, <2>4, <2>5
<1>7. CASE ~is_broken
  <2>1. /\ tmod' = [tmod EXCEPT ![m] = NULL]
        /\ ti13n' = [ti13n EXCEPT ![m] = FALSE]
        /\ \/ op' = OpAt("session_end", n) /\ num_loaded' = num_loaded
              /\ num_loaded = 1
           \/ op' = Idle /\ num_loaded' = num_loaded - 1 /\ num_loaded # 1
    BY <1>1, <1>2, <1>7 DEF UnloadSkipped, ClearTarget, session_ends
  <2>2. LoadedTargets' = LoadedTargets \ {m} /\ m \in LoadedTargets
    BY <1>1, <1>2, <1>3, <2>1 DEF LoadedTargets, TypeOK
  <2>3. /\ Cardinality(LoadedTargets') = Cardinality(LoadedTargets) - 1
        /\ num_loaded = Cardinality(LoadedTargets)
        /\ Cardinality(LoadedTargets) \in Nat
    <3>1. Cardinality(LoadedTargets') = Cardinality(LoadedTargets) - 1
      BY <2>2, CountRemove
    <3>2. Cardinality(LoadedTargets) \in Nat
      BY LoadedFinite
    <3> QED
      BY <1>2, <1>7, <3>1, <3>2 DEF NumLoadedIsCount, Starting
  <2>4. num_loaded # 0
    <3>1. LoadedTargets # {} /\ IsFiniteSet(LoadedTargets)
      BY <2>2, LoadedFinite
    <3> QED BY <2>3, <3>1, FS_EmptySet
  <2>5. /\ op' \in [step : Steps, t : Names \cup {NULL},
                    i : 0 .. KEDR_PR_NUM_ROLES, rest : SUBSET Providers]
        /\ num_loaded' \in Nat
    BY <1>2, <2>1, <2>4 DEF Steps
  <2>6. /\ tmod' \in [Names -> Ptrs \cup {NULL}]
        /\ ti13n' \in [Names -> BOOLEAN]
        /\ reported' \subseteq Names /\ per_target' \subseteq Ptrs
    BY <1>1, <1>2, <1>7, <2>1 DEF TypeOK, UnloadSkipped, FhOnTargetUnload
  <2>7. TypeOK'
    BY <1>3, <1>4, <2>5, <2>6 DEF TypeOK
  <2>8. OpShape'
    BY <1>2, <1>3, <1>7, <2>1 DEF OpShape, Starting
  <2>9. CoreShape'
    BY <1>2, <1>3, <1>7 DEF CoreShape
  <2>10. I13nShape'
    BY <1>2, <2>1 DEF I13nShape, TypeOK
  <2>11. NumLoadedIsCount'
    BY <2>1, <2>3 DEF NumLoadedIsCount, Starting
  <2>12. RefBalance'
    BY <1>2, <1>3, <2>1, <2>4 DEF RefBalance, ProviderRefs, PluginRefs
  <2>13. LockedIsLive'
    BY <1>3 DEF LockedIsLive
  <2>14. SessOnShape'
    BY <1>2, <1>3, <2>1, <2>4 DEF SessOnShape
  <2> QED BY <1>5, <2>7, <2>8, <2>9, <2>10, <2>11, <2>12, <2>13, <2>14
<1> QED BY <1>6, <1>7

==============================================================================
