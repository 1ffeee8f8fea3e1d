------------------------------ MODULE KedrCore ------------------------------
(***************************************************************************)
(* The analysis session of the core (core/module.c) together with the      *)
(* function handling plugins (core/fh_impl.c).                             *)
(*                                                                         *)
(* The kernel loads and unloads modules.  Its notifier chain calls the     *)
(* core, which recognises the targets, starts a session with the first one *)
(* (locking the modules of all providers and plugins in memory),           *)
(* instruments each target, and ends the session with the last one.        *)
(* Everything runs under session_mutex, whose holder is described by `op'; *)
(* what the kernel does to other modules interleaves with the steps of the *)
(* holder because try_module_get() depends on it.                          *)
(***************************************************************************)
EXTENDS Integers, FiniteSets

CONSTANTS
    Names,        \* names of the kernel modules that may become targets
    Special,      \* those whose names start with "kedr_" or "test_"
    InitTargets,  \* target objects preallocated from the parameter "targets"
    ProcessAll,   \* the parameter "targets" is "*"
    Ptrs,         \* addresses of struct module
    NULL,
    Core,         \* THIS_MODULE of the core
    Providers,    \* modules that use the API of the core
    Kind,         \* Kind[p]: the role p provides, or FH_PLUGIN
    Funcs,        \* Funcs[p]: the functions the plugin p has handlers for
    MaxKills      \* bound on the number of interrupted mutex_lock_killable()

\* enum kedr_provider_role
KEDR_PR_EVENT_HANDLERS == 0
KEDR_PR_LS_ALLOCATOR == 1
KEDR_PR_HOOKS == 2
KEDR_PR_NUM_ROLES == 3
Roles == 0 .. KEDR_PR_NUM_ROLES - 1

\* The mark of a function handling plugin, which has no role.
FH_PLUGIN == 3

Modules == Providers \cup {Core}

ASSUME CoreAssumptions ==
    /\ IsFiniteSet(Names) /\ Special \subseteq Names
    /\ InitTargets \subseteq Names
    /\ ProcessAll \in BOOLEAN /\ (ProcessAll => InitTargets = {})
    /\ NULL \notin Names \cup Ptrs
    /\ Core \notin Providers
    /\ Providers \cap Roles = {}
    /\ Kind \in [Providers -> Roles \cup {FH_PLUGIN}]
    /\ DOMAIN Funcs = Providers
    /\ MaxKills \in Nat

VARIABLES
    \* The kernel (external): the struct module and the stage of the life of
    \* every potential target, and the states of the providers and the core.
    kmod, kphase, pstate, corestate,
    \* struct kedr_session and its target objects.
    known,        \* session.targets
    tmod, ti13n,  \* t->mod, and whether t->i13n is not NULL
    num_loaded, is_broken,
    \* What is registered: providers[] (eh_current, ls_allocator and
    \* core_hooks change with it) and fh_plugins.
    providers, plugins,
    \* fh_impl.c: the pointer `handlers', the functions in the table
    \* (handlers_size is their number), the modules with per-target data.
    handlers, table, per_target,
    \* The holder of session_mutex: the step it is at, the target it
    \* processes, the next provider and the plugins not locked yet.
    op,
    taken,        \* module references taken: <<module, role or plugin>>
    \* What the event handlers were told.
    sess_on, reported,
    bug,          \* a BUG_ON has triggered
    kills

kernel == <<kmod, kphase, pstate, corestate>>
session == <<known, tmod, ti13n, num_loaded, is_broken>>
config == <<providers, plugins>>
fh == <<handlers, table, per_target>>
told == <<sess_on, reported>>
vars == <<kernel, session, config, fh, op, taken, told, bug, kills>>

OpAt(s, n) == [step |-> s, t |-> n, i |-> 0, rest |-> {}]
Idle == OpAt("none", NULL)

Steps == {"none", "providers_get", "plugins_get", "process", "session_end"}

\* Every variable keeps its type; in particular session.num_loaded of module.c never
\* goes below zero.
TypeOK ==
    /\ kmod \in [Names -> Ptrs \cup {NULL}]
    /\ kphase \in [Names -> {"out", "coming", "live", "going"}]
    /\ pstate \in [Providers -> {"out", "live", "going"}]
    /\ corestate \in {"out", "checked", "registered", "handling", "going"}
    /\ known \subseteq Names
    /\ tmod \in [Names -> Ptrs \cup {NULL}]
    /\ ti13n \in [Names -> BOOLEAN]
    /\ num_loaded \in Nat
    /\ is_broken \in BOOLEAN
    /\ providers \in [Roles -> Modules]
    /\ plugins \subseteq Providers
    /\ handlers \in {"NULL", "allocated", "dangling"}
    /\ table \subseteq UNION {Funcs[p] : p \in Providers}
    /\ per_target \subseteq Ptrs
    /\ op \in [step : Steps, t : Names \cup {NULL}, i : 0 .. KEDR_PR_NUM_ROLES,
               rest : SUBSET Providers]
    /\ taken \subseteq Modules \X (Roles \cup Providers)
    /\ sess_on \in BOOLEAN
    /\ reported \subseteq Names
    /\ bug \in BOOLEAN
    /\ kills \in 0 .. MaxKills

Init ==
    /\ kmod = [n \in Names |-> NULL]
    /\ kphase = [n \in Names |-> "out"]
    /\ pstate = [p \in Providers |-> "out"]
    /\ corestate = "out"
    /\ known = {}
    /\ tmod = [n \in Names |-> NULL]
    /\ ti13n = [n \in Names |-> FALSE]
    /\ num_loaded = 0
    /\ is_broken = FALSE
    /\ providers = [r \in Roles |-> Core]
    /\ plugins = {}
    /\ handlers = "NULL" /\ table = {} /\ per_target = {}
    /\ op = Idle
    /\ taken = {}
    /\ sess_on = FALSE /\ reported = {}
    /\ bug = FALSE
    /\ kills = 0

-----------------------------------------------------------------------------
(* Conditions *)

\* The thread that hits a BUG_ON dies with the mutex locked.
MutexFree == op = Idle /\ ~bug
session_active == num_loaded > 0
NotifierOn == corestate \in {"registered", "handling", "going"}
handle_module_notifications == corestate \in {"handling", "going"}

\* Mutant: the result of try_module_get() is not checked.
try_module_get_unchecked(m) == TRUE

\* try_module_get(m) succeeds unless the module is being removed (external).
try_module_get(m) ==
    IF m = Core THEN corestate \in {"checked", "registered", "handling"}
                ELSE pstate[m] = "live"

\* rmmod is refused for a module with a non-zero usage count (external).
Pinned(m) == \E h \in Roles \cup Providers : <<m, h>> \in taken

ProviderRefs == {<<providers[r], r>> : r \in Roles}
PluginRefs(ps) == {<<p, p>> : p \in ps}

-----------------------------------------------------------------------------
(* Module notifications: detector_notifier_call() *)

\* The kernel has finished with the notification about n.
KernelDone(n) ==
    IF kphase[n] = "coming"
    THEN kphase' = [kphase EXCEPT ![n] = "live"] /\ UNCHANGED kmod
    ELSE /\ kphase' = [kphase EXCEPT ![n] = "out"]
         /\ kmod' = [kmod EXCEPT ![n] = NULL]

\* The kernel brings a module into memory, or begins to remove it (or its
\* init function has failed); the notification comes next.
KernelLoad(n) ==
    /\ kphase[n] = "out"
    /\ \E a \in Ptrs \ {kmod[m] : m \in Names} : kmod' = [kmod EXCEPT ![n] = a]
    /\ kphase' = [kphase EXCEPT ![n] = "coming"]
    /\ UNCHANGED <<pstate, corestate, session, config, fh, op, taken, told,
                   bug, kills>>

KernelUnload(n) ==
    /\ kphase[n] = "live"
    /\ kphase' = [kphase EXCEPT ![n] = "going"]
    /\ UNCHANGED <<kmod, pstate, corestate, session, config, fh, op, taken,
                   told, bug, kills>>

\* The notification does not reach the code under session_mutex: the core is
\* not registered with the notifier chain or has been killed while waiting
\* for the mutex.
NotificationMissed(n) ==
    /\ kphase[n] \in {"coming", "going"} /\ op.t # n
    /\ \/ ~NotifierOn /\ UNCHANGED kills
       \/ NotifierOn /\ kills < MaxKills /\ kills' = kills + 1
    /\ KernelDone(n)
    /\ UNCHANGED <<pstate, corestate, session, config, fh, op, taken, told,
                   bug>>

\* The notification is of no interest: too early, or not about a target (an
\* object for a new target may also fail to be allocated).
NotificationIgnored(n) ==
    /\ NotifierOn /\ MutexFree
    /\ \/ ~handle_module_notifications /\ kphase[n] \in {"coming", "going"}
       \/ kphase[n] = "coming" /\ n \notin known
       \/ kphase[n] = "going" /\ kmod[n] \notin {tmod[m] : m \in known}
    /\ KernelDone(n)
    /\ UNCHANGED <<pstate, corestate, session, config, fh, op, taken, told,
                   bug, kills>>

\* get_target_object(): the object is found by the name of the module.
IsTarget(n) == n \in known \/ (ProcessAll /\ n \notin Special)

\* MODULE_STATE_COMING for a target, up to the first thing that can fail.
OnModuleLoad(n) ==
    /\ kphase[n] = "coming" /\ NotifierOn /\ MutexFree
    /\ handle_module_notifications /\ IsTarget(n)
    /\ IF tmod[n] # NULL
       THEN bug' = TRUE /\ UNCHANGED <<kmod, kphase, known, tmod, op>>
       ELSE /\ known' = known \cup {n}
            /\ tmod' = [tmod EXCEPT ![n] = kmod[n]]
            /\ IF is_broken
               THEN KernelDone(n) /\ UNCHANGED <<op, bug>>
               ELSE IF ti13n[n]
               THEN bug' = TRUE /\ UNCHANGED <<kmod, kphase, op>>
               ELSE /\ op' = OpAt(IF num_loaded = 0 THEN "providers_get"
                                                       ELSE "process", n)
                    /\ UNCHANGED <<kmod, kphase, bug>>
    /\ UNCHANGED <<pstate, corestate, ti13n, num_loaded, is_broken, config,
                   fh, taken, told, kills>>

\* session_start() fails; the locks taken so far (refs) are given back.
SessionStartFails(refs) ==
    /\ taken' = taken \ refs
    /\ is_broken' = TRUE
    /\ KernelDone(op.t)
    /\ op' = Idle
    /\ UNCHANGED <<pstate, corestate, known, tmod, ti13n, num_loaded, config,
                   fh, told, bug, kills>>

\* The loop of providers_get() goes on to the next role.
NextProviderNot == UNCHANGED op     \* mutant: no ++i
NextProvider ==
    op' = IF op.i + 1 < KEDR_PR_NUM_ROLES
          THEN [op EXCEPT !.i = @ + 1]
          ELSE [step |-> "plugins_get", t |-> op.t, i |-> 0, rest |-> plugins]

\* What providers_get() unlocks when it fails.
ProvidersUndo == {<<providers[k], k>> : k \in 0 .. op.i - 1}

\* An iteration of the loop of providers_get().
ProvidersGet ==
    /\ op.step = "providers_get"
    /\ IF try_module_get(providers[op.i])
       THEN /\ taken' = taken \cup {<<providers[op.i], op.i>>}
            /\ NextProvider
            /\ UNCHANGED <<kernel, session, config, fh, told, bug, kills>>
       ELSE SessionStartFails(ProvidersUndo)

\* What kedr_fh_plugins_get() and then session_start() unlock when the former
\* fails.
PluginsUndoOnly == PluginRefs(plugins \ op.rest)    \* mutant: no providers_put()
PluginsUndo == PluginRefs(plugins \ op.rest) \cup ProviderRefs

\* An iteration of the loop of kedr_fh_plugins_get().
PluginsGet ==
    /\ op.step = "plugins_get"
    /\ \E p \in op.rest :
         IF try_module_get(p)
         THEN /\ taken' = taken \cup {<<p, p>>}
              /\ op' = [op EXCEPT !.rest = @ \ {p}]
              /\ UNCHANGED <<kernel, session, config, fh, told, bug, kills>>
         ELSE SessionStartFails(PluginsUndo)

\* prepare_handler_table(), which may run out of memory.
prepare_handler_table ==
    LET fs == UNION {Funcs[p] : p \in plugins} IN
    \/ fs = {} /\ UNCHANGED <<handlers, table>>
    \/ fs # {} /\ handlers' = "allocated" /\ table' = fs
    \/ fs # {} /\ handlers' = "NULL" /\ UNCHANGED table

\* The rest of session_start().
SessionStarted ==
    /\ op.step = "plugins_get" /\ op.rest = {}
    /\ sess_on' = TRUE
    /\ prepare_handler_table
    /\ op' = OpAt("process", op.t)
    /\ UNCHANGED <<kernel, session, config, per_target, taken, reported, bug,
                   kills>>

\* kedr_fh_on_target_load(): per_target_create() needs at least one plugin, no
\* data for that module yet, and memory.
FhOnTargetLoad(a) ==
    \/ UNCHANGED per_target
    \/ plugins # {} /\ per_target' = per_target \cup {a}

\* The rest of on_module_load(): the instrumentation, which may fail, and the
\* notifications about the target.
ProcessModule ==
    /\ op.step = "process"
    /\ num_loaded' = num_loaded + 1
    /\ \/ UNCHANGED <<ti13n, reported, per_target>>
       \/ /\ ti13n' = [ti13n EXCEPT ![op.t] = TRUE]
          /\ reported' = reported \cup {op.t}
          /\ FhOnTargetLoad(tmod[op.t])
    /\ KernelDone(op.t)
    /\ op' = Idle
    /\ UNCHANGED <<pstate, corestate, known, tmod, is_broken, config,
                   handlers, table, taken, sess_on, bug, kills>>

\* kedr_fh_on_target_unload(): do_call_exit_post() destroys the data.
FhOnTargetUnload(a) == per_target' = per_target \ {a}

\* on_module_unload(): the condition of the early return.
UnloadAlways == FALSE    \* mutant: the session is not checked
UnloadSkipped == is_broken

\* on_module_unload(): this is the last target.
SessionEndsEarly == num_loaded <= 2   \* mutant: one target too early
session_ends == num_loaded = 1

\* on_module_unload(): the target object is ready for the next session.
ClearIfInstrumented(m) ==    \* mutant: `out' label after t->mod = NULL
    /\ tmod' = IF ti13n[m] THEN [tmod EXCEPT ![m] = NULL] ELSE tmod
    /\ ti13n' = [ti13n EXCEPT ![m] = FALSE]
ClearTarget(m) ==
    /\ tmod' = [tmod EXCEPT ![m] = NULL]
    /\ ti13n' = [ti13n EXCEPT ![m] = FALSE]

\* MODULE_STATE_GOING for a target: on_module_unload() up to session_end().
OnModuleUnload(n) ==
    /\ kphase[n] = "going" /\ NotifierOn /\ MutexFree
    /\ handle_module_notifications
    /\ \E m \in known :
         /\ tmod[m] = kmod[n]
         /\ IF UnloadSkipped
            THEN KernelDone(n) /\ UNCHANGED <<tmod, ti13n, num_loaded, op,
                                              reported, per_target>>
            ELSE /\ ClearTarget(m)
                 /\ IF ti13n[m]
                    THEN /\ reported' = reported \ {m}
                         /\ FhOnTargetUnload(tmod[m])
                    ELSE UNCHANGED <<reported, per_target>>
                 /\ IF session_ends
                    THEN /\ op' = OpAt("session_end", n)
                         /\ UNCHANGED <<kmod, kphase, num_loaded>>
                    ELSE /\ num_loaded' = num_loaded - 1
                         /\ KernelDone(n)
                         /\ UNCHANGED op
    /\ UNCHANGED <<pstate, corestate, known, is_broken, config, handlers,
                   table, taken, sess_on, bug, kills>>

\* destroy_handler_table()
destroy_handler_table ==
    /\ handlers' = IF handlers = "NULL" THEN "NULL" ELSE "dangling"
    /\ table' = {}

\* session_end() and the decrement that follows it.
SessionEnds ==
    /\ op.step = "session_end"
    /\ destroy_handler_table
    /\ per_target' = {}
    /\ sess_on' = FALSE
    /\ taken' = (taken \ PluginRefs(plugins)) \ ProviderRefs
    /\ num_loaded' = num_loaded - 1
    /\ KernelDone(op.t)
    /\ op' = Idle
    /\ UNCHANGED <<pstate, corestate, known, tmod, ti13n, is_broken, config,
                   reported, bug, kills>>

-----------------------------------------------------------------------------
(* The API of the core, called from the init and exit functions of the     *)
(* modules in Providers                                                    *)

\* set_provider() and reset_provider(), with their BUG_ON(session_active()).
SetProvider(r, m) ==
    IF session_active
    THEN bug' = TRUE /\ UNCHANGED providers
    ELSE providers' = [providers EXCEPT ![r] = m] /\ UNCHANGED bug

\* The init function of p fails if its registration is refused.
InitResult(p, ok) == pstate' = [pstate EXCEPT ![p] = IF ok THEN "live" ELSE "out"]

RegisterUnchecked(p) ==    \* mutant: the session may be active
    IF providers[KEDR_PR_EVENT_HANDLERS] # Core
    THEN InitResult(p, FALSE) /\ UNCHANGED <<config, bug>>
    ELSE /\ InitResult(p, TRUE)
         /\ SetProvider(KEDR_PR_EVENT_HANDLERS, p)
         /\ UNCHANGED plugins
kedr_register_event_handlers(p) ==
    IF session_active \/ providers[KEDR_PR_EVENT_HANDLERS] # Core
    THEN InitResult(p, FALSE) /\ UNCHANGED <<config, bug>>
    ELSE /\ InitResult(p, TRUE)
         /\ SetProvider(KEDR_PR_EVENT_HANDLERS, p)
         /\ UNCHANGED plugins

\* kedr_set_ls_allocator() and kedr_set_core_hooks(): m is NULL or a module.
kedr_set(r, m) ==
    /\ IF session_active \/ (m # NULL /\ providers[r] # Core)
       THEN UNCHANGED <<providers, bug>>
       ELSE SetProvider(r, IF m = NULL THEN Core ELSE m)
    /\ UNCHANGED plugins

PluginRegisterUnchecked(p) ==    \* mutant: the session may be active
    /\ InitResult(p, TRUE)
    /\ plugins' = plugins \cup {p}
    /\ UNCHANGED <<providers, bug>>
kedr_fh_plugin_register(p) ==
    IF \/ session_active
       \/ p \in plugins
       \/ \E q \in plugins : Funcs[p] \cap Funcs[q] # {}
    THEN InitResult(p, FALSE) /\ UNCHANGED <<config, bug>>
    ELSE /\ InitResult(p, TRUE)
         /\ plugins' = plugins \cup {p}
         /\ UNCHANGED <<providers, bug>>

\* The handlers are restored to the defaults whatever the checks said.
kedr_unregister_event_handlers(p) ==
    SetProvider(KEDR_PR_EVENT_HANDLERS, Core) /\ UNCHANGED plugins

PluginUnregisterNot(p) == UNCHANGED <<config, bug>>    \* mutant: no list_del()
kedr_fh_plugin_unregister(p) ==
    /\ plugins' = IF session_active THEN plugins ELSE plugins \ {p}
    /\ UNCHANGED <<providers, bug>>

Others == <<kmod, kphase, corestate, session, fh, op, taken, told>>

\* insmod of a provider: a module that needs the symbols of the core.
ProviderInit(p) ==
    /\ pstate[p] = "out" /\ corestate = "handling"
    /\ MutexFree
    /\ CASE Kind[p] = KEDR_PR_EVENT_HANDLERS -> kedr_register_event_handlers(p)
         [] Kind[p] = FH_PLUGIN -> kedr_fh_plugin_register(p)
         [] OTHER -> InitResult(p, TRUE) /\ kedr_set(Kind[p], p)
    /\ UNCHANGED <<Others, kills>>

\* The kernel starts removing the module unless it is in use.
ProviderRmmod(p) ==
    /\ pstate[p] = "live" /\ ~Pinned(p)
    /\ pstate' = [pstate EXCEPT ![p] = "going"]
    /\ UNCHANGED <<Others, config, bug, kills>>

\* The exit function of the provider.
ProviderExit(p) ==
    /\ pstate[p] = "going" /\ MutexFree
    /\ pstate' = [pstate EXCEPT ![p] = "out"]
    /\ CASE Kind[p] = KEDR_PR_EVENT_HANDLERS -> kedr_unregister_event_handlers(p)
         [] Kind[p] = FH_PLUGIN -> kedr_fh_plugin_unregister(p)
         [] OTHER -> kedr_set(Kind[p], NULL)
    /\ UNCHANGED <<Others, kills>>

\* The same calls when mutex_lock_killable() is interrupted.  The call that
\* unregisters event handlers cannot be.
ProviderInitKilled(p) ==
    /\ pstate[p] = "out" /\ corestate = "handling"
    /\ kills < MaxKills /\ kills' = kills + 1
    /\ InitResult(p, Kind[p] \in {KEDR_PR_LS_ALLOCATOR, KEDR_PR_HOOKS})
    /\ UNCHANGED <<Others, config, bug>>

ProviderExitKilled(p) ==
    /\ pstate[p] = "going" /\ Kind[p] # KEDR_PR_EVENT_HANDLERS
    /\ kills < MaxKills /\ kills' = kills + 1
    /\ pstate' = [pstate EXCEPT ![p] = "out"]
    /\ UNCHANGED <<Others, config, bug>>

-----------------------------------------------------------------------------
(* Loading and unloading of the core itself *)

\* core_init_module() up to the check that no target is loaded.
CoreInit ==
    /\ corestate = "out"
    /\ \A n \in InitTargets : kphase[n] = "out"
    /\ corestate' = "checked"
    /\ known' = InitTargets
    /\ tmod' = [n \in Names |-> NULL] /\ ti13n' = [n \in Names |-> FALSE]
    /\ num_loaded' = 0 /\ is_broken' = FALSE
    /\ providers' = [r \in Roles |-> Core] /\ plugins' = {}
    /\ handlers' = "NULL" /\ table' = {} /\ per_target' = {}
    /\ UNCHANGED <<kmod, kphase, pstate, op, taken, told, bug, kills>>

CoreRegisterNotifier ==
    /\ corestate = "checked"
    /\ corestate' = "registered"
    /\ UNCHANGED <<kmod, kphase, pstate, session, config, fh, op, taken, told,
                   bug, kills>>

\* The end of core_init_module(); without the mutex, everything is undone.
CoreHandleNotifications ==
    /\ corestate = "registered" /\ MutexFree
    /\ \/ corestate' = "handling" /\ UNCHANGED <<known, kills>>
       \/ /\ kills < MaxKills /\ kills' = kills + 1
          /\ corestate' = "out" /\ known' = {}
    /\ UNCHANGED <<kmod, kphase, pstate, tmod, ti13n, num_loaded, is_broken,
                   config, fh, op, taken, told, bug>>

\* rmmod of the core: nothing uses its symbols and nobody has locked it.
CoreRmmod ==
    /\ corestate = "handling" /\ ~Pinned(Core)
    /\ \A p \in Providers : pstate[p] = "out"
    /\ corestate' = "going"
    /\ UNCHANGED <<kmod, kphase, pstate, session, config, fh, op, taken, told,
                   bug, kills>>

\* core_exit_module().  unregister_module_notifier() waits for the callbacks
\* in progress; cleanup_session() checks that nothing is left.
CoreExit ==
    /\ corestate = "going" /\ MutexFree
    /\ IF session_active \/ \E n \in known : tmod[n] # NULL \/ ti13n[n]
       THEN bug' = TRUE /\ UNCHANGED <<corestate, known>>
       ELSE corestate' = "out" /\ known' = {} /\ UNCHANGED bug
    /\ UNCHANGED <<kmod, kphase, pstate, tmod, ti13n, num_loaded, is_broken,
                   config, fh, op, taken, told, kills>>

-----------------------------------------------------------------------------
Holder == ProvidersGet \/ PluginsGet \/ SessionStarted \/ ProcessModule
          \/ SessionEnds

Notification(n) == NotificationMissed(n) \/ NotificationIgnored(n)
                   \/ OnModuleLoad(n) \/ OnModuleUnload(n)

\* The notifier of the core gets the mutex, or is not called at all.
Notified(n) == Notification(n) /\ UNCHANGED kills

\* Everybody may be waiting for a mutex that a dead thread holds.
Stopped == bug /\ UNCHANGED vars

Next ==
    \/ ProvidersGet \/ PluginsGet \/ SessionStarted \/ ProcessModule
    \/ SessionEnds
    \/ \E n \in Names : \/ KernelLoad(n) \/ KernelUnload(n)
                        \/ NotificationMissed(n) \/ NotificationIgnored(n)
                        \/ OnModuleLoad(n) \/ OnModuleUnload(n)
    \/ \E p \in Providers : \/ ProviderInit(p) \/ ProviderRmmod(p)
                            \/ ProviderExit(p) \/ ProviderInitKilled(p)
                            \/ ProviderExitKilled(p)
    \/ CoreInit \/ CoreRegisterNotifier \/ CoreHandleNotifications
    \/ CoreRmmod \/ CoreExit
    \/ Stopped

Spec == Init /\ [][Next]_vars

\* The holder of the mutex runs on, a waiter for it is eventually served, and
\* init and exit functions that have begun are completed.  Nobody has to kill a waiter.
Fairness ==
    /\ WF_vars(Holder)
    /\ \A n \in Names : SF_vars(Notified(n))
    /\ \A p \in Providers : SF_vars(ProviderExit(p))
    /\ WF_vars(CoreRegisterNotifier)
    /\ SF_vars(CoreHandleNotifications)
    /\ SF_vars(CoreExit)

FairSpec == Spec /\ Fairness

-----------------------------------------------------------------------------
(* Properties *)

Starting == op.step \in {"providers_get", "plugins_get", "process"}
LoadedTargets == {n \in known : tmod[n] # NULL}

\* Every reference taken on a provider or plugin by session_start() is given
\* back exactly once, on each of its failure paths and in session_end():
\* "the usage count is incremented either for all of the providers or for
\* none of them".
RefBalance ==
    /\ op.step = "providers_get" =>
           taken = {<<providers[k], k>> : k \in 0 .. op.i - 1}
    /\ op.step = "plugins_get" =>
           taken = ProviderRefs \cup PluginRefs(plugins \ op.rest)
    /\ op.step \in {"process", "session_end"} =>
           taken = ProviderRefs \cup PluginRefs(plugins)
    /\ op.step = "none" =>
           taken = IF session_active THEN ProviderRefs \cup PluginRefs(plugins)
                                     ELSE {}

\* While the event handlers are in a session, none of the modules whose code
\* they, the allocator, the hooks and the plugins consist of is being removed,
\* and neither is the core, even if rmmod raced with session_start().
SessionPins ==
    sess_on => /\ corestate = "handling"
               /\ \A r \in Roles : \/ providers[r] = Core
                                   \/ pstate[providers[r]] = "live"
               /\ \A p \in plugins : pstate[p] = "live"

\* session.num_loaded counts the target objects with a module, so the session
\* ends with the last of them and not before.
NumLoadedIsCount ==
    ~is_broken => num_loaded = Cardinality(LoadedTargets)
                               - (IF Starting THEN 1 ELSE 0)
                               + (IF op.step = "session_end" THEN 1 ELSE 0)

\* No callback of the core can point into a module that is gone: an owner
\* leaves memory only after its handlers, allocator, hooks or plugin have been
\* replaced.
NoDanglingOwner ==
    /\ \A r \in Roles : providers[r] # Core => pstate[providers[r]] # "out"
    /\ \A p \in plugins : pstate[p] # "out"

\* NoDanglingOwner when no call of the API has been interrupted.
NoDanglingOwnerUnlessKilled == kills = 0 => NoDanglingOwner

\* The BUG_ON()s of module.c can only trigger after a session failed to start
\* or a notification was lost.
BugOnlyAfterFailure == bug => is_broken \/ kills > 0

\* destroy_handler_table() never frees the table a second time.
NoDoubleFree == [][destroy_handler_table /\ op.step = "session_end" =>
                       handlers # "dangling"]_vars

\* The sets of handlers, the allocator, the hooks and the plugins do not change
\* from the moment the first of them is locked to the end of the session.
ConfigFrozen == [][taken # {} => UNCHANGED config]_vars

\* The handlers see properly nested notifications.
Events == INSTANCE SessionEvents WITH Targets <- Names, active <- sess_on,
                                      loaded <- reported
EventsNested == Events!ESpec

\* insmod and rmmod of a target always get past detector_notifier_call() of the core,
\* which waits for session_mutex.
LoadCompletes ==
    \A n \in Names : kphase[n] \in {"coming", "going"}
                        ~> (kphase[n] \in {"live", "out"} \/ bug)

\* rmmod of a provider always gets past the call with which its exit function takes
\* its handlers, allocator, hooks or plugin back.
RmmodCompletes ==
    \A p \in Providers : pstate[p] = "going" ~> (pstate[p] = "out" \/ bug)

-----------------------------------------------------------------------------
(* The inductive invariant used in KedrCoreProofs *)

\* What the holder of session_mutex knows at each of its steps.
OpShape ==
    /\ op.step = "none" => op = Idle
    /\ op.step # "none" => /\ op.t \in Names /\ ~is_broken
                          /\ corestate \in {"handling", "going"}
    /\ op.step = "providers_get" => op.i < KEDR_PR_NUM_ROLES
    /\ op.step = "plugins_get" => op.rest \subseteq plugins
    /\ op.step \in {"providers_get", "plugins_get"} => num_loaded = 0
    /\ op.step = "session_end" => num_loaded = 1
    /\ Starting => op.t \in known /\ tmod[op.t] # NULL

\* What is so while the core is not ready for targets, or broken.
CoreShape ==
    /\ corestate \notin {"handling", "going"} => num_loaded = 0
    /\ is_broken => num_loaded = 0
    /\ \A p \in Providers : pstate[p] # "out" => corestate = "handling"

\* A module in memory has an address, and an instrumented target a module.
KernelShape == \A n \in Names : kphase[n] # "out" => kmod[n] # NULL
I13nShape == \A n \in Names : ti13n[n] => tmod[n] # NULL

\* A locked module is not being removed.
LockedIsLive ==
    \A m \in Modules, h \in Roles \cup Providers :
        <<m, h>> \in taken => IF m = Core THEN corestate = "handling"
                                         ELSE pstate[m] = "live"

\* The handlers are in a session exactly while everything is locked.
SessOnShape ==
    sess_on <=> \/ op.step \in {"process", "session_end"}
                \/ op.step = "none" /\ session_active

CoreInv == TypeOK /\ OpShape /\ CoreShape /\ KernelShape /\ I13nShape
           /\ NumLoadedIsCount /\ RefBalance /\ LockedIsLive /\ SessOnShape
=============================================================================
