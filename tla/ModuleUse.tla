------------------------------ MODULE ModuleUse ------------------------------
(***************************************************************************)
(* The libraries with processing and export modules: the two loaders with  *)
(* their reference counts, the rules of PacketProcessor and Exporter that  *)
(* use modules, and the timers of modules in the meter's scheduler.  Rules *)
(* are checked, activated and removed, modules are asked about, and files  *)
(* of libraries come and go, in any order.                                 *)
(***************************************************************************)
EXTENDS Integers, SequencesExt, FiniteSetsExt

CONSTANTS
    Names,          \* of modules, as rules and the configuration spell them
    Kind,           \* what a name's library is: "proc", "export" or "none"
    File,           \* a name's library
    WithTimers,     \* names of modules that have timers
    Shapes,         \* rules: [actions, exports], sequences of names
    PreloadLists,   \* values of the configuration's Modules, [Proc, Export]; a
                    \* name that cannot be loaded ends the meter at its start
    RuleIds,
    MaxUnreleased,  \* references that nobody will release (bound)
    Removable,      \* files that may be removed and put back
    Exposed         \* situations, excluded otherwise, that break properties

ASSUME ModuleUseAssumption ==
    /\ Kind \in [Names -> {"proc", "export", "none"}]
    /\ WithTimers \subseteq Names /\ DOMAIN File = Names
    /\ \A s \in Shapes : s.actions \in Seq(Names \cup {"bad parameters"}) /\ s.exports \in Seq(Names)
    /\ \A p \in PreloadLists, l \in {"Proc", "Export"} :
           p[l] \in Seq(Names) /\ \A n \in ToSet(p[l]) : Kind[n] # "none"
    /\ "bad parameters" \notin Names /\ IsFiniteSet(RuleIds)
    /\ Exposed \subseteq {"last user", "other action", "two names"}

VARIABLES
    available,      \* files that can be loaded
    preloaded,      \* names loaded at the start, of each loader
    refs,           \* each loader's modules, by name; 0: not loaded
    ready,          \* libraries whose initModule was the last to be called
    timersActive,   \* export modules whose timers were added
    exportTimers,   \* timer events of export modules, by name
    procTimers,     \* timer events of processing modules: <<rule, action>>
    unreleased,     \* references taken that nobody will release
    known,          \* the rules the meter has
    actions,        \* PacketProcessor's modules of a rule
    mods,           \* Exporter's modules of a rule
    stopped         \* the meter has stopped on an error
loaders == <<refs, ready, timersActive, exportTimers, procTimers, unreleased>>
vars == <<available, preloaded, loaders, known, actions, mods, stopped>>

Loaders == {"Proc", "Export"}
NoRule == [actions |-> <<>>, exports |-> <<>>]
KindOf(l) == IF l = "Proc" THEN "proc" ELSE "export"

\* What a handler works on, and whether it has thrown an Error.
Now == [refs |-> refs, ready |-> ready, active |-> timersActive, et |-> exportTimers,
        pt |-> procTimers, kept |-> unreleased, error |-> FALSE]

Becomes(s) ==
    /\ refs' = s.refs /\ ready' = s.ready /\ timersActive' = s.active
    /\ exportTimers' = s.et /\ procTimers' = s.pt /\ unreleased' = s.kept

-----------------------------------------------------------------------------
(* ModuleLoader *)

\* loadModule: what is there is initialised.
LoadModule(s, l, n) ==
    IF n \in Names /\ Kind[n] # "none" /\ File[n] \in available
    THEN [s EXCEPT !.refs[l][n] = 1, !.ready = @ \cup {File[n]}, !.active = @ \ {n}]
    ELSE [s EXCEPT !.error = TRUE]

\* Mutant of GetModule: one that is loaded is not counted again.
GetModuleUncounted(s, l, n) ==
    IF n \in Names /\ s.refs[l][n] > 0 THEN s ELSE LoadModule(s, l, n)

GetModule(s, l, n) ==
    IF n \in Names /\ s.refs[l][n] > 0 THEN [s EXCEPT !.refs[l][n] = @ + 1]
    ELSE LoadModule(s, l, n)

\* Mutant of ReleaseModule: the module is unloaded at any release.
ReleaseModuleAtOnce(s, l, n) ==
    [s EXCEPT !.refs[l][n] = @ - 1, !.ready = @ \ {File[n]}]

\* The last release destroys the module.
ReleaseModule(s, l, n) ==
    [s EXCEPT !.refs[l][n] = @ - 1,
              !.ready = IF s.refs[l][n] = 1 THEN @ \ {File[n]} ELSE @]

Released(s, l, list) == FoldLeft(LAMBDA acc, n : ReleaseModule(acc, l, n), s, list)

\* The module is of the other loader's kind: it is not used nor released.
Unfit(s, l, n) == [s EXCEPT !.kept[l][n] = @ + 1]

\* The list of names is read up to each blank, and what is left only if there
\* was a blank.
Preloaded(list) == IF Len(list) = 1 THEN {} ELSE ToSet(list)

-----------------------------------------------------------------------------
(* Exporter and PacketProcessor: checkRule loads each module and lets it go; *)
(* an Error ends it.                                                         *)

CheckModule(s, l, n) ==
    LET g == GetModule(s, l, n)
    IN  IF s.error \/ g.error THEN [s EXCEPT !.error = TRUE]
        ELSE IF Kind[n] # KindOf(l) THEN Unfit(g, l, n)
        ELSE ReleaseModule(g, l, n)

\* initFlowRec finds the parameters of the last action invalid.
CheckAction(s, n) ==
    IF n = "bad parameters" THEN [s EXCEPT !.error = TRUE] ELSE CheckModule(s, "Proc", n)

CheckExports(s, rule) == FoldLeft(LAMBDA acc, n : CheckModule(acc, "Export", n), s, rule.exports)

CheckRule(s, rule) == FoldLeft(CheckAction, CheckExports(s, rule), rule.actions)

\* ExportModule::addTimerEvents: once for a loaded module.
AddExportTimers(s, n) ==
    IF n \in s.active THEN s
    ELSE [s EXCEPT !.active = @ \cup {n}, !.et[n] = IF n \in WithTimers THEN @ + 1 ELSE @]

\* w: the loaders, w.list: the modules of the rule so far
AddExport(w, n) ==
    LET g == GetModule(w.s, "Export", n)
    IN  IF w.s.error \/ g.error THEN [w EXCEPT !.s.error = TRUE]
        ELSE IF Kind[n] # "export" THEN [w EXCEPT !.s = Unfit(g, "Export", n)]
        ELSE [w EXCEPT !.s = AddExportTimers(g, n), !.list = Append(@, n)]

\* PacketProcessor::addTimerEvents: numbered by the place in the rule, i
AddAction(w, i, n, r) ==
    LET g == GetModule(w.s, "Proc", n)
    IN  IF w.s.error \/ g.error THEN [w EXCEPT !.s.error = TRUE]
        ELSE IF Kind[n] # "proc" THEN [w EXCEPT !.s = Unfit(g, "Proc", n)]
        ELSE [w EXCEPT !.s = IF n \in WithTimers THEN [g EXCEPT !.pt = @ \cup {<<r, i>>}] ELSE g,
                       !.list = Append(@, n)]

\* An Error lets go what the rule has got so far; its timers stay.
UndoneOnError(w, l) == IF w.s.error THEN [s |-> Released(w.s, l, w.list), list |-> <<>>] ELSE w

AddExports(s, rule) == FoldLeft(AddExport, [s |-> s, list |-> <<>>], rule.exports)

ExporterAddRule(s, rule) == UndoneOnError(AddExports(s, rule), "Export")

AddActions(s, rule, r) ==
    FoldLeft(LAMBDA w, i : AddAction(w, i, rule.actions[i], r), [s |-> s, list |-> <<>>],
             [i \in DOMAIN rule.actions |-> i])

ProcessorAddRule(s, rule, r) ==
    IF s.error THEN [s |-> s, list |-> <<>>] ELSE UndoneOnError(AddActions(s, rule, r), "Proc")

\* Mutant of DelRules: the timers of the rule stay in the scheduler.
DelRulesOnly(s, r) == Released(Released(s, "Proc", actions[r]), "Export", mods[r])

\* delRule of both, and RuleManager::delRule, which clears the rule's events
DelRules(s, r) ==
    [Released(Released(s, "Proc", actions[r]), "Export", mods[r])
        EXCEPT !.pt = {t \in @ : t[1] # r}]

-----------------------------------------------------------------------------
(* Situations in which timers lose their modules or modules their state *)

\* An export module with timers is unloaded with the last rule that uses it.
LastUser(s) == \E n \in timersActive \cap WithTimers : refs["Export"][n] > 0 /\ s.refs["Export"][n] = 0

\* A module of the other kind stands before one with timers.
OtherAction(rule) ==
    \E i, j \in DOMAIN rule.actions :
        i < j /\ rule.actions[i] \in Names /\ Kind[rule.actions[i]] = "export"
              /\ rule.actions[j] \in WithTimers

\* A library is used by two names, or by both loaders.
Named(rule, l) == IF l = "Proc" THEN ToSet(rule.actions) ELSE ToSet(rule.exports)
TwoNames(rule) ==
    LET used == {x \in Loaders \X Names : refs[x[1]][x[2]] > 0 \/ x[2] \in Named(rule, x[1])}
    IN  \E x, y \in used : x # y /\ File[x[2]] = File[y[2]]

Excluded(rule) ==
    \/ OtherAction(rule) /\ "other action" \notin Exposed
    \/ TwoNames(rule) /\ "two names" \notin Exposed

-----------------------------------------------------------------------------
Init ==
    /\ available = {File[n] : n \in Names}
    /\ \E p \in PreloadLists : preloaded = [l \in Loaders |-> Preloaded(p[l])]
    /\ refs = [l \in Loaders |-> [n \in Names |-> IF n \in preloaded[l] THEN 1 ELSE 0]]
    /\ ready = {File[n] : n \in preloaded["Proc"] \cup preloaded["Export"]}
    /\ timersActive = {}
    /\ exportTimers = [n \in Names |-> 0]
    /\ procTimers = {}
    /\ unreleased = [l \in Loaders |-> [n \in Names |-> 0]]
    /\ known = [r \in RuleIds |-> NoRule]
    /\ actions = [r \in RuleIds |-> <<>>]
    /\ mods = [r \in RuleIds |-> <<>>]
    /\ stopped = FALSE

Bounded(s) ==
    MapThenSumSet(LAMBDA x : s.kept[x[1]][x[2]], Loaders \X Names) <= MaxUnreleased

\* A request, or the file of rules, adds a rule if it passes the checks.
AddRule(r, rule) ==
    /\ ~stopped /\ known[r] = NoRule /\ ~Excluded(rule)
    /\ LET s == CheckRule(Now, rule)
       IN  /\ Bounded(s)
           /\ Becomes(s)
           /\ known' = IF s.error THEN known ELSE [known EXCEPT ![r] = rule]
    /\ UNCHANGED <<available, preloaded, actions, mods, stopped>>

\* The rule's time has come; an Error now ends the meter.
ActivateRule(r) ==
    /\ ~stopped /\ known[r] # NoRule /\ actions[r] \o mods[r] = <<>>
    /\ ~Excluded(known[r])
    /\ LET x == ExporterAddRule(Now, known[r])
           p == ProcessorAddRule(x.s, known[r], r)
       IN  /\ Bounded(p.s)
           /\ Becomes(p.s)
           /\ mods' = [mods EXCEPT ![r] = x.list]
           /\ actions' = [actions EXCEPT ![r] = p.list]
           /\ stopped' = p.s.error
    /\ UNCHANGED <<available, preloaded, known>>

\* A rule is removed, by request or when its time is over.
RemoveRule(r) ==
    /\ ~stopped /\ known[r] # NoRule
    /\ LET s == DelRules(Now, r)
       IN  /\ "last user" \notin Exposed => ~LastUser(s)
           /\ Becomes(s)
    /\ known' = [known EXCEPT ![r] = NoRule]
    /\ actions' = [actions EXCEPT ![r] = <<>>]
    /\ mods' = [mods EXCEPT ![r] = <<>>]
    /\ UNCHANGED <<available, preloaded, stopped>>

\* A request for a module's description takes a reference and keeps it.
GetModuleInfo(n) ==
    /\ ~stopped /\ ~Excluded([actions |-> <<n>>, exports |-> <<>>])
    /\ LET g == GetModule(Now, "Proc", n)
       IN  /\ ~g.error /\ Bounded(g)
           /\ Becomes(Unfit(g, "Proc", n))
    /\ UNCHANGED <<available, preloaded, known, actions, mods, stopped>>

\* Somebody removes a library's file, or puts it back.
ChangeFile(f) ==
    /\ ~stopped
    /\ available' = IF f \in available THEN available \ {f} ELSE available \cup {f}
    /\ UNCHANGED <<preloaded, loaders, known, actions, mods, stopped>>

Next == \/ \E r \in RuleIds : \/ \E rule \in Shapes : AddRule(r, rule)
                              \/ ActivateRule(r)
                              \/ RemoveRule(r)
        \/ \E n \in Names : GetModuleInfo(n)
        \/ \E f \in Removable : ChangeFile(f)

Spec == Init /\ [][Next]_vars

-----------------------------------------------------------------------------
\* Where the names in N stand among a loader's modules of the rules: <<rule, place>>
Places(l, N) ==
    LET lists == IF l = "Proc" THEN actions ELSE mods
    IN  UNION {{<<r, i>> : i \in {j \in DOMAIN lists[r] : lists[r][j] \in N}} : r \in RuleIds}

Uses(l, n) == Cardinality(Places(l, {n}))

\* A module is loaded as long as a rule uses it, whichever rules failed to be
\* added, half way or later, and no longer: its references are its uses by
\* rules, the one for having been preloaded, and those that requests for its
\* description, and rules that name it in the wrong place, never give back.
ReferencesAreUses ==
    \A l \in Loaders, n \in Names :
        refs[l][n] = Uses(l, n) + unreleased[l][n] + IF n \in preloaded[l] THEN 1 ELSE 0

\* A module that is used has been initialised, and has not been destroyed
\* since, by another rule's check or removal.
ModulesReady ==
    \A l \in Loaders, n \in Names : refs[l][n] > 0 => File[n] \in ready

\* Each timer in the scheduler is one of a module in use, at the place in the
\* rule's modules where PacketProcessor::timeout looks for it, or of a loaded
\* export module, and each timer of such a module is there once.
TimersHaveModules ==
    ~stopped =>
        /\ procTimers = Places("Proc", WithTimers)
        /\ \A n \in WithTimers : exportTimers[n] = IF Uses("Export", n) = 0 /\ n \notin timersActive THEN 0 ELSE 1
        /\ \A n \in Names : exportTimers[n] > 0 => refs["Export"][n] > 0
=============================================================================
