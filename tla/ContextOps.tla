----------------------------- MODULE ContextOps ----------------------------
(***************************************************************************)
(* agentheim/context_ops_impl.py and agentheim/vendor/aictx: the generated *)
(* context of a repository, its lock file, and the check that says whether *)
(* it is current.                                                          *)
(*                                                                         *)
(* Operations of the command line, the two servers and the workflows may   *)
(* overlap; each is a chain of steps on the files they share: the sources, *)
(* which somebody edits meanwhile, the context, the lock, and the run      *)
(* directories where a run stages what it generates.  Of the generated     *)
(* files two are kept: the architecture, which states a fact of every      *)
(* source that was selected, and the code map, which lists them; a run of  *)
(* scope "changed" renders the second always and the first only if it has  *)
(* facts.  The content of a source is the number of the edit that wrote it *)
(* (0: there is no such file), and stands for its hash.                    *)
(***************************************************************************)
EXTENDS Integers, FiniteSets, Functions

CONSTANTS
    ContextCalls,     \* calls of the operations
    SourceFiles,      \* source files, all with a suffix facts are taken from
    ContextRequests,  \* bound: what each call may be, and with which options
    NameOrder,        \* place of every run directory in the order of names
    InitialSources,   \* bound: the sources at the start
    MaxEdits,         \* bound: how often a source is written or removed
    Missing,          \* no such file or directory
    Torn              \* a lock file cut short

RunDirs == DOMAIN NameOrder
GeneratedFiles == {"architecture", "code_map"}
ContextFiles == GeneratedFiles \cup {"lock"}

ContextFacts == [file : SourceFiles, stubbed : BOOLEAN]

SourceHashes == [SourceFiles -> Nat]

GeneratedTrees ==
    [architecture : {Missing} \cup SUBSET ContextFacts,
     code_map : {Missing} \cup SUBSET SourceFiles]

ContextLocks ==
    [sources : SourceHashes,
     sections : SUBSET [file : SourceFiles, stubbed : BOOLEAN, hash : Nat],
     generated : GeneratedTrees]

\* The files of a context, in the repository or staged.
ContextTrees ==
    [architecture : {Missing} \cup SUBSET ContextFacts,
     code_map : {Missing} \cup SUBSET SourceFiles,
     lock : {Missing, Torn} \cup ContextLocks]

\* The preflight of a workflow applies what it generates.
ASSUME ContextAssumption ==
    /\ NameOrder \in [RunDirs -> Nat]
    /\ MaxEdits \in Nat
    /\ InitialSources \subseteq [SourceFiles -> 0..1]
    /\ \A c \in ContextCalls : ContextRequests[c] \subseteq
         {r \in [op : {"init", "run", "preflight", "clean"}, scope : {"full", "changed"},
                 write : {"patch", "apply"}, dirty : BOOLEAN, dir : RunDirs, keep : Nat] :
            r.op = "preflight" => r.write = "apply"}
    /\ \A facts \in SUBSET ContextFacts : facts # Missing
    /\ \A files \in SUBSET SourceFiles : files # Missing
    /\ Missing # Torn /\ Missing \notin ContextTrees
    /\ Missing \notin ContextLocks /\ Torn \notin ContextLocks

VARIABLES
    content,   \* the sources
    edits,     \* how many edits there were
    context,   \* the context files and the lock, in the repository
    staged,    \* the out directory of every run directory
    ctx,       \* the calls: where they are and what they have read
    alone,     \* history: calls that nobody has disturbed since they began
    doubt      \* history: what has been done that may deceive the check

contextVars == <<content, edits, context, staged, ctx, alone, doubt>>

Existing(sources) == {f \in SourceFiles : sources[f] # 0}

\* The fact _extract_fact_packs states of a source; a source that cannot be
\* read does not look stubbed.
Fact(f) == [file |-> f, stubbed |-> content[f] # 0 /\ content[f] % 2 = 0]

NothingGenerated == [g \in GeneratedFiles |-> Missing]

----------------------------------------------------------------------------
(* The check: verify_detailed.                                             *)

Readable == context.lock \notin {Missing, Torn}

SourcesCurrent ==
    \A f \in Existing(context.lock.sources) : content[f] = context.lock.sources[f]

GeneratedAsLocked ==
    \A g \in GeneratedFiles :
        context.lock.generated[g] \in {Missing, context[g]}

SectionsCurrent ==
    \A s \in context.lock.sections :
        /\ context.lock.generated # NothingGenerated
        /\ context.lock.sources[s.file] = s.hash

Passes(strict) ==
    /\ Readable /\ SourcesCurrent /\ GeneratedAsLocked
    /\ strict => SectionsCurrent

----------------------------------------------------------------------------
(* Steps of the calls.                                                     *)

Asked(c) == ctx[c].request

MoveTo(c, place) == ctx' = [ctx EXCEPT ![c].at = place]

CallAt(place, r, facts) ==
    [at |-> place, request |-> r, facts |-> facts,
     seen |-> Missing, locked |-> Missing, todo |-> {}]

\* The call is over, or is back in the workflow that made it.
Leave(c, place) == ctx' = [ctx EXCEPT ![c] = CallAt(place, Asked(c), {})]

\* Others have changed a file that c has read or written.
Disturbs(c) == alone' = alone \cap {c}

(* _preflight_context, _build_context_pack and _resolve_context_pack: a    *)
(* workflow regenerates the context when the check fails.                  *)
CheckStatus(c) ==
    /\ ctx[c].at = "preflight"
    /\ MoveTo(c, IF context.lock = Torn THEN "failed"
                 ELSE IF Passes(FALSE) THEN "shards"
                 ELSE "run")
    /\ alone' = alone \cup {c}
    /\ UNCHANGED <<content, edits, context, staged, doubt>>

\* It raises when there is no context; seen is what the workflow is given.
LoadShards(c) ==
    /\ ctx[c].at = "shards"
    /\ IF \A g \in GeneratedFiles : context[g] = Missing
       THEN Leave(c, "failed")
       ELSE ctx' = [ctx EXCEPT ![c] = CallAt("done", Asked(c), context.architecture)]
    /\ UNCHANGED <<content, edits, context, staged, alone, doubt>>

(* run_local_context_pipeline.                                             *)

ScanRepository(c) ==
    /\ ctx[c].at \in {"init", "run"}
    /\ ctx' = [ctx EXCEPT ![c].at = IF @ = "init" THEN "load" ELSE "plan",
                          ![c].seen = content]
    /\ alone' = alone \cup (IF Asked(c).op = "preflight" THEN {} ELSE {c})
    /\ UNCHANGED <<content, edits, context, staged, doubt>>

\* load_lockfile; a lock that does not parse raises.
PlanContext(c) ==
    /\ ctx[c].at = "plan"
    /\ IF context.lock = Torn
       THEN Leave(c, "failed")
       ELSE ctx' = [ctx EXCEPT ![c].at = "extract", ![c].locked = context.lock]
    /\ UNCHANGED <<content, edits, context, staged, alone, doubt>>

\* _ensure_apply_dirty_state_allowed: what git says is not modelled.
RefuseDirty(c) ==
    /\ ctx[c].at = "extract"
    /\ Asked(c).write = "apply" /\ ~Asked(c).dirty
    /\ Leave(c, "failed")
    /\ UNCHANGED <<content, edits, context, staged, alone, doubt>>

\* determine_changed_source_paths, sources that are gone included.
ChangedSources(call) ==
    IF call.locked = Missing THEN Existing(call.seen)
    ELSE {f \in SourceFiles : call.seen[f] # call.locked.sources[f]}

SelectedSources(call) ==
    IF call.request.scope = "full" THEN Existing(call.seen)
    ELSE ChangedSources(call) \cap Existing(call.seen)

\* extract_facts reads the sources again.
ExtractFacts(c) ==
    /\ ctx[c].at = "extract"
    /\ ctx' = [ctx EXCEPT ![c].at = "stage",
                          ![c].facts = {Fact(f) : f \in SelectedSources(ctx[c])}]
    /\ UNCHANGED <<content, edits, context, staged, alone, doubt>>

\* Only what changed is updated, on top of the lock the run has loaded.
Incremental(call) == call.request.scope = "changed" /\ call.locked # Missing

\* _changed_scope_refresh_paths.
Refreshed(call) ==
    IF Incremental(call) /\ call.facts = {} THEN {"code_map"} ELSE GeneratedFiles

Rendered(call) == [architecture |-> call.facts, code_map |-> SelectedSources(call)]

\* The run still needs the files it has staged.
Staging(call) == call.at = "lock" \/ (call.at = "apply" /\ call.todo # {})

StageContext(c) ==
    /\ ctx[c].at = "stage"
    /\ LET call == ctx[c]
           d == call.request.dir
           left == IF staged[d] = Missing THEN Missing ELSE staged[d].lock
           File(g) == IF g \in Refreshed(call) \/ context[g] = Missing
                      THEN Rendered(call)[g] ELSE context[g]
           stale == {g \in GeneratedFiles \ Refreshed(call) :
                       context[g] \notin {Missing, call.locked.generated[g]}}
       IN /\ staged' = [staged EXCEPT ![d] =
                [f \in ContextFiles |-> IF f = "lock" THEN left ELSE File(f)]]
          /\ doubt' = doubt
               \cup (IF stale # {} THEN {"kept"} ELSE {})
               \cup (IF \E o \in ContextCalls \ {c} : Staging(ctx[o]) /\ Asked(o).dir = d
                     THEN {"shared"} ELSE {})
    /\ MoveTo(c, "lock")
    /\ alone' = {o \in alone : o = c \/ Asked(o).dir # Asked(c).dir}
    /\ UNCHANGED <<content, edits, context>>

\* build_context_lock and _merge_changed_scope_sections.
SectionsOf(call) ==
    LET new == {[file |-> x.file, stubbed |-> x.stubbed, hash |-> call.seen[x.file]] :
                   x \in call.facts}
        Keeps(s) == s.file \notin ChangedSources(call) /\ s.hash = call.seen[s.file]
    IN CASE ~Incremental(call) -> new
         [] Incremental(call) /\ ChangedSources(call) = {} -> call.locked.sections
         [] OTHER -> new \cup {s \in call.locked.sections : Keeps(s)}

\* Mutants: the sources are hashed again when the lock is made; a lock that
\* is updated keeps the hashes it had.
HashedAgain(c) == content

HashedBefore(c) ==
    IF ctx[c].locked = Missing THEN ctx[c].seen ELSE ctx[c].locked.sources

LockedSources(c) == ctx[c].seen

StageLock(c) ==
    /\ ctx[c].at = "lock"
    /\ LET d == Asked(c).dir
           made == [sources |-> LockedSources(c), sections |-> SectionsOf(ctx[c]),
                    generated |-> [g \in GeneratedFiles |-> staged[d][g]]]
       IN IF staged[d] = Missing
          THEN Leave(c, "failed") /\ UNCHANGED <<staged, alone>>
          ELSE /\ staged' = [staged EXCEPT ![d].lock = made]
               /\ ctx' = [ctx EXCEPT ![c].at = "apply",
                    ![c].todo = IF Asked(c).write = "apply" THEN ContextFiles ELSE {}]
               /\ alone' = {o \in alone : o = c \/ Asked(o).dir # d}
    /\ UNCHANGED <<content, edits, context, doubt>>

\* _apply_out_dir, file by file in the order the directory is walked; what
\* is no longer there is passed over.
ApplyFile(c) ==
    /\ ctx[c].at = "apply"
    /\ \E f \in ctx[c].todo :
         /\ ctx' = [ctx EXCEPT ![c].todo = @ \ {f}]
         /\ LET d == Asked(c).dir
            IN context' = IF staged[d] # Missing /\ staged[d][f] # Missing
                          THEN [context EXCEPT ![f] = staged[d][f]] ELSE context
    /\ Disturbs(c)
    /\ doubt' = doubt \cup (IF Incremental(ctx[c]) THEN {"changed"} ELSE {})
    /\ UNCHANGED <<content, edits, staged>>

RunEndsWell(c) ==
    /\ ctx[c].at = "apply" /\ ctx[c].todo = {}
    /\ Leave(c, IF Asked(c).op = "preflight" THEN "shards" ELSE "done")
    /\ UNCHANGED <<content, edits, context, staged, alone, doubt>>

(* init: the lock is rewritten in place.                                   *)

InitLoadsLock(c) ==
    /\ ctx[c].at = "load"
    /\ IF context.lock = Torn
       THEN Leave(c, "failed")
       ELSE ctx' = [ctx EXCEPT ![c].at = "truncate", ![c].locked = context.lock]
    /\ UNCHANGED <<content, edits, context, staged, alone, doubt>>

TruncateLock(c) ==
    /\ ctx[c].at = "truncate"
    /\ context' = [context EXCEPT !.lock = Torn]
    /\ MoveTo(c, "fill")
    /\ Disturbs(c)
    /\ UNCHANGED <<content, edits, staged, doubt>>

\* The new hashes, with what the lock said of the generated files before.
FillLock(c) ==
    /\ ctx[c].at = "fill"
    /\ LET old == ctx[c].locked
           kept == old # Missing /\ old.generated # NothingGenerated
       IN context' = [context EXCEPT !.lock =
              [sources |-> ctx[c].seen,
               sections |-> IF kept THEN old.sections ELSE {},
               generated |-> IF kept THEN old.generated ELSE NothingGenerated]]
    /\ Leave(c, "done")
    /\ Disturbs(c)
    /\ doubt' = doubt \cup {"init"}
    /\ UNCHANGED <<content, edits, staged>>

\* clean: all run directories but the last ones in the order of their names.
CleanRuns(c) ==
    /\ ctx[c].at = "clean"
    /\ LET dirs == {d \in RunDirs : staged[d] # Missing}
           After(d) == {e \in dirs : NameOrder[e] > NameOrder[d]}
           removed == {d \in dirs : Cardinality(After(d)) >= Asked(c).keep}
       IN /\ staged' = [d \in RunDirs |-> IF d \in removed THEN Missing ELSE staged[d]]
          /\ alone' = {o \in alone : o = c \/ Asked(o).dir \notin removed}
    /\ Leave(c, "done")
    /\ UNCHANGED <<content, edits, context, doubt>>

\* Somebody writes or removes a source.
EditSource ==
    /\ edits < MaxEdits
    /\ \E f \in SourceFiles : \E v \in {edits + 2, 0} :
         /\ content[f] # v
         /\ content' = [content EXCEPT ![f] = v]
    /\ edits' = edits + 1
    /\ alone' = {}
    /\ UNCHANGED <<context, staged, ctx, doubt>>

----------------------------------------------------------------------------

NoContext == [architecture |-> Missing, code_map |-> Missing, lock |-> Missing]

\* What a full run leaves.
FullContext ==
    LET facts == {Fact(f) : f \in Existing(content)}
        files == [architecture |-> facts, code_map |-> Existing(content)]
    IN [architecture |-> facts, code_map |-> Existing(content),
        lock |-> [sources |-> content, generated |-> files,
                  sections |-> {[file |-> x.file, stubbed |-> x.stubbed,
                                 hash |-> content[x.file]] : x \in facts}]]

ContextInit ==
    /\ content \in InitialSources
    /\ edits = 0
    /\ context \in {NoContext, FullContext}
    /\ staged = [d \in RunDirs |-> Missing]
    /\ \E asked \in [ContextCalls -> UNION Range(ContextRequests)] :
         /\ \A c \in ContextCalls : asked[c] \in ContextRequests[c]
         /\ ctx = [c \in ContextCalls |-> CallAt(asked[c].op, asked[c], {})]
    /\ alone = {}
    /\ doubt = {}

ContextStep(c) ==
    \/ CheckStatus(c) \/ LoadShards(c)
    \/ ScanRepository(c) \/ PlanContext(c) \/ RefuseDirty(c) \/ ExtractFacts(c)
    \/ StageContext(c) \/ StageLock(c) \/ ApplyFile(c) \/ RunEndsWell(c)
    \/ InitLoadsLock(c) \/ TruncateLock(c) \/ FillLock(c)
    \/ CleanRuns(c)

ContextNext == EditSource \/ \E c \in ContextCalls : ContextStep(c)

ContextSpec == ContextInit /\ [][ContextNext]_contextVars

----------------------------------------------------------------------------
(* Properties.                                                             *)

\* No call is in the middle of its writes; one that was cut off there takes
\* no further step, and is in the middle for ever.
NobodyWrites ==
    \A c \in ContextCalls :
        ctx[c].at # "fill" /\ (ctx[c].at = "apply" => ctx[c].todo \in {{}, ContextFiles})

Described == Readable /\ context.lock.generated # NothingGenerated

Holds(x) == content[x.file] # 0 /\ x = Fact(x.file)

\* What `ctx verify` and the preflights of the workflows conclude from a check
\* that passes, for a context nobody is writing:
\*  - if full runs alone have written it, it states exactly the facts of the
\*    sources that the lock lists, whatever was edited while they ran;
\*  - if init has taken over a lock, a strict check still proves that nothing
\*    it states is false;
\*  - if runs of scope "changed" have written it, what it states of the
\*    sources the lock lists is true.
\* Doubt names what is excluded: runs staged in one directory at a time, and
\* a run that kept a file which was not the one its lock describes.
PassCanBeTrusted ==
    NobodyWrites =>
    /\ Passes(FALSE) /\ doubt = {} =>
         context.architecture = {Fact(f) : f \in Existing(context.lock.sources)}
    /\ Described /\ Passes(TRUE) /\ doubt \subseteq {"init"} =>
         \A x \in context.architecture : Holds(x)
    /\ Passes(FALSE) /\ doubt \subseteq {"changed"} =>
         \A x \in context.architecture :
             context.lock.sources[x.file] # 0 => Holds(x)

\* A run that applies what it generated, of either scope and from any lock,
\* leaves a context that passes the check, if nobody disturbed it: the
\* preflight of the next workflow does not run it again.
RunMakesItPass ==
    \A c \in alone :
        /\ ctx[c].at = "done" /\ Asked(c).op \in {"run", "preflight"}
        /\ Asked(c).write = "apply"
        => Passes(FALSE)

\* What the preflight of a workflow hands to it is true of every source that
\* the lock lists, if nobody has disturbed it since it asked and no doubt is
\* left but that of "changed" runs.  (Of a source that was removed it may
\* still state facts, also when there is one of that name again: such a run
\* keeps the architecture as it is, and the check looks at what the lock lists.)
ShardsAreTrue ==
    \A c \in alone :
        /\ ctx[c].at = "done" /\ Asked(c).op = "preflight"
        /\ ctx[c].facts # Missing /\ doubt \subseteq {"changed"}
        => \A x \in ctx[c].facts : context.lock.sources[x.file] # 0 => Holds(x)

\* The next preflight relies on all three.
ContextCanBeTrusted == PassCanBeTrusted /\ RunMakesItPass /\ ShardsAreTrue
=============================================================================
