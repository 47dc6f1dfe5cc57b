-------------------------- MODULE ProviderProfiles -------------------------
(***************************************************************************)
(* The provider profiles: providers.json and the secret store of           *)
(* config/config.py, the commands of interfaces/cli/provider_commands.py,  *)
(* `agentheim setup` of interfaces/cli/product_commands.py, the provider   *)
(* endpoints of interfaces/api_server/app.py, and the readiness check of   *)
(* interfaces/readiness.py.                                                *)
(*                                                                         *)
(* Every change reads the whole document, changes its copy, changes the    *)
(* secret store and writes the whole document back, without a lock.  The   *)
(* secret of a provider is stored under the id of the provider, whatever   *)
(* its profile.  The store is the keychain of the system; endpoints are    *)
(* real and models answer.                                                 *)
(***************************************************************************)
EXTENDS Naturals, FiniteSets

CONSTANTS
    Profiles,        \* names of profiles, numbered in the order of sorted()
    DefaultProfile,  \* the name "default"
    ProviderIds,
    Changes,         \* the changes that commands and endpoints ask for
    Writers,         \* processes and request threads that carry them out
    MaxChanges       \* bound: changes in a behaviour

Roles == {"planner", "executor", "verifier"}

Operations == {"add", "setup", "assign", "assign-all", "update", "rotate",
               "remove", "delete", "use"}

Change(op, profile, provider, roles, auth, key) ==
    [op |-> op, profile |-> profile, provider |-> provider, roles |-> roles,
     auth |-> auth, key |-> key, valid |-> TRUE]

\* auth: whether the mode needs a secret; key: what --api-key or the prompt gave;
\* valid: --auth-mode is one of AuthMode and --endpoint is not empty.
ChangeType ==
    [op : Operations, profile : Profiles, provider : ProviderIds,
     roles : SUBSET Roles, auth : {"secret", "none"},
     key : {"given", "empty", "missing"}, valid : BOOLEAN]

ASSUME ProfilesAssumption ==
    /\ Profiles \subseteq Nat /\ IsFiniteSet(Profiles)
    /\ \A names \in SUBSET Profiles :  \* sorted(names)[0] exists
         names # {} => \E p \in names : \A q \in names : p <= q
    /\ DefaultProfile \in Profiles
    /\ IsFiniteSet(ProviderIds) /\ ProviderIds # {}
    /\ Changes \subseteq ChangeType
    /\ MaxChanges \in Nat

VARIABLES
    file,       \* providers.json
    secrets,    \* the ids whose secret is in the store
    writer,     \* the changes under way: [at, change, copy, put, drop]
    begun,      \* changes begun so far
    disturbed,  \* history: changes overlapped, or one was cut off
    settled,    \* history: <<profile, provider>> added and not removed
    exempt      \* history: ids set up without a key or in several profiles

profileVars == <<file, secrets, writer, begun, disturbed, settled, exempt>>

----------------------------------------------------------------------------
(* The document.                                                           *)

Assigned(f, keys, value) ==
    [k \in DOMAIN f \cup keys |-> IF k \in keys THEN value ELSE f[k]]

Without(f, keys) == [k \in DOMAIN f \ keys |-> f[k]]

\* ref: secret_ref is set, to the reference that make_secret_ref makes of the id.
\* valid: ProviderAccount accepts it.
Account(auth, ref) == [auth |-> auth, ref |-> ref, valid |-> TRUE]

NewProfile == [providers |-> [i \in {} |-> Account("none", FALSE)],
               models |-> [r \in {} |-> r]]

NewDocument == [default |-> DefaultProfile, profiles |-> [p \in {} |-> NewProfile]]

ProfileIn(doc, p) == IF p \in DOMAIN doc.profiles THEN doc.profiles[p] ELSE NewProfile

Replaced(doc, p, profile) == [doc EXCEPT !.profiles = Assigned(@, {p}, profile)]

WithAccount(profile, id, account) ==
    [profile EXCEPT !.providers = Assigned(@, {id}, account)]

WithRoles(profile, roles, id) == [profile EXCEPT !.models = Assigned(@, roles, id)]

----------------------------------------------------------------------------
(* The changes, and the secrets each of them stores and deletes.           *)

\* Adding a provider or setting it up binds its roles and makes its profile
\* the default.
Added(doc, c) ==
    [Replaced(doc, c.profile,
        WithRoles(WithAccount(ProfileIn(doc, c.profile), c.provider,
                              Account(c.auth, c.auth = "secret")),
                  c.roles, c.provider))
     EXCEPT !.default = c.profile]

RolesAssigned(doc, c) ==
    Replaced(doc, c.profile, WithRoles(doc.profiles[c.profile], c.roles, c.provider))

AllAssigned(doc, c) ==
    Replaced(doc, c.profile,
        WithRoles(doc.profiles[c.profile], DOMAIN doc.profiles[c.profile].models, c.provider))

\* The accounts that ProviderAccount does not accept.
Spoilt(doc) ==
    {account \in Profiles \X ProviderIds :
       LET providers == ProfileIn(doc, account[1]).providers
       IN  account[2] \in DOMAIN providers /\ ~providers[account[2]].valid}

CoherentProfile(profile) ==
    \A r \in DOMAIN profile.models : profile.models[r] \in DOMAIN profile.providers

\* ProfilesDocument accepts the document: what load_profiles_document asks.
Loads(doc) ==
    /\ \A p \in DOMAIN doc.profiles : CoherentProfile(doc.profiles[p])
    /\ Spoilt(doc) = {}

\* Does provider update clear the secret?
Clears(c) == c.auth = "none" \/ c.key = "empty"

\* model_copy copies what it is given and validates nothing.
Updated(doc, c) ==
    LET profile == doc.profiles[c.profile]
        ref == ~Clears(c) /\ (c.key = "given" \/ profile.providers[c.provider].ref)
    IN  Replaced(doc, c.profile,
          WithAccount(profile, c.provider, [auth |-> c.auth, ref |-> ref, valid |-> c.valid]))

Rotated(doc, c) ==
    Replaced(doc, c.profile,
        WithAccount(doc.profiles[c.profile], c.provider, Account("secret", TRUE)))

\* Mutant: the roles stay bound to the provider that goes.
KeepsRoles(doc, c) ==
    LET profile == doc.profiles[c.profile] IN
    Replaced(doc, c.profile,
        [profile EXCEPT !.providers = Without(@, {c.provider})])

Removed(doc, c) ==
    LET profile == doc.profiles[c.profile] IN
    Replaced(doc, c.profile,
        [providers |-> Without(profile.providers, {c.provider}),
         models |-> Without(profile.models,
                        {r \in DOMAIN profile.models : profile.models[r] = c.provider})])

\* sorted(document.profiles)[0], or "default".
NextDefault(names) ==
    IF names = {} THEN DefaultProfile ELSE CHOOSE p \in names : \A q \in names : p <= q

Deleted(doc, c) ==
    LET left == Without(doc.profiles, {c.profile}) IN
    [default |-> IF doc.default = c.profile THEN NextDefault(DOMAIN left) ELSE doc.default,
     profiles |-> left]

Changed(doc, c) ==
    CASE c.op \in {"add", "setup"} -> Added(doc, c)
      [] c.op = "assign" -> RolesAssigned(doc, c)
      [] c.op = "assign-all" -> AllAssigned(doc, c)
      [] c.op = "update" -> Updated(doc, c)
      [] c.op = "rotate" -> Rotated(doc, c)
      [] c.op = "remove" -> Removed(doc, c)
      [] c.op = "delete" -> Deleted(doc, c)
      [] OTHER -> [doc EXCEPT !.default = c.profile]

Creates(c) == c.op \in {"add", "setup"}

\* What a command or endpoint refuses before it changes anything.  Of all that
\* is given an account only `provider update` does not have it validated; only
\* `agentheim setup --yes` goes on without the key it needs; --force is given
\* when a profile with providers is deleted.
Allowed(doc, c) ==
    /\ c.valid \/ c.op = "update"
    /\ c.op = "add" /\ c.auth = "secret" => c.key = "given"
    /\ ~Creates(c) => c.profile \in DOMAIN doc.profiles
    /\ c.op \in {"assign", "assign-all", "update", "rotate", "remove"} =>
         c.provider \in DOMAIN doc.profiles[c.profile].providers
    /\ c.op = "assign-all" => DOMAIN doc.profiles[c.profile].models # {}
    /\ c.op = "rotate" => doc.profiles[c.profile].providers[c.provider].auth = "secret"

Stores(c) ==
    IF c.op = "rotate" \/ (c.op \in {"add", "setup", "update"} /\ c.auth = "secret" /\ c.key = "given")
    THEN {c.provider} ELSE {}

Discards(doc, c) ==
    LET accounts == ProfileIn(doc, c.profile).providers
        going == CASE c.op = "delete" -> DOMAIN accounts
                   [] c.op = "remove" \/ (c.op = "update" /\ Clears(c)) -> {c.provider}
                   [] OTHER -> {}
    IN  {i \in going : accounts[i].ref}

----------------------------------------------------------------------------
(* Carrying out a change.                                                  *)

Contents(is, doc) == [is |-> is, doc |-> doc]

Readable == file.is = "document" /\ Loads(file.doc)

Idle == [at |-> "idle", copy |-> NewDocument, put |-> {}, drop |-> {}, change |-> {}]

Active == {w \in Writers : writer[w] # Idle}

\* Mutant: what adds a provider starts from a new document.
FreshFor(c) == IF Creates(c) THEN NewDocument ELSE file.doc

\* A document that does not load is replaced by a new one when a provider is
\* added or set up, and what was settled is forgotten.
LoadedFor(c) == IF Readable THEN file.doc ELSE NewDocument

Load(w, c) ==
    LET doc == LoadedFor(c) IN
    /\ writer[w] = Idle /\ begun < MaxChanges
    /\ Readable \/ Creates(c)
    /\ Allowed(doc, c)
    /\ writer' = [writer EXCEPT ![w] =
         [at |-> "secrets", copy |-> Changed(doc, c), put |-> Stores(c),
          drop |-> Discards(doc, c), change |-> {c}]]
    /\ begun' = begun + 1
    /\ disturbed' = (disturbed \/ Active # {})
    /\ settled' = IF Readable THEN settled ELSE {}
    /\ UNCHANGED <<file, secrets, exempt>>

StoreSecret(w) ==
    /\ writer[w].put # {}
    /\ secrets' = secrets \cup writer[w].put
    /\ writer' = [writer EXCEPT ![w].put = {}]
    /\ UNCHANGED <<file, begun, disturbed, settled, exempt>>

\* KeyringSecretStore.delete ignores a secret that is not there.
DeleteSecret(w, id) ==
    /\ id \in writer[w].drop
    /\ secrets' = secrets \ {id}
    /\ writer' = [writer EXCEPT ![w].drop = @ \ {id}]
    /\ UNCHANGED <<file, begun, disturbed, settled, exempt>>

\* write_text opens the file, which empties it, ...
Truncate(w) ==
    /\ writer[w].at = "secrets" /\ writer[w].put = {} /\ writer[w].drop = {}
    /\ file' = Contents("empty", NewDocument)
    /\ writer' = [writer EXCEPT ![w].at = "write"]
    /\ UNCHANGED <<secrets, begun, disturbed, settled, exempt>>

Shared(doc) ==
    {i \in ProviderIds :
       \E p, q \in DOMAIN doc.profiles :
         p # q /\ i \in DOMAIN doc.profiles[p].providers \cap DOMAIN doc.profiles[q].providers}

\* What is settled after change c, if these pairs were before it.
SettledAfter(pairs, c) ==
    CASE Creates(c) -> pairs \cup {<<c.profile, c.provider>>}
      [] c.op = "remove" -> pairs \ {<<c.profile, c.provider>>}
      [] c.op = "delete" -> pairs \ ({c.profile} \X ProviderIds)
      [] OTHER -> pairs

\* ... and writes the text.  Over what another writer wrote since then, the end
\* of the longer text remains.
WriteDocument(w) ==
    /\ writer[w].at = "write"
    /\ file' \in {Contents("document", writer[w].copy)}
                   \cup (IF file.is = "empty" THEN {} ELSE {Contents("torn", NewDocument)})
    /\ \E c \in writer[w].change :
         /\ settled' = SettledAfter(settled, c)
         /\ exempt' = exempt \cup Shared(writer[w].copy) \cup
              (IF c.op = "setup" /\ c.auth = "secret" /\ c.key # "given"
               THEN {c.provider} ELSE {})
    /\ writer' = [writer EXCEPT ![w] = Idle]
    /\ UNCHANGED <<secrets, begun, disturbed>>

\* The process is killed, or the secret store or the disk raises.
CutOff(w) ==
    /\ writer[w] # Idle
    /\ writer' = [writer EXCEPT ![w] = Idle]
    /\ disturbed' = TRUE
    /\ UNCHANGED <<file, secrets, begun, settled, exempt>>

ProfilesInit ==
    /\ file = Contents("missing", NewDocument)
    /\ secrets = {}
    /\ writer = [w \in Writers |-> Idle]
    /\ begun = 0
    /\ disturbed = FALSE
    /\ settled = {} /\ exempt = {}

ProfilesNext ==
    \E w \in Writers :
      \/ \E c \in Changes : Load(w, c)
      \/ StoreSecret(w)
      \/ \E id \in ProviderIds : DeleteSecret(w, id)
      \/ Truncate(w) \/ WriteDocument(w) \/ CutOff(w)

ProfilesSpec == ProfilesInit /\ [][ProfilesNext]_profileVars

----------------------------------------------------------------------------
(* Using a profile, and the readiness check.                               *)

\* TeamConfig.resolve_role finds a binding, and the secret it needs.
Resolves(doc, p, role) ==
    LET profile == ProfileIn(doc, p)
        id == profile.models[role]
    IN  /\ role \in DOMAIN profile.models
        /\ profile.providers[id].auth = "secret" =>
             profile.providers[id].ref /\ id \in secrets

\* Mutant: a profile with a planner has all roles it needs.
PlannerMissing(profile) == {"planner"} \ DOMAIN profile.models

MissingRoles(profile) == Roles \ DOMAIN profile.models

MissingSecrets(profile) ==
    {i \in DOMAIN profile.providers :
       profile.providers[i].auth = "secret" /\ ~profile.providers[i].ref}

\* _compute_overall_status, after the checks of build_readiness_state.
Readiness(doc, p) ==
    LET profile == ProfileIn(doc, p) IN
    CASE DOMAIN profile.providers = {} -> "needs_provider"
      [] DOMAIN profile.providers # {} /\ DOMAIN profile.models = {} -> "needs_model"
      [] DOMAIN profile.models # {} /\ MissingSecrets(profile) # {} -> "needs_secret"
      [] DOMAIN profile.models # {} /\ MissingSecrets(profile) = {}
           /\ MissingRoles(profile) # {} -> "needs_roles"
      [] OTHER -> IF \A r \in DOMAIN profile.models : Resolves(doc, p, r)
                  THEN "ready" ELSE "model_failed"

\* next_actions: the commands the check tells the user to run.  They name no
\* profile, and so they change the one named "default".
NextActions(doc, p) ==
    LET profile == ProfileIn(doc, p)
        status == Readiness(doc, p)
        Do(op, id, roles) == Change(op, DefaultProfile, id, roles, "secret", "given")
    IN  CASE status = "needs_provider" -> {Do("add", i, {"planner"}) : i \in ProviderIds}
          [] status = "needs_secret" -> {Do("rotate", i, {}) : i \in MissingSecrets(profile)}
          [] status \in {"needs_model", "needs_roles"} ->
               {Do("assign", i, {r}) : i \in DOMAIN profile.providers, r \in MissingRoles(profile)}
          [] OTHER -> {}

----------------------------------------------------------------------------
(* Properties.                                                             *)

Coherent(doc) ==
    /\ \A p \in DOMAIN doc.profiles : CoherentProfile(doc.profiles[p])
    /\ doc.default \in DOMAIN doc.profiles \/ DOMAIN doc.profiles = {}

\* What change c may have made of a document that loads.
OnlySpoiltBy(c, doc) ==
    Spoilt(doc) \subseteq IF c.valid THEN {} ELSE {<<c.profile, c.provider>>}

\* Whatever changes overlap or are cut off, every document that is written whole
\* is coherent: each binding names a provider of its profile, and the default
\* profile exists.  It loads, but for one account at most, and that is one which
\* a `provider update` was given an auth mode that does not exist or an empty
\* endpoint for.  No other change writes a document that does not load, and none
\* adds to one.
DocumentCoherent ==
    /\ file.is = "document" =>
         Coherent(file.doc) /\ \A a, b \in Spoilt(file.doc) : a = b
    /\ \A w \in Writers : \A c \in writer[w].change :
         Coherent(writer[w].copy) /\ OnlySpoiltBy(c, writer[w].copy)

\* Changes that neither overlap nor are cut off lose nothing of each other:
\* every provider that was added and not removed is in the document, and every
\* secret it refers to can be found, unless it was never given or another
\* profile that uses the same id gave it up.  The document loads, unless an
\* account is spoilt: then it still holds all this, but nothing can be changed
\* until a provider is added or set up, and that starts a new document (settled).
AloneNothingLost ==
    ~disturbed /\ Active = {} =>
        /\ Readable \/ settled = {} \/ Spoilt(file.doc) # {}
        /\ \A pair \in settled :
             pair[2] \in DOMAIN ProfileIn(file.doc, pair[1]).providers
        /\ \A p \in DOMAIN file.doc.profiles :
             \A i \in DOMAIN file.doc.profiles[p].providers \ exempt :
               file.doc.profiles[p].providers[i].ref => i \in secrets

\* What is left to do before a profile can be used.
Distance(doc, p) ==
    Cardinality(MissingRoles(ProfileIn(doc, p)))
      + Cardinality(MissingSecrets(ProfileIn(doc, p)))

\* While the document loads and "default" is the default profile, every command
\* the readiness check tells the user to run is accepted and brings the profile closer to use; it
\* runs out of commands only when all roles are bound, and says "ready" only
\* when each of them finds its secret.
AdviceHelps ==
    Readable /\ file.doc.default = DefaultProfile =>
        /\ \A c \in NextActions(file.doc, DefaultProfile) :
             /\ Allowed(file.doc, c)
             /\ Distance(Changed(file.doc, c), DefaultProfile)
                  < Distance(file.doc, DefaultProfile)
        /\ NextActions(file.doc, DefaultProfile) = {} =>
             /\ Distance(file.doc, DefaultProfile) = 0
             /\ Readiness(file.doc, DefaultProfile) = "ready" =>
                  \A r \in Roles : Resolves(file.doc, DefaultProfile, r)

\* What the commands leave serves the next one: nothing is lost, and what the user
\* is told to do next works.  Of a document that does not load the check says
\* what it says of none, and the `provider add` it advises starts a new one.
ProvidersServe == AloneNothingLost /\ AdviceHelps
=============================================================================
