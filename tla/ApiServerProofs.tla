------------------------- MODULE ApiServerProofs ---------------------------
(***************************************************************************)
(* Four parts of the API server that share nothing: the profiles, the rate *)
(* limiter, the tool calls with their approvals, and those who follow a    *)
(* run.                                                                    *)
(*                                                                         *)
(* DocumentCoherent for every set of profiles, providers, changes and      *)
(* writers.  A document is made of what an earlier one was made of, so the *)
(* invariant is about the file and the copy of every writer at once: each  *)
(* has the type of a document and is coherent, and every change that the   *)
(* code allows keeps a document so; and as a document is loaded only if no *)
(* account of it is spoilt, a change can leave one that is, its own.       *)
(*                                                                         *)
(* ProvidersServe, with the invariant ServeInv.  While changes neither     *)
(* overlap nor are cut off, either nobody is changing anything and the     *)
(* document has what settled and finds its secrets (AtRest), or one writer *)
(* carries a copy of which that will be true (Carries).  The advice of the *)
(* readiness check needs no history: in every good document it is accepted *)
(* and brings the profile closer (AdviceWorks), or there is none left      *)
(* (AdviceEnds).                                                           *)
(*                                                                         *)
(* LimitHolds for every number of requests, clients and overlaps.  The     *)
(* invariant LInv says what a list has: never anything but accepted        *)
(* requests of its client, all of them in one window at the time of the    *)
(* test (Tested); and, while no two checks of the client have overlapped,  *)
(* everything that still counts (Remembered).                              *)
(*                                                                         *)
(* The ledger of every mediated tool call keeps ApprovalContract, for any  *)
(* number of requests to invoke, grant and deny, whatever the calls are    *)
(* and wherever a stop of the server cuts them off.                        *)
(*                                                                         *)
(* What a step may append depends on what was appended last, and that is   *)
(* not in the store or the workflow that the steps look at.  The invariant *)
(* says what the last event is while a request to invoke is on its way     *)
(* (Invoking), while an approval is pending in the workflow (Pending), and *)
(* while a decision carries out what it granted (Deciding); Alone says     *)
(* that nobody else does so for the same call.                             *)
(*                                                                         *)
(* That what was asked for can be decided is about whole ledgers (Orderly) *)
(* and where an undecided request is kept (Kept).                          *)
(*                                                                         *)
(* The last theorem is about those who follow a run.  WatcherTrue and      *)
(* PollerTrue say what a stream at each place of its loop has told and     *)
(* whether it will be woken, ClickTrue how the call of a click, the row it *)
(* draws and the run at the server belong together.                        *)
(***************************************************************************)
EXTENDS MCApiServer, SequenceTheorems, FiniteSetTheorems, TLAPS

----------------------------------------------------------------------------
(* ProviderProfiles.                                                       *)
AccountType == [auth : {"secret", "none"}, ref : BOOLEAN, valid : BOOLEAN]

\* Functions from some of the keys to the values.
Partial(keys, values) == UNION {[some -> values] : some \in SUBSET keys}

Accounts == Partial(ProviderIds, AccountType)

Bindings == Partial(Roles, ProviderIds)

ProfileType == [providers : Accounts, models : Bindings]

DocumentType ==
    [default : Profiles, profiles : Partial(Profiles, ProfileType)]

\* A profile whose bindings name its own providers, and a document of such
\* profiles with a default among them.
GoodProfile(profile) == profile \in ProfileType /\ CoherentProfile(profile)

GoodDocument(doc) == doc \in DocumentType /\ Coherent(doc)

WriterType ==
    [at : {"idle", "secrets", "write"}, copy : DocumentType, put : SUBSET ProviderIds,
     drop : SUBSET ProviderIds, change : SUBSET ChangeType]

\* The inductive invariant.
DocumentInv ==
    /\ file \in [is : {"missing", "document", "empty", "torn"}, doc : DocumentType]
    /\ Coherent(file.doc)
    /\ writer \in [Writers -> WriterType]
    /\ \A w \in Writers : Coherent(writer[w].copy)
    /\ file.is = "document" => \A a, b \in Spoilt(file.doc) : a = b
    /\ \A w \in Writers : \A c \in writer[w].change : OnlySpoiltBy(c, writer[w].copy)

----------------------------------------------------------------------------
(* Functions with a changing domain.                                       *)

\* Assigning a value of the right type to some keys keeps the type.
LEMMA AssignedType ==
    ASSUME NEW K, NEW V, NEW f \in Partial(K, V), NEW keys \in SUBSET K, NEW v \in V
    PROVE  Assigned(f, keys, v) \in Partial(K, V)
<1>1. PICK D \in SUBSET K : f \in [D -> V] BY DEF Partial
<1>2. Assigned(f, keys, v) \in [(D \cup keys) -> V] BY <1>1 DEF Assigned
<1>3. D \cup keys \in SUBSET K OBVIOUS
<1> QED BY <1>2, <1>3 DEF Partial

\* Dropping keys keeps the type.
LEMMA WithoutType ==
    ASSUME NEW K, NEW V, NEW f \in Partial(K, V), NEW keys
    PROVE  Without(f, keys) \in Partial(K, V)
<1>1. PICK D \in SUBSET K : f \in [D -> V] BY DEF Partial
<1>2. Without(f, keys) \in [(D \ keys) -> V] BY <1>1 DEF Without
<1>3. D \ keys \in SUBSET K OBVIOUS
<1> QED BY <1>2, <1>3 DEF Partial

\* What a typed function holds, and where it is defined.
LEMMA PartialFunction ==
    ASSUME NEW K, NEW V, NEW f \in Partial(K, V)
    PROVE  DOMAIN f \subseteq K /\ \A k \in DOMAIN f : f[k] \in V
  BY DEF Partial

----------------------------------------------------------------------------
(* Profiles and documents.                                                 *)

LEMMA NewProfileGood == GoodProfile(NewProfile)
<1>1. NewProfile.providers \in [{} -> AccountType] /\ NewProfile.models \in [{} -> ProviderIds]
  BY DEF NewProfile
<1>2. NewProfile.providers \in Accounts /\ NewProfile.models \in Bindings
  BY <1>1 DEF Accounts, Bindings, Partial
<1>3. NewProfile \in ProfileType BY <1>2 DEF ProfileType, NewProfile
<1> QED BY <1>3 DEF GoodProfile, CoherentProfile, NewProfile

LEMMA NewDocumentGood == GoodDocument(NewDocument)
<1>1. NewDocument.profiles \in [{} -> ProfileType] /\ DOMAIN NewDocument.profiles = {}
  BY DEF NewDocument
<1>2. DefaultProfile \in Profiles BY ProfilesAssumption DEF ProfilesAssumption
<1>3. NewDocument \in DocumentType BY <1>1, <1>2 DEF NewDocument, DocumentType, Partial
<1> QED BY <1>1, <1>3 DEF GoodDocument, Coherent

LEMMA ProfileInGood ==
    ASSUME NEW doc, GoodDocument(doc), NEW p
    PROVE  GoodProfile(ProfileIn(doc, p))
<1>1. CASE p \in DOMAIN doc.profiles
  <2>1. doc.profiles[p] \in ProfileType
    BY <1>1, PartialFunction DEF GoodDocument, DocumentType
  <2> QED BY <1>1, <2>1 DEF GoodDocument, Coherent, GoodProfile, ProfileIn
<1>2. CASE p \notin DOMAIN doc.profiles BY <1>2, NewProfileGood DEF ProfileIn
<1> QED BY <1>1, <1>2

LEMMA WithAccountGood ==
    ASSUME NEW profile, GoodProfile(profile), NEW id \in ProviderIds, NEW account \in AccountType
    PROVE  /\ GoodProfile(WithAccount(profile, id, account))
           /\ id \in DOMAIN WithAccount(profile, id, account).providers
<1> DEFINE new == Assigned(profile.providers, {id}, account)
<1>1. profile.providers \in Accounts /\ profile.models \in Bindings
  BY DEF GoodProfile, ProfileType
<1>2. new \in Accounts BY <1>1, AssignedType DEF Accounts
<1>3. DOMAIN new = DOMAIN profile.providers \cup {id} BY DEF Assigned
<1>4. WithAccount(profile, id, account) = [providers |-> new, models |-> profile.models]
  BY DEF WithAccount, GoodProfile, ProfileType
<1> HIDE DEF new
<1> QED BY <1>1, <1>2, <1>4, <1>3 DEF GoodProfile, ProfileType, CoherentProfile

LEMMA WithRolesGood ==
    ASSUME NEW profile, GoodProfile(profile), NEW roles \in SUBSET Roles,
           NEW id \in DOMAIN profile.providers
    PROVE  GoodProfile(WithRoles(profile, roles, id))
<1> DEFINE new == Assigned(profile.models, roles, id)
<1>1. profile.providers \in Accounts /\ profile.models \in Bindings
  BY DEF GoodProfile, ProfileType
<1>2. id \in ProviderIds BY <1>1, PartialFunction DEF Accounts
<1>3. new \in Bindings BY <1>1, <1>2, AssignedType DEF Bindings
<1>4. WithRoles(profile, roles, id) = [providers |-> profile.providers, models |-> new]
  BY DEF WithRoles, GoodProfile, ProfileType
<1>5. \A r \in DOMAIN new : new[r] \in DOMAIN profile.providers
  BY DEF Assigned, GoodProfile, CoherentProfile
<1> HIDE DEF new
<1> QED BY <1>1, <1>3, <1>4, <1>5 DEF GoodProfile, ProfileType, CoherentProfile

LEMMA ReplacedGood ==
    ASSUME NEW doc, GoodDocument(doc), NEW p \in Profiles, NEW profile, GoodProfile(profile)
    PROVE  /\ Replaced(doc, p, profile) \in DocumentType
           /\ Replaced(doc, p, profile).default = doc.default
           /\ p \in DOMAIN Replaced(doc, p, profile).profiles
           /\ \A q \in DOMAIN Replaced(doc, p, profile).profiles :
                CoherentProfile(Replaced(doc, p, profile).profiles[q])
           /\ p \in DOMAIN doc.profiles => Coherent(Replaced(doc, p, profile))
<1> DEFINE new == Assigned(doc.profiles, {p}, profile)
<1>1. /\ doc.default \in Profiles
      /\ doc.profiles \in Partial(Profiles, ProfileType)
  BY DEF GoodDocument, DocumentType
<1>2. new \in Partial(Profiles, ProfileType) BY <1>1, AssignedType DEF GoodProfile
<1>3. /\ DOMAIN new = DOMAIN doc.profiles \cup {p}
      /\ \A q \in DOMAIN new : CoherentProfile(new[q])
  BY DEF Assigned, GoodDocument, Coherent, GoodProfile
<1>4. Replaced(doc, p, profile) = [default |-> doc.default, profiles |-> new]
  BY DEF Replaced, GoodDocument, DocumentType
<1> HIDE DEF new
<1> QED BY <1>1, <1>2, <1>4, <1>3 DEF GoodDocument, DocumentType, Coherent

----------------------------------------------------------------------------
(* The changes.                                                            *)

LEMMA AddedGood ==
    ASSUME NEW doc, GoodDocument(doc), NEW c \in ChangeType
    PROVE  GoodDocument(Added(doc, c))
<1> DEFINE profile == WithAccount(ProfileIn(doc, c.profile), c.provider,
                                  Account(c.auth, c.auth = "secret"))
           bound == WithRoles(profile, c.roles, c.provider)
           new == Replaced(doc, c.profile, bound)
<1>1. /\ c.profile \in Profiles /\ c.provider \in ProviderIds /\ c.roles \in SUBSET Roles
      /\ Account(c.auth, c.auth = "secret") \in AccountType
  BY DEF ChangeType, Account, AccountType
<1>2. GoodProfile(profile) /\ c.provider \in DOMAIN profile.providers
  BY <1>1, ProfileInGood, WithAccountGood
<1> HIDE DEF profile
<1>3. GoodProfile(bound) BY <1>1, <1>2, WithRolesGood
<1> HIDE DEF bound
<1>4. /\ new \in DocumentType /\ c.profile \in DOMAIN new.profiles
      /\ \A q \in DOMAIN new.profiles : CoherentProfile(new.profiles[q])
  BY <1>1, <1>3, ReplacedGood
<1>5. Added(doc, c) = [new EXCEPT !.default = c.profile]
  BY DEF Added, new, bound, profile
<1> HIDE DEF new
<1>6. Added(doc, c) = [default |-> c.profile, profiles |-> new.profiles]
  BY <1>4, <1>5 DEF DocumentType
<1> QED BY <1>1, <1>4, <1>6 DEF GoodDocument, DocumentType, Coherent

\* The changes to one profile that is there.
LEMMA ProfileChangeGood ==
    ASSUME NEW doc, GoodDocument(doc), NEW p \in DOMAIN doc.profiles,
           NEW profile, GoodProfile(profile)
    PROVE  GoodDocument(Replaced(doc, p, profile))
<1>1. p \in Profiles BY PartialFunction DEF GoodDocument, DocumentType
<1> QED BY <1>1, ReplacedGood DEF GoodDocument

LEMMA KnownProfileGood ==
    ASSUME NEW doc, GoodDocument(doc), NEW p \in DOMAIN doc.profiles
    PROVE  GoodProfile(doc.profiles[p])
  BY ProfileInGood DEF ProfileIn

LEMMA RemovedProfileGood ==
    ASSUME NEW profile, GoodProfile(profile), NEW id
    PROVE  GoodProfile([providers |-> Without(profile.providers, {id}),
                        models |-> Without(profile.models,
                            {r \in DOMAIN profile.models : profile.models[r] = id})])
<1> DEFINE left == Without(profile.providers, {id})
           dropped == {r \in DOMAIN profile.models : profile.models[r] = id}
           bound == Without(profile.models, dropped)
<1>1. profile.providers \in Accounts /\ profile.models \in Bindings
  BY DEF GoodProfile, ProfileType
<1>2. left \in Accounts BY <1>1, WithoutType DEF Accounts
<1>3. bound \in Bindings BY <1>1, WithoutType DEF Bindings
<1>4. \A r \in DOMAIN bound : bound[r] \in DOMAIN left
  BY DEF Without, GoodProfile, CoherentProfile
<1> HIDE DEF left, bound
<1>5. [providers |-> left, models |-> bound] \in ProfileType
  BY <1>2, <1>3 DEF ProfileType
<1>6. GoodProfile([providers |-> left, models |-> bound])
  BY <1>4, <1>5 DEF GoodProfile, CoherentProfile
<1> QED BY <1>6 DEF left, bound

LEMMA DeletedGood ==
    ASSUME NEW doc, GoodDocument(doc), NEW c \in ChangeType
    PROVE  GoodDocument(Deleted(doc, c))
<1> DEFINE left == Without(doc.profiles, {c.profile})
           next == IF doc.default = c.profile THEN NextDefault(DOMAIN left) ELSE doc.default
<1>1. /\ doc.default \in Profiles
      /\ doc.profiles \in Partial(Profiles, ProfileType)
  BY DEF GoodDocument, DocumentType
<1>2. left \in Partial(Profiles, ProfileType) BY <1>1, WithoutType
<1>3. DOMAIN left = DOMAIN doc.profiles \ {c.profile} BY DEF Without
<1>4. \A q \in DOMAIN left : CoherentProfile(left[q])
  BY DEF Without, GoodDocument, Coherent
<1>5. Deleted(doc, c) = [default |-> next, profiles |-> left] BY DEF Deleted
<1> HIDE DEF left
<1>6. DOMAIN left \subseteq Profiles BY <1>2, PartialFunction
<1>7. /\ NextDefault(DOMAIN left) \in Profiles
      /\ DOMAIN left # {} => NextDefault(DOMAIN left) \in DOMAIN left
  <2>1. CASE DOMAIN left = {}
    BY <2>1, ProfilesAssumption DEF NextDefault, ProfilesAssumption
  <2>2. CASE DOMAIN left # {}
    <3>1. \E p \in DOMAIN left : \A q \in DOMAIN left : p <= q
      BY <1>6, <2>2, ProfilesAssumption DEF ProfilesAssumption
    <3> QED BY <1>6, <2>2, <3>1 DEF NextDefault
  <2> QED BY <2>1, <2>2
<1>8. next \in Profiles /\ (next \in DOMAIN left \/ DOMAIN left = {})
  BY <1>1, <1>7, <1>3 DEF GoodDocument, Coherent
<1> HIDE DEF next
<1> QED BY <1>2, <1>5, <1>8, <1>4 DEF GoodDocument, DocumentType, Coherent

\* Every change that is allowed makes a good document of a good one.
LEMMA ChangedGood ==
    ASSUME NEW doc, GoodDocument(doc), NEW c \in ChangeType, Allowed(doc, c)
    PROVE  GoodDocument(Changed(doc, c))
<1> DEFINE profile == doc.profiles[c.profile]
<1>1. c.op \in Operations /\ c.profile \in Profiles /\ c.provider \in ProviderIds
      /\ c.roles \in SUBSET Roles
  BY DEF ChangeType
<1>2. CASE Creates(c) BY <1>2, AddedGood DEF Changed, Creates
<1>3. CASE c.op = "delete" BY <1>3, DeletedGood DEF Changed
<1>4. CASE ~Creates(c) /\ c.op # "delete"
  <2>1. c.profile \in DOMAIN doc.profiles /\ GoodProfile(profile)
    BY <1>4, KnownProfileGood DEF Allowed
  <2> HIDE DEF profile
  <2>2. CASE c.op = "use"
    <3>1. Changed(doc, c) = [doc EXCEPT !.default = c.profile] BY <2>2 DEF Changed
    <3>2. Changed(doc, c) = [default |-> c.profile, profiles |-> doc.profiles]
      BY <3>1 DEF GoodDocument, DocumentType
    <3> QED BY <1>1, <2>1, <3>2 DEF GoodDocument, DocumentType, Coherent
  <2>3. CASE c.op # "use"
    <3>1. c.provider \in DOMAIN profile.providers
      BY <1>1, <1>4, <2>3 DEF Allowed, Operations, Creates, profile
    <3>2. DOMAIN profile.models \in SUBSET Roles
      BY <2>1, PartialFunction DEF GoodProfile, ProfileType, Bindings
    <3>3. CASE c.op = "assign"
      <4>1. GoodProfile(WithRoles(profile, c.roles, c.provider))
        BY <1>1, <2>1, <3>1, WithRolesGood
      <4> QED BY <2>1, <3>3, <4>1, ProfileChangeGood DEF Changed, RolesAssigned, profile
    <3>4. CASE c.op = "assign-all"
      <4>1. GoodProfile(WithRoles(profile, DOMAIN profile.models, c.provider))
        BY <2>1, <3>1, <3>2, WithRolesGood
      <4> QED BY <2>1, <3>4, <4>1, ProfileChangeGood DEF Changed, AllAssigned, profile
    <3>5. CASE c.op = "update"
      <4> DEFINE ref == ~Clears(c) /\ (c.key = "given" \/ profile.providers[c.provider].ref)
      <4>1. profile.providers[c.provider] \in AccountType
        BY <2>1, <3>1, PartialFunction DEF GoodProfile, ProfileType, Accounts
      <4>2. ref \in BOOLEAN BY <4>1 DEF AccountType, Clears
      <4>3. [auth |-> c.auth, ref |-> ref, valid |-> c.valid] \in AccountType
        BY <4>2 DEF ChangeType, AccountType
      <4>4. GoodProfile(WithAccount(profile, c.provider,
                          [auth |-> c.auth, ref |-> ref, valid |-> c.valid]))
        BY <1>1, <2>1, <4>3, WithAccountGood
      <4> QED BY <2>1, <3>5, <4>4, ProfileChangeGood DEF Changed, Updated, profile
    <3>6. CASE c.op = "rotate"
      <4>1. Account("secret", TRUE) \in AccountType BY DEF Account, AccountType
      <4>2. GoodProfile(WithAccount(profile, c.provider, Account("secret", TRUE)))
        BY <1>1, <2>1, <4>1, WithAccountGood
      <4> QED BY <2>1, <3>6, <4>2, ProfileChangeGood DEF Changed, Rotated, profile
    <3>7. CASE c.op = "remove"
      <4> DEFINE rest == [providers |-> Without(profile.providers, {c.provider}),
                          models |-> Without(profile.models,
                              {r \in DOMAIN profile.models : profile.models[r] = c.provider})]
      <4>1. GoodProfile(rest) BY <2>1, RemovedProfileGood
      <4>2. Changed(doc, c) = Replaced(doc, c.profile, rest)
        BY <3>7 DEF Changed, Removed, profile
      <4> QED BY <2>1, <4>1, <4>2, ProfileChangeGood
    <3> QED BY <1>1, <1>4, <2>3, <3>3, <3>4, <3>5, <3>6, <3>7 DEF Operations, Creates
  <2> QED BY <2>2, <2>3
<1> QED BY <1>2, <1>3, <1>4

----------------------------------------------------------------------------
(* The accounts of a document.                                             *)

AccountsIn(doc, p) == ProfileIn(doc, p).providers

LEMMA ReplacedProfile ==
  ASSUME NEW doc, GoodDocument(doc), NEW p \in Profiles, NEW profile, NEW q
  PROVE  ProfileIn(Replaced(doc, p, profile), q) = IF q = p THEN profile ELSE ProfileIn(doc, q)
<1> DEFINE new == Assigned(doc.profiles, {p}, profile)
<1>1. Replaced(doc, p, profile) = [default |-> doc.default, profiles |-> new]
  BY DEF Replaced, GoodDocument, DocumentType
<1>2. DOMAIN new = DOMAIN doc.profiles \cup {p} BY DEF Assigned
<1>3. \A k \in DOMAIN new : new[k] = IF k = p THEN profile ELSE doc.profiles[k]
  BY DEF Assigned
<1> HIDE DEF new
<1> QED BY <1>1, <1>2, <1>3 DEF ProfileIn

LEMMA AccountFields ==
  ASSUME NEW profile, GoodProfile(profile), NEW id, NEW account
  PROVE  /\ WithAccount(profile, id, account).providers = Assigned(profile.providers, {id}, account)
         /\ WithAccount(profile, id, account).models = profile.models
BY DEF WithAccount, GoodProfile, ProfileType

LEMMA RoleFields ==
  ASSUME NEW profile, GoodProfile(profile), NEW id, NEW roles
  PROVE  /\ WithRoles(profile, roles, id).providers = profile.providers
         /\ WithRoles(profile, roles, id).models = Assigned(profile.models, roles, id)
BY DEF WithRoles, GoodProfile, ProfileType

LEMMA AssignedIs ==
  ASSUME NEW f, NEW keys, NEW value
  PROVE  /\ DOMAIN Assigned(f, keys, value) = DOMAIN f \cup keys
         /\ \A k \in keys : Assigned(f, keys, value)[k] = value
         /\ \A k \in DOMAIN f \ keys : Assigned(f, keys, value)[k] = f[k]
BY DEF Assigned

LEMMA WithoutIs ==
  ASSUME NEW f, NEW keys
  PROVE  /\ DOMAIN Without(f, keys) = DOMAIN f \ keys
         /\ \A k \in DOMAIN f \ keys : Without(f, keys)[k] = f[k]
BY DEF Without

\* The accounts that a change leaves.
AddedAccount(c) == Account(c.auth, c.auth = "secret")

UpdatedAccount(c, old) ==
    [auth |-> c.auth, ref |-> ~Clears(c) /\ (c.key = "given" \/ old.ref), valid |-> c.valid]

LEMMA NewAccountRefs ==
  ASSUME NEW c, NEW old
  PROVE  /\ AddedAccount(c).ref => c.auth = "secret"
         /\ UpdatedAccount(c, old).ref => ~Clears(c) /\ (c.key = "given" \/ old.ref)
BY DEF AddedAccount, UpdatedAccount, Account

LEMMA AddedProfiles ==
  ASSUME NEW doc, GoodDocument(doc), NEW c \in ChangeType
  PROVE  \A q : ProfileIn(Added(doc, c), q) =
            IF q = c.profile
            THEN WithRoles(WithAccount(ProfileIn(doc, q), c.provider, AddedAccount(c)),
                           c.roles, c.provider)
            ELSE ProfileIn(doc, q)
<1> DEFINE bound == WithRoles(WithAccount(ProfileIn(doc, c.profile), c.provider, AddedAccount(c)),
                              c.roles, c.provider)
           new == Replaced(doc, c.profile, bound)
<1>1. Added(doc, c) = [new EXCEPT !.default = c.profile] BY DEF Added, AddedAccount
<1>2. Added(doc, c).profiles = new.profiles
  BY <1>1 DEF Replaced, GoodDocument, DocumentType
<1>3. c.profile \in Profiles BY DEF ChangeType
<1> HIDE DEF bound
<1>4. \A q : ProfileIn(new, q) = IF q = c.profile THEN bound ELSE ProfileIn(doc, q)
  BY <1>3, ReplacedProfile
<1> HIDE DEF new
<1>5. \A q : ProfileIn(Added(doc, c), q) = IF q = c.profile THEN bound ELSE ProfileIn(doc, q)
  BY <1>2, <1>4 DEF ProfileIn
<1> QED BY <1>5 DEF bound

\* The profile to which a provider is added.
LEMMA AddedFields ==
  ASSUME NEW doc, GoodDocument(doc), NEW c \in ChangeType, NEW old, old = ProfileIn(doc, c.profile)
  PROVE  /\ ProfileIn(Added(doc, c), c.profile).providers
               = Assigned(old.providers, {c.provider}, AddedAccount(c))
         /\ ProfileIn(Added(doc, c), c.profile).models = Assigned(old.models, c.roles, c.provider)
<1> DEFINE profile == WithAccount(old, c.provider, AddedAccount(c))
<1>1. GoodProfile(old) BY ProfileInGood
<1>2. c.provider \in ProviderIds /\ AddedAccount(c) \in AccountType
  BY DEF ChangeType, Account, AccountType, AddedAccount
<1>3. GoodProfile(profile) BY <1>1, <1>2, WithAccountGood
<1>4. /\ profile.providers = Assigned(old.providers, {c.provider}, AddedAccount(c))
      /\ profile.models = old.models
  BY <1>1, AccountFields
<1>5. ProfileIn(Added(doc, c), c.profile) = WithRoles(profile, c.roles, c.provider)
  BY AddedProfiles
<1> HIDE DEF profile
<1>6. /\ WithRoles(profile, c.roles, c.provider).providers = profile.providers
      /\ WithRoles(profile, c.roles, c.provider).models
           = Assigned(profile.models, c.roles, c.provider)
  BY <1>3, RoleFields
<1> QED BY <1>4, <1>5, <1>6

LEMMA AddedAccounts ==
  ASSUME NEW doc, GoodDocument(doc), NEW c \in ChangeType
  PROVE  \A q : AccountsIn(Added(doc, c), q) =
            IF q = c.profile
            THEN Assigned(AccountsIn(doc, q), {c.provider}, AddedAccount(c))
            ELSE AccountsIn(doc, q)
<1>1. AccountsIn(Added(doc, c), c.profile)
        = Assigned(AccountsIn(doc, c.profile), {c.provider}, AddedAccount(c))
  BY AddedFields DEF AccountsIn
<1>2. \A q : q # c.profile => ProfileIn(Added(doc, c), q) = ProfileIn(doc, q)
  BY AddedProfiles
<1> QED BY <1>1, <1>2 DEF AccountsIn

\* The other changes.
NewAccounts(doc, c) ==
    LET old == AccountsIn(doc, c.profile) IN
    CASE c.op = "update" ->
           Assigned(old, {c.provider}, UpdatedAccount(c, old[c.provider]))
      [] c.op = "rotate" -> Assigned(old, {c.provider}, Account("secret", TRUE))
      [] c.op = "remove" -> Without(old, {c.provider})
      [] c.op = "delete" -> NewProfile.providers
      [] OTHER -> old

LEMMA ChangedAccounts ==
  ASSUME NEW doc, GoodDocument(doc), NEW c \in ChangeType, Allowed(doc, c), ~ Creates(c)
  PROVE  \A q : AccountsIn(Changed(doc, c), q) =
            IF q = c.profile THEN NewAccounts(doc, c) ELSE AccountsIn(doc, q)
<1> DEFINE profile == doc.profiles[c.profile]
<1>1. /\ c.op \in Operations /\ c.profile \in Profiles /\ c.profile \in DOMAIN doc.profiles
      /\ GoodProfile(profile) /\ ProfileIn(doc, c.profile) = profile
      /\ AccountsIn(doc, c.profile) = profile.providers
  BY KnownProfileGood DEF ChangeType, Allowed, ProfileIn, AccountsIn
<1>2. ASSUME NEW new, Changed(doc, c) = Replaced(doc, c.profile, new),
             new.providers = NewAccounts(doc, c)
      PROVE  \A q : AccountsIn(Changed(doc, c), q) =
                IF q = c.profile THEN NewAccounts(doc, c) ELSE AccountsIn(doc, q)
  <2>1. \A q : ProfileIn(Replaced(doc, c.profile, new), q) =
                 IF q = c.profile THEN new ELSE ProfileIn(doc, q)
    BY <1>1, ReplacedProfile
  <2> QED BY <1>2, <2>1 DEF AccountsIn
<1> HIDE DEF profile
<1>3. CASE c.op = "assign"
  <2>1. Changed(doc, c) = Replaced(doc, c.profile, WithRoles(profile, c.roles, c.provider))
    BY <1>3 DEF Changed, RolesAssigned, profile
  <2>2. WithRoles(profile, c.roles, c.provider).providers = profile.providers
    BY <1>1, RoleFields
  <2>3. NewAccounts(doc, c) = profile.providers BY <1>1, <1>3 DEF NewAccounts
  <2> QED BY <1>2, <2>1, <2>2, <2>3
<1>4. CASE c.op = "assign-all"
  <2>1. Changed(doc, c) =
          Replaced(doc, c.profile, WithRoles(profile, DOMAIN profile.models, c.provider))
    BY <1>4 DEF Changed, AllAssigned, profile
  <2>2. WithRoles(profile, DOMAIN profile.models, c.provider).providers = profile.providers
    BY <1>1, RoleFields
  <2>3. NewAccounts(doc, c) = profile.providers BY <1>1, <1>4 DEF NewAccounts
  <2> QED BY <1>2, <2>1, <2>2, <2>3
<1>5. CASE c.op = "update"
  <2> DEFINE account == UpdatedAccount(c, profile.providers[c.provider])
  <2>1. Changed(doc, c) = Replaced(doc, c.profile, WithAccount(profile, c.provider, account))
    BY <1>5 DEF Changed, Updated, UpdatedAccount, profile
  <2>2. Assigned(profile.providers, {c.provider}, account) = NewAccounts(doc, c)
    BY <1>1, <1>5 DEF NewAccounts
  <2> HIDE DEF account
  <2>3. WithAccount(profile, c.provider, account).providers =
          Assigned(profile.providers, {c.provider}, account)
    BY <1>1, AccountFields
  <2> QED BY <1>2, <2>1, <2>2, <2>3
<1>6. CASE c.op = "rotate"
  <2>1. Changed(doc, c) =
          Replaced(doc, c.profile, WithAccount(profile, c.provider, Account("secret", TRUE)))
    BY <1>6 DEF Changed, Rotated, profile
  <2>2. WithAccount(profile, c.provider, Account("secret", TRUE)).providers =
          Assigned(profile.providers, {c.provider}, Account("secret", TRUE))
    BY <1>1, AccountFields
  <2>3. NewAccounts(doc, c) = Assigned(profile.providers, {c.provider}, Account("secret", TRUE))
    BY <1>1, <1>6 DEF NewAccounts
  <2> QED BY <1>2, <2>1, <2>2, <2>3
<1>7. CASE c.op = "remove"
  <2> DEFINE new == [providers |-> Without(profile.providers, {c.provider}),
                     models |-> Without(profile.models,
                         {r \in DOMAIN profile.models : profile.models[r] = c.provider})]
  <2>1. Changed(doc, c) = Replaced(doc, c.profile, new)
    BY <1>7 DEF Changed, Removed, profile
  <2>2. new.providers = NewAccounts(doc, c) BY <1>1, <1>7 DEF NewAccounts
  <2> HIDE DEF new
  <2> QED BY <1>2, <2>1, <2>2
<1>8. CASE c.op = "delete"
  <2> DEFINE left == Without(doc.profiles, {c.profile})
  <2>1. Changed(doc, c).profiles = left BY <1>8 DEF Changed, Deleted
  <2>2. /\ DOMAIN left = DOMAIN doc.profiles \ {c.profile}
        /\ \A q \in DOMAIN left : left[q] = doc.profiles[q]
    BY DEF Without
  <2> HIDE DEF left
  <2>3. NewAccounts(doc, c) = NewProfile.providers BY <1>8 DEF NewAccounts
  <2>4. \A q : ProfileIn(Changed(doc, c), q) =
                 IF q = c.profile THEN NewProfile ELSE ProfileIn(doc, q)
    BY <2>1, <2>2 DEF ProfileIn
  <2> QED BY <2>3, <2>4 DEF AccountsIn
<1>9. CASE c.op = "use"
  <2>1. Changed(doc, c).profiles = doc.profiles
    BY <1>9 DEF Changed, GoodDocument, DocumentType
  <2>2. NewAccounts(doc, c) = AccountsIn(doc, c.profile) BY <1>9 DEF NewAccounts
  <2> QED BY <2>1, <2>2 DEF AccountsIn, ProfileIn
<1> QED BY <1>1, <1>3, <1>4, <1>5, <1>6, <1>7, <1>8, <1>9 DEF Operations, Creates

\* The providers of a profile are some of all, and one that is not there has none.
LEMMA AccountsKnown ==
  ASSUME NEW doc, GoodDocument(doc), NEW p
  PROVE  /\ AccountsIn(doc, p) \in Accounts /\ DOMAIN AccountsIn(doc, p) \subseteq ProviderIds
         /\ \A i \in DOMAIN AccountsIn(doc, p) : AccountsIn(doc, p)[i] \in AccountType
         /\ p \notin DOMAIN doc.profiles => DOMAIN AccountsIn(doc, p) = {}
<1>1. AccountsIn(doc, p) \in Accounts
  BY ProfileInGood DEF AccountsIn, GoodProfile, ProfileType
<1>2. p \notin DOMAIN doc.profiles => DOMAIN AccountsIn(doc, p) = {}
  BY DEF AccountsIn, ProfileIn, NewProfile
<1>3. /\ DOMAIN AccountsIn(doc, p) \subseteq ProviderIds
      /\ \A i \in DOMAIN AccountsIn(doc, p) : AccountsIn(doc, p)[i] \in AccountType
  BY <1>1, PartialFunction DEF Accounts
<1> QED BY <1>1, <1>2, <1>3

LEMMA SpoiltIs ==
  ASSUME NEW doc
  PROVE  Spoilt(doc) =
           {account \in Profiles \X ProviderIds :
              /\ account[2] \in DOMAIN AccountsIn(doc, account[1])
              /\ ~AccountsIn(doc, account[1])[account[2]].valid}
BY DEF Spoilt, AccountsIn

LEMMA NothingSpoilt == Spoilt(NewDocument) = {}
<1>1. \A p : DOMAIN AccountsIn(NewDocument, p) = {}
  BY DEF NewDocument, AccountsIn, ProfileIn, NewProfile
<1> QED BY <1>1, SpoiltIs

LEMMA AssignedInvalid ==
  ASSUME NEW f, NEW k, NEW account, NEW i \in DOMAIN Assigned(f, {k}, account),
         ~Assigned(f, {k}, account)[i].valid
  PROVE  (i = k /\ ~account.valid) \/ (i \in DOMAIN f /\ ~f[i].valid)
<1>1. i \in DOMAIN f \cup {k} BY DEF Assigned
<1>2. Assigned(f, {k}, account)[i] = IF i = k THEN account ELSE f[i] BY DEF Assigned
<1> QED BY <1>1, <1>2

\* Only an update spoils a document that loads, and no other account than its own.
LEMMA ChangedSpoils ==
  ASSUME NEW doc, GoodDocument(doc), NEW c \in ChangeType, Allowed(doc, c), Spoilt(doc) = {}
  PROVE  OnlySpoiltBy(c, Changed(doc, c))
<1> DEFINE new == Changed(doc, c)
<1> SUFFICES ASSUME NEW p \in Profiles, NEW i \in ProviderIds, i \in DOMAIN AccountsIn(new, p),
                    ~AccountsIn(new, p)[i].valid
             PROVE  ~c.valid /\ p = c.profile /\ i = c.provider
  <2>1. \A account \in Spoilt(new) :
          ~c.valid /\ account[1] = c.profile /\ account[2] = c.provider
    BY SpoiltIs
  <2>2. \A account \in Spoilt(new) : account = <<account[1], account[2]>> BY SpoiltIs
  <2> QED BY <2>1, <2>2 DEF OnlySpoiltBy
<1>1. \A q \in Profiles, j \in ProviderIds :
        j \in DOMAIN AccountsIn(doc, q) => AccountsIn(doc, q)[j].valid
  <2> SUFFICES ASSUME NEW q \in Profiles, NEW j \in ProviderIds, j \in DOMAIN AccountsIn(doc, q),
                      ~AccountsIn(doc, q)[j].valid
               PROVE  FALSE
    OBVIOUS
  <2>1. <<q, j>> \in Spoilt(doc) BY SpoiltIs
  <2> QED BY <2>1
<1>2. /\ AddedAccount(c).valid /\ Account("secret", TRUE).valid
      /\ \A old : UpdatedAccount(c, old).valid = c.valid
      /\ c.profile \in Profiles /\ c.valid \in BOOLEAN
  BY DEF AddedAccount, Account, UpdatedAccount, ChangeType
<1> HIDE DEF new
<1>3. CASE Creates(c)
  <2>1. AccountsIn(new, p) =
          IF p = c.profile
          THEN Assigned(AccountsIn(doc, p), {c.provider}, AddedAccount(c))
          ELSE AccountsIn(doc, p)
    BY <1>3, AddedAccounts DEF Changed, Creates, new
  <2>2. CASE p = c.profile
    <3> DEFINE old == AccountsIn(doc, p)
    <3>1. /\ i \in DOMAIN Assigned(old, {c.provider}, AddedAccount(c))
          /\ ~Assigned(old, {c.provider}, AddedAccount(c))[i].valid
      BY <2>1, <2>2
    <3>2. ~(i \in DOMAIN old /\ ~old[i].valid) BY <1>1
    <3> HIDE DEF old
    <3> QED BY <1>2, <3>1, <3>2, AssignedInvalid
  <2>3. CASE p # c.profile BY <1>1, <2>1, <2>3
  <2> QED BY <2>2, <2>3
<1>4. CASE ~Creates(c)
  <2> DEFINE old == AccountsIn(doc, c.profile)
  <2>1. AccountsIn(new, p) = IF p = c.profile THEN NewAccounts(doc, c) ELSE AccountsIn(doc, p)
    BY <1>4, ChangedAccounts DEF new
  <2>2. p = c.profile BY <1>1, <2>1
  <2>3. i \in DOMAIN NewAccounts(doc, c) /\ ~NewAccounts(doc, c)[i].valid BY <2>1, <2>2
  <2>4. ~(i \in DOMAIN old /\ ~old[i].valid) BY <1>1, <1>2
  <2> HIDE DEF old
  <2>5. CASE NewAccounts(doc, c)
               = Assigned(old, {c.provider}, UpdatedAccount(c, old[c.provider]))
    <3>1. /\ i \in DOMAIN Assigned(old, {c.provider}, UpdatedAccount(c, old[c.provider]))
          /\ ~Assigned(old, {c.provider}, UpdatedAccount(c, old[c.provider]))[i].valid
      BY <2>3, <2>5
    <3>2. i = c.provider /\ ~UpdatedAccount(c, old[c.provider]).valid
      BY <2>4, <3>1, AssignedInvalid
    <3> QED BY <1>2, <2>2, <3>2
  <2>6. CASE NewAccounts(doc, c) = Assigned(old, {c.provider}, Account("secret", TRUE))
    <3> DEFINE account == Account("secret", TRUE)
    <3>1. account.valid BY DEF Account
    <3> HIDE DEF account
    <3>2. i \in DOMAIN Assigned(old, {c.provider}, account) /\ ~Assigned(old, {c.provider}, account)[i].valid
      BY <2>3, <2>6 DEF account
    <3> QED BY <2>4, <3>1, <3>2, AssignedInvalid
  <2>7. CASE NewAccounts(doc, c) = Without(old, {c.provider})
    <3>1. i \in DOMAIN old /\ NewAccounts(doc, c)[i] = old[i] BY <2>3, <2>7 DEF Without
    <3> QED BY <2>3, <2>4, <3>1
  <2>8. CASE NewAccounts(doc, c) = NewProfile.providers BY <2>3, <2>8 DEF NewProfile
  <2>9. CASE NewAccounts(doc, c) = old BY <2>3, <2>4, <2>9
  <2>10. \/ NewAccounts(doc, c) = Assigned(old, {c.provider}, UpdatedAccount(c, old[c.provider]))
         \/ NewAccounts(doc, c) = Assigned(old, {c.provider}, Account("secret", TRUE))
         \/ NewAccounts(doc, c) = Without(old, {c.provider})
         \/ NewAccounts(doc, c) = NewProfile.providers
         \/ NewAccounts(doc, c) = old
    BY DEF NewAccounts, old
  <2> QED BY <2>2, <2>5, <2>6, <2>7, <2>8, <2>9, <2>10
<1> QED BY <1>3, <1>4

----------------------------------------------------------------------------
(* The specification.                                                      *)

LEMMA DocumentStarts == ProfilesInit => DocumentInv
<1> SUFFICES ASSUME ProfilesInit PROVE DocumentInv OBVIOUS
<1>1. file \in [is : {"missing", "document", "empty", "torn"}, doc : DocumentType]
      /\ Coherent(file.doc)
  BY NewDocumentGood DEF ProfilesInit, Contents, GoodDocument
<1>2. Idle \in WriterType /\ Coherent(Idle.copy) /\ Idle.change = {}
  BY NewDocumentGood DEF Idle, WriterType, GoodDocument
<1>3. file.is # "document" BY DEF ProfilesInit, Contents
<1> QED BY <1>1, <1>2, <1>3 DEF ProfilesInit, DocumentInv

\* Loading a document and changing its copy.
LEMMA LoadIInv ==
    ASSUME DocumentInv, NEW w \in Writers, NEW c \in Changes, Load(w, c)
    PROVE  DocumentInv'
<1> DEFINE doc == LoadedFor(c)
           new == [at |-> "secrets", copy |-> Changed(doc, c), put |-> Stores(c),
                   drop |-> Discards(doc, c), change |-> {c}]
<1>1. c \in ChangeType BY ProfilesAssumption DEF ProfilesAssumption
<1>2. GoodDocument(doc) /\ Allowed(doc, c) /\ Spoilt(doc) = {}
  <2>1. Allowed(doc, c) /\ doc = IF Readable THEN file.doc ELSE NewDocument
    BY DEF Load, LoadedFor
  <2>2. GoodDocument(file.doc) /\ (Readable => Spoilt(file.doc) = {})
    BY DEF DocumentInv, GoodDocument, Readable, Loads
  <2> HIDE DEF doc
  <2> QED BY <2>1, <2>2, NewDocumentGood, NothingSpoilt
<1> HIDE DEF doc
<1>3. GoodDocument(Changed(doc, c)) /\ OnlySpoiltBy(c, Changed(doc, c))
  BY <1>1, <1>2, ChangedGood, ChangedSpoils
<1>4. Stores(c) \in SUBSET ProviderIds BY <1>1 DEF Stores, ChangeType
<1>5. Discards(doc, c) \in SUBSET ProviderIds
  <2>1. DOMAIN ProfileIn(doc, c.profile).providers \subseteq ProviderIds
    BY <1>2, ProfileInGood, PartialFunction DEF GoodProfile, ProfileType, Accounts
  <2> QED BY <1>1, <2>1 DEF Discards, ChangeType
<1>6. /\ new \in WriterType /\ Coherent(new.copy)
      /\ \A d \in new.change : OnlySpoiltBy(d, new.copy)
  BY <1>1, <1>3, <1>4, <1>5 DEF WriterType, GoodDocument
<1>7. writer' = [writer EXCEPT ![w] = new] /\ file' = file BY DEF Load, doc, new
<1> HIDE DEF new
<1> QED BY <1>6, <1>7 DEF DocumentInv

LEMMA DocumentStep == DocumentInv /\ [ProfilesNext]_profileVars => DocumentInv'
<1> SUFFICES ASSUME DocumentInv, [ProfilesNext]_profileVars PROVE DocumentInv' OBVIOUS
<1>0. NewDocument \in DocumentType /\ Coherent(NewDocument)
  BY NewDocumentGood DEF GoodDocument
<1>1. CASE UNCHANGED profileVars BY <1>1 DEF DocumentInv, profileVars
<1>2. ASSUME NEW w \in Writers, NEW c \in Changes, Load(w, c) PROVE DocumentInv'
  BY <1>2, LoadIInv
<1>3. ASSUME NEW w \in Writers, StoreSecret(w) PROVE DocumentInv'
  <2>1. file' = file /\ writer' = [writer EXCEPT ![w].put = {}] BY <1>3 DEF StoreSecret
  <2> QED BY <2>1 DEF DocumentInv, WriterType
<1>4. ASSUME NEW w \in Writers, NEW id \in ProviderIds, DeleteSecret(w, id) PROVE DocumentInv'
  <2>1. file' = file /\ writer' = [writer EXCEPT ![w].drop = @ \ {id}]
    BY <1>4 DEF DeleteSecret
  <2> QED BY <2>1 DEF DocumentInv, WriterType
<1>5. ASSUME NEW w \in Writers, Truncate(w) PROVE DocumentInv'
  <2>1. file' = Contents("empty", NewDocument) /\ writer' = [writer EXCEPT ![w].at = "write"]
    BY <1>5 DEF Truncate
  <2> QED BY <1>0, <2>1 DEF DocumentInv, WriterType, Contents
<1>6. Idle \in WriterType /\ Coherent(Idle.copy) /\ Idle.change = {}
  BY <1>0 DEF Idle, WriterType
<1>7. ASSUME NEW w \in Writers, WriteDocument(w) PROVE DocumentInv'
  <2>1. /\ \/ file' = Contents("document", writer[w].copy)
           \/ file' = Contents("torn", NewDocument)
        /\ writer' = [writer EXCEPT ![w] = Idle]
    BY <1>7 DEF WriteDocument
  <2>2. writer[w].copy \in DocumentType /\ Coherent(writer[w].copy)
    BY DEF DocumentInv, WriterType
  <2>3. file' \in [is : {"missing", "document", "empty", "torn"}, doc : DocumentType]
        /\ Coherent(file'.doc)
    BY <1>0, <2>1, <2>2 DEF Contents
  <2>4. /\ writer' \in [Writers -> WriterType] /\ \A v \in Writers : Coherent(writer'[v].copy)
        /\ \A v \in Writers : \A c \in writer'[v].change : OnlySpoiltBy(c, writer'[v].copy)
    BY <1>6, <2>1 DEF DocumentInv
  <2>5. PICK c \in writer[w].change : OnlySpoiltBy(c, writer[w].copy)
    BY <1>7 DEF WriteDocument, DocumentInv
  <2>6. file'.is = "document" => \A a, b \in Spoilt(file'.doc) : a = b
    <3>1. \A a, b \in Spoilt(writer[w].copy) : a = b BY <2>5 DEF OnlySpoiltBy
    <3> QED BY <2>1, <3>1 DEF Contents
  <2> QED BY <2>3, <2>4, <2>6 DEF DocumentInv
<1>8. ASSUME NEW w \in Writers, CutOff(w) PROVE DocumentInv'
  <2>1. file' = file /\ writer' = [writer EXCEPT ![w] = Idle] BY <1>8 DEF CutOff
  <2> QED BY <1>6, <2>1 DEF DocumentInv
<1> QED BY <1>1, <1>2, <1>3, <1>4, <1>5, <1>7, <1>8 DEF ProfilesNext

\* Whatever changes overlap or are cut off, every document that is written whole
\* names only providers of its own profiles and a default that exists; and it
\* loads, but for one account that an update was given a bad value for.
THEOREM DocumentAlwaysCoherent == ProfilesSpec => []DocumentCoherent
<1>1. DocumentInv => DocumentCoherent BY DEF DocumentInv, DocumentCoherent
<1> QED BY <1>1, DocumentStarts, DocumentStep, PTL DEF ProfilesSpec

----------------------------------------------------------------------------
(* What changes that nobody disturbs leave, for AloneNothingLost.          *)

\* The provider that c leaves without the key it needs.
Keyless(c) ==
    IF c.op = "setup" /\ c.auth = "secret" /\ c.key # "given" THEN {c.provider} ELSE {}

HasSettled(doc, pairs) == \A pair \in pairs : pair[2] \in DOMAIN AccountsIn(doc, pair[1])

\* The secrets of the document are among these, but for some providers.
FindsSecrets(doc, ids, but) ==
    \A p \in Profiles : \A i \in DOMAIN AccountsIn(doc, p) \ but :
        AccountsIn(doc, p)[i].ref => i \in ids

\* Nobody is changing anything: a document that lists what settled and finds
\* its secrets.  What it shares is exempt, so that what a change discards is
\* missed by nobody.
AtRest ==
    /\ file.is \in {"missing", "document"}
    /\ file.is = "missing" => file.doc = NewDocument /\ settled = {}
    /\ Shared(file.doc) \subseteq exempt
    /\ HasSettled(file.doc, settled)
    /\ FindsSecrets(file.doc, secrets, exempt)

\* A writer carries out c: the copy will be such a document once it is written.
Carries(w, c) ==
    /\ writer[w].change = {c} /\ writer[w].at \in {"secrets", "write"}
    /\ writer[w].at = "write" =>
         writer[w].put = {} /\ writer[w].drop = {} /\ file.is = "empty"
    /\ HasSettled(writer[w].copy, SettledAfter(settled, c))
    /\ FindsSecrets(writer[w].copy, (secrets \cup writer[w].put) \ writer[w].drop,
                    exempt \cup Shared(writer[w].copy) \cup Keyless(c))

Undisturbed ==
    ~ disturbed =>
        /\ \A v, w \in Active : v = w
        /\ Active = {} => AtRest
        /\ \A w \in Active : \E c \in ChangeType : Carries(w, c)

ServeInv ==
    /\ DocumentInv
    /\ disturbed \in BOOLEAN
    /\ settled \subseteq Profiles \X ProviderIds
    /\ Undisturbed

----------------------------------------------------------------------------
\* What settles with a change is in the document it makes.
LEMMA ChangeSettles ==
  ASSUME NEW doc, GoodDocument(doc), NEW c \in ChangeType, Allowed(doc, c),
         NEW pairs, pairs \subseteq Profiles \X ProviderIds, HasSettled(doc, pairs)
  PROVE  HasSettled(Changed(doc, c), SettledAfter(pairs, c))
<1> SUFFICES ASSUME NEW pair \in SettledAfter(pairs, c)
             PROVE  pair[2] \in DOMAIN AccountsIn(Changed(doc, c), pair[1])
  BY DEF HasSettled
<1>1. c.profile \in Profiles /\ c.provider \in ProviderIds BY DEF ChangeType
<1>2. CASE Creates(c)
  <2>1. \A q : AccountsIn(Changed(doc, c), q) =
            IF q = c.profile
            THEN Assigned(AccountsIn(doc, q), {c.provider}, AddedAccount(c))
            ELSE AccountsIn(doc, q)
    BY <1>2, AddedAccounts DEF Changed, Creates
  <2>2. DOMAIN AccountsIn(Changed(doc, c), c.profile)
          = DOMAIN AccountsIn(doc, c.profile) \cup {c.provider}
    BY <2>1 DEF Assigned
  <2>3. pair \in pairs \/ pair = <<c.profile, c.provider>> BY <1>2 DEF SettledAfter
  <2> QED BY <2>1, <2>2, <2>3 DEF HasSettled
<1>3. CASE ~ Creates(c)
  <2>1. /\ pair \in pairs
        /\ c.op = "remove" => pair # <<c.profile, c.provider>>
        /\ c.op = "delete" => pair \notin {c.profile} \X ProviderIds
    BY <1>3 DEF SettledAfter, Creates
  <2>2. pair[2] \in DOMAIN AccountsIn(doc, pair[1]) /\ pair \in Profiles \X ProviderIds
    BY <2>1 DEF HasSettled
  <2>3. pair = <<pair[1], pair[2]>> /\ pair[1] \in Profiles /\ pair[2] \in ProviderIds
    BY <2>2
  <2>4. \A q : AccountsIn(Changed(doc, c), q) =
                 IF q = c.profile THEN NewAccounts(doc, c) ELSE AccountsIn(doc, q)
    BY <1>3, ChangedAccounts
  <2>5. pair[1] = c.profile => pair[2] \in DOMAIN NewAccounts(doc, c)
    <3> SUFFICES ASSUME pair[1] = c.profile
                 PROVE  pair[2] \in DOMAIN NewAccounts(doc, c)
      OBVIOUS
    <3>1. c.op # "delete" BY <2>1, <2>3
    <3>2. c.op = "remove" => pair[2] # c.provider BY <2>1, <2>3
    <3> DEFINE old == AccountsIn(doc, c.profile)
    <3>3. \/ \E account : NewAccounts(doc, c) = Assigned(old, {c.provider}, account)
          \/ c.op = "remove" /\ NewAccounts(doc, c) = Without(old, {c.provider})
          \/ NewAccounts(doc, c) = old
      BY <3>1 DEF NewAccounts
    <3>4. pair[2] \in DOMAIN old BY <2>2
    <3> HIDE DEF old
    <3> QED BY <3>2, <3>3, <3>4 DEF Assigned, Without
  <2> QED BY <2>2, <2>4, <2>5
<1> QED BY <1>2, <1>3

\* A change puts into the store what its copy needs more, and takes out what
\* nobody else needs.
LEMMA ChangeFinds ==
  ASSUME NEW doc, GoodDocument(doc), NEW c \in ChangeType, Allowed(doc, c),
         Shared(doc) \subseteq exempt, FindsSecrets(doc, secrets, exempt)
  PROVE  FindsSecrets(Changed(doc, c), (secrets \cup Stores(c)) \ Discards(doc, c),
                      exempt \cup Shared(Changed(doc, c)) \cup Keyless(c))
<1> DEFINE new == Changed(doc, c)
           old == AccountsIn(doc, c.profile)
<1> SUFFICES ASSUME NEW p \in Profiles, NEW i \in DOMAIN AccountsIn(new, p),
                    i \notin exempt, i \notin Keyless(c), AccountsIn(new, p)[i].ref
             PROVE  i \in secrets \cup Stores(c) /\ i \notin Discards(doc, c)
  BY DEF FindsSecrets
<1>0. /\ c.profile \in Profiles /\ c.provider \in ProviderIds /\ c.op \in Operations
      /\ c.auth \in {"secret", "none"} /\ c.key \in {"given", "empty", "missing"}
  BY DEF ChangeType
<1>1. /\ c.op = "delete" => Discards(doc, c) \subseteq DOMAIN old
      /\ c.op = "remove" => Discards(doc, c) \subseteq {c.provider}
      /\ c.op = "update" /\ Clears(c) => Discards(doc, c) \subseteq {c.provider}
      /\ c.op = "update" /\ ~ Clears(c) => Discards(doc, c) = {}
      /\ c.op \notin {"delete", "remove", "update"} => Discards(doc, c) = {}
  <2>1. CASE c.op = "delete" BY <2>1 DEF Discards, AccountsIn
  <2>2. CASE c.op = "remove" BY <2>2 DEF Discards
  <2>3. CASE c.op = "update" /\ Clears(c) BY <2>3 DEF Discards
  <2>4. CASE c.op = "update" /\ ~ Clears(c) BY <2>4 DEF Discards
  <2>5. CASE c.op \notin {"delete", "remove", "update"} BY <2>5 DEF Discards
  <2> QED BY <2>1, <2>2, <2>3, <2>4, <2>5
<1>2. c.op \in {"remove", "update"} => c.provider \in DOMAIN old /\ c.profile \in DOMAIN doc.profiles
  BY DEF Allowed, Creates, AccountsIn, ProfileIn
<1>3. Discards(doc, c) \subseteq DOMAIN old BY <1>1, <1>2
<1>4. ASSUME NEW q \in Profiles, i \in DOMAIN AccountsIn(doc, q), AccountsIn(doc, q)[i].ref
      PROVE  i \in secrets
  BY <1>4 DEF FindsSecrets
<1>5. CASE p # c.profile
  <2>1. AccountsIn(new, p) = AccountsIn(doc, p)
    <3>1. CASE Creates(c)
      <4>1. Changed(doc, c) = Added(doc, c) BY <3>1 DEF Changed, Creates
      <4>2. \A q : AccountsIn(Added(doc, c), q) =
                IF q = c.profile THEN Assigned(AccountsIn(doc, q), {c.provider}, AddedAccount(c))
                                 ELSE AccountsIn(doc, q)
        BY AddedAccounts
      <4> QED BY <1>5, <4>1, <4>2, Zenon
    <3>2. CASE ~ Creates(c) BY <1>5, <3>2, ChangedAccounts
    <3> QED BY <3>1, <3>2
  <2>2. i \in secrets BY <1>4, <2>1
  <2>3. i \notin Discards(doc, c)
    <3> SUFFICES ASSUME i \in Discards(doc, c) PROVE FALSE OBVIOUS
    <3>1. i \in DOMAIN AccountsIn(doc, p) /\ i \in DOMAIN AccountsIn(doc, c.profile)
      BY <1>3, <2>1
    <3>2. p \in DOMAIN doc.profiles /\ c.profile \in DOMAIN doc.profiles /\ i \in ProviderIds
      BY <3>1, AccountsKnown
    <3>3. i \in Shared(doc) BY <1>5, <3>1, <3>2 DEF Shared, AccountsIn, ProfileIn
    <3> QED BY <3>3
  <2> QED BY <2>2, <2>3
<1>6. CASE p = c.profile /\ Creates(c)
  <2>1. AccountsIn(new, p) = Assigned(old, {c.provider}, AddedAccount(c))
    BY <1>6, AddedAccounts DEF Changed, Creates
  <2>2. Discards(doc, c) = {} BY <1>1, <1>6 DEF Creates
  <2>3. CASE i = c.provider
    <3>1. AccountsIn(new, p)[i] = AddedAccount(c) BY <2>1, <2>3 DEF Assigned
    <3>2. c.auth = "secret" BY <3>1, NewAccountRefs
    <3>3. c.key = "given" BY <1>6, <2>3, <3>2 DEF Keyless, Creates, Allowed
    <3> QED BY <1>6, <2>2, <2>3, <3>2, <3>3 DEF Stores, Creates
  <2>4. CASE i # c.provider
    <3>1. i \in DOMAIN old /\ AccountsIn(new, p)[i] = old[i] BY <2>1, <2>4 DEF Assigned
    <3> QED BY <1>0, <1>4, <2>2, <3>1
  <2> QED BY <2>3, <2>4
<1>7. CASE p = c.profile /\ ~ Creates(c)
  <2>1. AccountsIn(new, p) = NewAccounts(doc, c) BY <1>7, ChangedAccounts
  <2>2. CASE c.op = "update"
    <3>1. AccountsIn(new, p) = Assigned(old, {c.provider}, UpdatedAccount(c, old[c.provider]))
      BY <2>1, <2>2 DEF NewAccounts
    <3>2. CASE i = c.provider
      <4>1. AccountsIn(new, p)[i] = UpdatedAccount(c, old[c.provider])
        BY <3>1, <3>2 DEF Assigned
      <4>2. ~Clears(c) /\ (c.key = "given" \/ old[c.provider].ref)
        BY <4>1, NewAccountRefs
      <4>3. ~ Clears(c) /\ c.auth = "secret" /\ Discards(doc, c) = {}
        BY <1>0, <1>1, <2>2, <4>2 DEF Clears
      <4>4. CASE c.key = "given" BY <2>2, <3>2, <4>3, <4>4 DEF Stores
      <4>5. CASE c.key # "given"
        <5>1. old[c.provider].ref BY <4>2, <4>5
        <5> QED BY <1>0, <1>2, <1>4, <2>2, <3>2, <4>3, <5>1
      <4> QED BY <4>4, <4>5
    <3>3. CASE i # c.provider
      <4>1. i \in DOMAIN old /\ AccountsIn(new, p)[i] = old[i]
        BY <3>1, <3>3 DEF Assigned
      <4> QED BY <1>0, <1>1, <1>4, <2>2, <3>3, <4>1
    <3> QED BY <3>2, <3>3
  <2>3. CASE c.op = "rotate"
    <3>1. AccountsIn(new, p) = Assigned(old, {c.provider}, Account("secret", TRUE))
      BY <2>1, <2>3 DEF NewAccounts
    <3>2. CASE i = c.provider BY <1>1, <2>3, <3>2 DEF Stores
    <3>3. CASE i # c.provider
      <4>1. i \in DOMAIN old /\ AccountsIn(new, p)[i] = old[i]
        BY <3>1, <3>3 DEF Assigned
      <4> QED BY <1>0, <1>1, <1>4, <2>3, <4>1
    <3> QED BY <3>2, <3>3
  <2>4. CASE c.op = "remove"
    <3>1. AccountsIn(new, p) = Without(old, {c.provider}) BY <2>1, <2>4 DEF NewAccounts
    <3>2. i # c.provider /\ i \in DOMAIN old /\ AccountsIn(new, p)[i] = old[i]
      BY <3>1 DEF Without
    <3> QED BY <1>0, <1>1, <1>4, <2>4, <3>2
  <2>5. CASE c.op = "delete"
    <3>1. DOMAIN AccountsIn(new, p) = {} BY <2>1, <2>5 DEF NewAccounts, NewProfile
    <3> QED BY <3>1
  <2>6. CASE c.op \notin {"update", "rotate", "remove", "delete"}
    <3>1. AccountsIn(new, p) = old BY <2>1, <2>6 DEF NewAccounts
    <3> QED BY <1>0, <1>1, <1>4, <2>6, <3>1
  <2> QED BY <2>2, <2>3, <2>4, <2>5, <2>6
<1> QED BY <1>5, <1>6, <1>7

----------------------------------------------------------------------------
LEMMA LoadServes ==
  ASSUME ServeInv, NEW w \in Writers, NEW c \in Changes, Load(w, c)
  PROVE  Undisturbed'
<1> SUFFICES ASSUME ~ disturbed'
             PROVE  /\ (\A v, u \in Active : v = u)'
                    /\ (Active = {})' => AtRest'
                    /\ \A v \in Active' : \E d \in ChangeType : Carries(v, d)'
  BY DEF Undisturbed
<1> DEFINE doc == LoadedFor(c)
           new == [at |-> "secrets", copy |-> Changed(doc, c), put |-> Stores(c),
                   drop |-> Discards(doc, c), change |-> {c}]
<1>1. ~ disturbed /\ Active = {} BY DEF Load, ServeInv
<1>2. AtRest BY <1>1 DEF ServeInv, Undisturbed
<1>3. /\ GoodDocument(doc) /\ Shared(doc) \subseteq exempt
      /\ HasSettled(doc, settled') /\ FindsSecrets(doc, secrets, exempt)
  <2>1. CASE Readable
    BY <1>2, <2>1 DEF Load, LoadedFor, AtRest, ServeInv, DocumentInv, GoodDocument
  <2>2. CASE ~Readable
    <3>1. doc = NewDocument /\ settled' = {} BY <2>2 DEF Load, LoadedFor
    <3>2. DOMAIN NewDocument.profiles = {} /\ \A p : DOMAIN AccountsIn(NewDocument, p) = {}
      BY DEF NewDocument, AccountsIn, ProfileIn, NewProfile
    <3> HIDE DEF doc
    <3> QED BY <3>1, <3>2, NewDocumentGood DEF Shared, HasSettled, FindsSecrets
  <2> QED BY <2>1, <2>2
<1>4. /\ c \in ChangeType /\ Allowed(doc, c)
      /\ writer' = [writer EXCEPT ![w] = new]
      /\ settled' \subseteq Profiles \X ProviderIds
      /\ UNCHANGED <<file, secrets, exempt>>
  BY ProfilesAssumption DEF Load, ServeInv
<1>5. HasSettled(Changed(doc, c), SettledAfter(settled', c))
  <2> PICK pairs : pairs = settled' OBVIOUS
  <2> QED BY <1>3, <1>4, ChangeSettles
<1>6. FindsSecrets(Changed(doc, c), (secrets \cup Stores(c)) \ Discards(doc, c),
                   exempt \cup Shared(Changed(doc, c)) \cup Keyless(c))
  BY <1>3, <1>4, ChangeFinds
<1>7. /\ new.at = "secrets" /\ new.copy = Changed(doc, c) /\ new.put = Stores(c)
      /\ new.drop = Discards(doc, c) /\ new.change = {c}
  OBVIOUS
<1> HIDE DEF new, doc
<1>8. writer'[w] = new /\ \A v \in Writers \ {w} : writer'[v] = writer[v]
  BY <1>4 DEF ServeInv, DocumentInv
<1>9. Active' = {w} BY <1>1, <1>7, <1>8 DEF Active, Idle
<1>10. Carries(w, c)'
  BY <1>4, <1>5, <1>6, <1>7, <1>8 DEF Carries, SettledAfter, HasSettled, FindsSecrets, Shared
<1> QED BY <1>4, <1>9, <1>10

\* A writer goes on with its change.
LEMMA StillCarries ==
  ASSUME ServeInv, NEW w \in Writers, writer[w] # Idle, ~ disturbed, UNCHANGED <<settled, exempt>>,
         NEW next \in WriterType, writer' = [writer EXCEPT ![w] = next], ~ disturbed',
         next.copy = writer[w].copy, next.change = writer[w].change,
         next.at \in {"secrets", "write"},
         next.at = "write" => next.put = {} /\ next.drop = {} /\ file'.is = "empty",
         (secrets \cup writer[w].put) \ writer[w].drop \subseteq (secrets' \cup next.put) \ next.drop
  PROVE  Undisturbed'
<1>1. Active = {w} /\ \E c \in ChangeType : Carries(w, c)
  BY DEF ServeInv, Undisturbed, Active
<1>2. PICK c \in ChangeType : Carries(w, c) BY <1>1
<1>3. writer'[w] = next /\ \A v \in Writers \ {w} : writer'[v] = writer[v]
  BY DEF ServeInv, DocumentInv
<1>4. Active' = {w} BY <1>1, <1>3 DEF Active, Idle
<1>5. Carries(w, c)'
  <2>1. PICK doc \in DocumentType : doc = writer[w].copy
    BY DEF ServeInv, DocumentInv, WriterType
  <2>2. writer'[w].copy = doc BY <1>3, <2>1
  <2>3. HasSettled(doc, SettledAfter(settled', c)) BY <1>2, <2>1 DEF Carries
  <2>5. FindsSecrets(doc, (secrets' \cup next.put) \ next.drop,
                     exempt \cup Shared(doc) \cup Keyless(c))
    BY <1>2, <2>1 DEF Carries, FindsSecrets
  <2> QED BY <1>2, <1>3, <2>2, <2>3, <2>5 DEF Carries
<1> QED BY <1>4, <1>5 DEF Undisturbed

\* The document is written, and nobody carries out anything.
LEMMA WriteServes ==
  ASSUME ServeInv, NEW w \in Writers, WriteDocument(w)
  PROVE  settled' \subseteq Profiles \X ProviderIds /\ Undisturbed'
<1>1. PICK c \in writer[w].change :
         /\ settled' = SettledAfter(settled, c)
         /\ exempt' = exempt \cup Shared(writer[w].copy) \cup Keyless(c)
  BY DEF WriteDocument, Keyless
<1>2. /\ writer[w].at = "write" /\ writer' = [writer EXCEPT ![w] = Idle]
      /\ UNCHANGED <<secrets, disturbed>>
      /\ file.is = "empty" => file' = Contents("document", writer[w].copy)
  BY DEF WriteDocument
<1>3. c \in ChangeType BY DEF ServeInv, DocumentInv, WriterType
<1>4. settled' \subseteq Profiles \X ProviderIds
  BY <1>1, <1>3 DEF SettledAfter, ServeInv, ChangeType
<1>5. Undisturbed'
  <2> SUFFICES ASSUME ~ disturbed'
               PROVE  Active' = {} /\ AtRest'
    BY DEF Undisturbed
  <2>1. w \in Active /\ ~ disturbed BY <1>2 DEF Active, Idle
  <2>2. Active = {w} /\ \E d \in ChangeType : Carries(w, d)
    BY <2>1 DEF ServeInv, Undisturbed
  <2>3. Carries(w, c) BY <1>1, <2>2 DEF Carries
  <2>4. Active' = {} BY <1>2, <2>2 DEF Active, ServeInv, DocumentInv
  <2>5. PICK doc \in DocumentType : doc = writer[w].copy
    BY DEF ServeInv, DocumentInv, WriterType
  <2>6. file'.is = "document" /\ file'.doc = doc
    BY <1>2, <2>3, <2>5 DEF Carries, Contents
  <2>7. /\ Shared(doc) \subseteq exempt'
        /\ HasSettled(doc, settled')
        /\ FindsSecrets(doc, secrets', exempt')
    BY <1>1, <1>2, <2>3, <2>5 DEF Carries
  <2> QED BY <2>4, <2>6, <2>7 DEF AtRest
<1> QED BY <1>4, <1>5

LEMMA ServeInvNext == ServeInv /\ [ProfilesNext]_profileVars => ServeInv'
<1> SUFFICES ASSUME ServeInv, [ProfilesNext]_profileVars PROVE ServeInv' OBVIOUS
<1>1. DocumentInv' BY DocumentStep DEF ServeInv
<1>2. CASE UNCHANGED profileVars
  BY <1>1, <1>2 DEF ServeInv, Undisturbed, AtRest, Carries, Active, SettledAfter, profileVars
<1>3. ASSUME NEW w \in Writers, NEW c \in Changes, Load(w, c)
      PROVE  ServeInv'
  <2>1. disturbed' \in BOOLEAN /\ settled' \subseteq Profiles \X ProviderIds
    BY <1>3 DEF Load, ServeInv
  <2> QED BY <1>1, <1>3, <2>1, LoadServes DEF ServeInv
<1>4. ASSUME NEW w \in Writers, StoreSecret(w)
      PROVE  ServeInv'
  <2> DEFINE next == [writer[w] EXCEPT !.put = {}]
  <2>1. /\ writer[w].put # {} /\ secrets' = secrets \cup writer[w].put
        /\ writer' = [writer EXCEPT ![w] = next]
        /\ UNCHANGED <<file, disturbed, settled, exempt>>
    BY <1>4 DEF StoreSecret
  <2>2. writer[w] \in WriterType /\ writer[w] # Idle
    BY <2>1 DEF ServeInv, DocumentInv, Idle
  <2>3. /\ next \in WriterType /\ next.copy = writer[w].copy /\ next.change = writer[w].change
        /\ next.at = writer[w].at /\ next.put = {} /\ next.drop = writer[w].drop
    BY <2>2 DEF WriterType
  <2> HIDE DEF next
  <2>4. ASSUME ~ disturbed
        PROVE  writer[w].at = "secrets"
    BY <2>1, <2>2, <2>4 DEF ServeInv, Undisturbed, Active, Carries
  <2>5. Undisturbed'
    <3> SUFFICES ASSUME ~ disturbed' PROVE Undisturbed' BY DEF Undisturbed
    <3>1. ~ disturbed /\ next.at = "secrets" BY <2>1, <2>3, <2>4
    <3> QED BY <2>1, <2>2, <2>3, <3>1, StillCarries
  <2> QED BY <1>1, <2>1, <2>5 DEF ServeInv
<1>5. ASSUME NEW w \in Writers, NEW id \in ProviderIds, DeleteSecret(w, id)
      PROVE  ServeInv'
  <2> DEFINE next == [writer[w] EXCEPT !.drop = @ \ {id}]
  <2>1. /\ id \in writer[w].drop /\ secrets' = secrets \ {id}
        /\ writer' = [writer EXCEPT ![w].drop = @ \ {id}]
        /\ UNCHANGED <<file, disturbed, settled, exempt>>
    BY <1>5 DEF DeleteSecret
  <2>2. writer[w] \in WriterType /\ writer[w] # Idle
    BY <2>1 DEF ServeInv, DocumentInv, Idle
  <2>3. /\ next \in WriterType /\ next.copy = writer[w].copy /\ next.change = writer[w].change
        /\ next.at = writer[w].at /\ next.put = writer[w].put
        /\ next.drop = writer[w].drop \ {id}
    BY <2>2 DEF WriterType
  <2>4. writer' = [writer EXCEPT ![w] = next] BY <2>1
  <2> HIDE DEF next
  <2>5. ASSUME ~ disturbed
        PROVE  writer[w].at = "secrets"
    BY <2>1, <2>2, <2>5 DEF ServeInv, Undisturbed, Active, Carries
  <2>6. Undisturbed'
    <3> SUFFICES ASSUME ~ disturbed' PROVE Undisturbed' BY DEF Undisturbed
    <3>1. ~ disturbed /\ next.at = "secrets" BY <2>1, <2>3, <2>5
    <3>2. (secrets \cup writer[w].put) \ writer[w].drop
            \subseteq (secrets' \cup next.put) \ next.drop
      BY <2>1, <2>3
    <3> QED BY <2>1, <2>2, <2>3, <2>4, <3>1, <3>2, StillCarries
  <2> QED BY <1>1, <2>1, <2>6 DEF ServeInv
<1>6. ASSUME NEW w \in Writers, Truncate(w)
      PROVE  ServeInv'
  <2> DEFINE next == [writer[w] EXCEPT !.at = "write"]
  <2>1. /\ writer[w].at = "secrets" /\ writer[w].put = {} /\ writer[w].drop = {}
        /\ file'.is = "empty" /\ writer' = [writer EXCEPT ![w] = next]
        /\ UNCHANGED <<secrets, disturbed, settled, exempt>>
    BY <1>6 DEF Truncate, Contents
  <2>2. writer[w] \in WriterType /\ writer[w] # Idle
    BY <2>1 DEF ServeInv, DocumentInv, Idle
  <2>3. /\ next \in WriterType /\ next.copy = writer[w].copy /\ next.change = writer[w].change
        /\ next.at = "write" /\ next.put = {} /\ next.drop = {}
    BY <2>1, <2>2 DEF WriterType
  <2> HIDE DEF next
  <2>4. Undisturbed'
    <3> SUFFICES ASSUME ~ disturbed' PROVE Undisturbed' BY DEF Undisturbed
    <3> QED BY <2>1, <2>2, <2>3, StillCarries
  <2> QED BY <1>1, <2>1, <2>4 DEF ServeInv
<1>7. ASSUME NEW w \in Writers, WriteDocument(w)
      PROVE  ServeInv'
  BY <1>1, <1>7, WriteServes DEF WriteDocument, ServeInv
<1>8. ASSUME NEW w \in Writers, CutOff(w)
      PROVE  ServeInv'
  BY <1>1, <1>8 DEF CutOff, ServeInv, Undisturbed
<1> QED BY <1>2, <1>3, <1>4, <1>5, <1>6, <1>7, <1>8 DEF ProfilesNext

LEMMA InitServeInv == ProfilesInit => ServeInv
<1> SUFFICES ASSUME ProfilesInit PROVE ServeInv OBVIOUS
<1>1. DocumentInv /\ disturbed \in BOOLEAN /\ settled = {}
  BY DocumentStarts DEF ProfilesInit
<1>2. Active = {} /\ file.is = "missing" /\ file.doc = NewDocument
  BY DEF ProfilesInit, Active, Contents
<1>3. DOMAIN NewDocument.profiles = {} /\ \A p : DOMAIN AccountsIn(NewDocument, p) = {}
  BY DEF NewDocument, AccountsIn, ProfileIn, NewProfile
<1>4. AtRest BY <1>1, <1>2, <1>3 DEF AtRest, Shared, HasSettled, FindsSecrets
<1> QED BY <1>1, <1>2, <1>4 DEF ServeInv, Undisturbed

LEMMA NothingLost == ServeInv => AloneNothingLost
<1> SUFFICES ASSUME ServeInv, ~ disturbed, Active = {}
             PROVE  /\ Readable \/ settled = {} \/ Spoilt(file.doc) # {}
                    /\ \A pair \in settled :
                         pair[2] \in DOMAIN ProfileIn(file.doc, pair[1]).providers
                    /\ \A p \in DOMAIN file.doc.profiles :
                         \A i \in DOMAIN file.doc.profiles[p].providers \ exempt :
                           file.doc.profiles[p].providers[i].ref => i \in secrets
  BY DEF AloneNothingLost
<1>1. AtRest BY DEF ServeInv, Undisturbed
<1>2. DOMAIN file.doc.profiles \subseteq Profiles
  BY PartialFunction DEF ServeInv, DocumentInv, DocumentType
<1>3. Readable \/ settled = {} \/ Spoilt(file.doc) # {}
  BY <1>1 DEF AtRest, Readable, Loads, ServeInv, DocumentInv, Coherent
<1> QED BY <1>1, <1>2, <1>3 DEF AtRest, HasSettled, FindsSecrets, AccountsIn, ProfileIn

----------------------------------------------------------------------------
(* The readiness check.                                                    *)

\* What a profile misses.
Misses(profile) == Cardinality(MissingRoles(profile)) + Cardinality(MissingSecrets(profile))

LEMMA FewerIn ==
  ASSUME NEW S, IsFiniteSet(S), NEW T \in SUBSET S
  PROVE  /\ IsFiniteSet(T) /\ Cardinality(T) \in Nat /\ Cardinality(S) \in Nat
         /\ Cardinality(T) <= Cardinality(S)
         /\ T # S => Cardinality(T) < Cardinality(S)
<1>1. /\ IsFiniteSet(T) /\ Cardinality(T) <= Cardinality(S)
      /\ Cardinality(S) = Cardinality(T) => S = T
  BY FS_Subset
<1>2. Cardinality(T) \in Nat /\ Cardinality(S) \in Nat BY <1>1, FS_CardinalityType
<1> QED BY <1>1, <1>2

LEMMA RolesFinite == IsFiniteSet(Roles)
<1>1. IsFiniteSet({}) /\ Roles = (({} \cup {"planner"}) \cup {"executor"}) \cup {"verifier"}
  BY FS_EmptySet DEF Roles
<1>2. IsFiniteSet({} \cup {"planner"}) BY <1>1, FS_AddElement
<1>3. IsFiniteSet(({} \cup {"planner"}) \cup {"executor"}) BY <1>2, FS_AddElement
<1>4. IsFiniteSet((({} \cup {"planner"}) \cup {"executor"}) \cup {"verifier"})
  BY <1>3, FS_AddElement
<1> QED BY <1>1, <1>4

\* Missing less of one and nothing more of the other is missing less.
LEMMA MissesLess ==
  ASSUME NEW old, GoodProfile(old), NEW new,
         MissingRoles(new) \subseteq MissingRoles(old),
         MissingSecrets(new) \subseteq MissingSecrets(old),
         MissingRoles(new) # MissingRoles(old) \/ MissingSecrets(new) # MissingSecrets(old)
  PROVE  Misses(new) < Misses(old)
<1>1. IsFiniteSet(MissingRoles(old)) BY RolesFinite, FS_Subset DEF MissingRoles
<1>2. IsFiniteSet(MissingSecrets(old))
  <2>1. DOMAIN old.providers \subseteq ProviderIds
    BY PartialFunction DEF GoodProfile, ProfileType, Accounts
  <2>2. MissingSecrets(old) \in SUBSET ProviderIds BY <2>1 DEF MissingSecrets
  <2> QED BY <2>2, ProfilesAssumption, FS_Subset
<1>3. /\ Cardinality(MissingRoles(new)) \in Nat /\ Cardinality(MissingRoles(old)) \in Nat
      /\ Cardinality(MissingRoles(new)) <= Cardinality(MissingRoles(old))
      /\ MissingRoles(new) # MissingRoles(old) =>
           Cardinality(MissingRoles(new)) < Cardinality(MissingRoles(old))
  BY <1>1, FewerIn
<1>4. /\ Cardinality(MissingSecrets(new)) \in Nat /\ Cardinality(MissingSecrets(old)) \in Nat
      /\ Cardinality(MissingSecrets(new)) <= Cardinality(MissingSecrets(old))
      /\ MissingSecrets(new) # MissingSecrets(old) =>
           Cardinality(MissingSecrets(new)) < Cardinality(MissingSecrets(old))
  BY <1>2, FewerIn
<1> QED BY <1>3, <1>4 DEF Misses

\* What the check says of a profile, and what it advises.
LEMMA StatusOf ==
  ASSUME NEW doc, GoodDocument(doc), NEW p, NEW profile, profile = ProfileIn(doc, p)
  PROVE  /\ DOMAIN profile.providers = {} =>
              Readiness(doc, p) = "needs_provider" /\ DOMAIN profile.models = {}
         /\ DOMAIN profile.providers # {} /\ DOMAIN profile.models = {} =>
              Readiness(doc, p) = "needs_model"
         /\ DOMAIN profile.models # {} /\ MissingSecrets(profile) # {} =>
              Readiness(doc, p) = "needs_secret"
         /\ DOMAIN profile.models # {} /\ MissingSecrets(profile) = {} /\ MissingRoles(profile) # {} =>
              Readiness(doc, p) = "needs_roles"
         /\ DOMAIN profile.models # {} /\ MissingSecrets(profile) = {} /\ MissingRoles(profile) = {} =>
              Readiness(doc, p) = IF \A r \in DOMAIN profile.models : Resolves(doc, p, r)
                                  THEN "ready" ELSE "model_failed"
<1>1. DOMAIN profile.models # {} => DOMAIN profile.providers # {}
  BY ProfileInGood DEF GoodProfile, CoherentProfile
<1>2. CASE DOMAIN profile.providers = {} BY <1>1, <1>2 DEF Readiness
<1>3. CASE DOMAIN profile.providers # {} /\ DOMAIN profile.models = {}
  BY <1>3 DEF Readiness
<1>4. CASE DOMAIN profile.models # {} /\ MissingSecrets(profile) # {}
  BY <1>1, <1>4 DEF Readiness
<1>5. CASE DOMAIN profile.models # {} /\ MissingSecrets(profile) = {} /\ MissingRoles(profile) # {}
  BY <1>1, <1>5 DEF Readiness
<1>6. CASE DOMAIN profile.models # {} /\ MissingSecrets(profile) = {} /\ MissingRoles(profile) = {}
  BY <1>1, <1>6 DEF Readiness
<1> QED BY <1>2, <1>3, <1>4, <1>5, <1>6

\* Every command that the check advises is accepted, and brings the profile closer.
LEMMA AdviceWorks ==
  ASSUME NEW doc, GoodDocument(doc), doc.default = DefaultProfile,
         NEW c \in NextActions(doc, DefaultProfile)
  PROVE  /\ Allowed(doc, c)
         /\ Misses(ProfileIn(Changed(doc, c), DefaultProfile)) < Misses(ProfileIn(doc, DefaultProfile))
<1>1. PICK old : old = ProfileIn(doc, DefaultProfile) OBVIOUS
<1>2. /\ GoodProfile(old) /\ DefaultProfile \in Profiles
      /\ DOMAIN old.providers \subseteq ProviderIds
      /\ old.models \in Bindings
  BY <1>1, ProfileInGood, PartialFunction, ProfilesAssumption DEF GoodProfile, ProfileType, Accounts
<1>3. DOMAIN old.providers # {} =>
        DefaultProfile \in DOMAIN doc.profiles /\ old = doc.profiles[DefaultProfile]
  BY <1>1 DEF ProfileIn, NewProfile
<1> DEFINE found == Readiness(doc, DefaultProfile)
           new == ProfileIn(Changed(doc, c), DefaultProfile)
<1>4. found \in {"needs_provider", "needs_secret", "needs_model", "needs_roles"}
  BY DEF NextActions
<1>5. CASE DOMAIN old.providers = {}
  <2>1. found = "needs_provider" /\ DOMAIN old.models = {} BY <1>1, <1>5, StatusOf
  <2>2. PICK i \in ProviderIds : c = Change("add", DefaultProfile, i, {"planner"}, "secret", "given")
    BY <2>1 DEF NextActions
  <2>3. /\ c.op = "add" /\ c.profile = DefaultProfile /\ c.provider = i /\ c.roles = {"planner"}
        /\ c.auth = "secret" /\ c.key = "given" /\ c \in ChangeType
    <3>1. /\ c = [op |-> "add", profile |-> DefaultProfile, provider |-> i, roles |-> {"planner"},
                  auth |-> "secret", key |-> "given", valid |-> TRUE]
          /\ {"planner"} \in SUBSET Roles
      BY <2>2 DEF Change, Roles
    <3>2. c \in ChangeType BY <1>2, <3>1 DEF ChangeType, Operations
    <3> QED BY <3>1, <3>2
  <2>4. Changed(doc, c) = Added(doc, c) /\ Allowed(doc, c)
    <3>1. c.valid BY <2>2 DEF Change
    <3> QED BY <2>3, <3>1 DEF Changed, Allowed, Creates
  <2>5. /\ new.providers = Assigned(old.providers, {i}, AddedAccount(c))
        /\ new.models = Assigned(old.models, {"planner"}, i)
    BY <1>1, <2>3, <2>4, AddedFields
  <2> HIDE DEF new
  <2>6. AddedAccount(c).ref BY <2>3 DEF AddedAccount, Account
  <2>7. /\ DOMAIN new.providers = {i} /\ new.providers[i] = AddedAccount(c)
        /\ DOMAIN new.models = {"planner"}
    BY <1>5, <2>1, <2>5 DEF Assigned
  <2>8. MissingSecrets(new) = {} BY <2>6, <2>7 DEF MissingSecrets
  <2>9. MissingRoles(new) \subseteq MissingRoles(old) /\ MissingRoles(new) # MissingRoles(old)
    BY <2>1, <2>7 DEF MissingRoles, Roles
  <2>10. Misses(new) < Misses(old) BY <1>2, <2>8, <2>9, MissesLess
  <2> QED BY <1>1, <2>4, <2>10 DEF new
<1>6. CASE DOMAIN old.models # {} /\ MissingSecrets(old) # {}
  <2>1. found = "needs_secret" BY <1>1, <1>6, StatusOf
  <2>2. PICK i \in MissingSecrets(old) : c = Change("rotate", DefaultProfile, i, {}, "secret", "given")
    BY <1>1, <2>1 DEF NextActions
  <2>3. i \in DOMAIN old.providers /\ old.providers[i].auth = "secret" /\ ~ old.providers[i].ref
    BY DEF MissingSecrets
  <2>4. /\ c.op = "rotate" /\ c.profile = DefaultProfile /\ c.provider = i /\ c.valid
    BY <2>2 DEF Change
  <2>5. Allowed(doc, c) BY <1>3, <2>3, <2>4 DEF Allowed, Creates
  <2>6. PICK account : account = Account("secret", TRUE) OBVIOUS
  <2>7. new = WithAccount(old, i, account)
    <3>1. Changed(doc, c) = Replaced(doc, DefaultProfile, WithAccount(old, i, account))
      BY <1>3, <2>3, <2>4, <2>6 DEF Changed, Rotated
    <3>2. ProfileIn(Replaced(doc, DefaultProfile, WithAccount(old, i, account)), DefaultProfile)
            = WithAccount(old, i, account)
      BY <1>2, ReplacedProfile
    <3> QED BY <3>1, <3>2
  <2> HIDE DEF new
  <2>8. /\ new.providers = Assigned(old.providers, {i}, account)
        /\ new.models = old.models
    <3>1. /\ WithAccount(old, i, account).providers = Assigned(old.providers, {i}, account)
          /\ WithAccount(old, i, account).models = old.models
      BY <1>2, AccountFields
    <3> QED BY <2>7, <3>1
  <2>9. /\ DOMAIN new.providers = DOMAIN old.providers /\ new.providers[i].ref
        /\ \A j \in DOMAIN old.providers \ {i} : new.providers[j] = old.providers[j]
    BY <2>3, <2>6, <2>8 DEF Assigned, Account
  <2>10. /\ MissingSecrets(new) \subseteq MissingSecrets(old) /\ i \notin MissingSecrets(new)
         /\ MissingRoles(new) = MissingRoles(old)
    BY <2>8, <2>9 DEF MissingSecrets, MissingRoles
  <2>11. Misses(new) < Misses(old) BY <1>2, <2>10, MissesLess
  <2> QED BY <1>1, <2>5, <2>11 DEF new
<1>7. CASE /\ DOMAIN old.providers # {}
           /\ DOMAIN old.models = {} \/ MissingSecrets(old) = {}
  <2>1. found \in {"needs_model", "needs_roles"} BY <1>1, <1>4, <1>7, StatusOf
  <2>2. PICK i \in DOMAIN old.providers, r \in MissingRoles(old) :
           c = Change("assign", DefaultProfile, i, {r}, "secret", "given")
    BY <1>1, <2>1 DEF NextActions
  <2>3. /\ c.op = "assign" /\ c.profile = DefaultProfile /\ c.provider = i /\ c.roles = {r}
        /\ c.valid
    BY <2>2 DEF Change
  <2>4. Allowed(doc, c) BY <1>3, <1>7, <2>2, <2>3 DEF Allowed, Creates
  <2>5. Changed(doc, c) = Replaced(doc, DefaultProfile, WithRoles(old, {r}, i))
    BY <1>3, <1>7, <2>3 DEF Changed, RolesAssigned
  <2>6. new = WithRoles(old, {r}, i) BY <1>2, <2>5, ReplacedProfile
  <2>7. new.providers = old.providers /\ new.models = Assigned(old.models, {r}, i)
    BY <1>2, <2>6, RoleFields
  <2> HIDE DEF new
  <2>8. DOMAIN new.models = DOMAIN old.models \cup {r} BY <2>7 DEF Assigned
  <2>9. /\ MissingSecrets(new) = MissingSecrets(old) /\ r \notin MissingRoles(new)
        /\ MissingRoles(new) \subseteq MissingRoles(old)
    BY <2>7, <2>8 DEF MissingSecrets, MissingRoles
  <2>10. Misses(new) < Misses(old) BY <1>2, <2>9, MissesLess
  <2> QED BY <1>1, <2>4, <2>10 DEF new
<1> QED BY <1>5, <1>6, <1>7

\* The advice to bind role r to provider i.
RoleAdvice(i, r) == Change("assign", DefaultProfile, i, {r}, "secret", "given")

\* The check is out of advice only when every role has a provider, and says
\* that the profile is ready only when each finds its secret.
LEMMA AdviceEnds ==
  ASSUME NEW doc, GoodDocument(doc), NextActions(doc, DefaultProfile) = {}
  PROVE  /\ Misses(ProfileIn(doc, DefaultProfile)) = 0
         /\ Readiness(doc, DefaultProfile) = "ready" =>
              \A r \in Roles : Resolves(doc, DefaultProfile, r)
<1>1. PICK old : old = ProfileIn(doc, DefaultProfile) OBVIOUS
<1> DEFINE found == Readiness(doc, DefaultProfile)
<1>2. /\ found = "needs_provider" => ProviderIds = {}
      /\ found = "needs_secret" => MissingSecrets(old) = {}
      /\ found \in {"needs_model", "needs_roles"} =>
           DOMAIN old.providers = {} \/ MissingRoles(old) = {}
  <2>1. CASE found = "needs_provider"
    <3>1. \A i \in ProviderIds :
            Change("add", DefaultProfile, i, {"planner"}, "secret", "given")
              \in NextActions(doc, DefaultProfile)
      BY <2>1 DEF NextActions
    <3> QED BY <2>1, <3>1
  <2>2. CASE found = "needs_secret"
    <3>1. \A i \in MissingSecrets(old) :
            Change("rotate", DefaultProfile, i, {}, "secret", "given")
              \in NextActions(doc, DefaultProfile)
      BY <1>1, <2>2 DEF NextActions
    <3> QED BY <2>2, <3>1
  <2>3. CASE found \in {"needs_model", "needs_roles"}
    <3>1. NextActions(doc, DefaultProfile)
            = {RoleAdvice(i, r) : i \in DOMAIN old.providers, r \in MissingRoles(old)}
      BY <1>1, <2>3 DEF NextActions, RoleAdvice
    <3>2. ASSUME NEW i \in DOMAIN old.providers, NEW r \in MissingRoles(old)
          PROVE  RoleAdvice(i, r) \in NextActions(doc, DefaultProfile)
      <4>1. RoleAdvice(i, r)
              \in {RoleAdvice(j, s) : j \in DOMAIN old.providers, s \in MissingRoles(old)}
        OBVIOUS
      <4> QED BY <3>1, <4>1
    <3> QED BY <2>3, <3>2
  <2> QED BY <2>1, <2>2, <2>3
<1>3. /\ DOMAIN old.models # {} /\ MissingSecrets(old) = {} /\ MissingRoles(old) = {}
  <2>1. DOMAIN old.providers # {} BY <1>1, <1>2, StatusOf, ProfilesAssumption
  <2>2. DOMAIN old.models # {} BY <1>1, <1>2, <2>1, StatusOf DEF MissingRoles, Roles
  <2>3. MissingSecrets(old) = {} BY <1>1, <1>2, <2>2, StatusOf
  <2>4. MissingRoles(old) = {} BY <1>1, <1>2, <2>1, <2>2, <2>3, StatusOf
  <2> QED BY <2>2, <2>3, <2>4
<1>4. Misses(old) = 0 BY <1>3, FS_EmptySet DEF Misses
<1>5. found = "ready" => \A r \in DOMAIN old.models : Resolves(doc, DefaultProfile, r)
  <2>1. found = IF \A r \in DOMAIN old.models : Resolves(doc, DefaultProfile, r)
                 THEN "ready" ELSE "model_failed"
    BY <1>1, <1>3, StatusOf
  <2> QED BY <2>1
<1> QED BY <1>1, <1>3, <1>4, <1>5 DEF MissingRoles

\* provider_commands, product_commands, readiness: changes that neither overlap
\* nor are cut off lose no provider and no secret, unless an update with a bad
\* value makes the document one that does not load; and whatever changed the
\* profiles, what the readiness check advises of a document that loads is accepted
\* and ends in a profile whose roles all have a provider.
THEOREM ProvidersAlwaysServe == ProfilesSpec => []ProvidersServe
<1>1. ServeInv => AdviceHelps
  <2> SUFFICES ASSUME ServeInv, file.doc.default = DefaultProfile
               PROVE  /\ \A c \in NextActions(file.doc, DefaultProfile) :
                           /\ Allowed(file.doc, c)
                           /\ Distance(Changed(file.doc, c), DefaultProfile)
                                < Distance(file.doc, DefaultProfile)
                      /\ NextActions(file.doc, DefaultProfile) = {} =>
                           /\ Distance(file.doc, DefaultProfile) = 0
                           /\ Readiness(file.doc, DefaultProfile) = "ready" =>
                                \A r \in Roles : Resolves(file.doc, DefaultProfile, r)
    BY DEF AdviceHelps
  <2>1. GoodDocument(file.doc) BY DEF ServeInv, DocumentInv, GoodDocument
  <2>2. \A d : Distance(d, DefaultProfile) = Misses(ProfileIn(d, DefaultProfile))
    BY DEF Distance, Misses
  <2> QED BY <2>1, <2>2, AdviceWorks, AdviceEnds
<1>2. ServeInv => ProvidersServe BY <1>1, NothingLost DEF ProvidersServe
<1> QED BY <1>2, InitServeInv, ServeInvNext, PTL DEF ProfilesSpec

----------------------------------------------------------------------------
(* The rate limiter.                                                       *)

CheckStages == {"new", "create", "read", "assign", "test", "append", "accepted", "refused"}

CheckRecords == [at : CheckStages, now : Nat, entry : Checks \cup {NoEntry}, kept : SUBSET Checks]

LimiterTypes ==
    /\ clock \in Nat
    /\ clients \in [Clients -> Checks \cup {NoEntry}]
    /\ requests \in [Checks -> SUBSET Checks]
    /\ check \in [Checks -> CheckRecords]
    /\ crowded \subseteq Checks

Holds(r) == check[r].at \in {"read", "assign", "test", "append"}

AcceptedOf(c) == {q \in Accepted : ClientOf[q] = c}

\* Checks that hold an entry have their client's, of which they keep recent
\* requests.
OwnOf(r) ==
    /\ Holds(r) => check[r].entry \in Checks /\ ClientOf[check[r].entry] = ClientOf[r]
    /\ Holds(r) \/ r \in Accepted => clients[ClientOf[r]] # NoEntry
    /\ check[r].kept \subseteq AcceptedOf(ClientOf[r])
    /\ \A q \in check[r].kept : Recent(check[q].now, check[r].now)
    /\ check[r].now <= clock

\* An entry is its client's and has accepted requests of this client only.
Own ==
    /\ \A c \in Clients : clients[c] # NoEntry => ClientOf[clients[c]] = c
    /\ \A e \in Checks : requests[e] \subseteq AcceptedOf(ClientOf[e])
    /\ \A r \in Checks : OwnOf(r)

\* The history tells the checks that overlap.
Overlap ==
    /\ \A r \in crowded : check[r].at # "new"
    /\ \A r, q \in Underway : r # q /\ ClientOf[r] = ClientOf[q] => r \in crowded

\* The list that is tested next lies in the window of the check, or of the
\* rival that pruned or extended it last.
Tested ==
    \A r \in Checks : check[r].at = "test" =>
        \E q \in ListsOf(r) : \A p \in requests[check[r].entry] : Recent(check[p].now, check[q].now)

Refused ==
    \A r \in Checks : check[r].at = "refused" =>
        \E q \in ListsOf(r) : Cardinality(InWindow(q)) >= MaxRequests

\* No two checks of the client have overlapped.
Calm(c) == \A q \in crowded : ClientOf[q] # c

Entered ==
    \A r \in Checks : Calm(ClientOf[r]) =>
        /\ check[r].at = "create" => clients[ClientOf[r]] = NoEntry
        /\ Holds(r) => check[r].entry = clients[ClientOf[r]]

\* The list has q, or need not have it at this time.
Covers(rows, q, now) == q \in rows \/ ~ Recent(check[q].now, now)

\* Nothing that counts for r is missing from the list of a calm client, and
\* r came after what was accepted.
RememberedBy(r, q) ==
    /\ check[q].now <= check[r].now
    /\ Covers(requests[clients[ClientOf[q]]], q, check[r].now)
    /\ check[r].at = "assign" => Covers(check[r].kept, q, check[r].now)

Remembered ==
    \A q \in Accepted : Calm(ClientOf[q]) =>
        /\ Covers(requests[clients[ClientOf[q]]], q, clock)
        /\ \A r \in Rivals(q) : RememberedBy(r, q)

Room ==
    \A r \in Checks : check[r].at = "append" /\ Calm(ClientOf[r]) =>
        Cardinality(requests[check[r].entry]) < MaxRequests

Before(r) == {q \in InWindow(r) : check[q].now <= check[r].now}

Bounded ==
    \A r \in Accepted : Calm(ClientOf[r]) => Cardinality(Before(r)) <= MaxRequests

LInv == /\ LimiterTypes /\ Own /\ Overlap /\ Tested /\ Refused
        /\ Entered /\ Remembered /\ Room /\ Bounded

\* What a step of a check may do to the other checks: nothing, but it may
\* crowd them.
Onward ==
    /\ \A q \in Checks : check[q].at # "new" =>
         check'[q].now = check[q].now /\ check'[q].at # "new"
    /\ Accepted \subseteq Accepted'
    /\ crowded \subseteq crowded'

----------------------------------------------------------------------------
LEMMA InitLInv == LimiterInit => LInv
<1> SUFFICES ASSUME LimiterInit PROVE LInv OBVIOUS
<1>1. \A r \in Checks : check[r] = Unchecked /\ check[r].at = "new" /\ check[r].kept = {} /\ check[r].now = 0
  BY DEF LimiterInit, Unchecked
<1>2. Accepted = {} /\ Underway = {} /\ crowded = {} /\ clock = 0
  BY <1>1 DEF Accepted, Underway, LimiterInit
<1>3. LimiterTypes
  BY DEF LimiterInit, LimiterTypes, CheckRecords, CheckStages, Unchecked
<1>4. Own BY <1>1, <1>2 DEF LimiterInit, Own, OwnOf, Holds
<1>5. Overlap /\ Tested /\ Refused /\ Entered /\ Remembered /\ Room /\ Bounded
  BY <1>1, <1>2 DEF LimiterInit, Overlap, Tested, Refused, Entered, Remembered, Room, Bounded, Holds
<1> QED BY <1>3, <1>4, <1>5 DEF LInv

LEMMA Windows ==
  /\ IsFiniteSet(Accepted)
  /\ \A r \in Checks : IsFiniteSet(InWindow(r)) /\ IsFiniteSet(Before(r))
  /\ \A S \in SUBSET Checks : IsFiniteSet(S) /\ Cardinality(S) \in Nat
<1>1. \A S \in SUBSET Checks : IsFiniteSet(S) BY LimiterAssumption, FS_Subset
<1> QED BY <1>1, FS_CardinalityType DEF Accepted, InWindow, Before

\* What was true of a refusal stays true.
LEMMA RefusalsStay ==
  ASSUME LInv, Onward, NEW r \in Checks, check[r].at = "refused"
  PROVE  \E q \in ListsOf(r)' : Cardinality(InWindow(q)') >= MaxRequests
<1>1. PICK q \in ListsOf(r) : Cardinality(InWindow(q)) >= MaxRequests
  BY DEF LInv, Refused
<1>2. q \in Checks /\ check[q].at # "new" BY DEF LInv, LimiterTypes, Overlap, ListsOf
<1>3. q \in ListsOf(r)' BY DEF ListsOf, Onward
<1>4. \A p \in Accepted : p \in Accepted' /\ check'[p].now = check[p].now
  BY DEF Onward, Accepted
<1>5. InWindow(q) \subseteq InWindow(q)' BY <1>2, <1>4 DEF InWindow, Onward, Recent
<1>6. IsFiniteSet(InWindow(q)') /\ Cardinality(InWindow(q)) \in Nat /\ Cardinality(InWindow(q)') \in Nat
  <2>1. InWindow(q) \in SUBSET Checks /\ InWindow(q)' \in SUBSET Checks
    BY DEF InWindow, Accepted
  <2> QED BY <2>1, Windows
<1>7. Cardinality(InWindow(q)) <= Cardinality(InWindow(q)') BY <1>5, <1>6, FS_Subset
<1>8. Cardinality(InWindow(q)') >= MaxRequests BY <1>1, <1>6, <1>7, LimiterAssumption
<1> QED BY <1>3, <1>8

LEMMA ListStays ==
  ASSUME LInv, Onward, NEW r \in Checks, check[r].at = "test",
         check'[r].entry = check[r].entry,
         requests'[check[r].entry] = requests[check[r].entry]
  PROVE  \E q \in ListsOf(r)' : \A p \in requests'[check'[r].entry] :
            Recent(check'[p].now, check'[q].now)
<1>1. PICK q \in ListsOf(r) :
         \A p \in requests[check[r].entry] : Recent(check[p].now, check[q].now)
  BY DEF LInv, Tested
<1>2. q \in Checks /\ check[q].at # "new" /\ q \in ListsOf(r)'
  BY DEF LInv, LimiterTypes, Overlap, ListsOf, Onward
<1>3. check[r].entry \in Checks BY DEF LInv, Own, OwnOf, Holds
<1>4. \A p \in requests[check[r].entry] : p \in Checks /\ check[p].at # "new"
  BY <1>3 DEF LInv, Own, AcceptedOf, Accepted
<1>5. \A p \in requests'[check'[r].entry] : Recent(check'[p].now, check'[q].now)
  BY <1>1, <1>2, <1>4 DEF Onward
<1> QED BY <1>2, <1>5

\* Nobody becomes calm again.
LEMMA CalmBefore ==
  ASSUME Onward, NEW c, Calm(c)'
  PROVE  Calm(c)
BY DEF Onward, Calm

\* Without a new accepted request, no window gets fuller.
LEMMA BoundedStays ==
  ASSUME LInv, Onward, Accepted' = Accepted
  PROVE  Bounded'
<1> SUFFICES ASSUME NEW r \in Accepted, Calm(ClientOf[r])'
             PROVE  Cardinality(Before(r)') <= MaxRequests
  BY DEF Bounded
<1>1. Calm(ClientOf[r]) BY CalmBefore
<1>2. \A q \in Accepted : q \in Checks /\ check'[q].now = check[q].now
  BY DEF Onward, Accepted
<1>3. Before(r)' = Before(r) BY <1>2 DEF Before, InWindow, Recent
<1> QED BY <1>1, <1>3 DEF LInv, Bounded

----------------------------------------------------------------------------
\* A step that changes no list: what the invariant says of the other checks
\* still holds, if it holds of the one that moves.
LEMMA LimiterQuiet ==
  ASSUME LInv, Onward, NEW r \in Checks, LimiterTypes', Overlap',
         \A q \in Checks \ {r} : check'[q] = check[q],
         UNCHANGED <<clock, clients, requests>>, Accepted' = Accepted,
         OwnOf(r)',
         check'[r].at # "test",
         check'[r].at = "refused" => \E q \in ListsOf(r)' : Cardinality(InWindow(q)') >= MaxRequests,
         Calm(ClientOf[r])' =>
             /\ check'[r].at = "create" => clients[ClientOf[r]] = NoEntry
             /\ Holds(r)' => check'[r].entry = clients[ClientOf[r]]
             /\ check'[r].at = "append" => Cardinality(requests[check'[r].entry]) < MaxRequests
             /\ \A q \in Accepted : ClientOf[q] = ClientOf[r] /\ r \in Underway' => RememberedBy(r, q)'
  PROVE  LInv'
<1> USE DEF LInv
<1>1. \A q \in Accepted : q \in Checks /\ check'[q].now = check[q].now
  BY DEF Onward, Accepted
<1>2. Own'
  <2>1. \A e \in Checks : requests'[e] \subseteq AcceptedOf(ClientOf[e])'
    BY DEF AcceptedOf, Own
  <2>2. \A q \in Checks \ {r} : OwnOf(q)'
    <3> SUFFICES ASSUME NEW q \in Checks \ {r} PROVE OwnOf(q)' OBVIOUS
    <3>1. \A p \in check[q].kept : check'[p].now = check[p].now
      BY <1>1 DEF Own, OwnOf, AcceptedOf
    <3> QED BY <3>1 DEF Own, OwnOf, Holds, AcceptedOf
  <2> QED BY <2>1, <2>2 DEF Own
<1>3. Tested'
  <2> SUFFICES ASSUME NEW q \in Checks, check'[q].at = "test"
               PROVE  \E p \in ListsOf(q)' : \A t \in requests'[check'[q].entry] :
                         Recent(check'[t].now, check'[p].now)
    BY DEF Tested
  <2>1. check'[q] = check[q] OBVIOUS
  <2> QED BY <2>1, ListStays
<1>4. Refused' BY RefusalsStay DEF Refused
<1>5. Entered' BY CalmBefore DEF Entered, Holds
<1>6. Remembered'
  <2> SUFFICES ASSUME NEW q \in Accepted, Calm(ClientOf[q])'
               PROVE  /\ Covers(requests[clients[ClientOf[q]]], q, clock)'
                      /\ \A p \in Rivals(q)' : RememberedBy(p, q)'
    BY DEF Remembered
  <2>1. Calm(ClientOf[q]) /\ check'[q].now = check[q].now BY <1>1, CalmBefore
  <2>2. Covers(requests[clients[ClientOf[q]]], q, clock)' BY <2>1 DEF Remembered, Covers
  <2>3. ASSUME NEW p \in Rivals(q)', p # r
        PROVE  RememberedBy(p, q)'
    <3>1. p \in Rivals(q) /\ check'[p] = check[p] BY <2>3 DEF Rivals, Underway
    <3> QED BY <2>1, <3>1 DEF Covers, Remembered, RememberedBy
  <2> QED BY <2>2, <2>3 DEF Rivals
<1>7. Room' BY CalmBefore DEF Room
<1>8. Bounded' BY BoundedStays
<1> QED BY <1>2, <1>3, <1>4, <1>5, <1>6, <1>7, <1>8

LEMMA BeginKeeps ==
  ASSUME LInv, NEW r \in Checks, Begin(r)
  PROVE  LInv'
<1> DEFINE c == ClientOf[r]
           to == IF clients[c] = NoEntry THEN "create" ELSE "read"
<1> USE DEF LInv
<1>0. c \in Clients /\ clients[c] \in Checks \cup {NoEntry} /\ clock \in Nat
  BY DEF Clients, LimiterTypes
<1>1. /\ check[r].at = "new"
      /\ check' = [check EXCEPT ![r] = [at |-> to, now |-> clock, entry |-> clients[c], kept |-> {}]]
      /\ UNCHANGED <<clock, clients, requests>>
      /\ crowded' = IF Rivals(r) = {} THEN crowded ELSE crowded \cup {r} \cup Rivals(r)
  BY DEF Begin
<1>2. LimiterTypes'
  BY <1>0, <1>1 DEF LimiterTypes, CheckRecords, CheckStages, Rivals, Underway
<1>3. /\ check'[r].at = to /\ check'[r].now = clock
      /\ check'[r].entry = clients[c] /\ check'[r].kept = {}
      /\ \A q \in Checks \ {r} : check'[q] = check[q]
  BY <1>1 DEF LimiterTypes
<1>4. to \in {"create", "read"} /\ (to = "create" <=> clients[c] = NoEntry) OBVIOUS
<1> HIDE DEF to
<1>5. Accepted' = Accepted /\ Underway' = Underway \cup {r} /\ r \notin Underway /\ r \notin Accepted
  BY <1>1, <1>3, <1>4 DEF Accepted, Underway
<1>6. Onward BY <1>1, <1>3, <1>4, <1>5 DEF Onward
<1>7. OwnOf(r)' BY <1>0, <1>1, <1>3, <1>4, <1>5 DEF Own, OwnOf, Holds
<1>8. Overlap'
  <2>1. \A q \in crowded' : check'[q].at # "new"
    BY <1>1, <1>3, <1>4 DEF Overlap, Rivals, Underway, LimiterTypes
  <2>2. ASSUME NEW p \in Underway', NEW q \in Underway', p # q, ClientOf[p] = ClientOf[q]
        PROVE  p \in crowded'
    BY <1>1, <1>5, <2>2 DEF Overlap, Rivals
  <2> QED BY <2>1, <2>2 DEF Overlap
<1>9. ASSUME Calm(c)', NEW q \in Accepted, ClientOf[q] = c
      PROVE  RememberedBy(r, q)'
  <2>1. /\ Covers(requests[clients[c]], q, clock) /\ check[q].now <= clock
        /\ check'[q] = check[q] /\ q \in Checks
    BY <1>3, <1>5, <1>6, <1>9, CalmBefore DEF Remembered, Own, OwnOf, Accepted
  <2> QED BY <1>1, <1>3, <1>4, <1>9, <2>1 DEF RememberedBy, Covers
<1> QED BY <1>1, <1>2, <1>3, <1>4, <1>5, <1>6, <1>7, <1>8, <1>9, LimiterQuiet DEF Holds

\* A check that goes on stays underway, or ends.
LEMMA GoesOn ==
  ASSUME LInv, NEW r \in Underway, UNCHANGED <<clock, crowded>>,
         \A q \in Checks \ {r} : check'[q] = check[q],
         check'[r].now = check[r].now, check'[r].at # "new"
  PROVE  /\ Onward /\ Overlap'
         /\ check'[r].at # "accepted" => Accepted' = Accepted
         /\ check'[r].at = "accepted" => Accepted' = Accepted \cup {r}
         /\ \A q \in Underway' : q \in Underway
<1>1. /\ \A q \in Underway' : q \in Underway
      /\ check'[r].at # "accepted" => Accepted' = Accepted
      /\ check'[r].at = "accepted" => Accepted' = Accepted \cup {r}
      /\ r \in Checks /\ r \notin Accepted
  BY DEF Underway, Accepted
<1>2. Onward BY <1>1 DEF Onward
<1>3. Overlap' BY <1>1, <1>2 DEF LInv, LimiterTypes, Overlap, Onward
<1> QED BY <1>1, <1>2, <1>3

LEMMA PruneKeeps ==
  ASSUME LInv, NEW r \in Checks, Prune(r)
  PROVE  LInv'
<1> USE DEF LInv
<1> DEFINE e == check[r].entry
           c == ClientOf[r]
           kept == {q \in requests[e] : Recent(check[q].now, check[r].now)}
<1>0. e \in Checks /\ ClientOf[e] = c /\ requests[e] \subseteq AcceptedOf(c)
  BY DEF Prune, Own, OwnOf, Holds
<1>1. /\ check[r].at = "read"
      /\ check' = [check EXCEPT ![r].at = "assign", ![r].kept = kept]
      /\ UNCHANGED <<clock, clients, requests, crowded>>
  BY DEF Prune
<1>2. check[r] \in CheckRecords /\ kept \subseteq Checks
  BY <1>0 DEF LimiterTypes, AcceptedOf, Accepted
<1>3. /\ check'[r].at = "assign" /\ check'[r].now = check[r].now
      /\ check'[r].entry = e /\ check'[r].kept = kept
      /\ \A q \in Checks \ {r} : check'[q] = check[q]
  BY <1>1 DEF LimiterTypes, CheckRecords
<1>4. LimiterTypes' BY <1>1, <1>2 DEF LimiterTypes, CheckRecords, CheckStages
<1>5. r \in Underway BY <1>1 DEF Underway
<1>6. /\ Onward /\ Overlap' /\ Accepted' = Accepted BY <1>1, <1>3, <1>5, GoesOn
<1>7. \A q \in Accepted : check'[q] = check[q] BY <1>1, <1>3 DEF Accepted
<1>8. OwnOf(r)' BY <1>0, <1>1, <1>3, <1>6, <1>7 DEF Own, OwnOf, Holds, AcceptedOf
<1>9. ASSUME Calm(c)' PROVE Calm(c) /\ e = clients[c]
  BY <1>1, <1>6, <1>9, CalmBefore DEF Entered, Holds
<1>10. ASSUME Calm(c)', NEW q \in Accepted, ClientOf[q] = c
       PROVE  RememberedBy(r, q)'
  <2>1. check[q].now <= check[r].now /\ Covers(requests[e], q, check[r].now)
    BY <1>5, <1>9, <1>10 DEF Remembered, RememberedBy, Rivals
  <2>2. Covers(kept, q, check[r].now) BY <2>1 DEF Covers
  <2> QED BY <1>1, <1>3, <1>7, <1>9, <1>10, <2>1, <2>2 DEF RememberedBy, Covers
<1> QED BY <1>1, <1>3, <1>4, <1>6, <1>8, <1>9, <1>10, LimiterQuiet

LEMMA TestKeeps ==
  ASSUME LInv, NEW r \in Checks, Test(r)
  PROVE  LInv'
<1> USE DEF LInv
<1> DEFINE e == check[r].entry
           c == ClientOf[r]
           to == IF AtLimit(Cardinality(requests[e])) THEN "refused" ELSE "append"
<1>0. e \in Checks /\ ClientOf[e] = c /\ requests[e] \subseteq AcceptedOf(c)
  BY DEF Test, Own, OwnOf, Holds
<1>1. /\ check[r].at = "test" /\ check' = [check EXCEPT ![r].at = to]
      /\ UNCHANGED <<clock, clients, requests, crowded>>
  BY DEF Test
<1>2. check[r] \in CheckRecords /\ Cardinality(requests[e]) \in Nat
  BY <1>0, Windows DEF LimiterTypes
<1>3. /\ to \in {"refused", "append"}
      /\ to = "refused" => Cardinality(requests[e]) >= MaxRequests
      /\ to = "append" => Cardinality(requests[e]) < MaxRequests
  BY <1>2, LimiterAssumption DEF AtLimit
<1> HIDE DEF to
<1>4. /\ check'[r].at = to /\ check'[r].now = check[r].now
      /\ check'[r].entry = e /\ check'[r].kept = check[r].kept
      /\ \A q \in Checks \ {r} : check'[q] = check[q]
  BY <1>1, <1>2 DEF LimiterTypes, CheckRecords
<1>5. LimiterTypes' BY <1>1, <1>2, <1>3 DEF LimiterTypes, CheckRecords, CheckStages
<1>6. r \in Underway BY <1>1 DEF Underway
<1>7. /\ Onward /\ Overlap' /\ Accepted' = Accepted BY <1>1, <1>3, <1>4, <1>6, GoesOn
<1>8. \A q \in Accepted : check'[q] = check[q] BY <1>1, <1>4 DEF Accepted
<1>9. OwnOf(r)' BY <1>0, <1>1, <1>3, <1>4, <1>7, <1>8 DEF Own, OwnOf, Holds, AcceptedOf
<1>10. ASSUME to = "refused"
       PROVE  \E q \in ListsOf(r)' : Cardinality(InWindow(q)') >= MaxRequests
  <2>1. PICK q \in ListsOf(r) : \A p \in requests[e] : Recent(check[p].now, check[q].now)
    BY <1>1 DEF Tested
  <2>2. q \in Checks /\ check[q].at # "new" /\ ClientOf[q] = c /\ q \in ListsOf(r)'
    BY <1>1 DEF LimiterTypes, Overlap, ListsOf
  <2>3. check'[q].now = check[q].now BY <1>7, <2>2 DEF Onward
  <2>4. requests[e] \subseteq InWindow(q)'
    BY <1>0, <1>7, <1>8, <2>1, <2>2, <2>3 DEF InWindow, AcceptedOf, Recent
  <2>5. InWindow(q)' \in SUBSET Checks BY DEF InWindow, Accepted
  <2>6. IsFiniteSet(InWindow(q)') /\ Cardinality(InWindow(q)') \in Nat BY <2>5, Windows
  <2>7. Cardinality(requests[e]) <= Cardinality(InWindow(q)') BY <2>4, <2>6, FS_Subset
  <2>8. Cardinality(InWindow(q)') >= MaxRequests
    BY <1>2, <1>3, <1>10, <2>6, <2>7, LimiterAssumption
  <2> QED BY <2>2, <2>8
<1>11. ASSUME Calm(c)' PROVE Calm(c) /\ e = clients[c]
  BY <1>1, <1>7, <1>11, CalmBefore DEF Entered, Holds
<1>12. ASSUME Calm(c)', NEW q \in Accepted, ClientOf[q] = c
       PROVE  RememberedBy(r, q)'
  <2>1. check[q].now <= check[r].now /\ Covers(requests[e], q, check[r].now)
    BY <1>6, <1>11, <1>12 DEF Remembered, RememberedBy, Rivals
  <2> QED BY <1>1, <1>3, <1>4, <1>8, <1>11, <1>12, <2>1 DEF RememberedBy, Covers
<1>13. check'[r].at # "test" /\ check'[r].at # "create" BY <1>3, <1>4
<1> QED BY <1>1, <1>3, <1>4, <1>5, <1>7, <1>9, <1>10, <1>11, <1>12, <1>13, LimiterQuiet

\* A calm client has one check underway at most.
LEMMA OneUnderway ==
  ASSUME LInv, NEW r \in Underway, NEW q \in Underway, ClientOf[q] = ClientOf[r], Calm(ClientOf[r])
  PROVE  q = r
BY DEF LInv, Overlap, Calm

LEMMA CreateKeeps ==
  ASSUME LInv, NEW r \in Checks, Create(r)
  PROVE  LInv'
<1> USE DEF LInv
<1> DEFINE c == ClientOf[r]
<1>0. c \in Clients /\ r # NoEntry BY LimiterAssumption DEF Clients
<1>1. /\ check[r].at = "create" /\ clients' = [clients EXCEPT ![c] = r]
      /\ check' = [check EXCEPT ![r].at = "read", ![r].entry = r]
      /\ UNCHANGED <<clock, requests, crowded>>
  BY DEF Create
<1>2. check[r] \in CheckRecords BY DEF LimiterTypes
<1>3. /\ check'[r].at = "read" /\ check'[r].now = check[r].now
      /\ check'[r].entry = r /\ check'[r].kept = check[r].kept
      /\ \A q \in Checks \ {r} : check'[q] = check[q]
      /\ clients'[c] = r /\ \A d \in Clients \ {c} : clients'[d] = clients[d]
  BY <1>0, <1>1, <1>2 DEF LimiterTypes, CheckRecords
<1>4. LimiterTypes' BY <1>0, <1>1, <1>2 DEF LimiterTypes, CheckRecords, CheckStages
<1>5. r \in Underway /\ r \notin Accepted BY <1>1 DEF Underway, Accepted
<1>6. /\ Onward /\ Overlap' /\ Accepted' = Accepted /\ \A q \in Underway' : q \in Underway
  BY <1>1, <1>3, <1>5, GoesOn
<1>7. \A q \in Accepted : check'[q] = check[q] BY <1>1, <1>3 DEF Accepted
<1>8. \A q \in Checks : ClientOf[q] \in Clients BY DEF Clients
<1>9. \A q \in Accepted : Calm(ClientOf[q]) => ClientOf[q] # c
  BY <1>1, <1>5 DEF Entered, Own, OwnOf, Accepted
<1>10. Own'
  <2>1. \A e \in Checks : requests'[e] \subseteq AcceptedOf(ClientOf[e])'
    BY <1>1, <1>6 DEF AcceptedOf, Own
  <2>2. \A d \in Clients : clients'[d] # NoEntry => ClientOf[clients'[d]] = d
    BY <1>3 DEF Own
  <2>3. \A q \in Checks : OwnOf(q)'
    <3> SUFFICES ASSUME NEW q \in Checks PROVE OwnOf(q)' OBVIOUS
    <3>1. clients[ClientOf[q]] # NoEntry => clients'[ClientOf[q]] # NoEntry
      BY <1>0, <1>3, <1>8
    <3>2. \A p \in check[q].kept : check'[p].now = check[p].now
      BY <1>7 DEF Own, OwnOf, AcceptedOf
    <3>3. OwnOf(q) /\ \A d : AcceptedOf(d)' = AcceptedOf(d) BY <1>6 DEF Own, AcceptedOf
    <3>4. CASE q = r
      <4>1. /\ check'[r].kept \subseteq AcceptedOf(c)'
            /\ \A p \in check'[r].kept : Recent(check'[p].now, check'[r].now)
            /\ check'[r].now <= clock'
        BY <1>1, <1>3, <3>2, <3>3, <3>4 DEF OwnOf
      <4>2. check'[r].entry \in Checks /\ ClientOf[check'[r].entry] = c /\ clients'[c] # NoEntry
        BY <1>0, <1>3
      <4> QED BY <3>4, <4>1, <4>2 DEF OwnOf
    <3>5. CASE q # r BY <1>1, <1>3, <1>6, <3>1, <3>2, <3>3, <3>5 DEF OwnOf, Holds
    <3> QED BY <3>4, <3>5
  <2> QED BY <2>1, <2>2, <2>3 DEF Own
<1>11. Tested'
  <2> SUFFICES ASSUME NEW q \in Checks, check'[q].at = "test"
               PROVE  \E p \in ListsOf(q)' : \A t \in requests'[check'[q].entry] :
                         Recent(check'[t].now, check'[p].now)
    BY DEF Tested
  <2>1. check'[q] = check[q] BY <1>3
  <2> QED BY <1>1, <1>6, <2>1, ListStays
<1>12. Refused'
  <2>1. \A q \in Checks : check'[q].at = "refused" => check[q].at = "refused" BY <1>3
  <2> QED BY <1>6, <2>1, RefusalsStay DEF Refused
<1>13. ASSUME NEW q \in Checks, q # r, q \in Underway, Calm(ClientOf[q])
       PROVE  ClientOf[q] # c
  BY <1>5, <1>13, OneUnderway
<1>14. Entered'
  <2> SUFFICES ASSUME NEW q \in Checks, Calm(ClientOf[q])'
               PROVE  /\ check'[q].at = "create" => clients'[ClientOf[q]] = NoEntry
                      /\ Holds(q)' => check'[q].entry = clients'[ClientOf[q]]
    BY DEF Entered
  <2>1. Calm(ClientOf[q]) BY <1>6, CalmBefore
  <2>2. CASE q = r BY <1>3, <2>2
  <2>3. CASE q # r
    <3>1. CASE q \in Underway
      <4>1. clients'[ClientOf[q]] = clients[ClientOf[q]]
        BY <1>3, <1>8, <1>13, <2>1, <2>3, <3>1
      <4> QED BY <1>3, <2>1, <2>3, <4>1 DEF Entered, Holds
    <3>2. CASE q \notin Underway BY <1>3, <2>3, <3>2 DEF Underway, Holds
    <3> QED BY <3>1, <3>2
  <2> QED BY <2>2, <2>3
<1>15. Remembered'
  <2> SUFFICES ASSUME NEW q \in Accepted, Calm(ClientOf[q])'
               PROVE  /\ Covers(requests[clients[ClientOf[q]]], q, clock)'
                      /\ \A p \in Rivals(q)' : RememberedBy(p, q)'
    BY <1>6 DEF Remembered
  <2>1. Calm(ClientOf[q]) /\ check'[q] = check[q] /\ q \in Checks
    BY <1>6, <1>7, CalmBefore DEF Accepted
  <2>2. clients'[ClientOf[q]] = clients[ClientOf[q]] BY <1>3, <1>8, <1>9, <2>1
  <2>3. Covers(requests[clients[ClientOf[q]]], q, clock)'
    BY <1>1, <2>1, <2>2 DEF Remembered, Covers
  <2>4. ASSUME NEW p \in Rivals(q)'
        PROVE  RememberedBy(p, q)'
    <3>1. p \in Rivals(q) /\ check'[p] = check[p]
      BY <1>3, <1>6, <1>9, <2>1 DEF Rivals, Underway
    <3> QED BY <1>1, <2>1, <2>2, <3>1 DEF Covers, Remembered, RememberedBy
  <2> QED BY <2>3, <2>4
<1>16. Room' BY <1>1, <1>3, <1>6, CalmBefore DEF Room
<1>17. Bounded' BY <1>6, BoundedStays
<1> QED BY <1>4, <1>6, <1>10, <1>11, <1>12, <1>14, <1>15, <1>16, <1>17

\* A calm client's list is its own.
LEMMA OtherLists ==
  ASSUME LInv, NEW e \in Checks, NEW q \in Accepted, ClientOf[q] # ClientOf[e]
  PROVE  clients[ClientOf[q]] \in Checks \ {e}
<1>1. q \in Checks /\ ClientOf[q] \in Clients BY DEF Accepted, Clients
<1>2. clients[ClientOf[q]] \in Checks BY <1>1 DEF LInv, LimiterTypes, Own, OwnOf
<1> QED BY <1>1, <1>2, LimiterAssumption DEF LInv, Own

LEMMA AssignKeeps ==
  ASSUME LInv, NEW r \in Checks, Assign(r)
  PROVE  LInv'
<1> USE DEF LInv
<1> DEFINE e == check[r].entry
           c == ClientOf[r]
<1>0. e \in Checks /\ ClientOf[e] = c /\ check[r].kept \subseteq AcceptedOf(c)
  BY DEF Assign, Own, OwnOf, Holds
<1>1. /\ check[r].at = "assign" /\ requests' = [requests EXCEPT ![e] = check[r].kept]
      /\ check' = [check EXCEPT ![r].at = "test", ![r].kept = {}]
      /\ UNCHANGED <<clock, clients, crowded>>
  BY DEF Assign
<1>2. check[r] \in CheckRecords BY DEF LimiterTypes
<1>3. /\ check'[r].at = "test" /\ check'[r].now = check[r].now
      /\ check'[r].entry = e /\ check'[r].kept = {}
      /\ \A q \in Checks \ {r} : check'[q] = check[q]
      /\ requests'[e] = check[r].kept /\ \A d \in Checks \ {e} : requests'[d] = requests[d]
  BY <1>0, <1>1, <1>2 DEF LimiterTypes, CheckRecords
<1>4. LimiterTypes' BY <1>0, <1>1, <1>2 DEF LimiterTypes, CheckRecords, CheckStages
<1>5. r \in Underway BY <1>1 DEF Underway
<1>6. /\ Onward /\ Overlap' /\ Accepted' = Accepted /\ \A q \in Underway' : q \in Underway
  BY <1>1, <1>3, <1>5, GoesOn
<1>7. \A q \in Accepted : check'[q] = check[q] BY <1>1, <1>3 DEF Accepted
<1>8. \A d : AcceptedOf(d)' = AcceptedOf(d) BY <1>6 DEF AcceptedOf
<1>9. Own'
  <2>1. \A d \in Checks : requests'[d] \subseteq AcceptedOf(ClientOf[d])'
    BY <1>0, <1>3, <1>8 DEF Own
  <2>2. ASSUME NEW q \in Checks PROVE OwnOf(q)'
    <3>1. OwnOf(q) /\ \A p \in check[q].kept : check'[p].now = check[p].now
      BY <1>7 DEF Own, OwnOf, AcceptedOf
    <3>2. check'[q].kept \subseteq check[q].kept /\ check'[q].now = check[q].now BY <1>3
    <3>3. (Holds(q)' <=> Holds(q)) /\ check'[q].entry = check[q].entry
      BY <1>1, <1>3 DEF Holds
    <3> QED BY <1>1, <1>6, <1>8, <3>1, <3>2, <3>3 DEF OwnOf
  <2> QED BY <1>1, <2>1, <2>2 DEF Own
<1>10. Tested'
  <2> SUFFICES ASSUME NEW q \in Checks, check'[q].at = "test"
               PROVE  \E p \in ListsOf(q)' : \A t \in requests'[check'[q].entry] :
                         Recent(check'[t].now, check'[p].now)
    BY DEF Tested
  <2>1. /\ \A t \in requests'[e] : Recent(check'[t].now, check'[r].now)
    BY <1>0, <1>3, <1>7 DEF Own, OwnOf, AcceptedOf
  <2>2. CASE q = r
    <3>1. r \in ListsOf(r)' BY DEF ListsOf
    <3> QED BY <1>3, <2>1, <2>2, <3>1
  <2>3. CASE q # r /\ check[q].entry = e
    <3>1. check'[q] = check[q] /\ q \in Underway BY <1>3, <2>3 DEF Underway
    <3>2. ClientOf[q] = c BY <1>0, <2>3, <3>1 DEF Own, OwnOf, Holds
    <3>3. q \in crowded /\ r \in crowded BY <1>5, <2>3, <3>1, <3>2 DEF Overlap
    <3>4. r \in ListsOf(q)' BY <1>1, <3>2, <3>3 DEF ListsOf
    <3> QED BY <2>1, <2>3, <3>1, <3>4
  <2>4. CASE q # r /\ check[q].entry # e
    <3>1. check'[q] = check[q] /\ check[q].entry \in Checks
      BY <1>3, <2>4 DEF Own, OwnOf, Holds
    <3> QED BY <1>3, <1>6, <2>4, <3>1, ListStays
  <2> QED BY <2>2, <2>3, <2>4
<1>11. Refused'
  <2>1. \A q \in Checks : check'[q].at = "refused" => check[q].at = "refused" BY <1>3
  <2> QED BY <1>6, <2>1, RefusalsStay DEF Refused
<1>12. Entered' BY <1>1, <1>3, <1>6, CalmBefore DEF Entered, Holds
<1>13. Remembered'
  <2> SUFFICES ASSUME NEW q \in Accepted, Calm(ClientOf[q])'
               PROVE  /\ Covers(requests[clients[ClientOf[q]]], q, clock)'
                      /\ \A p \in Rivals(q)' : RememberedBy(p, q)'
    BY <1>6 DEF Remembered
  <2>1. Calm(ClientOf[q]) /\ check'[q] = check[q] /\ q \in Checks
    BY <1>6, <1>7, CalmBefore DEF Accepted
  <2>2. CASE ClientOf[q] = c
    <3>1. clients[c] = e /\ check[r].now <= clock /\ clock \in Nat /\ check[r].now \in Nat /\ check[q].now \in Nat
      BY <1>1, <1>2, <2>1, <2>2 DEF Entered, Holds, Own, OwnOf, LimiterTypes, CheckRecords
    <3>2. check[q].now <= check[r].now /\ Covers(check[r].kept, q, check[r].now)
      BY <1>1, <1>5, <2>1, <2>2 DEF Remembered, RememberedBy, Rivals
    <3>3. Covers(check[r].kept, q, clock)
      BY <3>1, <3>2, LimiterAssumption DEF Covers, Recent
    <3>4. \A p \in Rivals(q)' : p = r BY <1>5, <1>6, <2>1, <2>2, OneUnderway DEF Rivals
    <3>5. RememberedBy(r, q)'
      BY <1>1, <1>3, <2>1, <2>2, <3>1, <3>2 DEF RememberedBy, Covers
    <3>6. Covers(requests[clients[ClientOf[q]]], q, clock)'
      BY <1>1, <1>3, <2>1, <2>2, <3>1, <3>3 DEF Covers
    <3> QED BY <3>4, <3>5, <3>6
  <2>3. CASE ClientOf[q] # c
    <3>1. requests'[clients'[ClientOf[q]]] = requests[clients[ClientOf[q]]]
      BY <1>0, <1>1, <1>3, <2>3, OtherLists
    <3>2. ASSUME NEW p \in Rivals(q)' PROVE RememberedBy(p, q)'
      <4>1. p \in Rivals(q) /\ check'[p] = check[p]
        BY <1>3, <1>6, <2>3 DEF Rivals, Underway
      <4> QED BY <2>1, <3>1, <4>1 DEF Remembered, RememberedBy, Covers
    <3>3. Covers(requests[clients[ClientOf[q]]], q, clock)'
      BY <1>1, <2>1, <3>1 DEF Remembered, Covers
    <3> QED BY <3>2, <3>3
  <2> QED BY <2>2, <2>3
<1>14. Room'
  <2> SUFFICES ASSUME NEW q \in Checks, check'[q].at = "append", Calm(ClientOf[q])'
               PROVE  Cardinality(requests'[check'[q].entry]) < MaxRequests
    BY DEF Room
  <2>1. check'[q] = check[q] /\ q \in Underway /\ Calm(ClientOf[q]) /\ q # r
    BY <1>3, <1>6, CalmBefore DEF Underway
  <2>2. ClientOf[q] # c BY <1>5, <2>1, OneUnderway
  <2>3. check[q].entry \in Checks \ {e} BY <1>0, <2>1, <2>2 DEF Own, OwnOf, Holds
  <2> QED BY <1>3, <2>1, <2>3 DEF Room
<1>15. Bounded' BY <1>6, BoundedStays
<1> QED BY <1>4, <1>6, <1>9, <1>10, <1>11, <1>12, <1>13, <1>14, <1>15

LEMMA AcceptedKeeps ==
  ASSUME LInv, NEW r \in Checks, Accept(r)
  PROVE  LInv'
<1> USE DEF LInv
<1> DEFINE e == check[r].entry
           c == ClientOf[r]
<1>0. e \in Checks /\ ClientOf[e] = c /\ requests[e] \in SUBSET Checks
  BY DEF Accept, Own, OwnOf, Holds, LimiterTypes
<1>1. /\ check[r].at = "append" /\ requests' = [requests EXCEPT ![e] = @ \cup {r}]
      /\ check' = [check EXCEPT ![r].at = "accepted"]
      /\ UNCHANGED <<clock, clients, crowded>>
  BY DEF Accept
<1>2. check[r] \in CheckRecords BY DEF LimiterTypes
<1>3. /\ check'[r].at = "accepted" /\ check'[r].now = check[r].now
      /\ check'[r].entry = e /\ check'[r].kept = check[r].kept
      /\ \A q \in Checks \ {r} : check'[q] = check[q]
      /\ requests'[e] = requests[e] \cup {r}
      /\ \A d \in Checks \ {e} : requests'[d] = requests[d]
  BY <1>0, <1>1, <1>2 DEF LimiterTypes, CheckRecords
<1>4. LimiterTypes' BY <1>0, <1>1, <1>2 DEF LimiterTypes, CheckRecords, CheckStages
<1>5. r \in Underway /\ r \notin Accepted BY <1>1 DEF Underway, Accepted
<1>6. /\ Onward /\ Overlap' /\ Accepted' = Accepted \cup {r}
      /\ \A q \in Underway' : q \in Underway /\ q # r
  BY <1>1, <1>3, <1>5, GoesOn DEF Underway
<1>7. \A q \in Accepted' : q \in Checks /\ check'[q].now = check[q].now
  BY <1>3 DEF Accepted
<1>8. \A d : AcceptedOf(d) \subseteq AcceptedOf(d)' /\ r \in AcceptedOf(c)'
  BY <1>6 DEF AcceptedOf
<1>9. Own'
  <2>1. \A d \in Checks : requests'[d] \subseteq AcceptedOf(ClientOf[d])'
    BY <1>0, <1>3, <1>8 DEF Own
  <2>2. ASSUME NEW q \in Checks PROVE OwnOf(q)'
    <3>1. OwnOf(q) /\ \A p \in check[q].kept : check'[p].now = check[p].now
      BY <1>6, <1>7 DEF Own, OwnOf, AcceptedOf
    <3>2. check'[q].kept = check[q].kept /\ check'[q].now = check[q].now BY <1>3
    <3>3. (Holds(q)' => Holds(q)) /\ check'[q].entry = check[q].entry
      BY <1>1, <1>3 DEF Holds
    <3>4. q \in Accepted' => q \in Accepted \/ Holds(q) BY <1>1, <1>6 DEF Holds
    <3>5. check'[q].kept \subseteq AcceptedOf(ClientOf[q])'
      BY <1>8, <3>1, <3>2 DEF OwnOf
    <3> QED BY <1>1, <3>1, <3>2, <3>3, <3>4, <3>5 DEF OwnOf
  <2> QED BY <1>1, <2>1, <2>2 DEF Own
<1>10. \A q \in Checks : check[q].now \in Nat BY DEF LimiterTypes, CheckRecords
<1>11. Tested'
  <2> SUFFICES ASSUME NEW q \in Checks, check'[q].at = "test"
               PROVE  \E p \in ListsOf(q)' : \A t \in requests'[check'[q].entry] :
                         Recent(check'[t].now, check'[p].now)
    BY DEF Tested
  <2>1. q # r /\ check'[q] = check[q] /\ q \in Underway /\ check[q].entry \in Checks
    BY <1>3 DEF Underway, Own, OwnOf, Holds
  <2>2. CASE check[q].entry = e
    <3>1. ClientOf[q] = c BY <1>0, <2>1, <2>2 DEF Own, OwnOf, Holds
    <3>2. q \in crowded /\ r \in crowded BY <1>5, <2>1, <3>1 DEF Overlap
    <3>3. PICK p \in ListsOf(q) : \A t \in requests[e] : Recent(check[t].now, check[p].now)
      BY <2>1, <2>2 DEF Tested
    <3>4. /\ p \in Checks /\ check'[p].now = check[p].now
          /\ p \in ListsOf(q)' /\ r \in ListsOf(q)'
      BY <1>1, <1>3, <3>1, <3>2 DEF ListsOf, LimiterTypes
    <3>5. \A t \in requests[e] : t \in Checks /\ check'[t].now = check[t].now
      BY <1>0, <1>3
    <3>6. CASE check[r].now <= check[p].now
      <4>1. \A t \in requests[e] \cup {r} : Recent(check[t].now, check[r].now)
        BY <1>10, <3>3, <3>4, <3>5, <3>6, LimiterAssumption DEF Recent
      <4> QED BY <1>3, <2>1, <2>2, <3>4, <3>5, <4>1
    <3>7. CASE ~ (check[r].now <= check[p].now)
      <4>1. \A t \in requests[e] \cup {r} : Recent(check[t].now, check[p].now)
        BY <1>10, <3>3, <3>4, <3>5, <3>7, LimiterAssumption DEF Recent
      <4> QED BY <1>3, <2>1, <2>2, <3>4, <3>5, <4>1
    <3> QED BY <3>6, <3>7
  <2>3. CASE check[q].entry # e BY <1>3, <1>6, <2>1, <2>3, ListStays
  <2> QED BY <2>2, <2>3
<1>12. Refused'
  <2>1. \A q \in Checks : check'[q].at = "refused" => check[q].at = "refused" BY <1>3
  <2> QED BY <1>6, <2>1, RefusalsStay DEF Refused
<1>13. Entered' BY <1>1, <1>3, <1>6, CalmBefore DEF Entered, Holds
<1>14. ASSUME Calm(c)
       PROVE  clients[c] = e /\ \A p \in Underway : ClientOf[p] = c => p = r
  BY <1>1, <1>5, <1>14, OneUnderway DEF Entered, Holds
<1>15. Remembered'
  <2> SUFFICES ASSUME NEW q \in Accepted', Calm(ClientOf[q])'
               PROVE  /\ Covers(requests[clients[ClientOf[q]]], q, clock)'
                      /\ \A p \in Rivals(q)' : RememberedBy(p, q)'
    BY DEF Remembered
  <2>1. Calm(ClientOf[q]) /\ check'[q].now = check[q].now /\ q \in Checks
    BY <1>6, <1>7, CalmBefore
  <2>2. CASE ClientOf[q] = c
    <3>1. q # r => Covers(requests[e], q, clock)
      BY <1>6, <1>14, <2>1, <2>2 DEF Remembered
    <3>2. Covers(requests[clients[ClientOf[q]]], q, clock)'
      BY <1>1, <1>3, <1>14, <2>1, <2>2, <3>1 DEF Covers
    <3>3. Rivals(q)' = {} BY <1>6, <1>14, <2>1, <2>2 DEF Rivals
    <3> QED BY <3>2, <3>3
  <2>3. CASE ClientOf[q] # c
    <3>0. q \in Accepted BY <1>6, <2>3
    <3>1. requests'[clients'[ClientOf[q]]] = requests[clients[ClientOf[q]]]
      BY <1>0, <1>1, <1>3, <2>3, <3>0, OtherLists
    <3>2. ASSUME NEW p \in Rivals(q)' PROVE RememberedBy(p, q)'
      <4>1. p \in Rivals(q) /\ check'[p] = check[p]
        BY <1>3, <1>6, <2>3 DEF Rivals, Underway
      <4> QED BY <2>1, <3>0, <3>1, <4>1 DEF Remembered, RememberedBy, Covers
    <3>3. Covers(requests[clients[ClientOf[q]]], q, clock)'
      BY <1>1, <2>1, <3>0, <3>1 DEF Remembered, Covers
    <3> QED BY <3>2, <3>3
  <2> QED BY <2>2, <2>3
<1>16. Room'
  <2> SUFFICES ASSUME NEW q \in Checks, check'[q].at = "append", Calm(ClientOf[q])'
               PROVE  Cardinality(requests'[check'[q].entry]) < MaxRequests
    BY DEF Room
  <2>1. check'[q] = check[q] /\ q \in Underway /\ Calm(ClientOf[q]) /\ q # r
    BY <1>3, <1>6, CalmBefore DEF Underway
  <2>2. ClientOf[q] # c BY <1>5, <2>1, OneUnderway
  <2>3. check[q].entry \in Checks \ {e} BY <1>0, <2>1, <2>2 DEF Own, OwnOf, Holds
  <2> QED BY <1>3, <2>1, <2>3 DEF Room
<1>17. ASSUME Calm(c)
       PROVE  Cardinality(Before(r)') <= MaxRequests
  <2>1. \A q \in Accepted : ClientOf[q] = c /\ Recent(check[q].now, check[r].now) => q \in requests[e]
    BY <1>5, <1>14, <1>17 DEF Remembered, RememberedBy, Rivals, Covers
  <2>2. Before(r)' \subseteq requests[e] \cup {r}
    BY <1>3, <1>6, <1>7, <2>1 DEF Before, InWindow, Recent
  <2>3. IsFiniteSet(requests[e]) /\ Cardinality(requests[e]) \in Nat BY <1>0, Windows
  <2>4. Cardinality(requests[e]) < MaxRequests BY <1>1, <1>17 DEF Room
  <2>5. /\ IsFiniteSet(requests[e] \cup {r})
        /\ Cardinality(requests[e] \cup {r}) =
             IF r \in requests[e] THEN Cardinality(requests[e]) ELSE Cardinality(requests[e]) + 1
    BY <2>3, FS_AddElement
  <2>6. Cardinality(Before(r)') <= Cardinality(requests[e] \cup {r}) /\ IsFiniteSet(Before(r)')
    BY <2>2, <2>5, FS_Subset
  <2>7. Cardinality(Before(r)') \in Nat BY <2>6, FS_CardinalityType
  <2> QED BY <2>3, <2>4, <2>5, <2>6, <2>7, LimiterAssumption
<1>18. Bounded'
  <2> SUFFICES ASSUME NEW q \in Accepted', Calm(ClientOf[q])'
               PROVE  Cardinality(Before(q)') <= MaxRequests
    BY DEF Bounded
  <2>1. Calm(ClientOf[q]) BY <1>6, CalmBefore
  <2>2. CASE q # r /\ (ClientOf[q] # c \/ check[r].now > check[q].now)
    <3>1. Before(q)' = Before(q) BY <1>6, <1>7, <1>10, <2>2 DEF Before, InWindow, Recent
    <3> QED BY <1>6, <2>1, <2>2, <3>1 DEF Bounded
  <2>3. CASE q = r BY <1>17, <2>1, <2>3
  <2>4. CASE q # r /\ ClientOf[q] = c /\ ~ (check[r].now > check[q].now)
    <3>1. check[q].now <= check[r].now
      BY <1>5, <1>6, <2>1, <2>4 DEF Remembered, RememberedBy, Rivals
    <3>2. check'[q].now = check'[r].now BY <1>7, <1>10, <1>3, <2>4, <3>1
    <3>3. Before(q)' = Before(r)' BY <2>4, <3>2 DEF Before, InWindow
    <3> QED BY <1>17, <2>1, <2>4, <3>3
  <2> QED BY <2>2, <2>3, <2>4
<1> QED BY <1>4, <1>6, <1>9, <1>11, <1>12, <1>13, <1>15, <1>16, <1>18

\* Time goes on, or nothing happens: what lies in no window of now never will.
LEMMA TickKeeps ==
  ASSUME LInv, Tick \/ UNCHANGED limiterVars
  PROVE  LInv'
<1> USE DEF LInv
<1>1. UNCHANGED <<clients, requests, check, crowded>> /\ clock' \in Nat /\ clock <= clock' /\ clock \in Nat
  BY DEF Tick, limiterVars, LimiterTypes
<1>2. LimiterTypes' BY <1>1 DEF LimiterTypes
<1>3. /\ Accepted' = Accepted /\ Underway' = Underway
      /\ \A q \in Accepted : q \in Checks
      /\ \A q \in Checks : check[q].now \in Nat
  BY <1>1 DEF Accepted, Underway, LimiterTypes, CheckRecords
<1>4. Own' BY <1>1, <1>3 DEF Own, OwnOf, Holds, AcceptedOf
<1>5. Overlap' /\ Tested' /\ Entered' /\ Room'
  BY <1>1, <1>3 DEF Overlap, Tested, Entered, Room, ListsOf, Calm, Holds
<1>6. Refused' /\ Bounded'
  BY <1>1, <1>3 DEF Refused, Bounded, ListsOf, Calm, InWindow, Before
<1>7. Remembered'
  <2> SUFFICES ASSUME NEW q \in Accepted, Calm(ClientOf[q])
               PROVE  /\ Covers(requests[clients[ClientOf[q]]], q, clock)'
                      /\ \A p \in Rivals(q) : RememberedBy(p, q)'
    BY <1>1, <1>3 DEF Remembered, Rivals, Calm
  <2>1. Covers(requests[clients[ClientOf[q]]], q, clock)'
    BY <1>1, <1>3, LimiterAssumption DEF Remembered, Covers, Recent
  <2>2. \A p \in Rivals(q) : RememberedBy(p, q)'
    BY <1>1 DEF Remembered, RememberedBy, Covers
  <2> QED BY <2>1, <2>2
<1> QED BY <1>2, <1>4, <1>5, <1>6, <1>7

\* RateLimiter.is_allowed: a client that sends one request at a time never has more
\* than max_requests accepted in a window, whatever the other clients do; and
\* even a client whose checks overlap is refused only where so many accepted
\* requests lie in the window of the check or of a rival.
THEOREM LimiterHolds == LimiterSpec => []LimitHolds
<1>1. ASSUME LInv, [LimiterNext]_limiterVars
      PROVE  LInv'
  BY <1>1, BeginKeeps, CreateKeeps, PruneKeeps, AssignKeeps, TestKeeps, AcceptedKeeps, TickKeeps
     DEF LimiterNext
<1>2. LInv => LimitHolds BY DEF LInv, Bounded, Refused, LimitHolds, Calm, Before
<1> QED BY <1>1, <1>2, InitLInv, PTL DEF LimiterSpec

----------------------------------------------------------------------------
(* ToolApproval.                                                           *)
Rulings == {"allow", "ask", "deny"}

Events == Rulings \cup {"asked", "granted", "denied", "called", "finished"}

InvokeStages == {"new", "request", "store", "call", "result", "answered"}

DecisionStages == {"unsent", "workflow", "call", "result", "done"}

Types ==
    /\ at \in [Invocations -> InvokeStages]
    /\ events \in [Invocations -> Seq(Events)]
    /\ decision \in [Decisions -> [at : DecisionStages, on : Invocations \cup {Nobody},
                                   grant : BOOLEAN]]
    /\ workflow \subseteq Invocations
    /\ \A d \in Decisions :
         decision[d].at \in {"workflow", "call", "result"} => decision[d].on \in Invocations

Invoking ==
    \A i \in Invocations :
        /\ at[i] = "new" => LastEvent(i) = "new"
        /\ at[i] = "request" => LastEvent(i) = "ask"
        /\ at[i] = "call" => LastEvent(i) = "allow"
        /\ at[i] = "result" => LastEvent(i) = "called"

\* Has the request to invoke left its approval in the workflow?
Left(i) == at[i] \in {"store", "answered"}

Pending == \A i \in workflow : Left(i) /\ LastEvent(i) = "asked"

Executing(d) == decision[d].at \in {"call", "result"}

Deciding ==
    \A d \in Decisions : Executing(d) =>
        /\ Left(decision[d].on)
        /\ decision[d].on \notin workflow
        /\ LastEvent(decision[d].on) = IF decision[d].at = "call" THEN "granted" ELSE "called"

Alone ==
    \A d, e \in Decisions :
        Executing(d) /\ Executing(e) /\ decision[d].on = decision[e].on => d = e

ApprovalInv == Types /\ Invoking /\ Pending /\ Deciding /\ Alone

----------------------------------------------------------------------------
\* The policy allows a call, asks about it or denies it.
LEMMA RulingIs == \A i \in Invocations : Ruling(i) \in Rulings
<1> SUFFICES ASSUME NEW i \in Invocations
             PROVE  Ruling(i) \in Rulings
  OBVIOUS
<1> DEFINE call == CallOf[i]
<1>1. RiskOf(call) \in Risks BY DEF RiskOf, DefaultRisk, Risks
<1>2. InterfaceConfig.rules[RiskOf(call)] \in Rulings
  BY <1>1 DEF InterfaceConfig, PolicyConfig, Rules, Risks, Rulings
<1>3. InterfaceConfig.deleteTools = {} BY DEF InterfaceConfig, PolicyConfig
<1> QED BY <1>2, <1>3 DEF Ruling, Evaluate, DeleteRestricted, Rulings

\* What is appended to a sequence comes last.
LEMMA LastOfAppend ==
  ASSUME NEW S, NEW s \in Seq(S), NEW e \in S
  PROVE  /\ Append(s, e) \in Seq(S)
         /\ Append(s, e) # <<>>
         /\ Append(s, e)[Len(Append(s, e))] = e
<1>1. Len(Append(s, e)) = Len(s) + 1 BY AppendProperties
<1> QED BY <1>1, AppendProperties

\* An emission makes its type the last event of its call, and of no other.
LEMMA EmitLast ==
  ASSUME events \in [Invocations -> Seq(Events)],
         NEW i \in Invocations, NEW type \in Events, Emit(i, type)
  PROVE  /\ events' \in [Invocations -> Seq(Events)]
         /\ LastEvent(i)' = type
         /\ \A j \in Invocations \ {i} : LastEvent(j)' = LastEvent(j)
<1> DEFINE longer == Append(events[i], type)
<1>1. events[i] \in Seq(Events) OBVIOUS
<1>2. /\ longer \in Seq(Events)
      /\ longer # <<>>
      /\ longer[Len(longer)] = type
  BY <1>1, LastOfAppend, Zenon
<1> HIDE DEF longer
<1>3. events' = [events EXCEPT ![i] = longer] BY DEF Emit, longer
<1>4. /\ events' \in [Invocations -> Seq(Events)]
      /\ events'[i] = longer
      /\ \A j \in Invocations \ {i} : events'[j] = events[j]
  BY <1>2, <1>3, Zenon
<1> QED BY <1>2, <1>4, Zenon DEF LastEvent

\* An event that may follow the last one of its call is a step of the
\* contract.
LEMMA EmitAdvances ==
  ASSUME events \in [Invocations -> Seq(Events)],
         NEW i \in Invocations, NEW type \in Events, Emit(i, type),
         type \in Contract!After(LastEvent(i))
  PROVE  Contract!Next
<1> DEFINE stages == [j \in Invocations |-> LastEvent(j)]
<1>1. /\ LastEvent(i)' = type
      /\ \A j \in Invocations \ {i} : LastEvent(j)' = LastEvent(j)
  BY EmitLast
<1>2. stages' = [stages EXCEPT ![i] = type] BY <1>1
<1>3. stages[i] = LastEvent(i) OBVIOUS
<1>4. Contract!Advance(i) BY <1>2, <1>3 DEF Contract!Advance
<1> QED BY <1>4 DEF Contract!Next

\* Nothing emitted, nothing changes.
LEMMA NoEmit ==
  ASSUME UNCHANGED events
  PROVE  \A j \in Invocations : LastEvent(j)' = LastEvent(j)
BY DEF LastEvent

----------------------------------------------------------------------------
LEMMA ApprovalStarts == ApprovalInit => ApprovalInv
BY DEF ApprovalInit, ApprovalInv, Types, Invoking, Pending, Deciding, Alone, Executing, LastEvent,
       InvokeStages, DecisionStages, Unsent, Left
\* A request to invoke moves on: from a stage at which nobody else has to do
\* with its call, to one that fits the last event of the call.
LEMMA InvokeStep ==
  ASSUME ApprovalInv, NEW i \in Invocations, NEW to \in InvokeStages,
         ~ Left(i),
         at' = [at EXCEPT ![i] = to],
         UNCHANGED decision,
         workflow' = workflow \/ workflow' = workflow \cup {i},
         i \in workflow' => to = "store" /\ LastEvent(i)' = "asked",
         events' \in [Invocations -> Seq(Events)],
         \A j \in Invocations \ {i} : LastEvent(j)' = LastEvent(j),
         to \notin {"new"},
         to = "request" => LastEvent(i)' = "ask",
         to = "call" => LastEvent(i)' = "allow",
         to = "result" => LastEvent(i)' = "called"
  PROVE  ApprovalInv'
<1>1. Types' BY DEF ApprovalInv, Types
<1>2. at'[i] = to /\ \A j \in Invocations \ {i} : at'[j] = at[j]
  BY DEF ApprovalInv, Types
<1>3. Invoking' BY <1>2 DEF ApprovalInv, Invoking
<1>4. Pending' BY <1>2 DEF ApprovalInv, Pending, Left, Types
<1>5. Deciding'
  <2> SUFFICES ASSUME NEW d \in Decisions, Executing(d)'
               PROVE  /\ Left(decision[d].on)'
                      /\ (decision[d].on \notin workflow)'
                      /\ LastEvent(decision[d].on)'
                           = (IF decision[d].at = "call" THEN "granted" ELSE "called")'
    BY DEF Deciding
  <2>1. Executing(d) BY DEF Executing
  <2> DEFINE j == decision[d].on
  <2>2. j \in Invocations BY <2>1 DEF ApprovalInv, Types, Executing
  <2>3. /\ Left(j)
        /\ j \notin workflow
        /\ LastEvent(j) = IF decision[d].at = "call" THEN "granted" ELSE "called"
    BY <2>1 DEF ApprovalInv, Deciding
  <2>4. j # i BY <2>3
  <2>5. decision'[d] = decision[d] /\ LastEvent(j)' = LastEvent(j) BY <2>2, <2>4
  <2>6. Left(j)' /\ j \notin workflow' BY <1>2, <2>2, <2>3, <2>4 DEF Left
  <2> QED BY <2>3, <2>5, <2>6 DEF LastEvent, Left
<1>6. Alone' BY DEF ApprovalInv, Alone, Executing
<1> QED BY <1>1, <1>3, <1>4, <1>5, <1>6 DEF ApprovalInv

\* A decision moves on with the call it took out of the workflow, which
\* nobody else carries out.
LEMMA DecideStep ==
  ASSUME ApprovalInv, NEW d \in Decisions, NEW i \in Invocations,
         NEW to \in {"call", "result", "done"},
         Left(i), i \notin workflow',
         \A e \in Decisions \ {d} : Executing(e) => decision[e].on # i,
         UNCHANGED at,
         decision' \in [Decisions -> [at : DecisionStages, on : Invocations \cup {Nobody},
                                     grant : BOOLEAN]],
         \A e \in Decisions \ {d} : decision'[e] = decision[e],
         decision'[d].at = to,
         to # "done" => decision'[d].on = i,
         workflow' \subseteq workflow,
         events' \in [Invocations -> Seq(Events)],
         \A j \in Invocations \ {i} : LastEvent(j)' = LastEvent(j),
         to = "call" => LastEvent(i)' = "granted",
         to = "result" => LastEvent(i)' = "called"
  PROVE  ApprovalInv'
<1>1. Types' BY DEF ApprovalInv, Types
<1>2. Invoking' BY DEF ApprovalInv, Invoking, Left
<1>3. Pending' BY DEF ApprovalInv, Pending, Left, Types
<1>4. Deciding'
  <2> SUFFICES ASSUME NEW e \in Decisions, Executing(e)'
               PROVE  /\ Left(decision[e].on)'
                      /\ (decision[e].on \notin workflow)'
                      /\ LastEvent(decision[e].on)'
                           = (IF decision[e].at = "call" THEN "granted" ELSE "called")'
    BY DEF Deciding
  <2>1. CASE e = d
    <3>1. to \in {"call", "result"} /\ decision'[e].on = i /\ decision'[e].at = to
      BY <2>1 DEF Executing
    <3> QED BY <3>1 DEF Left, LastEvent
  <2>2. CASE e # d
    <3> DEFINE j == decision[e].on
    <3>1. Executing(e) /\ decision'[e] = decision[e] BY <2>2 DEF Executing
    <3>2. j \in Invocations /\ j # i BY <2>2, <3>1 DEF ApprovalInv, Types, Executing
    <3>3. /\ Left(j)
          /\ j \notin workflow
          /\ LastEvent(j) = IF decision[e].at = "call" THEN "granted" ELSE "called"
      BY <3>1 DEF ApprovalInv, Deciding
    <3>4. LastEvent(j)' = LastEvent(j) BY <3>1, <3>2
    <3> QED BY <3>1, <3>2, <3>3, <3>4 DEF Left, LastEvent
  <2> QED BY <2>1, <2>2
<1>5. Alone'
  <2> SUFFICES ASSUME NEW e \in Decisions, NEW f \in Decisions, Executing(e)', Executing(f)',
                      decision'[e].on = decision'[f].on
               PROVE  e = f
    BY DEF Alone
  <2>1. \A g \in Decisions \ {d} : Executing(g)' => Executing(g) /\ decision'[g].on # i
    BY DEF Executing
  <2>2. Executing(d)' => decision'[d].on = i BY DEF Executing
  <2>3. e # d /\ f # d => e = f BY <2>1 DEF ApprovalInv, Alone
  <2> QED BY <2>1, <2>2, <2>3
<1> QED BY <1>1, <1>2, <1>3, <1>4, <1>5 DEF ApprovalInv

\* What leaves the calls that are carried out alone keeps the invariant.
LEMMA QuietStep ==
  ASSUME ApprovalInv, UNCHANGED events, workflow' \subseteq workflow,
         at' \in [Invocations -> InvokeStages],
         \A i \in Invocations : at'[i] = at[i] \/ at'[i] = "answered",
         decision' \in [Decisions -> [at : DecisionStages, on : Invocations \cup {Nobody},
                                     grant : BOOLEAN]],
         \A d \in Decisions :
            \/ decision'[d] = decision[d]
            \/ decision'[d].at = "workflow" /\ decision'[d].on \in Invocations
            \/ decision'[d].at \in {"unsent", "done"}
  PROVE  ApprovalInv'
<1>1. Types' BY DEF ApprovalInv, Types
<1>2. \A j \in Invocations : LastEvent(j)' = LastEvent(j) BY NoEmit
<1>3. \A i \in Invocations : Left(i) => Left(i)' BY DEF Left
<1>4. \A d \in Decisions : Executing(d)' => Executing(d) /\ decision'[d] = decision[d]
  BY DEF Executing
<1>5. Invoking' BY <1>2 DEF ApprovalInv, Invoking
<1>6. Pending' BY <1>2, <1>3 DEF ApprovalInv, Pending, Types
<1>7. Deciding'
  <2> SUFFICES ASSUME NEW d \in Decisions, Executing(d)'
               PROVE  /\ Left(decision[d].on)'
                      /\ (decision[d].on \notin workflow)'
                      /\ LastEvent(decision[d].on)'
                           = (IF decision[d].at = "call" THEN "granted" ELSE "called")'
    BY DEF Deciding
  <2> DEFINE j == decision[d].on
  <2>1. Executing(d) /\ decision'[d] = decision[d] BY <1>4
  <2>2. j \in Invocations BY <2>1 DEF ApprovalInv, Types, Executing
  <2>3. /\ Left(j)
        /\ j \notin workflow
        /\ LastEvent(j) = IF decision[d].at = "call" THEN "granted" ELSE "called"
    BY <2>1 DEF ApprovalInv, Deciding
  <2>4. Left(j)' /\ j \notin workflow' BY <1>3, <2>1, <2>2, <2>3
  <2> QED BY <1>2, <2>1, <2>2, <2>3, <2>4 DEF Left, LastEvent
<1>8. Alone' BY <1>4 DEF ApprovalInv, Alone
<1> QED BY <1>1, <1>5, <1>6, <1>7, <1>8 DEF ApprovalInv

----------------------------------------------------------------------------
\* One lemma per action: it keeps the invariant, and what it appends to a
\* ledger may follow what is there.
LEMMA RuleStep ==
  ASSUME ApprovalInv, NEW i \in Invocations, Rule(i)
  PROVE  ApprovalInv' /\ Contract!Next
<1>1. Ruling(i) \in Rulings /\ Ruling(i) \in Events BY RulingIs DEF Events
<1>2. /\ events' \in [Invocations -> Seq(Events)]
      /\ LastEvent(i)' = Ruling(i)
      /\ \A j \in Invocations \ {i} : LastEvent(j)' = LastEvent(j)
  BY <1>1, EmitLast DEF Rule, ApprovalInv, Types
<1>3. RuledTo(i) \in {"request", "call", "answered"} BY DEF RuledTo
<1>4. /\ RuledTo(i) = "request" => Ruling(i) = "ask"
      /\ RuledTo(i) = "call" => Ruling(i) = "allow"
  BY <1>1 DEF RuledTo, Rulings
<1>5. ~ Left(i) /\ i \notin workflow /\ LastEvent(i) = "new"
  BY DEF Rule, Left, ApprovalInv, Pending, Invoking
<1>6. ApprovalInv'
  <2>1. at' = [at EXCEPT ![i] = RuledTo(i)] /\ UNCHANGED <<workflow, decision>>
    BY DEF Rule
  <2> QED BY <1>2, <1>3, <1>4, <1>5, <2>1, InvokeStep DEF InvokeStages
<1>7. Contract!Next
  <2>1. Ruling(i) \in Contract!After(LastEvent(i))
    BY <1>1, <1>5 DEF Contract!After, Rulings
  <2> QED BY <1>1, <2>1, EmitAdvances DEF Rule, ApprovalInv, Types
<1> QED BY <1>6, <1>7

LEMMA RequestStep ==
  ASSUME ApprovalInv, NEW i \in Invocations, Request(i)
  PROVE  ApprovalInv' /\ Contract!Next
<1>0. events \in [Invocations -> Seq(Events)] /\ "asked" \in Events /\ Emit(i, "asked")
  BY DEF Request, Events, ApprovalInv, Types
<1>1. /\ events' \in [Invocations -> Seq(Events)]
      /\ LastEvent(i)' = "asked"
      /\ \A j \in Invocations \ {i} : LastEvent(j)' = LastEvent(j)
  BY <1>0, EmitLast, Zenon
<1>2. ~ Left(i) /\ LastEvent(i) = "ask" BY DEF Request, Left, ApprovalInv, Invoking
<1>3. ApprovalInv'
  <2>1. /\ at' = [at EXCEPT ![i] = "store"]
        /\ UNCHANGED decision
        /\ workflow' = workflow \cup {i}
    BY DEF Request
  <2> QED BY <1>1, <1>2, <2>1, InvokeStep DEF InvokeStages
<1>4. Contract!Next
  <2>1. "asked" \in Contract!After(LastEvent(i)) BY <1>2 DEF Contract!After
  <2> QED BY <1>0, <2>1, EmitAdvances, Zenon
<1> QED BY <1>3, <1>4

LEMMA CallAllowedStep ==
  ASSUME ApprovalInv, NEW i \in Invocations, CallAllowed(i)
  PROVE  ApprovalInv' /\ Contract!Next
<1>0. events \in [Invocations -> Seq(Events)] /\ "called" \in Events /\ Emit(i, "called")
  BY DEF CallAllowed, Events, ApprovalInv, Types
<1>1. /\ events' \in [Invocations -> Seq(Events)]
      /\ LastEvent(i)' = "called"
      /\ \A j \in Invocations \ {i} : LastEvent(j)' = LastEvent(j)
  BY <1>0, EmitLast, Zenon
<1>2. ~ Left(i) /\ i \notin workflow /\ LastEvent(i) = "allow"
  BY DEF CallAllowed, Left, ApprovalInv, Pending, Invoking
<1>3. ApprovalInv'
  <2>1. at' = [at EXCEPT ![i] = "result"] /\ UNCHANGED <<workflow, decision>>
    BY DEF CallAllowed
  <2> QED BY <1>1, <1>2, <2>1, InvokeStep DEF InvokeStages
<1>4. Contract!Next
  <2>1. "called" \in Contract!After(LastEvent(i)) BY <1>2 DEF Contract!After
  <2> QED BY <1>0, <2>1, EmitAdvances, Zenon
<1> QED BY <1>3, <1>4

LEMMA ReturnAllowedStep ==
  ASSUME ApprovalInv, NEW i \in Invocations, ReturnAllowed(i)
  PROVE  ApprovalInv' /\ (Contract!Next \/ UNCHANGED events)
<1>1. ~ Left(i) /\ i \notin workflow /\ LastEvent(i) = "called"
  BY DEF ReturnAllowed, Left, ApprovalInv, Pending, Invoking
<1>2. at' = [at EXCEPT ![i] = "answered"] /\ UNCHANGED <<workflow, decision>>
  BY DEF ReturnAllowed
<1>3. CASE Emit(i, "finished")
  <2>0. events \in [Invocations -> Seq(Events)] /\ "finished" \in Events
    BY DEF Events, ApprovalInv, Types
  <2>1. /\ events' \in [Invocations -> Seq(Events)]
        /\ \A j \in Invocations \ {i} : LastEvent(j)' = LastEvent(j)
    BY <1>3, <2>0, EmitLast, Zenon
  <2>2. ApprovalInv' BY <1>1, <1>2, <2>1, InvokeStep DEF InvokeStages
  <2>3. "finished" \in Contract!After(LastEvent(i)) BY <1>1 DEF Contract!After
  <2>4. Contract!Next BY <1>3, <2>0, <2>3, EmitAdvances, Zenon
  <2> QED BY <2>2, <2>4
<1>4. CASE UNCHANGED events
  <2>1. /\ events' \in [Invocations -> Seq(Events)]
        /\ \A j \in Invocations : LastEvent(j)' = LastEvent(j)
    BY <1>4, NoEmit DEF ApprovalInv, Types
  <2> QED BY <1>1, <1>2, <1>4, <2>1, InvokeStep DEF InvokeStages
<1> QED BY <1>3, <1>4 DEF ReturnAllowed

LEMMA StoreStep ==
  ASSUME ApprovalInv, NEW i \in Invocations, Store(i)
  PROVE  ApprovalInv' /\ UNCHANGED events
<1>1. UNCHANGED <<events, workflow, decision>> /\ at' = [at EXCEPT ![i] = "answered"]
  BY DEF Store
<1>2. /\ at' \in [Invocations -> InvokeStages]
      /\ \A j \in Invocations : at'[j] = at[j] \/ at'[j] = "answered"
  BY <1>1 DEF ApprovalInv, Types, InvokeStages
<1> QED BY <1>1, <1>2, QuietStep DEF ApprovalInv, Types

LEMMA TakeStep ==
  ASSUME ApprovalInv, NEW d \in Decisions, NEW i \in Invocations, NEW grant \in BOOLEAN,
         Take(d, i, grant)
  PROVE  ApprovalInv' /\ UNCHANGED events
<1> DEFINE next == IF i \in store THEN [at |-> "workflow", on |-> i, grant |-> grant] ELSE Done
<1>1. UNCHANGED <<at, events, workflow>> /\ decision' = [decision EXCEPT ![d] = next]
  BY DEF Take
<1>2. /\ next \in [at : DecisionStages, on : Invocations \cup {Nobody}, grant : BOOLEAN]
      /\ (next.at = "workflow" /\ next.on \in Invocations) \/ next.at = "done"
  BY DEF Done, Unsent, DecisionStages
<1> HIDE DEF next
<1>3. decision' \in [Decisions -> [at : DecisionStages, on : Invocations \cup {Nobody},
                                   grant : BOOLEAN]]
  BY <1>1, <1>2 DEF ApprovalInv, Types
<1>4. \A e \in Decisions :
        \/ decision'[e] = decision[e]
        \/ decision'[e].at = "workflow" /\ decision'[e].on \in Invocations
        \/ decision'[e].at \in {"unsent", "done"}
  BY <1>1, <1>2 DEF ApprovalInv, Types
<1> QED BY <1>1, <1>3, <1>4, QuietStep DEF ApprovalInv, Types

\* A decision finds the approval pending.
LEMMA AnswerStep ==
  ASSUME ApprovalInv, NEW d \in Decisions, NEW i \in Invocations, NEW grant \in BOOLEAN,
         i = decision[d].on, grant = decision[d].grant, i \in workflow, Decide(d)
  PROVE  ApprovalInv' /\ Contract!Next
<1> DEFINE type == IF grant THEN "granted" ELSE "denied"
           next == IF grant THEN [decision[d] EXCEPT !.at = "call"] ELSE Done
<1>1. /\ Emit(i, type)
      /\ decision' = [decision EXCEPT ![d] = next]
      /\ workflow' = workflow \ {i}
      /\ UNCHANGED at
  BY DEF Decide, Pop, Goto, Answered, ApprovalInv, Types
<1>2. events \in [Invocations -> Seq(Events)] /\ type \in Events
  BY DEF ApprovalInv, Types, Events
<1>3. Left(i) /\ LastEvent(i) = "asked" BY DEF ApprovalInv, Pending
<1>4. /\ events' \in [Invocations -> Seq(Events)]
      /\ LastEvent(i)' = type
      /\ \A j \in Invocations \ {i} : LastEvent(j)' = LastEvent(j)
  <2> HIDE DEF type
  <2> QED BY <1>1, <1>2, EmitLast, Zenon
<1>5. Contract!Next
  <2>1. type \in Contract!After(LastEvent(i)) BY <1>3 DEF Contract!After
  <2> HIDE DEF type
  <2> QED BY <1>1, <1>2, <2>1, EmitAdvances, Zenon
<1>6. /\ next \in [at : DecisionStages, on : Invocations \cup {Nobody}, grant : BOOLEAN]
      /\ next.at = (IF grant THEN "call" ELSE "done")
      /\ grant => next.on = i
  BY DEF ApprovalInv, Types, Done, Unsent, DecisionStages
<1>7. /\ decision' \in [Decisions -> [at : DecisionStages, on : Invocations \cup {Nobody},
                                      grant : BOOLEAN]]
      /\ decision'[d] = next
      /\ \A e \in Decisions \ {d} : decision'[e] = decision[e]
  <2> HIDE DEF next
  <2> QED BY <1>1, <1>6 DEF ApprovalInv, Types
<1>8. \A e \in Decisions \ {d} : Executing(e) => decision[e].on # i
  BY DEF ApprovalInv, Deciding
<1>9. ApprovalInv'
  <2> DEFINE to == IF grant THEN "call" ELSE "done"
  <2>1. to \in {"call", "done"} /\ (to = "call" => type = "granted" /\ next.on = i)
    BY <1>6
  <2>2. decision'[d].at = to /\ (to # "done" => decision'[d].on = i) BY <1>6, <1>7, <2>1
  <2>3. i \notin workflow' /\ workflow' \subseteq workflow BY <1>1
  <2> HIDE DEF type, next, to
  <2> QED BY <1>1, <1>3, <1>4, <1>7, <1>8, <2>1, <2>2, <2>3, DecideStep
<1> QED BY <1>5, <1>9

LEMMA DecideGoesOn ==
  ASSUME ApprovalInv, NEW d \in Decisions, Decide(d)
  PROVE  ApprovalInv' /\ (Contract!Next \/ UNCHANGED events)
<1> DEFINE i == decision[d].on
<1>1. i \in Invocations /\ decision[d].grant \in BOOLEAN
  BY DEF Decide, ApprovalInv, Types
<1>2. CASE i \in workflow BY <1>1, <1>2, AnswerStep
<1>3. CASE i \notin workflow
  <2>1. /\ decision' = [decision EXCEPT ![d] = Done]
        /\ workflow' = workflow \ {i}
        /\ UNCHANGED <<at, events>>
    BY <1>3 DEF Decide, Pop, Answered
  <2>2. /\ decision' \in [Decisions -> [at : DecisionStages, on : Invocations \cup {Nobody},
                                        grant : BOOLEAN]]
        /\ \A e \in Decisions :
              decision'[e] = decision[e] \/ decision'[e].at \in {"unsent", "done"}
    BY <2>1 DEF ApprovalInv, Types, Done, Unsent, DecisionStages
  <2> QED BY <2>1, <2>2, QuietStep DEF ApprovalInv, Types
<1> QED BY <1>2, <1>3

\* What the steps of a decision that carries out its call have in common.
LEMMA CarryingOut ==
  ASSUME ApprovalInv, NEW d \in Decisions, NEW i \in Invocations, i = decision[d].on, Executing(d),
         NEW next \in [at : {"result", "done"}, on : Invocations \cup {Nobody}, grant : BOOLEAN],
         next.at = "result" => next.on = i,
         decision' = [decision EXCEPT ![d] = next],
         UNCHANGED <<at, workflow>>,
         events' \in [Invocations -> Seq(Events)],
         \A j \in Invocations \ {i} : LastEvent(j)' = LastEvent(j),
         next.at = "result" => LastEvent(i)' = "called"
  PROVE  ApprovalInv'
<1>1. Left(i) /\ i \notin workflow' BY DEF ApprovalInv, Deciding
<1>2. \A e \in Decisions \ {d} : Executing(e) => decision[e].on # i
  BY DEF ApprovalInv, Alone
<1>3. next \in [at : DecisionStages, on : Invocations \cup {Nobody}, grant : BOOLEAN]
  BY DEF DecisionStages
<1>4. /\ decision' \in [Decisions -> [at : DecisionStages, on : Invocations \cup {Nobody},
                                      grant : BOOLEAN]]
      /\ decision'[d] = next
      /\ \A e \in Decisions \ {d} : decision'[e] = decision[e]
  BY <1>3 DEF ApprovalInv, Types
<1>5. next.at \in {"call", "result", "done"} /\ next.at # "call" OBVIOUS
<1>6. decision'[d].at = next.at /\ (next.at # "done" => decision'[d].on = i) BY <1>4
<1> DEFINE to == next.at
<1>7. /\ to \in {"call", "result", "done"} /\ to # "call"
      /\ decision'[d].at = to
      /\ to # "done" => decision'[d].on = i
      /\ to = "result" => LastEvent(i)' = "called"
  BY <1>5, <1>6
<1> HIDE DEF to
<1> QED BY <1>1, <1>2, <1>4, <1>7, DecideStep

LEMMA CallGrantedStep ==
  ASSUME ApprovalInv, NEW d \in Decisions, NEW i \in Invocations, i = decision[d].on, CallGranted(d)
  PROVE  ApprovalInv' /\ Contract!Next
<1> DEFINE next == [decision[d] EXCEPT !.at = "result"]
<1>1. /\ events \in [Invocations -> Seq(Events)] /\ "called" \in Events
      /\ Emit(i, "called")
  BY DEF CallGranted, ApprovalInv, Types, Events
<1>2. /\ events' \in [Invocations -> Seq(Events)]
      /\ LastEvent(i)' = "called"
      /\ \A j \in Invocations \ {i} : LastEvent(j)' = LastEvent(j)
  BY <1>1, EmitLast, Zenon
<1>3. Executing(d) /\ LastEvent(i) = "granted"
  BY DEF CallGranted, Executing, ApprovalInv, Deciding
<1>4. "called" \in Contract!After(LastEvent(i)) BY <1>3 DEF Contract!After
<1>5. Contract!Next BY <1>1, <1>4, EmitAdvances, Zenon
<1>6. /\ next \in [at : {"result", "done"}, on : Invocations \cup {Nobody}, grant : BOOLEAN]
      /\ next.at = "result" /\ next.on = i
  BY DEF ApprovalInv, Types
<1>7. decision' = [decision EXCEPT ![d] = next] /\ UNCHANGED <<at, workflow>>
  BY DEF CallGranted, Goto, ApprovalInv, Types
<1> HIDE DEF next
<1>8. ApprovalInv' BY <1>2, <1>3, <1>6, <1>7, CarryingOut
<1> QED BY <1>5, <1>8

LEMMA ReturnGrantedStep ==
  ASSUME ApprovalInv, NEW d \in Decisions, NEW i \in Invocations, i = decision[d].on, ReturnGranted(d)
  PROVE  ApprovalInv' /\ (Contract!Next \/ UNCHANGED events)
<1>1. Executing(d) /\ LastEvent(i) = "called"
  BY DEF ReturnGranted, Executing, ApprovalInv, Deciding
<1>2. /\ Done \in [at : {"result", "done"}, on : Invocations \cup {Nobody}, grant : BOOLEAN]
      /\ Done.at = "done"
  BY DEF Done, Unsent
<1>3. decision' = [decision EXCEPT ![d] = Done] /\ UNCHANGED <<at, workflow>>
  BY DEF ReturnGranted, Answered
<1>4. events \in [Invocations -> Seq(Events)] /\ "finished" \in Events
  BY DEF ApprovalInv, Types, Events
<1>5. CASE Emit(i, "finished")
  <2>1. /\ events' \in [Invocations -> Seq(Events)]
        /\ \A j \in Invocations \ {i} : LastEvent(j)' = LastEvent(j)
    BY <1>4, <1>5, EmitLast, Zenon
  <2>2. ApprovalInv' BY <1>1, <1>2, <1>3, <2>1, CarryingOut
  <2>3. "finished" \in Contract!After(LastEvent(i)) BY <1>1 DEF Contract!After
  <2>4. Contract!Next BY <1>4, <1>5, <2>3, EmitAdvances, Zenon
  <2> QED BY <2>2, <2>4
<1>6. CASE UNCHANGED events
  <2>1. /\ events' \in [Invocations -> Seq(Events)]
        /\ \A j \in Invocations : LastEvent(j)' = LastEvent(j)
    BY <1>4, <1>6, NoEmit
  <2> QED BY <1>1, <1>2, <1>3, <1>6, <2>1, CarryingOut
<1> QED BY <1>5, <1>6 DEF ReturnGranted

LEMMA StopStep ==
  ASSUME ApprovalInv, Stop
  PROVE  ApprovalInv' /\ UNCHANGED events
<1>1. UNCHANGED events /\ workflow' \subseteq workflow BY DEF Stop
<1>2. /\ at' \in [Invocations -> InvokeStages]
      /\ \A i \in Invocations : at'[i] = at[i] \/ at'[i] = "answered"
  BY DEF Stop, InvokeStages, ApprovalInv, Types
<1>3. /\ decision' \in [Decisions -> [at : DecisionStages, on : Invocations \cup {Nobody},
                                      grant : BOOLEAN]]
      /\ \A d \in Decisions : decision'[d].at \in {"unsent", "done"}
  BY DEF Stop, Done, Unsent, DecisionStages
<1> QED BY <1>1, <1>2, <1>3, QuietStep

----------------------------------------------------------------------------
LEMMA StepKeeps ==
  ASSUME ApprovalInv, [ApprovalNext]_approvalVars
  PROVE  ApprovalInv' /\ (Contract!Next \/ UNCHANGED events)
<1>1. ASSUME NEW i \in Invocations,
             Rule(i) \/ Request(i) \/ Store(i) \/ CallAllowed(i) \/ ReturnAllowed(i)
      PROVE  ApprovalInv' /\ (Contract!Next \/ UNCHANGED events)
  BY <1>1, RuleStep, RequestStep, StoreStep, CallAllowedStep, ReturnAllowedStep
<1>2. ASSUME NEW d \in Decisions, NEW i \in Invocations, NEW grant \in BOOLEAN,
             Take(d, i, grant)
      PROVE  ApprovalInv' /\ (Contract!Next \/ UNCHANGED events)
  BY <1>2, TakeStep
<1>3. ASSUME NEW d \in Decisions, Decide(d)
      PROVE  ApprovalInv' /\ (Contract!Next \/ UNCHANGED events)
  BY <1>3, DecideGoesOn
<1>4. ASSUME NEW d \in Decisions, CallGranted(d) \/ ReturnGranted(d)
      PROVE  ApprovalInv' /\ (Contract!Next \/ UNCHANGED events)
  <2>1. decision[d].on \in Invocations
    BY <1>4 DEF CallGranted, ReturnGranted, ApprovalInv, Types
  <2> QED BY <1>4, <2>1, CallGrantedStep, ReturnGrantedStep
<1>5. CASE Stop BY <1>5, StopStep
<1>6. CASE UNCHANGED approvalVars
  <2>1. UNCHANGED <<at, events, workflow, decision>> BY <1>6 DEF approvalVars
  <2> QED BY <2>1, QuietStep DEF ApprovalInv, Types
<1> QED BY <1>1, <1>2, <1>3, <1>4, <1>5, <1>6 DEF ApprovalNext

\* The ledger of a mediated tool call keeps ApprovalContract, in every overlap
\* of requests to invoke, to grant and to deny and through a stop of the server
\* (tool_invocation.py, approval_workflow.py, tool_approval.py): the tool is
\* called once at most, after the policy or a user allowed it, and never after
\* a denial.
THEOREM LedgerKeepsContract == ApprovalSpec => KeepsApprovalContract
<1>1. ApprovalInit => Contract!Init BY DEF ApprovalInit, Contract!Init, LastEvent
<1>2. ApprovalInv /\ [ApprovalNext]_approvalVars
        => ApprovalInv' /\ [Contract!Next]_([i \in Invocations |-> LastEvent(i)])
  <2> SUFFICES ASSUME ApprovalInv, [ApprovalNext]_approvalVars
               PROVE  ApprovalInv' /\ [Contract!Next]_([i \in Invocations |-> LastEvent(i)])
    OBVIOUS
  <2>1. UNCHANGED events => UNCHANGED [i \in Invocations |-> LastEvent(i)]
    BY DEF LastEvent
  <2> QED BY <2>1, StepKeeps
<1> QED
  BY <1>1, <1>2, ApprovalStarts, PTL DEF ApprovalSpec, KeepsApprovalContract, Contract!Spec

----------------------------------------------------------------------------
(* An approval that waits for a decision can be decided.  A ledger names   *)
(* an approval second and its decision third, so that the summary of a run *)
(* counts it as pending exactly while it is the last event; and as long as *)
(* it is, the workflow keeps the approval.                                 *)

Orderly(i) ==
    /\ \A n \in 1..Len(events[i]) :
         /\ events[i][n] \in Rulings => n = 1
         /\ events[i][n] = "asked" => n = 2
         /\ events[i][n] \in {"granted", "denied"} => n = 3
    /\ Len(events[i]) > 2 /\ events[i][2] = "asked" => events[i][3] \in {"granted", "denied"}

Written == \A i \in Invocations : Orderly(i)

\* An approval asked for is in the workflow, and once the request that asked
\* is answered, in the store or with the decision that took it out of there.
Kept ==
    ~stopped => \A i \in Invocations :
        /\ LastEvent(i) = "asked" => i \in workflow
        /\ at[i] = "answered" /\ i \in workflow => i \in store \/ BeingDecided(i)

DInv == ApprovalInv /\ Written /\ Kept

\* What may follow the last event of an orderly ledger leaves it orderly.
LEMMA Writing ==
  ASSUME Written, events \in [Invocations -> Seq(Events)],
         NEW i \in Invocations, NEW type \in Events, Emit(i, type),
         type \in Contract!After(LastEvent(i))
  PROVE  Written'
<1> DEFINE longer == Append(events[i], type)
<1>1. PICK old \in Seq(Events) : old = events[i] OBVIOUS
<1>2. PICK n \in Nat : n = Len(old) BY <1>1
<1>3. /\ longer \in Seq(Events) /\ Len(longer) = n + 1 /\ longer[n + 1] = type
      /\ \A k \in 1..n : longer[k] = old[k]
  BY <1>1, <1>2, AppendProperties
<1>4. events' = [events EXCEPT ![i] = longer] BY DEF Emit
<1> HIDE DEF longer
<1>5. events'[i] = longer /\ \A j \in Invocations \ {i} : events'[j] = events[j] BY <1>4
<1>6. /\ \A k \in 1..n : /\ old[k] \in Rulings => k = 1
                         /\ old[k] = "asked" => k = 2
                         /\ old[k] \in {"granted", "denied"} => k = 3
      /\ n > 2 /\ old[2] = "asked" => old[3] \in {"granted", "denied"}
  BY <1>1, <1>2 DEF Written, Orderly
<1>7. LastEvent(i) = IF n = 0 THEN "new" ELSE old[n] BY <1>1, <1>2 DEF LastEvent
<1>8. /\ type \in Rulings => n = 0
      /\ type = "asked" => n = 1
      /\ type \in {"granted", "denied"} => n = 2
      /\ type \in {"called", "finished"} => ~(n = 2 /\ old[2] = "asked")
  <2>1. CASE n = 0 BY <2>1, <1>7 DEF Contract!After, Rulings
  <2>2. CASE n > 0
    <3>1. PICK last \in Events : last = old[n] BY <2>2, <1>2
    <3>2. type \in Contract!After(last) BY <2>2, <3>1, <1>7
    <3>3. /\ last \in Rulings => n = 1
          /\ last = "asked" => n = 2
      BY <2>2, <3>1, <1>6
    <3>4. /\ type \notin Rulings
          /\ type = "asked" => last = "ask"
          /\ type \in {"granted", "denied"} => last = "asked"
          /\ type \in {"called", "finished"} => last # "asked"
      BY <3>2 DEF Contract!After, Events, Rulings
    <3> QED BY <3>1, <3>3, <3>4, <2>2 DEF Rulings
  <2> QED BY <2>1, <2>2
<1>9. Orderly(i)'
  <2>1. \A k \in 1..(n + 1) : /\ longer[k] \in Rulings => k = 1
                              /\ longer[k] = "asked" => k = 2
                              /\ longer[k] \in {"granted", "denied"} => k = 3
    <3> SUFFICES ASSUME NEW k \in 1..(n + 1)
                 PROVE  /\ longer[k] \in Rulings => k = 1
                        /\ longer[k] = "asked" => k = 2
                        /\ longer[k] \in {"granted", "denied"} => k = 3
      OBVIOUS
    <3>1. CASE k = n + 1 BY <3>1, <1>3, <1>8 DEF Rulings
    <3>2. CASE k \in 1..n BY <3>2, <1>3, <1>6
    <3> QED BY <3>1, <3>2
  <2>2. n + 1 > 2 /\ longer[2] = "asked" => longer[3] \in {"granted", "denied"}
    <3> SUFFICES ASSUME n + 1 > 2, longer[2] = "asked" PROVE longer[3] \in {"granted", "denied"}
      OBVIOUS
    <3>1. n >= 2 /\ old[2] = "asked" BY <1>3
    <3>2. CASE n = 2 BY <3>1, <3>2, <1>3, <1>6, <1>7, <1>8 DEF Contract!After
    <3>3. CASE n > 2 BY <3>1, <3>3, <1>3, <1>6
    <3> QED BY <3>1, <3>2, <3>3
  <2>3. (events[i])' = longer /\ Len(longer) = n + 1 BY <1>3, <1>5
  <2> QED BY <2>1, <2>2, <2>3 DEF Orderly
<1>10. \A j \in Invocations \ {i} : Orderly(j)' BY <1>5 DEF Written, Orderly
<1> QED BY <1>9, <1>10 DEF Written

\* The summary counts an approval as pending while it is the last event.
LEMMA PendingIsLast ==
  ASSUME Types, Written, NEW i \in Invocations, PendingApprovals(i) > 0
  PROVE  LastEvent(i) = "asked"
<1> DEFINE Logged(type) == {n \in 1..Len(events[i]) : events[i][n] = type}
<1>1. events[i] \in Seq(Events) /\ Len(events[i]) \in Nat BY DEF Types
<1>2. \A type : /\ IsFiniteSet(Logged(type)) /\ Cardinality(Logged(type)) \in Nat
                /\ Logged(type) # {} => Cardinality(Logged(type)) # 0
  <2>1. IsFiniteSet(1..Len(events[i])) BY <1>1, FS_Interval
  <2> TAKE type
  <2>2. IsFiniteSet(Logged(type)) BY <2>1, FS_Subset
  <2> HIDE DEF Logged
  <2> QED BY <2>2, FS_CardinalityType, FS_EmptySet
<1> SUFFICES ASSUME LastEvent(i) # "asked" PROVE FALSE OBVIOUS
<1>3. Cardinality(Logged("asked")) > Cardinality(Logged("granted")) + Cardinality(Logged("denied"))
  <2>1. PICK a, g, d \in Nat : /\ a = Cardinality(Logged("asked"))
                               /\ g = Cardinality(Logged("granted"))
                               /\ d = Cardinality(Logged("denied"))
    <3> HIDE DEF Logged
    <3> QED BY <1>2
  <2>2. (IF a - g - d > 0 THEN a - g - d ELSE 0) > 0 BY <2>1 DEF PendingApprovals
  <2> QED BY <2>1, <2>2
<1>4. Logged("asked") # {}
  <2> HIDE DEF Logged
  <2> QED BY <1>2, <1>3, FS_EmptySet
<1>5. Logged("asked") = {2} BY <1>4 DEF Written, Orderly
<1>6. PICK n \in Nat : n = Len(events[i]) BY <1>1
<1>7. n > 2 /\ events[i][3] \in {"granted", "denied"}
  <2>1. 2 \in 1..n /\ events[i][2] = "asked" BY <1>5, <1>6
  <2>2. n # 2
    <3> SUFFICES ASSUME n = 2 PROVE FALSE OBVIOUS
    <3>1. events[i] # <<>> /\ events[i][Len(events[i])] = "asked" BY <1>6, <2>1
    <3> QED BY <3>1 DEF LastEvent
  <2>3. n > 2 BY <2>1, <2>2
  <2> QED BY <1>6, <2>1, <2>3 DEF Written, Orderly
<1>8. Logged("granted") # {} \/ Logged("denied") # {} BY <1>6, <1>7
<1>9. Cardinality(Logged("asked")) = 1 BY <1>5, FS_Singleton
<1> HIDE DEF Logged
<1> QED BY <1>2, <1>3, <1>8, <1>9

----------------------------------------------------------------------------
\* A request to invoke goes on, and puts no approval where none can decide it.
LEMMA InvokeKept ==
  ASSUME Types, Kept, stopped' = stopped, UNCHANGED decision, NEW i \in Invocations, NEW to,
         at' = [at EXCEPT ![i] = to],
         \A j \in Invocations \ {i} : LastEvent(j)' = LastEvent(j),
         \A j \in Invocations \ {i} : j \in workflow' <=> j \in workflow,
         store \subseteq store',
         ~stopped /\ LastEvent(i)' = "asked" => i \in workflow',
         to = "answered" /\ i \in workflow' => i \in store'
  PROVE  Kept'
<1>1. at'[i] = to /\ \A j \in Invocations \ {i} : at'[j] = at[j] BY DEF Types
<1> SUFFICES ASSUME ~stopped, NEW j \in Invocations
             PROVE  /\ LastEvent(j)' = "asked" => j \in workflow'
                    /\ at'[j] = "answered" /\ j \in workflow' => j \in store' \/ BeingDecided(j)'
  BY DEF Kept
<1>2. BeingDecided(j)' <=> BeingDecided(j) BY DEF BeingDecided
<1>3. CASE j = i BY <1>1, <1>3
<1>4. CASE j # i BY <1>1, <1>2, <1>4 DEF Kept
<1> QED BY <1>3, <1>4

LEMMA RuleKept ==
  ASSUME ApprovalInv, Written, Kept, NEW i \in Invocations, Rule(i)
  PROVE  Written' /\ Kept'
<1>1. Ruling(i) \in Rulings /\ Ruling(i) \in Events /\ events \in [Invocations -> Seq(Events)]
  BY RulingIs DEF Events, ApprovalInv, Types
<1>2. Emit(i, Ruling(i)) /\ LastEvent(i) = "new" /\ i \notin workflow
  BY DEF Rule, ApprovalInv, Invoking, Pending, Left
<1>3. Ruling(i) \in Contract!After(LastEvent(i))
  BY <1>1, <1>2 DEF Contract!After, Rulings
<1>4. /\ LastEvent(i)' = Ruling(i) /\ Ruling(i) # "asked"
      /\ \A j \in Invocations \ {i} : LastEvent(j)' = LastEvent(j)
  BY <1>1, <1>2, EmitLast DEF Rulings
<1>5. at' = [at EXCEPT ![i] = RuledTo(i)] /\ UNCHANGED <<store, workflow, decision, stopped>>
  BY DEF Rule
<1> QED BY <1>1, <1>2, <1>3, <1>4, <1>5, Writing, InvokeKept DEF ApprovalInv

LEMMA RequestKept ==
  ASSUME ApprovalInv, Written, Kept, NEW i \in Invocations, Request(i)
  PROVE  Written' /\ Kept'
<1>1. "asked" \in Events /\ events \in [Invocations -> Seq(Events)]
  BY DEF Events, ApprovalInv, Types
<1>2. Emit(i, "asked") /\ LastEvent(i) = "ask" BY DEF Request, ApprovalInv, Invoking
<1>3. "asked" \in Contract!After(LastEvent(i)) BY <1>2 DEF Contract!After
<1>4. \A j \in Invocations \ {i} : LastEvent(j)' = LastEvent(j)
  BY <1>1, <1>2, EmitLast, Zenon
<1>5. /\ at' = [at EXCEPT ![i] = "store"] /\ workflow' = workflow \cup {i}
      /\ UNCHANGED <<store, decision, stopped>>
  BY DEF Request
<1>6. Written' BY <1>1, <1>2, <1>3, Writing, Zenon
<1>7. Kept' BY <1>4, <1>5, InvokeKept DEF ApprovalInv
<1> QED BY <1>6, <1>7

LEMMA StoreKept ==
  ASSUME ApprovalInv, Written, Kept, NEW i \in Invocations, Store(i)
  PROVE  Written' /\ Kept'
<1>1. /\ at' = [at EXCEPT ![i] = "answered"] /\ store' = store \cup {i}
      /\ UNCHANGED <<events, workflow, decision, stopped>>
  BY DEF Store, Stored
<1>2. Written' BY <1>1 DEF Written, Orderly
<1>3. \A j \in Invocations : LastEvent(j)' = LastEvent(j) BY <1>1, NoEmit
<1>4. ~stopped /\ LastEvent(i)' = "asked" => i \in workflow' BY <1>1, <1>3 DEF Kept
<1>5. Kept' BY <1>1, <1>3, <1>4, InvokeKept DEF ApprovalInv
<1> QED BY <1>2, <1>5

LEMMA CallAllowedKept ==
  ASSUME ApprovalInv, Written, Kept, NEW i \in Invocations, CallAllowed(i)
  PROVE  Written' /\ Kept'
<1>1. "called" \in Events /\ events \in [Invocations -> Seq(Events)]
  BY DEF Events, ApprovalInv, Types
<1>2. Emit(i, "called") /\ LastEvent(i) = "allow"
  BY DEF CallAllowed, ApprovalInv, Invoking
<1>3. "called" \in Contract!After(LastEvent(i)) BY <1>2 DEF Contract!After
<1>4. LastEvent(i)' = "called" /\ \A j \in Invocations \ {i} : LastEvent(j)' = LastEvent(j)
  BY <1>1, <1>2, EmitLast, Zenon
<1>5. at' = [at EXCEPT ![i] = "result"] /\ UNCHANGED <<store, workflow, decision, stopped>>
  BY DEF CallAllowed
<1>6. Written' BY <1>1, <1>2, <1>3, Writing, Zenon
<1>7. Kept' BY <1>4, <1>5, InvokeKept DEF ApprovalInv
<1> QED BY <1>6, <1>7

LEMMA ReturnAllowedKept ==
  ASSUME ApprovalInv, Written, Kept, NEW i \in Invocations, ReturnAllowed(i)
  PROVE  Written' /\ Kept'
<1>1. "finished" \in Events /\ events \in [Invocations -> Seq(Events)]
  BY DEF Events, ApprovalInv, Types
<1>2. LastEvent(i) = "called" /\ i \notin workflow
  BY DEF ReturnAllowed, ApprovalInv, Invoking, Pending, Left
<1>3. "finished" \in Contract!After(LastEvent(i)) BY <1>2 DEF Contract!After
<1>4. /\ at' = [at EXCEPT ![i] = "answered"]
      /\ UNCHANGED <<store, workflow, decision, stopped>>
  BY DEF ReturnAllowed
<1>5. CASE Emit(i, "finished")
  <2>1. /\ LastEvent(i)' = "finished"
        /\ \A j \in Invocations \ {i} : LastEvent(j)' = LastEvent(j)
    BY <1>1, <1>5, EmitLast, Zenon
  <2>2. Written' BY <1>1, <1>3, <1>5, Writing, Zenon
  <2>3. Kept' BY <1>2, <1>4, <2>1, InvokeKept DEF ApprovalInv
  <2> QED BY <2>2, <2>3
<1>6. CASE UNCHANGED events
  <2>1. \A j \in Invocations : LastEvent(j)' = LastEvent(j) BY <1>6, NoEmit
  <2>2. Written' BY <1>6 DEF Written, Orderly
  <2>3. Kept' BY <1>2, <1>4, <2>1, InvokeKept DEF ApprovalInv
  <2> QED BY <2>2, <2>3
<1> QED BY <1>5, <1>6 DEF ReturnAllowed

----------------------------------------------------------------------------
\* A decision takes the approval out of the store, and has it.
LEMMA TakeKept ==
  ASSUME ApprovalInv, Written, Kept, NEW d \in Decisions, NEW i \in Invocations,
         NEW grant \in BOOLEAN, Take(d, i, grant)
  PROVE  Written' /\ Kept'
<1> DEFINE next == IF i \in store THEN [at |-> "workflow", on |-> i, grant |-> grant] ELSE Done
<1>1. /\ decision[d].at = "unsent" /\ store' = store \ {i}
      /\ decision' = [decision EXCEPT ![d] = next]
      /\ UNCHANGED <<at, events, workflow, stopped>>
  BY DEF Take, Pop
<1>2. i \in store => next.at = "workflow" /\ next.on = i OBVIOUS
<1> HIDE DEF next
<1>3. decision'[d] = next /\ \A e \in Decisions \ {d} : decision'[e] = decision[e]
  BY <1>1 DEF ApprovalInv, Types
<1>4. \A j \in Invocations : LastEvent(j)' = LastEvent(j) BY <1>1, NoEmit
<1>5. Written' BY <1>1 DEF Written, Orderly
<1>6. \A j \in Invocations : BeingDecided(j) => BeingDecided(j)'
  BY <1>1, <1>3 DEF BeingDecided
<1>7. i \in store => BeingDecided(i)' BY <1>2, <1>3 DEF BeingDecided
<1>8. Kept'
  <2> SUFFICES ASSUME ~stopped, NEW j \in Invocations
               PROVE  /\ LastEvent(j)' = "asked" => j \in workflow'
                      /\ at'[j] = "answered" /\ j \in workflow' => j \in store' \/ BeingDecided(j)'
    BY <1>1 DEF Kept
  <2> QED BY <1>1, <1>4, <1>6, <1>7 DEF Kept
<1> QED BY <1>5, <1>8

\* A decision goes on with a call that is not pending in the workflow any more.
LEMMA DecisionKept ==
  ASSUME Types, Kept, NEW d \in Decisions, NEW i \in Invocations, UNCHANGED <<at, store, stopped>>,
         decision[d].at = "workflow" => decision[d].on = i,
         \A e \in Decisions \ {d} : decision'[e] = decision[e],
         workflow' = workflow \ {i},
         \A j \in Invocations \ {i} : LastEvent(j)' = LastEvent(j),
         ~stopped => LastEvent(i)' # "asked"
  PROVE  Kept'
<1> SUFFICES ASSUME ~stopped, NEW j \in Invocations
             PROVE  /\ LastEvent(j)' = "asked" => j \in workflow'
                    /\ at'[j] = "answered" /\ j \in workflow' => j \in store' \/ BeingDecided(j)'
  BY DEF Kept
<1>1. CASE j = i BY <1>1
<1>2. CASE j # i
  <2>1. BeingDecided(j) => BeingDecided(j)' BY <1>2 DEF BeingDecided
  <2> QED BY <1>2, <2>1 DEF Kept
<1> QED BY <1>1, <1>2

LEMMA DecideKept ==
  ASSUME ApprovalInv, Written, Kept, NEW d \in Decisions, NEW i \in Invocations, i = decision[d].on,
         NEW grant \in BOOLEAN, grant = decision[d].grant, Decide(d)
  PROVE  Written' /\ Kept'
<1>1. /\ workflow' = workflow \ {i} /\ UNCHANGED <<at, store, stopped>>
      /\ \A e \in Decisions \ {d} : decision'[e] = decision[e]
  BY DEF Decide, Pop, Goto, Answered, ApprovalInv, Types
<1>2. CASE i \in workflow
  <2>1. PICK type \in {"granted", "denied"} : type = IF grant THEN "granted" ELSE "denied"
    OBVIOUS
  <2>2. Emit(i, type) /\ type \in Events /\ events \in [Invocations -> Seq(Events)]
    BY <1>2, <2>1 DEF Decide, Events, ApprovalInv, Types
  <2>3. type \in Contract!After(LastEvent(i))
    BY <1>2 DEF ApprovalInv, Pending, Contract!After
  <2>4. /\ LastEvent(i)' = type
        /\ \A j \in Invocations \ {i} : LastEvent(j)' = LastEvent(j)
    BY <2>2, EmitLast
  <2>5. Written' BY <2>2, <2>3, Writing
  <2>6. Kept' BY <1>1, <2>4, DecisionKept DEF ApprovalInv
  <2> QED BY <2>5, <2>6
<1>3. CASE i \notin workflow
  <2>1. UNCHANGED events BY <1>3 DEF Decide
  <2>2. \A j \in Invocations : LastEvent(j)' = LastEvent(j) BY <2>1, NoEmit
  <2>3. ~stopped => LastEvent(i)' # "asked" BY <1>3, <2>2 DEF Kept
  <2>4. Kept' BY <1>1, <2>2, <2>3, DecisionKept DEF ApprovalInv
  <2>5. Written' BY <2>1 DEF Written, Orderly
  <2> QED BY <2>4, <2>5
<1> QED BY <1>2, <1>3

LEMMA CallGrantedKept ==
  ASSUME ApprovalInv, Written, Kept, NEW d \in Decisions, NEW i \in Invocations, i = decision[d].on,
         CallGranted(d)
  PROVE  Written' /\ Kept'
<1>1. /\ decision[d].at = "call" /\ Emit(i, "called") /\ UNCHANGED <<at, store, workflow, stopped>>
      /\ \A e \in Decisions \ {d} : decision'[e] = decision[e]
  BY DEF CallGranted, Goto, ApprovalInv, Types
<1>2. LastEvent(i) = "granted" /\ i \notin workflow
  BY <1>1 DEF ApprovalInv, Deciding, Executing
<1>3. "called" \in Events /\ events \in [Invocations -> Seq(Events)]
  BY DEF ApprovalInv, Types, Events
<1>4. "called" \in Contract!After(LastEvent(i)) BY <1>2 DEF Contract!After
<1>5. LastEvent(i)' = "called" /\ \A j \in Invocations \ {i} : LastEvent(j)' = LastEvent(j)
  BY <1>1, <1>3, EmitLast, Zenon
<1>6. Written' BY <1>1, <1>3, <1>4, Writing, Zenon
<1>7. Kept' BY <1>1, <1>2, <1>5, DecisionKept DEF ApprovalInv
<1> QED BY <1>6, <1>7

LEMMA ReturnGrantedKept ==
  ASSUME ApprovalInv, Written, Kept, NEW d \in Decisions, NEW i \in Invocations, i = decision[d].on,
         ReturnGranted(d)
  PROVE  Written' /\ Kept'
<1>1. /\ decision[d].at = "result" /\ UNCHANGED <<at, store, workflow, stopped>>
      /\ \A e \in Decisions \ {d} : decision'[e] = decision[e]
  BY DEF ReturnGranted, Answered, ApprovalInv, Types
<1>2. LastEvent(i) = "called" /\ i \notin workflow
  BY <1>1 DEF ApprovalInv, Deciding, Executing
<1>3. "finished" \in Events /\ events \in [Invocations -> Seq(Events)]
  BY DEF ApprovalInv, Types, Events
<1>4. "finished" \in Contract!After(LastEvent(i)) BY <1>2 DEF Contract!After
<1>5. CASE Emit(i, "finished")
  <2>1. LastEvent(i)' = "finished" /\ \A j \in Invocations \ {i} : LastEvent(j)' = LastEvent(j)
    BY <1>3, <1>5, EmitLast, Zenon
  <2>2. Written' BY <1>3, <1>4, <1>5, Writing, Zenon
  <2>3. Kept' BY <1>1, <1>2, <2>1, DecisionKept DEF ApprovalInv
  <2> QED BY <2>2, <2>3
<1>6. CASE UNCHANGED events
  <2>1. \A j \in Invocations : LastEvent(j)' = LastEvent(j) BY <1>6, NoEmit
  <2>2. Written' BY <1>6 DEF Written, Orderly
  <2>3. Kept' BY <1>1, <1>2, <2>1, DecisionKept DEF ApprovalInv
  <2> QED BY <2>2, <2>3
<1> QED BY <1>5, <1>6 DEF ReturnGranted

\* Nothing that the summary or the store is about changes, or the server stops.
LEMMA RestKept ==
  ASSUME Written, Kept, Stop \/ UNCHANGED approvalVars
  PROVE  Written' /\ Kept'
<1>1. UNCHANGED events BY DEF Stop, approvalVars
<1>2. Written' BY <1>1 DEF Written, Orderly
<1>3. CASE Stop BY <1>2, <1>3 DEF Stop, Kept
<1>4. CASE UNCHANGED approvalVars
  <2>1. UNCHANGED <<at, store, workflow, decision, stopped>> BY <1>4 DEF approvalVars
  <2>2. \A j \in Invocations : /\ LastEvent(j)' = LastEvent(j)
                               /\ BeingDecided(j)' <=> BeingDecided(j)
    BY <1>1, <2>1, NoEmit DEF BeingDecided
  <2> QED BY <1>2, <2>1, <2>2 DEF Kept
<1> QED BY <1>3, <1>4

LEMMA DInvNext == DInv /\ [ApprovalNext]_approvalVars => DInv'
<1> SUFFICES ASSUME DInv, [ApprovalNext]_approvalVars PROVE DInv' OBVIOUS
<1> USE DEF DInv
<1>1. ApprovalInv' BY StepKeeps
<1>2. ASSUME NEW i \in Invocations,
             Rule(i) \/ Request(i) \/ Store(i) \/ CallAllowed(i) \/ ReturnAllowed(i)
      PROVE  Written' /\ Kept'
  BY <1>2, RuleKept, RequestKept, StoreKept, CallAllowedKept, ReturnAllowedKept
<1>3. ASSUME NEW d \in Decisions, NEW i \in Invocations, NEW grant \in BOOLEAN,
             Take(d, i, grant)
      PROVE  Written' /\ Kept'
  BY <1>3, TakeKept
<1>4. ASSUME NEW d \in Decisions, Decide(d) \/ CallGranted(d) \/ ReturnGranted(d)
      PROVE  Written' /\ Kept'
  <2>1. decision[d].on \in Invocations /\ decision[d].grant \in BOOLEAN
    BY <1>4 DEF Decide, CallGranted, ReturnGranted, ApprovalInv, Types
  <2> QED BY <1>4, <2>1, DecideKept, CallGrantedKept, ReturnGrantedKept
<1>5. CASE Stop \/ UNCHANGED approvalVars BY <1>1, <1>5, RestKept
<1> QED BY <1>1, <1>2, <1>3, <1>4, <1>5 DEF ApprovalNext

\* InterfaceApprovalStore (tool_approval.py): an approval that was answered and
\* that the summary of its run counts as pending can be decided until the
\* server stops, whatever else is requested, granted, denied or refused.
THEOREM ApprovalsStayDecidable == ApprovalSpec => []AskedStaysDecidable
<1>1. ApprovalInit => DInv
  BY ApprovalStarts DEF ApprovalInit, DInv, Written, Orderly, Kept, LastEvent
<1>2. DInv => AskedStaysDecidable
  <2> SUFFICES ASSUME DInv, NEW i \in Invocations, at[i] = "answered", PendingApprovals(i) > 0,
                      ~stopped
               PROVE  (i \in store /\ i \in workflow) \/ BeingDecided(i)
    BY DEF AskedStaysDecidable
  <2>1. LastEvent(i) = "asked" BY PendingIsLast DEF DInv, ApprovalInv
  <2> QED BY <2>1 DEF DInv, Kept
<1> QED BY <1>1, <1>2, DInvNext, PTL DEF ApprovalSpec

----------------------------------------------------------------------------
(* RunExecutor and Dashboard: who follows a run is told the truth.         *)
LEMMA JoinsSeq ==
  ASSUME NEW W, NEW s \in Seq(W), NEW w \in W
  PROVE  /\ Append(s, w) \in Seq(W) /\ w \in ToSet(Append(s, w))
         /\ \A v \in ToSet(s) : v \in ToSet(Append(s, w))
<1>1. /\ Append(s, w) \in Seq(W) /\ Len(Append(s, w)) = Len(s) + 1
      /\ \A i \in 1 .. Len(s) : Append(s, w)[i] = s[i]
      /\ Append(s, w)[Len(s) + 1] = w
  BY AppendProperties
<1>2. Len(s) \in Nat /\ DOMAIN s = 1 .. Len(s) /\ DOMAIN Append(s, w) = 1 .. Len(s) + 1
  BY <1>1, LenProperties
<1>3. Len(s) + 1 \in DOMAIN Append(s, w) /\ \A i \in DOMAIN s : i \in DOMAIN Append(s, w)
  BY <1>2
<1> QED BY <1>1, <1>2, <1>3 DEF ToSet

LEMMA LeavesSeq ==
  ASSUME NEW W, NEW s \in Seq(W), NEW w
  PROVE  /\ WithoutStream(s, w) \in Seq(W)
         /\ \A v \in ToSet(s) \ {w} : v \in ToSet(WithoutStream(s, w))
<1>1. CASE w \notin ToSet(s) BY <1>1 DEF WithoutStream
<1>2. CASE w \in ToSet(s)
  <2>1. PICK k \in DOMAIN s : s[k] = w /\ WithoutStream(s, w) = RemoveAt(s, k)
    <3>1. \E i \in DOMAIN s : s[i] = w BY <1>2 DEF ToSet
    <3> QED BY <1>2, <3>1 DEF WithoutStream
  <2>2. Len(s) \in Nat /\ DOMAIN s = 1 .. Len(s) BY LenProperties
  <2>3. PICK front, back : front = SubSeq(s, 1, k-1) /\ back = SubSeq(s, k+1, Len(s))
    OBVIOUS
  <2>4. /\ front \in Seq(W) /\ Len(front) = k - 1
        /\ \A i \in 1 .. k-1 : front[i] = s[i]
    BY <2>2, <2>3, SubSeqProperties
  <2>5. /\ back \in Seq(W) /\ Len(back) = Len(s) - k
        /\ \A i \in 1 .. Len(s) - k : back[i] = s[k + i]
    BY <2>2, <2>3, SubSeqProperties
  <2>6. PICK rest : rest = front \o back OBVIOUS
  <2>7. /\ rest \in Seq(W) /\ Len(rest) = Len(s) - 1
        /\ \A i \in 1 .. k-1 : rest[i] = s[i]
        /\ \A i \in k .. Len(s) - 1 : rest[i] = s[i + 1]
    <3>1. /\ front \o back \in Seq(W) /\ Len(front \o back) = Len(front) + Len(back)
          /\ \A i \in 1 .. Len(front) + Len(back) :
               (front \o back)[i] = IF i <= Len(front) THEN front[i] ELSE back[i - Len(front)]
      BY <2>4, <2>5, ConcatProperties
    <3>2. rest \in Seq(W) /\ Len(rest) = Len(s) - 1 BY <2>2, <2>4, <2>5, <2>6, <3>1
    <3>3. \A i \in 1 .. k-1 : rest[i] = s[i] BY <2>2, <2>4, <2>5, <2>6, <3>1
    <3>4. ASSUME NEW i \in k .. Len(s) - 1 PROVE rest[i] = s[i + 1]
      <4>1. i \in 1 .. Len(front) + Len(back) /\ ~(i <= Len(front)) BY <2>2, <2>4, <2>5
      <4>2. rest[i] = back[i - Len(front)] BY <2>6, <3>1, <4>1
      <4>3. i - Len(front) \in 1 .. Len(s) - k /\ k + (i - Len(front)) = i + 1
        BY <2>2, <2>4
      <4> QED BY <2>5, <4>2, <4>3
    <3> QED BY <3>2, <3>3, <3>4
  <2>8. ASSUME NEW j \in DOMAIN s, s[j] # w PROVE \E i \in DOMAIN rest : rest[i] = s[j]
    <3>1. DOMAIN rest = 1 .. Len(s) - 1 BY <2>7, LenProperties
    <3>2. CASE j < k BY <2>2, <2>7, <3>1, <3>2
    <3>3. CASE j > k
      <4>1. j - 1 \in k .. Len(s) - 1 /\ (j - 1) + 1 = j /\ j - 1 \in 1 .. Len(s) - 1
        BY <2>2, <3>3
      <4>2. rest[j - 1] = s[j] BY <2>7, <4>1
      <4> QED BY <3>1, <4>1, <4>2
    <3>4. j # k BY <2>1, <2>8
    <3> QED BY <2>2, <3>2, <3>3, <3>4
  <2>9. WithoutStream(s, w) = rest BY <2>1, <2>3, <2>6 DEF RemoveAt
  <2> QED BY <2>7, <2>8, <2>9 DEF ToSet
<1> QED BY <1>1, <1>2

LEMMA NextCall ==
  ASSUME NEW W, NEW s \in Seq(W), s # <<>>
  PROVE  /\ Head(s) \in W /\ Tail(s) \in Seq(W)
         /\ \A v \in ToSet(s) : v = Head(s) \/ v \in ToSet(Tail(s))
<1>1. /\ Len(s) \in Nat \ {0} /\ Tail(s) \in Seq(W) /\ Len(Tail(s)) = Len(s) - 1
      /\ \A i \in 1 .. Len(Tail(s)) : Tail(s)[i] = s[i + 1]
      /\ Head(s) \in W
  BY EmptySeq, HeadTailProperties
<1>2. DOMAIN s = 1 .. Len(s) /\ DOMAIN Tail(s) = 1 .. Len(s) - 1 /\ Head(s) = s[1]
  BY <1>1, LenProperties
<1>3. ASSUME NEW j \in DOMAIN s PROVE s[j] = Head(s) \/ s[j] \in ToSet(Tail(s))
  <2>1. CASE j = 1 BY <1>2, <2>1
  <2>2. CASE j # 1
    <3>1. j - 1 \in 1 .. Len(Tail(s)) /\ (j - 1) + 1 = j /\ j - 1 \in DOMAIN Tail(s)
      BY <1>1, <1>2, <2>2
    <3>2. Tail(s)[j - 1] = s[j] BY <1>1, <3>1
    <3> QED BY <3>1, <3>2 DEF ToSet
  <2> QED BY <2>1, <2>2
<1> QED BY <1>1, <1>3 DEF ToSet

----------------------------------------------------------------------------
StatusesOfRuns == {"none", "pending", "running", "completed", "failed"}

WorkerStates ==
    [at : {"none", "start", "work", "notify", "deliver", "hooks", "over", "aborted"},
     then : {"none", "work", "over"}, calls : Seq(Watchers)]

WatcherStates ==
    [at : {"new", "refused", "subscribe", "tell", "test", "wait", "closed", "left"},
     told : StatusesOfRuns, queue : Nat]

PollerStates ==
    [at : {"new", "refused", "sleep", "tell", "test", "closed"},
     told : StatusesOfRuns, last : StatusesOfRuns, polls : Nat]

RunTypes ==
    /\ status \in StatusesOfRuns
    /\ worker \in WorkerStates
    /\ subscribers \in Seq(Watchers)
    /\ watcher \in [Watchers -> WatcherStates]
    /\ poller \in [Pollers -> PollerStates]

\* What the status of the run is at each place of its thread.
RunPlaced ==
    LET telling == worker.at \in {"notify", "deliver"}
    IN  /\ worker.at = "none" => status = "none"
        /\ worker.at = "start" => status = "pending"
        /\ worker.at \in {"work", "aborted"} => status = "running"
        /\ telling => \/ worker.then = "work" /\ status = "running"
                      \/ worker.then = "over" /\ status \in {"completed", "failed"}
        /\ worker.at \in {"hooks", "over"} => status \in {"completed", "failed"}

\* A stream that has subscribed is in the list until it leaves; what it has told
\* is the status, or it will be woken.
WatcherTrue(w) ==
    LET t == watcher[w]
    IN  /\ t.at \in {"tell", "test", "wait"} => w \in ToSet(subscribers)
        /\ t.at \in {"test", "wait"} =>
             /\ status # "none"
             /\ t.queue = 0 => status = t.told \/ StillTo(w)
        /\ t.at \in {"subscribe", "tell"} => status # "none"
        /\ t.at = "closed" => status \in {"completed", "failed"}

PollerTrue(p) ==
    /\ poller[p].at \notin {"new", "refused"} => status # "none"
    /\ poller[p].at = "closed" =>
         status \in {"completed", "failed"} \/ poller[p].polls = MaxPolls

StreamInv ==
    /\ RunTypes
    /\ RunPlaced
    /\ \A w \in Watchers : WatcherTrue(w)
    /\ \A p \in Pollers : PollerTrue(p)

LEMMA StreamsStart == RunInit => StreamInv
<1> SUFFICES ASSUME RunInit PROVE StreamInv OBVIOUS
<1>1. RunTypes
  BY DEF RunInit, RunTypes, WorkerStates, WatcherStates, PollerStates, StatusesOfRuns
<1>2. \A w \in Watchers : WatcherTrue(w) BY DEF RunInit, WatcherTrue
<1>3. \A p \in Pollers : PollerTrue(p) BY DEF RunInit, PollerTrue
<1> QED BY <1>1, <1>2, <1>3 DEF StreamInv, RunPlaced, RunInit

\* The run goes on, and its status may change with it: then it is about to
\* notify everybody.
LEMMA WorkerKeeps ==
  ASSUME StreamInv,
         Submit \/ StartRunning \/ Log \/ Finish \/ Abort \/ EndHooks \/ Notify \/ Delivered
  PROVE  StreamInv'
<1> USE DEF WorkAt
<1>1. UNCHANGED <<subscribers, watcher, poller>>
  BY DEF Submit, StartRunning, Log, Finish, Abort, EndHooks, Notify, Delivered
<1>2. RunTypes'
  <2>1. status' \in StatusesOfRuns
    BY DEF StreamInv, RunTypes, StatusesOfRuns, Submit, StartRunning, Log, Finish, Abort,
       EndHooks, Notify, Delivered
  <2>2. worker' \in WorkerStates
    BY DEF StreamInv, RunTypes, WorkerStates, RunPlaced, Submit, StartRunning, Log, Finish, Abort,
   EndHooks, Notify, Delivered, Everyone
  <2> QED BY <1>1, <2>1, <2>2 DEF StreamInv, RunTypes
<1>3. RunPlaced'
  BY DEF StreamInv, RunTypes, WorkerStates, RunPlaced, Submit, StartRunning, Log, Finish, Abort,
   EndHooks, Notify, Delivered
<1>4. ASSUME NEW w \in Watchers PROVE WatcherTrue(w)'
  <2>1. WatcherTrue(w) /\ RunTypes /\ RunPlaced BY DEF StreamInv
  <2>2. CASE Submit \/ StartRunning \/ Finish
    BY <1>1, <2>1, <2>2 DEF WatcherTrue, StillTo, RunTypes, WorkerStates, RunPlaced, Submit,
       StartRunning, Finish
  <2>3. CASE Log \/ Abort \/ EndHooks
    BY <1>1, <2>1, <2>3 DEF WatcherTrue, StillTo, RunTypes, WorkerStates, Log, Abort, EndHooks
  <2>4. CASE Notify
    BY <1>1, <2>1, <2>4 DEF WatcherTrue, StillTo, RunTypes, Notify, Everyone
  <2>5. CASE Delivered
    <3>1. worker.calls = <<>> /\ worker.at = "deliver" /\ status' = status
          /\ worker' = [worker EXCEPT !.at = worker.then]
      BY <2>5 DEF Delivered
    <3>2. ToSet(<<>>) = {} BY DEF ToSet
    <3> QED BY <1>1, <2>1, <3>1, <3>2 DEF WatcherTrue, StillTo, RunTypes
  <2> QED BY <2>2, <2>3, <2>4, <2>5
<1>5. ASSUME NEW p \in Pollers PROVE PollerTrue(p)'
  BY <1>1 DEF StreamInv, PollerTrue, RunTypes, RunPlaced, Submit, StartRunning, Log, Finish, Abort,
     EndHooks, Notify, Delivered
<1> QED BY <1>2, <1>3, <1>4, <1>5 DEF StreamInv

LEMMA DeliverKeeps ==
  ASSUME StreamInv, Deliver
  PROVE  StreamInv'
<1>1. PICK h, rest, calls :
        h = Head(worker.calls) /\ rest = Tail(worker.calls) /\ calls = worker.calls
  OBVIOUS
<1>2. /\ h \in Watchers /\ rest \in Seq(Watchers)
      /\ \A v \in ToSet(calls) : v = h \/ v \in ToSet(rest)
  <2>1. calls \in Seq(Watchers) /\ calls # <<>>
    BY <1>1 DEF Deliver, StreamInv, RunTypes, WorkerStates
  <2> QED BY <1>1, <2>1, NextCall
<1>3. /\ watcher' = [watcher EXCEPT ![h].queue = @ + 1] /\ worker' = [worker EXCEPT !.calls = rest]
      /\ worker.at = "deliver" /\ UNCHANGED <<status, logged, subscribers, poller, gone>>
  BY <1>1 DEF Deliver
<1>4. RunTypes'
  <2>1. worker' \in WorkerStates BY <1>2, <1>3 DEF StreamInv, RunTypes, WorkerStates
  <2>2. watcher' \in [Watchers -> WatcherStates]
    <3>1. PICK q : q = watcher[h].queue + 1 OBVIOUS
    <3>2. q \in Nat /\ watcher' = [watcher EXCEPT ![h].queue = q]
      BY <1>2, <1>3, <3>1 DEF StreamInv, RunTypes, WatcherStates
    <3> QED BY <1>2, <3>2 DEF StreamInv, RunTypes, WatcherStates
  <2> QED BY <1>3, <2>1, <2>2 DEF StreamInv, RunTypes
<1>5. RunPlaced' BY <1>3 DEF StreamInv, RunTypes, RunPlaced
<1>6. ASSUME NEW w \in Watchers PROVE WatcherTrue(w)'
  <2>1. WatcherTrue(w) /\ RunTypes BY DEF StreamInv
  <2>2. CASE w = h
    <3>1. /\ watcher'[w].at = watcher[w].at /\ watcher'[w].told = watcher[w].told
          /\ watcher'[w].queue = watcher[w].queue + 1 /\ watcher[w].queue \in Nat
      BY <1>2, <1>3, <2>1, <2>2 DEF RunTypes, WatcherStates
    <3> QED BY <1>3, <2>1, <3>1 DEF WatcherTrue
  <2>3. CASE w # h
    <3>1. watcher'[w] = watcher[w] BY <1>2, <1>3, <2>1, <2>3 DEF RunTypes
    <3>2. StillTo(w) => StillTo(w)'
      BY <1>1, <1>2, <1>3, <2>1, <2>3 DEF StillTo, RunTypes, WorkerStates
    <3> QED BY <1>3, <2>1, <3>1, <3>2 DEF WatcherTrue
  <2> QED BY <2>2, <2>3
<1>7. \A p \in Pollers : PollerTrue(p)' BY <1>3 DEF StreamInv, PollerTrue
<1> QED BY <1>4, <1>5, <1>6, <1>7 DEF StreamInv

----------------------------------------------------------------------------
\* A step of one stream that keeps its own promise, and leaves every other
\* stream in the list, keeps them all.
LEMMA StreamMoves ==
  ASSUME StreamInv, NEW w \in Watchers,
         UNCHANGED <<status, worker, poller>>,
         subscribers' \in Seq(Watchers),
         \A v \in Watchers \ {w} : v \in ToSet(subscribers) => v \in ToSet(subscribers)',
         watcher' \in [Watchers -> WatcherStates],
         \A v \in Watchers \ {w} : watcher'[v] = watcher[v],
         WatcherTrue(w)'
  PROVE  StreamInv'
<1>1. RunTypes' /\ RunPlaced' BY DEF StreamInv, RunTypes, RunPlaced
<1>2. ASSUME NEW v \in Watchers PROVE WatcherTrue(v)'
  <2>1. CASE v = w BY <2>1
  <2>2. CASE v # w
    <3>1. WatcherTrue(v) BY DEF StreamInv
    <3>2. watcher'[v] = watcher[v] /\ (v \in ToSet(subscribers) => v \in ToSet(subscribers)')
      BY <2>2
    <3> QED BY <3>1, <3>2 DEF WatcherTrue, StillTo
  <2> QED BY <2>1, <2>2
<1>3. \A p \in Pollers : PollerTrue(p)' BY DEF StreamInv, PollerTrue
<1> QED BY <1>1, <1>2, <1>3 DEF StreamInv

LEMMA WatcherTypeIs ==
  ASSUME StreamInv, NEW w \in Watchers
  PROVE  /\ watcher[w].told \in StatusesOfRuns /\ watcher[w].queue \in Nat
         /\ WatcherTrue(w) /\ RunPlaced
         /\ subscribers \in Seq(Watchers) /\ status \in StatusesOfRuns
BY DEF StreamInv, RunTypes, WatcherStates

LEMMA OpenKeeps ==
  ASSUME StreamInv, NEW w \in Watchers, Open(w) \/ Leave(w) \/ Wake(w)
  PROVE  StreamInv'
<1>1. UNCHANGED <<status, worker, subscribers, poller>> BY DEF Open, Leave, Wake
<1>2. watcher' \in [Watchers -> WatcherStates]
  <2>1. CASE Wake(w)
    <3>1. PICK q : q = watcher[w].queue - 1 OBVIOUS
    <3>2. q \in Nat BY <2>1, <3>1, WatcherTypeIs DEF Wake
    <3>3. watcher' = [watcher EXCEPT ![w].at = "tell", ![w].queue = q]
      BY <2>1, <3>1 DEF Wake, StreamInv, RunTypes, WatcherStates
    <3>4. PICK new : new = [watcher[w] EXCEPT !.at = "tell", !.queue = q] OBVIOUS
    <3>5. new \in WatcherStates BY <3>2, <3>4 DEF StreamInv, RunTypes, WatcherStates
    <3>6. watcher' = [watcher EXCEPT ![w] = new] BY <3>3, <3>4 DEF StreamInv, RunTypes
    <3> QED BY <3>5, <3>6 DEF StreamInv, RunTypes
  <2>2. CASE Leave(w) BY <2>2 DEF StreamInv, RunTypes, Leave
  <2>3. CASE Open(w)
    <3>1. PICK place \in {"refused", "subscribe"} : watcher' = [watcher EXCEPT ![w].at = place]
      BY <2>3 DEF Open, WatchAt
    <3> QED BY <3>1 DEF StreamInv, RunTypes, WatcherStates
  <2> QED BY <2>1, <2>2, <2>3
<1>3. \A v \in Watchers \ {w} : watcher'[v] = watcher[v]
  BY DEF StreamInv, RunTypes, Open, Leave, Wake, WatchAt
<1>4. WatcherTrue(w)'
  <2>1. CASE Open(w)
    BY <1>1, <2>1, WatcherTypeIs DEF WatcherTrue, Open, WatchAt, StreamInv, RunTypes
  <2>2. CASE Wake(w)
    <3>1. watcher'[w].at = "tell" /\ watcher[w].at = "wait"
      BY <2>2 DEF Wake, StreamInv, RunTypes
    <3> QED BY <1>1, <3>1, WatcherTypeIs DEF WatcherTrue
  <2>3. CASE Leave(w) BY <1>1, <2>3, WatcherTypeIs DEF WatcherTrue, Leave, StillTo
  <2> QED BY <2>1, <2>2, <2>3
<1>5. subscribers' \in Seq(Watchers)
      /\ \A v \in Watchers \ {w} : v \in ToSet(subscribers) => v \in ToSet(subscribers)'
  BY <1>1, WatcherTypeIs
<1> QED BY <1>1, <1>2, <1>3, <1>4, <1>5, StreamMoves

LEMMA SubscribeKeeps ==
  ASSUME StreamInv, NEW w \in Watchers, Subscribe(w)
  PROVE  StreamInv'
<1>1. PICK subs : subs = subscribers OBVIOUS
<1>2. UNCHANGED <<status, worker, poller>> /\ subscribers' = Append(subs, w)
  BY <1>1 DEF Subscribe
<1>3. subs \in Seq(Watchers) BY <1>1, WatcherTypeIs
<1>4. /\ Append(subs, w) \in Seq(Watchers)
      /\ \A v \in ToSet(subs) \cup {w} : v \in ToSet(Append(subs, w))
  BY <1>3, JoinsSeq
<1>5. /\ watcher' \in [Watchers -> WatcherStates]
      /\ watcher'[w].at = "tell" /\ watcher[w].at = "subscribe"
      /\ \A v \in Watchers \ {w} : watcher'[v] = watcher[v]
  BY DEF StreamInv, RunTypes, WatcherStates, Subscribe, WatchAt
<1>6. WatcherTrue(w)' BY <1>2, <1>4, <1>5, WatcherTypeIs DEF WatcherTrue
<1>7. subscribers' \in Seq(Watchers)
      /\ \A v \in Watchers \ {w} : v \in ToSet(subscribers) => v \in ToSet(subscribers)'
  BY <1>1, <1>2, <1>4
<1> QED BY <1>2, <1>5, <1>6, <1>7, StreamMoves

\* What leaves the list is the stream that leaves, and no other.
LEMMA UnsubscribeKeeps ==
  ASSUME StreamInv, NEW w \in Watchers, Unsubscribe(w)
  PROVE  /\ subscribers' \in Seq(Watchers)
         /\ \A v \in Watchers \ {w} : v \in ToSet(subscribers) => v \in ToSet(subscribers)'
<1>1. PICK subs : subs = subscribers OBVIOUS
<1>2. subs \in Seq(Watchers) /\ subscribers' = WithoutStream(subs, w)
  BY <1>1, WatcherTypeIs DEF Unsubscribe
<1>3. /\ WithoutStream(subs, w) \in Seq(Watchers)
      /\ \A v \in ToSet(subs) \ {w} : v \in ToSet(WithoutStream(subs, w))
  BY <1>2, LeavesSeq
<1> QED BY <1>1, <1>2, <1>3

LEMMA TellKeeps ==
  ASSUME StreamInv, NEW w \in Watchers, Tell(w)
  PROVE  StreamInv'
<1>1. UNCHANGED <<status, worker, poller>> /\ watcher[w].at = "tell" BY DEF Tell
<1>2. CASE UNCHANGED subscribers /\ watcher' = [watcher EXCEPT ![w].at = "test", ![w].told = status]
  <2>1. PICK s : s = status OBVIOUS
  <2>2. s \in StatusesOfRuns /\ watcher' = [watcher EXCEPT ![w].at = "test", ![w].told = s]
    BY <1>2, <2>1, WatcherTypeIs
  <2>3. /\ watcher' \in [Watchers -> WatcherStates]
        /\ watcher'[w].at = "test" /\ watcher'[w].told = s
        /\ \A v \in Watchers \ {w} : watcher'[v] = watcher[v]
    BY <2>2 DEF StreamInv, RunTypes, WatcherStates
  <2>4. WatcherTrue(w)' BY <1>1, <1>2, <2>1, <2>3, WatcherTypeIs DEF WatcherTrue
  <2>5. subscribers' \in Seq(Watchers)
        /\ \A v \in Watchers \ {w} : v \in ToSet(subscribers) => v \in ToSet(subscribers)'
    BY <1>2, WatcherTypeIs
  <2> QED BY <1>1, <2>3, <2>4, <2>5, StreamMoves
<1>3. CASE w \in gone /\ WatchAt(w, "left") /\ Unsubscribe(w)
  <2>1. /\ watcher' \in [Watchers -> WatcherStates]
        /\ watcher'[w].at = "left"
        /\ \A v \in Watchers \ {w} : watcher'[v] = watcher[v]
    BY <1>3 DEF StreamInv, RunTypes, WatcherStates, WatchAt
  <2>2. WatcherTrue(w)' BY <2>1 DEF WatcherTrue
  <2> QED BY <1>1, <1>3, <2>1, <2>2, UnsubscribeKeeps, StreamMoves
<1> QED BY <1>2, <1>3 DEF Tell

LEMMA TestFinalKeeps ==
  ASSUME StreamInv, NEW w \in Watchers, TestFinal(w)
  PROVE  StreamInv'
<1>1. UNCHANGED <<status, worker, poller>> /\ watcher[w].at = "test" BY DEF TestFinal
<1>2. CASE Final(status)
  <2>1. WatchAt(w, "closed") /\ Unsubscribe(w) BY <1>2 DEF TestFinal
  <2>2. /\ watcher' \in [Watchers -> WatcherStates]
        /\ watcher'[w].at = "closed"
        /\ \A v \in Watchers \ {w} : watcher'[v] = watcher[v]
    BY <2>1 DEF StreamInv, RunTypes, WatcherStates, WatchAt
  <2>3. status \in {"completed", "failed"}
    BY <1>2, WatcherTypeIs DEF Final, FinalStatuses, StatusesOfRuns
  <2>4. WatcherTrue(w)' BY <1>1, <2>2, <2>3 DEF WatcherTrue
  <2> QED BY <1>1, <2>1, <2>2, <2>4, UnsubscribeKeeps, StreamMoves
<1>3. CASE ~Final(status)
  <2>1. WatchAt(w, "wait") /\ UNCHANGED subscribers BY <1>3 DEF TestFinal
  <2>2. /\ watcher' \in [Watchers -> WatcherStates]
        /\ watcher'[w] = [watcher[w] EXCEPT !.at = "wait"]
        /\ \A v \in Watchers \ {w} : watcher'[v] = watcher[v]
    BY <2>1 DEF StreamInv, RunTypes, WatcherStates, WatchAt
  <2>3. /\ watcher'[w].at = "wait" /\ watcher'[w].told = watcher[w].told
        /\ watcher'[w].queue = watcher[w].queue
    BY <2>2 DEF StreamInv, RunTypes
  <2>4. WatcherTrue(w)' BY <1>1, <2>1, <2>3, WatcherTypeIs DEF WatcherTrue, StillTo
  <2>5. subscribers' \in Seq(Watchers)
        /\ \A v \in Watchers \ {w} : v \in ToSet(subscribers) => v \in ToSet(subscribers)'
    BY <2>1, WatcherTypeIs
  <2> QED BY <1>1, <2>2, <2>4, <2>5, StreamMoves
<1> QED BY <1>2, <1>3

----------------------------------------------------------------------------
\* The event streams only look.
LEMMA PollersKeep ==
  ASSUME StreamInv, NEW p \in Pollers, OpenStream(p) \/ PollerStep(p)
  PROVE  StreamInv'
<1>0. ExecutorAssumption BY ExecutorAssumption
<1>1. UNCHANGED <<status, worker, subscribers, watcher>>
  BY DEF OpenStream, PollerStep, Poll, TellStream, TestStream
<1>2. PICK s, n : s = status /\ n = poller[p].polls OBVIOUS
<1>3. s \in StatusesOfRuns /\ n \in Nat /\ PollerTrue(p)
  BY <1>2 DEF StreamInv, RunTypes, PollerStates
<1>4. /\ poller' \in [Pollers -> PollerStates]
      /\ \A q \in Pollers \ {p} : poller'[q] = poller[q]
      /\ PollerTrue(p)'
  <2>1. CASE OpenStream(p)
    BY <1>1, <1>2, <1>3, <2>1 DEF OpenStream, StreamInv, RunTypes, PollerStates, PollerTrue
  <2>2. CASE Poll(p)
    <3>1. PICK place, m : place = (IF s = poller[p].last THEN "test" ELSE "tell") /\ m = n + 1
      OBVIOUS
    <3>2. place \in {"test", "tell"} /\ m \in Nat BY <1>3, <3>1
    <3>3. poller' = [poller EXCEPT ![p].at = place, ![p].last = s, ![p].polls = m]
      BY <1>2, <2>2, <3>1 DEF Poll, StreamInv, RunTypes
    <3>4. /\ poller' \in [Pollers -> PollerStates]
          /\ \A q \in Pollers \ {p} : poller'[q] = poller[q]
          /\ poller'[p].at = place
      <4>1. PICK new : new = [poller[p] EXCEPT !.at = place, !.last = s, !.polls = m]
        OBVIOUS
      <4>2. new \in PollerStates /\ new.at = place
        BY <1>3, <3>2, <4>1 DEF StreamInv, RunTypes, PollerStates
      <4>3. poller' = [poller EXCEPT ![p] = new] BY <3>3, <4>1 DEF StreamInv, RunTypes
      <4> QED BY <4>2, <4>3 DEF StreamInv, RunTypes
    <3>5. poller[p].at = "sleep" BY <2>2 DEF Poll
    <3> QED BY <1>1, <1>3, <3>2, <3>4, <3>5 DEF PollerTrue
  <2>3. CASE TellStream(p)
    <3>1. poller' = [poller EXCEPT ![p].at = "test", ![p].told = s] /\ poller[p].at = "tell"
      BY <1>2, <2>3 DEF TellStream
    <3>2. /\ poller' \in [Pollers -> PollerStates]
          /\ \A q \in Pollers \ {p} : poller'[q] = poller[q]
          /\ poller'[p].at = "test"
      BY <1>3, <3>1 DEF StreamInv, RunTypes, PollerStates
    <3> QED BY <1>1, <1>3, <3>1, <3>2 DEF PollerTrue
  <2>4. CASE TestStream(p)
    <3>1. PICK place : place = (IF Final(s) \/ n = MaxPolls THEN "closed" ELSE "sleep")
      OBVIOUS
    <3>2. /\ place \in {"closed", "sleep"}
          /\ place = "closed" => s \in {"completed", "failed"} \/ n = MaxPolls
      BY <1>3, <3>1 DEF Final, FinalStatuses, StatusesOfRuns
    <3>3. poller' = [poller EXCEPT ![p].at = place] /\ poller[p].at = "test"
      BY <1>2, <2>4, <3>1 DEF TestStream
    <3>4. /\ poller' \in [Pollers -> PollerStates]
          /\ \A q \in Pollers \ {p} : poller'[q] = poller[q]
          /\ poller'[p].at = place /\ poller'[p].polls = n
      BY <1>2, <1>3, <3>2, <3>3 DEF StreamInv, RunTypes, PollerStates
    <3> QED BY <1>1, <1>2, <1>3, <3>2, <3>3, <3>4 DEF PollerTrue
  <2> QED BY <2>1, <2>2, <2>3, <2>4 DEF PollerStep
<1>5. RunTypes' /\ RunPlaced' BY <1>1, <1>4 DEF StreamInv, RunTypes, RunPlaced
<1>6. \A w \in Watchers : WatcherTrue(w)' BY <1>1 DEF StreamInv, WatcherTrue, StillTo
<1>7. ASSUME NEW q \in Pollers PROVE PollerTrue(q)'
  <2>1. CASE q = p BY <1>4, <2>1
  <2>2. CASE q # p BY <1>1, <1>4, <2>2 DEF StreamInv, PollerTrue
  <2> QED BY <2>1, <2>2
<1> QED BY <1>5, <1>6, <1>7 DEF StreamInv

LEMMA StreamsStep == StreamInv /\ [RunNext]_runVars => StreamInv'
<1> SUFFICES ASSUME StreamInv, [RunNext]_runVars PROVE StreamInv' OBVIOUS
<1>1. CASE Submit \/ StartRunning \/ Log \/ Finish \/ Abort \/ EndHooks \/ Notify \/ Delivered
  BY <1>1, WorkerKeeps
<1>2. CASE Deliver BY <1>2, DeliverKeeps
<1>3. ASSUME NEW w \in Watchers, Open(w) \/ WatcherStep(w) \/ Leave(w)
      PROVE  StreamInv'
  BY <1>3, OpenKeeps, SubscribeKeeps, TellKeeps, TestFinalKeeps DEF WatcherStep
<1>4. ASSUME NEW p \in Pollers, OpenStream(p) \/ PollerStep(p)
      PROVE  StreamInv'
  BY <1>4, PollersKeep
<1>5. CASE UNCHANGED runVars
  BY <1>5 DEF runVars, StreamInv, RunTypes, RunPlaced, WatcherTrue, PollerTrue, StillTo
<1> QED BY <1>1, <1>2, <1>3, <1>4, <1>5 DEF RunNext, WorkerStep

LEMMA StreamsHold == StreamInv => StreamTruthful
BY DEF StreamInv, RunTypes, WatcherTrue, PollerTrue, StreamTruthful

----------------------------------------------------------------------------
(* The page.  What holds of one click: s is what the server has of its run, c *)
(* where its call is, row what the list shows, lost whether it lost a call.   *)
ServedAs == {"none", "pending", "running", "completed", "failed", "failed silently", "gone"}

ClickStates == [at : {"idle", "post", "posted", "sleep", "ask", "asked", "over"},
                answer : RowStatuses \cup {"none", "run_id"}, polls : Nat]

\* A status, shown or on its way, tells of the run.
TellsOf(told, s, lost) ==
    /\ told = "completed" => s \in {"completed", "gone"}
    /\ told = "failed" => s \in {"failed silently", "gone"}
    /\ told = "error" => s \in {"failed", "gone"} \/ lost

\* A click that follows its run has a row, and one that does not has none
\* unless the run has never started or a call was lost.
ClickTrue(s, c, row, lost) ==
    /\ s \in ServedAs /\ c \in ClickStates /\ row \in RowStatuses \cup {NoRow}
    /\ c.at \in {"idle", "post"} => s = "none"
    /\ c.at = "posted" => \/ c.answer = "run_id" /\ s # "none"
                          \/ c.answer = "error" /\ (s = "none" \/ lost)
    /\ c.at = "asked" => c.answer \in RowStatuses /\ TellsOf(c.answer, s, lost)
    /\ c.at \in {"sleep", "ask", "asked"} => s # "none" /\ row # NoRow
    /\ c.at \in {"idle", "post", "posted"} => row = NoRow
    /\ c.at = "over" /\ row = NoRow => s = "none" \/ lost
    /\ c.at = "over" /\ row \in {"pending", "running"} => c.polls = MaxPagePolls
    /\ row # NoRow => s # "none" /\ TellsOf(row, s, lost)

ClickInv(k) == ClickTrue(served[k], click[k], activeRuns[k], k \in mishap)

ListTrue ==
    /\ list.shows = "starting" => list.of \in Clicks /\ click[list.of].at \in {"post", "posted"}
    /\ list.shows = "rows" => \E k \in Clicks : activeRuns[k] # NoRow

PageTypes ==
    /\ served \in [Clicks -> ServedAs] /\ click \in [Clicks -> ClickStates]
    /\ activeRuns \in [Clicks -> RowStatuses \cup {NoRow}]

PageInv ==
    /\ PageTypes
    /\ \A k \in Clicks : ClickInv(k)
    /\ ListTrue

LEMMA PageStarts == PageInit => PageInv
<1> SUFFICES ASSUME PageInit PROVE PageInv OBVIOUS
<1>1. PageTypes /\ ListTrue
  BY DEF PageInit, PageTypes, ListTrue, ClickAt, ServedAs, ClickStates
<1>2. \A k \in Clicks : ClickInv(k)
  BY DEF PageInit, ClickInv, ClickTrue, TellsOf, ClickAt, ServedAs, ClickStates
<1> QED BY <1>1, <1>2 DEF PageInv

LEMMA PageHolds == PageInv => PageTruthful
<1> SUFFICES ASSUME PageInv PROVE PageTruthful OBVIOUS
<1>1. ASSUME NEW k \in Clicks
      PROVE  LET row == activeRuns[k] IN
             /\ click[k].at = "over" /\ row \in {"pending", "running"}
                  => click[k].polls = MaxPagePolls
             /\ row = "completed" => served[k] \in {"completed", "gone"}
             /\ row = "failed" => served[k] \in {"failed silently", "gone"}
             /\ row = "error" => served[k] \in {"failed", "gone"} \/ k \in mishap
             /\ served[k] # "none" /\ row = NoRow /\ k \notin mishap => click[k].at = "posted"
             /\ row # NoRow => served[k] # "none"
  <2>1. ClickInv(k) /\ DashboardAssumption BY DashboardAssumption DEF PageInv
  <2> QED
    BY <2>1 DEF ClickInv, ClickTrue, TellsOf, ClickStates, DashboardAssumption, RowStatuses
<1> QED BY <1>1 DEF PageTruthful, PageInv, ListTrue

----------------------------------------------------------------------------
\* A step of one click, seen from the others.
LEMMA OneClickMoves ==
  ASSUME PageInv, NEW k \in Clicks,
         NEW s \in ServedAs, NEW c \in ClickStates, NEW row \in RowStatuses \cup {NoRow},
         served' = [served EXCEPT ![k] = s],
         click' = [click EXCEPT ![k] = c],
         activeRuns' = [activeRuns EXCEPT ![k] = row],
         mishap' \in {mishap, mishap \cup {k}},
         ClickTrue(s, c, row, k \in mishap'),
         ListTrue'
  PROVE  PageInv'
<1>1. PageTypes' BY DEF PageInv, PageTypes
<1>2. ASSUME NEW j \in Clicks PROVE ClickInv(j)'
  <2>1. CASE j = k BY <2>1 DEF PageInv, PageTypes, ClickInv
  <2>2. CASE j # k
    <3>1. /\ served'[j] = served[j] /\ click'[j] = click[j] /\ activeRuns'[j] = activeRuns[j]
          /\ j \in mishap' <=> j \in mishap
      BY <2>2 DEF PageInv, PageTypes
    <3>2. ClickTrue(served[j], click[j], activeRuns[j], j \in mishap)
      BY DEF PageInv, ClickInv
    <3> QED BY <3>1, <3>2 DEF ClickInv, ClickTrue, TellsOf
  <2> QED BY <2>1, <2>2
<1> QED BY <1>1, <1>2 DEF PageInv

\* The values of a click, and that writing back what is there changes nothing.
LEMMA ClickIs ==
  ASSUME PageInv, NEW k \in Clicks
  PROVE  /\ \E s \in ServedAs, c \in ClickStates, row \in RowStatuses \cup {NoRow} :
              /\ s = served[k] /\ c = click[k] /\ row = activeRuns[k]
         /\ served = [served EXCEPT ![k] = served[k]] /\ click = [click EXCEPT ![k] = click[k]]
         /\ activeRuns = [activeRuns EXCEPT ![k] = activeRuns[k]]
         /\ ClickTrue(served[k], click[k], activeRuns[k], k \in mishap)
         /\ DashboardAssumption
BY DashboardAssumption DEF PageInv, PageTypes, ClickInv

LEMMA AcceptKeeps ==
  ASSUME PageInv, NEW k \in Clicks, AcceptRun(k)
  PROVE  PageInv'
<1>1. PICK s \in ServedAs, c \in ClickStates, row \in RowStatuses \cup {NoRow} :
        /\ s = served[k] /\ c = click[k] /\ row = activeRuns[k]
  BY ClickIs
<1>2. /\ c.at = "post" /\ UNCHANGED <<list, mishap>> /\ activeRuns' = [activeRuns EXCEPT ![k] = row]
      /\ ClickTrue(s, c, row, k \in mishap)
  BY <1>1, ClickIs DEF AcceptRun
<1>3. CASE /\ served' = [served EXCEPT ![k] = "pending"] /\ Goes(k, "posted", "run_id")
  <2>1. PICK new, d : new = "pending" /\ d = [c EXCEPT !.at = "posted", !.answer = "run_id"]
    OBVIOUS
  <2>2. /\ new \in ServedAs /\ d \in ClickStates /\ d.at = "posted" /\ d.answer = "run_id"
    BY <2>1 DEF ServedAs, ClickStates
  <2>3. served' = [served EXCEPT ![k] = new] /\ click' = [click EXCEPT ![k] = d]
    BY <1>1, <1>3, <2>1 DEF Goes, PageInv, PageTypes, ClickStates
  <2>4. ClickTrue(new, d, row, k \in mishap) BY <1>2, <2>1, <2>2 DEF ClickTrue, TellsOf
  <2>5. ListTrue' BY <1>2, <2>2, <2>3, ClickIs, <1>1 DEF PageInv, PageTypes, ListTrue
  <2> QED BY <1>1, <1>2, <2>2, <2>3, <2>4, <2>5, OneClickMoves
<1>4. CASE UNCHANGED served /\ Goes(k, "posted", "error")
  <2>1. PICK d : d = [c EXCEPT !.at = "posted", !.answer = "error"] OBVIOUS
  <2>2. /\ d \in ClickStates /\ d.at = "posted" /\ d.answer = "error"
    BY <2>1 DEF ClickStates, RowStatuses
  <2>3. served' = [served EXCEPT ![k] = s] BY <1>1, <1>4, ClickIs
  <2>4. click' = [click EXCEPT ![k] = d]
    BY <1>1, <1>4, <2>1 DEF Goes, PageInv, PageTypes, ClickStates
  <2>5. ClickTrue(s, d, row, k \in mishap) BY <1>2, <2>2 DEF ClickTrue, TellsOf
  <2>6. ListTrue' BY <1>1, <1>2, <2>2, <2>4 DEF PageInv, PageTypes, ListTrue
  <2> QED BY <1>1, <1>2, <2>2, <2>3, <2>4, <2>5, <2>6, OneClickMoves
<1> QED BY <1>3, <1>4 DEF AcceptRun

LEMMA RunMovesKeeps ==
  ASSUME PageInv, NEW k \in Clicks, RunMoves(k)
  PROVE  PageInv'
<1>1. PICK s \in ServedAs, c \in ClickStates, row \in RowStatuses \cup {NoRow} :
        /\ s = served[k] /\ c = click[k] /\ row = activeRuns[k]
  BY ClickIs
<1>2. /\ UNCHANGED <<list, mishap>> /\ activeRuns' = [activeRuns EXCEPT ![k] = row]
      /\ click' = [click EXCEPT ![k] = c] /\ ClickTrue(s, c, row, k \in mishap)
  BY <1>1, ClickIs DEF RunMoves
<1>3. PICK new \in ServedAs :
        /\ served' = [served EXCEPT ![k] = new] /\ new # "none" /\ s \in {"pending", "running"}
  BY <1>1 DEF RunMoves, ServedAs
<1>4. ClickTrue(new, c, row, k \in mishap)
  BY <1>2, <1>3 DEF ClickTrue, TellsOf, ClickStates
<1>5. ListTrue' BY DEF PageInv, ListTrue, RunMoves
<1> QED BY <1>1, <1>2, <1>3, <1>4, <1>5, OneClickMoves

\* The answer tells of the run at the time it is made.
LEMMA GetRunStatusKeeps ==
  ASSUME PageInv, NEW k \in Clicks, GetRunStatus(k)
  PROVE  PageInv'
<1>1. PICK s \in ServedAs, c \in ClickStates, row \in RowStatuses \cup {NoRow} :
        /\ s = served[k] /\ c = click[k] /\ row = activeRuns[k]
  BY ClickIs
<1>2. /\ UNCHANGED <<list, mishap>> /\ activeRuns' = [activeRuns EXCEPT ![k] = row]
      /\ served' = [served EXCEPT ![k] = s] /\ ClickTrue(s, c, row, k \in mishap) /\ c.at = "ask"
  BY <1>1, ClickIs DEF GetRunStatus
<1>3. PICK answer, d : answer = SummaryOf(s) /\ d = [c EXCEPT !.at = "asked", !.answer = answer]
  OBVIOUS
<1>4. answer \in RowStatuses /\ TellsOf(answer, s, k \in mishap)
  <2>1. s # "none" BY <1>2 DEF ClickTrue
  <2> QED BY <1>3, <2>1 DEF SummaryOf, ServedAs, RowStatuses, TellsOf
<1>5. /\ d \in ClickStates /\ d.at = "asked" /\ d.answer = answer
  BY <1>3, <1>4 DEF ClickStates
<1>6. click' = [click EXCEPT ![k] = d]
  BY <1>1, <1>3 DEF GetRunStatus, Goes, PageInv, PageTypes, ClickStates
<1>7. ClickTrue(s, d, row, k \in mishap) BY <1>2, <1>4, <1>5 DEF ClickTrue
<1>8. ListTrue' BY <1>1, <1>2, <1>6 DEF PageInv, PageTypes, ListTrue
<1> QED BY <1>1, <1>2, <1>5, <1>6, <1>7, <1>8, OneClickMoves

LEMMA PressRunKeeps ==
  ASSUME PageInv, NEW k \in Clicks, PressRun(k)
  PROVE  PageInv'
<1>1. PICK s \in ServedAs, c \in ClickStates, row \in RowStatuses \cup {NoRow} :
        /\ s = served[k] /\ c = click[k] /\ row = activeRuns[k]
  BY ClickIs
<1>2. /\ UNCHANGED mishap /\ activeRuns' = [activeRuns EXCEPT ![k] = row]
      /\ served' = [served EXCEPT ![k] = s] /\ ClickTrue(s, c, row, k \in mishap) /\ c.at = "idle"
  BY <1>1, ClickIs DEF PressRun
<1>3. PICK d : d = [c EXCEPT !.at = "post", !.answer = "none"] OBVIOUS
<1>4. /\ d \in ClickStates /\ d.at = "post" BY <1>3 DEF ClickStates
<1>5. click' = [click EXCEPT ![k] = d]
  BY <1>1, <1>3 DEF PressRun, Goes, PageInv, PageTypes, ClickStates
<1>6. ClickTrue(s, d, row, k \in mishap) BY <1>2, <1>4 DEF ClickTrue
<1>7. ListTrue'
  <2>1. list'.shows = "starting" /\ list'.of = k BY DEF PressRun, Showing
  <2> QED BY <1>4, <1>5, <2>1 DEF PageInv, PageTypes, ListTrue
<1> QED BY <1>1, <1>2, <1>4, <1>5, <1>6, <1>7, OneClickMoves

LEMMA StartAnsweredKeeps ==
  ASSUME PageInv, NEW k \in Clicks, StartAnswered(k)
  PROVE  PageInv'
<1>1. PICK s \in ServedAs, c \in ClickStates, row \in RowStatuses \cup {NoRow} :
        /\ s = served[k] /\ c = click[k] /\ row = activeRuns[k]
  BY ClickIs
<1>2. /\ UNCHANGED mishap /\ served' = [served EXCEPT ![k] = s]
      /\ ClickTrue(s, c, row, k \in mishap) /\ c.at = "posted"
  BY <1>1, ClickIs DEF StartAnswered
<1>3. CASE c.answer = "error"
  <2>1. PICK d : d = [c EXCEPT !.at = "over", !.answer = "none"] OBVIOUS
  <2>2. /\ d \in ClickStates /\ d.at = "over" BY <2>1 DEF ClickStates
  <2>3. /\ click' = [click EXCEPT ![k] = d] /\ activeRuns' = [activeRuns EXCEPT ![k] = row]
        /\ list'.shows = "failed to start"
    <3>1. click' = [click EXCEPT ![k] = d]
      BY <1>1, <1>3, <2>1 DEF StartAnswered, Goes, PageInv, PageTypes, ClickStates
    <3>2. activeRuns' = [activeRuns EXCEPT ![k] = row]
      BY <1>1, <1>3, ClickIs DEF StartAnswered
    <3>3. list'.shows = "failed to start"
      <4>1. Showing("failed to start", k) BY <1>1, <1>3 DEF StartAnswered
      <4> QED BY <4>1 DEF Showing
    <3> QED BY <3>1, <3>2, <3>3
  <2>4. ClickTrue(s, d, row, k \in mishap)
    BY <1>2, <1>3, <2>2, DashboardAssumption DEF ClickTrue, DashboardAssumption, RowStatuses
  <2> QED BY <1>1, <1>2, <2>2, <2>3, <2>4, OneClickMoves DEF ListTrue
<1>4. CASE c.answer # "error"
  <2>1. PICK d, new : d = [c EXCEPT !.at = "sleep", !.answer = "none"] /\ new = "pending"
    OBVIOUS
  <2>2. /\ d \in ClickStates /\ d.at = "sleep" /\ new \in RowStatuses
    BY <2>1 DEF ClickStates, RowStatuses
  <2>3. /\ click' = [click EXCEPT ![k] = d] /\ activeRuns' = [activeRuns EXCEPT ![k] = new]
        /\ list'.shows = "rows"
    <3>1. click' = [click EXCEPT ![k] = d]
      BY <1>1, <1>4, <2>1 DEF StartAnswered, Goes, PageInv, PageTypes, ClickStates
    <3>2. activeRuns' = [activeRuns EXCEPT ![k] = new] /\ list'.shows = "rows"
      BY <1>1, <1>4, <2>1 DEF StartAnswered, ShowRows
    <3> QED BY <3>1, <3>2
  <2>4. ClickTrue(s, d, new, k \in mishap) /\ new # NoRow
    BY <1>2, <1>4, <2>1, <2>2, DashboardAssumption DEF ClickTrue, TellsOf, DashboardAssumption
  <2>5. ListTrue' BY <2>3, <2>4 DEF ListTrue, PageInv, PageTypes
  <2> QED BY <1>1, <1>2, <2>2, <2>3, <2>4, <2>5, OneClickMoves
<1> QED BY <1>3, <1>4

LEMMA AskStatusKeeps ==
  ASSUME PageInv, NEW k \in Clicks, AskStatus(k)
  PROVE  PageInv'
<1>1. PICK s \in ServedAs, c \in ClickStates, row \in RowStatuses \cup {NoRow} :
        /\ s = served[k] /\ c = click[k] /\ row = activeRuns[k]
  BY ClickIs
<1>2. /\ UNCHANGED <<list, mishap>> /\ activeRuns' = [activeRuns EXCEPT ![k] = row]
      /\ served' = [served EXCEPT ![k] = s] /\ ClickTrue(s, c, row, k \in mishap) /\ c.at = "sleep"
  BY <1>1, ClickIs DEF AskStatus
<1>3. PICK n, d : n = c.polls + 1 /\ d = [c EXCEPT !.at = "ask", !.polls = n] OBVIOUS
<1>4. /\ d \in ClickStates /\ d.at = "ask"
  <2>1. n \in Nat BY <1>3 DEF ClickStates
  <2> QED BY <1>3, <2>1 DEF ClickStates
<1>5. click' = [click EXCEPT ![k] = d]
  BY <1>1, <1>3 DEF AskStatus, PageInv, PageTypes, ClickStates
<1>6. ClickTrue(s, d, row, k \in mishap) BY <1>2, <1>4 DEF ClickTrue
<1>7. ListTrue' BY <1>1, <1>2, <1>5 DEF PageInv, PageTypes, ListTrue
<1> QED BY <1>1, <1>2, <1>4, <1>5, <1>6, <1>7, OneClickMoves

LEMMA StatusAnsweredKeeps ==
  ASSUME PageInv, NEW k \in Clicks, StatusAnswered(k)
  PROVE  PageInv'
<1>1. PICK s \in ServedAs, c \in ClickStates, row \in RowStatuses \cup {NoRow} :
        /\ s = served[k] /\ c = click[k] /\ row = activeRuns[k]
  BY ClickIs
<1>2. /\ UNCHANGED mishap /\ served' = [served EXCEPT ![k] = s]
      /\ ClickTrue(s, c, row, k \in mishap) /\ c.at = "asked"
  BY <1>1, ClickIs DEF StatusAnswered
<1>3. PICK answer, place, d :
        /\ answer = c.answer
        /\ place = (IF StopsAt(answer) \/ c.polls = MaxPagePolls THEN "over" ELSE "sleep")
        /\ d = [c EXCEPT !.at = place, !.answer = "none"]
  OBVIOUS
<1>4. answer \in RowStatuses /\ answer # NoRow /\ TellsOf(answer, s, k \in mishap) /\ s # "none"
  BY <1>2, <1>3, DashboardAssumption DEF ClickTrue, DashboardAssumption
<1>5. /\ d \in ClickStates /\ d.at \in {"over", "sleep"} /\ d.polls = c.polls
      /\ d.at = "over" /\ answer \in {"pending", "running"} => d.polls = MaxPagePolls
  BY <1>3 DEF ClickStates, StopsAt, Over
<1>6. /\ click' = [click EXCEPT ![k] = d] /\ activeRuns' = [activeRuns EXCEPT ![k] = answer]
      /\ list'.shows = "rows"
  BY <1>1, <1>3 DEF StatusAnswered, Goes, ShowRows, PageInv, PageTypes, ClickStates
<1>7. ClickTrue(s, d, answer, k \in mishap) BY <1>2, <1>4, <1>5 DEF ClickTrue
<1>8. ListTrue' BY <1>4, <1>6 DEF ListTrue, PageInv, PageTypes
<1> QED BY <1>1, <1>2, <1>4, <1>5, <1>6, <1>7, <1>8, OneClickMoves

LEMMA LoseCallKeeps ==
  ASSUME PageInv, NEW k \in Clicks, LoseCall(k)
  PROVE  PageInv'
<1>1. PICK s \in ServedAs, c \in ClickStates, row \in RowStatuses \cup {NoRow} :
        /\ s = served[k] /\ c = click[k] /\ row = activeRuns[k]
  BY ClickIs
<1>2. /\ mishap' = mishap \cup {k} /\ UNCHANGED list
      /\ activeRuns' = [activeRuns EXCEPT ![k] = row]
      /\ served' = [served EXCEPT ![k] = s] /\ ClickTrue(s, c, row, k \in mishap)
      /\ c.at \in {"post", "posted", "ask", "asked"}
  BY <1>1, ClickIs DEF LoseCall
<1>3. PICK place, d :
        /\ place = (IF c.at \in {"post", "posted"} THEN "posted" ELSE "asked")
        /\ d = [c EXCEPT !.at = place, !.answer = "error"]
  OBVIOUS
<1>4. /\ d \in ClickStates /\ d.at = place /\ d.answer = "error"
  BY <1>3 DEF ClickStates, RowStatuses
<1>5. click' = [click EXCEPT ![k] = d]
  BY <1>1, <1>3 DEF LoseCall, Goes, PageInv, PageTypes, ClickStates
<1>6. k \in mishap' BY <1>2
<1>7. ClickTrue(s, d, row, k \in mishap')
  <2>1. CASE c.at \in {"post", "posted"}
    <3>1. d.at = "posted" BY <1>3, <1>4, <2>1
    <3> QED BY <1>2, <1>4, <1>6, <2>1, <3>1 DEF ClickTrue, TellsOf
  <2>2. CASE c.at \in {"ask", "asked"}
    <3>1. d.at = "asked" /\ "error" \in RowStatuses BY <1>3, <1>4, <2>2 DEF RowStatuses
    <3> QED BY <1>2, <1>4, <1>6, <2>2, <3>1 DEF ClickTrue, TellsOf
  <2> QED BY <1>2, <2>1, <2>2
<1>8. ListTrue' BY <1>1, <1>2, <1>3, <1>4, <1>5 DEF PageInv, PageTypes, ListTrue
<1> QED BY <1>1, <1>2, <1>4, <1>5, <1>7, <1>8, OneClickMoves

\* Every call under way fails, and the runs are forgotten.
LEMMA RestartServerKeeps ==
  ASSUME PageInv, RestartServer
  PROVE  PageInv'
<1> DEFINE failing == {k \in Clicks : click[k].at \in {"post", "posted", "ask", "asked"}}
<1>1. /\ served' = [k \in Clicks |-> IF served[k] = "none" THEN "none" ELSE "gone"]
      /\ click' = [k \in Clicks |->
                     IF k \notin failing THEN click[k]
                     ELSE [click[k] EXCEPT !.answer = "error",
                             !.at = IF @ \in {"post", "posted"} THEN "posted" ELSE "asked"]]
      /\ mishap' = mishap \cup failing /\ UNCHANGED <<activeRuns, list>>
  BY DEF RestartServer
<1>2. ASSUME NEW k \in Clicks
      PROVE  /\ served'[k] \in ServedAs /\ click'[k] \in ClickStates /\ ClickInv(k)'
             /\ click[k].at \in {"post", "posted"} => click'[k].at = "posted"
  <2>1. PICK s \in ServedAs, c \in ClickStates, row \in RowStatuses \cup {NoRow} :
          /\ s = served[k] /\ c = click[k] /\ row = activeRuns[k]
    BY ClickIs
  <2>2. ClickTrue(s, c, row, k \in mishap) BY <2>1, ClickIs
  <2>3. PICK new \in {"none", "gone"} : new = (IF s = "none" THEN "none" ELSE "gone")
    OBVIOUS
  <2>4. new \in ServedAs /\ served'[k] = new /\ activeRuns'[k] = row
        /\ (k \in mishap => k \in mishap')
    BY <1>1, <2>1, <2>3 DEF ServedAs
  <2>5. CASE c.at \in {"post", "posted", "ask", "asked"}
    <3>1. PICK place, d :
            /\ place = (IF c.at \in {"post", "posted"} THEN "posted" ELSE "asked")
            /\ d = [c EXCEPT !.answer = "error", !.at = place]
      OBVIOUS
    <3>2. d \in ClickStates /\ d.at = place /\ d.answer = "error"
      BY <3>1 DEF ClickStates, RowStatuses
    <3>3. k \in failing BY <2>1, <2>5
    <3>4. click'[k] = d /\ k \in mishap' BY <1>1, <2>1, <3>1, <3>3 DEF ClickStates
    <3>5. ClickTrue(new, d, row, k \in mishap')
      BY <2>2, <2>3, <2>4, <2>5, <3>1, <3>2, <3>4 DEF ClickTrue, TellsOf, RowStatuses
    <3> QED BY <2>1, <2>4, <3>1, <3>2, <3>4, <3>5 DEF ClickInv
  <2>6. CASE c.at \notin {"post", "posted", "ask", "asked"}
    <3>1. k \notin failing BY <2>1, <2>6
    <3>2. click'[k] = c BY <1>1, <2>1, <3>1
    <3>3. ClickTrue(new, c, row, k \in mishap')
      BY <2>2, <2>3, <2>4, <2>6 DEF ClickTrue, TellsOf
    <3> QED BY <2>1, <2>4, <2>6, <3>2, <3>3 DEF ClickInv
  <2> QED BY <2>5, <2>6
<1>3. PageTypes' BY <1>1, <1>2 DEF PageInv, PageTypes
<1>4. ListTrue' BY <1>1, <1>2 DEF PageInv, ListTrue
<1> QED BY <1>2, <1>3, <1>4 DEF PageInv

LEMMA LoadAllKeeps ==
  ASSUME PageInv, LoadAll
  PROVE  PageInv'
<1>1. PICK late \in SUBSET {k \in Clicks : click[k].at = "post"} :
        served' = [k \in Clicks |-> IF k \in late THEN "pending" ELSE served[k]]
  BY DEF LoadAll
<1>2. /\ click' = [k \in Clicks |-> IF click[k].at = "idle" THEN click[k] ELSE ClickAt("over")]
      /\ activeRuns' = [k \in Clicks |-> NoRow]
      /\ list' = [shows |-> "recent", of |-> NoRow]
      /\ mishap' = mishap \cup {k \in Clicks : click[k].at # "idle"}
  BY DEF LoadAll
<1>3. ASSUME NEW k \in Clicks
      PROVE  served'[k] \in ServedAs /\ click'[k] \in ClickStates /\ ClickInv(k)'
  <2>1. PICK s \in ServedAs, c \in ClickStates, row \in RowStatuses \cup {NoRow} :
          /\ s = served[k] /\ c = click[k] /\ row = activeRuns[k]
    BY ClickIs
  <2>2. ClickTrue(s, c, row, k \in mishap) /\ DashboardAssumption BY <2>1, ClickIs
  <2>3. CASE c.at = "idle"
    <3>1. served'[k] = s /\ click'[k] = c /\ activeRuns'[k] = NoRow
      BY <1>1, <1>2, <2>1, <2>3
    <3>2. ClickTrue(s, c, NoRow, k \in mishap') BY <2>2, <2>3 DEF ClickTrue
    <3> QED BY <3>1, <3>2 DEF ClickInv
  <2>4. CASE c.at # "idle"
    <3>1. PICK new, d : new = (IF k \in late THEN "pending" ELSE s) /\ d = ClickAt("over")
      OBVIOUS
    <3>2. /\ served'[k] = new /\ click'[k] = d /\ activeRuns'[k] = NoRow /\ k \in mishap'
      BY <1>1, <1>2, <2>1, <2>4, <3>1
    <3>3. new \in ServedAs /\ d \in ClickStates /\ d.at = "over"
      BY <3>1 DEF ServedAs, ClickStates, ClickAt
    <3>4. ClickTrue(new, d, NoRow, k \in mishap')
      BY <2>2, <3>2, <3>3 DEF ClickTrue, DashboardAssumption, RowStatuses
    <3> QED BY <3>2, <3>3, <3>4 DEF ClickInv
  <2> QED BY <2>3, <2>4
<1>4. PageTypes' BY <1>1, <1>2, <1>3 DEF PageTypes
<1>5. ListTrue' BY <1>2 DEF ListTrue
<1> QED BY <1>3, <1>4, <1>5 DEF PageInv

LEMMA PageStep == PageInv /\ [PageNext]_pageVars => PageInv'
<1> SUFFICES ASSUME PageInv, [PageNext]_pageVars PROVE PageInv' OBVIOUS
<1>1. ASSUME NEW k \in Clicks,
             \/ AcceptRun(k) \/ RunMoves(k) \/ GetRunStatus(k) \/ PressRun(k)
             \/ StartAnswered(k) \/ AskStatus(k) \/ StatusAnswered(k) \/ LoseCall(k)
      PROVE  PageInv'
  BY <1>1, AcceptKeeps, RunMovesKeeps, GetRunStatusKeeps, PressRunKeeps, StartAnsweredKeeps,
     AskStatusKeeps, StatusAnsweredKeeps, LoseCallKeeps
<1>2. CASE UNCHANGED pageVars
  BY <1>2 DEF pageVars, PageInv, PageTypes, ClickInv, ListTrue
<1> QED BY <1>1, <1>2, RestartServerKeeps, LoadAllKeeps DEF PageNext

----------------------------------------------------------------------------
\* FollowersToldTruth: a WebSocket that waits with nothing queued has told the
\* status of the run or will be woken for it, a stream the server closes belongs
\* to a run that is over or was polled to its limit, and what the page shows of a
\* run is so - for any number of streams, clicks and polls.
THEOREM FollowersAreTold == MCSpec => []FollowersToldTruth
<1>1. MCInit => StreamInv /\ PageInv BY StreamsStart, PageStarts DEF MCInit
<1>2. StreamInv /\ PageInv /\ [MCNext]_apiVars => StreamInv' /\ PageInv'
  <2> SUFFICES ASSUME StreamInv, PageInv, [MCNext]_apiVars PROVE StreamInv' /\ PageInv'
    OBVIOUS
  <2>1. [RunNext]_runVars BY DEF MCNext, Only, apiVars
  <2>2. [PageNext]_pageVars BY DEF MCNext, Only, apiVars
  <2> QED BY <2>1, <2>2, StreamsStep, PageStep
<1>3. StreamInv /\ PageInv => FollowersToldTruth
  BY StreamsHold, PageHolds DEF FollowersToldTruth
<1> QED BY <1>1, <1>2, <1>3, PTL DEF MCSpec
=============================================================================
