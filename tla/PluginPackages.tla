--------------------------- MODULE PluginPackages --------------------------
(***************************************************************************)
(* marketplace: a plugin package is signed, verified and loaded.           *)
(*                                                                         *)
(* The signature stands in the manifest and covers every file of the       *)
(* package, the manifest without its signature included.  Signing and      *)
(* verifying both bring the manifest into canonical form by writing it,    *)
(* one file access at a time; calls overlap, die, and the author of the    *)
(* package edits it.  Importing a module leaves its bytecode beside it.    *)
(* The text of a file is the number of the edit that wrote it, and what    *)
(* was signed is kept whole, so that no two texts have one signature.      *)
(***************************************************************************)
EXTENDS Naturals, FiniteSets

CONSTANTS
    PackageCalls,  \* calls of PluginSigner.sign_package and PluginManager.load
    SigningKeys,   \* private keys
    TrustedKeys,   \* the ids found in trusted_key_dirs
    NamedKey,      \* trusted_key_id of the manifest
    MaxRevisions,  \* bound: edits of the package
    Nil            \* no signature, no file, no module

ASSUME PackagesAssumption ==
    /\ IsFiniteSet(PackageCalls) /\ MaxRevisions \in Nat
    /\ Nil \notin SigningKeys /\ Nil \notin Nat

VARIABLES
    manifest,   \* manifest.json: its text, 0 when cut short, and its signature
    entry,      \* the entry point
    bytecode,   \* __pycache__: the entry point it was compiled from
    modules,    \* PluginManager._loaded
    packageCalls,
    revisions,  \* edits so far
    signed,     \* history: what was signed, by which key
    verdicts    \* history: what undisturbed verifications have said since the
                \* package was last edited or signed

packageVars == <<manifest, entry, bytecode, modules, packageCalls, revisions,
                 signed, verdicts>>

Manifest(text, signature) == [text |-> text, signature |-> signature]

\* _canonical_package_message: every file in the package.  A manifest that
\* holds a signature is another text than one that holds none.
PackageMessage ==
    [text |-> manifest.text, holds |-> manifest.signature # Nil,
     entry |-> entry, bytecode |-> bytecode]

Idle == [at |-> "new", op |-> "none", key |-> Nil, read |-> Manifest(0, Nil),
         signature |-> Nil, alone |-> TRUE, asSigned |-> FALSE,
         outcome |-> "none", module |-> Nil]

PackagesInit ==
    /\ manifest = Manifest(1, Nil)
    /\ entry \in {1, Nil}
    /\ bytecode = Nil
    /\ modules = Nil
    /\ packageCalls = [c \in PackageCalls |-> Idle]
    /\ revisions = 1
    /\ signed = {} /\ verdicts = {}

AtPackage(c, place) == packageCalls[c].at = place

\* The call goes on as r, all others as they are.
Now(c, r) == packageCalls' = [packageCalls EXCEPT ![c] = r]

MoveOn(c, place) == [packageCalls[c] EXCEPT !.at = place]

PackageOver(c, outcome) == [packageCalls[c] EXCEPT !.at = "over", !.outcome = outcome]

InProgress(c) == packageCalls[c].at \notin {"new", "over"}

\* c begins: neither it nor a call in progress is alone.
Begin(c, r) ==
    LET others == {d \in PackageCalls : InProgress(d)}
    IN  packageCalls' = [d \in PackageCalls |->
            IF d = c THEN [r EXCEPT !.alone = others = {}]
            ELSE IF d \in others THEN [packageCalls[d] EXCEPT !.alone = FALSE]
            ELSE packageCalls[d]]

FilesStay == UNCHANGED <<entry, bytecode, modules, revisions>>

\* Writing the manifest empties it first.
EmptyManifest(c) ==
    \E place \in {"canonical", "finish"} :
        /\ AtPackage(c, place)
        /\ manifest' = Manifest(0, Nil)
        /\ Now(c, MoveOn(c, IF place = "canonical" THEN "fill" ELSE "seal"))
        /\ FilesStay /\ UNCHANGED <<signed, verdicts>>

----------------------------------------------------------------------------
(* sign_package.                                                           *)

\* The private key is loaded and the manifest parsed; a signature of before
\* stays in it.
BeginSigning(c, key) ==
    /\ AtPackage(c, "new")
    /\ Begin(c, [Idle EXCEPT !.op = "sign", !.key = key, !.read = manifest,
                     !.at = IF manifest.text = 0 THEN "over" ELSE "canonical",
                     !.outcome = IF manifest.text = 0 THEN "refused" ELSE "none"])
    /\ verdicts' = {}
    /\ FilesStay /\ UNCHANGED <<manifest, signed>>

WriteCanonical(c) ==
    /\ AtPackage(c, "fill")
    /\ manifest' = packageCalls[c].read
    /\ Now(c, MoveOn(c, "message"))
    /\ FilesStay /\ UNCHANGED <<signed, verdicts>>

SignMessage(c) ==
    /\ AtPackage(c, "message") /\ packageCalls[c].op = "sign"
    /\ LET s == [key |-> packageCalls[c].key, over |-> PackageMessage]
       IN  /\ Now(c, [MoveOn(c, "finish") EXCEPT !.signature = s])
           /\ signed' = signed \cup {s}
    /\ FilesStay /\ UNCHANGED <<manifest, verdicts>>

WriteSignature(c) ==
    /\ AtPackage(c, "seal")
    /\ manifest' = Manifest(packageCalls[c].read.text, packageCalls[c].signature)
    /\ Now(c, PackageOver(c, "signed"))
    /\ verdicts' = {}
    /\ FilesStay /\ UNCHANGED signed

----------------------------------------------------------------------------
(* load.                                                                   *)

Stripped(m) == [m EXCEPT !.signature = Nil]

\* A mutant: the signature stays where it is.
Unstripped(m) == m

\* What verify_package signs for: the manifest without its signature.
WithoutSignature(m) == Stripped(m)

\* A mutant: whoever has signed.
AnyoneSigned(s, key, message) == s.over = message

Matches(s, key, message) == s.key = key /\ s.over = message

\* The package is as the named key has signed it.
AsSigned ==
    /\ manifest.signature # Nil /\ manifest.text # 0
    /\ manifest.signature.key = NamedKey /\ NamedKey \in TrustedKeys
    /\ manifest.signature.over = [PackageMessage EXCEPT !.holds = FALSE]

Judge(c, verdict) ==
    verdicts' = IF packageCalls[c].alone THEN verdicts \cup {verdict} ELSE verdicts

\* The manifest is parsed and validated; it must hold a signature and name a
\* key that is trusted.
BeginLoad(c) ==
    LET refused == manifest.signature = Nil \/ NamedKey \notin TrustedKeys
        alone == \A d \in PackageCalls : ~ InProgress(d)
    IN  /\ AtPackage(c, "new")
        /\ Begin(c, [Idle EXCEPT !.op = "load", !.asSigned = AsSigned,
                         !.at = IF refused THEN "over" ELSE "verify",
                         !.outcome = IF refused THEN "refused" ELSE "none"])
        /\ verdicts' = IF refused /\ alone /\ manifest.text # 0
                       THEN verdicts \cup {"refused"} ELSE verdicts
        /\ FilesStay /\ UNCHANGED <<manifest, signed>>

\* verify_package parses the manifest again and takes the signature out.
ReadSignature(c) ==
    /\ AtPackage(c, "verify")
    /\ IF manifest.signature = Nil
       THEN Now(c, PackageOver(c, "refused")) /\ Judge(c, "refused")
       ELSE /\ Now(c, [MoveOn(c, "canonical") EXCEPT
                           !.read = WithoutSignature(manifest),
                           !.signature = manifest.signature])
            /\ UNCHANGED verdicts
    /\ FilesStay /\ UNCHANGED <<manifest, signed>>

CheckMessage(c) ==
    LET matches == Matches(packageCalls[c].signature, NamedKey, PackageMessage)
    IN  /\ AtPackage(c, "message") /\ packageCalls[c].op = "load"
        /\ Now(c, IF matches THEN MoveOn(c, "import") ELSE PackageOver(c, "refused"))
        /\ Judge(c, IF matches THEN "valid" ELSE "refused")
        /\ FilesStay /\ UNCHANGED <<manifest, signed>>

\* The module is imported, which may leave bytecode, and its hook is called in
\* the sandbox; either of them may raise.
ImportEntry(c) ==
    /\ AtPackage(c, "import")
    /\ IF entry = Nil
       THEN Now(c, PackageOver(c, "no entry point")) /\ UNCHANGED <<bytecode, modules>>
       ELSE /\ bytecode' \in {bytecode, entry}
            /\ \/ /\ Now(c, [PackageOver(c, "loaded") EXCEPT !.module = entry])
                  /\ modules' = entry
               \/ Now(c, PackageOver(c, "raised")) /\ UNCHANGED modules
    /\ UNCHANGED <<manifest, entry, revisions, signed, verdicts>>

Unload ==
    /\ modules # Nil
    /\ modules' = Nil
    /\ UNCHANGED <<manifest, entry, bytecode, packageCalls, revisions, signed, verdicts>>

----------------------------------------------------------------------------
CallDies(c) ==
    /\ InProgress(c)
    /\ Now(c, PackageOver(c, "died"))
    /\ verdicts' = {}
    /\ FilesStay /\ UNCHANGED <<manifest, signed>>

\* The author writes a file anew: the entry point, or the manifest, with the
\* signature that is in it or without.
EditPackage ==
    /\ revisions < MaxRevisions
    /\ revisions' = revisions + 1
    /\ \/ entry' = revisions + 1 /\ UNCHANGED manifest
       \/ /\ manifest' \in {Manifest(revisions + 1, s) : s \in {Nil, manifest.signature}}
          /\ UNCHANGED entry
    /\ packageCalls' = [d \in PackageCalls |->
           IF InProgress(d) THEN [packageCalls[d] EXCEPT !.alone = FALSE]
           ELSE packageCalls[d]]
    /\ verdicts' = {}
    /\ UNCHANGED <<bytecode, modules, signed>>

PackagesNext ==
    \/ \E c \in PackageCalls :
         \/ \E key \in SigningKeys : BeginSigning(c, key)
         \/ EmptyManifest(c) \/ WriteCanonical(c) \/ SignMessage(c) \/ WriteSignature(c)
         \/ BeginLoad(c) \/ ReadSignature(c) \/ CheckMessage(c) \/ ImportEntry(c)
         \/ CallDies(c)
    \/ Unload \/ EditPackage

PackagesSpec == PackagesInit /\ [][PackagesNext]_packageVars

----------------------------------------------------------------------------
(* Properties.                                                             *)

\* A load that nothing disturbs loads what the named key has signed, whoever
\* else has signed, edited or half signed the package before; and it loads a
\* package that is as it was signed.
LoadsWhatWasSigned ==
    \A c \in PackageCalls :
        LET r == packageCalls[c]
        IN  r.op = "load" /\ r.alone =>
              /\ r.outcome = "loaded" =>
                   \E s \in signed : s.key = NamedKey /\ s.over.entry = r.module
              /\ r.asSigned => r.outcome # "refused"

\* docs/SAFETY.md:217 says that what is signed ensures deterministic
\* verification: while nobody edits or signs a package, verifications that
\* nothing disturbs agree about it.
VerificationIsDeterministic == Cardinality(verdicts) <= 1
=============================================================================
