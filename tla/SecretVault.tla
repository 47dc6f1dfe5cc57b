---------------------------- MODULE SecretVault ----------------------------
(***************************************************************************)
(* The encrypted file that keeps the secrets of the providers when there   *)
(* is no keychain (src/config/config.py, EncryptedFileSecretStore).  A     *)
(* call opens the whole vault, changes it in memory and writes it back.    *)
(* The key is derived from a passphrase, asked for at each derivation, and *)
(* a salt in a second file, made by the first call that saves; nothing is  *)
(* locked, and each write empties its file before it fills it.             *)
(***************************************************************************)
EXTENDS Integers, FiniteSets

CONSTANTS VaultCalls,    \* calls of set, get and delete, each of its own process
          Refs,          \* references of secrets
          Phrases,       \* what AGENTHEIM_VAULT_PASSPHRASE or the prompt may give
          NoSecret       \* no file, no secret

VARIABLES vault,         \* vault.enc: NoSecret, TornVault or what was encrypted how
          salt,          \* vault.salt: NoSecret, "empty" or the salt of its maker
          vcall,         \* vcall[c]: where the call stands
          kept,          \* what the completed sets and deletes left, by reference
          unsalted,      \* the calls that met no finished salt when saving
          overlapped,    \* two calls that change the vault overlapped
          diedWriting    \* a call died between emptying the vault and filling it

vaultVars == <<vault, salt, vcall, kept, unsalted, overlapped, diedWriting>>

NoSecrets == [r \in Refs |-> NoSecret]

ColdCall == [at |-> "idle", op |-> "get", ref |-> NoSecret, data |-> NoSecrets, key |-> NoSecret]

VaultInit ==
    /\ vault = NoSecret /\ salt = NoSecret
    /\ vcall = [c \in VaultCalls |-> ColdCall]
    /\ kept = NoSecrets
    /\ unsalted = {} /\ overlapped = FALSE /\ diedWriting = FALSE

\* A vault that is empty or half written: no key opens it.
TornVault == [key |-> NoSecret, data |-> NoSecrets]

VaultKeys == [salt : VaultCalls \cup {"empty"}, phrase : Phrases]

Secrets == [Refs -> VaultCalls \cup {NoSecret}]

\* NoSecret is no call, no key and no file.
ASSUME VaultAssumption ==
    /\ IsFiniteSet(VaultCalls)
    /\ NoSecret \notin VaultCalls \cup {"empty"} /\ NoSecret # TornVault
    /\ \A k \in VaultKeys : NoSecret # k /\ \A d \in Secrets : NoSecret # [key |-> k, data |-> d]

Opened == vault \notin {NoSecret, TornVault}

VaultCallOpen(c) == vcall[c].at \notin {"idle", "done", "refused"}

Changing(c) == VaultCallOpen(c) /\ vcall[c].op # "get"

Key(s, p) == [salt |-> s, phrase |-> p]

\* What a call makes of the data it has: set(c) stores the secret c.
Applied(c, data) ==
    CASE vcall[c].op = "set" -> [data EXCEPT ![vcall[c].ref] = c]
      [] vcall[c].op = "delete" -> [data EXCEPT ![vcall[c].ref] = NoSecret]
      [] OTHER -> data

\* Only a set, or the delete of a secret that is there, saves.
Saves(c, data) ==
    \/ vcall[c].op = "set"
    \/ vcall[c].op = "delete" /\ data[vcall[c].ref] # NoSecret

\* The call has loaded the data: it saves, answers, or ends.
Loaded(c, data) ==
    vcall' = [vcall EXCEPT ![c].data = Applied(c, data),
                           ![c].at = IF Saves(c, data) THEN "salting"
                                     ELSE IF vcall[c].op = "get" /\ data[vcall[c].ref] = NoSecret
                                     THEN "refused" ELSE "done"]

\* set, get or delete is called.
CallVault(c, op, ref) ==
    /\ vcall[c].at = "idle"
    /\ vcall' = [vcall EXCEPT ![c].at = "loading", ![c].op = op, ![c].ref = ref]
    /\ overlapped' = (overlapped \/ (op # "get" /\ \E d \in VaultCalls : Changing(d)))
    /\ UNCHANGED <<vault, salt, kept, unsalted, diedWriting>>

\* _load without a vault: no secrets, and no salt is asked for.
LoadNothing(c) ==
    /\ vcall[c].at = "loading" /\ vault = NoSecret
    /\ Loaded(c, NoSecrets)
    /\ UNCHANGED <<vault, salt, kept, unsalted, overlapped, diedWriting>>

\* _load with one: the key comes first, the bytes after it.  The salt of a vault
\* that exists is never missing, though it may be emptied or another's by now.
LoadKey(c, p) ==
    /\ vcall[c].at = "loading" /\ vault # NoSecret
    /\ vcall' = [vcall EXCEPT ![c].at = "opening", ![c].key = Key(salt, p)]
    /\ UNCHANGED <<vault, salt, kept, unsalted, overlapped, diedWriting>>

Decrypts(c) == Opened /\ vault.key = vcall[c].key

\* Mutant: what cannot be decrypted is taken for an empty vault.
TakenForEmpty(c) ==
    /\ vcall[c].at = "opening"
    /\ Loaded(c, IF Decrypts(c) THEN vault.data ELSE NoSecrets)
    /\ UNCHANGED <<vault, salt, kept, unsalted, overlapped, diedWriting>>

\* What cannot be decrypted is a ConfigError, whatever the reason.
Decrypt(c) ==
    /\ vcall[c].at = "opening"
    /\ IF Decrypts(c) THEN Loaded(c, vault.data)
       ELSE vcall' = [vcall EXCEPT ![c].at = "refused"]
    /\ UNCHANGED <<vault, salt, kept, unsalted, overlapped, diedWriting>>

\* _save derives the key again: from the salt it finds, whole or not ...
SaveKey(c, p) ==
    /\ vcall[c].at = "salting" /\ salt # NoSecret
    /\ vcall' = [vcall EXCEPT ![c].at = "saving", ![c].key = Key(salt, p)]
    /\ unsalted' = IF salt = "empty" THEN unsalted \cup {c} ELSE unsalted
    /\ UNCHANGED <<vault, salt, kept, overlapped, diedWriting>>

\* ... or from one it makes, for a salt it saw missing ...
MissSalt(c) ==
    /\ vcall[c].at = "salting" /\ salt = NoSecret
    /\ vcall' = [vcall EXCEPT ![c].at = "making"]
    /\ unsalted' = unsalted \cup {c}
    /\ UNCHANGED <<vault, salt, kept, overlapped, diedWriting>>

EmptySalt(c) ==
    /\ vcall[c].at = "making"
    /\ salt' = "empty"
    /\ vcall' = [vcall EXCEPT ![c].at = "filling"]
    /\ UNCHANGED <<vault, kept, unsalted, overlapped, diedWriting>>

FillSalt(c, p) ==
    /\ vcall[c].at = "filling"
    /\ salt' = c
    /\ vcall' = [vcall EXCEPT ![c].at = "saving", ![c].key = Key(c, p)]
    /\ UNCHANGED <<vault, kept, unsalted, overlapped, diedWriting>>

\* ... and the vault is emptied and filled with the new data.
EmptyVault(c) ==
    /\ vcall[c].at = "saving"
    /\ vault' = TornVault
    /\ vcall' = [vcall EXCEPT ![c].at = "writing"]
    /\ UNCHANGED <<salt, kept, unsalted, overlapped, diedWriting>>

FillVault(c) ==
    /\ vcall[c].at = "writing"
    /\ vault' = [key |-> vcall[c].key, data |-> vcall[c].data]
    /\ kept' = Applied(c, kept)
    /\ vcall' = [vcall EXCEPT ![c].at = "done"]
    /\ UNCHANGED <<salt, unsalted, overlapped, diedWriting>>

\* The program of the call dies.
VaultCrash(c) ==
    /\ VaultCallOpen(c)
    /\ vcall' = [vcall EXCEPT ![c].at = "refused"]
    /\ diedWriting' = (diedWriting \/ vcall[c].at = "writing")
    /\ UNCHANGED <<vault, salt, kept, unsalted, overlapped>>

VaultNext ==
    \E c \in VaultCalls :
        \/ \E op \in {"set", "get", "delete"}, ref \in Refs : CallVault(c, op, ref)
        \/ LoadNothing(c) \/ Decrypt(c) \/ MissSalt(c) \/ EmptySalt(c)
        \/ \E p \in Phrases : LoadKey(c, p) \/ SaveKey(c, p) \/ FillSalt(c, p)
        \/ EmptyVault(c) \/ FillVault(c) \/ VaultCrash(c)

----------------------------------------------------------------------------
(* Property.                                                               *)

\* Calls that read, and calls that fail or die before they write, cost nobody a
\* secret; only what is said here does:
\*  - a vault can no longer be opened, by whoever knows its passphrase, only if
\*    two calls met no finished salt: once the first save has ended, no overlap
\*    and no crash separates the vault from its salt;
\*  - a vault is unreadable only while a call writes it, or because one died
\*    writing it;
\*  - otherwise, unless two changes overlapped, the vault holds exactly what the
\*    changes that ended have left, those of other references included.
SecretsKept ==
    /\ Opened /\ vault.key.salt # salt => Cardinality(unsalted) > 1
    /\ vault = TornVault => diedWriting \/ \E c \in VaultCalls : vcall[c].at = "writing"
    /\ ~overlapped /\ ~diedWriting /\ (\A c \in VaultCalls : ~Changing(c)) =>
         kept = IF Opened THEN vault.data ELSE NoSecrets
=============================================================================
