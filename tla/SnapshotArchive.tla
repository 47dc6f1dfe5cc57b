-------------------------- MODULE SnapshotArchive --------------------------
(***************************************************************************)
(* `ctx oci snapshot create` and `verify`: the text files of a repository  *)
(* are listed, scanned for secrets and archived, one file access at a      *)
(* time, into one file that every call overwrites; a call may copy it into *)
(* the directory of a run.                                                 *)
(*                                                                         *)
(* A path is its place in the sorted inventory, a text is what the         *)
(* detectors make of it.  An archive is kept with what the history of its  *)
(* making was: seen, the files when it began; changed, the paths edited    *)
(* since then or never read; late, those edited once they were scanned or  *)
(* never scanned.                                                          *)
(***************************************************************************)
EXTENDS Naturals, FiniteSetsExt

CONSTANTS
    SnapshotCalls,  \* calls of snapshot_create_cmd
    Paths,          \* the files of the repository, numbered as sorted
    Forbidden,      \* paths with a part of FORBIDDEN_PATH_SUBSTRINGS
    Exempt,         \* paths the detectors are not applied to
    FirstTexts,     \* contents of the repository at first
    MaxTextEdits,   \* bound: edits of the repository
    NoText          \* no file, or none that can be read

Texts == {"plain", "secret", "binary", NoText}

\* The files of an archive, or what its manifest says of them.
Listings == UNION {[kept -> Texts] : kept \in SUBSET Paths}

ASSUME SnapshotAssumption ==
    /\ Paths \subseteq Nat /\ IsFiniteSet(Paths)
    /\ Forbidden \subseteq Paths /\ Exempt \subseteq Paths
    /\ FirstTexts \subseteq [Paths -> Texts]
    /\ MaxTextEdits \in Nat
    /\ NoText \notin Listings

VARIABLES
    texts,       \* the files of the repository
    archive,     \* .ai-team/runs/aictx-snapshot.zip
    registered,  \* oci_snapshot.zip of the run
    snapshots,   \* the calls
    textEdits

snapshotVars == <<texts, archive, registered, snapshots, textEdits>>

Nothing == [p \in {} |-> NoText]

\* A zip without its central directory, and one with it.
HalfZip == [whole |-> FALSE, files |-> Nothing, manifest |-> NoText, seen |-> Nothing,
         changed |-> {}, late |-> {}]

Blank == [at |-> "new", listed |-> {}, todo |-> {}, offending |-> {},
          files |-> Nothing, manifest |-> NoText, copies |-> FALSE, copy |-> HalfZip, mixed |-> FALSE,
          seen |-> Nothing, changed |-> {}, late |-> {}]

Zip(r) == [whole |-> TRUE, files |-> r.files, manifest |-> r.manifest,
           seen |-> r.seen, changed |-> r.changed, late |-> r.late]

InSnapshot(c, place) == snapshots[c].at = place

ToSnapshot(c, r) == snapshots' = [snapshots EXCEPT ![c] = r]

\* The call is over; whether it was asked to copy the archive is remembered.
EndSnapshot(c, how) ==
    ToSnapshot(c, [Blank EXCEPT !.at = how, !.copies = snapshots[c].copies])

Snapping(c) == snapshots[c].at \notin {"new", "refused", "raised", "created", "died"}

Writing(c) == snapshots[c].at = "archive"

SnapshotInit ==
    /\ texts \in FirstTexts
    /\ archive = HalfZip /\ registered = HalfZip
    /\ snapshots = [c \in SnapshotCalls |-> Blank]
    /\ textEdits = 0

----------------------------------------------------------------------------

\* A mutant: whatever is a file is archived.
AnyFile(p) == texts[p] # NoText

IsText(p) == texts[p] \notin {"binary", NoText}

\* scan_repository: the files that are neither ignored, binary nor generated.
ListFiles(c) ==
    /\ InSnapshot(c, "new")
    /\ ToSnapshot(c, [Blank EXCEPT !.at = "select", !.seen = texts,
                          !.listed = {p \in Paths : IsText(p)}])
    /\ UNCHANGED <<texts, archive, registered, textEdits>>

\* Those that are forbidden or have disappeared are left out; too many files,
\* too large ones or too deep paths end the call.
SelectFiles(c) ==
    LET chosen == {p \in snapshots[c].listed \ Forbidden : texts[p] # NoText}
    IN  /\ InSnapshot(c, "select")
        /\ \/ ToSnapshot(c, [snapshots[c] EXCEPT !.at = "scan", !.listed = chosen,
                                 !.todo = chosen])
           \/ chosen # {} /\ EndSnapshot(c, "refused")
        /\ UNCHANGED <<texts, archive, registered, textEdits>>

Offends(p) == texts[p] = "secret" /\ p \notin Exempt

\* _scan_snapshot_secrets reads the next file; one that cannot be read is
\* passed over.
ScanFile(c) ==
    /\ InSnapshot(c, "scan") /\ snapshots[c].todo # {}
    /\ LET p == Min(snapshots[c].todo)
           next == [snapshots[c] EXCEPT !.todo = @ \ {p}]
       IN \/ texts[p] # NoText
             /\ ToSnapshot(c, [next EXCEPT !.offending =
                                   IF Offends(p) THEN @ \cup {p} ELSE @])
          \/ ToSnapshot(c, [next EXCEPT !.late = @ \cup {p}])
    /\ UNCHANGED <<texts, archive, registered, textEdits>>

\* A mutant: only the last file that was scanned counts.
LastOne(r) == r.offending # {} /\ Max(r.listed) \in r.offending

Blocks(r) == r.offending # {}

EndScan(c) ==
    /\ InSnapshot(c, "scan") /\ snapshots[c].todo = {}
    /\ IF Blocks(snapshots[c])
       THEN EndSnapshot(c, "refused")
       ELSE ToSnapshot(c, [snapshots[c] EXCEPT !.at = "open"])
    /\ UNCHANGED <<texts, archive, registered, textEdits>>

\* The archive is emptied under the hands of whoever else writes it.
OpenArchive(c) ==
    LET others == {d \in SnapshotCalls : Writing(d)}
    IN  /\ InSnapshot(c, "open")
        /\ archive' = HalfZip
        /\ snapshots' = [d \in SnapshotCalls |->
               IF d = c THEN [snapshots[c] EXCEPT !.at = "archive", !.mixed = others # {},
                                                  !.todo = snapshots[c].listed]
               ELSE IF d \in others THEN [snapshots[d] EXCEPT !.mixed = TRUE]
               ELSE snapshots[d]]
        /\ UNCHANGED <<texts, registered, textEdits>>

Added(files, p, text) == [q \in {p} \cup DOMAIN files |-> IF q = p THEN text ELSE files[q]]

\* The file is read again; one that cannot be read is passed over.
ArchiveFile(c) ==
    /\ InSnapshot(c, "archive") /\ snapshots[c].todo # {}
    /\ LET p == Min(snapshots[c].todo)
           next == [snapshots[c] EXCEPT !.todo = @ \ {p}]
       IN \/ texts[p] # NoText
             /\ ToSnapshot(c, [next EXCEPT !.files = Added(@, p, texts[p])])
          \/ ToSnapshot(c, [next EXCEPT !.changed = @ \cup {p}])
    /\ archive' \in IF snapshots[c].mixed THEN {archive, HalfZip} ELSE {archive}
    /\ UNCHANGED <<texts, registered, textEdits>>

\* The central directory is written, after an exception as well.  When two
\* calls have written at once, the checksums of what is left match one of
\* them or none.
CloseArchive(c, r) ==
    /\ archive' \in IF snapshots[c].mixed THEN {Zip(r), archive, HalfZip} ELSE {Zip(r)}
    /\ UNCHANGED <<texts, registered, textEdits>>

\* A file that has gone between its reading and its ZipInfo, or a full disk.
ArchivingRaises(c) ==
    /\ InSnapshot(c, "archive") /\ snapshots[c].todo # {}
    /\ CloseArchive(c, snapshots[c])
    /\ EndSnapshot(c, "raised")

\* manifest.json lists what was archived, with its hashes.
WriteManifest(c) ==
    /\ InSnapshot(c, "archive") /\ snapshots[c].todo = {}
    /\ CloseArchive(c, [snapshots[c] EXCEPT !.manifest = snapshots[c].files])
    /\ \/ EndSnapshot(c, "created")
       \/ ToSnapshot(c, [Blank EXCEPT !.at = "read", !.copies = TRUE])

----------------------------------------------------------------------------
(* ArtifactStore.produce_snapshot_zip: the archive is copied to the run.   *)

ReadArchive(c) ==
    /\ InSnapshot(c, "read")
    /\ ToSnapshot(c, [snapshots[c] EXCEPT !.at = "empty", !.copy = archive])
    /\ UNCHANGED <<texts, archive, registered, textEdits>>

EmptyCopy(c) ==
    /\ InSnapshot(c, "empty")
    /\ registered' = HalfZip
    /\ ToSnapshot(c, [snapshots[c] EXCEPT !.at = "fill"])
    /\ UNCHANGED <<texts, archive, textEdits>>

FillCopy(c) ==
    /\ InSnapshot(c, "fill")
    /\ registered' = snapshots[c].copy
    /\ EndSnapshot(c, "created")
    /\ UNCHANGED <<texts, archive, textEdits>>

----------------------------------------------------------------------------
SnapshotDies(c) ==
    /\ Snapping(c)
    /\ EndSnapshot(c, "died")
    /\ UNCHANGED <<texts, archive, registered, textEdits>>

ScanIsOver(c, p) ==
    ~ InSnapshot(c, "select") /\ (InSnapshot(c, "scan") => p \notin snapshots[c].todo)

\* Somebody writes or removes a file.
EditText ==
    /\ textEdits < MaxTextEdits /\ textEdits' = textEdits + 1
    /\ \E p \in Paths : \E t \in Texts \ {texts[p]} :
         /\ texts' = [texts EXCEPT ![p] = t]
         /\ snapshots' = [c \in SnapshotCalls |->
                IF ~ Snapping(c) THEN snapshots[c]
                ELSE [snapshots[c] EXCEPT !.changed = @ \cup {p},
                         !.late = IF ScanIsOver(c, p) THEN @ \cup {p} ELSE @]]
    /\ UNCHANGED <<archive, registered>>

SnapshotNext ==
    \/ \E c \in SnapshotCalls :
         \/ ListFiles(c) \/ SelectFiles(c) \/ ScanFile(c) \/ EndScan(c)
         \/ OpenArchive(c) \/ ArchiveFile(c) \/ ArchivingRaises(c) \/ WriteManifest(c)
         \/ ReadArchive(c) \/ EmptyCopy(c) \/ FillCopy(c) \/ SnapshotDies(c)
    \/ EditText

SnapshotSpec == SnapshotInit /\ [][SnapshotNext]_snapshotVars

----------------------------------------------------------------------------
(* Properties.                                                             *)

VerifySnapshot(z) ==
    /\ z.whole /\ z.manifest # NoText
    /\ DOMAIN z.manifest \subseteq DOMAIN z.files \ Forbidden
    /\ \A p \in DOMAIN z.manifest : z.files[p] = z.manifest[p]

\* An archive that `snapshot verify` calls valid, or that a run has been given,
\* whatever calls overlapped, died or raised: it holds every text file of the
\* repository as it was, and nothing else, but for what was edited or could not
\* be read while it was made; and nothing in it has escaped the scan but what
\* was edited after its scan.
SnapshotsTellTruth ==
    /\ \A z \in {archive, registered} : VerifySnapshot(z) =>
         /\ \A p \in Paths \ (z.changed \cup z.late) :
              IF p \notin Forbidden /\ z.seen[p] \notin {"binary", NoText}
              THEN p \in DOMAIN z.files /\ z.files[p] = z.seen[p]
              ELSE p \notin DOMAIN z.files
         /\ \A p \in DOMAIN z.files :
              z.files[p] = "secret" => p \in z.late \cup Exempt
    /\ \A c \in SnapshotCalls :
         /\ snapshots[c].at = "created"
         /\ \A d \in SnapshotCalls \ {c} : snapshots[d].at = "new"
         => /\ VerifySnapshot(archive)
            /\ snapshots[c].copies => VerifySnapshot(registered)
=============================================================================
