---------------------------- MODULE FileChanges ----------------------------
(***************************************************************************)
(* workflows/file_organization and workflows/docs_maintenance: the two     *)
(* workflows that change files of the repository outside a patch.  Both    *)
(* write what they are about to do into file_changes.jsonl of their run    *)
(* directory and then do it; nothing else keeps what was there before.     *)
(*                                                                         *)
(* Several runs of either kind work on one repository, somebody edits it   *)
(* meanwhile, and runs die anywhere; a run of the file organizer can be    *)
(* resumed.  A content is named by who wrote it and where.  What a model   *)
(* answers is chosen: an answer that does not parse, nor the one that is   *)
(* asked for to repair it, is the failure of the agent.                    *)
(***************************************************************************)
EXTENDS Naturals, Sequences, FiniteSets

CONSTANTS
    ChangeRuns,   \* runs of the two workflows
    ChangePaths,  \* paths the answers name
    FirstFiles,   \* bound: the paths of the files at the start
    MoveAnswers,  \* bound: what the applier answers, sequences of moves
    DocAnswers,   \* bound: the lists of paths the detector and the updater answer
    Impacts,      \* bound: the public documents an impact check names
    MaxUserEdits, \* bound: files somebody else writes
    NoFile,       \* there is no file at a path
    CutShort      \* a file that was opened for writing and not filled

Moves == [source : ChangePaths, target : ChangePaths, said : STRING]

Wordings == [by : {"first", "edit", "rewritten"}, n : Nat \cup ChangeRuns, at : ChangePaths]

ASSUME ChangesAssumption ==
    /\ FirstFiles \subseteq ChangePaths
    /\ MoveAnswers \subseteq Seq(Moves) /\ DocAnswers \subseteq Seq(ChangePaths)
    /\ Impacts \subseteq SUBSET ChangePaths
    /\ MaxUserEdits \in Nat
    /\ NoFile \notin Wordings /\ CutShort \notin Wordings

VARIABLES
    tree,       \* the content at every path
    organized,  \* the runs
    changes,    \* the lines of all file_changes.jsonl
    edited,     \* how many files somebody else has written
    lastAt,     \* history: where every content was put last
    excused     \* history: contents their owner replaced, or that came to a
                \* path between the test of a move and the move

changeVars == <<tree, organized, changes, edited, lastAt, excused>>

Content(by, n, p) == [by |-> by, n |-> n, at |-> p]

First(p) == Content("first", 0, p)

\* A run: what was asked of it, what its metadata say, where it is, and what it
\* has told so far, which is the report, entry by entry.
Fresh(kind, dry) ==
    [kind |-> kind, asked |-> dry, dry |-> dry, at |-> "new", attempt |-> 1, logged |-> {},
     parsed |-> {}, impacted |-> {}, items |-> <<>>, todo |-> <<>>,
     told |-> <<>>, status |-> "none"]

AtChange(r, place) == organized[r].at = place

Update(r, f) == organized' = [organized EXCEPT ![r] = f]

Goes(r, place) == [organized[r] EXCEPT !.at = place]

\* The run is over without a report: what it had in memory is gone.
Gone(r, place) ==
    [organized[r] EXCEPT !.at = place, !.parsed = {}, !.items = <<>>, !.todo = <<>>,
                         !.told = <<>>, !.status = "none"]

Told(r, source, target, ok) ==
    Append(organized[r].told, [source |-> source, target |-> target, success |-> ok])

\* c is put at p.  Whatever comes to a path a run has found free and is about
\* to rename onto may be lost.
Put(c, p) == lastAt' = [x \in DOMAIN lastAt \cup {c} |-> IF x = c THEN p ELSE lastAt[x]]

AboutToFill(r, p) ==
    organized[r].at \in {"journal", "rename"} /\ organized[r].todo[1].target = p

Exposed(p, r) == \E o \in ChangeRuns \ {r} : AboutToFill(o, p)

ChangesInit ==
    /\ tree = [p \in ChangePaths |-> IF p \in FirstFiles THEN First(p) ELSE NoFile]
    /\ organized \in [ChangeRuns ->
           {Fresh(k, d) : k \in {"organize", "docs"}, d \in BOOLEAN}]
    /\ changes = {}
    /\ edited = 0
    /\ lastAt = [c \in {First(p) : p \in FirstFiles} |-> c.at]
    /\ excused = {}

FilesRest == UNCHANGED <<tree, changes, edited, lastAt, excused>>

----------------------------------------------------------------------------
(* The file organizer: analyze, propose, preview, apply.                   *)

OrganizeSteps == <<"analyze", "propose", "preview", "apply">>

\* run_task creates the ledger and starts the runner, which logs metadata.
StartChanges(r) ==
    /\ AtChange(r, "new")
    /\ Update(r, Goes(r, IF organized[r].kind = "organize" THEN "analyze" ELSE "detect"))
    /\ FilesRest

\* The step whose parsed output a step works on.
WorksOn(s) == IF s = "propose" THEN {"analyze"} ELSE IF s = "analyze" THEN {} ELSE {"propose"}

After(s) == IF s = "analyze" THEN "propose" ELSE IF s = "propose" THEN "preview" ELSE "apply"

\* A step fails: the runner stops and, in run_task, the report says so.
StepFails(r, told) ==
    Update(r, IF organized[r].attempt = 1
              THEN [Gone(r, "report") EXCEPT !.told = told, !.status = "failed"]
              ELSE Gone(r, "ended"))

\* One of the first three steps: its input is missing, its agent answers,
\* answers nothing that parses, or raises out of the run.
PrepareStep(r) ==
    \E s \in {"analyze", "propose", "preview"} :
        /\ AtChange(r, s)
        /\ FilesRest
        /\ \/ StepFails(r, <<>>)
           \/ /\ WorksOn(s) \subseteq organized[r].parsed
              /\ \/ Update(r, [organized[r] EXCEPT !.at = After(s),
                                 !.logged = @ \cup {s}, !.parsed = @ \cup {s}])
                 \/ Update(r, Gone(r, "ended"))

\* The applier is asked to confirm the proposed moves; its answer, and not the
\* proposal, is what will be moved.  When it fails, every proposed move is told
\* as failed.
AskApplier(r) ==
    /\ AtChange(r, "apply")
    /\ FilesRest
    /\ IF WorksOn("apply") \subseteq organized[r].parsed
       THEN \/ \E ms \in MoveAnswers :
                 \/ Update(r, [Goes(r, "move") EXCEPT !.todo = ms])
                 \/ StepFails(r, [i \in DOMAIN ms |->
                        [source |-> ms[i].source, target |-> ms[i].target, success |-> FALSE]])
            \/ Update(r, Gone(r, "ended"))
       ELSE StepFails(r, <<>>)

\* The next move is done with, as told.
RecordMove(r, ok) ==
    LET m == organized[r].todo[1]
    IN  Update(r, [Goes(r, "move") EXCEPT !.todo = Tail(@),
                       !.told = Told(r, m.source, m.target, ok)])

\* What the answer says of a move: "success", or a "status" that means it.
Said(m) == m.said \in {"success", "ok", "done", "applied"}

\* In a dry run the answer is believed.
BelieveMove(r) ==
    /\ AtChange(r, "move") /\ organized[r].todo # <<>>
    /\ organized[r].dry
    /\ RecordMove(r, Said(organized[r].todo[1]))
    /\ FilesRest

\* A mutant: the target is not looked at.
AnyTarget(p) == TRUE

Free(p) == tree[p] = NoFile

\* The source must exist and the target must not.
TestMove(r) ==
    /\ AtChange(r, "move") /\ organized[r].todo # <<>>
    /\ ~ organized[r].dry
    /\ LET m == organized[r].todo[1]
       IN  IF tree[m.source] # NoFile /\ Free(m.target)
           THEN Update(r, Goes(r, "journal"))
           ELSE RecordMove(r, FALSE)
    /\ FilesRest

Line(r, source, target) == [run |-> r, source |-> source, target |-> target]

\* The line is written before the file is moved.
JournalMove(r) ==
    /\ AtChange(r, "journal")
    /\ \/ /\ changes' = changes \cup
                {Line(r, organized[r].todo[1].source, organized[r].todo[1].target)}
          /\ Update(r, Goes(r, "rename"))
       \/ RecordMove(r, FALSE) /\ UNCHANGED changes
    /\ UNCHANGED <<tree, edited, lastAt, excused>>

\* rename replaces what is at the target by now; it fails when the source has
\* gone or the directory cannot be made.
Rename(r) ==
    LET m == organized[r].todo[1]
        c == tree[m.source]
    IN  /\ AtChange(r, "rename")
        /\ UNCHANGED <<changes, edited>>
        /\ \/ /\ c # NoFile
              /\ tree' = [tree EXCEPT ![m.source] = NoFile, ![m.target] = c]
              /\ Put(c, m.target)
              /\ excused' = IF Exposed(m.target, r) THEN excused \cup {c} ELSE excused
              /\ RecordMove(r, TRUE)
           \/ RecordMove(r, FALSE) /\ UNCHANGED <<tree, lastAt, excused>>

MovesDone(r) ==
    /\ AtChange(r, "move") /\ organized[r].todo = <<>>
    /\ LET run == IF organized[r].attempt = 1
                  THEN [Gone(r, "report") EXCEPT !.told = organized[r].told, !.status = "done"]
                  ELSE Gone(r, "ended")
       IN  Update(r, [run EXCEPT !.logged = @ \cup {"apply"}])
    /\ FilesRest

----------------------------------------------------------------------------
(* The docs maintainer: detect, one update after the other, align.         *)

\* Context, public docs impact and detection: any of them may raise; the
\* report of a failed detection names no document.
Detect(r) ==
    /\ AtChange(r, "detect")
    /\ FilesRest
    /\ \/ \E items \in DocAnswers, impacted \in Impacts :
            Update(r, [Goes(r, "doc") EXCEPT !.items = items, !.impacted = impacted])
       \/ Update(r, [Goes(r, "report") EXCEPT !.status = "failed"])
       \/ Update(r, Gone(r, "ended"))

NextDoc(r, told) == [Goes(r, "doc") EXCEPT !.items = Tail(@), !.told = told]

\* An impacted public document is left for review; for any other the updater
\* is asked, and what it rewrites is its own choice.
UpdateDoc(r) ==
    LET p == organized[r].items[1]
    IN  /\ AtChange(r, "doc") /\ organized[r].items # <<>>
        /\ FilesRest
        /\ IF p \in organized[r].impacted
           THEN Update(r, NextDoc(r, Told(r, p, p, FALSE)))
           ELSE \/ \E ps \in DocAnswers :
                      Update(r, [Goes(r, "update") EXCEPT !.todo =
                                     [i \in DOMAIN ps |-> [source |-> ps[i], target |-> ps[i]]]])
                \/ Update(r, NextDoc(r, Told(r, p, p, FALSE)))
                \/ Update(r, Gone(r, "ended"))

UpdatesDone(r) ==
    /\ AtChange(r, "update") /\ organized[r].todo = <<>>
    /\ Update(r, NextDoc(r, organized[r].told))
    /\ FilesRest

\* With mode "apply" the line is written first; otherwise the document is told
\* as updated and left as it is.
JournalDoc(r) ==
    LET p == organized[r].todo[1].source
    IN  /\ AtChange(r, "update") /\ organized[r].todo # <<>>
        /\ IF organized[r].dry
           THEN /\ Update(r, [organized[r] EXCEPT !.todo = Tail(@), !.told = Told(r, p, p, TRUE)])
                /\ UNCHANGED changes
           ELSE /\ changes' = changes \cup {Line(r, p, p)}
                /\ Update(r, Goes(r, "write"))
        /\ UNCHANGED <<tree, edited, lastAt, excused>>

Rewritten(r, p) == Content("rewritten", r, p)

WriteDoc(r) ==
    LET p == organized[r].todo[1].source
    IN  /\ AtChange(r, "write")
        /\ tree' = [tree EXCEPT ![p] = Rewritten(r, p)]
        /\ Put(Rewritten(r, p), p)
        /\ excused' = IF Exposed(p, r) THEN excused \cup {Rewritten(r, p)} ELSE excused
        /\ Update(r, [Goes(r, "update") EXCEPT !.todo = Tail(@), !.told = Told(r, p, p, TRUE)])
        /\ UNCHANGED <<changes, edited>>

\* write_text empties the file before it fills it.
DieWriting(r) ==
    /\ AtChange(r, "write")
    /\ tree' = [tree EXCEPT ![organized[r].todo[1].source] = CutShort]
    /\ Update(r, Gone(r, "dead"))
    /\ UNCHANGED <<changes, edited, lastAt, excused>>

DocsDone(r) ==
    /\ AtChange(r, "doc") /\ organized[r].items = <<>>
    /\ \/ Update(r, [Goes(r, "report") EXCEPT
                         !.status = IF organized[r].impacted = {} THEN "done" ELSE "pending_review"])
       \/ Update(r, Gone(r, "ended"))
    /\ FilesRest

----------------------------------------------------------------------------
(* Reports, deaths, resumes, and somebody else.                            *)

ReportChanges(r) ==
    /\ AtChange(r, "report")
    /\ Update(r, Goes(r, "reported"))
    /\ FilesRest

ChangesOver == {"new", "ended", "reported", "dead"}

Die(r) ==
    /\ organized[r].at \notin ChangesOver
    /\ Update(r, Gone(r, "dead"))
    /\ FilesRest

\* A mutant: a resumed run has lost its metadata.
NotRestored(r) == FALSE

\* The runner goes on with the first step that is not logged as completed; what
\* steps parsed is not in the ledger, and metadata is read from it.
RestoredDry(r) == organized[r].asked

ResumeOrganize(r) ==
    /\ organized[r].kind = "organize" /\ organized[r].attempt = 1
    /\ organized[r].at \in {"ended", "dead", "reported"}
    /\ LET left == {i \in 1..4 : OrganizeSteps[i] \notin organized[r].logged}
       IN  Update(r, [Gone(r, "ended") EXCEPT !.attempt = 2, !.dry = RestoredDry(r),
               !.at = IF left = {} THEN "ended"
                      ELSE OrganizeSteps[CHOOSE i \in left : \A j \in left : i <= j]])
    /\ FilesRest

\* Somebody writes a file, over one that is there or not.
EditFile(p) ==
    LET c == Content("edit", edited, p)
    IN  /\ edited < MaxUserEdits
        /\ edited' = edited + 1
        /\ tree' = [tree EXCEPT ![p] = c]
        /\ Put(c, p)
        /\ excused' = excused \cup {tree[p]}
                        \cup (IF \E r \in ChangeRuns : AboutToFill(r, p) THEN {c} ELSE {})
        /\ UNCHANGED <<organized, changes>>

ChangesNext ==
    \/ \E r \in ChangeRuns :
         \/ StartChanges(r) \/ PrepareStep(r) \/ AskApplier(r)
         \/ BelieveMove(r) \/ TestMove(r) \/ JournalMove(r) \/ Rename(r) \/ MovesDone(r)
         \/ Detect(r) \/ UpdateDoc(r) \/ UpdatesDone(r)
         \/ JournalDoc(r) \/ WriteDoc(r) \/ DieWriting(r) \/ DocsDone(r)
         \/ ReportChanges(r) \/ Die(r) \/ ResumeOrganize(r)
    \/ \E p \in ChangePaths : EditFile(p)

ChangesSpec == ChangesInit /\ [][ChangesNext]_changeVars

----------------------------------------------------------------------------
(* Properties.                                                             *)

InTree(c) == \E p \in ChangePaths : tree[p] = c

\* Whoever wrote a file finds it somewhere: at its path, or where a move took
\* it.  What is nowhere was replaced by its owner, or by the docs maintainer,
\* whose line names the path; or it came to the target of a move after that
\* was found free, which is the one way a move destroys a file.
FilesKept ==
    \A c \in DOMAIN lastAt \ {CutShort} :
        \/ InTree(c)
        \/ c \in excused
        \/ \E l \in changes : organized[l.run].kind = "docs" /\ l.source = lastAt[c]

\* Journalled moves lead from p to q: a set of paths that holds p, and with the
\* source of a line its target, holds q.
Leads(p, q, lines) ==
    \A S \in SUBSET ChangePaths :
        p \in S /\ (\A l \in lines : l.source \in S => l.target \in S) => q \in S

\* c was written where a chain of journalled moves to p begins.
Traced(c, p, lines) ==
    IF c = CutShort
    THEN \E l \in lines : l.source = l.target /\ Leads(l.source, p, lines)
    ELSE /\ Leads(c.at, p, lines)
         /\ c.by = "rewritten" => Line(c.n, c.at, c.at) \in lines

\* Where a run has put a file, or put something into a file, its lines say so,
\* however many runs, deaths and resumes there were: every file is at the end
\* of a chain of journalled moves from where it was written.
FilesTraced ==
    \A p \in ChangePaths : tree[p] # NoFile => Traced(tree[p], p, changes)

Tells(r, l) ==
    \E i \in DOMAIN organized[r].told :
        organized[r].told[i].source = l.source /\ organized[r].told[i].target = l.target

\* A report tells everything its run has journalled, and what it tells as done
\* was journalled, except that a dry run repeats what the model claims; a dry
\* run, resumed or not, has changed nothing.
ReportsComplete ==
    \A r \in ChangeRuns :
        LET lines == {l \in changes : l.run = r}
            run == organized[r]
        IN  /\ run.asked => lines = {}
            /\ run.at = "reported" /\ ~ run.dry =>
                 /\ \A l \in lines : Tells(r, l)
                 /\ \A i \in DOMAIN run.told :
                      run.told[i].success =>
                          Line(r, run.told[i].source, run.told[i].target) \in lines

\* What became of every file and what the reports and the journal say of it
\* agree, however runs, resumptions, undos and stops mix.
ChangesAccounted == FilesTraced /\ ReportsComplete
=============================================================================
