---------------------------- MODULE MCRepository ----------------------------
(* What runs read and write in a repository, one file access at a time:    *)
(* the ledger of a run in the two settings that damage it, the two         *)
(* workflows that change files without a patch, the two that answer        *)
(* questions, and the packages of plugins.  The parts share no state: each *)
(* behaviour exercises one of them, chosen at the start.                   *)
(*                                                                         *)
(* The ledger is damaged when two handles share it (two runs of one        *)
(* purpose started in the same second, two requests on one coder session,  *)
(* a resume), or when one handle writes and its process dies or its writes *)
(* raise.                                                                  *)
EXTENDS RunLedger, FileChanges, AnswerPipelines, PluginPackages, TLC

CONSTANTS h1, h2, runner, worker, ckpt, plan, p1, p2, p3

VARIABLE part

repositoryVars == <<vars, changeVars, pipelineVars, packageVars, part>>

Symmetric == Permutations(PackageCalls)

OneHandle == live' \subseteq {h1}

\* With one handle, whatever crashes and failed writes leave out, the hash
\* file stays an ordered part of the ledger and restored numbers are fresh.
OneWriterInOrder ==
    part = "faulty" => HashesInOrder /\ NumbersRepeatOnlyOnFailedWrites

\* Damage to a run directory stays within what the faults explain.
RunDirectoryHolds == DamageBounded /\ OneWriterInOrder

(* A file that moves to a free path; one that moves onto it, and another   *)
(* that moves to where the first was.                                      *)
Move(source, target, said) == [source |-> source, target |-> target, said |-> said]

MCMoves == {<<Move("a", "d", "success")>>, <<Move("a", "d", "ok"), Move("b", "a", "moved")>>}

MCDocs == {<<"a">>, <<"d", "a">>}

MCInit ==
    /\ Init /\ ChangesInit /\ PipelineInit /\ PackagesInit
    /\ part \in {"shared", "faulty", "files", "answers", "plugins"}
    /\ IF part = "files"
       THEN /\ organized[1].kind = "organize"
            /\ organized[2].kind = "organize" => ~ organized[2].dry
       ELSE \A r \in ChangeRuns : organized[r] = Fresh("organize", FALSE)
    /\ part # "answers" =>
         pipeline.kind = "documents" /\ pipeline.words /\ \A d \in Documents : library[d] = "gone"
    /\ part # "plugins" => entry = 1

\* The variables v belong to the parts ps.
Only(ps, v) == part \notin ps => UNCHANGED v

MCNext ==
    /\ UNCHANGED part
    /\ Only({"shared", "faulty"}, vars) /\ Only({"files"}, changeVars)
    /\ Only({"answers"}, pipelineVars) /\ Only({"plugins"}, packageVars)
    /\ \/ part = "shared" /\ ResumeNext
       \/ part = "faulty" /\ FaultNext /\ OneHandle
       \/ part = "files" /\ ChangesNext
       \/ part = "answers" /\ PipelineNext
       \/ part = "plugins" /\ PackagesNext

MCSpec == MCInit /\ [][MCNext]_repositoryVars
=============================================================================
