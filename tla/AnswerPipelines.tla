-------------------------- MODULE AnswerPipelines --------------------------
(***************************************************************************)
(* workflows/documents and workflows/research: what their steps hand on to *)
(* each other, from the files of the repository and the answers of the     *)
(* models to the report.  WorkflowRunner models how the steps are driven   *)
(* and RunReports which files say how the run ended; here the steps run in *)
(* order, one of them may fail or raise, and the process may die.          *)
(*                                                                         *)
(* A document is what the question finds in it, since that is all that the *)
(* search for words looks at; a question may hold no word to search for.   *)
(* A model answers anything: text that cannot be parsed, nor the repaired  *)
(* text it is asked for, is no data, and an error of the provider or of    *)
(* the parser itself leaves the agent.                                     *)
(***************************************************************************)
EXTENDS Naturals, Sequences, FiniteSets

CONSTANTS
    Documents,   \* the paths of the repository that hold text
    Readme,      \* README.md, what is fallen back to
    DocsReadme,  \* docs/README.md, when README.md holds no text
    MadeUp,      \* a path that only a model names
    MaxLibrary,  \* bound: changes of documents while a run goes on
    NoData       \* a result without what its step produced

ASSUME PipelineAssumption ==
    /\ Readme \in Documents /\ DocsReadme \in Documents /\ Readme # DocsReadme
    /\ MadeUp \notin Documents /\ IsFiniteSet(Documents)
    /\ MaxLibrary \in Nat

VARIABLES
    library,    \* the documents
    rewritten,  \* how often somebody has changed one
    pipeline,   \* the run
    handed      \* what the completed steps of this attempt have handed on

pipelineVars == <<library, rewritten, pipeline, handed>>

\* A document has words of the question, holds other text, is empty or is gone.
Texture == {"match", "other", "empty", "gone"}

\* re.findall finds no word of three letters in the question: no document has one.
Textures(words) == IF words THEN Texture ELSE Texture \ {"match"}

PipelineSteps == [documents |-> <<"index", "retrieve", "answer">>,
                  research  |-> <<"gather", "summarize", "report">>]

Pipe(kind, at, attempt, logged) ==
    [kind |-> kind, at |-> at, attempt |-> attempt, logged |-> logged, listed |-> {},
     stale |-> FALSE, words |-> TRUE, report |-> NoData]

PipelineInit ==
    /\ \E k \in DOMAIN PipelineSteps, stale \in BOOLEAN, words \in BOOLEAN :
         /\ IF k = "documents" THEN ~stale ELSE words
         /\ pipeline = [Pipe(k, "new", 1, {}) EXCEPT !.stale = stale, !.words = words]
         /\ library \in [Documents -> Textures(words)]
    /\ rewritten = 0
    /\ handed = <<>>

\* Has this step of the run handed anything on?  Not in a resumed run, whose
\* ledger says only that the step is completed.
HasData(s) == s \in DOMAIN handed

StepAt(i) == PipelineSteps[pipeline.kind][i]

At(s) == pipeline.at = s

AfterStep(s) ==
    IF s = StepAt(3) THEN "verified"
    ELSE StepAt(1 + CHOOSE i \in 1..2 : StepAt(i) = s)

\* The step is completed with its data, or it fails and with it the run.
CompleteWith(s, data) ==
    /\ handed' = [x \in DOMAIN handed \cup {s} |-> IF x = s THEN data ELSE handed[x]]
    /\ pipeline' = [pipeline EXCEPT !.at = AfterStep(s), !.logged = @ \cup {s}]
    /\ UNCHANGED <<library, rewritten>>

FailStep ==
    /\ pipeline' = [pipeline EXCEPT !.at = "failed"]
    /\ UNCHANGED <<library, rewritten, handed>>

BeginPipeline ==
    /\ At("new")
    /\ pipeline' = [pipeline EXCEPT !.at = StepAt(1)]
    /\ UNCHANGED <<library, rewritten, handed>>

----------------------------------------------------------------------------
(* Documents.                                                              *)

\* The text files there are when the step begins; the indexer is asked about
\* them, and only then are they read for the steps that follow.
ListDocuments ==
    /\ At("index")
    /\ pipeline' = [pipeline EXCEPT !.at = "listed",
                        !.listed = {d \in Documents : library[d] # "gone"}]
    /\ UNCHANGED <<library, rewritten, handed>>

\* What the indexer answers is used by nobody, but it has to be usable.  A
\* document that has gone meanwhile reads as an empty one.
IndexDocuments ==
    /\ At("listed")
    /\ \/ CompleteWith("index",
              [d \in pipeline.listed |->
                  IF library[d] = "gone" THEN "empty" ELSE library[d]])
       \/ FailStep

Contents == IF HasData("index") THEN handed["index"] ELSE <<>>

TextsOf(texts, texture) == {d \in DOMAIN texts : texts[d] = texture}

Holding(texture) == TextsOf(Contents, texture)

\* The first README with text stands in for a document with words of the question.
StandIns ==
    IF Readme \in Holding("other") THEN {Readme} ELSE {DocsReadme} \cap Holding("other")

Hits == IF Holding("match") # {} THEN Holding("match") ELSE StandIns

\* What is found first: one of the documents with most words of the question,
\* whichever of them, or a README; nothing for a question without words.
WordSearches ==
    IF pipeline.words /\ Hits # {} THEN {<<d>> : d \in Hits} ELSE {<<>>}

Chunks(paths, by) == [i \in DOMAIN paths |-> [path |-> paths[i], by |-> by]]

\* An answer that parses names up to five chunks, of any path, under "chunks",
\* under an alias or as a bare list.
RetrieverAnswers == {<<>>, <<MadeUp>>} \cup {<<d>> : d \in Documents}

\* A mutant: a model that has found nothing is taken at its word.
ModelOnly(found, search) == found

Fallback(found, search) == IF found = <<>> THEN search ELSE found

\* Only an answer that parsed is made up for: without one the step fails.
Retrieve ==
    /\ At("retrieve")
    /\ \/ \E paths \in RetrieverAnswers, search \in WordSearches :
            CompleteWith("retrieve",
                Fallback(Chunks(paths, "model"), Chunks(search, "search")))
       \/ FailStep

Retrieved == IF HasData("retrieve") THEN handed["retrieve"] ELSE <<>>

\* An answer with text and citations is taken as it is; any other is replaced
\* by one that cites the first chunk, if there is one.
AnswererAnswers ==
    [text : BOOLEAN, cites : {<<>>, Chunks(<<MadeUp>>, "answer")}] \cup {NoData}

CitesFirst(chunks) == [text |-> TRUE, cites |-> <<[chunks[1] EXCEPT !.by = "chunk"]>>]

Complies(answer) == answer # NoData /\ answer.text /\ answer.cites # <<>>

Answer ==
    /\ At("answer")
    /\ \/ \E answer \in AnswererAnswers :
            IF Complies(answer) THEN CompleteWith("answer", answer)
            ELSE IF Retrieved # <<>> THEN CompleteWith("answer", CitesFirst(Retrieved))
            ELSE IF answer # NoData THEN CompleteWith("answer", answer)
            ELSE FailStep
       \/ FailStep

\* run_task writes the report; the resume command shows the results.
Reporting == pipeline.attempt = 1

\* The report of the documents runtime is written whatever became of the steps.
ReportAnswer ==
    /\ pipeline.kind = "documents" /\ Reporting
    /\ pipeline.at \in {"verified", "failed"}
    /\ pipeline' = [pipeline EXCEPT !.at = "over",
           !.report = [status |-> IF pipeline.at = "verified" THEN "done" ELSE "failed",
                       cites |-> IF HasData("answer") THEN handed["answer"].cites ELSE <<>>]]
    /\ UNCHANGED <<library, rewritten, handed>>

----------------------------------------------------------------------------
(* Research.                                                               *)

\* Every step asks its agent about what the step before has handed on, which
\* is nothing after a resume; what it hands on rests on that.
Gather ==
    /\ At("gather")
    /\ CompleteWith("gather", [rests |-> TRUE]) \/ FailStep

Summarize ==
    /\ At("summarize")
    /\ CompleteWith("summarize", [rests |-> HasData("gather")]) \/ FailStep

\* The reporter may name another topic than the one it was given.
WriteUp ==
    /\ At("report")
    /\ \/ \E asked \in BOOLEAN :
            CompleteWith("report",
                [rests |-> HasData("summarize") /\ handed["summarize"].rests,
                 asked |-> asked])
       \/ FailStep

\* The report gets the topic back, and a warning when the context was stale.
\* Steps that failed raise instead, and leave no report.
ReportFindings ==
    /\ pipeline.kind = "research" /\ Reporting
    /\ At("verified")
    /\ pipeline' = [pipeline EXCEPT !.at = "over",
           !.report = [rests |-> handed["report"].rests, asked |-> TRUE,
                       warns |-> pipeline.stale]]
    /\ UNCHANGED <<library, rewritten, handed>>

----------------------------------------------------------------------------
(* Deaths, resumes, and somebody else.                                     *)

Resting == {"new", "over", "failed", "dead"}

\* The process dies, or an error leaves an agent and the runtime.
LosePipeline ==
    /\ pipeline.at \notin Resting
    /\ pipeline' = [pipeline EXCEPT !.at = "dead"]
    /\ handed' = <<>>
    /\ UNCHANGED <<library, rewritten>>

\* The completed steps are taken from the ledger, without their data, and the
\* command shows the results: no report is written.
ResumePipeline ==
    /\ pipeline.at \in {"dead", "failed", "over"} /\ pipeline.attempt = 1
    /\ LET left == {i \in 1..3 : StepAt(i) \notin pipeline.logged}
           next == CHOOSE i \in left : \A j \in left : i <= j
       IN  pipeline' = [pipeline EXCEPT !.attempt = 2,
                                        !.at = IF left = {} THEN "verified" ELSE StepAt(next)]
    /\ handed' = <<>>
    /\ UNCHANGED <<library, rewritten>>

ChangeDocument ==
    /\ rewritten < MaxLibrary
    /\ rewritten' = rewritten + 1
    /\ \E d \in Documents, t \in Textures(pipeline.words) : library' = [library EXCEPT ![d] = t]
    /\ UNCHANGED <<pipeline, handed>>

PipelineNext ==
    \/ BeginPipeline \/ ListDocuments \/ IndexDocuments \/ Retrieve \/ Answer
    \/ ReportAnswer \/ Gather \/ Summarize \/ WriteUp \/ ReportFindings
    \/ LosePipeline \/ ResumePipeline \/ ChangeDocument

PipelineSpec == PipelineInit /\ [][PipelineNext]_pipelineVars

----------------------------------------------------------------------------
(* Properties.                                                             *)

\* None of these texts has words of the question, and no README holds any text.
NothingToFind(texts) ==
    /\ TextsOf(texts, "match") = {}
    /\ {Readme, DocsReadme} \cap TextsOf(texts, "other") = {}

\* The document at path has words of the question; or none has, and it is the
\* README to show instead.
MayBeFound(texts, path) ==
    \/ path \in TextsOf(texts, "match")
    \/ /\ TextsOf(texts, "match") = {}
       /\ \/ path = Readme
          \/ path = DocsReadme /\ Readme \notin TextsOf(texts, "other")

\* Citing nothing stands for a question without words, or for a search that
\* found nothing in all the documents that were read, the READMEs included;
\* what is cited in place of the model's own citations was named by the
\* retriever or could be found.
CitesWhatWasFound(cites) ==
    /\ cites = <<>> /\ pipeline.words => NothingToFind(handed["index"])
    /\ \A i \in DOMAIN cites : cites[i].by = "chunk" =>
         \E c \in {handed["retrieve"][1]} :
           /\ c.path = cites[i].path
           /\ c.by = "search" => pipeline.words /\ MayBeFound(handed["index"], c.path)

\* Whatever steps failed, died or were resumed, and whatever became of the
\* documents meanwhile, a report that says done is the end of a chain of data:
\* the answer of a document chat is about what was found, and a research report
\* rests on what was gathered, names the topic that was asked for, and warns of
\* a context that was stale.
AnswersGrounded ==
    LET r == pipeline.report
    IN  r # NoData =>
          IF pipeline.kind = "research"
          THEN r.rests /\ r.asked /\ r.warns = pipeline.stale
          ELSE r.status = "done" =>
                 /\ pipeline.logged = {"index", "retrieve", "answer"}
                 /\ pipeline.attempt = 1 => CitesWhatWasFound(r.cites)
=============================================================================
