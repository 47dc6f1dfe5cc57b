-------------------------------- MODULE Brain -------------------------------
(***************************************************************************)
(* Brain of memory/brain.py: episodes (episodic.py), concepts              *)
(* (semantic.py) and the vectors both are compared by (embeddings.py).     *)
(*                                                                         *)
(* A text is a sequence of words.  The engine of a process gives every     *)
(* word it meets the next random vector of one seeded generator, so a word *)
(* is known by the place at which the process first met it; vectors of     *)
(* different places are taken to be orthogonal.  Vectors are stored, the   *)
(* places are not.  perceive, learn and relate hold the memory bus.        *)
(***************************************************************************)
EXTENDS Naturals, Sequences, FiniteSets

LOCAL INSTANCE FiniteSetsExt

CONSTANTS
    BrainWords,   \* words long enough to become concepts
    Experiences,  \* what perceive is given: [text, importance]
    Lessons,      \* what learn is given: [id, label, description, related]
    MaxEpisodes, MaxConcepts,
    MaxPerceived, \* bound: calls that change the memory
    MaxRestarts   \* bound

Members(list) == {list[i] : i \in DOMAIN list}

ASSUME BrainAssumption ==
    /\ \A x \in Experiences : x.text \in Seq(Members(x.text)) /\ x.importance \in Nat
    /\ \A l \in Lessons : /\ l.label \in Seq(Members(l.label))
                          /\ l.description \in Seq(Members(l.description))
    /\ MaxEpisodes \in Nat \ {0} /\ MaxConcepts \in Nat \ {0}
    /\ MaxPerceived \in Nat /\ MaxRestarts \in Nat

VARIABLES
    episodes,   \* the rows of episodes.db: [n, importance], n counts them
    concepts,   \* the rows of concepts.db: [id, label, description, related, vector]
    places,     \* _projections: for each word this process has met, which vector it got
    extracting, \* words perceive has still to look at
    perceived,  \* history: every episode there was
    links,      \* history: what _extract_concepts related: [word, text]
    calls,      \* how many calls changed the memory
    restarts

brainVars == <<episodes, concepts, places, extracting, perceived, links, calls, restarts>>

----------------------------------------------------------------------------
(* embeddings.py.                                                          *)

\* Where a word is first used.
FirstUse(text, w) == CHOOSE i \in DOMAIN text : text[i] = w /\ \A j \in 1..(i - 1) : text[j] # w

\* _get_projection, for all words of a text: a new word gets the next place.
Meet(known, text) ==
    [w \in DOMAIN known \cup Members(text) |->
        IF w \in DOMAIN known THEN known[w]
        ELSE Cardinality(DOMAIN known \cup {text[i] : i \in 1..FirstUse(text, w)})]

\* encode, up to its length: how often the vector of each place is added.
Encode(known, text) ==
    [p \in {known[w] : w \in Members(text)} |->
        Cardinality({j \in DOMAIN text : known[text[j]] = p})]

Product(vector, place) == IF place \in DOMAIN vector THEN vector[place] ELSE 0

SquaredLength(vector) == MapThenSumSet(LAMBDA p : vector[p] * vector[p], DOMAIN vector)

\* The similarity of a word and a text is Product / sqrt(SquaredLength).
\* Here: is it more than percent / 100?
MoreThan(vector, place, percent) ==
    /\ Product(vector, place) > 0
    /\ 10000 * Product(vector, place) * Product(vector, place) >
          percent * percent * SquaredLength(vector)

\* Is the first vector more like the word at this place than the second?  One
\* of a text without words is like nothing.
MoreAlike(v, w, place) ==
    \/ Product(v, place) > 0 /\ Product(w, place) = 0
    \/ Product(v, place) * Product(v, place) * SquaredLength(w) >
          Product(w, place) * Product(w, place) * SquaredLength(v)

----------------------------------------------------------------------------
(* episodic.py.                                                            *)

\* ORDER BY importance, timestamp.
Sooner(e, f) == e.importance < f.importance \/ (e.importance = f.importance /\ e.n < f.n)

\* Mutant: the oldest episodes go.
KeepNewest(rows) ==
    {e \in rows : Cardinality({f \in rows : e.n < f.n}) < MaxEpisodes}

\* _enforce_cap of the episodes, after one was inserted.
KeepEpisodes(rows) ==
    {e \in rows : Cardinality({f \in rows : Sooner(e, f)}) < MaxEpisodes}

----------------------------------------------------------------------------
(* semantic.py.                                                            *)

Row(table, id) == CHOOSE i \in DOMAIN table : table[i].id = id

HasConcept(table, id) == \E i \in DOMAIN table : table[i].id = id

\* What a concept is encoded by.
Text(c) == c.label \o c.description

\* A concept, with the vector of an engine that knows the words of its text.
Concept(known, c) ==
    [id |-> c.id, label |-> c.label, description |-> c.description, related |-> c.related,
     vector |-> Encode(known, Text(c))]

\* INSERT ... ON CONFLICT DO UPDATE.
Upserted(table, c) ==
    IF HasConcept(table, c.id) THEN [table EXCEPT ![Row(table, c.id)] = c] ELSE Append(table, c)

\* _enforce_cap counts the commas of related_json: no relation and one are the
\* same to it.
Commas(c) == IF c.related = <<>> THEN 0 ELSE Len(c.related) - 1

\* The table without row i.
Evicted(table, i) == [k \in 1..(Len(table) - 1) |-> IF k < i THEN table[k] ELSE table[k + 1]]

\* The tables that may be left; which of several rows with as few commas goes
\* is up to the database.
Capped(table) ==
    IF Len(table) <= MaxConcepts THEN {table}
    ELSE {Evicted(table, i) : i \in {j \in DOMAIN table :
             \A k \in DOMAIN table : Commas(table[j]) <= Commas(table[k])}}

\* learn, of an engine that knows these words.
LearnConcept(table, known, c) ==
    LET met == Meet(known, Text(c)) IN
    /\ concepts' \in Capped(Upserted(table, Concept(met, c)))
    /\ places' = met

\* relate: nothing if the first concept is not there; the second need not be.
Related(table, id, other) ==
    IF ~HasConcept(table, id) \/ other \in Members(table[Row(table, id)].related) THEN table
    ELSE [table EXCEPT ![Row(table, id)].related = Append(@, other)]

----------------------------------------------------------------------------
(* brain.py.                                                               *)

NotBusy == extracting = {} /\ calls < MaxPerceived

\* perceive: the episode is recorded, and the concepts are still to come.
Perceive(x) ==
    LET e == [n |-> Cardinality(perceived), importance |-> x.importance] IN
    /\ NotBusy
    /\ episodes' = KeepEpisodes(episodes \cup {e})
    /\ perceived' = perceived \cup {e}
    /\ places' = Meet(places, x.text)
    /\ extracting' = Members(x.text) \cap BrainWords
    /\ calls' = calls + 1
    /\ UNCHANGED <<concepts, links, restarts>>

\* The concept a word makes.
OfWord(w, related) ==
    [id |-> w, label |-> <<w>>, related |-> related,
     description |-> <<"auto", "extracted", "from", "experience", w>>]

\* best_concept: the first of the concepts most like the word.
Best(table, i, place) ==
    /\ \A j \in DOMAIN table : ~MoreAlike(table[j].vector, table[i].vector, place)
    /\ \A j \in 1..(i - 1) : MoreAlike(table[i].vector, table[j].vector, place)

\* Mutant: any likeness will do.
AnyLikeness(c, place) == Product(c.vector, place) >= 0

Alike(c, place) == MoreThan(c.vector, place, 60)

\* _extract_concepts, one word: known, merged into the concept most like it,
\* a new concept linked with that one, or a new concept of its own.  The words
\* are taken in the order of a set.
Extract(w) ==
    LET known == Meet(places, <<w>>)
        Close(i) == Best(concepts, i, known[w]) /\ Alike(concepts[i], known[w])
    IN
    /\ w \in extracting
    /\ extracting' = extracting \ {w}
    /\ \/ HasConcept(concepts, w) /\ UNCHANGED <<concepts, places, links>>
       \/ /\ ~HasConcept(concepts, w)
          /\ ~\E i \in DOMAIN concepts : Close(i)
          /\ LearnConcept(concepts, known, OfWord(w, <<>>))
          /\ UNCHANGED links
       \/ /\ ~HasConcept(concepts, w)
          /\ \E i \in DOMAIN concepts :
                /\ Close(i)
                /\ links' = links \cup {[word |-> w, text |-> Members(Text(concepts[i]))]}
                /\ IF MoreThan(concepts[i].vector, known[w], 85)
                   THEN LearnConcept(concepts, known,
                            [concepts[i] EXCEPT !.description = @ \o <<"also", w>>])
                   ELSE LearnConcept(Related(concepts, concepts[i].id, w), known,
                            OfWord(w, <<concepts[i].id>>))
    /\ UNCHANGED <<episodes, perceived, calls, restarts>>

Learn(l) ==
    /\ NotBusy
    /\ LearnConcept(concepts, places, l)
    /\ calls' = calls + 1
    /\ UNCHANGED <<episodes, extracting, perceived, links, restarts>>

Relate(a, b) ==
    /\ NotBusy
    /\ concepts' = Related(concepts, a, b)
    /\ calls' = calls + 1
    /\ UNCHANGED <<episodes, places, extracting, perceived, links, restarts>>

\* remember reads, but its query teaches the engine new words.
Remember(text) ==
    /\ extracting = {}
    /\ places' = Meet(places, text)
    /\ UNCHANGED <<episodes, concepts, extracting, perceived, links, calls, restarts>>

\* Another process, perhaps in the middle of perceive: its engine has met no
\* word.
Restart ==
    /\ restarts < MaxRestarts
    /\ restarts' = restarts + 1
    /\ places' = <<>>
    /\ extracting' = {}
    /\ UNCHANGED <<episodes, concepts, perceived, links, calls>>

BrainInit ==
    /\ episodes = {} /\ concepts = <<>> /\ places = <<>> /\ extracting = {}
    /\ perceived = {} /\ links = {} /\ calls = 0 /\ restarts = 0

BrainNext ==
    \/ \E x \in Experiences : Perceive(x)
    \/ \E w \in BrainWords : Extract(w) \/ Remember(<<w>>)
    \/ \E l \in Lessons : Learn(l)
    \/ \E a, b \in BrainWords \cup {l.id : l \in Lessons} : a # b /\ Relate(a, b)
    \/ Restart

BrainSpec == BrainInit /\ [][BrainNext]_brainVars

----------------------------------------------------------------------------
\* However episodes come, the store holds the most important of all there
\* ever were, and the newest of those that are equally important: what was
\* evicted at one time would not be kept now.
KeepsTheImportant ==
    episodes =
        {e \in perceived : Cardinality({f \in perceived : Sooner(e, f)}) < MaxEpisodes}

\* As long as one process made all the vectors, a word is merged into a
\* concept, or linked to it, only if the text of that concept speaks of it.
\* After a restart words take the places of others, and this is lost.
LinksMeanSomething ==
    restarts = 0 => \A l \in links : l.word \in l.text

\* What is remembered, and what it is linked to.
MemoriesMakeSense == KeepsTheImportant /\ LinksMeanSomething
=============================================================================
