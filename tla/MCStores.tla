------------------------------ MODULE MCStores ------------------------------
(***************************************************************************)
(* What is kept on disk: object profiles and samples (ObjectStore), the    *)
(* annotations and their labelling page (CocoStore, LabelPage), trained    *)
(* classifiers (ClassifierRegistry), imported and built data sets          *)
(* (DatasetImport) and their splits (DatasetSplits), the measuring of the  *)
(* detector (Evaluation). They share no state, so a behaviour is of one of *)
(* them, `part`, while the others rest in an initial state.                *)
(***************************************************************************)
EXTENDS ObjectStore, LabelPage, ClassifierRegistry, DatasetSplits, DatasetImport, Evaluation

VARIABLE part

\* DatasetSplits: images with no box, one of each class, or three of two; pairs that look alike.
BoxesOf(a, b) == [c \in {1, 2} |-> IF c = 1 THEN a ELSE b]
SomeContents == {BoxesOf(0, 0), BoxesOf(1, 0), BoxesOf(0, 1), BoxesOf(1, 2)}
SomeNears == {{}, {<<1, 2>>}, {<<1, 3>>}, {<<1, 2>>, <<2, 3>>}}

\* DatasetImport: three pictures that are alike, or alike in a chain, of two classes;
\* one may be unreadable.
Labelled(good, poor) == [good |-> good, poor |-> poor]
Cup == Labelled({"cup"}, {})
Mug == Labelled({"mug"}, {})
SomeLabels == {Mug, Labelled({"mug"}, {"cup"}), Cup}
Download3(shows, second, third, good) ==
    [look |-> shows, labels |-> <<Cup, second, third>>, readable |-> good]
SomeDownloads ==
    {Download3(w, l, Cup, {1, 2, 3}) : w \in {<<0, 0, 2>>, <<0, 1, 2>>}, l \in SomeLabels}
    \cup {Download3(<<0, 1, 2>>, Mug, l, {1, 2, 3}) : l \in SomeLabels}
    \cup {Download3(<<0, 1, 2>>, Cup, Cup, {2, 3})}

\* Evaluation: three sessions, the first of two frames; of three, or of two, the
\* first or the others are val; a single one is.
Recordings == <<1, 1, 2, 3>>
Least(S) == CHOOSE x \in S : \A y \in S : x <= y
FirstIsVal == [S \in SUBSET {1, 2, 3} |-> IF S = {} THEN {} ELSE {Least(S)}]
OthersAreVal == [S \in SUBSET {1, 2, 3} |-> IF Cardinality(S) <= 1 THEN S ELSE S \ {Least(S)}]
TwoDeals == {FirstIsVal, OthersAreVal}

Is(p) == part = p
Members == {"objects", "labels", "classifiers", "splits", "imports", "evaluation"}

\* The choices a part makes at the start, settled while it rests.
Rests(p) ==
    CASE p \in {"objects", "labels"} -> TRUE
      [] p = "classifiers" -> metBar = {}
      [] p = "splits"      -> /\ data = [kind |-> "crop", group |-> [i \in Images |-> i],
                                         boxes |-> [i \in Images |-> BoxesOf(1, 0)],
                                         labelled |-> [i \in Images |-> TRUE], near |-> {}]
      [] p = "imports"     -> LET d == CHOOSE x \in SomeDownloads : TRUE
                              IN  look = d.look /\ labels = d.labels /\ readable = d.readable
      [] p = "evaluation"  -> deal = FirstIsVal /\ notes = [i \in Shots |-> 0]

AllInit ==
    /\ \A p \in Members : Is(p) \/ Rests(p)
    /\ ObjectsInit /\ LabelInit /\ ClassifierInit /\ SplitsInit /\ ImportInit /\ EvaluationInit

StoresInit == part \in Members /\ AllInit

StoresNext ==
    \/ Is("objects") /\ ObjectsNext
       /\ UNCHANGED <<labelVars, classifierVars, splitsVars, importVars, evaluationVars, part>>
    \/ Is("labels") /\ LabelNext
       /\ UNCHANGED <<objectVars, classifierVars, splitsVars, importVars, evaluationVars, part>>
    \/ Is("classifiers") /\ ClassifierNext
       /\ UNCHANGED <<objectVars, labelVars, splitsVars, importVars, evaluationVars, part>>
    \/ Is("splits") /\ SplitsNext
       /\ UNCHANGED <<objectVars, labelVars, classifierVars, importVars, evaluationVars, part>>
    \/ Is("imports") /\ ImportNext
       /\ UNCHANGED <<objectVars, labelVars, classifierVars, splitsVars, evaluationVars, part>>
    \/ Is("evaluation") /\ EvaluationNext
       /\ UNCHANGED <<objectVars, labelVars, classifierVars, splitsVars, importVars, part>>

storeVars == <<objectVars, labelVars, classifierVars, splitsVars, importVars, evaluationVars, part>>

StoresSpec == StoresInit /\ [][StoresNext]_storeVars

\* The labelling page alone, and the import and build alone.
LabelsInit == part = "labels" /\ AllInit
LabelsSpec == LabelsInit /\ [][StoresNext]_storeVars
ImportsInit == part = "imports" /\ AllInit
ImportsSpec == ImportsInit /\ [][StoresNext]_storeVars
=============================================================================
