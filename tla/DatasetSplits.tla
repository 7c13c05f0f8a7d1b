---------------------------- MODULE DatasetSplits ----------------------------
(***************************************************************************)
(* The three split builders, which share one algorithm: the evaluation set *)
(* (dataset/splits.py), the crops a classifier is trained on               *)
(* (training/splits.py) and the detection set (dataset/detection_splits.py *)
(* as scripts/build_detection_dataset.py drives it after the audit).       *)
(* Whole groups are dealt to the splits, stratum by stratum, and written   *)
(* with a hash of the data; a reader refuses a file whose hash is not that *)
(* of the data it has. The data may be edited between any two scripts.     *)
(*                                                                         *)
(* Abstracted: the seeded shuffle is any order; a hash is what it hashes;  *)
(* a distance between perceptual hashes is the relation "near".            *)
(***************************************************************************)
EXTENDS Integers, Sequences, FiniteSets, FiniteSetsExt, SequencesExt, Relation

CONSTANTS
    Images,          \* images of the set, 1..n
    Classes,         \* classes 1..m, in the order of their names
    Contents,        \* what an image may hold: number of boxes per class
    Nears,           \* which images look alike: sets of pairs <<i, j>> with i < j
    TrainPct, ValPct,    \* shares, in percent; the rest is test
    EvalPct,         \* share of val in the evaluation set, which has no train
    MinTrain,        \* images a class needs in train (detection)
    MaxBuilds        \* bound: scripts run

ASSUME SplitsAssumption ==
    /\ IsFiniteSet(Images) /\ Images \subseteq Nat \ {0}
    /\ IsFiniteSet(Classes) /\ Classes \subseteq Nat \ {0}
    /\ Contents \subseteq [Classes -> Nat]
    /\ TrainPct \in 1..98 /\ ValPct \in 1..98 /\ TrainPct + ValPct < 100
    /\ EvalPct \in 1..99
    /\ MinTrain >= 0 /\ MaxBuilds >= 0

VARIABLES
    data,        \* the images as they are on disk, and for which builder
    key,         \* image -> the group it is dealt with, once a build started
    left,        \* strata still to deal
    dealt,       \* group -> split, so far
    splitFile,   \* the file last written
    reader,      \* what the last reader of the file got
    builds

splitsVars == <<data, key, left, dealt, splitFile, reader, builds>>

ZeroBox == 0             \* the pseudo-class of groups without a box
NoFile == [ids |-> << >>]
NoStrata == {}

\* The data a builder may find. A group is a recording session, a capture
\* session of one object, or an external image of its own.
Partitions == {g \in [Images -> Images] : \A i \in Images : g[i] <= i /\ g[g[i]] = g[i]}
Pairs == {p \in Images \X Images : p[1] < p[2]}
Unboxed == [c \in Classes |-> 0]
OneClass == {h \in Contents : Cardinality({c \in Classes : h[c] > 0}) = 1}
Data(b) ==
    [kind : {b}, group : Partitions,
     boxes : [Images -> CASE b = "eval" -> {Unboxed} [] b = "crop" -> OneClass [] b = "detection" -> Contents],
     labelled : IF b = "eval" THEN [Images -> BOOLEAN] ELSE {[i \in Images |-> TRUE]},
     near : IF b = "detection" THEN Nears ELSE {{}}]

SplitsInit ==
    /\ data \in UNION {Data(b) : b \in {"eval", "crop", "detection"}}
    /\ key = << >> /\ left = NoStrata /\ dealt = << >> /\ splitFile = NoFile
    /\ reader = "none" /\ builds = 0

-----------------------------------------------------------------------------
\* What is on an image.
ClassesOn(d, i) == {c \in Classes : d.boxes[i][c] > 0}

\* The class with most boxes, the first by name among equals.
Primary(d, i) ==
    IF ClassesOn(d, i) = {} THEN ZeroBox
    ELSE Min({c \in Classes : \A k \in Classes : d.boxes[i][c] >= d.boxes[i][k]})

\* The audit's near-duplicate groups: connected by "near" within a set of images.
Near(d, S) == [p \in S \X S |-> p[1] = p[2] \/ p \in d.near \/ <<p[2], p[1]>> \in d.near]
Connected(d, S) == {p \in Pairs \cap (S \X S) : TransitiveClosure(Near(d, S), S)[p]}
GroupOf(d, S, i) == {j \in S : TransitiveClosure(Near(d, S), S)[i, j]}

OfClass(d, c) == {i \in Images : c \in ClassesOn(d, i)}

\* Groups within a class, and groups of the whole set that hold several classes.
DuplicatePairs(d) ==
    (UNION {Connected(d, OfClass(d, c)) : c \in Classes})
        \cup {p \in Connected(d, Images) :
                Cardinality(UNION {ClassesOn(d, j) : j \in GroupOf(d, Images, p[1])}) > 1}

\* UnionFind.union: everything under the root of a moves under the root of b.
Union(root, a, b) == [g \in DOMAIN root |-> IF root[g] = root[a] THEN root[b] ELSE root[g]]

Merged(d) ==
    LET root == FoldSet(LAMBDA p, r : Union(r, d.group[p[1]], d.group[p[2]]),
                        [g \in Images |-> g], DuplicatePairs(d))
    IN  [i \in Images |-> root[d.group[i]]]

\* The group an image is dealt with. A capture session belongs to one object.
Key(d) ==
    CASE d.kind = "eval" -> [i \in Images |-> <<0, d.group[i]>>]
      [] d.kind = "crop" -> [i \in Images |-> <<Primary(d, i), d.group[i]>>]
      [] d.kind = "detection" -> [i \in Images |-> <<0, Merged(d)[i]>>]

Wanted(d) == {i \in Images : d.labelled[i]}
ImagesIn(g) == {i \in Wanted(data) : key[i] = g}

\* The groups of each stratum. The evaluation set has one stratum; groups
\* without a boxed image are a stratum of their own.
Stratum(d, keys, c) ==
    IF d.kind = "eval" THEN {keys[i] : i \in Wanted(d)}
    ELSE LET of(k) == {keys[i] : i \in {j \in Images : Primary(d, j) = k}}
         IN  IF c = ZeroBox THEN of(ZeroBox) \ UNION {of(k) : k \in Classes} ELSE of(c)

StrataNames(d) == IF d.kind = "eval" THEN {ZeroBox} ELSE Classes \cup {ZeroBox}
Strata(d, keys) == {c \in StrataNames(d) : Stratum(d, keys, c) /= {}}

-----------------------------------------------------------------------------
\* Python's round of n * pct / 100: halves go to the even neighbour.
Share(n, pct) ==
    LET q == (n * pct) \div 100
        r == (n * pct) % 100
    IN  IF r > 50 \/ (r = 50 /\ q % 2 = 1) THEN q + 1 ELSE q

\* How many of n groups go to train and to val.
Cut(kind, n) ==
    IF kind = "eval"
    THEN <<0, IF n = 1 THEN 1 ELSE Max({1, Min({n - 1, Share(n, EvalPct)})})>>
    ELSE IF n <= 2 THEN <<1, n - 1>>
    ELSE LET train == Min({Max({1, Share(n, TrainPct)}), n - 2})
         IN  <<train, Min({Max({1, Share(n, ValPct)}), n - train - 1})>>

Dealt(kind, order) ==
    LET cut == Cut(kind, Len(order))
        place(k) == IF k <= cut[1] THEN "train" ELSE IF k <= cut[1] + cut[2] THEN "val" ELSE "test"
    IN  [g \in ToSet(order) |-> place(CHOOSE k \in DOMAIN order : order[k] = g)]

\* A build starts: nothing to split is refused.
StartBuild ==
    /\ left = NoStrata /\ builds < MaxBuilds
    /\ builds' = builds + 1 /\ dealt' = << >> /\ reader' = "none"
    /\ key' = Key(data)
    /\ left' = IF Wanted(data) = {} THEN NoStrata ELSE Strata(data, key')
    /\ UNCHANGED <<data, splitFile>>

\* A class with too few images for train is refused, and nothing is written.
TooFew(c, deal) ==
    /\ data.kind = "detection" /\ c /= ZeroBox
    /\ Cardinality(UNION {ImagesIn(g) : g \in {h \in DOMAIN deal : deal[h] = "train"}}) < MinTrain

\* What the hash covers: the data, and the groups of each split.
\* Mutant: the hash forgets the data.
HashOfGroups(d, deal) == [deal |-> deal]
Hash(d, deal) == [deal |-> deal, group |-> d.group, boxes |-> d.boxes, labelled |-> d.labelled]

FileOf(deal) ==
    [ids |-> [s \in {"train", "val", "test"} |->
                UNION {ImagesIn(g) : g \in {h \in DOMAIN deal : deal[h] = s}}],
     deal |-> deal, hash |-> Hash(data, deal)]

\* assert_no_leakage, of each kind of split.
NothingShared(f) == \A s, t \in DOMAIN f.ids : s /= t => f.ids[s] \cap f.ids[t] = {}

\* That, and every image of the store in one split.
Lands(f) ==
    /\ NothingShared(f)
    /\ data.kind = "detection" => UNION {f.ids[s] : s \in DOMAIN f.ids} = Images

\* One stratum, the next by name, is shuffled and cut; "__zero_box__" sorts
\* before every name in lower case. A group of two strata keeps the later split.
DealStratum ==
    /\ left /= NoStrata
    /\ \E order \in SetToSeqs(Stratum(data, key, Min(left))) :
        LET deal == Dealt(data.kind, order)
            all == [g \in DOMAIN deal \cup DOMAIN dealt |-> IF g \in DOMAIN deal THEN deal[g] ELSE dealt[g]]
            last == left = {Min(left)}
        IN  IF TooFew(Min(left), deal) \/ (last /\ ~Lands(FileOf(all)))
            THEN /\ left' = NoStrata /\ dealt' = << >> /\ UNCHANGED splitFile
            ELSE /\ left' = left \ {Min(left)}
                 /\ dealt' = IF last THEN << >> ELSE all
                 /\ splitFile' = IF last THEN FileOf(all) ELSE splitFile
    /\ UNCHANGED <<data, key, reader, builds>>

\* The data is still what the splits were made of.
HashMatches(f) == f.hash = Hash(data, f.deal)

\* Training and evaluation read the file and refuse one that does not match.
LoadSplits ==
    /\ left = NoStrata /\ splitFile /= NoFile
    /\ reader' = IF Lands(splitFile) /\ HashMatches(splitFile) THEN "served" ELSE "refused"
    /\ UNCHANGED <<data, key, left, dealt, splitFile, builds>>

\* Between scripts an image is relabelled, or the store is converted again.
EditData ==
    /\ left = NoStrata /\ splitFile /= NoFile /\ reader /= "none"
    /\ \E i \in Images :
        IF data.kind = "eval" THEN data' = [data EXCEPT !.labelled[i] = ~@]
        ELSE \E h \in (IF data.kind = "crop" THEN OneClass ELSE Contents) \ {data.boxes[i]} :
                data' = [data EXCEPT !.boxes[i] = h]
    /\ reader' = "none"
    /\ UNCHANGED <<key, left, dealt, splitFile, builds>>

SplitsNext == StartBuild \/ DealStratum \/ LoadSplits \/ EditData

SplitsSpec == SplitsInit /\ [][SplitsNext]_splitsVars

-----------------------------------------------------------------------------
SplitOf(i) == {s \in DOMAIN splitFile.ids : i \in splitFile.ids[s]}

\* What training or evaluation is given holds, for the data as it is now, each
\* image to be split exactly once, and never two images of one group, or of
\* two groups the audit reported as duplicates, on two sides: no score is
\* measured on what was trained on, whatever was edited since the build.
NothingStraddles ==
    reader = "served" =>
        /\ \A i \in Images : Cardinality(SplitOf(i)) = (IF i \in Wanted(data) THEN 1 ELSE 0)
        /\ \A i, j \in Wanted(data) :
            \/ data.group[i] = data.group[j] /\ (data.kind = "crop" => Primary(data, i) = Primary(data, j))
            \/ data.kind = "detection" /\ (<<i, j>> \in DuplicatePairs(data))
            => SplitOf(i) = SplitOf(j)

\* With three groups or more in a stratum nobody else shares, no split of the
\* crops is empty; with two sessions neither val nor test of the evaluation set
\* is: the shares round, but never a split away.
NoSplitRoundedAway ==
    reader = "served" =>
        /\ (data.kind = "eval" /\ Cardinality(Stratum(data, Key(data), ZeroBox)) >= 2) =>
            splitFile.ids["val"] /= {} /\ splitFile.ids["test"] /= {}
        /\ (data.kind = "crop" /\ \E c \in Classes : Cardinality(Stratum(data, Key(data), c)) >= 3) =>
            \A s \in DOMAIN splitFile.ids : splitFile.ids[s] /= {}

\* What the module's text promises of near-duplicates: a group of them never
\* straddles a split boundary (detection_splits.py:12-17).
NearDuplicatesTogether ==
    (reader = "served" /\ data.kind = "detection") =>
        \A p \in data.near : SplitOf(p[1]) = SplitOf(p[2])

\* What build_detection_splits promises: no train split for a class that has
\* fewer images there than the minimum (detection_splits.py:204-207).
TrainIsEnough ==
    (reader = "served" /\ data.kind = "detection") =>
        \A c \in Classes : OfClass(data, c) /= {} =>
            Cardinality(splitFile.ids["train"] \cap OfClass(data, c)) >= MinTrain

\* Together: the splits a reader is given are disjoint by group, complete, and none
\* is empty by rounding.
SplitsAreSound == NothingStraddles /\ NoSplitRoundedAway
=============================================================================
