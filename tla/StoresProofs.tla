----------------------------- MODULE StoresProofs ----------------------------
(***************************************************************************)
(* Proofs about what is kept on disk: ClassifierRegistry, ObjectStore,     *)
(* DatasetImport, Evaluation and DatasetSplits, for any set of versions,   *)
(* number of uploads, lives, faults and scripts, any download, any images  *)
(* and any shares.                                                         *)
(***************************************************************************)
EXTENDS ClassifierRegistry, ObjectStore, DatasetImport, Evaluation, DatasetSplits, SequenceTheorems, FiniteSetTheorems, WellFoundedInduction, TLAPS

---------------------------------------------------------------------------
(* The classifier registry, whatever scripts overlap.                      *)

RegistryEntry == [validated : BOOLEAN, active : BOOLEAN]
RegistryDocs == UNION {[V -> RegistryEntry] : V \in SUBSET Versions}
RegistryFile == [state : {"none", "empty", "mixed", "whole"}, doc : RegistryDocs]
RegistrySteps == {"done", "export", "judge", "load", "save", "write", "replace"}
Script == [does : {"nothing", "train", "validate", "activate"}, version : Versions \cup {NoVersion},
           step : RegistrySteps, doc : RegistryDocs, file : {"none", "temp", "registry", "gone"}]

RegistryShape ==
    /\ registry \in RegistryFile /\ temp \in RegistryFile
    /\ artifacts \subseteq Versions
    /\ script \in [Scripts -> Script]

\* A file with one active version at most, and that one validated; what it records
\* was trained to the bar, and validated and activated by the given scripts.
Earned(doc, trained, valid, activated) ==
    /\ \A v, w \in DOMAIN doc : doc[v].active /\ doc[w].active => v = w
    /\ \A v \in DOMAIN doc :
          /\ v \in trained
          /\ doc[v].validated => v \in valid
          /\ doc[v].active => doc[v].validated /\ v \in activated

\* What a script is about to give to its version.
Gives(s, does) == IF script[s].does = does THEN {script[s].version} ELSE {}

\* A file that is about to be written is as good as the one that is there: what the
\* others wrote meanwhile may be lost with it, but nothing is made up.
ScriptsEarn ==
    \A s \in Scripts :
        /\ script[s].does = "train" => script[s].version \in Versions
        /\ At(s, "export") => script[s].does = "train"
        /\ At(s, "judge") => script[s].does = "validate"
        /\ At(s, "load") => script[s].does # "nothing"
        /\ At(s, "load") /\ script[s].does = "train" => script[s].version \in artifacts
        /\ At(s, "load") /\ script[s].does = "validate" => script[s].version \in metBar
        /\ At(s, "save") \/ At(s, "write") =>
              Earned(script[s].doc, artifacts, metBar \cap (validatedBy \cup Gives(s, "validate")),
                     activatedBy \cup Gives(s, "activate"))

EarnedFile(f) == Earned(f.doc, artifacts, metBar \cap validatedBy, activatedBy)
RegistryEarned == EarnedFile(registry) /\ EarnedFile(temp)

\* As long as no two saves were under way at once, the one that is has the temporary
\* file to itself, and only a whole one takes the place of the registry.
OneSaver ==
    \/ overlapped
    \/ /\ registry.state \in {"none", "whole"}
       /\ \A s, t \in Scripts : InSave(s) /\ InSave(t) => s = t
       /\ \A s \in Scripts :
             /\ At(s, "write") => script[s].file = "temp" /\ temp.state = "empty"
             /\ At(s, "replace") => temp.state = "whole"

RegistryInv == RegistryShape /\ RegistryEarned /\ ScriptsEarn /\ OneSaver /\ ServedWasChosen

---------------------------------------------------------------------------
(* The operations on a file. *)

LEMMA EarnedStays ==
    ASSUME NEW doc, NEW t1, NEW v1, NEW a1, NEW t2, NEW v2, NEW a2, Earned(doc, t1, v1, a1),
           t1 \subseteq t2, v1 \subseteq v2, a1 \subseteq a2
    PROVE  Earned(doc, t2, v2, a2)
  BY DEF Earned

LEMMA DocIsFunction ==
    ASSUME NEW doc \in RegistryDocs
    PROVE  DOMAIN doc \subseteq Versions /\ doc \in [DOMAIN doc -> RegistryEntry]
  BY DEF RegistryDocs

LEMMA FunctionIsDoc ==
    ASSUME NEW V \in SUBSET Versions, NEW doc \in [V -> RegistryEntry]
    PROVE  doc \in RegistryDocs
  BY DEF RegistryDocs

LEMMA NewEarns ==
    ASSUME NEW doc \in RegistryDocs, NEW v \in Versions, v \notin DOMAIN doc, NEW trained, NEW valid,
           NEW activated, Earned(doc, trained, valid, activated), v \in trained
    PROVE  WithNew(v, doc) \in RegistryDocs /\ Earned(WithNew(v, doc), trained, valid, activated)
<1> DEFINE new == WithNew(v, doc)
<1>1. DOMAIN new = DOMAIN doc \cup {v} /\ new[v] = [validated |-> FALSE, active |-> FALSE]
      /\ \A x \in DOMAIN doc : new[x] = doc[x]
  BY DEF WithNew
<1>2. new \in [DOMAIN doc \cup {v} -> RegistryEntry]
  BY DocIsFunction DEF WithNew, RegistryEntry
<1>3. new \in RegistryDocs
  BY <1>2, DocIsFunction, FunctionIsDoc
<1> HIDE DEF new
<1>4. Earned(new, trained, valid, activated)
  BY <1>1 DEF Earned
<1> QED BY <1>3, <1>4 DEF new

LEMMA ValidationEarns ==
    ASSUME NEW doc \in RegistryDocs, NEW v \in DOMAIN doc, NEW trained, NEW valid, NEW activated, NEW bar,
           Earned(doc, trained, bar \cap valid, activated), v \in bar
    PROVE  /\ [doc EXCEPT ![v].validated = TRUE] \in RegistryDocs
           /\ Earned([doc EXCEPT ![v].validated = TRUE], trained, bar \cap (valid \cup {v}), activated)
<1> DEFINE new == [doc EXCEPT ![v].validated = TRUE]
<1>1. doc \in [DOMAIN doc -> RegistryEntry] /\ DOMAIN doc \subseteq Versions
  BY DocIsFunction
<1>2. DOMAIN new = DOMAIN doc /\ new[v].validated /\ new[v].active = doc[v].active
      /\ \A x \in DOMAIN doc \ {v} : new[x] = doc[x]
  BY <1>1 DEF RegistryEntry
<1>3. new \in [DOMAIN doc -> RegistryEntry]
  BY <1>1 DEF RegistryEntry
<1>4. new \in RegistryDocs
  BY <1>1, <1>3, FunctionIsDoc
<1> HIDE DEF new
<1>5. Earned(new, trained, bar \cap (valid \cup {v}), activated)
  BY <1>2 DEF Earned
<1> QED BY <1>4, <1>5 DEF new

LEMMA ActivationEarns ==
    ASSUME NEW doc \in RegistryDocs, NEW v, v \in DOMAIN doc => doc[v].validated, NEW trained, NEW valid,
           NEW activated, Earned(doc, trained, valid, activated)
    PROVE  OnlyActive(v, doc) \in RegistryDocs /\ Earned(OnlyActive(v, doc), trained, valid, activated \cup {v})
<1> DEFINE new == OnlyActive(v, doc)
<1>1. doc \in [DOMAIN doc -> RegistryEntry] /\ DOMAIN doc \subseteq Versions
  BY DocIsFunction
<1>2. DOMAIN new = DOMAIN doc
      /\ \A x \in DOMAIN doc : new[x].validated = doc[x].validated /\ new[x].active = (x = v)
  BY <1>1 DEF OnlyActive, RegistryEntry
<1>3. new \in [DOMAIN doc -> RegistryEntry]
  BY <1>1 DEF OnlyActive, RegistryEntry
<1>4. new \in RegistryDocs
  BY <1>1, <1>3, FunctionIsDoc
<1> HIDE DEF new
<1>5. Earned(new, trained, valid, activated \cup {v})
  BY <1>2 DEF Earned
<1> QED BY <1>4, <1>5 DEF new

---------------------------------------------------------------------------
(* The steps. *)

LEMMA EmptyFits == << >> \in RegistryDocs /\ DOMAIN << >> = {}
<1>1. << >> \in [{} -> RegistryEntry] /\ DOMAIN << >> = {}
  OBVIOUS
<1> QED BY <1>1, FunctionIsDoc

LEMMA RegistryInitHolds == ClassifierInit => RegistryInv
<1> SUFFICES ASSUME ClassifierInit PROVE RegistryInv
  OBVIOUS
<1>1. << >> \in RegistryDocs /\ DOMAIN << >> = {} /\ Absent \in RegistryFile
  BY EmptyFits DEF Absent, RegistryFile
<1>2. script \in [Scripts -> Script] /\ \A s \in Scripts : script[s] = NoScript
  BY <1>1 DEF ClassifierInit, NoScript, Script, RegistrySteps
<1>3. RegistryShape /\ ServedWasChosen
  BY <1>1, <1>2 DEF ClassifierInit, RegistryShape, ServedWasChosen
<1>4. RegistryEarned
  BY <1>1 DEF ClassifierInit, RegistryEarned, EarnedFile, Earned, Absent
<1>5. ScriptsEarn
  BY <1>2 DEF ScriptsEarn, NoScript, At
<1>6. OneSaver
  BY <1>2 DEF ClassifierInit, OneSaver, InSave, At, NoScript, Absent
<1> QED BY <1>3, <1>4, <1>5, <1>6 DEF RegistryInv

\* A script that ends, or goes on to a step where it has nothing to write yet, leaves
\* the others as they are.
LEMMA OneScript ==
    ASSUME RegistryInv, NEW s \in Scripts, NEW e \in Script, script' = [script EXCEPT ![s] = e],
           UNCHANGED <<registryFiles, metBar, serving, registryHistory>>,
           artifacts \subseteq artifacts', artifacts' \subseteq Versions,
           e.does = "train" => e.version \in Versions, e.step \notin {"write", "replace"},
           e.step = "export" => e.does = "train", e.step = "judge" => e.does = "validate",
           e.step = "load" => /\ e.does # "nothing"
                              /\ e.does = "train" => e.version \in artifacts'
                              /\ e.does = "validate" => e.version \in metBar,
           e.step = "save" =>
              Earned(e.doc, artifacts',
                     metBar \cap (validatedBy \cup IF e.does = "validate" THEN {e.version} ELSE {}),
                     activatedBy \cup IF e.does = "activate" THEN {e.version} ELSE {})
    PROVE  RegistryInv'
<1>1. script' \in [Scripts -> Script] /\ script'[s] = e /\ \A t \in Scripts \ {s} : script'[t] = script[t]
  BY DEF RegistryInv, RegistryShape
<1>2. RegistryShape' /\ ServedWasChosen'
  BY <1>1 DEF RegistryInv, RegistryShape, ServedWasChosen, registryFiles, registryHistory
<1>3. RegistryEarned'
  BY EarnedStays DEF RegistryInv, RegistryEarned, EarnedFile, registryFiles, registryHistory
<1>4. ScriptsEarn'
  <2> SUFFICES ASSUME NEW t \in Scripts
               PROVE  /\ script'[t].does = "train" => script'[t].version \in Versions
                      /\ At(t, "export")' => script'[t].does = "train"
                      /\ At(t, "judge")' => script'[t].does = "validate"
                      /\ At(t, "load")' => script'[t].does # "nothing"
                      /\ At(t, "load")' /\ script'[t].does = "train" => script'[t].version \in artifacts'
                      /\ At(t, "load")' /\ script'[t].does = "validate" => script'[t].version \in metBar
                      /\ At(t, "save")' \/ At(t, "write")' => Earned(script'[t].doc, artifacts',
                            metBar \cap (validatedBy \cup Gives(t, "validate")'),
                            activatedBy \cup Gives(t, "activate")')
    BY DEF ScriptsEarn, registryHistory
  <2>1. CASE t = s
    BY <1>1, <2>1 DEF At, Gives
  <2>2. CASE t # s
    <3>1. script'[t] = script[t] /\ Gives(t, "validate")' = Gives(t, "validate")
          /\ Gives(t, "activate")' = Gives(t, "activate")
      BY <1>1, <2>2 DEF Gives
    <3>2. At(t, "save") \/ At(t, "write") => Earned(script[t].doc, artifacts', metBar \cap (validatedBy \cup Gives(t, "validate")),
                                  activatedBy \cup Gives(t, "activate"))
      BY EarnedStays DEF RegistryInv, ScriptsEarn
    <3> QED BY <3>1, <3>2 DEF RegistryInv, ScriptsEarn, At
  <2> QED BY <2>1, <2>2
<1>5. OneSaver'
  BY <1>1 DEF RegistryInv, OneSaver, InSave, At, registryFiles, registryHistory
<1> QED BY <1>2, <1>3, <1>4, <1>5 DEF RegistryInv

LEMMA NoScriptFits == NoScript \in Script
  BY EmptyFits DEF NoScript, Script, RegistrySteps

LEMMA EndStep ==
    ASSUME RegistryInv, NEW s \in Scripts, Ends(s),
           UNCHANGED <<registryFiles, artifacts, metBar, serving, registryHistory>>
    PROVE  RegistryInv'
<1>1. artifacts' \subseteq Versions
  BY DEF RegistryInv, RegistryShape
<1> QED BY <1>1, NoScriptFits, OneScript DEF Ends, NoScript

LEMMA ScriptStep ==
    ASSUME RegistryInv, NEW s \in Scripts, StartScript(s) \/ Export(s) \/ Judge(s) \/ Load(s) \/ ScriptDies(s)
    PROVE  RegistryInv'
<1> DEFINE old == script[s]
<1>0. old \in Script /\ artifacts \subseteq Versions /\ script \in [Scripts -> Script]
  BY DEF RegistryInv, RegistryShape
<1>1. CASE StartScript(s)
  <2>1. PICK does \in {"train", "validate", "activate"}, v \in Versions \cup {NoVersion} :
          /\ does = "train" => v \in Versions
          /\ script' = [script EXCEPT ![s] = [does |-> does, version |-> v, doc |-> << >>, file |-> "none",
                step |-> CASE does = "train" -> "export" [] does = "validate" -> "judge" [] OTHER -> "load"]]
    BY <1>1 DEF StartScript
  <2> DEFINE e == [does |-> does, version |-> v, doc |-> << >>, file |-> "none",
                   step |-> CASE does = "train" -> "export" [] does = "validate" -> "judge" [] OTHER -> "load"]
  <2>2. << >> \in RegistryDocs
    BY EmptyFits
  <2>3. e \in Script /\ e.does = does /\ e.version = v
        /\ e.step \in {"export", "judge", "load"}
        /\ (e.step = "export" => does = "train") /\ (e.step = "judge" => does = "validate")
        /\ (e.step = "load" => does = "activate")
    BY <2>2 DEF Script, RegistrySteps
  <2>4. UNCHANGED <<registryFiles, artifacts, metBar, serving, registryHistory>>
    BY <1>1 DEF StartScript
  <2>5. script' = [script EXCEPT ![s] = e]
    BY <2>1
  <2> HIDE DEF e
  <2> QED BY <1>0, <2>1, <2>3, <2>4, <2>5, OneScript
<1>2. CASE Export(s)
  <2> DEFINE e == [old EXCEPT !.step = "load"]
  <2>1. script' = [script EXCEPT ![s] = e] /\ artifacts' = artifacts \cup {old.version} /\ old.step = "export"
        /\ UNCHANGED <<registryFiles, metBar, serving, registryHistory>>
    BY <1>0, <1>2 DEF Export, Goes, At
  <2>2. old.does = "train" /\ old.version \in Versions
    BY <2>1 DEF RegistryInv, ScriptsEarn, At
  <2>3. e \in Script /\ e.does = "train" /\ e.version = old.version /\ e.step = "load"
    BY <1>0, <2>2 DEF Script, RegistrySteps
  <2> HIDE DEF e, old
  <2> QED BY <1>0, <2>1, <2>2, <2>3, OneScript
<1>3. CASE Judge(s)
  <2> DEFINE e == [old EXCEPT !.step = "load"]
  <2>1. UNCHANGED <<registryFiles, artifacts, metBar, serving, registryHistory>> /\ old.step = "judge"
    BY <1>3 DEF Judge, At
  <2>2. old.does = "validate"
    BY <2>1 DEF RegistryInv, ScriptsEarn, At
  <2>3. e \in Script /\ e.does = "validate" /\ e.version = old.version /\ e.step = "load"
    BY <1>0, <2>2 DEF Script, RegistrySteps
  <2>4. Ends(s) \/ (script' = [script EXCEPT ![s] = e] /\ old.version \in metBar)
    BY <1>0, <1>3 DEF Judge, Goes, MeetsBar
  <2> HIDE DEF e, old
  <2> QED BY <1>0, <2>1, <2>3, <2>4, OneScript, EndStep
<1>4. CASE Load(s)
  <2> DEFINE doc == Result(old.does, old.version, registry.doc)
             e == [old EXCEPT !.step = "save", !.doc = doc]
  <2>1. UNCHANGED <<registryFiles, artifacts, metBar, serving, registryHistory>> /\ old.step = "load"
    BY <1>4 DEF Load, At
  <2>2. CASE ~Readable(registry) \/ Refused(old.does, old.version, registry.doc)
    BY <1>4, <2>1, <2>2, EndStep DEF Load
  <2>3. CASE Readable(registry) /\ ~Refused(old.does, old.version, registry.doc)
    <3>1. script' = [script EXCEPT ![s] = e]
      BY <1>0, <1>4, <2>3 DEF Load
    <3>2. registry.doc \in RegistryDocs /\ Earned(registry.doc, artifacts, metBar \cap validatedBy, activatedBy)
      BY DEF RegistryInv, RegistryShape, RegistryFile, RegistryEarned, EarnedFile
    <3>3. /\ old.does = "train" => old.version \in Versions /\ old.version \in artifacts
                                   /\ old.version \notin DOMAIN registry.doc
          /\ old.does = "validate" => old.version \in metBar /\ old.version \in DOMAIN registry.doc
          /\ old.does = "activate" /\ old.version \in DOMAIN registry.doc => registry.doc[old.version].validated
      <4>1. NoVersion \notin DOMAIN registry.doc
        BY <3>2, DocIsFunction, ClassifierAssumption
      <4> QED BY <2>1, <2>3, <4>1 DEF RegistryInv, ScriptsEarn, At, Refused
    <3>4. doc \in RegistryDocs
          /\ Earned(doc, artifacts,
                    metBar \cap (validatedBy \cup IF old.does = "validate" THEN {old.version} ELSE {}),
                    activatedBy \cup IF old.does = "activate" THEN {old.version} ELSE {})
      <4> HIDE DEF old
      <4>1. CASE old.does = "train"
        BY <3>2, <3>3, <4>1, NewEarns DEF Result
      <4>2. CASE old.does = "validate"
        <5>1. doc = [registry.doc EXCEPT ![old.version].validated = TRUE]
          BY <4>2 DEF Result
        <5> HIDE DEF doc
        <5>2. doc \in RegistryDocs /\ Earned(doc, artifacts, metBar \cap (validatedBy \cup {old.version}), activatedBy)
          BY <3>2, <3>3, <4>2, <5>1, ValidationEarns
        <5>3. activatedBy \cup (IF old.does = "activate" THEN {old.version} ELSE {}) = activatedBy
          BY <4>2
        <5> QED BY <4>2, <5>2, <5>3
      <4>3. CASE old.does = "activate"
        BY <3>2, <3>3, <4>3, ActivationEarns DEF Result
      <4>4. old.does \in {"train", "validate", "activate"}
        BY <1>0, <2>1 DEF RegistryInv, ScriptsEarn, At, Script, old
      <4> QED BY <4>1, <4>2, <4>3, <4>4
    <3>5. e \in Script /\ e.does = old.does /\ e.version = old.version /\ e.step = "save" /\ e.doc = doc
      BY <1>0, <3>4 DEF Script, RegistrySteps
    <3> HIDE DEF e, doc, old
    <3> QED BY <1>0, <2>1, <3>1, <3>3, <3>4, <3>5, OneScript
  <2> QED BY <2>2, <2>3
<1>5. CASE ScriptDies(s)
  BY <1>5, EndStep DEF ScriptDies
<1> QED BY <1>1, <1>2, <1>3, <1>4, <1>5

\* A script that goes on with its save or ends, while what is on record only grows.
LEMMA RecordsGrow ==
    ASSUME ScriptsEarn, NEW s \in Scripts,
           \A t \in Scripts \ {s} : /\ script'[t].step = script[t].step /\ script'[t].does = script[t].does
                                    /\ script'[t].version = script[t].version /\ script'[t].doc = script[t].doc,
           script'[s].step \in {"done", "write", "replace"}, script'[s].does = "train" => script'[s].version \in Versions,
           At(s, "write")' => Earned(script'[s].doc, artifacts, metBar \cap (validatedBy' \cup Gives(s, "validate")'),
                                     activatedBy' \cup Gives(s, "activate")'),
           validatedBy \subseteq validatedBy', activatedBy \subseteq activatedBy', UNCHANGED <<artifacts, metBar>>
    PROVE  ScriptsEarn'
<1> SUFFICES ASSUME NEW t \in Scripts
             PROVE  /\ script'[t].does = "train" => script'[t].version \in Versions
                    /\ At(t, "export")' => script'[t].does = "train"
                    /\ At(t, "judge")' => script'[t].does = "validate"
                    /\ At(t, "load")' => script'[t].does # "nothing"
                    /\ At(t, "load")' /\ script'[t].does = "train" => script'[t].version \in artifacts
                    /\ At(t, "load")' /\ script'[t].does = "validate" => script'[t].version \in metBar
                    /\ At(t, "save")' \/ At(t, "write")' => Earned(script'[t].doc, artifacts,
                          metBar \cap (validatedBy' \cup Gives(t, "validate")'),
                          activatedBy' \cup Gives(t, "activate")')
  BY DEF ScriptsEarn
<1>1. CASE t = s
  BY <1>1 DEF At
<1>2. CASE t # s
  <2>1. Gives(t, "validate")' = Gives(t, "validate") /\ Gives(t, "activate")' = Gives(t, "activate")
    BY <1>2 DEF Gives
  <2>2. metBar \cap (validatedBy \cup Gives(t, "validate"))
          \subseteq metBar \cap (validatedBy' \cup Gives(t, "validate"))
        /\ activatedBy \cup Gives(t, "activate") \subseteq activatedBy' \cup Gives(t, "activate")
    OBVIOUS
  <2>3. At(t, "save") \/ At(t, "write") =>
          Earned(script[t].doc, artifacts, metBar \cap (validatedBy \cup Gives(t, "validate")),
                 activatedBy \cup Gives(t, "activate"))
    BY DEF ScriptsEarn
  <2>4. At(t, "save") \/ At(t, "write") =>
          Earned(script[t].doc, artifacts, metBar \cap (validatedBy' \cup Gives(t, "validate")),
                 activatedBy' \cup Gives(t, "activate"))
    BY <2>2, <2>3, EarnedStays
  <2> QED BY <1>2, <2>1, <2>4 DEF ScriptsEarn, At
<1> QED BY <1>1, <1>2

LEMMA OpenStep == ASSUME RegistryInv, NEW s \in Scripts, OpenTemp(s) PROVE RegistryInv'
<1>1. /\ At(s, "save") /\ temp' = Emptied
      /\ script' = [script EXCEPT ![s].step = "write", ![s].file = "temp"]
      /\ overlapped' = (overlapped \/ \E t \in Scripts : InSave(t))
      /\ UNCHANGED <<registry, artifacts, metBar, serving, validatedBy, activatedBy>>
  BY DEF OpenTemp
<1>2. script \in [Scripts -> Script] /\ registry \in RegistryFile
  BY DEF RegistryInv, RegistryShape
<1>3. script'[s] = [script[s] EXCEPT !.step = "write", !.file = "temp"]
      /\ \A t \in Scripts \ {s} : script'[t] = script[t]
  BY <1>1, <1>2 DEF Script
<1> DEFINE e == [script[s] EXCEPT !.step = "write", !.file = "temp"]
<1>e. e \in Script /\ e.step = "write" /\ e.file = "temp" /\ e.doc = script[s].doc /\ e.does = script[s].does
      /\ e.version = script[s].version
  BY <1>2 DEF Script, RegistrySteps
<1> HIDE DEF e
<1>f. script' = [script EXCEPT ![s] = e]
  BY <1>1, <1>2 DEF e
<1>4. script' \in [Scripts -> Script] /\ script'[s].step = "write" /\ script'[s].file = "temp"
      /\ script'[s].doc = script[s].doc /\ script'[s].does = script[s].does
      /\ script'[s].version = script[s].version
  BY <1>2, <1>e, <1>f
<1>5. RegistryShape' /\ ServedWasChosen'
  BY <1>1, <1>4, EmptyFits DEF RegistryInv, RegistryShape, ServedWasChosen, Emptied, RegistryFile
<1>6. RegistryEarned'
  BY <1>1, EmptyFits DEF RegistryInv, RegistryEarned, EarnedFile, Earned, Emptied
<1>7. ScriptsEarn'
  <2>1. Gives(s, "validate")' = Gives(s, "validate") /\ Gives(s, "activate")' = Gives(s, "activate")
    BY <1>4 DEF Gives
  <2>2. Earned(script[s].doc, artifacts, metBar \cap (validatedBy \cup Gives(s, "validate")),
               activatedBy \cup Gives(s, "activate"))
        /\ (script[s].does = "train" => script[s].version \in Versions)
    BY <1>1 DEF RegistryInv, ScriptsEarn
  <2>3. Earned(script'[s].doc, artifacts, metBar \cap (validatedBy' \cup Gives(s, "validate")'),
               activatedBy' \cup Gives(s, "activate")')
    BY <1>1, <1>4, <2>1, <2>2
  <2>4. \A t \in Scripts \ {s} : /\ script'[t].step = script[t].step /\ script'[t].does = script[t].does
                                 /\ script'[t].version = script[t].version /\ script'[t].doc = script[t].doc
    BY <1>3
  <2>5. ScriptsEarn /\ validatedBy \subseteq validatedBy' /\ activatedBy \subseteq activatedBy'
        /\ artifacts' = artifacts /\ metBar' = metBar
    BY <1>1 DEF RegistryInv
  <2> QED BY <1>4, <2>2, <2>3, <2>4, <2>5, RecordsGrow
<1>8. OneSaver'
  BY <1>1, <1>3, <1>4 DEF RegistryInv, OneSaver, InSave, At, Emptied
<1> QED BY <1>5, <1>6, <1>7, <1>8 DEF RegistryInv

LEMMA WriteStep == ASSUME RegistryInv, NEW s \in Scripts, WriteTemp(s) PROVE RegistryInv'
<1> DEFINE doc == script[s].doc
<1>1. /\ At(s, "write")
      /\ temp' \in {temp, Whole(doc), Mixed} /\ registry' \in {registry, Whole(doc), Mixed}
      /\ script[s].file = "temp" /\ temp.state = "empty" => temp' = Whole(doc) /\ registry' = registry
      /\ script' = [script EXCEPT ![s].step = "replace", ![s].file = "none"]
      /\ validatedBy' = validatedBy \cup Gives(s, "validate")
      /\ activatedBy' = activatedBy \cup Gives(s, "activate")
      /\ UNCHANGED <<artifacts, metBar, serving, overlapped>>
  BY DEF WriteTemp, Written, Gives
<1>2. script \in [Scripts -> Script] /\ registry \in RegistryFile /\ temp \in RegistryFile
      /\ doc \in RegistryDocs
  BY DEF RegistryInv, RegistryShape, Script
<1> DEFINE e == [script[s] EXCEPT !.step = "replace", !.file = "none"]
<1>e. e \in Script /\ e.step = "replace" /\ e.does = script[s].does /\ e.version = script[s].version
  BY <1>2 DEF Script, RegistrySteps
<1> HIDE DEF e
<1>f. script' = [script EXCEPT ![s] = e]
  BY <1>1, <1>2 DEF e
<1>3. script' \in [Scripts -> Script] /\ script'[s].step = "replace"
      /\ script'[s].does = script[s].does /\ script'[s].version = script[s].version
      /\ \A t \in Scripts \ {s} : script'[t] = script[t]
  BY <1>2, <1>e, <1>f
<1>4. Whole(doc) \in RegistryFile /\ Mixed \in RegistryFile /\ Whole(doc).doc = doc /\ Mixed.doc = << >>
      /\ Whole(doc).state = "whole"
  BY <1>2, EmptyFits DEF Whole, Mixed, RegistryFile
<1>5. RegistryShape' /\ ServedWasChosen'
  BY <1>1, <1>2, <1>3, <1>4 DEF RegistryInv, RegistryShape, ServedWasChosen
<1>6. Earned(doc, artifacts, metBar \cap validatedBy', activatedBy')
  BY <1>1 DEF RegistryInv, ScriptsEarn
<1>7. RegistryEarned'
  <2>1. EarnedFile(registry)' \/ registry' # registry
    BY <1>1, EarnedStays DEF RegistryInv, RegistryEarned, EarnedFile
  <2>2. EarnedFile(temp)' \/ temp' # temp
    BY <1>1, EarnedStays DEF RegistryInv, RegistryEarned, EarnedFile
  <2>3. Earned(<< >>, artifacts, metBar \cap validatedBy', activatedBy')
    BY EmptyFits DEF Earned
  <2> QED BY <1>1, <1>4, <1>6, <2>1, <2>2, <2>3 DEF RegistryEarned, EarnedFile
<1>8. ScriptsEarn'
  <2>1. script[s].does = "train" => script[s].version \in Versions
    BY DEF RegistryInv, ScriptsEarn
  <2> QED BY <1>1, <1>3, <2>1, RecordsGrow DEF RegistryInv, At
<1>9. OneSaver'
  <2>1. CASE overlapped
    BY <1>1, <2>1 DEF OneSaver
  <2>2. CASE ~overlapped
    <3>1. temp' = Whole(doc) /\ registry' = registry /\ registry.state \in {"none", "whole"}
          /\ \A t \in Scripts \ {s} : ~InSave(t)
      BY <1>1, <2>2 DEF RegistryInv, OneSaver, InSave, At
    <3>2. \A t \in Scripts \ {s} : ~InSave(t)'
      BY <1>3, <3>1 DEF InSave
    <3> QED BY <1>3, <1>4, <3>1, <3>2 DEF OneSaver, InSave, At
  <2> QED BY <2>1, <2>2
<1> QED BY <1>5, <1>7, <1>8, <1>9 DEF RegistryInv

LEMMA ReplaceStep == ASSUME RegistryInv, NEW s \in Scripts, Replace(s) \/ ReplaceFails(s) PROVE RegistryInv'
<1>1. CASE ReplaceFails(s)
  BY <1>1, EndStep DEF ReplaceFails
<1>2. CASE Replace(s)
  <2>1. /\ At(s, "replace") /\ registry' = temp /\ temp' = Absent
        /\ script' = [t \in Scripts |-> IF t = s THEN NoScript
                                        ELSE [script[t] EXCEPT !.file = Renamed(script[t].file)]]
        /\ UNCHANGED <<artifacts, metBar, serving, overlapped, validatedBy, activatedBy>>
    BY <1>2 DEF Replace, registryHistory
  <2>2. script \in [Scripts -> Script] /\ temp \in RegistryFile
    BY DEF RegistryInv, RegistryShape
  <2>3. script'[s] = NoScript
        /\ \A t \in Scripts \ {s} : /\ script'[t] \in Script /\ script'[t].step = script[t].step
                                    /\ script'[t].does = script[t].does /\ script'[t].doc = script[t].doc
                                    /\ script'[t].version = script[t].version
    BY <2>1, <2>2 DEF Script, Renamed
  <2>4. script' \in [Scripts -> Script]
    BY <2>1, <2>3, NoScriptFits
  <2>5. RegistryShape' /\ ServedWasChosen'
    BY <2>1, <2>2, <2>4, EmptyFits DEF RegistryInv, RegistryShape, ServedWasChosen, Absent, RegistryFile
  <2>6. RegistryEarned'
    BY <2>1, EmptyFits DEF RegistryInv, RegistryEarned, EarnedFile, Earned, Absent
  <2>7. ScriptsEarn'
    BY <2>1, <2>3, RecordsGrow DEF RegistryInv, NoScript, At
  <2>8. OneSaver'
    <3>1. CASE overlapped
      BY <2>1, <3>1 DEF OneSaver
    <3>2. CASE ~overlapped
      <4>1. temp.state = "whole" /\ \A t \in Scripts \ {s} : ~InSave(t)
        BY <2>1, <3>2 DEF RegistryInv, OneSaver, InSave, At
      <4>2. \A t \in Scripts : ~InSave(t)'
        BY <2>3, <4>1 DEF InSave, NoScript
      <4> QED BY <2>1, <4>1, <4>2 DEF OneSaver, InSave, At
    <3> QED BY <3>1, <3>2
  <2> QED BY <2>5, <2>6, <2>7, <2>8 DEF RegistryInv
<1> QED BY <1>1, <1>2

LEMMA LoopStep == RegistryInv /\ StartLoop => RegistryInv'
<1> SUFFICES ASSUME RegistryInv, StartLoop PROVE RegistryInv'
  OBVIOUS
<1>1. UNCHANGED <<registryFiles, artifacts, metBar, script, registryHistory>>
  BY DEF StartLoop
<1>2. serving' = NoVersion \/ serving' \in Actives(registry.doc)
  BY DEF StartLoop
<1>3. ServedWasChosen'
  BY <1>1, <1>2 DEF RegistryInv, RegistryEarned, EarnedFile, Earned, Actives, ServedWasChosen, registryHistory
<1>4. RegistryEarned' /\ ScriptsEarn' /\ RegistryShape' /\ OneSaver'
  BY <1>1 DEF RegistryInv, RegistryEarned, EarnedFile, ScriptsEarn, RegistryShape, OneSaver, InSave, At, Gives,
              registryFiles, registryHistory
<1> QED BY <1>3, <1>4 DEF RegistryInv

LEMMA ClassifierInvariant == ClassifierSpec => []RegistryInv
<1>1. RegistryInv /\ UNCHANGED classifierVars => RegistryInv'
  BY DEF classifierVars, registryFiles, registryHistory, RegistryInv, RegistryEarned, EarnedFile, ScriptsEarn,
         RegistryShape, OneSaver, InSave, At, Gives, ServedWasChosen
<1>2. RegistryInv /\ [ClassifierNext]_classifierVars => RegistryInv'
  BY <1>1, ScriptStep, OpenStep, WriteStep, ReplaceStep, LoopStep DEF ClassifierNext
<1> QED BY <1>2, RegistryInitHolds, PTL DEF ClassifierSpec

\* What is in the registry is what every reader accepts, it is unreadable only after
\* two saves at once, and what is served was trained to the bar, validated and
\* activated, each by a script, whatever scripts overlap or die between their steps.
THEOREM RegistryStaysSound == ClassifierSpec => []RegistryIsSound
<1>1. RegistryInv => RegistryLoads
  <2> SUFFICES ASSUME RegistryInv PROVE Acceptable(registry.doc)
    BY DEF RegistryLoads, RegistryInv, OneSaver
  <2>1. \A v, w \in Actives(registry.doc) : v = w
    BY DEF RegistryInv, RegistryEarned, EarnedFile, Earned, Actives
  <2>2. Actives(registry.doc) = {} \/ \E v : Actives(registry.doc) = {v}
    BY <2>1
  <2>3. Cardinality(Actives(registry.doc)) <= 1
    <3>1. CASE Actives(registry.doc) = {}
      BY <3>1, FS_EmptySet
    <3>2. ASSUME NEW v, Actives(registry.doc) = {v} PROVE Cardinality(Actives(registry.doc)) <= 1
      <4>1. Cardinality({v}) = 1
        BY FS_Singleton
      <4> QED BY <3>2, <4>1
    <3> QED BY <2>2, <3>1, <3>2
  <2>4. \A v \in Actives(registry.doc) : registry.doc[v].validated
    BY DEF RegistryInv, RegistryEarned, EarnedFile, Earned, Actives
  <2> QED BY <2>3, <2>4 DEF Acceptable
<1>2. RegistryInv => ServedWasChosen
  BY DEF RegistryInv
<1> QED BY <1>1, <1>2, ClassifierInvariant, PTL DEF RegistryIsSound

---------------------------------------------------------------------------
(* The objects and their samples, for any number of uploads, lives and     *)
(* faults.                                                                 *)

SampleMaps == UNION {[D -> Roles] : D \in SUBSET Nat}
Folder == [samples : SampleMaps, deleted : SUBSET Nat, images : SUBSET (Nat \X Parts),
           trash : SUBSET (Nat \X Parts)]
Profile == [life : Nat, positive : Nat, negative : Nat]
AtFiles == {"image", "thumb", "record"}
JobSteps == {"none", "mkdir", "unlist", "next", "move", "count"} \cup AtFiles
Job == [step : JobSteps, slug : Nat, id : Nat, role : Roles, batch : BOOLEAN, saved : BOOLEAN]

Ids == 1 .. Len(sampleOf)

FoldersShape ==
    /\ DOMAIN folder \subseteq Nat /\ folder \in [DOMAIN folder -> Folder]
    /\ moved \in Seq(Folder)
    /\ sampleOf \in Seq(Nat)
    /\ \A s \in DOMAIN folder : DOMAIN folder[s].samples \subseteq Ids
    /\ \A n \in DOMAIN moved : DOMAIN moved[n].samples \subseteq Ids

ObjectsShape ==
    /\ FoldersShape
    /\ lives \in Nat /\ faults \in Nat
    /\ DOMAIN profiles \subseteq 1 .. lives /\ profiles \in [DOMAIN profiles -> Profile]
    /\ pending \in [Uploads -> Job] /\ job \in Job

\* What a handler has behind it at each of its steps.
JobIsPlaced ==
    /\ \A u \in Uploads : pending[u] = Idle \/ (pending[u].step = "image" /\ ~pending[u].batch /\ ~pending[u].saved)
    /\ job.saved /\ job.step # "count" => job.batch /\ job.step \notin {"none", "mkdir"}
    /\ job.batch /\ job.step \in AtFiles \cup {"next"} => Listed(job.slug)
    /\ job.step = "next" => job.batch
    /\ job.step = "unlist" => job.slug \notin DOMAIN folder
    /\ job.step = "move" => job.slug \in DOMAIN folder /\ job.id \in DOMAIN folder[job.slug].samples
    /\ job.step \in AtFiles =>
          /\ job.id \in Ids
          /\ \A s \in DOMAIN folder : job.id \notin DOMAIN folder[s].samples
          /\ \A n \in DOMAIN moved : job.id \notin DOMAIN moved[n].samples
    /\ job.step \in {"thumb", "record"} =>
          job.slug \in DOMAIN folder /\ <<job.id, "image">> \in folder[job.slug].images
    /\ job.step = "record" => <<job.id, "thumb">> \in folder[job.slug].images

\* A sample is listed in one folder.
OneFolderPerSample ==
    \A s \in DOMAIN folder :
        /\ \A t \in DOMAIN folder \ {s} : DOMAIN folder[s].samples \cap DOMAIN folder[t].samples = {}
        /\ \A n \in DOMAIN moved : DOMAIN folder[s].samples \cap DOMAIN moved[n].samples = {}

ObjectsInv == ObjectsShape /\ JobIsPlaced /\ OneFolderPerSample

---------------------------------------------------------------------------
(* What an operation makes of the folder it works on. *)

\* The folder of slug s is e after the step, and no other folder changes.
Becomes(s, e) ==
    /\ e \in Folder
    /\ DOMAIN folder' = DOMAIN folder \cup {s}
    /\ folder' \in [DOMAIN folder' -> Folder]
    /\ folder'[s] = e
    /\ \A t \in DOMAIN folder \ {s} : folder'[t] = folder[t]
    /\ moved' = moved


LEMMA SampleMapIsFunction ==
    ASSUME NEW m \in SampleMaps
    PROVE  DOMAIN m \subseteq Nat /\ m \in [DOMAIN m -> Roles]
  BY DEF SampleMaps

LEMMA FunctionIsSampleMap ==
    ASSUME NEW D \in SUBSET Nat, NEW m \in [D -> Roles]
    PROVE  m \in SampleMaps
  BY DEF SampleMaps

LEMMA MadeFolderIsFolder ==
    ASSUME ObjectsShape, NEW s
    PROVE  MadeFolder(s) \in Folder
<1>a. << >> \in [1 .. 0 -> Roles] /\ 1 .. 0 \in SUBSET Nat
  OBVIOUS
<1>1. << >> \in SampleMaps
  BY <1>a, FunctionIsSampleMap
<1>2. EmptyFolder \in Folder
  BY <1>1 DEF EmptyFolder, Folder
<1> QED BY <1>2 DEF MadeFolder, ObjectsShape, FoldersShape

LEMMA WithBecomes ==
    ASSUME ObjectsShape, NEW s \in Nat, NEW e \in Folder, folder' = With(folder, s, e), moved' = moved
    PROVE  Becomes(s, e)
  BY DEF Becomes, With, ObjectsShape, FoldersShape

LEMMA MakeFolderBecomes ==
    ASSUME ObjectsShape, MakeFolder
    PROVE  Becomes(job.slug, MadeFolder(job.slug))
<1>1. job.slug \in Nat
  BY DEF ObjectsShape, FoldersShape, Job
<1> QED BY <1>1, MadeFolderIsFolder, WithBecomes DEF MakeFolder

LEMMA WriteFileBecomes ==
    ASSUME ObjectsShape, WriteFile
    PROVE  \E e : /\ Becomes(job.slug, e) /\ e.samples = MadeFolder(job.slug).samples
                  /\ e.deleted = MadeFolder(job.slug).deleted /\ e.trash = MadeFolder(job.slug).trash
                  /\ e.images = MadeFolder(job.slug).images \cup {<<job.id, job.step>>}
<1> DEFINE d == MadeFolder(job.slug)
           e == [d EXCEPT !.images = @ \cup {<<job.id, job.step>>}]
<1>1. d \in Folder /\ job.slug \in Nat /\ job.id \in Nat /\ job.step \in Parts
  BY MadeFolderIsFolder DEF ObjectsShape, FoldersShape, Job, WriteFile
<1>2. folder' = With(folder, job.slug, e) /\ moved' = moved
  BY DEF WriteFile
<1> HIDE DEF d
<1>3. e \in Folder /\ e.samples = d.samples /\ e.deleted = d.deleted /\ e.trash = d.trash
      /\ e.images = d.images \cup {<<job.id, job.step>>}
  BY <1>1 DEF Folder
<1>4. Becomes(job.slug, e)
  BY <1>1, <1>2, <1>3, WithBecomes
<1> QED BY <1>3, <1>4 DEF d

LEMMA WriteRecordBecomes ==
    ASSUME ObjectsShape, JobIsPlaced, WriteRecord
    PROVE  \E e : /\ Becomes(job.slug, e) /\ job.slug \in DOMAIN folder
                  /\ DOMAIN e.samples = DOMAIN folder[job.slug].samples \cup {job.id}
                  /\ e.samples[job.id] = job.role
                  /\ \A i \in DOMAIN folder[job.slug].samples \ {job.id} : e.samples[i] = folder[job.slug].samples[i]
                  /\ e.deleted = folder[job.slug].deleted
                  /\ e.trash = folder[job.slug].trash /\ e.images = folder[job.slug].images
<1> DEFINE d == folder[job.slug]
           m == With(d.samples, job.id, job.role)
           e == [d EXCEPT !.samples = m]
<1>1. d \in Folder /\ job.slug \in DOMAIN folder /\ job.id \in Nat /\ job.role \in Roles
  BY DEF ObjectsShape, FoldersShape, Job, WriteRecord, JobIsPlaced
<1>2. folder' = [folder EXCEPT ![job.slug] = e] /\ moved' = moved
  BY DEF WriteRecord
<1>a. d.samples \in SampleMaps
  BY <1>1 DEF Folder
<1>3. DOMAIN m = DOMAIN d.samples \cup {job.id} /\ m[job.id] = job.role
      /\ \A i \in DOMAIN d.samples \ {job.id} : m[i] = d.samples[i]
  BY DEF With
<1>4. m \in [DOMAIN m -> Roles] /\ DOMAIN m \subseteq Nat
  BY <1>1, <1>a, SampleMapIsFunction DEF With
<1>5. m \in SampleMaps
  BY <1>4, FunctionIsSampleMap
<1> HIDE DEF m, d
<1>6. e \in Folder /\ e.samples = m /\ e.deleted = d.deleted /\ e.trash = d.trash
      /\ e.images = d.images
  BY <1>1, <1>5 DEF Folder
<1> HIDE DEF e
<1>7. Becomes(job.slug, e)
  BY <1>1, <1>2, <1>6 DEF Becomes, ObjectsShape, FoldersShape
<1> QED BY <1>1, <1>3, <1>6, <1>7 DEF d

LEMMA PatchSampleBecomes ==
    ASSUME ObjectsShape, NEW s, NEW i, PatchSample(s, i)
    PROVE  \E e : /\ Becomes(s, e) /\ s \in DOMAIN folder
                  /\ DOMAIN e.samples = DOMAIN folder[s].samples /\ e.deleted = folder[s].deleted
                  /\ e.trash = folder[s].trash /\ e.images = folder[s].images
<1> DEFINE d == folder[s]
<1>1. s \in DOMAIN folder /\ d \in Folder
  BY SampleMapIsFunction DEF PatchSample, ManifestOf, MadeFolder, EmptyFolder, ObjectsShape, FoldersShape
<1>2. PICK role \in Roles : folder' = [folder EXCEPT ![s].samples[i] = role]
  BY DEF PatchSample
<1> DEFINE m == [d.samples EXCEPT ![i] = role]
           e == [d EXCEPT !.samples = m]
<1>3. folder' = [folder EXCEPT ![s] = e] /\ moved' = moved
  BY <1>2 DEF PatchSample
<1>4. d.samples \in [DOMAIN d.samples -> Roles] /\ DOMAIN d.samples \subseteq Nat
  BY <1>1, SampleMapIsFunction DEF Folder
<1> HIDE DEF d
<1>5. m \in [DOMAIN d.samples -> Roles] /\ DOMAIN m = DOMAIN d.samples
  BY <1>4
<1>6. m \in SampleMaps
  BY <1>4, <1>5, FunctionIsSampleMap
<1> HIDE DEF m
<1>7. e \in Folder /\ e.samples = m /\ e.deleted = d.deleted /\ e.trash = d.trash
      /\ e.images = d.images
  BY <1>1, <1>6 DEF Folder
<1> HIDE DEF e
<1>8. Becomes(s, e)
  BY <1>1, <1>3, <1>7 DEF Becomes, ObjectsShape, FoldersShape
<1> QED BY <1>1, <1>5, <1>7, <1>8 DEF d

LEMMA MoveFileBecomes ==
    ASSUME ObjectsShape, JobIsPlaced, MoveFile
    PROVE  \E e, f : /\ Becomes(job.slug, e) /\ job.slug \in DOMAIN folder
                     /\ f \in folder[job.slug].images /\ f[1] = job.id
                     /\ e.samples = folder[job.slug].samples /\ e.deleted = folder[job.slug].deleted
                     /\ e.trash = folder[job.slug].trash \cup {f}
                     /\ e.images = folder[job.slug].images \ {f}
<1> DEFINE d == folder[job.slug]
<1>1. d \in Folder /\ job.slug \in DOMAIN folder
  BY DEF ObjectsShape, FoldersShape, MoveFile, JobIsPlaced
<1>2. PICK f \in InImages(job.slug, job.id) :
        folder' = [folder EXCEPT ![job.slug].images = @ \ {f}, ![job.slug].trash = @ \cup {f}]
  BY DEF MoveFile
<1> DEFINE e == [d EXCEPT !.images = @ \ {f}, !.trash = @ \cup {f}]
<1>3. folder' = [folder EXCEPT ![job.slug] = e] /\ moved' = moved
  BY <1>1, <1>2 DEF MoveFile, ObjectsShape, FoldersShape
<1>4. f \in d.images /\ f[1] = job.id
  BY <1>2 DEF InImages
<1> HIDE DEF d
<1>5. e \in Folder /\ e.samples = d.samples /\ e.deleted = d.deleted
      /\ e.trash = d.trash \cup {f} /\ e.images = d.images \ {f}
  BY <1>1, <1>4 DEF Folder
<1> HIDE DEF e
<1>6. Becomes(job.slug, e)
  BY <1>1, <1>3, <1>5 DEF Becomes, ObjectsShape, FoldersShape
<1> QED BY <1>1, <1>4, <1>5, <1>6 DEF d

LEMMA SaveDeletionBecomes ==
    ASSUME ObjectsShape, JobIsPlaced, SaveDeletion
    PROVE  \E e : /\ Becomes(job.slug, e) /\ job.slug \in DOMAIN folder
                  /\ DOMAIN e.samples = DOMAIN folder[job.slug].samples \ {job.id}
                  /\ e.deleted = folder[job.slug].deleted \cup {job.id}
                  /\ e.trash = folder[job.slug].trash /\ e.images = folder[job.slug].images
<1> DEFINE d == folder[job.slug]
           m == Without(d.samples, job.id)
           e == [d EXCEPT !.samples = m, !.deleted = @ \cup {job.id}]
<1>1. d \in Folder /\ job.slug \in DOMAIN folder /\ job.id \in Nat
  BY DEF ObjectsShape, FoldersShape, Job, SaveDeletion, JobIsPlaced
<1>2. folder' = [folder EXCEPT ![job.slug] = e] /\ moved' = moved
  BY <1>1 DEF SaveDeletion, NoteDeleted, ObjectsShape, FoldersShape
<1>3. d.samples \in [DOMAIN d.samples -> Roles] /\ DOMAIN d.samples \subseteq Nat
  BY <1>1, SampleMapIsFunction DEF Folder
<1>4. DOMAIN m = DOMAIN d.samples \ {job.id} /\ m \in [DOMAIN m -> Roles]
  BY <1>3 DEF Without
<1>5. m \in SampleMaps
  BY <1>3, <1>4, FunctionIsSampleMap
<1> HIDE DEF m, d
<1>6. e \in Folder /\ e.samples = m /\ e.deleted = d.deleted \cup {job.id} /\ e.trash = d.trash
      /\ e.images = d.images
  BY <1>1, <1>5 DEF Folder
<1> HIDE DEF e
<1>7. Becomes(job.slug, e)
  BY <1>1, <1>2, <1>6 DEF Becomes, ObjectsShape, FoldersShape
<1> QED BY <1>1, <1>4, <1>6, <1>7 DEF d

\* A folder that lists what it listed, or ids that are listed nowhere.
LEMMA FolderStep ==
    ASSUME ObjectsInv, NEW s \in Nat, NEW e, Becomes(s, e), sampleOf' = sampleOf, NEW ids \in SUBSET Ids,
           DOMAIN e.samples \subseteq DOMAIN ManifestOf(s) \cup ids,
           \A t \in DOMAIN folder : ids \cap DOMAIN folder[t].samples = {},
           \A n \in DOMAIN moved : ids \cap DOMAIN moved[n].samples = {}
    PROVE  FoldersShape' /\ OneFolderPerSample'
<1>1. DOMAIN ManifestOf(s) = IF s \in DOMAIN folder THEN DOMAIN folder[s].samples ELSE {}
  BY DEF ManifestOf, MadeFolder, EmptyFolder
<1>2. Ids' = Ids
  BY DEF Ids
<1>3. DOMAIN e.samples \subseteq Ids
  BY <1>1 DEF ObjectsInv, ObjectsShape, FoldersShape
<1>4. FoldersShape'
  BY <1>2, <1>3 DEF ObjectsInv, ObjectsShape, FoldersShape, Becomes
<1>5. ASSUME NEW t \in DOMAIN folder \ {s}
      PROVE  DOMAIN e.samples \cap DOMAIN folder[t].samples = {}
  BY <1>1, <1>5 DEF ObjectsInv, OneFolderPerSample
<1>6. ASSUME NEW n \in DOMAIN moved
      PROVE  DOMAIN e.samples \cap DOMAIN moved[n].samples = {}
  BY <1>1, <1>6 DEF ObjectsInv, OneFolderPerSample
<1>7. OneFolderPerSample'
  BY <1>5, <1>6 DEF ObjectsInv, OneFolderPerSample, Becomes
<1> QED BY <1>4, <1>7

---------------------------------------------------------------------------
(* The invariant of the folders and of the handler that works on them. *)

LEMMA FolderStepSame ==
    ASSUME ObjectsInv, NEW s \in Nat, NEW e, Becomes(s, e), sampleOf' = sampleOf,
           DOMAIN e.samples \subseteq DOMAIN ManifestOf(s)
    PROVE  FoldersShape' /\ OneFolderPerSample'
<1> DEFINE none == {}
<1>1. /\ none \in SUBSET Ids /\ DOMAIN e.samples \subseteq DOMAIN ManifestOf(s) \cup none
      /\ \A t \in DOMAIN folder : none \cap DOMAIN folder[t].samples = {}
      /\ \A n \in DOMAIN moved : none \cap DOMAIN moved[n].samples = {}
  OBVIOUS
<1> HIDE DEF none
<1> QED BY <1>1, FolderStep

LEMMA IdleIsJob == Idle \in Job
  BY DEF Idle, Job, JobSteps, Roles

LEMMA JobEdits ==
    ASSUME NEW j \in Job, NEW step \in JobSteps, NEW s \in Nat, NEW i \in Nat
    PROVE  /\ [j EXCEPT !.step = step] \in Job
           /\ [j EXCEPT !.id = i] \in Job
           /\ [j EXCEPT !.step = step, !.slug = s] \in Job
           /\ [j EXCEPT !.step = step, !.id = i] \in Job
           /\ [j EXCEPT !.step = step, !.slug = s, !.id = i] \in Job
  BY DEF Job

LEMMA FreeSlugIsFree ==
    ASSUME ObjectsShape, lives < MaxLives
    PROVE  FreeSlug \in 1 .. lives + 1 /\ ~Listed(FreeSlug)
<1> DEFINE S == {s \in Slugs : ~Listed(s)}
           R == OpToRel(<, Nat)
<1>1. lives + 1 \in S /\ S \subseteq Nat
  BY ObjectsAssumption DEF ObjectsShape, Slugs, Listed
<1>2. PICK m \in S : \A y \in S : ~ (<<y, m>> \in R)
  BY <1>1, WFMin, NatLessThanWellFounded
<1>3. \A x, y \in Nat : x < y => <<x, y>> \in R
  BY DEF OpToRel
<1> HIDE DEF R, S
<1>4. ASSUME NEW y \in S
      PROVE  m <= y
  <2>1. y \in Nat /\ m \in Nat /\ <<y, m>> \notin R
    BY <1>1, <1>2
  <2>2. ~(y < m)
    BY <1>3, <2>1
  <2> QED BY <2>1, <2>2
<1>5. FreeSlug \in S /\ \A y \in S : FreeSlug <= y
  BY <1>4 DEF FreeSlug, Min, S
<1> QED BY <1>1, <1>5, ObjectsAssumption DEF Slugs, ObjectsShape, S

LEMMA ObjectsInitially == ObjectsInit => ObjectsInv
<1> SUFFICES ASSUME ObjectsInit PROVE ObjectsInv
  OBVIOUS
<1>1. << >> \in Seq(Folder) /\ << >> \in Seq(Nat) /\ DOMAIN << >> = {}
      /\ \A S : << >> \in [{} -> S]
  OBVIOUS
<1>2. FoldersShape
  BY <1>1 DEF ObjectsInit, FoldersShape
<1>3. ObjectsShape
  BY <1>1, <1>2, IdleIsJob DEF ObjectsInit, ObjectsShape
<1>4. JobIsPlaced
  BY DEF ObjectsInit, JobIsPlaced, Idle, AtFiles
<1>5. OneFolderPerSample
  BY <1>1 DEF ObjectsInit, OneFolderPerSample
<1> QED BY <1>3, <1>4, <1>5 DEF ObjectsInv

\* Every handler leaves the profiles, the uploads and the job in their shape.
LEMMA ObjectsShapeStep ==
    ASSUME ObjectsInv, [ObjectsNext]_objectVars, FoldersShape'
    PROVE  ObjectsShape'
<1> SUFFICES /\ lives' \in Nat /\ faults' \in Nat
             /\ DOMAIN profiles' \subseteq 1 .. lives' /\ profiles' \in [DOMAIN profiles' -> Profile]
             /\ pending' \in [Uploads -> Job] /\ job' \in Job
  BY DEF ObjectsShape
<1> USE DEF ObjectsInv
<1>0. /\ lives \in Nat /\ faults \in Nat
      /\ DOMAIN profiles \subseteq 1 .. lives /\ profiles \in [DOMAIN profiles -> Profile]
      /\ pending \in [Uploads -> Job] /\ job \in Job
  BY DEF ObjectsShape
<1>1. CASE CreateObject
  <2>1. FreeSlug \in 1 .. lives + 1
    BY <1>1, FreeSlugIsFree DEF CreateObject
  <2>2. [life |-> lives + 1, positive |-> 0, negative |-> 0] \in Profile
    BY <1>0 DEF Profile
  <2>3. job' \in Job
    <3>1. FreeSlug \in Nat /\ "mkdir" \in JobSteps
      BY <1>0, <2>1 DEF JobSteps
    <3> QED BY <1>1, <3>1, IdleIsJob, JobEdits DEF CreateObject
  <2> QED BY <1>0, <1>1, <2>1, <2>2, <2>3 DEF CreateObject, NewProfile, With, history
<1>2. CASE MakeFolder \/ SaveDeletion \/ WriteFile \/ WriteRecord \/ MoveFile \/ ThumbRefused \/ LastItem
  <2>1. job' \in Job
    BY <1>0, <1>2, IdleIsJob DEF MakeFolder, SaveDeletion, WriteFile, WriteRecord, MoveFile, ThumbRefused, LastItem,
        Job, JobSteps, AtFiles, AfterFile, Parts
  <2> QED BY <1>0, <1>2, <2>1 DEF MakeFolder, SaveDeletion, WriteFile, WriteRecord, MoveFile, ThumbRefused, LastItem, history
<1>3. CASE Unlist
  BY <1>0, <1>3, IdleIsJob DEF Unlist, Without, history
<1>4. ASSUME NEW s \in Slugs, DropObject(s)
      PROVE  job' \in Job /\ UNCHANGED <<lives, faults, profiles, pending>>
  <2>1. s \in Nat /\ "unlist" \in JobSteps
    BY ObjectsAssumption DEF JobSteps, Slugs
  <2> QED BY <1>4, <2>1, IdleIsJob, JobEdits DEF DropObject, history
<1>5. ASSUME NEW u \in Uploads, FinishUpload(u) \/ RefuseUpload(u)
      PROVE  job' \in Job /\ pending' \in [Uploads -> Job] /\ UNCHANGED <<lives, faults, profiles>>
  <2>1. pending[u] \in Job
    BY <1>0
  <2>2. FinishUpload(u) => Len(sampleOf') \in Nat
    BY DEF ObjectsShape, FoldersShape, FinishUpload, NewSample
  <2>3. pending' \in [Uploads -> Job] /\ UNCHANGED <<lives, faults, profiles>>
    BY <1>0, <1>5, IdleIsJob DEF FinishUpload, RefuseUpload, history
  <2>4. CASE FinishUpload(u)
    <3>1. [pending[u] EXCEPT !.id = Len(sampleOf')] \in Job
      BY <2>1, <2>2, <2>4 DEF Job
    <3> QED BY <2>3, <2>4, <3>1 DEF FinishUpload
  <2>5. CASE RefuseUpload(u)
    BY <1>0, <2>3, <2>5 DEF RefuseUpload
  <2> QED BY <1>5, <2>4, <2>5
<1>6. ASSUME NEW u \in Uploads, NEW s \in Slugs, NEW role \in Roles, BeginUpload(u, s, role)
      PROVE  pending' \in [Uploads -> Job] /\ UNCHANGED <<lives, faults, profiles, job>>
  <2>1. profiles[s].life \in Nat /\ s \in Nat
    BY <1>0, <1>6 DEF BeginUpload, Listed, Profile
  <2>2. [Idle EXCEPT !.step = "image", !.slug = s, !.role = role, !.id = profiles[s].life] \in Job
    BY <2>1, IdleIsJob DEF Job, JobSteps, AtFiles
  <2> QED BY <1>0, <1>6, <2>2 DEF BeginUpload, history
<1>7. ASSUME NEW s \in Slugs, NEW role \in Roles, CommitBatch(s, role)
      PROVE  job' \in Job /\ UNCHANGED <<lives, faults, profiles, pending>>
  <2>1. Len(sampleOf') \in Nat /\ s \in Nat
    BY <1>7 DEF ObjectsShape, FoldersShape, CommitBatch, NewSample, Slugs
  <2> QED BY <1>7, <2>1, IdleIsJob DEF CommitBatch, Job, JobSteps, AtFiles
<1>8. CASE NextItem
  <2>1. Len(sampleOf') \in Nat
    BY <1>8 DEF ObjectsShape, FoldersShape, NextItem, NewSample
  <2> QED BY <1>0, <1>8, <2>1 DEF NextItem, Job, JobSteps, AtFiles
<1>9. ASSUME NEW s \in Slugs, NEW i \in Samples, PatchSample(s, i) \/ DeleteSample(s, i)
      PROVE  job' \in Job /\ UNCHANGED <<lives, faults, profiles, pending>>
  <2>1. s \in Nat /\ i \in Nat /\ {"count", "move"} \subseteq JobSteps
    BY ObjectsAssumption DEF JobSteps, Slugs, Samples
  <2>2. job' = [Idle EXCEPT !.step = "count", !.slug = s]
        \/ job' = [Idle EXCEPT !.step = "move", !.slug = s, !.id = i]
    BY <1>9 DEF PatchSample, DeleteSample, AfterPatch
  <2>3. UNCHANGED <<lives, faults, profiles, pending>>
    BY <1>9 DEF PatchSample, DeleteSample, history
  <2>4. [Idle EXCEPT !.step = "count", !.slug = s] \in Job
    BY <2>1, IdleIsJob, JobEdits
  <2>5. [Idle EXCEPT !.step = "move", !.slug = s, !.id = i] \in Job
    BY <2>1, IdleIsJob, JobEdits
  <2> QED BY <2>2, <2>3, <2>4, <2>5
<1>10. CASE SyncCounts
  <2>1. \A role : CountOf(job.slug, role) \in Nat
    <3>1. DOMAIN ManifestOf(job.slug) \subseteq Ids /\ IsFiniteSet(Ids)
      <4>1. IsFiniteSet(Ids)
        <5>1. Len(sampleOf) \in Nat
          BY DEF ObjectsShape, FoldersShape
        <5> QED BY <5>1, FS_Interval DEF Ids
      <4>2. CASE job.slug \in DOMAIN folder
        BY <4>1, <4>2 DEF ObjectsShape, FoldersShape, ManifestOf, MadeFolder
      <4>3. CASE job.slug \notin DOMAIN folder
        BY <4>1, <4>3 DEF ManifestOf, MadeFolder, EmptyFolder
      <4> QED BY <4>2, <4>3
    <3>2. \A role : IsFiniteSet({i \in DOMAIN ManifestOf(job.slug) : ManifestOf(job.slug)[i] = role})
      BY <3>1, FS_Subset
    <3> QED BY <3>2, FS_CardinalityType DEF CountOf
  <2>2. CASE Listed(job.slug)
    <3>1. profiles[job.slug] \in Profile /\ job.slug \in DOMAIN profiles
      BY <1>0, <2>2 DEF Listed
    <3>2. [profiles[job.slug] EXCEPT !.positive = CountOf(job.slug, "positive"),
                                     !.negative = CountOf(job.slug, "negative")] \in Profile
      BY <2>1, <3>1 DEF Profile
    <3>3. profiles' = [profiles EXCEPT ![job.slug] = [@ EXCEPT !.positive = CountOf(job.slug, "positive"),
                                                              !.negative = CountOf(job.slug, "negative")]]
      BY <1>0, <1>10, <2>2, <3>1 DEF SyncCounts, SetCounts
    <3> QED BY <1>0, <1>10, <3>1, <3>2, <3>3, IdleIsJob DEF SyncCounts, history
  <2>3. CASE ~Listed(job.slug)
    BY <1>0, <1>10, <2>3, IdleIsJob DEF SyncCounts, SetCounts, history
  <2> QED BY <2>2, <2>3
<1>11. CASE FileError \/ ServerCrash
  BY <1>0, <1>11, IdleIsJob DEF FileError, ServerCrash, CutShort
<1>12. CASE UNCHANGED objectVars
  BY <1>0, <1>12 DEF objectVars, history
<1> QED BY <1>0, <1>1, <1>2, <1>3, <1>4, <1>5, <1>6, <1>7, <1>8, <1>9, <1>10, <1>11, <1>12 DEF ObjectsNext

UploadsArePlaced ==
    \A u \in Uploads : pending[u] = Idle \/ (pending[u].step = "image" /\ ~pending[u].batch /\ ~pending[u].saved)

\* A handler that is at none of the steps that have something behind them.
LEMMA NothingBehind ==
    ASSUME UploadsArePlaced', job'.step \in {"none", "mkdir", "count"}, job'.saved => job'.step = "count"
    PROVE  JobIsPlaced'
  BY DEF JobIsPlaced, UploadsArePlaced, AtFiles

LEMMA UploadsPlacedStep ==
    ASSUME ObjectsInv, [ObjectsNext]_objectVars
    PROVE  UploadsArePlaced'
<1>0. UploadsArePlaced /\ pending \in [Uploads -> Job]
  BY DEF ObjectsInv, JobIsPlaced, UploadsArePlaced, ObjectsShape
<1>1. CASE UNCHANGED pending
  BY <1>0, <1>1 DEF UploadsArePlaced
<1>2. ASSUME NEW u \in Uploads, pending' = [pending EXCEPT ![u] = Idle]
      PROVE  UploadsArePlaced'
  BY <1>0, <1>2 DEF UploadsArePlaced
<1>3. ASSUME NEW u \in Uploads, NEW s \in Slugs, NEW role \in Roles, BeginUpload(u, s, role)
      PROVE  UploadsArePlaced'
  <2> DEFINE j == [Idle EXCEPT !.step = "image", !.slug = s, !.role = role, !.id = profiles[s].life]
  <2>1. j.step = "image" /\ ~j.batch /\ ~j.saved
    BY DEF Idle
  <2>2. pending' = [pending EXCEPT ![u] = j]
    BY <1>3 DEF BeginUpload
  <2> HIDE DEF j
  <2> QED BY <1>0, <2>1, <2>2 DEF UploadsArePlaced
<1>4. CASE ServerCrash
  BY <1>4 DEF ServerCrash, UploadsArePlaced
<1>5. CASE FileError
  BY <1>1, <1>5 DEF FileError
<1> QED
  BY <1>1, <1>2, <1>3, <1>4, <1>5
     DEF ObjectsNext, objectVars, history, CreateObject, MakeFolder, Unlist, DropObject, FinishUpload, RefuseUpload,
         CommitBatch, WriteFile, ThumbRefused, WriteRecord, NextItem, LastItem, PatchSample, DeleteSample, MoveFile,
         SaveDeletion, SyncCounts

\* The folders stay, and ids at most grow.
LEMMA FoldersStay ==
    ASSUME ObjectsInv, UNCHANGED <<folder, moved>>, sampleOf' = sampleOf \/ \E l \in Nat : sampleOf' = Append(sampleOf, l)
    PROVE  FoldersShape' /\ OneFolderPerSample'
<1>1. sampleOf' \in Seq(Nat) /\ Ids \subseteq Ids'
  <2>1. CASE sampleOf' = sampleOf
    BY <2>1 DEF ObjectsInv, ObjectsShape, FoldersShape, Ids
  <2>2. ASSUME NEW l \in Nat, sampleOf' = Append(sampleOf, l)
        PROVE  sampleOf' \in Seq(Nat) /\ Ids \subseteq Ids'
    <3>1. sampleOf \in Seq(Nat) /\ Len(sampleOf) \in Nat
      BY DEF ObjectsInv, ObjectsShape, FoldersShape
    <3>2. sampleOf' \in Seq(Nat) /\ Len(sampleOf') = Len(sampleOf) + 1
      BY <2>2, <3>1
    <3> QED BY <3>1, <3>2 DEF Ids
  <2> QED BY <2>1, <2>2
<1>2. FoldersShape'
  BY <1>1 DEF ObjectsInv, ObjectsShape, FoldersShape
<1> QED BY <1>2 DEF ObjectsInv, OneFolderPerSample

\* A handler begins to add a sample with an id no folder has heard of.
LEMMA AddingIsPlaced ==
    ASSUME ObjectsInv, UNCHANGED <<folder, moved>>, UploadsArePlaced', NEW l \in Nat,
           sampleOf' = Append(sampleOf, l), job'.id = Len(sampleOf'), job'.step = "image",
           job'.batch => job'.slug \in DOMAIN profiles', job'.saved => job'.batch
    PROVE  FoldersShape' /\ OneFolderPerSample' /\ JobIsPlaced'
<1>1. FoldersShape' /\ OneFolderPerSample'
  BY FoldersStay
<1>2. Len(sampleOf) \in Nat /\ Len(sampleOf') = Len(sampleOf) + 1
  BY DEF ObjectsInv, ObjectsShape, FoldersShape
<1>3. job'.id \in Ids' /\ job'.id \notin Ids
  BY <1>2 DEF Ids
<1>4. /\ \A s \in DOMAIN folder : job'.id \notin DOMAIN folder[s].samples
      /\ \A n \in DOMAIN moved : job'.id \notin DOMAIN moved[n].samples
  BY <1>3 DEF ObjectsInv, ObjectsShape, FoldersShape
<1>5. JobIsPlaced'
  BY <1>3, <1>4 DEF JobIsPlaced, UploadsArePlaced, AtFiles, Listed
<1> QED BY <1>1, <1>5

LEMMA DropFolderStep ==
    ASSUME ObjectsInv, NEW s, DropFolder(s), sampleOf' = sampleOf
    PROVE  FoldersShape' /\ OneFolderPerSample' /\ s \notin DOMAIN folder'
<1>1. /\ DOMAIN folder' = DOMAIN folder \ {s}
      /\ \A t \in DOMAIN folder' : folder'[t] = folder[t]
      /\ folder' \in [DOMAIN folder' -> Folder] /\ DOMAIN folder' \subseteq Nat
  BY DEF DropFolder, Without, ObjectsInv, ObjectsShape, FoldersShape
<1>2. Ids' = Ids
  BY DEF Ids
<1>3. CASE s \notin DOMAIN folder
  BY <1>1, <1>2, <1>3 DEF DropFolder, ObjectsInv, ObjectsShape, FoldersShape, OneFolderPerSample
<1>4. CASE s \in DOMAIN folder
  <2>1. moved' = Append(moved, folder[s]) /\ moved \in Seq(Folder) /\ folder[s] \in Folder
    BY <1>4 DEF DropFolder, ObjectsInv, ObjectsShape, FoldersShape
  <2>2. /\ moved' \in Seq(Folder)
        /\ \A n \in DOMAIN moved' : (n \in DOMAIN moved /\ moved'[n] = moved[n]) \/ moved'[n] = folder[s]
    BY <2>1
  <2>3. FoldersShape'
    BY <1>1, <1>2, <1>4, <2>2 DEF ObjectsInv, ObjectsShape, FoldersShape
  <2>4. OneFolderPerSample'
    BY <1>1, <1>4, <2>2 DEF ObjectsInv, OneFolderPerSample
  <2> QED BY <1>1, <2>3, <2>4
<1> QED BY <1>3, <1>4

\* One case for each operation: what it does to a folder, then where it leaves the handler.
LEMMA ObjectsInvStep ==
    ASSUME ObjectsInv, [ObjectsNext]_objectVars
    PROVE  ObjectsInv'
<1> DEFINE Goal == FoldersShape' /\ OneFolderPerSample' /\ JobIsPlaced'
<1> SUFFICES Goal
  BY ObjectsShapeStep DEF ObjectsInv
<1>a. UploadsArePlaced'
  BY UploadsPlacedStep
<1>b. ObjectsShape /\ FoldersShape /\ JobIsPlaced /\ OneFolderPerSample
      /\ job \in Job /\ job.slug \in Nat /\ job.id \in Nat
  BY DEF ObjectsInv, ObjectsShape, Job
<1>c. /\ Idle.step = "none" /\ ~Idle.saved /\ ~Idle.batch
      /\ \A x : [Idle EXCEPT !.step = "mkdir", !.slug = x].step = "mkdir"
      /\ \A x : ~[Idle EXCEPT !.step = "mkdir", !.slug = x].saved
  BY DEF Idle
<1>1. CASE CreateObject
  <2>1. UNCHANGED <<folder, moved, sampleOf>> /\ job' = [Idle EXCEPT !.step = "mkdir", !.slug = FreeSlug]
    BY <1>1 DEF CreateObject
  <2> QED BY <1>a, <1>c, <2>1, FoldersStay, NothingBehind
<1>2. CASE MakeFolder
  <2>1. Becomes(job.slug, MadeFolder(job.slug)) /\ sampleOf' = sampleOf /\ job' = Idle
    BY <1>b, <1>2, MakeFolderBecomes DEF MakeFolder, history
  <2>2. FoldersShape' /\ OneFolderPerSample'
    <3>1. DOMAIN MadeFolder(job.slug).samples \subseteq DOMAIN ManifestOf(job.slug)
      BY DEF ManifestOf
    <3> QED BY <1>b, <2>1, <3>1, FolderStepSame
  <2> QED BY <1>a, <1>c, <2>1, <2>2, NothingBehind
<1>3. CASE Unlist \/ SyncCounts
  <2>1. UNCHANGED <<folder, moved, sampleOf>> /\ job' = Idle
    BY <1>3 DEF Unlist, SyncCounts, history
  <2> QED BY <1>a, <1>c, <2>1, FoldersStay, NothingBehind
<1>4. ASSUME NEW s \in Slugs, DropObject(s)
      PROVE  Goal
  <2>1. FoldersShape' /\ OneFolderPerSample' /\ s \notin DOMAIN folder'
    BY <1>4, DropFolderStep DEF DropObject, history
  <2>2. job'.step = "unlist" /\ job'.slug = s /\ ~job'.saved /\ ~job'.batch
    BY <1>4 DEF DropObject, Idle
  <2> QED BY <1>a, <2>1, <2>2 DEF JobIsPlaced, UploadsArePlaced, AtFiles
<1>5. ASSUME NEW u \in Uploads, FinishUpload(u)
      PROVE  Goal
  <2>1. pending[u] \in Job /\ pending[u].step = "image" /\ ~pending[u].batch /\ ~pending[u].saved
    BY <1>5, <1>b DEF FinishUpload, JobIsPlaced, ObjectsShape
  <2>2. job'.id = Len(sampleOf') /\ job'.step = "image" /\ ~job'.batch /\ ~job'.saved
    BY <1>5, <2>1 DEF FinishUpload, Job
  <2>3. pending[u].id \in Nat /\ sampleOf' = Append(sampleOf, pending[u].id) /\ UNCHANGED <<folder, moved>>
    BY <1>5, <2>1 DEF FinishUpload, NewSample, Job
  <2> QED BY <1>a, <2>2, <2>3, AddingIsPlaced
<1>6. ASSUME NEW u \in Uploads, NEW s \in Slugs, NEW role \in Roles,
             BeginUpload(u, s, role)
      PROVE  Goal
  <2>1. UNCHANGED <<folder, moved, sampleOf, job, profiles>>
    BY <1>6 DEF BeginUpload, history
  <2>2. FoldersShape' /\ OneFolderPerSample'
    BY <2>1, FoldersStay
  <2> QED BY <1>a, <1>b, <2>1, <2>2 DEF JobIsPlaced, UploadsArePlaced, Ids, Listed
<1>7. ASSUME NEW s \in Slugs, NEW role \in Roles, CommitBatch(s, role)
      PROVE  Goal
  <2>1. /\ sampleOf' = Append(sampleOf, profiles[s].life) /\ UNCHANGED <<folder, moved, profiles>>
        /\ s \in DOMAIN profiles
    BY <1>7 DEF CommitBatch, NewSample, Listed
  <2>2. profiles[s].life \in Nat
    BY <1>b, <2>1 DEF ObjectsShape, Profile
  <2>3. job'.id = Len(sampleOf') /\ job'.step = "image" /\ job'.slug = s /\ job'.batch
    BY <1>7 DEF CommitBatch, Idle
  <2> QED BY <1>a, <2>1, <2>2, <2>3, AddingIsPlaced
<1>8. CASE NextItem
  <2>1. /\ sampleOf' = Append(sampleOf, profiles[job.slug].life) /\ UNCHANGED <<folder, moved, profiles>>
        /\ job.slug \in DOMAIN profiles
    BY <1>8, <1>b DEF NextItem, NewSample, Listed, JobIsPlaced
  <2>2. profiles[job.slug].life \in Nat
    BY <1>b, <2>1 DEF ObjectsShape, Profile
  <2>3. job'.id = Len(sampleOf') /\ job'.step = "image" /\ job'.slug = job.slug /\ job'.batch
    BY <1>8, <1>b DEF NextItem, Job, JobIsPlaced
  <2> QED BY <1>a, <2>1, <2>2, <2>3, AddingIsPlaced
<1>9. CASE WriteFile
  <2>1. PICK e : /\ Becomes(job.slug, e) /\ e.samples = ManifestOf(job.slug)
                 /\ e.images = MadeFolder(job.slug).images \cup {<<job.id, job.step>>}
    BY <1>b, <1>9, WriteFileBecomes DEF ManifestOf
  <2>2. UNCHANGED <<sampleOf, profiles>>
    BY <1>9 DEF WriteFile, history
  <2>3. FoldersShape' /\ OneFolderPerSample'
    <3>1. DOMAIN e.samples \subseteq DOMAIN ManifestOf(job.slug)
      BY <2>1
    <3> QED BY <1>b, <2>1, <2>2, <3>1, FolderStepSame
  <2>4. job'.id = job.id /\ job'.slug = job.slug /\ job'.batch = job.batch /\ job'.saved = job.saved
        /\ job.step \in {"image", "thumb"}
        /\ job'.step = IF job.step = "image" THEN "thumb" ELSE "record"
    BY <1>9, <1>b DEF WriteFile, AfterFile, Parts, Job
  <2>5. /\ \A s \in DOMAIN folder' : job.id \notin DOMAIN folder'[s].samples
        /\ \A n \in DOMAIN moved' : job.id \notin DOMAIN moved'[n].samples
        /\ job.id \in Ids'
    <3>1. job.id \notin DOMAIN ManifestOf(job.slug)
      BY <1>b, <2>4 DEF JobIsPlaced, AtFiles, ManifestOf, MadeFolder, EmptyFolder
    <3> QED BY <1>b, <2>1, <2>2, <2>4, <3>1 DEF Becomes, JobIsPlaced, AtFiles, Ids
  <2>6. job.slug \in DOMAIN folder' /\ <<job.id, job.step>> \in folder'[job.slug].images
    BY <2>1 DEF Becomes
  <2>7. job.step = "thumb" => <<job.id, "image">> \in folder'[job.slug].images
    BY <1>b, <2>1 DEF JobIsPlaced, MadeFolder, Becomes
  <2>8. JobIsPlaced'
    <3>1. job'.step \in {"thumb", "record"} /\ (job'.step = "thumb" => job.step = "image")
          /\ (job'.step = "record" => job.step = "thumb")
      BY <2>4
    <3> QED BY <1>a, <1>b, <2>2, <2>4, <2>5, <2>6, <2>7, <3>1 DEF JobIsPlaced, UploadsArePlaced, AtFiles, Listed
  <2> QED BY <2>3, <2>8
<1>10. CASE ThumbRefused \/ LastItem
  <2>1. UNCHANGED <<folder, moved, sampleOf, profiles>>
    BY <1>10 DEF ThumbRefused, LastItem, history
  <2>2. FoldersShape' /\ OneFolderPerSample'
    BY <2>1, FoldersStay
  <2>3. CASE ThumbRefused
    <3>1. /\ job'.slug = job.slug /\ job'.batch = job.batch /\ job'.saved = job.saved /\ job.step = "record"
          /\ job'.step = IF job.batch THEN "next" ELSE "none"
      BY <1>b, <2>3 DEF ThumbRefused, Job
    <3>2. (job.batch => Listed(job.slug)) /\ (job.saved => job.batch)
      BY <1>b, <3>1 DEF JobIsPlaced, AtFiles
    <3> QED BY <1>a, <2>1, <2>2, <3>1, <3>2 DEF JobIsPlaced, UploadsArePlaced, AtFiles, Listed
  <2>4. CASE LastItem
    <3>1. job'.saved = job.saved /\ job'.step = IF job.saved THEN "count" ELSE "none"
      BY <1>b, <2>4 DEF LastItem, Job
    <3> QED BY <1>a, <2>2, <3>1, NothingBehind
  <2> QED BY <1>10, <2>3, <2>4
<1>11. CASE WriteRecord
  <2>1. PICK e : /\ Becomes(job.slug, e) /\ job.slug \in DOMAIN folder
                 /\ DOMAIN e.samples = DOMAIN folder[job.slug].samples \cup {job.id}
    BY <1>b, <1>11, WriteRecordBecomes
  <2>2. UNCHANGED <<sampleOf, profiles>> /\ job.step = "record"
    BY <1>11 DEF WriteRecord
  <2> DEFINE new == {job.id}
  <2>3. /\ new \in SUBSET Ids
        /\ \A t \in DOMAIN folder : new \cap DOMAIN folder[t].samples = {}
        /\ \A n \in DOMAIN moved : new \cap DOMAIN moved[n].samples = {}
    BY <1>b, <2>2 DEF JobIsPlaced, AtFiles
  <2>4. FoldersShape' /\ OneFolderPerSample'
    <3>1. DOMAIN e.samples \subseteq DOMAIN ManifestOf(job.slug) \cup new
      BY <2>1 DEF ManifestOf, MadeFolder
    <3> HIDE DEF new
    <3> QED BY <1>b, <2>1, <2>2, <2>3, <3>1, FolderStep
  <2>5. /\ job'.slug = job.slug /\ job'.batch = job.batch
        /\ job'.step = IF job.batch THEN "next" ELSE "count"
    BY <1>11, <1>b DEF WriteRecord, Job
  <2>6. job.batch => Listed(job.slug)
    BY <1>b, <2>2 DEF JobIsPlaced, AtFiles
  <2> QED BY <1>a, <2>2, <2>4, <2>5, <2>6 DEF JobIsPlaced, UploadsArePlaced, AtFiles, Listed
<1>12. ASSUME NEW s \in Slugs, NEW i \in Samples, PatchSample(s, i)
       PROVE  Goal
  <2>1. PICK e : Becomes(s, e) /\ s \in DOMAIN folder /\ DOMAIN e.samples = DOMAIN folder[s].samples
    BY <1>b, <1>12, PatchSampleBecomes
  <2>2. sampleOf' = sampleOf /\ job'.step = "count" /\ s \in Nat
    BY <1>12, <1>b, <2>1 DEF PatchSample, AfterPatch, history, Idle, FoldersShape
  <2>3. FoldersShape' /\ OneFolderPerSample'
    <3>1. DOMAIN e.samples \subseteq DOMAIN ManifestOf(s)
      BY <2>1 DEF ManifestOf, MadeFolder
    <3> QED BY <2>1, <2>2, <3>1, FolderStepSame
  <2> QED BY <1>a, <2>2, <2>3, NothingBehind
<1>13. ASSUME NEW s \in Slugs, NEW i \in Samples, DeleteSample(s, i)
       PROVE  Goal
  <2>1. UNCHANGED <<folder, moved, sampleOf>> /\ i \in DOMAIN ManifestOf(s)
    BY <1>13 DEF DeleteSample, history
  <2>2. FoldersShape' /\ OneFolderPerSample'
    BY <2>1, FoldersStay
  <2>3. job'.step = "move" /\ job'.slug = s /\ job'.id = i /\ ~job'.saved /\ ~job'.batch
    BY <1>13 DEF DeleteSample, Idle
  <2>4. s \in DOMAIN folder /\ i \in DOMAIN folder[s].samples
    BY <2>1 DEF ManifestOf, MadeFolder, EmptyFolder
  <2> QED BY <1>a, <2>1, <2>2, <2>3, <2>4 DEF JobIsPlaced, UploadsArePlaced, AtFiles
<1>14. CASE MoveFile
  <2>1. PICK e : Becomes(job.slug, e) /\ job.slug \in DOMAIN folder /\ e.samples = folder[job.slug].samples
    BY <1>b, <1>14, MoveFileBecomes
  <2>2. UNCHANGED <<sampleOf, job, profiles>> /\ job.step = "move"
    BY <1>14 DEF MoveFile, history
  <2>3. FoldersShape' /\ OneFolderPerSample'
    <3>1. DOMAIN e.samples \subseteq DOMAIN ManifestOf(job.slug)
      BY <2>1 DEF ManifestOf, MadeFolder
    <3> QED BY <1>b, <2>1, <2>2, <3>1, FolderStepSame
  <2>4. job.slug \in DOMAIN folder' /\ job.id \in DOMAIN folder'[job.slug].samples
        /\ (job.saved => job.batch)
    BY <1>b, <2>1, <2>2 DEF JobIsPlaced, Becomes
  <2> QED BY <1>a, <2>2, <2>3, <2>4 DEF JobIsPlaced, UploadsArePlaced, AtFiles
<1>15. CASE SaveDeletion
  <2>1. PICK e : /\ Becomes(job.slug, e) /\ job.slug \in DOMAIN folder
                 /\ DOMAIN e.samples = DOMAIN folder[job.slug].samples \ {job.id}
    BY <1>b, <1>15, SaveDeletionBecomes
  <2>2. sampleOf' = sampleOf /\ job'.step = "count"
    BY <1>15, <1>b DEF SaveDeletion, Job
  <2>3. FoldersShape' /\ OneFolderPerSample'
    <3>1. DOMAIN e.samples \subseteq DOMAIN ManifestOf(job.slug)
      BY <2>1 DEF ManifestOf, MadeFolder
    <3> QED BY <1>b, <2>1, <2>2, <3>1, FolderStepSame
  <2> QED BY <1>a, <2>2, <2>3, NothingBehind
<1>16. CASE FileError \/ ServerCrash
  <2>1. UNCHANGED <<folder, moved, sampleOf>> /\ job' = Idle
    BY <1>16 DEF FileError, ServerCrash, CutShort
  <2> QED BY <1>a, <1>c, <2>1, FoldersStay, NothingBehind
<1>17. CASE UNCHANGED objectVars
  <2>1. UNCHANGED <<folder, moved, sampleOf, job, profiles>>
    BY <1>17 DEF objectVars, history
  <2>2. FoldersShape' /\ OneFolderPerSample'
    BY <2>1, FoldersStay
  <2> QED BY <1>a, <1>b, <2>1, <2>2 DEF JobIsPlaced, UploadsArePlaced, Ids, Listed
<1>18. ASSUME NEW u \in Uploads, RefuseUpload(u)
       PROVE  Goal
  <2>1. UNCHANGED <<folder, moved, sampleOf, job, profiles>>
    BY <1>18 DEF RefuseUpload, history
  <2>2. FoldersShape' /\ OneFolderPerSample'
    BY <2>1, FoldersStay
  <2> QED BY <1>a, <1>b, <2>1, <2>2 DEF JobIsPlaced, UploadsArePlaced, Ids, Listed
<1> HIDE DEF Goal
<1> QED BY <1>1, <1>2, <1>3, <1>4, <1>5, <1>6, <1>7, <1>8, <1>9, <1>10, <1>11, <1>12, <1>13, <1>14, <1>15, <1>16,
           <1>17, <1>18 DEF ObjectsNext

---------------------------------------------------------------------------
(* Nothing is destroyed. *)

\* A folder that has what another had: records, and files.
Keeps(d, e) ==
    /\ DOMAIN d.samples \cup d.deleted \subseteq DOMAIN e.samples \cup e.deleted
    /\ d.images \cup d.trash \subseteq e.images \cup e.trash

LEMMA KeptWhenRewritten ==
    ASSUME ObjectsInv, NEW s, NEW e, Becomes(s, e), s \in DOMAIN folder => Keeps(folder[s], e)
    PROVE  /\ \A d \in Folders : \E k \in Folders' : Keeps(d, k)
           /\ e \in Folders'
<1>1. e \in Folders'
  BY DEF Becomes, Folders
<1>2. ASSUME NEW t \in DOMAIN folder
      PROVE  \E k \in Folders' : Keeps(folder[t], k)
  <2>1. CASE t = s
    BY <1>1, <2>1
  <2>2. CASE t # s
    <3>1. folder[t] \in Folders'
      BY <2>2 DEF Becomes, Folders
    <3> QED BY <3>1 DEF Keeps
  <2> QED BY <2>1, <2>2
<1>3. ASSUME NEW n \in DOMAIN moved
      PROVE  \E k \in Folders' : Keeps(moved[n], k)
  <2>1. moved[n] \in Folders'
    BY DEF Becomes, Folders
  <2> QED BY <2>1 DEF Keeps
<1> QED BY <1>1, <1>2, <1>3 DEF Folders

LEMMA KeptWhenDropped ==
    ASSUME ObjectsInv, NEW s, DropFolder(s)
    PROVE  Folders' = Folders
<1>1. DOMAIN folder' = DOMAIN folder \ {s} /\ \A t \in DOMAIN folder' : folder'[t] = folder[t]
  BY DEF DropFolder, Without
<1>2. CASE s \notin DOMAIN folder
  BY <1>1, <1>2 DEF DropFolder, Folders
<1>3. CASE s \in DOMAIN folder
  <2>1. moved \in Seq(Folder) /\ moved' = Append(moved, folder[s]) /\ folder[s] \in Folder
    BY <1>3 DEF DropFolder, ObjectsInv, ObjectsShape, FoldersShape
  <2>2. {moved'[n] : n \in DOMAIN moved'} = {moved[n] : n \in DOMAIN moved} \cup {folder[s]}
    <3>1. /\ DOMAIN moved = 1 .. Len(moved) /\ Len(moved) \in Nat
          /\ DOMAIN moved' = 1 .. Len(moved) + 1 /\ moved'[Len(moved) + 1] = folder[s]
          /\ \A n \in 1 .. Len(moved) : moved'[n] = moved[n]
      BY <2>1
    <3> QED BY <3>1
  <2>3. {folder[t] : t \in DOMAIN folder} = {folder'[t] : t \in DOMAIN folder'} \cup {folder[s]}
    BY <1>1, <1>3
  <2> QED BY <2>2, <2>3 DEF Folders
<1> QED BY <1>2, <1>3

LEMMA FoldersUnchanged ==
    ASSUME UNCHANGED <<folder, moved>>
    PROVE  Folders' = Folders
  BY DEF Folders

\* Every step keeps what the folders hold; one records a sample whose files are there.
LEMMA NothingDestroyedStep ==
    ASSUME ObjectsInv, NothingDestroyed, [ObjectsNext]_objectVars
    PROVE  NothingDestroyed'
<1>0. /\ ObjectsShape /\ FoldersShape /\ JobIsPlaced
      /\ \A s : s \in DOMAIN folder => MadeFolder(s) = folder[s]
  BY DEF ObjectsInv, ObjectsShape, MadeFolder
<1>1. ASSUME recorded' = recorded, \A d \in Folders : \E k \in Folders' : Keeps(d, k)
      PROVE  NothingDestroyed'
  BY <1>1 DEF NothingDestroyed, Keeps
<1>2. ASSUME recorded' = recorded, Folders' = Folders
      PROVE  NothingDestroyed'
  BY <1>2 DEF NothingDestroyed
<1>3. CASE MakeFolder
  <2>1. Becomes(job.slug, MadeFolder(job.slug)) /\ recorded' = recorded
    BY <1>0, <1>3, MakeFolderBecomes DEF MakeFolder, history
  <2> QED BY <1>0, <1>1, <2>1, KeptWhenRewritten DEF Keeps
<1>4. ASSUME NEW s \in Slugs, DropObject(s)
      PROVE  NothingDestroyed'
  BY <1>2, <1>4, KeptWhenDropped DEF DropObject, history
<1>5. CASE WriteFile
  <2>1. PICK e : /\ Becomes(job.slug, e) /\ e.samples = MadeFolder(job.slug).samples
                 /\ e.deleted = MadeFolder(job.slug).deleted /\ e.trash = MadeFolder(job.slug).trash
                 /\ e.images = MadeFolder(job.slug).images \cup {<<job.id, job.step>>}
    BY <1>0, <1>5, WriteFileBecomes
  <2>2. job.slug \in DOMAIN folder => Keeps(folder[job.slug], e)
    BY <1>0, <2>1 DEF Keeps
  <2>3. recorded' = recorded
    BY <1>5 DEF WriteFile, history
  <2> QED BY <1>1, <2>1, <2>2, <2>3, KeptWhenRewritten
<1>6. CASE WriteRecord
  <2>1. PICK e : /\ Becomes(job.slug, e) /\ job.slug \in DOMAIN folder
                 /\ DOMAIN e.samples = DOMAIN folder[job.slug].samples \cup {job.id}
                 /\ e.deleted = folder[job.slug].deleted
                 /\ e.trash = folder[job.slug].trash /\ e.images = folder[job.slug].images
    BY <1>0, <1>6, WriteRecordBecomes
  <2>2. Keeps(folder[job.slug], e)
    BY <2>1 DEF Keeps
  <2>3. e \in Folders' /\ \A d \in Folders : \E k \in Folders' : Keeps(d, k)
    BY <2>1, <2>2, KeptWhenRewritten
  <2>4. job.id \in DOMAIN e.samples /\ {job.id} \X Parts \subseteq e.images
    BY <1>0, <1>6, <2>1 DEF JobIsPlaced, WriteRecord, Parts
  <2>5. recorded' = recorded \cup {job.id}
    BY <1>6 DEF WriteRecord
  <2>6. ASSUME NEW i \in recorded
        PROVE  \E k \in Folders' : /\ i \in DOMAIN k.samples \cup k.deleted
                                   /\ {i} \X Parts \subseteq k.images \cup k.trash
    BY <2>3, <2>6 DEF NothingDestroyed, Keeps
  <2> QED BY <2>3, <2>4, <2>5, <2>6 DEF NothingDestroyed
<1>7. ASSUME NEW s \in Slugs, NEW i \in Samples, PatchSample(s, i)
      PROVE  NothingDestroyed'
  <2>1. PICK e : /\ Becomes(s, e) /\ s \in DOMAIN folder
                 /\ DOMAIN e.samples = DOMAIN folder[s].samples /\ e.deleted = folder[s].deleted
                 /\ e.trash = folder[s].trash /\ e.images = folder[s].images
    BY <1>0, <1>7, PatchSampleBecomes
  <2>2. Keeps(folder[s], e) /\ recorded' = recorded
    BY <1>7, <2>1 DEF Keeps, PatchSample, history
  <2> QED BY <1>1, <2>1, <2>2, KeptWhenRewritten
<1>8. CASE MoveFile
  <2>1. PICK e, f : /\ Becomes(job.slug, e) /\ job.slug \in DOMAIN folder
                    /\ f \in folder[job.slug].images
                    /\ e.samples = folder[job.slug].samples /\ e.deleted = folder[job.slug].deleted
                    /\ e.trash = folder[job.slug].trash \cup {f}
                    /\ e.images = folder[job.slug].images \ {f}
    BY <1>0, <1>8, MoveFileBecomes
  <2>2. Keeps(folder[job.slug], e) /\ recorded' = recorded
    BY <1>8, <2>1 DEF Keeps, MoveFile, history
  <2> QED BY <1>1, <2>1, <2>2, KeptWhenRewritten
<1>9. CASE SaveDeletion
  <2>1. PICK e : /\ Becomes(job.slug, e) /\ job.slug \in DOMAIN folder
                 /\ DOMAIN e.samples = DOMAIN folder[job.slug].samples \ {job.id}
                 /\ e.deleted = folder[job.slug].deleted \cup {job.id}
                 /\ e.trash = folder[job.slug].trash /\ e.images = folder[job.slug].images
    BY <1>0, <1>9, SaveDeletionBecomes
  <2>2. Keeps(folder[job.slug], e) /\ recorded' = recorded
    BY <1>9, <2>1 DEF Keeps, SaveDeletion
  <2> QED BY <1>1, <2>1, <2>2, KeptWhenRewritten
<1>10. CASE UNCHANGED <<folder, moved, recorded>>
  BY <1>2, <1>10, FoldersUnchanged
<1>11. ASSUME NEW u \in Uploads, FinishUpload(u) \/ RefuseUpload(u)
       PROVE  UNCHANGED <<folder, moved, recorded>>
  BY <1>11 DEF FinishUpload, RefuseUpload, history
<1> QED
  BY <1>3, <1>4, <1>5, <1>6, <1>7, <1>8, <1>9, <1>10, <1>11
     DEF ObjectsNext, objectVars, history, CreateObject, Unlist, BeginUpload, CommitBatch, ThumbRefused, NextItem,
         LastItem, DeleteSample, SyncCounts, FileError, ServerCrash, CutShort

---------------------------------------------------------------------------
(* A sample that is shown has its image. *)

\* The samples that may lack a file.
Excused == cut \cup IF job.step = "move" THEN {job.id} ELSE {}

Complete(d, excused) == \A i \in DOMAIN d.samples : {i} \X Parts \subseteq d.images \/ i \in excused

LEMMA ShownHasImageIsComplete ==
    ShownHasImage <=> /\ \A s \in DOMAIN folder : Complete(folder[s], Excused)
                      /\ \A n \in DOMAIN moved : Complete(moved[n], Excused)
  BY DEF ShownHasImage, Complete, Excused, Folders

\* A step that rewrites one folder, and excuses whatever was excused.
LEMMA CompleteWhenRewritten ==
    ASSUME ShownHasImage, NEW s, NEW e, Becomes(s, e), Complete(e, Excused'),
           Excused \subseteq Excused'
    PROVE  ShownHasImage'
<1>1. ASSUME NEW t \in DOMAIN folder', t # s
      PROVE  Complete(folder'[t], Excused')
  <2>1. t \in DOMAIN folder /\ folder'[t] = folder[t] /\ Complete(folder[t], Excused)
    BY <1>1, ShownHasImageIsComplete DEF Becomes
  <2> QED BY <2>1 DEF Complete
<1>2. ASSUME NEW n \in DOMAIN moved'
      PROVE  Complete(moved'[n], Excused')
  <2>1. n \in DOMAIN moved /\ moved'[n] = moved[n] /\ Complete(moved[n], Excused)
    BY ShownHasImageIsComplete DEF Becomes
  <2> QED BY <2>1 DEF Complete
<1>3. Complete(folder'[s], Excused')
  BY DEF Becomes, Complete
<1> QED BY <1>1, <1>2, <1>3 DEF ShownHasImage, Complete, Excused, Folders

LEMMA CompleteWhenKept ==
    ASSUME ShownHasImage, Folders' = Folders, Excused \subseteq Excused'
    PROVE  ShownHasImage'
  BY DEF ShownHasImage, Excused

LEMMA ShownHasImageStep ==
    ASSUME ObjectsInv, ShownHasImage, [ObjectsNext]_objectVars
    PROVE  ShownHasImage'
<1>0. /\ ObjectsShape /\ FoldersShape /\ JobIsPlaced /\ OneFolderPerSample
      /\ \A s \in DOMAIN folder : Complete(folder[s], Excused) /\ MadeFolder(s) = folder[s]
  BY ShownHasImageIsComplete DEF ObjectsInv, ObjectsShape, MadeFolder
<1>1. CASE MakeFolder
  <2>1. Becomes(job.slug, MadeFolder(job.slug)) /\ cut' = cut /\ job.step = "mkdir"
    BY <1>0, <1>1, MakeFolderBecomes DEF MakeFolder, history
  <2>2. Excused \subseteq Excused'
    BY <2>1 DEF Excused
  <2>3. Complete(MadeFolder(job.slug), Excused)
    BY <1>0 DEF MadeFolder, EmptyFolder, Complete
  <2>4. ASSUME NEW e, e = MadeFolder(job.slug)
        PROVE  ShownHasImage'
    <3>1. Complete(e, Excused')
      BY <2>2, <2>3, <2>4 DEF Complete
    <3> QED BY <2>1, <2>2, <2>4, <3>1, CompleteWhenRewritten
  <2> QED BY <2>4
<1>2. ASSUME NEW s \in Slugs, DropObject(s)
      PROVE  ShownHasImage'
  <2>1. Folders' = Folders
    BY <1>2, KeptWhenDropped DEF DropObject
  <2>2. Excused \subseteq Excused'
    BY <1>2 DEF Excused, DropObject, LoopFree, history
  <2> QED BY <2>1, <2>2, CompleteWhenKept
<1>3. CASE WriteFile
  <2>1. PICK e : /\ Becomes(job.slug, e) /\ e.samples = MadeFolder(job.slug).samples
                 /\ e.images = MadeFolder(job.slug).images \cup {<<job.id, job.step>>}
    BY <1>0, <1>3, WriteFileBecomes
  <2>2. Excused \subseteq Excused'
    BY <1>3 DEF Excused, WriteFile, history, Parts
  <2>3. Complete(MadeFolder(job.slug), Excused)
    BY <1>0 DEF MadeFolder, EmptyFolder, Complete
  <2>4. Complete(e, Excused')
    BY <2>1, <2>2, <2>3 DEF Complete
  <2> QED BY <2>1, <2>2, <2>4, CompleteWhenRewritten
<1>4. CASE WriteRecord
  <2>1. PICK e : /\ Becomes(job.slug, e) /\ job.slug \in DOMAIN folder
                 /\ DOMAIN e.samples = DOMAIN folder[job.slug].samples \cup {job.id}
                 /\ e.images = folder[job.slug].images
    BY <1>0, <1>4, WriteRecordBecomes
  <2>2. Excused \subseteq Excused'
    BY <1>4 DEF Excused, WriteRecord
  <2>3. {job.id} \X Parts \subseteq e.images
    BY <1>0, <1>4, <2>1 DEF JobIsPlaced, WriteRecord, Parts
  <2>4. Complete(e, Excused')
    BY <1>0, <2>1, <2>2, <2>3 DEF Complete
  <2> QED BY <2>1, <2>2, <2>4, CompleteWhenRewritten
<1>5. ASSUME NEW s \in Slugs, NEW i \in Samples, PatchSample(s, i)
      PROVE  ShownHasImage'
  <2>1. PICK e : /\ Becomes(s, e) /\ s \in DOMAIN folder
                 /\ DOMAIN e.samples = DOMAIN folder[s].samples /\ e.images = folder[s].images
    BY <1>0, <1>5, PatchSampleBecomes
  <2>2. Excused \subseteq Excused'
    BY <1>5 DEF Excused, PatchSample, history, LoopFree
  <2>3. Complete(e, Excused')
    BY <1>0, <2>1, <2>2 DEF Complete
  <2> QED BY <2>1, <2>2, <2>3, CompleteWhenRewritten
<1>6. CASE MoveFile
  <2>1. PICK e, f : /\ Becomes(job.slug, e) /\ job.slug \in DOMAIN folder
                    /\ f[1] = job.id /\ e.samples = folder[job.slug].samples
                    /\ e.images = folder[job.slug].images \ {f}
    BY <1>0, <1>6, MoveFileBecomes
  <2>2. UNCHANGED <<job, cut>> /\ job.step = "move"
    BY <1>6 DEF MoveFile, history
  <2>3. Excused \subseteq Excused'
    BY <2>2 DEF Excused
  <2>4. ASSUME NEW i \in DOMAIN e.samples
        PROVE  {i} \X Parts \subseteq e.images \/ i \in Excused'
    <3>1. CASE i = job.id
      BY <2>2, <3>1 DEF Excused
    <3>2. CASE i # job.id
      <4>1. {i} \X Parts \subseteq folder[job.slug].images \/ i \in Excused
        BY <1>0, <2>1 DEF Complete
      <4>2. f \notin {i} \X Parts
        BY <2>1, <3>2
      <4> QED BY <2>1, <2>3, <4>1, <4>2
    <3> QED BY <3>1, <3>2
  <2>5. Complete(e, Excused')
    BY <2>4 DEF Complete
  <2> QED BY <2>1, <2>3, <2>5, CompleteWhenRewritten
<1>7. CASE SaveDeletion
  <2>1. PICK e : /\ Becomes(job.slug, e) /\ job.slug \in DOMAIN folder
                 /\ DOMAIN e.samples = DOMAIN folder[job.slug].samples \ {job.id}
                 /\ e.images = folder[job.slug].images
    BY <1>0, <1>7, SaveDeletionBecomes
  <2>2. cut' = cut \ {job.id} /\ job.id \in DOMAIN folder[job.slug].samples
    BY <1>0, <1>7 DEF SaveDeletion, JobIsPlaced
  <2>3. Excused \ {job.id} \subseteq Excused'
    BY <2>2 DEF Excused
  <2>4. ASSUME NEW t \in DOMAIN folder'
        PROVE  Complete(folder'[t], Excused')
    <3>1. CASE t = job.slug
      BY <1>0, <2>1, <2>3, <3>1 DEF Complete, Becomes
    <3>2. CASE t # job.slug
      <4>1. t \in DOMAIN folder /\ folder'[t] = folder[t]
        BY <2>1, <3>2 DEF Becomes
      <4>2. job.id \notin DOMAIN folder[t].samples
        BY <1>0, <2>1, <2>2, <3>2, <4>1 DEF OneFolderPerSample
      <4> QED BY <1>0, <2>3, <4>1, <4>2 DEF Complete
    <3> QED BY <3>1, <3>2
  <2>5. ASSUME NEW n \in DOMAIN moved'
        PROVE  Complete(moved'[n], Excused')
    <3>1. n \in DOMAIN moved /\ moved'[n] = moved[n] /\ Complete(moved[n], Excused)
      BY <2>1, ShownHasImageIsComplete DEF Becomes
    <3>2. job.id \notin DOMAIN moved[n].samples
      BY <1>0, <2>1, <2>2, <3>1 DEF OneFolderPerSample
    <3> QED BY <2>3, <3>1, <3>2 DEF Complete
  <2> QED BY <2>4, <2>5 DEF ShownHasImage, Complete, Excused, Folders
<1>8. CASE FileError \/ ServerCrash
  <2>1. Folders' = Folders
    BY <1>8, FoldersUnchanged DEF FileError, ServerCrash, CutShort
  <2>2. Excused \subseteq Excused'
    BY <1>8 DEF Excused, FileError, ServerCrash, CutShort
  <2> QED BY <2>1, <2>2, CompleteWhenKept
<1>9. ASSUME UNCHANGED <<folder, moved, cut>>, job.step = "move" => UNCHANGED job
      PROVE  ShownHasImage'
  <2>1. Folders' = Folders
    BY <1>9, FoldersUnchanged
  <2>2. Excused \subseteq Excused'
    BY <1>9 DEF Excused
  <2> QED BY <2>1, <2>2, CompleteWhenKept
<1>10. ASSUME NEW u \in Uploads, FinishUpload(u) \/ RefuseUpload(u)
       PROVE  ShownHasImage'
  BY <1>9, <1>10 DEF FinishUpload, RefuseUpload, history, LoopFree
<1>11. ASSUME NEW u \in Uploads, NEW s \in Slugs, NEW role \in Roles, BeginUpload(u, s, role) \/ CommitBatch(s, role)
       PROVE  ShownHasImage'
  BY <1>9, <1>11 DEF BeginUpload, CommitBatch, history, LoopFree
<1>12. ASSUME NEW s \in Slugs, NEW i \in Samples, DeleteSample(s, i)
       PROVE  ShownHasImage'
  BY <1>9, <1>12 DEF DeleteSample, history, LoopFree
<1>13. CASE CreateObject \/ Unlist \/ ThumbRefused \/ NextItem \/ LastItem \/ SyncCounts
  BY <1>9, <1>13 DEF CreateObject, Unlist, ThumbRefused, NextItem, LastItem, SyncCounts, history, LoopFree
<1>14. CASE UNCHANGED objectVars
  BY <1>9, <1>14 DEF objectVars, history
<1>15. ASSUME NEW s \in Slugs, NEW role \in Roles, CommitBatch(s, role)
       PROVE  ShownHasImage'
  BY <1>9, <1>15 DEF CommitBatch, LoopFree
<1> QED
  BY <1>1, <1>2, <1>3, <1>4, <1>5, <1>6, <1>7, <1>8, <1>10, <1>11, <1>12, <1>13, <1>14, <1>15 DEF ObjectsNext

---------------------------------------------------------------------------
(* No sample passes from one life of a slug to another. *)

\* A folder whose object was dropped can only have come back by a late upload.
OnlyLateComeBack ==
    /\ NoPastLives
    /\ \A s \in DOMAIN folder \ DOMAIN profiles : DOMAIN folder[s].samples \subseteq late
    /\ job.step \in AtFiles =>
          job.id \in late \/ (Listed(job.slug) /\ profiles[job.slug].life = sampleOf[job.id])

\* Sample i may be in the folder of slug s.
Belongs(i, s) == i \in late \/ (Listed(s) /\ sampleOf[i] = profiles[s].life)

LEMMA AllBelong ==
    OnlyLateComeBack <=> /\ \A s \in DOMAIN folder : \A i \in DOMAIN folder[s].samples : Belongs(i, s)
                         /\ job.step \in AtFiles => Belongs(job.id, job.slug)
  BY DEF OnlyLateComeBack, NoPastLives, Belongs, Listed, ManifestOf, MadeFolder, EmptyFolder

\* One folder changes; what it lists new belongs there.
LEMMA BelongWhenRewritten ==
    ASSUME OnlyLateComeBack, NEW s, NEW e, Becomes(s, e), UNCHANGED <<profiles, sampleOf, late>>,
           \A i \in DOMAIN e.samples : Belongs(i, s),
           job'.step \in AtFiles => job.step \in AtFiles /\ job'.id = job.id /\ job'.slug = job.slug
    PROVE  OnlyLateComeBack'
<1>1. \A i, t : Belongs(i, t) => Belongs(i, t)'
  BY DEF Belongs, Listed
<1>2. ASSUME NEW t \in DOMAIN folder', NEW i \in DOMAIN folder'[t].samples
      PROVE  Belongs(i, t)'
  BY <1>1, <1>2, AllBelong DEF Becomes
<1>3. job'.step \in AtFiles => Belongs(job.id, job.slug)
  BY AllBelong
<1> QED BY <1>2, <1>3 DEF OnlyLateComeBack, NoPastLives, Belongs, Listed, ManifestOf, MadeFolder, EmptyFolder

\* The folders that stay list what they listed, and what belonged still does.
LEMMA BelongWhenKept ==
    ASSUME OnlyLateComeBack,
           \A s \in DOMAIN folder' : s \in DOMAIN folder /\ folder'[s] = folder[s],
           \A s \in DOMAIN folder' : \A i \in DOMAIN folder[s].samples : Belongs(i, s) => Belongs(i, s)',
           job'.step \in AtFiles => Belongs(job.id, job.slug)'
    PROVE  OnlyLateComeBack'
<1>1. ASSUME NEW t \in DOMAIN folder', NEW i \in DOMAIN folder'[t].samples
      PROVE  Belongs(i, t)'
  BY <1>1, AllBelong
<1> QED BY <1>1 DEF OnlyLateComeBack, NoPastLives, Belongs, Listed, ManifestOf, MadeFolder, EmptyFolder

LEMMA OnlyLateStep ==
    ASSUME ObjectsInv, OnlyLateComeBack, [ObjectsNext]_objectVars
    PROVE  OnlyLateComeBack'
<1>0. /\ ObjectsShape /\ FoldersShape /\ JobIsPlaced /\ job \in Job
      /\ \A s : s \in DOMAIN folder => ManifestOf(s) = folder[s].samples
      /\ \A s : s \notin DOMAIN folder => DOMAIN ManifestOf(s) = {}
      /\ DOMAIN profiles \subseteq 1 .. lives /\ lives \in Nat
  BY DEF ObjectsInv, ObjectsShape, ManifestOf, MadeFolder, EmptyFolder
<1>a. /\ \A s \in DOMAIN folder : \A i \in DOMAIN folder[s].samples : Belongs(i, s) /\ i \in Ids
      /\ \A s : \A i \in DOMAIN ManifestOf(s) : Belongs(i, s)
      /\ job.step \in AtFiles => Belongs(job.id, job.slug)
  BY <1>0, AllBelong DEF FoldersShape
<1>1. CASE CreateObject
  <2>1. ~Listed(FreeSlug) /\ UNCHANGED <<folder, sampleOf, late>> /\ job'.step = "mkdir"
    BY <1>0, <1>1, FreeSlugIsFree DEF CreateObject, Idle
  <2>2. /\ DOMAIN profiles \subseteq DOMAIN profiles'
        /\ \A s \in DOMAIN profiles : profiles'[s] = profiles[s]
    BY <1>1, <2>1 DEF CreateObject, With, Listed
  <2>3. \A i, s : Belongs(i, s) => Belongs(i, s)'
    BY <2>1, <2>2 DEF Belongs, Listed
  <2> QED BY <2>1, <2>3, BelongWhenKept DEF AtFiles
<1>2. CASE MakeFolder
  <2>1. Becomes(job.slug, MadeFolder(job.slug)) /\ UNCHANGED <<profiles, sampleOf, late>> /\ job'.step = "none"
    BY <1>0, <1>2, MakeFolderBecomes DEF MakeFolder, history, Idle
  <2> QED BY <1>a, <2>1, BelongWhenRewritten DEF ManifestOf, AtFiles
<1>3. CASE Unlist
  <2>1. job.slug \notin DOMAIN folder /\ UNCHANGED <<folder, sampleOf, late>> /\ job'.step = "none"
    BY <1>0, <1>3 DEF Unlist, JobIsPlaced, history, Idle
  <2>2. \A i, s : s # job.slug /\ Belongs(i, s) => Belongs(i, s)'
    BY <1>3, <2>1 DEF Unlist, Without, Belongs, Listed
  <2> QED BY <2>1, <2>2, BelongWhenKept DEF AtFiles
<1>4. ASSUME NEW s \in Slugs, DropObject(s)
      PROVE  OnlyLateComeBack'
  <2>1. \A t \in DOMAIN folder' : t \in DOMAIN folder /\ folder'[t] = folder[t]
    BY <1>4 DEF DropObject, DropFolder, Without
  <2>2. UNCHANGED <<profiles, sampleOf, late>> /\ job'.step = "unlist"
    BY <1>4 DEF DropObject, history, Idle
  <2>3. \A i, t : Belongs(i, t) => Belongs(i, t)'
    BY <2>2 DEF Belongs, Listed
  <2> QED BY <2>1, <2>2, <2>3, BelongWhenKept DEF AtFiles
<1>5. ASSUME NEW l \in Nat, NEW s, NewSample(l, s), UNCHANGED <<folder, profiles>>,
             job'.id = Len(sampleOf'), job'.slug = s
      PROVE  OnlyLateComeBack'
  <2>1. /\ sampleOf \in Seq(Nat) /\ Len(sampleOf) \in Nat /\ sampleOf' = Append(sampleOf, l)
    BY <1>0, <1>5 DEF FoldersShape, NewSample
  <2>2. Len(sampleOf') = Len(sampleOf) + 1 /\ sampleOf'[Len(sampleOf')] = l
        /\ \A i \in Ids : sampleOf'[i] = sampleOf[i]
    BY <2>1 DEF Ids
  <2>3. late \subseteq late' /\ (Len(sampleOf') \in late' \/ (Listed(s) /\ profiles[s].life = l))
    BY <1>5 DEF NewSample
  <2>4. \A i \in Ids : \A t : Belongs(i, t) => Belongs(i, t)'
    BY <1>5, <2>2, <2>3 DEF Belongs, Listed
  <2>5. Belongs(job.id, job.slug)'
    BY <1>5, <2>2, <2>3 DEF Belongs, Listed
  <2> QED BY <1>5, <1>a, <2>4, <2>5, BelongWhenKept
<1>6. ASSUME NEW u \in Uploads, FinishUpload(u)
      PROVE  OnlyLateComeBack'
  <2>1. pending[u] \in Job
    BY <1>0 DEF ObjectsShape
  <2> QED BY <1>5, <1>6, <2>1 DEF FinishUpload, Job
<1>7. ASSUME NEW s \in Slugs, NEW role \in Roles, CommitBatch(s, role)
      PROVE  OnlyLateComeBack'
  <2>1. profiles[s].life \in Nat
    BY <1>0, <1>7 DEF ObjectsShape, CommitBatch, Listed, Profile
  <2> QED BY <1>5, <1>7, <2>1 DEF CommitBatch, Idle
<1>8. CASE NextItem
  <2>1. profiles[job.slug].life \in Nat
    BY <1>0, <1>8 DEF ObjectsShape, NextItem, Listed, Profile, JobIsPlaced
  <2> QED BY <1>0, <1>5, <1>8, <2>1 DEF NextItem, Job
<1>9. CASE WriteFile
  <2>1. PICK e : Becomes(job.slug, e) /\ e.samples = ManifestOf(job.slug)
    BY <1>0, <1>9, WriteFileBecomes DEF ManifestOf
  <2>2. UNCHANGED <<profiles, sampleOf, late>> /\ job.step \in AtFiles /\ job'.id = job.id /\ job'.slug = job.slug
    BY <1>0, <1>9 DEF WriteFile, history, AtFiles, Parts, Job
  <2> QED BY <1>a, <2>1, <2>2, BelongWhenRewritten
<1>10. CASE WriteRecord
  <2>1. PICK e : /\ Becomes(job.slug, e) /\ job.slug \in DOMAIN folder
                 /\ DOMAIN e.samples = DOMAIN folder[job.slug].samples \cup {job.id}
    BY <1>0, <1>10, WriteRecordBecomes
  <2>2. UNCHANGED <<profiles, sampleOf, late>> /\ job.step \in AtFiles /\ job'.step \notin AtFiles
    BY <1>0, <1>10 DEF WriteRecord, AtFiles, Job
  <2>3. \A i \in DOMAIN e.samples : Belongs(i, job.slug)
    BY <1>a, <2>1, <2>2
  <2> QED BY <2>1, <2>2, <2>3, BelongWhenRewritten
<1>11. ASSUME NEW s \in Slugs, NEW i \in Samples, PatchSample(s, i)
       PROVE  OnlyLateComeBack'
  <2>1. PICK e : Becomes(s, e) /\ s \in DOMAIN folder /\ DOMAIN e.samples = DOMAIN folder[s].samples
    BY <1>0, <1>11, PatchSampleBecomes
  <2>2. UNCHANGED <<profiles, sampleOf, late>> /\ job'.step = "count"
    BY <1>11 DEF PatchSample, AfterPatch, history, Idle
  <2> QED BY <1>a, <2>1, <2>2, BelongWhenRewritten DEF AtFiles
<1>12. CASE MoveFile
  <2>1. PICK e : Becomes(job.slug, e) /\ job.slug \in DOMAIN folder /\ e.samples = folder[job.slug].samples
    BY <1>0, <1>12, MoveFileBecomes
  <2>2. UNCHANGED <<profiles, sampleOf, late, job>>
    BY <1>12 DEF MoveFile, history
  <2> QED BY <1>a, <2>1, <2>2, BelongWhenRewritten
<1>13. CASE SaveDeletion
  <2>1. PICK e : /\ Becomes(job.slug, e) /\ job.slug \in DOMAIN folder
                 /\ DOMAIN e.samples = DOMAIN folder[job.slug].samples \ {job.id}
    BY <1>0, <1>13, SaveDeletionBecomes
  <2>2. UNCHANGED <<profiles, sampleOf, late>> /\ job'.step = "count"
    BY <1>0, <1>13 DEF SaveDeletion, Job
  <2> QED BY <1>a, <2>1, <2>2, BelongWhenRewritten DEF AtFiles
<1>14. CASE SyncCounts
  <2>1. UNCHANGED <<folder, sampleOf, late>> /\ job'.step = "none"
    BY <1>14 DEF SyncCounts, history, Idle
  <2>2. DOMAIN profiles' = DOMAIN profiles /\ \A s \in DOMAIN profiles : profiles'[s].life = profiles[s].life
    <3>1. profiles \in [DOMAIN profiles -> Profile]
      BY <1>0 DEF ObjectsShape
    <3> QED BY <1>14, <3>1 DEF SyncCounts, SetCounts, Profile
  <2>3. \A i, s : Belongs(i, s) => Belongs(i, s)'
    BY <2>1, <2>2 DEF Belongs, Listed
  <2> QED BY <2>1, <2>3, BelongWhenKept DEF AtFiles
<1>15. ASSUME UNCHANGED <<folder, profiles, sampleOf, late>>, job'.step \notin AtFiles \/ UNCHANGED job
       PROVE  OnlyLateComeBack'
  BY <1>15 DEF OnlyLateComeBack, NoPastLives, Listed, ManifestOf, MadeFolder
<1>16. CASE FileError \/ ServerCrash \/ ThumbRefused \/ LastItem
  <2>1. UNCHANGED <<folder, profiles, sampleOf, late>> /\ job'.step \in {"none", "next", "count"}
    BY <1>0, <1>16 DEF FileError, ServerCrash, CutShort, ThumbRefused, LastItem, history, Idle, Job
  <2> QED BY <1>15, <2>1 DEF AtFiles
<1>17. ASSUME NEW u \in Uploads, RefuseUpload(u)
       PROVE  OnlyLateComeBack'
  BY <1>15, <1>17 DEF RefuseUpload, history
<1>18. ASSUME NEW u \in Uploads, NEW s \in Slugs, NEW role \in Roles, BeginUpload(u, s, role)
       PROVE  OnlyLateComeBack'
  BY <1>15, <1>18 DEF BeginUpload, history
<1>19. ASSUME NEW s \in Slugs, NEW i \in Samples, DeleteSample(s, i)
       PROVE  OnlyLateComeBack'
  BY <1>15, <1>19 DEF DeleteSample, history, Idle, AtFiles
<1>20. CASE UNCHANGED objectVars
  BY <1>15, <1>20 DEF objectVars, history
<1> QED
  BY <1>1, <1>2, <1>3, <1>4, <1>6, <1>7, <1>8, <1>9, <1>10, <1>11, <1>12, <1>13, <1>14, <1>16, <1>17, <1>18, <1>19,
     <1>20 DEF ObjectsNext

---------------------------------------------------------------------------
(* The counts of a profile are those of its manifest. *)

CountsAgree(s) ==
    /\ profiles[s].positive = CountOf(s, "positive")
    /\ profiles[s].negative = CountOf(s, "negative")

\* While a handler has changed the samples of an object, or dropped it, and has
\* not come to the counts yet, they may differ.
CountsAwaited(s) == job.slug = s /\ (job.saved \/ job.step \in {"count", "unlist"})

CountsSettleOrWait ==
    faults = 0 =>
        \A s \in DOMAIN profiles : profiles[s].life \notin adopted => CountsAgree(s) \/ CountsAwaited(s)

LEMMA CountsAgreeWhenKept ==
    ASSUME NEW s, profiles'[s] = profiles[s],
           \A role \in Roles : {i \in DOMAIN ManifestOf(s) : ManifestOf(s)[i] = role}
                               = {i \in DOMAIN ManifestOf(s)' : ManifestOf(s)'[i] = role},
           CountsAgree(s)
    PROVE  CountsAgree(s)'
  BY DEF CountsAgree, CountOf, Roles

\* The object that a handler works on may have to wait; the others keep their samples.
LEMMA CountsWait ==
    ASSUME CountsSettleOrWait, UNCHANGED <<profiles, adopted>>, faults' = 0 => faults = 0,
           NEW s, \A t \in DOMAIN profiles \ {s} : ManifestOf(t)' = ManifestOf(t),
           CountsAwaited(s)' \/ (ManifestOf(s)' = ManifestOf(s) /\ ~CountsAwaited(s)),
           \A t : CountsAwaited(t) => t = s
    PROVE  CountsSettleOrWait'
<1> SUFFICES ASSUME faults = 0, NEW t \in DOMAIN profiles, profiles[t].life \notin adopted
             PROVE  CountsAgree(t)' \/ CountsAwaited(t)'
  BY DEF CountsSettleOrWait
<1>1. CASE t = s /\ CountsAwaited(s)'
  BY <1>1
<1>2. CASE ManifestOf(t)' = ManifestOf(t) /\ ~CountsAwaited(t)
  <2>1. CountsAgree(t)
    BY <1>2 DEF CountsSettleOrWait
  <2> QED BY <1>2, <2>1 DEF CountsAgree, CountOf
<1> QED BY <1>1, <1>2

LEMMA ManifestWhenRewritten ==
    ASSUME NEW s, NEW e, Becomes(s, e)
    PROVE  ManifestOf(s)' = e.samples /\ \A t : t # s => ManifestOf(t)' = ManifestOf(t)
  BY DEF Becomes, ManifestOf, MadeFolder

LEMMA CountsStep ==
    ASSUME ObjectsInv, CountsSettleOrWait, [ObjectsNext]_objectVars
    PROVE  CountsSettleOrWait'
<1>0. /\ ObjectsShape /\ FoldersShape /\ JobIsPlaced /\ job \in Job
      /\ \A s : s \in DOMAIN folder => ManifestOf(s) = folder[s].samples
      /\ \A s : s \notin DOMAIN folder => DOMAIN ManifestOf(s) = {}
      /\ DOMAIN profiles \subseteq 1 .. lives /\ lives \in Nat
      /\ profiles \in [DOMAIN profiles -> Profile]
  BY DEF ObjectsInv, ObjectsShape, ManifestOf, MadeFolder, EmptyFolder
<1>a. /\ \A s : CountsAwaited(s) => s = job.slug
      /\ LoopFree => \A s : ~CountsAwaited(s)
  BY <1>0 DEF CountsAwaited, LoopFree, JobIsPlaced
<1>1. CASE CreateObject
  <2>1. ~Listed(FreeSlug) /\ UNCHANGED <<folder, faults>> /\ LoopFree
    BY <1>0, <1>1, FreeSlugIsFree DEF CreateObject
  <2>2. /\ DOMAIN profiles' = DOMAIN profiles \cup {FreeSlug}
        /\ \A s \in DOMAIN profiles : profiles'[s] = profiles[s]
        /\ profiles'[FreeSlug] = [life |-> lives + 1, positive |-> 0, negative |-> 0]
        /\ adopted' = IF FreeSlug \in DOMAIN folder THEN adopted \cup {lives + 1} ELSE adopted
    BY <1>1, <2>1 DEF CreateObject, NewProfile, With, Listed
  <2>3. \A s : ManifestOf(s)' = ManifestOf(s)
    BY <2>1 DEF ManifestOf, MadeFolder
  <2> SUFFICES ASSUME faults = 0, NEW s \in DOMAIN profiles', profiles'[s].life \notin adopted'
               PROVE  CountsAgree(s)'
    BY <2>1 DEF CountsSettleOrWait
  <2>4. CASE s \in DOMAIN profiles
    <3>1. CountsAgree(s)
      BY <1>a, <2>1, <2>2, <2>4 DEF CountsSettleOrWait
    <3> QED BY <2>2, <2>3, <2>4, <3>1 DEF CountsAgree, CountOf
  <2>5. CASE s = FreeSlug
    <3>1. FreeSlug \notin DOMAIN folder
      BY <2>2, <2>5
    <3>2. DOMAIN ManifestOf(s)' = {}
      BY <1>0, <2>3, <2>5, <3>1
    <3>3. \A role : CountOf(s, role)' = 0
      BY <3>2, FS_EmptySet DEF CountOf
    <3> QED BY <2>2, <2>5, <3>3 DEF CountsAgree
  <2> QED BY <2>2, <2>4, <2>5
<1>2. CASE MakeFolder
  <2>1. Becomes(job.slug, MadeFolder(job.slug)) /\ UNCHANGED <<profiles, adopted, faults>> /\ job.step = "mkdir"
    BY <1>0, <1>2, MakeFolderBecomes DEF MakeFolder, history
  <2>2. \A s : ManifestOf(s)' = ManifestOf(s)
    BY <2>1, ManifestWhenRewritten DEF ManifestOf
  <2>3. ~CountsAwaited(job.slug)
    BY <1>0, <2>1 DEF CountsAwaited, JobIsPlaced
  <2> QED BY <1>a, <2>1, <2>2, <2>3, CountsWait
<1>3. CASE Unlist
  <2>1. UNCHANGED <<folder, adopted, faults>>
    BY <1>3 DEF Unlist, history
  <2>2. \A s \in DOMAIN profiles' : s \in DOMAIN profiles /\ s # job.slug /\ profiles'[s] = profiles[s]
    BY <1>3 DEF Unlist, Without
  <2> SUFFICES ASSUME faults = 0, NEW s \in DOMAIN profiles', profiles'[s].life \notin adopted'
               PROVE  CountsAgree(s)'
    BY <2>1 DEF CountsSettleOrWait
  <2>3. CountsAgree(s)
    BY <1>a, <2>1, <2>2 DEF CountsSettleOrWait
  <2> QED BY <2>1, <2>2, <2>3 DEF CountsAgree, CountOf, ManifestOf, MadeFolder
<1>4. ASSUME NEW s \in Slugs, DropObject(s)
      PROVE  CountsSettleOrWait'
  <2>1. /\ LoopFree /\ UNCHANGED <<profiles, adopted, faults>> /\ CountsAwaited(s)'
        /\ \A t : t # s => ManifestOf(t)' = ManifestOf(t)
    BY <1>4 DEF DropObject, DropFolder, Without, ManifestOf, MadeFolder, history, CountsAwaited, Idle
  <2> QED BY <1>a, <2>1, CountsWait
<1>5. ASSUME UNCHANGED <<folder, profiles, adopted>>, faults' = 0 => faults = 0,
             \A s \in DOMAIN profiles : CountsAwaited(s) => CountsAwaited(s)'
      PROVE  CountsSettleOrWait'
  BY <1>5 DEF CountsSettleOrWait, CountsAgree, CountOf, ManifestOf, MadeFolder
<1>6. ASSUME NEW u \in Uploads, FinishUpload(u) \/ RefuseUpload(u)
      PROVE  CountsSettleOrWait'
  <2>1. LoopFree /\ UNCHANGED <<folder, profiles, adopted, faults>>
    BY <1>6 DEF FinishUpload, RefuseUpload, history
  <2> QED BY <1>5, <1>a, <2>1
<1>7. ASSUME NEW u \in Uploads, NEW s \in Slugs, NEW role \in Roles, BeginUpload(u, s, role)
      PROVE  CountsSettleOrWait'
  <2>1. LoopFree /\ UNCHANGED <<folder, profiles, adopted, faults>>
    BY <1>7 DEF BeginUpload, history
  <2> QED BY <1>5, <1>a, <2>1
<1>8. ASSUME NEW s \in Slugs, NEW role \in Roles, CommitBatch(s, role)
      PROVE  CountsSettleOrWait'
  <2>1. LoopFree /\ UNCHANGED <<folder, profiles, adopted, faults>>
    BY <1>8 DEF CommitBatch
  <2> QED BY <1>5, <1>a, <2>1
<1>9. ASSUME NEW s \in Slugs, NEW i \in Samples, DeleteSample(s, i)
      PROVE  CountsSettleOrWait'
  <2>1. LoopFree /\ UNCHANGED <<folder, profiles, adopted, faults>>
    BY <1>9 DEF DeleteSample, history
  <2> QED BY <1>5, <1>a, <2>1
<1>10. CASE ThumbRefused \/ NextItem \/ LastItem
  <2>1. UNCHANGED <<folder, profiles, adopted, faults>>
    BY <1>10 DEF ThumbRefused, NextItem, LastItem, history
  <2>2. job'.slug = job.slug /\ job'.saved = job.saved /\ job.step \in {"record", "next"}
    BY <1>0, <1>10 DEF ThumbRefused, NextItem, LastItem, Job
  <2>3. \A s : CountsAwaited(s) => CountsAwaited(s)'
    BY <2>2 DEF CountsAwaited
  <2> QED BY <1>5, <2>1, <2>3
<1>11. CASE WriteFile
  <2>1. PICK e : Becomes(job.slug, e) /\ e.samples = ManifestOf(job.slug)
    BY <1>0, <1>11, WriteFileBecomes DEF ManifestOf
  <2>2. \A s : ManifestOf(s)' = ManifestOf(s)
    BY <2>1, ManifestWhenRewritten
  <2>3. /\ UNCHANGED <<profiles, adopted, faults>> /\ job.step \in Parts
        /\ job'.slug = job.slug /\ job'.saved = job.saved
    BY <1>0, <1>11 DEF WriteFile, history, Job
  <2>4. CountsAwaited(job.slug)' \/ ~CountsAwaited(job.slug)
    BY <2>3 DEF CountsAwaited, Parts
  <2> QED BY <1>a, <2>2, <2>3, <2>4, CountsWait
<1>12. CASE WriteRecord
  <2>1. PICK e : Becomes(job.slug, e)
    BY <1>0, <1>12, WriteRecordBecomes
  <2>2. \A t : t # job.slug => ManifestOf(t)' = ManifestOf(t)
    BY <2>1, ManifestWhenRewritten
  <2>3. UNCHANGED <<profiles, adopted, faults>> /\ job'.slug = job.slug /\ job'.saved
    BY <1>0, <1>12 DEF WriteRecord, Job
  <2> QED BY <1>a, <2>2, <2>3, CountsWait DEF CountsAwaited
<1>13. ASSUME NEW s \in Slugs, NEW i \in Samples, PatchSample(s, i)
       PROVE  CountsSettleOrWait'
  <2>1. PICK e : Becomes(s, e)
    BY <1>0, <1>13, PatchSampleBecomes
  <2>2. \A t : t # s => ManifestOf(t)' = ManifestOf(t)
    BY <2>1, ManifestWhenRewritten
  <2>3. UNCHANGED <<profiles, adopted, faults>> /\ LoopFree /\ CountsAwaited(s)'
    BY <1>13 DEF PatchSample, AfterPatch, history, Idle, CountsAwaited
  <2> QED BY <1>a, <2>2, <2>3, CountsWait
<1>14. CASE MoveFile
  <2>1. PICK e : Becomes(job.slug, e) /\ job.slug \in DOMAIN folder /\ e.samples = folder[job.slug].samples
    BY <1>0, <1>14, MoveFileBecomes
  <2>2. \A s : ManifestOf(s)' = ManifestOf(s)
    BY <1>0, <2>1, ManifestWhenRewritten
  <2>3. UNCHANGED <<profiles, adopted, faults, job>>
    BY <1>14 DEF MoveFile, history
  <2>4. CountsAwaited(job.slug)' \/ ~CountsAwaited(job.slug)
    BY <2>3 DEF CountsAwaited
  <2> QED BY <1>a, <2>2, <2>3, <2>4, CountsWait
<1>15. CASE SaveDeletion
  <2>1. PICK e : Becomes(job.slug, e)
    BY <1>0, <1>15, SaveDeletionBecomes
  <2>2. \A t : t # job.slug => ManifestOf(t)' = ManifestOf(t)
    BY <2>1, ManifestWhenRewritten
  <2>3. UNCHANGED <<profiles, adopted, faults>> /\ \A s : s = job.slug => CountsAwaited(s)'
    BY <1>0, <1>15 DEF SaveDeletion, Job, CountsAwaited
  <2> QED BY <1>a, <2>2, <2>3, CountsWait
<1>16. CASE SyncCounts
  <2>1. UNCHANGED <<folder, adopted, faults>>
    BY <1>16 DEF SyncCounts, history
  <2>2. \A s, role : ManifestOf(s)' = ManifestOf(s) /\ CountOf(s, role)' = CountOf(s, role)
    BY <2>1 DEF CountOf, ManifestOf, MadeFolder
  <2>3. /\ DOMAIN profiles' = DOMAIN profiles
        /\ \A s \in DOMAIN profiles : s # job.slug => profiles'[s] = profiles[s]
        /\ \A s \in DOMAIN profiles : profiles'[s].life = profiles[s].life
        /\ job.slug \in DOMAIN profiles =>
              /\ profiles'[job.slug].positive = CountOf(job.slug, "positive")
              /\ profiles'[job.slug].negative = CountOf(job.slug, "negative")
    BY <1>0, <1>16 DEF SyncCounts, SetCounts, Listed, Profile
  <2> SUFFICES ASSUME faults = 0, NEW s \in DOMAIN profiles', profiles'[s].life \notin adopted'
               PROVE  CountsAgree(s)'
    BY <2>1 DEF CountsSettleOrWait
  <2>4. CASE s = job.slug
    BY <2>2, <2>3, <2>4 DEF CountsAgree
  <2>5. CASE s # job.slug
    <3>1. CountsAgree(s)
      BY <1>a, <2>1, <2>3, <2>5 DEF CountsSettleOrWait
    <3> QED BY <2>2, <2>3, <2>5, <3>1 DEF CountsAgree
  <2> QED BY <2>4, <2>5
<1>17. CASE FileError \/ ServerCrash
  <2>1. faults' # 0
    BY <1>17 DEF FileError, ServerCrash, CutShort, ObjectsInv, ObjectsShape
  <2> QED BY <2>1 DEF CountsSettleOrWait
<1>18. CASE UNCHANGED objectVars
  BY <1>5, <1>18 DEF objectVars, history, CountsAwaited
<1> QED
  BY <1>1, <1>2, <1>3, <1>4, <1>6, <1>7, <1>8, <1>9, <1>10, <1>11, <1>12, <1>13, <1>14, <1>15, <1>16, <1>17, <1>18
     DEF ObjectsNext

---------------------------------------------------------------------------
(* Theorems. *)

ObjectStoreInv == ObjectsInv /\ NothingDestroyed /\ ShownHasImage /\ OnlyLateComeBack /\ CountsSettleOrWait

LEMMA ObjectStoreInvariant == ObjectsSpec => []ObjectStoreInv
<1>1. ObjectsInit => ObjectStoreInv
  <2> SUFFICES ASSUME ObjectsInit PROVE ObjectStoreInv
    OBVIOUS
  <2>1. ObjectsInv
    BY ObjectsInitially
  <2>2. DOMAIN folder = {} /\ DOMAIN profiles = {} /\ DOMAIN moved = {} /\ job.step = "none"
    BY DEF ObjectsInit, Idle
  <2>3. NothingDestroyed /\ ShownHasImage
    BY <2>2 DEF ObjectsInit, NothingDestroyed, ShownHasImage, Folders
  <2>4. OnlyLateComeBack /\ CountsSettleOrWait
    BY <2>2 DEF OnlyLateComeBack, NoPastLives, CountsSettleOrWait, AtFiles
  <2> QED BY <2>1, <2>3, <2>4 DEF ObjectStoreInv
<1>2. ObjectStoreInv /\ [ObjectsNext]_objectVars => ObjectStoreInv'
  BY ObjectsInvStep, NothingDestroyedStep, ShownHasImageStep, OnlyLateStep, CountsStep DEF ObjectStoreInv
<1> QED BY <1>1, <1>2, PTL DEF ObjectsSpec

\* A sample that a manifest has named keeps its record and its two files, in one
\* folder, through every deletion and every crash (objects/samples.py).
THEOREM SamplesAreNeverLost == ObjectsSpec => []NothingDestroyed
<1>1. ObjectStoreInv => NothingDestroyed
  BY DEF ObjectStoreInv
<1> QED BY <1>1, ObjectStoreInvariant, PTL

\* What a profile shows is true: its images are there, its counts are those of its
\* manifest once the handlers rest, and it starts without the samples of a deleted
\* one (objects/registry.py, api/objects.py).
THEOREM ProfilesStayTrue == ObjectsSpec => []ProfilesAreTrue
<1>1. ObjectStoreInv => ProfilesAreTrue
  <2> SUFFICES ASSUME ObjectStoreInv PROVE ProfilesAreTrue
    OBVIOUS
  <2>1. ASSUME LoopFree, faults = 0, NEW s \in DOMAIN profiles, profiles[s].life \notin adopted
        PROVE  CountsAgree(s)
    <3>1. ~CountsAwaited(s)
      BY <2>1 DEF ObjectStoreInv, ObjectsInv, JobIsPlaced, CountsAwaited, LoopFree
    <3> QED BY <2>1, <3>1 DEF ObjectStoreInv, CountsSettleOrWait
  <2>2. CountsSettle
    BY <2>1 DEF CountsSettle, CountsAgree
  <2> QED BY <2>2 DEF ObjectStoreInv, OnlyLateComeBack, ProfilesAreTrue
<1> QED BY <1>1, ObjectStoreInvariant, PTL

---------------------------------------------------------------------------
(* The import of a download, the built data set and the crops of a run.    *)

Crop == [image : Externals, shows : PsClasses, role : CropRoles]
Import == [class : PsClasses, pass : {"positive", "hard"}, todo : SUBSET Externals, seen : SUBSET Externals,
           kept : SUBSET Externals, samples : SUBSET Crop, evals : SUBSET Looks, objects : SUBSET Looks]

ImportShape ==
    /\ look \in [Externals -> Int] /\ evalLooks \subseteq Looks
    /\ owned \subseteq [look : Looks, class : PsClasses, role : CropRoles]
    /\ copying = NoJob \/ copying \in Import
    /\ manifests \in [PsClasses -> [samples : SUBSET Crop, known : SUBSET Looks]]

\* An image is put into the cache of examined images once, by the pass that looks for it.
PassesApart ==
    copying # NoJob =>
        /\ copying.kept \subseteq copying.seen /\ copying.seen \cap copying.todo = {}
        /\ copying.pass = "positive" => \A i \in copying.todo \cup copying.seen : copying.class \in Boxes(i)
        /\ copying.pass = "hard" => \A i \in copying.todo : copying.class \notin Boxes(i)

\* What is kept is told apart from each other and from the evaluation frames.
KeptApart ==
    copying # NoJob =>
        /\ \A i, j \in copying.kept : i # j => ~Alike(look[i], look[j])
        /\ \A i \in copying.kept : ~AlikeAny(look[i], copying.evals)

CropsTrue(samples, c) ==
    \A s \in samples : /\ s.role = "hard_negative" => c \notin Boxes(s.image)
                       /\ s.role = "positive" => s.shows = c

CropsKept == copying # NoJob => CropsTrue(copying.samples, copying.class) /\ \A s \in copying.samples : s.image \in copying.kept

ManifestsTrue == \A c \in PsClasses : CropsTrue(manifests[c].samples, c)

ImportInv ==
    /\ ImportShape /\ PassesApart /\ KeptApart /\ CropsKept
    /\ ManifestsTrue /\ ManifestIsClean /\ TaughtIsTrue /\ StudioKeepsOutEval

LEMMA AlikeIsMutual == ASSUME NEW a \in Int, NEW b \in Int, Alike(a, b) PROVE Alike(b, a)
BY DEF Alike, Distance

LEMMA NoJobIsNone == NoJob \notin Import /\ \A j \in Import : j # NoJob
BY ImportAssumption DEF NoJob, Import

LEMMA ImportInvInit == ImportInit => ImportInv
<1> SUFFICES ASSUME ImportInit
             PROVE  ImportInv
  OBVIOUS
<1>1. /\ evalLooks = {} /\ owned = {} /\ copying = NoJob /\ manifests = [c \in PsClasses |-> NoManifest]
      /\ build = NoBuild /\ taught = {}
  BY DEF ImportInit
<1>2. look \in [Externals -> Int]
  BY ImportAssumption DEF ImportInit
<1>3. NoManifest \in [samples : SUBSET Crop, known : SUBSET Looks] /\ NoManifest.samples = {}
  BY DEF NoManifest
<1>4. \A c \in PsClasses : manifests[c].samples = {}
  BY <1>1, <1>3
<1>5. ImportShape
  BY <1>1, <1>2, <1>3 DEF ImportShape
<1>6. build.step = "none"
  BY <1>1 DEF NoBuild
<1> QED BY <1>1, <1>4, <1>5, <1>6 DEF ImportInv, PassesApart, KeptApart, CropsKept, CropsTrue, ManifestsTrue, ManifestIsClean,
        TaughtIsTrue, StudioKeepsOutEval, Built

\* Frames and samples are added.
LEMMA ImportInvStores == ASSUME ImportInv, AddEvalFrame \/ CommitSample PROVE ImportInv'
<1>1. UNCHANGED <<look, labels, copying, manifests, build, taught>>
  BY DEF AddEvalFrame, CommitSample, Download
<1>2. evalLooks' \subseteq Looks
  BY DEF AddEvalFrame, CommitSample, ImportInv, ImportShape
<1>3. owned' \subseteq [look : Looks, class : PsClasses, role : CropRoles]
  <2>1. CASE AddEvalFrame
    BY <2>1 DEF AddEvalFrame, ImportInv, ImportShape
  <2>2. CASE CommitSample
    <3>1. PICK l \in Looks, c \in PsClasses, r \in CropRoles : owned' = owned \cup {[look |-> l, class |-> c, role |-> r]}
      BY <2>2 DEF CommitSample
    <3> QED BY <3>1 DEF ImportInv, ImportShape
  <2> QED BY <2>1, <2>2
<1>4. \A i : Boxes(i)' = Boxes(i)
  BY <1>1 DEF Boxes
<1> QED BY <1>1, <1>2, <1>3, <1>4 DEF ImportInv, ImportShape, PassesApart, KeptApart, CropsKept, CropsTrue, ManifestsTrue,
        ManifestIsClean, TaughtIsTrue, StudioKeepsOutEval, Built, Boxes

\* Only the import under way changes.
LEMMA OnlyImport ==
    ASSUME ImportInv, UNCHANGED <<manifests, build, taught>>, Download, Stores,
           copying' = NoJob \/ copying' \in Import, PassesApart', KeptApart', CropsKept'
    PROVE  ImportInv'
<1>1. UNCHANGED <<look, labels, evalLooks, owned, manifests, build, taught>>
  BY DEF Download, Stores
<1>2. ImportShape'
  BY <1>1 DEF ImportInv, ImportShape
<1>3. ManifestsTrue' /\ ManifestIsClean' /\ TaughtIsTrue' /\ StudioKeepsOutEval'
  BY <1>1 DEF ImportInv, CropsTrue, ManifestsTrue, ManifestIsClean, TaughtIsTrue, StudioKeepsOutEval, Built, Boxes
<1> QED BY <1>2, <1>3 DEF ImportInv

LEMMA ImportInvStart == ASSUME ImportInv, NEW c \in PsClasses, StartImport(c) PROVE ImportInv'
<1>1. /\ copying' = [class |-> c, pass |-> "positive", todo |-> {i \in Externals : c \in Boxes(i)},
               seen |-> {}, kept |-> {}, samples |-> {},
               evals |-> evalLooks, objects |-> {s.look : s \in owned}]
      /\ UNCHANGED <<manifests, build, taught>> /\ Download /\ Stores
  BY DEF StartImport
<1>2. {s.look : s \in owned} \subseteq Looks /\ evalLooks \subseteq Looks
  BY DEF ImportInv, ImportShape
<1>3. copying' \in Import
  BY <1>1, <1>2 DEF Import
<1>4. /\ copying'.class = c /\ copying'.pass = "positive" /\ copying'.todo = {i \in Externals : c \in Boxes(i)}
      /\ copying'.seen = {} /\ copying'.kept = {} /\ copying'.samples = {}
  BY <1>1
<1>5. \A i \in copying'.todo : copying'.class \in Boxes(i)'
  BY <1>1, <1>4 DEF Boxes, Download
<1>6. PassesApart'
  BY <1>4, <1>5 DEF PassesApart, Boxes
<1>7. KeptApart' /\ CropsKept'
  BY <1>4 DEF KeptApart, CropsKept, CropsTrue
<1> QED BY <1>1, <1>3, <1>6, <1>7, OnlyImport

LEMMA ImportInvExamine == ASSUME ImportInv, ExamineImage PROVE ImportInv'
<1>1. PICK i \in copying.todo :
        \/ i \notin readable /\ copying' = [copying EXCEPT !.todo = @ \ {i}]
        \/ i \in readable /\ Aborts(i) /\ copying' = NoJob
        \/ i \in readable /\ ~Aborts(i) /\ Duplicate(i)
              /\ copying' = [copying EXCEPT !.todo = @ \ {i}, !.seen = @ \cup {i}]
        \/ /\ i \in readable /\ ~Aborts(i) /\ ~Duplicate(i)
           /\ \E boxes \in Taken(i) :
                 copying' = [copying EXCEPT !.todo = @ \ {i}, !.seen = @ \cup {i}, !.kept = @ \cup {i},
                                            !.samples = @ \cup SamplesOf(i, boxes)]
  BY DEF ExamineImage
<1>2. /\ copying # NoJob /\ copying \in Import /\ i \in Externals /\ UNCHANGED <<look, labels, manifests, build, taught>>
      /\ Download /\ Stores /\ PassesApart /\ KeptApart /\ CropsKept
  BY DEF ExamineImage, ImportInv, ImportShape, Import, Download
<1>3. copying.kept \subseteq copying.seen /\ copying.seen \cap copying.todo = {} /\ i \notin copying.seen
  BY <1>1, <1>2 DEF PassesApart
<1>4. CASE copying' = NoJob
  BY <1>2, <1>4, OnlyImport DEF PassesApart, KeptApart, CropsKept
<1>5. CASE copying' = [copying EXCEPT !.todo = @ \ {i}] \/ copying' = [copying EXCEPT !.todo = @ \ {i}, !.seen = @ \cup {i}]
  <2>1. /\ copying' \in Import /\ copying'.class = copying.class /\ copying'.pass = copying.pass /\ copying'.kept = copying.kept
        /\ copying'.samples = copying.samples /\ copying'.evals = copying.evals /\ copying'.todo = copying.todo \ {i}
        /\ copying'.seen \in {copying.seen, copying.seen \cup {i}}
    <3>1. CASE copying' = [copying EXCEPT !.todo = @ \ {i}]
      BY <1>2, <3>1 DEF Import
    <3>2. CASE copying' = [copying EXCEPT !.todo = @ \ {i}, !.seen = @ \cup {i}]
      BY <1>2, <3>2 DEF Import
    <3> QED BY <1>5, <3>1, <3>2
  <2>2. PassesApart'
    BY <1>1, <1>2, <1>3, <2>1 DEF PassesApart, Boxes
  <2>3. KeptApart' /\ CropsKept'
    BY <1>2, <2>1 DEF KeptApart, CropsKept, CropsTrue, Boxes
  <2> QED BY <1>2, <2>1, <2>2, <2>3, OnlyImport
<1>6. CASE /\ ~Aborts(i) /\ ~Duplicate(i)
           /\ \E boxes \in Taken(i) :
                 copying' = [copying EXCEPT !.todo = @ \ {i}, !.seen = @ \cup {i}, !.kept = @ \cup {i},
                                            !.samples = @ \cup SamplesOf(i, boxes)]
  <2>1. PICK boxes \in Taken(i) :
          copying' = [copying EXCEPT !.todo = @ \ {i}, !.seen = @ \cup {i}, !.kept = @ \cup {i}, !.samples = @ \cup SamplesOf(i, boxes)]
    BY <1>6
  <2>2. boxes \subseteq PsClasses /\ (copying.pass = "positive" => boxes \subseteq {copying.class})
    BY <1>2, <2>1 DEF Taken, Collected, Import
  <2>3. \A s \in SamplesOf(i, boxes) :
          /\ s \in Crop /\ s.image = i
          /\ s.role = "hard_negative" => copying.pass = "hard"
          /\ s.role = "positive" => s.shows = copying.class
    <3> SUFFICES ASSUME NEW b \in boxes, NEW s,
                        s = [image |-> i, shows |-> b, role |-> IF copying.pass = "positive" THEN "positive" ELSE "hard_negative"]
                 PROVE  /\ s \in Crop /\ s.image = i
                        /\ s.role = "hard_negative" => copying.pass = "hard"
                        /\ s.role = "positive" => s.shows = copying.class
      BY DEF SamplesOf
    <3>1. copying.pass \in {"positive", "hard"}
      BY <1>2 DEF Import
    <3>2. CASE copying.pass = "positive"
      BY <1>2, <2>2, <3>2 DEF Crop, CropRoles
    <3>3. CASE copying.pass = "hard"
      BY <1>2, <2>2, <3>3 DEF Crop, CropRoles
    <3> QED BY <3>1, <3>2, <3>3
  <2>4. SamplesOf(i, boxes) \subseteq Crop
    BY <2>3
  <2> DEFINE more == SamplesOf(i, boxes)
  <2> HIDE DEF more
  <2>5. copying' = [copying EXCEPT !.todo = @ \ {i}, !.seen = @ \cup {i}, !.kept = @ \cup {i}, !.samples = @ \cup more]
        /\ more \subseteq Crop
    BY <2>1, <2>4 DEF more
  <2>6. /\ copying' \in Import /\ copying'.class = copying.class /\ copying'.pass = copying.pass /\ copying'.kept = copying.kept \cup {i}
        /\ copying'.samples = copying.samples \cup more /\ copying'.evals = copying.evals /\ copying'.todo = copying.todo \ {i}
        /\ copying'.seen = copying.seen \cup {i}
    BY <1>2, <2>5 DEF Import
  <2>7. PassesApart'
    BY <1>1, <1>2, <1>3, <2>6 DEF PassesApart, Boxes
  <2>8. ~AlikeAny(look[i], copying.evals) /\ \A k \in copying.kept : ~Alike(look[i], look[k])
    BY <1>3, <1>6 DEF Aborts, Duplicate, AlikeAny
  <2>9. \A k \in copying.kept : ~Alike(look[k], look[i])
    <3>1. \A k \in copying.kept : look[k] \in Int /\ look[i] \in Int
      BY <1>2 DEF ImportInv, ImportShape, Import
    <3> QED BY <2>8, <3>1, AlikeIsMutual
  <2>10. KeptApart'
    BY <1>2, <2>6, <2>8, <2>9 DEF KeptApart, AlikeAny
  <2>11. CropsKept'
    <3>1. \A s \in more : s.image = i /\ (s.role = "hard_negative" => copying.class \notin Boxes(i)) /\ (s.role = "positive" => s.shows = copying.class)
      BY <1>1, <1>2, <2>3 DEF more, PassesApart
    <3> QED BY <1>2, <2>6, <3>1 DEF CropsKept, CropsTrue, Boxes
  <2> QED BY <1>2, <2>6, <2>7, <2>10, <2>11, OnlyImport
<1> QED BY <1>1, <1>4, <1>5, <1>6

LEMMA ImportInvHard == ASSUME ImportInv, StartHardNegatives PROVE ImportInv'
<1> DEFINE more == First(HardImages(copying.class), HardLimit)
<1>1. more \subseteq Externals /\ \A i \in more : copying.class \notin Boxes(i)
  BY DEF First, HardImages
<1> HIDE DEF more
<1>2. /\ copying # NoJob /\ copying \in Import /\ copying.pass = "positive" /\ copying.todo = {}
      /\ copying' = [copying EXCEPT !.pass = "hard", !.todo = more]
      /\ UNCHANGED <<look, labels, manifests, build, taught>> /\ Download /\ Stores
  BY DEF StartHardNegatives, ImportInv, ImportShape, more, Download
<1>3. /\ copying' \in Import /\ copying'.class = copying.class /\ copying'.pass = "hard" /\ copying'.kept = copying.kept
      /\ copying'.samples = copying.samples /\ copying'.evals = copying.evals /\ copying'.todo = more /\ copying'.seen = copying.seen
  BY <1>1, <1>2 DEF Import
<1>4. PassesApart'
  <2>1. copying.seen \cap more = {}
    BY <1>1, <1>2 DEF ImportInv, PassesApart
  <2> QED BY <1>1, <1>2, <1>3, <2>1 DEF ImportInv, PassesApart, Boxes
<1>5. KeptApart' /\ CropsKept'
  BY <1>2, <1>3 DEF ImportInv, KeptApart, CropsKept, CropsTrue, Boxes
<1> QED BY <1>2, <1>3, <1>4, <1>5, OnlyImport

LEMMA ImportInvWrite == ASSUME ImportInv, WriteManifest PROVE ImportInv'
<1>1. /\ copying # NoJob /\ copying \in Import /\ copying' = NoJob
      /\ manifests' = [manifests EXCEPT ![copying.class] = [samples |-> copying.samples, known |-> copying.evals]]
      /\ UNCHANGED <<look, labels, evalLooks, owned, build, taught>>
  BY DEF WriteManifest, ImportInv, ImportShape, Download, Stores
<1>2. [samples |-> copying.samples, known |-> copying.evals] \in [samples : SUBSET Crop, known : SUBSET Looks]
      /\ copying.class \in PsClasses
  BY <1>1 DEF Import
<1>3. /\ manifests' \in [PsClasses -> [samples : SUBSET Crop, known : SUBSET Looks]]
      /\ manifests'[copying.class].samples = copying.samples /\ manifests'[copying.class].known = copying.evals
      /\ \A c \in PsClasses : c # copying.class => manifests'[c] = manifests[c]
  BY <1>1, <1>2 DEF ImportInv, ImportShape
<1>4. ImportShape'
  BY <1>1, <1>3 DEF ImportInv, ImportShape
<1>5. PassesApart' /\ KeptApart' /\ CropsKept'
  BY <1>1 DEF PassesApart, KeptApart, CropsKept
<1>6. ManifestsTrue'
  BY <1>1, <1>3 DEF ImportInv, CropsKept, CropsTrue, ManifestsTrue, Boxes
<1>7. ManifestIsClean'
  <2> SUFFICES ASSUME NEW c \in PsClasses
               PROVE  /\ \A s, t \in manifests'[c].samples : s.image /= t.image => ~Alike(look[s.image], look[t.image])
                      /\ \A s \in manifests'[c].samples : ~AlikeAny(look[s.image], manifests'[c].known)
                      /\ \A s \in manifests'[c].samples : s.role = "hard_negative" => c \notin Boxes(s.image)
    BY <1>1 DEF ManifestIsClean, Boxes
  <2>1. CASE c = copying.class
    BY <1>1, <1>3, <2>1 DEF ImportInv, CropsKept, CropsTrue, KeptApart
  <2>2. CASE c # copying.class
    BY <1>3, <2>2 DEF ImportInv, ManifestIsClean
  <2> QED BY <2>1, <2>2
<1>8. TaughtIsTrue' /\ StudioKeepsOutEval'
  BY <1>1 DEF ImportInv, TaughtIsTrue, StudioKeepsOutEval, Built
<1> QED BY <1>4, <1>5, <1>6, <1>7, <1>8 DEF ImportInv

LEMMA ImportInvBuild == ASSUME ImportInv, CollectRecords \/ CheckCollisions PROVE ImportInv'
<1>1. UNCHANGED <<look, labels, evalLooks, owned, copying, manifests, taught>>
  BY DEF CollectRecords, CheckCollisions, Download, Stores
<1>2. StudioKeepsOutEval'
  <2>1. CASE CollectRecords
    <3>1. build'.step = "collected"
      BY <2>1 DEF CollectRecords
    <3> QED BY <3>1 DEF StudioKeepsOutEval, Built
  <2>2. CASE CheckCollisions
    <3>1. /\ build' = [build EXCEPT !.step = IF Collides(build) THEN "aborted" ELSE "built", !.checked = evalLooks]
          /\ build.step = "collected"
      BY <2>2 DEF CheckCollisions
    <3>2. build'.step = "built" => /\ ~Collides(build) /\ build'.external = build.external /\ build'.own = build.own
                                   /\ build'.checked = evalLooks
      BY <3>1
    <3> QED BY <1>1, <3>2 DEF StudioKeepsOutEval, Built, Collides
  <2> QED BY <2>1, <2>2
<1> QED BY <1>1, <1>2 DEF ImportInv, ImportShape, PassesApart, KeptApart, CropsKept, CropsTrue, ManifestsTrue,
        ManifestIsClean, TaughtIsTrue, Boxes

LEMMA ImportInvTrain == ASSUME ImportInv, Train PROVE ImportInv'
<1>1. UNCHANGED <<look, labels, evalLooks, owned, copying, manifests, build>>
  BY DEF Train, Download, Stores
<1>2. \A c \in PsClasses : \A r \in CropsOf(c) : r.role = "positive" => r.shows = r.class
  BY DEF CropsOf, ImportInv, ManifestsTrue, CropsTrue
<1>3. TaughtIsTrue'
  BY <1>2 DEF Train, Positives, TaughtIsTrue
<1> QED BY <1>1, <1>3 DEF ImportInv, ImportShape, PassesApart, KeptApart, CropsKept, CropsTrue, ManifestsTrue,
        ManifestIsClean, StudioKeepsOutEval, Built, Boxes

LEMMA ImportInvStep == ImportInv /\ [ImportNext]_importVars => ImportInv'
<1> SUFFICES ASSUME ImportInv, [ImportNext]_importVars
             PROVE  ImportInv'
  OBVIOUS
<1>1. CASE UNCHANGED importVars
  BY <1>1 DEF importVars, ImportInv, ImportShape, PassesApart, KeptApart, CropsKept, CropsTrue, ManifestsTrue,
        ManifestIsClean, TaughtIsTrue, StudioKeepsOutEval, Built, Boxes
<1>2. CASE ImportNext
  BY <1>2, ImportInvStores, ImportInvStart, ImportInvExamine, ImportInvHard, ImportInvWrite, ImportInvBuild, ImportInvTrain
     DEF ImportNext
<1> QED BY <1>1, <1>2

\* From the download to the crops and the built set: no manifest holds two near-duplicates,
\* or one of an evaluation frame known at its import, or a hard negative that shows the
\* class; nothing is taught under the name of another class; and a built set holds no copy
\* of an evaluation frame it was checked against.
THEOREM DataSetsStayClean == ImportSpec => []DataSetsAreClean
<1>1. ImportInv => DataSetsAreClean
  BY DEF ImportInv, DataSetsAreClean
<1> QED BY <1>1, ImportInvInit, ImportInvStep, PTL DEF ImportSpec

---------------------------------------------------------------------------
(* The figures: what the reports are of, for any dealing, labels and       *)
(* rounds.                                                                 *)

ContentHashes == [notes : {<< >>} \cup [Shots -> Revisions], val : SUBSET SessionIds, test : SUBSET SessionIds]
SplitDocs == [val : SUBSET Shots, test : SUBSET Shots, hash : ContentHashes]
Fits == [on : SUBSET Shots, hash : ContentHashes]
Tools == [does : {"none", "build", "fit", "eval"}, at : {"none", "start", "dealt", "logging", "opened", "loaded", "ran"},
          split : {"none", "val", "test"}, reopen : BOOLEAN, by : Fits, prior : Nat, doc : SplitDocs, labelled : SUBSET Shots]
Reports == [split : {"none", "val", "test"}, images : SUBSET Shots, rest : SUBSET Shots,
            labelled : SUBSET Shots, hash : ContentHashes, by : Fits]

EvaluationShape ==
    /\ deal \in Deals /\ notes \in [Shots -> Revisions]
    /\ splitDoc \in SplitDocs /\ thresholds \in Fits /\ fitted \in Fits
    /\ tool \in Tools /\ report \in Reports
    /\ {openings, looks, reopenedLooks, cutLogs} \subseteq Nat

\* The two sides a hash speaks of, and the frames that were labelled then.
Apart(h) == h.val \cap h.test = {}
LabelledIn(n) == {i \in Shots : n[i] # 0}

\* A split file says of its two sides what its hash says, and they are whole.
DocSound(f) ==
    /\ f.hash.val = SessionsOn(f.val) /\ f.hash.test = SessionsOn(f.test) /\ Apart(f.hash)
    /\ f # NoDoc => f.val \cup f.test = LabelledIn(f.hash.notes)

\* Thresholds were fitted on the val side of the split they name.
FitSound(x) == SessionsOn(x.on) = x.hash.val

Reads == tool.at \in {"loaded", "ran"}
ToolSound ==
    /\ DocSound(tool.doc) /\ FitSound(tool.by)
    /\ tool.at = "dealt" => tool.doc # NoDoc
    /\ tool.does = "fit" => tool.split = "val"
    /\ tool.does = "eval" => tool.split \in {"val", "test"}
    /\ Reads => /\ tool.does \in {"fit", "eval"}
                /\ tool.doc[tool.split] # {}
                /\ tool.doc.val \cup tool.doc.test = tool.labelled

FilesSound == DocSound(splitDoc) /\ FitSound(thresholds) /\ FitSound(fitted)

ReportSound ==
    report # NoReport =>
        /\ report.split \in {"val", "test"}
        /\ report.images # {} /\ report.images \cup report.rest = report.labelled
        /\ SessionsOn(report.images) = report.hash[report.split]
        /\ report.split = "val" => SessionsOn(report.rest) = report.hash.test
        /\ report.split = "test" => SessionsOn(report.rest) = report.hash.val
        /\ Apart(report.hash) /\ FitSound(report.by)

\* A script that has opened test and not yet run it.
Opened == tool.does = "eval" /\ tool.split = "test" /\ tool.at \in {"opened", "loaded"}
Pending == IF Opened THEN 1 ELSE 0

\* The rows of the log, while it is being written those that were read.
Rows == IF tool.at = "logging" THEN tool.prior ELSE openings

\* The times test is run by right, the one that is about to be with them.
ByRight == looks + IF Opened /\ ~tool.reopen THEN 1 ELSE 0

\* An empty log has been cut as often as test was run by right: whoever finds it
\* empty may run it again.
OpeningsSound ==
    /\ cutLogs = 0 => looks + reopenedLooks + Pending <= Rows
    /\ ByRight <= 1 + cutLogs
    /\ Rows = 0 => ByRight <= cutLogs
    /\ tool.at = "logging" => /\ tool.does = "eval" /\ tool.split = "test"
                              /\ ~tool.reopen => tool.prior = 0

EvaluationInv == EvaluationShape /\ FilesSound /\ ToolSound /\ ReportSound /\ OpeningsSound

---------------------------------------------------------------------------
LEMMA SessionsAreKnown ==
    ASSUME NEW S \in SUBSET Shots
    PROVE  SessionsOn(S) \in SUBSET SessionIds
  BY DEF SessionsOn, SessionIds

LEMMA NothingHasNoSession == SessionsOn({}) = {}
  BY DEF SessionsOn

LEMMA NothingIsSound ==
    /\ DocSound(NoDoc) /\ FitSound(Unfitted)
    /\ NoDoc \in SplitDocs /\ Unfitted \in Fits /\ NoTool \in Tools /\ NoReport \in Reports
  <1> USE NothingHasNoSession
  <1>1. NoHash \in ContentHashes
    BY DEF NoHash, ContentHashes
  <1>2. NoDoc \in SplitDocs /\ Unfitted \in Fits
    BY <1>1 DEF NoDoc, SplitDocs, Unfitted, Fits
  <1>3. NoTool \in Tools /\ NoReport \in Reports
    BY <1>1, <1>2 DEF NoTool, Tools, NoReport, Reports
  <1>4. DocSound(NoDoc) /\ FitSound(Unfitted)
    BY DEF DocSound, FitSound, NoDoc, NoHash, Unfitted, Apart
  <1>5. QED
    BY <1>2, <1>3, <1>4

\* What the split builder deals is sound: whole sessions, and all that is labelled.
LEMMA DealtBySession ==
    ASSUME EvaluationAssumption, EvaluationShape
    PROVE  BySession \in SplitDocs /\ DocSound(BySession)
  <1> DEFINE S == SessionsOn(LabelledShots)
             val == {i \in LabelledShots : SessionOf[i] \in deal[S]}
             test == LabelledShots \ val
  <1>1. LabelledShots \in SUBSET Shots /\ val \in SUBSET Shots /\ test \in SUBSET Shots
    BY DEF LabelledShots
  <1>2. SessionsOn(val) \cap SessionsOn(test) = {}
    BY <1>1 DEF SessionsOn
  <1>3. ContentHash(val, test) \in ContentHashes
    BY <1>1, SessionsAreKnown DEF ContentHash, ContentHashes, EvaluationShape
  <1>4. BySession = [val |-> val, test |-> test, hash |-> ContentHash(val, test)]
    BY DEF BySession
  <1>5. val \cup test = LabelledIn(notes)
    BY DEF LabelledIn, LabelledShots
  <1> HIDE DEF val, test
  <1>6. BySession \in SplitDocs
    BY <1>1, <1>3, <1>4 DEF SplitDocs
  <1>7. BySession.hash.notes = notes /\ BySession.hash.val = SessionsOn(val) /\ BySession.hash.test = SessionsOn(test)
    BY <1>4 DEF ContentHash
  <1>8. QED
    BY <1>2, <1>4, <1>5, <1>6, <1>7 DEF DocSound, Apart

LEMMA EvaluationInitHolds ==
    ASSUME EvaluationAssumption, EvaluationInit
    PROVE  EvaluationInv
  <1>1. EvaluationShape /\ FilesSound
    BY NothingIsSound DEF EvaluationInit, EvaluationShape, FilesSound
  <1>2. ToolSound
    BY NothingIsSound DEF EvaluationInit, NoTool, ToolSound, Reads
  <1>3. ReportSound
    BY DEF EvaluationInit, ReportSound
  <1>4. ~Opened /\ looks = 0 /\ reopenedLooks = 0 /\ openings = 0 /\ cutLogs = 0 /\ tool.at # "logging"
    BY DEF EvaluationInit, Opened, NoTool
  <1>5. OpeningsSound
    BY <1>4 DEF OpeningsSound, Pending, Rows, ByRight
  <1>6. QED
    BY <1>1, <1>2, <1>3, <1>5 DEF EvaluationInv

---------------------------------------------------------------------------
(* The parts that only some steps touch.                                   *)

LEMMA FilesStay ==
    ASSUME EvaluationInv, UNCHANGED <<splitDoc, thresholds, fitted>>
    PROVE  FilesSound'
  BY DEF EvaluationInv, FilesSound, DocSound, FitSound, SessionsOn, LabelledIn, Apart

LEMMA ReportStays ==
    ASSUME EvaluationInv, UNCHANGED report
    PROVE  ReportSound'
  BY DEF EvaluationInv, ReportSound, FitSound, SessionsOn, Apart

\* A script that ends.
LEMMA EndIsSound ==
    ASSUME EvaluationInv, Finishes, UNCHANGED <<looks, reopenedLooks>>,
           \/ tool.at # "logging" /\ UNCHANGED <<openings, cutLogs>>
           \/ tool.at = "logging" /\ openings' \in Nat /\ cutLogs' = cutLogs + 1
    PROVE  tool' \in Tools /\ ToolSound' /\ OpeningsSound'
  <1>1. tool' = NoTool
    BY DEF Finishes
  <1>2. tool'.at = "none" /\ tool'.does = "none" /\ tool'.doc = NoDoc /\ tool'.by = Unfitted
    BY <1>1 DEF NoTool
  <1>3. ToolSound'
    BY <1>2, NothingIsSound DEF ToolSound, Reads, DocSound, FitSound, SessionsOn, LabelledIn, Apart
  <1>4. ~Opened' /\ Pending' = 0 /\ ByRight' = looks /\ Rows' = openings'
    BY <1>2 DEF Pending, Opened, ByRight, Rows, EvaluationInv, EvaluationShape
  <1>5. Pending \in {0, 1} /\ ByRight \in {looks, looks + 1}
    BY DEF Pending, ByRight, EvaluationInv, EvaluationShape
  <1>6. OpeningsSound'
    <2>1. CASE tool.at # "logging" /\ UNCHANGED <<openings, cutLogs>>
      BY <1>2, <1>4, <1>5, <2>1 DEF OpeningsSound, Rows, EvaluationInv, EvaluationShape
    <2>2. CASE tool.at = "logging" /\ openings' \in Nat /\ cutLogs' = cutLogs + 1
      BY <1>2, <1>4, <1>5, <2>2 DEF OpeningsSound, EvaluationInv, EvaluationShape
    <2>3. QED
      BY <2>1, <2>2
  <1>7. QED
    BY <1>1, <1>3, <1>6, NothingIsSound

\* A script that starts.
LEMMA StartIsSound ==
    ASSUME EvaluationInv, NEW does \in {"build", "fit", "eval"}, NEW split \in {"none", "val", "test"},
           NEW reopen \in BOOLEAN, NEW by \in Fits, FitSound(by), Starts(does, split, reopen, by),
           does = "fit" => split = "val", does = "eval" => split \in {"val", "test"},
           UNCHANGED <<openings, looks, reopenedLooks, cutLogs>>
    PROVE  tool' \in Tools /\ ToolSound' /\ OpeningsSound'
  <1>1. tool' = [NoTool EXCEPT !.does = does, !.at = "start", !.split = split, !.reopen = reopen, !.by = by]
    BY DEF Starts
  <1>2. tool' \in Tools
    BY <1>1, NothingIsSound DEF Tools
  <1>3. tool'.at = "start" /\ tool'.does = does /\ tool'.split = split /\ tool'.doc = NoDoc /\ tool'.by = by
    BY <1>1 DEF NoTool
  <1>4. ToolSound'
    BY <1>3, NothingIsSound DEF ToolSound, Reads, DocSound, FitSound, SessionsOn, LabelledIn, Apart
  <1>5. ~Opened' /\ Pending' = 0 /\ ByRight' = looks /\ Rows' = openings
    BY <1>3 DEF Pending, Opened, ByRight, Rows, EvaluationInv, EvaluationShape
  <1>6. ~Opened /\ Pending = 0 /\ ByRight = looks /\ Rows = openings
    BY DEF Starts, NoTool, Pending, Opened, ByRight, Rows, EvaluationInv, EvaluationShape
  <1>7. OpeningsSound'
    BY <1>3, <1>5, <1>6 DEF OpeningsSound, EvaluationInv, EvaluationShape
  <1>8. QED
    BY <1>2, <1>4, <1>7

\* A script that reads the split it is to measure on.
LEMMA LoadIsSound ==
    ASSUME EvaluationInv, LoadSplit, tool.does \in {"fit", "eval"},
           tool.does = "eval" /\ tool.split = "test" => tool.at = "opened", tool.at \in {"start", "opened"}
    PROVE  tool' \in Tools /\ ToolSound' /\ OpeningsSound'
  <1>1. CASE Finishes
    BY <1>1, EndIsSound DEF LoadSplit
  <1>2. CASE /\ MayLoad(splitDoc) /\ Selectable(splitDoc[tool.split])
             /\ tool' = [tool EXCEPT !.at = "loaded", !.doc = splitDoc, !.labelled = LabelledShots]
    <2>1. LabelledShots \in SUBSET Shots
      BY DEF LabelledShots
    <2>2. tool' \in Tools
      BY <1>2, <2>1 DEF Tools, EvaluationInv, EvaluationShape
    <2>3. /\ tool'.at = "loaded" /\ tool'.doc = splitDoc /\ tool'.labelled = LabelledShots
          /\ tool'.does = tool.does /\ tool'.split = tool.split /\ tool'.by = tool.by /\ tool'.reopen = tool.reopen
      BY <1>2 DEF Tools, EvaluationInv, EvaluationShape
    <2>4. splitDoc.hash.notes = notes /\ splitDoc # NoDoc
      BY <1>2 DEF MayLoad, HashFits, ContentHash
    <2>5. splitDoc.val \cup splitDoc.test = LabelledShots
      BY <2>4 DEF EvaluationInv, FilesSound, DocSound, LabelledIn, LabelledShots
    <2>6. splitDoc[tool.split] # {}
      BY <1>2 DEF Selectable
    <2>7. DocSound(splitDoc) /\ FitSound(tool.by)
      BY DEF EvaluationInv, FilesSound, ToolSound
    <2>8. ToolSound'
      BY <2>3, <2>5, <2>6, <2>7 DEF ToolSound, Reads, EvaluationInv, DocSound, FitSound, SessionsOn, LabelledIn, Apart
    <2>9. Opened' <=> Opened
      BY <2>3 DEF Opened
    <2>10. OpeningsSound'
      BY <2>3, <2>9 DEF OpeningsSound, Pending, ByRight, Rows, LoadSplit, EvaluationInv
    <2>11. QED
      BY <2>2, <2>8, <2>10
  <1>3. QED
    BY <1>1, <1>2 DEF LoadSplit

\* Frames that do not change keep their type.
LEMMA ShapeOf ==
    ASSUME EvaluationInv, tool' \in Tools,
           UNCHANGED <<deal, notes, splitDoc, thresholds, fitted, report>>,
           openings' \in Nat, looks' \in Nat, reopenedLooks' \in Nat, cutLogs' \in Nat
    PROVE  EvaluationShape'
  BY DEF EvaluationInv, EvaluationShape

LEMMA EvaluationStep ==
    ASSUME EvaluationAssumption, EvaluationInv, [EvaluationNext]_evaluationVars
    PROVE  EvaluationInv'
  <1> USE DEF EvaluationInv
  <1>1. CASE StartSplit
    <2>1. FitSound(Unfitted) /\ Unfitted \in Fits
      BY NothingIsSound
    <2>2. tool' \in Tools /\ ToolSound' /\ OpeningsSound'
      BY <1>1, <2>1, StartIsSound DEF StartSplit
    <2>3. QED
      BY <1>1, <2>2, FilesStay, ReportStays, ShapeOf DEF StartSplit, EvaluationShape
  <1>2. CASE DealShots
    <2>1. CASE Finishes
      BY <1>2, <2>1, EndIsSound, FilesStay, ReportStays, ShapeOf DEF DealShots, Doing, EvaluationShape
    <2>2. CASE tool' = [tool EXCEPT !.at = "dealt", !.doc = BySession] /\ LabelledShots # {}
      <3>1. BySession \in SplitDocs /\ DocSound(BySession)
        BY DealtBySession
      <3>2. tool' \in Tools
        BY <2>2, <3>1 DEF Tools, EvaluationShape
      <3>3. /\ tool'.at = "dealt" /\ tool'.doc = BySession /\ tool'.does = tool.does /\ tool'.split = tool.split
            /\ tool'.by = tool.by
        BY <2>2 DEF Tools, EvaluationShape
      <3>4. tool.does = "build"
        BY <1>2 DEF DealShots, Doing
      <3>5. BySession # NoDoc
        <4>1. BySession.val \cup BySession.test = LabelledShots
          BY DEF BySession
        <4>2. NoDoc.val \cup NoDoc.test = {}
          BY DEF NoDoc
        <4>3. QED
          BY <2>2, <4>1, <4>2
      <3>6. ToolSound'
        BY <3>1, <3>3, <3>4, <3>5 DEF ToolSound, Reads, DocSound, FitSound, SessionsOn, LabelledIn, Apart
      <3>7. ~Opened' /\ ~Opened
        BY <3>3, <3>4 DEF Opened
      <3>8. OpeningsSound'
        BY <1>2, <3>3, <3>7 DEF DealShots, Doing, OpeningsSound, Pending, ByRight, Rows
      <3>9. QED
        BY <1>2, <3>2, <3>6, <3>8, FilesStay, ReportStays, ShapeOf DEF DealShots, EvaluationShape
    <2>3. QED
      BY <1>2, <2>1, <2>2 DEF DealShots
  <1>3. CASE SaveSplits
    <2>1. tool' \in Tools /\ ToolSound' /\ OpeningsSound'
      BY <1>3, EndIsSound DEF SaveSplits, Doing
    <2>2. splitDoc' = tool.doc /\ tool.doc \in SplitDocs
      BY <1>3 DEF SaveSplits, EvaluationShape, Tools
    <2>3. FilesSound'
      BY <1>3, <2>2 DEF SaveSplits, FilesSound, ToolSound, DocSound, FitSound, SessionsOn, LabelledIn, Apart
    <2>4. EvaluationShape'
      BY <1>3, <2>1, <2>2 DEF SaveSplits, EvaluationShape
    <2>5. QED
      BY <1>3, <2>1, <2>3, <2>4, ReportStays DEF SaveSplits
  <1>4. CASE StartFit
    <2>1. FitSound(Unfitted) /\ Unfitted \in Fits
      BY NothingIsSound
    <2>2. tool' \in Tools /\ ToolSound' /\ OpeningsSound'
      BY <1>4, <2>1, StartIsSound DEF StartFit
    <2>3. QED
      BY <1>4, <2>2, FilesStay, ReportStays, ShapeOf DEF StartFit, EvaluationShape
  <1>5. CASE LoadForFit
    <2>1. tool' \in Tools /\ ToolSound' /\ OpeningsSound'
      BY <1>5, LoadIsSound DEF LoadForFit, Doing
    <2>2. QED
      BY <1>5, <2>1, FilesStay, ReportStays, ShapeOf DEF LoadForFit, LoadSplit, EvaluationShape
  <1>6. CASE WriteFit
    <2>1. tool' \in Tools /\ ToolSound' /\ OpeningsSound'
      BY <1>6, EndIsSound DEF WriteFit, Doing
    <2>2. tool.split = "val" /\ tool.doc \in SplitDocs
      BY <1>6 DEF WriteFit, Doing, ToolSound, EvaluationShape, Tools
    <2>3. fitted' = [on |-> tool.doc.val, hash |-> tool.doc.hash]
      BY <1>6, <2>2 DEF WriteFit
    <2>4. fitted' \in Fits
      BY <2>2, <2>3 DEF Fits, SplitDocs
    <2>5. FitSound(fitted')
      BY <2>3 DEF FitSound, ToolSound, DocSound
    <2>6. FilesSound'
      BY <1>6, <2>5 DEF WriteFit, FilesSound, DocSound, FitSound, SessionsOn, LabelledIn, Apart
    <2>7. EvaluationShape'
      BY <1>6, <2>1, <2>4 DEF WriteFit, EvaluationShape
    <2>8. QED
      BY <1>6, <2>1, <2>6, <2>7, ReportStays DEF WriteFit
  <1>7. CASE PasteThresholds
    <2>1. FilesSound'
      BY <1>7 DEF PasteThresholds, FilesSound, DocSound, FitSound, SessionsOn, LabelledIn, Apart
    <2>2. EvaluationShape'
      BY <1>7 DEF PasteThresholds, EvaluationShape
    <2>3. ToolSound' /\ OpeningsSound'
      BY <1>7 DEF PasteThresholds, ToolSound, Reads, DocSound, FitSound, SessionsOn, LabelledIn, Apart,
                  OpeningsSound, Pending, Opened, ByRight, Rows
    <2>4. QED
      BY <1>7, <2>1, <2>2, <2>3, ReportStays DEF PasteThresholds
  <1>8. CASE StartEval
    <2>1. PICK split \in {"val", "test"}, reopen \in BOOLEAN, by \in {thresholds, Unfitted} :
            Starts("eval", split, reopen, by)
      BY <1>8 DEF StartEval
    <2>2. by \in Fits /\ FitSound(by)
      BY NothingIsSound DEF EvaluationShape, FilesSound
    <2>3. tool' \in Tools /\ ToolSound' /\ OpeningsSound'
      BY <1>8, <2>1, <2>2, StartIsSound DEF StartEval
    <2>4. QED
      BY <1>8, <2>3, FilesStay, ReportStays, ShapeOf DEF StartEval, EvaluationShape
  <1>9. CASE LogTestOpening
    <2>0. tool.at = "start" /\ tool.does = "eval" /\ tool.split = "test"
          /\ UNCHANGED <<looks, reopenedLooks, cutLogs>>
      BY <1>9 DEF LogTestOpening, Doing
    <2>1. CASE MayOpen /\ openings' = 0 /\ tool' = [tool EXCEPT !.at = "logging", !.prior = openings]
      <3>1. /\ tool' \in Tools /\ tool'.at = "logging" /\ tool'.does = "eval" /\ tool'.split = "test"
            /\ tool'.doc = tool.doc /\ tool'.by = tool.by /\ tool'.reopen = tool.reopen /\ tool'.prior = openings
        BY <2>0, <2>1 DEF EvaluationShape, Tools
      <3>2. ToolSound'
        BY <3>1 DEF ToolSound, Reads, DocSound, FitSound, SessionsOn, LabelledIn, Apart
      <3>3. ~Opened /\ ~Opened' /\ Rows = openings /\ Rows' = openings
        BY <2>0, <3>1 DEF Opened, Rows
      <3>4. ~tool.reopen => openings = 0
        BY <2>1 DEF MayOpen
      <3>5. OpeningsSound'
        BY <2>0, <3>1, <3>3, <3>4 DEF OpeningsSound, Pending, ByRight, EvaluationShape
      <3>6. EvaluationShape'
        BY <1>9, <2>1, <3>1 DEF LogTestOpening, EvaluationShape
      <3>7. QED
        BY <1>9, <3>2, <3>5, <3>6, FilesStay, ReportStays DEF LogTestOpening
    <2>2. CASE Finishes /\ UNCHANGED openings
      BY <1>9, <2>0, <2>2, EndIsSound, FilesStay, ReportStays, ShapeOf DEF LogTestOpening, EvaluationShape
    <2>3. QED
      BY <1>9, <2>1, <2>2 DEF LogTestOpening
  <1>w. CASE WriteTestLog
    <2>1. /\ tool.at = "logging" /\ openings' = tool.prior + 1 /\ tool' = [tool EXCEPT !.at = "opened"]
          /\ UNCHANGED <<looks, reopenedLooks, cutLogs>>
      BY <1>w DEF WriteTestLog, Doing, Advances
    <2>2. /\ tool' \in Tools /\ tool'.at = "opened" /\ tool'.does = tool.does /\ tool'.split = tool.split
          /\ tool'.doc = tool.doc /\ tool'.by = tool.by /\ tool'.reopen = tool.reopen /\ tool.prior \in Nat
      BY <2>1 DEF EvaluationShape, Tools
    <2>3. ToolSound'
      BY <2>2 DEF ToolSound, Reads, DocSound, FitSound, SessionsOn, LabelledIn, Apart
    <2>4. ~Opened /\ Rows = tool.prior /\ Rows' = tool.prior + 1
      BY <2>1, <2>2 DEF Opened, Rows
    <2>5. OpeningsSound'
      BY <2>1, <2>2, <2>4 DEF OpeningsSound, Pending, ByRight, EvaluationShape
    <2>6. EvaluationShape'
      BY <1>w, <2>1, <2>2 DEF WriteTestLog, EvaluationShape
    <2>7. QED
      BY <1>w, <2>3, <2>5, <2>6, FilesStay, ReportStays DEF WriteTestLog
  <1>10. CASE LoadForEval
    <2>1. tool' \in Tools /\ ToolSound' /\ OpeningsSound'
      BY <1>10, LoadIsSound DEF LoadForEval, Doing
    <2>2. QED
      BY <1>10, <2>1, FilesStay, ReportStays, ShapeOf DEF LoadForEval, LoadSplit, EvaluationShape
  <1>11. CASE RunPredictions
    <2>1. /\ tool' \in Tools /\ tool'.at = "ran" /\ tool'.does = "eval" /\ tool'.split = tool.split
          /\ tool'.doc = tool.doc /\ tool'.by = tool.by /\ tool'.labelled = tool.labelled
      BY <1>11 DEF RunPredictions, Doing, Advances, EvaluationShape, Tools
    <2>2. tool.at = "loaded" /\ tool.does = "eval"
      BY <1>11 DEF RunPredictions, Doing
    <2>3. ToolSound'
      BY <2>1, <2>2 DEF ToolSound, Reads, DocSound, FitSound, SessionsOn, LabelledIn, Apart
    <2>4. ~Opened' /\ (Opened <=> tool.split = "test")
      BY <2>1, <2>2 DEF Opened
    <2>5. OpeningsSound' /\ looks' \in Nat /\ reopenedLooks' \in Nat
      BY <1>11, <2>1, <2>2, <2>4 DEF RunPredictions, OpeningsSound, Pending, ByRight, Rows, EvaluationShape
    <2>6. EvaluationShape'
      BY <1>11, <2>1, <2>5, ShapeOf DEF RunPredictions, EvaluationShape
    <2>7. QED
      BY <1>11, <2>3, <2>5, <2>6, FilesStay, ReportStays DEF RunPredictions
  <1>12. CASE WriteReports
    <2>1. tool' \in Tools /\ ToolSound' /\ OpeningsSound'
      BY <1>12, EndIsSound DEF WriteReports, Doing
    <2>2. report' = Measured
      BY <1>12 DEF WriteReports
    <2>3. /\ Reads /\ tool.split \in {"val", "test"}
          /\ tool.doc \in SplitDocs /\ tool.by \in Fits /\ tool.labelled \in SUBSET Shots
      BY <1>12 DEF WriteReports, Doing, ToolSound, Reads, EvaluationShape, Tools
    <2>4. CASE tool.split = "val"
      <3>1. Measured = [split |-> "val", images |-> tool.doc.val, rest |-> tool.doc.test,
                        labelled |-> tool.labelled, hash |-> tool.doc.hash, by |-> tool.by]
        BY <2>4 DEF Measured
      <3>2. Measured \in Reports
        BY <2>3, <3>1 DEF Reports, SplitDocs
      <3>3. ReportSound'
        BY <2>2, <2>3, <2>4, <3>1 DEF ReportSound, ToolSound, DocSound, FitSound, SessionsOn, Apart
      <3>4. QED
        BY <1>12, <2>1, <2>2, <3>2, <3>3, FilesStay DEF WriteReports, EvaluationShape
    <2>5. CASE tool.split = "test"
      <3>1. Measured = [split |-> "test", images |-> tool.doc.test, rest |-> tool.doc.val,
                        labelled |-> tool.labelled, hash |-> tool.doc.hash, by |-> tool.by]
        BY <2>5 DEF Measured
      <3>2. Measured \in Reports
        BY <2>3, <3>1 DEF Reports, SplitDocs
      <3>3. ReportSound'
        BY <2>2, <2>3, <2>5, <3>1 DEF ReportSound, ToolSound, DocSound, FitSound, SessionsOn, Apart
      <3>4. QED
        BY <1>12, <2>1, <2>2, <3>2, <3>3, FilesStay DEF WriteReports, EvaluationShape
    <2>6. QED
      BY <2>3, <2>4, <2>5
  <1>13. CASE ScriptFails
    <2>1. \/ tool.at # "logging" /\ UNCHANGED <<openings, cutLogs>>
          \/ tool.at = "logging" /\ openings' \in Nat /\ cutLogs' = cutLogs + 1
      BY <1>13 DEF ScriptFails, EvaluationShape, Tools
    <2>2. openings' \in Nat /\ cutLogs' \in Nat
      BY <2>1 DEF EvaluationShape
    <2>3. tool' \in Tools /\ ToolSound' /\ OpeningsSound'
      BY <1>13, <2>1, EndIsSound DEF ScriptFails
    <2>4. QED
      BY <1>13, <2>2, <2>3, FilesStay, ReportStays, ShapeOf DEF ScriptFails, EvaluationShape
  <1>14. CASE Relabel
    <2>1. notes' \in [Shots -> Revisions]
      BY <1>14 DEF Relabel, EvaluationShape
    <2>2. EvaluationShape'
      BY <1>14, <2>1 DEF Relabel, EvaluationShape
    <2>3. ToolSound' /\ OpeningsSound'
      BY <1>14 DEF Relabel, ToolSound, Reads, DocSound, FitSound, SessionsOn, LabelledIn, Apart,
                   OpeningsSound, Pending, Opened, ByRight, Rows
    <2>4. QED
      BY <1>14, <2>2, <2>3, FilesStay, ReportStays DEF Relabel
  <1>15. CASE UNCHANGED evaluationVars
    <2>1. EvaluationShape' /\ ToolSound' /\ OpeningsSound'
      BY <1>15 DEF evaluationVars, EvaluationShape, ToolSound, Reads, DocSound, FitSound, SessionsOn, LabelledIn, Apart,
                   OpeningsSound, Pending, Opened, ByRight, Rows
    <2>2. QED
      BY <1>15, <2>1, FilesStay, ReportStays DEF evaluationVars
  <1>16. QED
    BY <1>1, <1>2, <1>3, <1>4, <1>5, <1>6, <1>7, <1>8, <1>9, <1>w, <1>10, <1>11, <1>12, <1>13, <1>14, <1>15
       DEF EvaluationNext

---------------------------------------------------------------------------
(***************************************************************************)
(* Whatever is labelled, split again, fitted or interrupted between the    *)
(* scripts: a report is of whole sessions and misses no labelled frame,    *)
(* test is run once without leave, and once more for every time a script   *)
(* failed while it wrote the log; with no such failure every run has its   *)
(* line there; and no figure on test comes from thresholds fitted on its   *)
(* own sessions                                                            *)
(* (scripts/eval_detection.py, fit_thresholds.py, build_splits.py).        *)
(***************************************************************************)
THEOREM FiguresStayHonest == EvaluationSpec => []FiguresAreHonest
  <1>1. EvaluationInit => EvaluationInv
    BY EvaluationInitHolds, EvaluationAssumption
  <1>2. EvaluationInv /\ [EvaluationNext]_evaluationVars => EvaluationInv'
    BY EvaluationStep, EvaluationAssumption
  <1>3. EvaluationInv => FiguresAreHonest
    <2> SUFFICES ASSUME EvaluationInv PROVE FiguresAreHonest
      OBVIOUS
    <2> USE DEF EvaluationInv
    <2>1. report # NoReport => SessionsOn(report.images) \cap SessionsOn(report.rest) = {}
      BY DEF ReportSound, Apart
    <2>2. ReportsAreOfOneSide
      BY <2>1 DEF ReportsAreOfOneSide, ReportSound
    <2>3. TestOpenedOnce
      BY DEF TestOpenedOnce, OpeningsSound, Pending, ByRight, Rows, EvaluationShape
    <2>4. FittedElsewhere
      <3>1. NoReport.split = "none"
        BY DEF NoReport
      <3>2. QED
        BY <3>1 DEF FittedElsewhere, ReportSound, FitSound, Apart
    <2>5. QED
      BY <2>2, <2>3, <2>4 DEF FiguresAreHonest
  <1>4. QED
    BY <1>1, <1>2, <1>3, PTL DEF EvaluationSpec
---------------------------------------------------------------------------
(* The splits, for any images, any near-duplicates and any shares.         *)
(*                                                                         *)
(* The union-find is a fold over the reported pairs, that is a recursive   *)
(* function on sets of them. Two lemmas give what it computes: a function  *)
(* that follows the recursion exists (least size it cannot be had for), and *)
(* any that does joins every pair (smallest set it fails for).             *)

\* The sides of a split, and facts about least and greatest numbers.
Sides == {"train", "val", "test"}

LEMMA SplitsNaturals ==
    ASSUME NEW S \in SUBSET Nat, S # {}
    PROVE  \E x \in S : \A y \in S : x <= y
<1> DEFINE R == OpToRel(<, Nat)
<1>1. \E x \in S : \A y \in S : ~ (<<y, x>> \in R)
  BY WFMin, NatLessThanWellFounded
<1>2. \A x, y \in Nat : x < y => <<x, y>> \in R
  BY DEF OpToRel
<1> HIDE DEF R
<1>3. PICK x \in S : \A y \in S : ~ (<<y, x>> \in R)
  BY <1>1
<1>4. ASSUME NEW y \in S
      PROVE  x <= y
  <2>1. y \in Nat /\ x \in Nat /\ ~ (y < x)
    BY <1>2, <1>3
  <2> QED BY <2>1
<1> QED BY <1>4

LEMMA MinIsLeast ==
    ASSUME NEW S \in SUBSET Nat, S # {}
    PROVE  Min(S) \in S /\ \A y \in S : Min(S) <= y
BY SplitsNaturals DEF Min

LEMMA OfTwo ==
    ASSUME NEW a \in Int, NEW b \in Int
    PROVE  /\ Min({a, b}) = IF a <= b THEN a ELSE b
           /\ Max({a, b}) = IF a >= b THEN a ELSE b
<1>1. \E x \in {a, b} : \A y \in {a, b} : x <= y
  OBVIOUS
<1>2. \E x \in {a, b} : \A y \in {a, b} : x >= y
  OBVIOUS
<1>3. Min({a, b}) \in {a, b} /\ \A y \in {a, b} : Min({a, b}) <= y
  BY <1>1 DEF Min
<1>4. Max({a, b}) \in {a, b} /\ \A y \in {a, b} : Max({a, b}) >= y
  BY <1>2 DEF Max
<1> QED BY <1>3, <1>4

\* A rounded share is a whole number.
LEMMA ShareIsWhole == \A n \in Nat, pct \in 1 .. 99 : Share(n, pct) \in Int
BY DEF Share

\* What a cut leaves each side: with two sessions one is val and one test, with
\* three groups each of the three sides has one.
LEMMA CutLeavesEnough ==
    ASSUME NEW n \in Nat, NEW kind
    PROVE  /\ kind = "eval" /\ n >= 2 => Cut(kind, n)[1] = 0 /\ Cut(kind, n)[2] \in 1 .. n - 1
           /\ kind # "eval" /\ n >= 3 => /\ Cut(kind, n)[1] \in 1 .. n - 2
                                         /\ Cut(kind, n)[2] \in 1 .. n - Cut(kind, n)[1] - 1
<1> DEFINE eval == Share(n, EvalPct)
           train == Share(n, TrainPct)
           val == Share(n, ValPct)
<1>1. eval \in Int /\ train \in Int /\ val \in Int
  <2>1. EvalPct \in 1 .. 99 /\ TrainPct \in 1 .. 99 /\ ValPct \in 1 .. 99
    BY SplitsAssumption
  <2> QED BY <2>1, ShareIsWhole, Zenon
<1> HIDE DEF eval, train, val
<1>2. CASE kind = "eval" /\ n >= 2
  <2> DEFINE most == Min({n - 1, eval})
             some == Max({1, most})
  <2>1. most \in Int /\ most <= n - 1
    <3>1. n - 1 \in Int
      OBVIOUS
    <3>2. most = IF n - 1 <= eval THEN n - 1 ELSE eval
      BY <1>1, <3>1, OfTwo, Zenon
    <3> HIDE DEF most
    <3> QED BY <1>1, <3>1, <3>2
  <2>2. Cut(kind, n) = <<0, some>>
    BY <1>2 DEF Cut, eval
  <2> HIDE DEF most
  <2>3. some \in 1 .. n - 1
    <3>1. 1 \in Int
      OBVIOUS
    <3>2. some = IF 1 >= most THEN 1 ELSE most
      BY <2>1, <3>1, OfTwo, Zenon
    <3> HIDE DEF some
    <3> QED BY <1>2, <2>1, <3>2
  <2> HIDE DEF some
  <2> QED BY <1>2, <2>2, <2>3
<1>3. CASE kind # "eval" /\ n >= 3
  <2> DEFINE someTrain == Max({1, train})
             someVal == Max({1, val})
             first == Min({someTrain, n - 2})
             second == Min({someVal, n - first - 1})
  <2>1. someTrain \in Int /\ someTrain >= 1 /\ someVal \in Int /\ someVal >= 1
    <3>1. 1 \in Int
      OBVIOUS
    <3>2. /\ someTrain = IF 1 >= train THEN 1 ELSE train
          /\ someVal = IF 1 >= val THEN 1 ELSE val
      BY <1>1, <3>1, OfTwo, Zenon
    <3> HIDE DEF someTrain, someVal
    <3> QED BY <1>1, <3>2
  <2>2. Cut(kind, n) = <<first, second>>
    BY <1>3 DEF Cut, train, val
  <2> HIDE DEF someTrain, someVal
  <2>3. first \in 1 .. n - 2
    <3>1. n - 2 \in Int
      OBVIOUS
    <3>2. first = IF someTrain <= n - 2 THEN someTrain ELSE n - 2
      BY <2>1, <3>1, OfTwo, Zenon
    <3> HIDE DEF first
    <3> QED BY <1>3, <2>1, <3>2
  <2> HIDE DEF first
  <2>4. second \in 1 .. n - first - 1
    <3>1. n - first - 1 \in Int
      BY <2>3
    <3>2. second = IF someVal <= n - first - 1 THEN someVal ELSE n - first - 1
      BY <2>1, <3>1, OfTwo, Zenon
    <3> HIDE DEF second
    <3> QED BY <1>3, <2>1, <2>3, <3>2
  <2> HIDE DEF second
  <2> QED BY <1>3, <2>2, <2>3, <2>4
<1> QED BY <1>2, <1>3

\* An order of a finite set names each element at one place.
LEMMA OrderOfSet ==
    ASSUME NEW S, IsFiniteSet(S), NEW order \in SetToSeqs(S)
    PROVE  /\ Cardinality(S) \in Nat /\ Len(order) = Cardinality(S)
           /\ DOMAIN order = 1 .. Cardinality(S) /\ ToSet(order) = S
           /\ \A i, j \in DOMAIN order : order[i] = order[j] => i = j
<1> DEFINE n == Cardinality(S)
<1>1. n \in Nat
  BY FS_CardinalityType
<1>2. order \in [1 .. n -> S] /\ \A i, j \in 1 .. n : i # j => order[i] # order[j]
  BY DEF SetToSeqs
<1>3. order \in Injection(1 .. n, S)
  BY <1>2 DEF Injection, IsInjective
<1>4. IsFiniteSet(1 .. n) /\ Cardinality(1 .. n) = n
  <2>1. 1 \in Int /\ n \in Int
    BY <1>1
  <2>2. Cardinality(1 .. n) = (IF 1 > n THEN 0 ELSE n - 1 + 1) /\ IsFiniteSet(1 .. n)
    BY <2>1, FS_Interval
  <2> QED BY <1>1, <2>2
<1> HIDE DEF n
<1>5. order \in Surjection(1 .. n, S)
  BY <1>3, <1>4, FS_Injection DEF n
<1>6. \A x \in S : \E i \in 1 .. n : order[i] = x
  BY <1>5 DEF Surjection
<1>7. order \in Seq(S) /\ Len(order) = n
  BY <1>1, <1>2
<1> QED BY <1>1, <1>2, <1>6, <1>7 DEF ToSet, n

\* What the groups of one stratum are dealt: each a side, and no side rounded away.
Spread(kind, sided, S) ==
    /\ kind = "eval" /\ Cardinality(S) >= 2 => \A s \in {"val", "test"} : \E g \in S : sided[g] = s
    /\ kind = "crop" /\ Cardinality(S) >= 3 => \A s \in Sides : \E g \in S : sided[g] = s

LEMMA DealtSpreads ==
    ASSUME NEW kind, NEW S, IsFiniteSet(S), NEW order \in SetToSeqs(S)
    PROVE  Dealt(kind, order) \in [S -> Sides] /\ Spread(kind, Dealt(kind, order), S)
<1> DEFINE n == Cardinality(S)
           parts == Cut(kind, n)
           place(k) == IF k <= parts[1] THEN "train" ELSE IF k <= parts[1] + parts[2] THEN "val" ELSE "test"
           sided == Dealt(kind, order)
<1>1. /\ n \in Nat /\ Len(order) = n /\ DOMAIN order = 1 .. n /\ ToSet(order) = S
      /\ \A i, j \in DOMAIN order : order[i] = order[j] => i = j
  BY OrderOfSet
<1> HIDE DEF n
<1>2. sided = [g \in S |-> place(CHOOSE k \in 1 .. n : order[k] = g)]
  BY <1>1 DEF Dealt
<1>3. sided \in [S -> Sides]
  BY <1>2 DEF Sides
<1>4. \A k \in 1 .. n : order[k] \in S /\ sided[order[k]] = place(k)
  <2>1. SUFFICES ASSUME NEW k \in 1 .. n
                 PROVE  order[k] \in S /\ sided[order[k]] = place(k)
    OBVIOUS
  <2>2. order[k] \in S
    BY <1>1 DEF ToSet
  <2>3. (CHOOSE j \in 1 .. n : order[j] = order[k]) = k
    BY <1>1
  <2> QED BY <1>2, <2>2, <2>3
<1> HIDE DEF sided
<1>5. ASSUME kind = "eval", n >= 2
      PROVE  \A s \in {"val", "test"} : \E g \in S : sided[g] = s
  <2>1. parts[1] = 0 /\ parts[2] \in 1 .. n - 1
    BY <1>1, <1>5, CutLeavesEnough
  <2> HIDE DEF parts
  <2>2. place(1) = "val" /\ place(n) = "test" /\ 1 \in 1 .. n /\ n \in 1 .. n
    BY <1>1, <1>5, <2>1
  <2> HIDE DEF place
  <2> QED BY <1>4, <2>2
<1>6. ASSUME kind = "crop", n >= 3
      PROVE  \A s \in Sides : \E g \in S : sided[g] = s
  <2>1. parts[1] \in 1 .. n - 2 /\ parts[2] \in 1 .. n - parts[1] - 1
    BY <1>1, <1>6, CutLeavesEnough
  <2> HIDE DEF parts
  <2>2. /\ place(1) = "train" /\ place(parts[1] + 1) = "val" /\ place(n) = "test"
        /\ 1 \in 1 .. n /\ parts[1] + 1 \in 1 .. n /\ n \in 1 .. n
    BY <1>1, <1>6, <2>1
  <2> HIDE DEF place
  <2> QED BY <1>4, <2>2 DEF Sides
<1> QED BY <1>3, <1>5, <1>6 DEF Spread, n, sided
---------------------------------------------------------------------------
\* A well-formed state of the data.
DataShape(d) ==
    /\ d = [kind |-> d.kind, group |-> d.group, boxes |-> d.boxes, labelled |-> d.labelled, near |-> d.near]
    /\ d.kind \in {"eval", "crop", "detection"}
    /\ d.group \in [Images -> Images]
    /\ d.boxes \in [Images -> [Classes -> Nat]]
    /\ d.labelled \in [Images -> BOOLEAN]
    /\ d.kind = "crop" => Wanted(d) = Images

\* Of finitely many numbers one is as large as any.
LEMMA SomeMost ==
    ASSUME NEW S, IsFiniteSet(S), S # {}, NEW f \in [S -> Nat]
    PROVE  \E c \in S : \A k \in S : f[c] >= f[k]
<1> DEFINE Above(c) == {k \in S : f[k] > f[c]}
           Sizes == {Cardinality(Above(c)) : c \in S}
<1>1. \A c \in S : IsFiniteSet(Above(c)) /\ Cardinality(Above(c)) \in Nat
  <2>1. SUFFICES ASSUME NEW c \in S
                 PROVE  IsFiniteSet(Above(c)) /\ Cardinality(Above(c)) \in Nat
    OBVIOUS
  <2>2. Above(c) \in SUBSET S
    OBVIOUS
  <2> QED BY <2>2, FS_Subset, FS_CardinalityType
<1>2. Sizes \in SUBSET Nat /\ Sizes # {}
  BY <1>1
<1>3. PICK n \in Sizes : \A m \in Sizes : n <= m
  BY <1>2, SplitsNaturals
<1>4. PICK c \in S : n = Cardinality(Above(c))
  BY <1>3
<1>5. SUFFICES ASSUME NEW k \in S, ~ (f[c] >= f[k])
               PROVE  FALSE
  OBVIOUS
<1>6. Above(k) \in SUBSET Above(c) /\ k \in Above(c) /\ k \notin Above(k)
  BY <1>5
<1>7. Cardinality(Above(k)) \in Sizes
  OBVIOUS
<1> HIDE DEF Above, Sizes
<1>8. Cardinality(Above(k)) <= Cardinality(Above(c)) /\ Cardinality(Above(k)) # Cardinality(Above(c))
  BY <1>1, <1>6, FS_Subset
<1> QED BY <1>1, <1>3, <1>4, <1>7, <1>8

LEMMA PrimaryKnown ==
    ASSUME NEW d, DataShape(d), NEW i \in Images
    PROVE  Primary(d, i) \in Classes \cup {ZeroBox}
<1> DEFINE S == {c \in Classes : \A k \in Classes : d.boxes[i][c] >= d.boxes[i][k]}
<1>1. CASE ClassesOn(d, i) = {}
  BY <1>1 DEF Primary
<1>2. CASE ClassesOn(d, i) # {}
  <2>1. Classes # {} /\ IsFiniteSet(Classes) /\ Classes \subseteq Nat
    BY <1>2, SplitsAssumption DEF ClassesOn
  <2>2. d.boxes[i] \in [Classes -> Nat]
    BY DEF DataShape
  <2>3. S # {}
    BY <2>1, <2>2, SomeMost
  <2>4. Min(S) \in S
    BY <2>1, <2>3, MinIsLeast
  <2>5. Primary(d, i) = Min(S)
    BY <1>2 DEF Primary
  <2> QED BY <2>4, <2>5
<1> QED BY <1>1, <1>2

---------------------------------------------------------------------------
\* UnionFind, a set of pairs at a time.
UnionAll(group, base, P) == FoldSet(LAMBDA p, r : Union(r, group[p[1]], group[p[2]]), base, P)

\* A function from sets of pairs to roots that unites one pair of a set after the
\* others, as far as sets of n pairs.
OnePair(s) == CHOOSE p \in s : TRUE
Unites(g, s, group, base) ==
    g[s] = IF s = {} THEN base
           ELSE Union(g[s \ {OnePair(s)}], group[OnePair(s)[1]], group[OnePair(s)[2]])
UnitesUpTo(g, n, group, base, P) ==
    \A s \in SUBSET P : Cardinality(s) <= n => Unites(g, s, group, base)

LEMMA OneOut ==
    ASSUME NEW P, IsFiniteSet(P), NEW s \in SUBSET P, s # {}
    PROVE  /\ OnePair(s) \in s /\ s \ {OnePair(s)} \in SUBSET P
           /\ Cardinality(s) \in Nat /\ Cardinality(s \ {OnePair(s)}) = Cardinality(s) - 1
<1>1. OnePair(s) \in s
  BY DEF OnePair
<1>2. IsFiniteSet(s)
  BY FS_Subset
<1> QED BY <1>1, <1>2, FS_CardinalityType, FS_RemoveElement

\* There is one that unites the pairs of every subset: the recursion is well founded.
LEMMA UnitingExists ==
    ASSUME NEW P, IsFiniteSet(P), NEW group, NEW base
    PROVE  \E g : \A s \in SUBSET P : Unites(g, s, group, base)
<1> DEFINE Reached == {n \in Nat : \E g : UnitesUpTo(g, n, group, base, P)}
           Missed == Nat \ Reached
<1>1. \A s \in SUBSET P : IsFiniteSet(s) /\ Cardinality(s) \in Nat
  BY FS_Subset, FS_CardinalityType
<1>2. 0 \in Reached
  <2> DEFINE g == [s \in SUBSET P |-> base]
  <2>1. \A s \in SUBSET P : Cardinality(s) <= 0 => s = {}
    BY <1>1, FS_EmptySet
  <2>2. g[{}] = base
    OBVIOUS
  <2> HIDE DEF g
  <2>3. UnitesUpTo(g, 0, group, base, P)
    BY <2>1, <2>2 DEF UnitesUpTo, Unites
  <2> QED BY <2>3
<1>3. ASSUME NEW n \in Reached
      PROVE  n + 1 \in Reached
  <2>1. PICK g : UnitesUpTo(g, n, group, base, P)
    OBVIOUS
  <2> DEFINE next == [s \in SUBSET P |->
                        IF s = {} THEN base
                        ELSE Union(g[s \ {OnePair(s)}], group[OnePair(s)[1]], group[OnePair(s)[2]])]
  <2>2. \A s \in SUBSET P : Cardinality(s) <= n => next[s] = g[s]
    BY <2>1 DEF UnitesUpTo, Unites
  <2>3. ASSUME NEW s \in SUBSET P, Cardinality(s) <= n + 1
        PROVE  Unites(next, s, group, base)
    <3>1. CASE s = {}
      BY <3>1 DEF Unites
    <3>2. CASE s # {}
      <4>1. s \ {OnePair(s)} \in SUBSET P /\ Cardinality(s \ {OnePair(s)}) <= n
        BY <2>3, <3>2, OneOut
      <4>2. next[s \ {OnePair(s)}] = g[s \ {OnePair(s)}]
        BY <2>2, <4>1
      <4>3. next[s] = Union(g[s \ {OnePair(s)}], group[OnePair(s)[1]], group[OnePair(s)[2]])
        BY <3>2
      <4> HIDE DEF next
      <4> QED BY <3>2, <4>2, <4>3 DEF Unites
    <3> QED BY <3>1, <3>2
  <2>4. UnitesUpTo(next, n + 1, group, base, P)
    BY <2>3 DEF UnitesUpTo
  <2> QED BY <2>4
<1> HIDE DEF Reached
<1>4. Reached \subseteq Nat
  BY DEF Reached
<1>5. Missed = {}
  <2>1. SUFFICES ASSUME Missed # {}
                 PROVE  FALSE
    OBVIOUS
  <2>2. PICK m \in Missed : \A k \in Missed : m <= k
    BY <2>1, SplitsNaturals
  <2>3. m # 0 /\ m \in Nat /\ m \notin Reached
    BY <1>2, <2>2
  <2>4. m - 1 \in Reached
    BY <2>2, <2>3
  <2>5. m - 1 + 1 = m
    BY <2>3
  <2> QED BY <1>3, <2>3, <2>4, <2>5
<1>6. Cardinality(P) \in Reached
  BY <1>1, <1>5
<1>7. PICK g : UnitesUpTo(g, Cardinality(P), group, base, P)
  BY <1>6 DEF Reached
<1>8. \A s \in SUBSET P : Cardinality(s) <= Cardinality(P)
  BY FS_Subset
<1> QED BY <1>7, <1>8 DEF UnitesUpTo

\* Roots under which both ends of each pair of s have come.
Joined(root, s, group) ==
    /\ root \in [Images -> Images]
    /\ \A p \in s : root[group[p[1]]] = root[group[p[2]]]

LEMMA UnionJoins ==
    ASSUME NEW group \in [Images -> Images], NEW s, NEW t, NEW p \in Images \X Images,
           s \subseteq Images \X Images, t = s \ {p}, NEW root, Joined(root, t, group)
    PROVE  Joined(Union(root, group[p[1]], group[p[2]]), s, group)
<1> DEFINE next == Union(root, group[p[1]], group[p[2]])
<1>1. group[p[1]] \in Images /\ group[p[2]] \in Images /\ root \in [Images -> Images]
  BY DEF Joined
<1>2. /\ next \in [Images -> Images]
      /\ \A g \in Images : next[g] = IF root[g] = root[group[p[1]]] THEN root[group[p[2]]] ELSE root[g]
  BY <1>1 DEF Union
<1> HIDE DEF next
<1>3. \A q \in s : next[group[q[1]]] = next[group[q[2]]]
  <2>1. SUFFICES ASSUME NEW q \in s
                 PROVE  next[group[q[1]]] = next[group[q[2]]]
    OBVIOUS
  <2>2. group[q[1]] \in Images /\ group[q[2]] \in Images
    OBVIOUS
  <2>3. CASE q = p
    BY <1>1, <1>2, <2>3
  <2>4. CASE q # p
    <3>1. root[group[q[1]]] = root[group[q[2]]]
      BY <2>4 DEF Joined
    <3> QED BY <1>2, <2>2, <3>1
  <2> QED BY <2>3, <2>4
<1> QED BY <1>2, <1>3 DEF Joined, next

\* Whatever the order pairs are united in, the ends of each end up together.
LEMMA UnionAllJoins ==
    ASSUME NEW group \in [Images -> Images], NEW base \in [Images -> Images],
           NEW P, IsFiniteSet(P), P \subseteq Images \X Images
    PROVE  Joined(UnionAll(group, base, P), P, group)
<1> DEFINE Def(g, s) == IF s = {} THEN base
                        ELSE Union(g[s \ {OnePair(s)}], group[OnePair(s)[1]], group[OnePair(s)[2]])
           Defined(g) == g = [s \in SUBSET P |-> Def(g, s)]
           iter == CHOOSE g : Defined(g)
<1>1. PICK g : \A s \in SUBSET P : Unites(g, s, group, base)
  BY UnitingExists
<1> DEFINE h == [s \in SUBSET P |-> g[s]]
<1>2. \A s \in SUBSET P : s # {} => s \ {OnePair(s)} \in SUBSET P
  BY OneOut
<1>3. \A s \in SUBSET P : g[s] = Def(h, s)
  BY <1>1, <1>2 DEF Unites
<1>4. Defined(h)
  <2> HIDE DEF Def
  <2> QED BY <1>3, Zenon
<1>5. Defined(iter)
  BY <1>4, Zenon
<1> HIDE DEF iter, h
<1>6. \A s \in SUBSET P : iter[s] = Def(iter, s)
  <2>1. iter = [s \in SUBSET P |-> Def(iter, s)]
    BY <1>5
  <2> HIDE DEF Def
  <2> QED BY <2>1
<1>7. \A s \in SUBSET P : Joined(iter[s], s, group)
  <2>1. SUFFICES ASSUME \E s \in SUBSET P : ~ Joined(iter[s], s, group)
                 PROVE  FALSE
    OBVIOUS
  <2> DEFINE Sizes == {Cardinality(s) : s \in {t \in SUBSET P : ~ Joined(iter[t], t, group)}}
  <2>2. \A s \in SUBSET P : Cardinality(s) \in Nat
    BY FS_Subset, FS_CardinalityType
  <2>3. Sizes \in SUBSET Nat /\ Sizes # {}
    BY <2>1, <2>2
  <2> HIDE DEF Sizes
  <2>4. PICK n \in Sizes : \A m \in Sizes : n <= m
    BY <2>3, SplitsNaturals
  <2>5. PICK s \in SUBSET P : ~ Joined(iter[s], s, group) /\ n = Cardinality(s)
    BY <2>4 DEF Sizes
  <2>6. s # {}
    BY <1>6, <2>5 DEF Joined
  <2> DEFINE p == OnePair(s)
             t == s \ {p}
  <2>7. p \in s /\ t \in SUBSET P /\ Cardinality(s) \in Nat /\ Cardinality(t) = Cardinality(s) - 1
    BY <2>6, OneOut
  <2>8. iter[s] = Union(iter[t], group[p[1]], group[p[2]])
    BY <1>6, <2>6
  <2> HIDE DEF p
  <2>9. Joined(iter[t], t, group)
    <3>1. SUFFICES ASSUME ~ Joined(iter[t], t, group)
                   PROVE  FALSE
      OBVIOUS
    <3>2. Cardinality(t) \in Sizes
      BY <2>7, <3>1 DEF Sizes
    <3> QED BY <2>4, <2>5, <2>7, <3>2
  <2>10. p \in Images \X Images /\ s \subseteq Images \X Images
    BY <2>7
  <2>11. Joined(Union(iter[t], group[p[1]], group[p[2]]), s, group)
    BY <2>9, <2>10, UnionJoins
  <2> QED BY <2>5, <2>8, <2>11
<1>8. UnionAll(group, base, P) = iter[P]
  BY DEF UnionAll, FoldSet, MapThenFoldSet, iter, OnePair
<1> QED BY <1>7, <1>8

LEMMA MergedJoins ==
    ASSUME NEW d, DataShape(d)
    PROVE  /\ \A i, j \in Images : d.group[i] = d.group[j] => Merged(d)[i] = Merged(d)[j]
           /\ \A p \in DuplicatePairs(d) :
                 p \in Images \X Images /\ Merged(d)[p[1]] = Merged(d)[p[2]]
<1> DEFINE P == DuplicatePairs(d)
           base == [g \in Images |-> g]
           root == UnionAll(d.group, base, P)
<1>1. P \subseteq Images \X Images
  <2>1. \A S : Connected(d, S) \subseteq Images \X Images
    BY DEF Connected, Pairs
  <2> DEFINE A == UNION {Connected(d, OfClass(d, c)) : c \in Classes}
             many(p) == Cardinality(UNION {ClassesOn(d, j) : j \in GroupOf(d, Images, p[1])}) > 1
             B == {p \in Connected(d, Images) : many(p)}
  <2>2. A \subseteq Images \X Images
    BY <2>1
  <2> HIDE DEF many
  <2>3. B \subseteq Images \X Images
    BY <2>1
  <2>4. P = A \cup B
    BY DEF DuplicatePairs, many
  <2> QED BY <2>2, <2>3, <2>4
<1>2. IsFiniteSet(P)
  <2>1. IsFiniteSet(Images \X Images)
    BY SplitsAssumption, FS_Product
  <2> QED BY <1>1, <2>1, FS_Subset
<1>3. d.group \in [Images -> Images]
  BY DEF DataShape
<1> HIDE DEF P
<1>4. Joined(root, P, d.group)
  <2>1. base \in [Images -> Images]
    OBVIOUS
  <2> HIDE DEF base
  <2> QED BY <1>1, <1>2, <1>3, <2>1, UnionAllJoins
<1>5. Merged(d) = [i \in Images |-> root[d.group[i]]]
  BY DEF Merged, UnionAll, FoldSet, MapThenFoldSet, P
<1> HIDE DEF root
<1>6. \A i \in Images : Merged(d)[i] = root[d.group[i]]
  BY <1>5
<1>7. \A i, j \in Images : d.group[i] = d.group[j] => Merged(d)[i] = Merged(d)[j]
  BY <1>6
<1>8. ASSUME NEW p \in P
      PROVE  p \in Images \X Images /\ Merged(d)[p[1]] = Merged(d)[p[2]]
  <2>1. p[1] \in Images /\ p[2] \in Images
    BY <1>1
  <2>2. root[d.group[p[1]]] = root[d.group[p[2]]]
    BY <1>4 DEF Joined
  <2> QED BY <1>1, <1>6, <2>1, <2>2
<1> QED BY <1>7, <1>8 DEF P

---------------------------------------------------------------------------
\* The groups of the strata named.
GroupsOf(d, names) == UNION {Stratum(d, Key(d), c) : c \in names}

\* The sides of the groups of some strata, none of them rounded away.
Settled(d, sided, names) ==
    /\ sided \in [GroupsOf(d, names) -> Sides]
    /\ \A c \in names : Spread(d.kind, sided, Stratum(d, Key(d), c))

\* Every image to be split is in a group of some stratum.
LEMMA KeysInStrata ==
    ASSUME NEW d, DataShape(d), NEW i \in Wanted(d)
    PROVE  Key(d)[i] \in GroupsOf(d, Strata(d, Key(d)))
<1> DEFINE of(k) == {Key(d)[j] : j \in {l \in Images : Primary(d, l) = k}}
<1>1. i \in Images
  BY DEF Wanted
<1>2. \A c \in StrataNames(d) : Key(d)[i] \in Stratum(d, Key(d), c) =>
                                Key(d)[i] \in GroupsOf(d, Strata(d, Key(d)))
  BY DEF GroupsOf, Strata
<1>3. CASE d.kind = "eval"
  BY <1>2, <1>3 DEF StrataNames, Stratum
<1>4. CASE d.kind # "eval"
  <2>1. Primary(d, i) \in Classes \cup {ZeroBox} /\ Key(d)[i] \in of(Primary(d, i))
    BY <1>1, PrimaryKnown
  <2>2. StrataNames(d) = Classes \cup {ZeroBox}
    BY <1>4 DEF StrataNames
  <2>3. \A c : Stratum(d, Key(d), c) = IF c = ZeroBox THEN of(ZeroBox) \ UNION {of(k) : k \in Classes} ELSE of(c)
    BY <1>4 DEF Stratum
  <2>4. ZeroBox \notin Classes
    BY SplitsAssumption DEF ZeroBox
  <2> HIDE DEF of
  <2>5. CASE \E k \in Classes : Key(d)[i] \in of(k)
    BY <1>2, <2>2, <2>3, <2>4, <2>5
  <2>6. CASE ~ \E k \in Classes : Key(d)[i] \in of(k)
    <3>1. Primary(d, i) = ZeroBox
      BY <2>1, <2>6
    <3>2. Key(d)[i] \in Stratum(d, Key(d), ZeroBox)
      BY <2>1, <2>3, <2>6, <3>1
    <3> QED BY <1>2, <2>2, <3>2
  <2> QED BY <2>5, <2>6
<1> QED BY <1>3, <1>4

\* Each group of a stratum is that of an image to be split, and strata are
\* finite; the crops' strata share no group.
LEMMA StrataAreGroups ==
    ASSUME NEW d, DataShape(d), NEW c
    PROVE  /\ IsFiniteSet(Stratum(d, Key(d), c))
           /\ d.kind # "detection" => \A g \in Stratum(d, Key(d), c) : \E i \in Wanted(d) : Key(d)[i] = g
           /\ d.kind = "crop" => \A g \in Stratum(d, Key(d), c) : g[1] = c
<1> DEFINE f == [i \in Images |-> Key(d)[i]]
           all == {Key(d)[i] : i \in Images}
           of(k) == {Key(d)[j] : j \in {l \in Images : Primary(d, l) = k}}
<1>1. IsFiniteSet(all)
  <2>1. f \in Surjection(Images, all)
    BY DEF Surjection
  <2> QED BY <2>1, SplitsAssumption, FS_Surjection
<1>2. Wanted(d) \subseteq Images
  BY DEF Wanted
<1>3. CASE d.kind = "eval"
  <2>1. Stratum(d, Key(d), c) = {Key(d)[i] : i \in Wanted(d)}
    BY <1>3 DEF Stratum
  <2>2. Stratum(d, Key(d), c) \in SUBSET all
    BY <1>2, <2>1
  <2>3. IsFiniteSet(Stratum(d, Key(d), c))
    BY <1>1, <2>2, FS_Subset
  <2> QED BY <1>3, <2>1, <2>3
<1>4. CASE d.kind # "eval"
  <2>1. Stratum(d, Key(d), c) = IF c = ZeroBox THEN of(ZeroBox) \ UNION {of(k) : k \in Classes} ELSE of(c)
    BY <1>4 DEF Stratum
  <2>2. Stratum(d, Key(d), c) \in SUBSET of(c)
    BY <2>1
  <2>3. IsFiniteSet(Stratum(d, Key(d), c))
    <3>1. Stratum(d, Key(d), c) \in SUBSET all
      BY <2>2
    <3> QED BY <1>1, <3>1, FS_Subset
  <2>4. ASSUME d.kind # "detection", NEW g \in Stratum(d, Key(d), c)
        PROVE  (\E i \in Wanted(d) : Key(d)[i] = g) /\ g[1] = c
    <3>1. d.kind = "crop"
      BY <1>4, <2>4 DEF DataShape
    <3>2. PICK i \in Images : Primary(d, i) = c /\ g = Key(d)[i]
      BY <2>2, <2>4
    <3>3. i \in Wanted(d)
      BY <3>1 DEF DataShape
    <3>4. Key(d)[i] = <<Primary(d, i), d.group[i]>>
      BY <3>1 DEF Key
    <3> QED BY <3>2, <3>3, <3>4
  <2> QED BY <2>3, <2>4
<1> QED BY <1>3, <1>4
---------------------------------------------------------------------------
\* The data a file was made of: its hash says all but what never changes.
Made(f) == [kind |-> data.kind, group |-> f.hash.group, boxes |-> f.hash.boxes,
            labelled |-> f.hash.labelled, near |-> data.near]

\* A file holds each image on the side its group was dealt to.
FileSound(f, d) ==
    /\ DataShape(d) /\ f.hash = Hash(d, f.deal)
    /\ Settled(d, f.deal, Strata(d, Key(d)))
    /\ f.ids = [s \in Sides |-> {i \in Wanted(d) : f.deal[Key(d)[i]] = s}]

\* While a build runs, the strata it has dealt are settled, each without a side
\* rounded away; the file on disk is one a build of some data ended with, and a
\* reader is served one of the data that is there.
SplitsInv ==
    /\ DataShape(data)
    /\ left # NoStrata =>
        /\ reader = "none" /\ key = Key(data) /\ left \subseteq Strata(data, key)
        /\ Settled(data, dealt, Strata(data, key) \ left)
    /\ splitFile # NoFile => FileSound(splitFile, Made(splitFile))
    /\ reader = "served" => splitFile # NoFile /\ HashMatches(splitFile)

\* A group holds one image at least, so the side it is dealt to is not empty.
LEMMA ServedIsSound ==
    ASSUME SplitsInv
    PROVE  SplitsAreSound
<1> USE DEF NoFile
<1>1. SUFFICES ASSUME reader = "served"
               PROVE  SplitsAreSound
  BY DEF SplitsAreSound, NothingStraddles, NoSplitRoundedAway
<1>2. Made(splitFile) = data
  BY <1>1 DEF SplitsInv, HashMatches, Hash, Made, DataShape
<1> DEFINE sided == splitFile.deal
           k == Key(data)
           names == Strata(data, k)
<1>3. /\ DataShape(data) /\ Settled(data, sided, names)
      /\ splitFile.ids = [s \in Sides |-> {i \in Wanted(data) : sided[k[i]] = s}]
  BY <1>1, <1>2 DEF SplitsInv, FileSound
<1>4. \A i \in Wanted(data) : sided[k[i]] \in Sides
  BY <1>3, KeysInStrata DEF Settled
<1>5. \A i : SplitOf(i) = IF i \in Wanted(data) THEN {sided[k[i]]} ELSE {}
  BY <1>3, <1>4 DEF SplitOf
<1>6. \A i \in Images : Cardinality(SplitOf(i)) = (IF i \in Wanted(data) THEN 1 ELSE 0)
  BY <1>5, FS_Singleton, FS_EmptySet
<1>7. ASSUME NEW i \in Wanted(data), NEW j \in Wanted(data),
             \/ data.group[i] = data.group[j] /\ (data.kind = "crop" => Primary(data, i) = Primary(data, j))
             \/ data.kind = "detection" /\ (<<i, j>> \in DuplicatePairs(data))
      PROVE  SplitOf(i) = SplitOf(j)
  <2>1. i \in Images /\ j \in Images
    BY DEF Wanted
  <2>2. k[i] = k[j]
    <3>1. CASE data.kind = "eval"
      BY <1>7, <2>1, <3>1 DEF Key
    <3>2. CASE data.kind = "crop"
      BY <1>7, <2>1, <3>2 DEF Key
    <3>3. CASE data.kind = "detection"
      <4>1. Merged(data)[i] = Merged(data)[j]
        <5>1. CASE data.group[i] = data.group[j]
          BY <1>3, <2>1, <5>1, MergedJoins
        <5>2. CASE <<i, j>> \in DuplicatePairs(data)
          BY <1>3, <5>2, MergedJoins
        <5> QED BY <1>7, <5>1, <5>2
      <4> QED BY <2>1, <3>3, <4>1 DEF Key
    <3> QED BY <1>3, <3>1, <3>2, <3>3 DEF DataShape
  <2> QED BY <1>5, <2>2
<1>8. NothingStraddles
  BY <1>6, <1>7 DEF NothingStraddles
\* A side some group of the stratum is on has an image.
<1>9. ASSUME NEW c \in names, NEW s \in Sides, NEW g \in Stratum(data, k, c), data.kind # "detection", sided[g] = s
      PROVE  splitFile.ids[s] # {}
  <2>1. PICK i \in Wanted(data) : k[i] = g
    BY <1>3, <1>9, StrataAreGroups
  <2> QED BY <1>3, <1>9, <2>1
<1>10. \A c : Cardinality(Stratum(data, k, c)) >= 2 /\ c \in StrataNames(data) => c \in names
  BY FS_EmptySet DEF Strata
<1>11. ASSUME data.kind = "eval", Cardinality(Stratum(data, Key(data), ZeroBox)) >= 2
       PROVE  splitFile.ids["val"] # {} /\ splitFile.ids["test"] # {}
  <2>1. ZeroBox \in names
    BY <1>10, <1>11 DEF StrataNames
  <2>2. \A s \in {"val", "test"} : \E g \in Stratum(data, k, ZeroBox) : sided[g] = s
    BY <1>3, <1>11, <2>1 DEF Settled, Spread
  <2> QED BY <1>9, <1>11, <2>1, <2>2 DEF Sides
<1>12. ASSUME data.kind = "crop", NEW c \in Classes, Cardinality(Stratum(data, Key(data), c)) >= 3
       PROVE  \A s \in DOMAIN splitFile.ids : splitFile.ids[s] # {}
  <2>1. c \in names
    <3>1. c \in StrataNames(data)
      BY <1>12 DEF StrataNames
    <3>2. Stratum(data, Key(data), c) # {}
      BY <1>12, FS_EmptySet
    <3> QED BY <3>1, <3>2 DEF Strata
  <2>2. \A s \in Sides : \E g \in Stratum(data, k, c) : sided[g] = s
    BY <1>3, <1>12, <2>1 DEF Settled, Spread
  <2> QED BY <1>3, <1>9, <1>12, <2>1, <2>2
<1> QED BY <1>8, <1>11, <1>12 DEF SplitsAreSound, NoSplitRoundedAway

LEMMA SplitsInitHolds ==
    ASSUME SplitsInit
    PROVE  SplitsInv
<1>1. DataShape(data)
  <2>1. PICK b \in {"eval", "crop", "detection"} : data \in Data(b)
    BY DEF SplitsInit
  <2>2. /\ data = [kind |-> data.kind, group |-> data.group, boxes |-> data.boxes,
                   labelled |-> data.labelled, near |-> data.near]
        /\ data.kind = b /\ data.group \in Partitions
    BY <2>1 DEF Data
  <2>3. data.group \in [Images -> Images]
    BY <2>2 DEF Partitions
  <2>4. data.boxes \in [Images -> [Classes -> Nat]]
    <3>1. {Unboxed} \subseteq [Classes -> Nat] /\ OneClass \subseteq [Classes -> Nat] /\ Contents \subseteq [Classes -> Nat]
      BY SplitsAssumption DEF Unboxed, OneClass
    <3>2. data.boxes \in [Images -> CASE b = "eval" -> {Unboxed} [] b = "crop" -> OneClass [] b = "detection" -> Contents]
      BY <2>1 DEF Data
    <3>3. CASE b = "eval"
      BY <3>1, <3>2, <3>3
    <3>4. CASE b = "crop"
      BY <3>1, <3>2, <3>4
    <3>5. CASE b = "detection"
      BY <3>1, <3>2, <3>5
    <3> QED BY <3>3, <3>4, <3>5
  <2>5. /\ data.labelled \in [Images -> BOOLEAN]
        /\ data.kind = "crop" => Wanted(data) = Images
    <3>1. data.labelled \in IF b = "eval" THEN [Images -> BOOLEAN] ELSE {[i \in Images |-> TRUE]}
      BY <2>1 DEF Data
    <3> QED BY <2>2, <3>1 DEF Wanted
  <2> QED BY <2>2, <2>3, <2>4, <2>5 DEF DataShape
<1> QED BY <1>1 DEF SplitsInit, SplitsInv

\* A step that leaves the file and the sort of data alone leaves what it says.
LEMMA FileStaysSound ==
    ASSUME SplitsInv, UNCHANGED splitFile, data'.kind = data.kind, data'.near = data.near
    PROVE  splitFile' # NoFile => FileSound(splitFile, Made(splitFile))'
<1>1. Made(splitFile)' = Made(splitFile)
  BY DEF Made
<1>2. \A f, d : FileSound(f, d)' = FileSound(f, d)
  OBVIOUS
<1> QED BY <1>1 DEF SplitsInv, FileSound
\* One more stratum is settled, and those before it stay so.
LEMMA SettledGrows ==
    ASSUME NEW d, DataShape(d), NEW dealtTo, NEW names, names \subseteq Strata(d, Key(d)), Settled(d, dealtTo, names),
           NEW c \in Strata(d, Key(d)), c \notin names, NEW order \in SetToSeqs(Stratum(d, Key(d), c)), NEW all,
           all = [g \in DOMAIN Dealt(d.kind, order) \cup DOMAIN dealtTo |->
                    IF g \in DOMAIN Dealt(d.kind, order) THEN Dealt(d.kind, order)[g] ELSE dealtTo[g]]
    PROVE  Settled(d, all, names \cup {c})
<1> DEFINE S == Stratum(d, Key(d), c)
           sided == Dealt(d.kind, order)
<1>1. sided \in [S -> Sides] /\ Spread(d.kind, sided, S)
  BY StrataAreGroups, DealtSpreads
<1>2. dealtTo \in [GroupsOf(d, names) -> Sides]
  BY DEF Settled
<1> HIDE DEF sided
<1>3. all = [g \in S \cup GroupsOf(d, names) |-> IF g \in S THEN sided[g] ELSE dealtTo[g]]
  BY <1>1, <1>2 DEF sided
<1>4. S \cup GroupsOf(d, names) = GroupsOf(d, names \cup {c})
  BY DEF GroupsOf
<1>5. all \in [GroupsOf(d, names \cup {c}) -> Sides]
  BY <1>1, <1>2, <1>3, <1>4
<1>6. Spread(d.kind, all, S)
  <2>1. \A g \in S : all[g] = sided[g]
    BY <1>3
  <2> HIDE DEF S
  <2> QED BY <1>1, <2>1 DEF Spread
<1>7. ASSUME NEW b \in names
      PROVE  Spread(d.kind, all, Stratum(d, Key(d), b))
  <2> DEFINE T == Stratum(d, Key(d), b)
  <2>1. Spread(d.kind, dealtTo, T) /\ b # c
    BY DEF Settled
  <2>2. CASE d.kind = "eval"
    <3>1. StrataNames(d) = {ZeroBox}
      BY <2>2 DEF StrataNames
    <3> QED BY <2>1, <3>1 DEF Strata
  <2>3. CASE d.kind = "crop"
    <3>1. \A g \in T : g[1] = b
      BY <2>3, StrataAreGroups
    <3>2. \A g \in S : g[1] = c
      BY <2>3, StrataAreGroups
    <3>3. T \subseteq GroupsOf(d, names)
      BY DEF GroupsOf
    <3> HIDE DEF S, T
    <3>4. \A g \in T : all[g] = dealtTo[g]
      BY <1>3, <2>1, <3>1, <3>2, <3>3
    <3>5. Spread(d.kind, all, T)
      BY <2>1, <3>4 DEF Spread
    <3> QED BY <3>5 DEF T
  <2>4. CASE d.kind = "detection"
    BY <2>4 DEF Spread
  <2> QED BY <2>2, <2>3, <2>4 DEF DataShape
<1> QED BY <1>5, <1>6, <1>7 DEF Settled

LEMMA NothingDealtIsSettled == ASSUME NEW d PROVE Settled(d, << >>, {})
<1>1. GroupsOf(d, {}) = {}
  BY DEF GroupsOf
<1> QED BY <1>1 DEF Settled

\* A file written when every stratum is settled is sound.
LEMMA WrittenIsSound ==
    ASSUME DataShape(data), key = Key(data), NEW all, Settled(data, all, Strata(data, key))
    PROVE  LET f == FileOf(all)
           IN  FileSound(f, [kind |-> data.kind, group |-> f.hash.group, boxes |-> f.hash.boxes,
                             labelled |-> f.hash.labelled, near |-> data.near])
<1> DEFINE f == FileOf(all)
           d == [kind |-> data.kind, group |-> f.hash.group, boxes |-> f.hash.boxes,
                 labelled |-> f.hash.labelled, near |-> data.near]
<1>1. f.hash = Hash(data, all) /\ f.deal = all
  BY DEF FileOf
<1>2. d = data
  BY <1>1 DEF Hash, DataShape
<1>3. f.ids = [s \in Sides |-> {i \in Wanted(data) : all[key[i]] = s}]
  <2>1. f.ids = [s \in Sides |-> UNION {ImagesIn(g) : g \in {h \in DOMAIN all : all[h] = s}}]
    BY DEF FileOf, Sides
  <2>2. \A i \in Wanted(data) : key[i] \in DOMAIN all
    BY KeysInStrata DEF Settled
  <2>3. \A s \in Sides : UNION {ImagesIn(g) : g \in {h \in DOMAIN all : all[h] = s}}
                         = {i \in Wanted(data) : all[key[i]] = s}
    BY <2>2 DEF ImagesIn
  <2> QED BY <2>1, <2>3
<1> HIDE DEF f
<1>4. FileSound(f, data)
  BY <1>1, <1>3 DEF FileSound
<1> QED BY <1>2, <1>4 DEF f

LEMMA BuildStarts == ASSUME SplitsInv, StartBuild PROVE SplitsInv'
<1>1. UNCHANGED <<data, splitFile>> /\ reader' = "none" /\ dealt' = << >> /\ key' = Key(data)
  BY DEF StartBuild
<1>2. left' = NoStrata \/ left' = Strata(data, key')
  BY DEF StartBuild
<1>3. left' # NoStrata =>
        /\ reader' = "none" /\ key' = Key(data) /\ left' \subseteq Strata(data, key')
        /\ Settled(data, dealt', Strata(data, key') \ left')
  <2>1. left' # NoStrata => Strata(data, key') \ left' = {}
    BY <1>2
  <2> QED BY <1>1, <1>2, <2>1, NothingDealtIsSettled
<1>4. splitFile' # NoFile => FileSound(splitFile, Made(splitFile))'
  BY <1>1, FileStaysSound
<1>5. DataShape(data)'
  BY <1>1 DEF SplitsInv
<1> QED BY <1>1, <1>3, <1>4, <1>5 DEF SplitsInv

LEMMA StratumDealt == ASSUME SplitsInv, DealStratum PROVE SplitsInv'
<1> DEFINE c == Min(left)
<1>1. /\ DataShape(data) /\ reader = "none" /\ key = Key(data) /\ left \subseteq Strata(data, key)
      /\ Settled(data, dealt, Strata(data, key) \ left)
      /\ UNCHANGED <<data, key, reader>>
  BY DEF SplitsInv, DealStratum
<1>2. c \in left
  <2>1. left \in SUBSET Nat /\ left # {}
    BY <1>1, SplitsAssumption DEF DealStratum, NoStrata, Strata, StrataNames, ZeroBox
  <2> QED BY <2>1, MinIsLeast
<1> HIDE DEF c
<1>3. PICK order \in SetToSeqs(Stratum(data, key, c)) :
        LET sided == Dealt(data.kind, order)
            all == [g \in DOMAIN sided \cup DOMAIN dealt |-> IF g \in DOMAIN sided THEN sided[g] ELSE dealt[g]]
            last == left = {c}
        IN  IF TooFew(c, sided) \/ (last /\ ~Lands(FileOf(all)))
            THEN left' = NoStrata /\ dealt' = << >> /\ UNCHANGED splitFile
            ELSE /\ left' = left \ {c}
                 /\ dealt' = IF last THEN << >> ELSE all
                 /\ splitFile' = IF last THEN FileOf(all) ELSE splitFile
  BY DEF DealStratum, c
<1> DEFINE sided == Dealt(data.kind, order)
           all == [g \in DOMAIN sided \cup DOMAIN dealt |-> IF g \in DOMAIN sided THEN sided[g] ELSE dealt[g]]
           names == (Strata(data, key) \ left) \cup {c}
<1>4. Settled(data, all, names)
  <2>1. c \in Strata(data, Key(data)) /\ c \notin Strata(data, key) \ left
    BY <1>1, <1>2
  <2>2. Strata(data, key) \ left \subseteq Strata(data, Key(data))
    BY <1>1
  <2> QED BY <1>1, <1>3, <2>1, <2>2, SettledGrows
<1> HIDE DEF all, sided
<1>5. CASE left' = NoStrata /\ UNCHANGED splitFile
  BY <1>1, <1>5, FileStaysSound DEF SplitsInv
<1>6. CASE left # {c} /\ left' = left \ {c} /\ dealt' = all /\ UNCHANGED splitFile
  <2>1. names = Strata(data, key) \ left'
    BY <1>1, <1>2, <1>6
  <2>2. splitFile' # NoFile => FileSound(splitFile, Made(splitFile))'
    BY <1>1, <1>6, FileStaysSound
  <2>3. left' \subseteq Strata(data, key)
    BY <1>1, <1>6
  <2>4. Settled(data, dealt', Strata(data, key) \ left')
    BY <1>4, <1>6, <2>1
  <2> QED BY <1>1, <2>2, <2>3, <2>4 DEF SplitsInv
<1>7. CASE left = {c} /\ left' = left \ {c} /\ splitFile' = FileOf(all)
  <2>1. names = Strata(data, key) /\ left' = NoStrata
    BY <1>1, <1>2, <1>7 DEF NoStrata
  <2>2. FileSound(splitFile, Made(splitFile))'
    <3>1. Settled(data, all, Strata(data, key))
      BY <1>4, <2>1
    <3> QED BY <1>1, <1>7, <3>1, WrittenIsSound DEF Made
  <2> QED BY <1>1, <2>1, <2>2 DEF SplitsInv
<1> QED BY <1>3, <1>5, <1>6, <1>7 DEF all, sided

LEMMA SplitsLoaded == ASSUME SplitsInv, LoadSplits PROVE SplitsInv'
<1>1. /\ UNCHANGED <<data, key, left, dealt, splitFile>> /\ left = NoStrata
      /\ reader' = "served" => splitFile # NoFile /\ HashMatches(splitFile)
  BY DEF LoadSplits
<1>2. splitFile' # NoFile => FileSound(splitFile, Made(splitFile))'
  BY <1>1, FileStaysSound
<1>3. HashMatches(splitFile)' = HashMatches(splitFile)
  BY <1>1 DEF HashMatches
<1> QED BY <1>1, <1>2, <1>3 DEF SplitsInv

LEMMA DataEdited == ASSUME SplitsInv, EditData PROVE SplitsInv'
<1>1. UNCHANGED <<key, left, dealt, splitFile>> /\ left = NoStrata /\ reader' = "none"
  BY DEF EditData
<1>2. DataShape(data') /\ data'.kind = data.kind /\ data'.near = data.near
  <2>1. PICK i \in Images :
          IF data.kind = "eval" THEN data' = [data EXCEPT !.labelled[i] = ~@]
          ELSE \E h \in (IF data.kind = "crop" THEN OneClass ELSE Contents) \ {data.boxes[i]} :
                  data' = [data EXCEPT !.boxes[i] = h]
    BY DEF EditData
  <2>2. DataShape(data)
    BY DEF SplitsInv
  <2>3. CASE data.kind = "eval"
    <3>1. data' = [data EXCEPT !.labelled[i] = ~@]
      BY <2>1, <2>3
    <3>2. data' = [kind |-> data.kind, group |-> data.group, boxes |-> data.boxes,
                   labelled |-> [data.labelled EXCEPT ![i] = ~@], near |-> data.near]
      BY <2>2, <3>1 DEF DataShape
    <3> QED BY <2>2, <2>3, <3>2 DEF DataShape
  <2>4. CASE data.kind # "eval"
    <3>1. PICK h \in Contents : data' = [data EXCEPT !.boxes[i] = h]
      BY <2>1, <2>4 DEF OneClass
    <3>2. data' = [kind |-> data.kind, group |-> data.group, boxes |-> [data.boxes EXCEPT ![i] = h],
                   labelled |-> data.labelled, near |-> data.near]
      BY <2>2, <3>1 DEF DataShape
    <3>3. h \in [Classes -> Nat]
      BY SplitsAssumption
    <3> QED BY <2>2, <2>4, <3>2, <3>3 DEF DataShape, Wanted
  <2> QED BY <2>3, <2>4
<1>3. splitFile' # NoFile => FileSound(splitFile, Made(splitFile))'
  BY <1>1, <1>2, FileStaysSound
<1> QED BY <1>1, <1>2, <1>3 DEF SplitsInv

LEMMA SplitsInvStep ==
    ASSUME SplitsInv, [SplitsNext]_splitsVars
    PROVE  SplitsInv'
<1>1. CASE UNCHANGED splitsVars
  <2>1. HashMatches(splitFile)' = HashMatches(splitFile)
    BY <1>1 DEF splitsVars, HashMatches
  <2>2. splitFile' # NoFile => FileSound(splitFile, Made(splitFile))'
    BY <1>1, FileStaysSound DEF splitsVars
  <2> QED BY <1>1, <2>1, <2>2 DEF splitsVars, SplitsInv
<1> QED BY <1>1, BuildStarts, StratumDealt, SplitsLoaded, DataEdited DEF SplitsNext

\* For any images, classes, contents, shares and number of builds, whatever is
\* edited between the scripts: what a reader of the splits is given is whole, keeps
\* together what belongs together, and has no side rounded away.
THEOREM SplitsStaySound == SplitsSpec => []SplitsAreSound
<1>1. SplitsInit => SplitsInv
  BY SplitsInitHolds
<1>2. SplitsInv /\ [SplitsNext]_splitsVars => SplitsInv'
  BY SplitsInvStep
<1>3. SplitsInv => SplitsAreSound
  BY ServedIsSound
<1> QED BY <1>1, <1>2, <1>3, PTL DEF SplitsSpec
=============================================================================
