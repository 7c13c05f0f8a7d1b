----------------------------- MODULE ObjectStore -----------------------------
(***************************************************************************)
(* Object profiles and their samples on disk: objects.json                 *)
(* (objects/registry.py), one folder per object with images, a manifest    *)
(* and a _deleted directory (objects/samples.py), and the routes that      *)
(* change them (api/objects.py, save_batch in api/object_batches.py).      *)
(*                                                                         *)
(* Handlers run one at a time on the event loop. Only an upload gives the  *)
(* loop away, between the check that the object exists and the reading of  *)
(* the body. Every file operation is a step of its own: a crash of the     *)
(* process, or an error of the file system, may come before each. JSON     *)
(* files are replaced atomically (os.replace).                             *)
(*                                                                         *)
(* All profiles are created with one name, so that slugs collide: slug n   *)
(* is the name with suffix -n. A life is one creation of a profile.        *)
(***************************************************************************)
EXTENDS Integers, Sequences, FiniteSets, FiniteSetsExt

CONSTANTS
    Uploads,       \* requests that may upload a sample at the same time
    MaxLives,      \* bound: profiles ever created
    MaxSamples,    \* bound: samples ever added
    MaxFaults      \* bound: crashes and errors of the file system

ASSUME ObjectsAssumption ==
    /\ IsFiniteSet(Uploads)
    /\ MaxLives \in Nat /\ MaxSamples \in Nat /\ MaxFaults \in Nat

Slugs == 1 .. MaxLives
Lives == 1 .. MaxLives
Samples == 1 .. MaxSamples
\* An ObjectSample is its role; "hard_negative" counts as negative.
Roles == {"positive", "negative"}
Parts == {"image", "thumb"}

VARIABLES
    profiles,   \* objects.json: slug -> [life, positive, negative]
    folder,     \* <root>/<slug>: slug -> folder, for those that exist
    moved,      \* folders under <root>/_deleted, by the life they were dropped in
    pending,    \* an upload whose body is being read: the object it was checked for
    job,        \* the handler that runs on the event loop
    \* history
    sampleOf,   \* the life each sample was uploaded to
    recorded,   \* samples a manifest has named
    late,       \* samples whose object was dropped while their upload was read
    adopted,    \* lives whose profile was created over an existing folder
    cut,        \* samples whose deletion was cut short
    lives, faults

history == <<sampleOf, recorded, late, adopted, cut, lives, faults>>
objectVars == <<profiles, folder, moved, pending, job, history>>

\* A new profile: no samples yet.
NewProfile(life) == [life |-> life, positive |-> 0, negative |-> 0]

\* A folder: manifest "samples" and "deleted", files in images/ and in _deleted/.
EmptyFolder == [samples |-> << >>, deleted |-> {}, images |-> {}, trash |-> {}]

\* A handler: the file operation it is at, the object and sample it works on,
\* whether it is save_batch, and whether that has saved an item yet.
Idle == [step |-> "none", slug |-> 0, id |-> 0, role |-> "positive", batch |-> FALSE,
         saved |-> FALSE]

ObjectsInit ==
    /\ profiles = << >> /\ folder = << >> /\ moved = << >>
    /\ pending = [u \in Uploads |-> Idle]
    /\ job = Idle
    /\ sampleOf = << >> /\ recorded = {} /\ late = {} /\ adopted = {} /\ cut = {}
    /\ lives = 0 /\ faults = 0

Listed(s) == s \in DOMAIN profiles
LoopFree == job.step = "none"

\* f with f[k] set to v, also where k is new (a dictionary's f[k] = v), and
\* without k.
With(f, k, v) == [x \in DOMAIN f \cup {k} |-> IF x = k THEN v ELSE f[x]]
Without(f, k) == [x \in DOMAIN f \ {k} |-> f[x]]

\* The folder as mkdir(parents=True, exist_ok=True) leaves it.
MadeFolder(s) == IF s \in DOMAIN folder THEN folder[s] ELSE EmptyFolder
ManifestOf(s) == MadeFolder(s).samples

\* SampleStore.counts
CountOf(s, role) == Cardinality({i \in DOMAIN ManifestOf(s) : ManifestOf(s)[i] = role})

FreeSlug == Min({s \in Slugs : ~Listed(s)})

-----------------------------------------------------------------------------
\* Objects.

\* ObjectRegistry.create: the profile is saved, then its folder is made.
CreateObject ==
    /\ LoopFree /\ lives < MaxLives
    /\ lives' = lives + 1
    /\ profiles' = With(profiles, FreeSlug, NewProfile(lives + 1))
    /\ adopted' = IF FreeSlug \in DOMAIN folder THEN adopted \cup {lives + 1} ELSE adopted
    /\ job' = [Idle EXCEPT !.step = "mkdir", !.slug = FreeSlug]
    /\ UNCHANGED <<folder, moved, pending, sampleOf, recorded, late, cut, faults>>

MakeFolder ==
    /\ job.step = "mkdir"
    /\ folder' = With(folder, job.slug, MadeFolder(job.slug))
    /\ job' = Idle
    /\ UNCHANGED <<profiles, moved, pending, history>>

\* The folder goes to _deleted/ and the registry still lists the object.
DropFolder(s) ==
    /\ folder' = Without(folder, s)
    /\ moved' = IF s \in DOMAIN folder THEN Append(moved, folder[s]) ELSE moved

\* ObjectRegistry.soft_delete: the folder is moved, then the profile goes.
DropObject(s) ==
    /\ LoopFree /\ Listed(s)
    /\ DropFolder(s)
    /\ job' = [Idle EXCEPT !.step = "unlist", !.slug = s]
    /\ UNCHANGED <<profiles, pending, history>>

Unlist ==
    /\ job.step = "unlist"
    /\ profiles' = Without(profiles, job.slug)
    /\ job' = Idle
    /\ UNCHANGED <<folder, moved, pending, history>>
-----------------------------------------------------------------------------
\* Samples.

\* add_sample up to the await: the object is known, the body still to come.
BeginUpload(u, s, role) ==
    /\ LoopFree /\ pending[u] = Idle /\ Listed(s)
    /\ pending' = [pending EXCEPT ![u] = [Idle EXCEPT !.step = "image", !.slug = s, !.role = role,
                                                      !.id = profiles[s].life]]
    /\ UNCHANGED <<profiles, folder, moved, job, history>>

\* persist_sample's checks of image, size, box, role and conditions refuse it.
RefuseUpload(u) ==
    /\ LoopFree /\ pending[u] # Idle
    /\ pending' = [pending EXCEPT ![u] = Idle]
    /\ UNCHANGED <<profiles, folder, moved, job, history>>

\* SampleStore.add gets a fresh id for a sample of life l.
NewSample(l, s) ==
    /\ Cardinality(DOMAIN sampleOf) < MaxSamples
    /\ sampleOf' = Append(sampleOf, l)
    /\ late' = IF Listed(s) /\ profiles[s].life = l THEN late ELSE late \cup {Len(sampleOf')}

\* The body has been read; the object is not looked up again.
FinishUpload(u) ==
    /\ LoopFree /\ pending[u] # Idle
    /\ NewSample(pending[u].id, pending[u].slug)
    /\ job' = [pending[u] EXCEPT !.id = Len(sampleOf')]
    /\ pending' = [pending EXCEPT ![u] = Idle]
    /\ UNCHANGED <<profiles, folder, moved, recorded, adopted, cut, lives, faults>>

\* save_batch adds the items of a batch one after the other.
CommitBatch(s, role) ==
    /\ LoopFree /\ Listed(s)
    /\ NewSample(profiles[s].life, s)
    /\ job' = [Idle EXCEPT !.step = "image", !.slug = s, !.id = Len(sampleOf'), !.role = role,
                           !.batch = TRUE]
    /\ UNCHANGED <<profiles, folder, moved, pending, recorded, adopted, cut, lives, faults>>

AfterFile(part) == IF part = "image" THEN "thumb" ELSE "record"

\* add writes the two files, making the directories they need.
WriteFile ==
    /\ job.step \in Parts
    /\ folder' = With(folder, job.slug,
           [MadeFolder(job.slug) EXCEPT !.images = @ \cup {<<job.id, job.step>>}])
    /\ job' = [job EXCEPT !.step = AfterFile(@)]
    /\ UNCHANGED <<profiles, moved, pending, history>>

\* The thumbnail equals the image: add refuses, with both files written.
ThumbRefused ==
    /\ job.step = "record"
    /\ job' = [job EXCEPT !.step = IF job.batch THEN "next" ELSE "none"]
    /\ UNCHANGED <<profiles, folder, moved, pending, history>>

\* The record is appended to the manifest.
WriteRecord ==
    /\ job.step = "record"
    /\ folder' = [folder EXCEPT ![job.slug].samples = With(@, job.id, job.role)]
    /\ recorded' = recorded \cup {job.id}
    /\ job' = [job EXCEPT !.step = IF job.batch THEN "next" ELSE "count", !.saved = TRUE]
    /\ UNCHANGED <<profiles, moved, pending, sampleOf, late, adopted, cut, lives, faults>>

NextItem ==
    /\ job.step = "next"
    /\ NewSample(profiles[job.slug].life, job.slug)
    /\ job' = [job EXCEPT !.step = "image", !.id = Len(sampleOf')]
    /\ UNCHANGED <<profiles, folder, moved, pending, recorded, adopted, cut, lives, faults>>

\* The last item is done; counts are refreshed if one was saved.
LastItem ==
    /\ job.step = "next"
    /\ job' = [job EXCEPT !.step = IF job.saved THEN "count" ELSE "none"]
    /\ UNCHANGED <<profiles, folder, moved, pending, history>>

\* Mutant: an edit of the role leaves the counts alone.
PatchSkipsCounts == "none"

AfterPatch == "count"

\* SampleStore.update of a role, then the counts.
PatchSample(s, i) ==
    /\ LoopFree /\ Listed(s) /\ i \in DOMAIN ManifestOf(s)
    /\ \E role \in Roles : folder' = [folder EXCEPT ![s].samples[i] = role]
    /\ job' = [Idle EXCEPT !.step = AfterPatch, !.slug = s]
    /\ UNCHANGED <<profiles, moved, pending, history>>

\* SampleStore.soft_delete: the files are moved one by one, those that are
\* there, before the manifest is saved.
DeleteSample(s, i) ==
    /\ LoopFree /\ Listed(s) /\ i \in DOMAIN ManifestOf(s)
    /\ job' = [Idle EXCEPT !.step = "move", !.slug = s, !.id = i]
    /\ UNCHANGED <<profiles, folder, moved, pending, history>>

InImages(s, i) == {f \in folder[s].images : f[1] = i}

MoveFile ==
    /\ job.step = "move"
    /\ \E f \in InImages(job.slug, job.id) :
        /\ f[2] = "image" \/ <<job.id, "image">> \notin folder[job.slug].images
        /\ folder' = [folder EXCEPT ![job.slug].images = @ \ {f}, ![job.slug].trash = @ \cup {f}]
    /\ UNCHANGED <<profiles, moved, pending, job, history>>

\* Mutant: the list of deleted records starts anew.
DeletedForgotten(deleted, i) == {i}

NoteDeleted(deleted, i) == deleted \cup {i}

SaveDeletion ==
    /\ job.step = "move" /\ InImages(job.slug, job.id) = {}
    /\ folder' = [folder EXCEPT ![job.slug].samples = Without(@, job.id),
                                ![job.slug].deleted = NoteDeleted(@, job.id)]
    /\ job' = [job EXCEPT !.step = "count"]
    /\ cut' = cut \ {job.id}
    /\ UNCHANGED <<profiles, moved, pending, sampleOf, recorded, late, adopted, lives, faults>>

\* _sync_counts: set_counts raises when the object has gone meanwhile.
SetCounts(s) ==
    profiles' = IF Listed(s)
                THEN [profiles EXCEPT ![s].positive = CountOf(s, "positive"),
                                      ![s].negative = CountOf(s, "negative")]
                ELSE profiles

SyncCounts ==
    /\ job.step = "count"
    /\ SetCounts(job.slug)
    /\ job' = Idle
    /\ UNCHANGED <<folder, moved, pending, history>>
-----------------------------------------------------------------------------
\* Faults: an error of the file system ends the handler, a crash also ends the
\* uploads that are being read.
CutShort ==
    /\ faults < MaxFaults
    /\ faults' = faults + 1
    /\ job' = Idle
    /\ cut' = IF job.step = "move" THEN cut \cup {job.id} ELSE cut
    /\ UNCHANGED <<profiles, folder, moved, sampleOf, recorded, late, adopted, lives>>

FileError == CutShort /\ ~LoopFree /\ UNCHANGED pending
ServerCrash == CutShort /\ pending' = [u \in Uploads |-> Idle]

ObjectsNext ==
    \/ CreateObject \/ MakeFolder \/ Unlist
    \/ \E s \in Slugs : DropObject(s)
    \/ \E u \in Uploads : FinishUpload(u) \/ RefuseUpload(u)
    \/ \E u \in Uploads, s \in Slugs, role \in Roles : BeginUpload(u, s, role)
    \/ \E s \in Slugs, role \in Roles : CommitBatch(s, role)
    \/ WriteFile \/ ThumbRefused \/ WriteRecord \/ NextItem \/ LastItem
    \/ \E s \in Slugs, i \in Samples : PatchSample(s, i) \/ DeleteSample(s, i)
    \/ MoveFile \/ SaveDeletion \/ SyncCounts
    \/ FileError \/ ServerCrash

ObjectsSpec == ObjectsInit /\ [][ObjectsNext]_objectVars
-----------------------------------------------------------------------------
Folders == {folder[s] : s \in DOMAIN folder} \cup {moved[n] : n \in DOMAIN moved}

\* Nothing is destroyed: a sample that a manifest has named keeps its record,
\* as a sample or as deleted, and its two files, in images/ or in _deleted/,
\* all in one folder, whatever is deleted and wherever a crash comes.
NothingDestroyed ==
    \A i \in recorded : \E d \in Folders :
        /\ i \in DOMAIN d.samples \cup d.deleted
        /\ {i} \X Parts \subseteq d.images \cup d.trash

\* A sample that is shown has its image, unless its deletion runs or was cut
\* short.
ShownHasImage ==
    \A d \in Folders : \A i \in DOMAIN d.samples :
        \/ {i} \X Parts \subseteq d.images
        \/ i \in cut
        \/ job.step = "move" /\ job.id = i

\* Between two handlers the counts of a profile are those of its manifest,
\* whichever route changed the samples last. Excepted are faults, and a
\* profile created over a folder that a late upload had made.
CountsSettle ==
    LoopFree /\ faults = 0 =>
        \A s \in DOMAIN profiles : profiles[s].life \notin adopted =>
            /\ profiles[s].positive = CountOf(s, "positive")
            /\ profiles[s].negative = CountOf(s, "negative")

\* A profile that reuses the slug of a deleted one starts without its samples:
\* only an upload whose body was read while its object was deleted can end up
\* among the samples of another life.
NoPastLives ==
    \A s \in DOMAIN profiles : \A i \in DOMAIN ManifestOf(s) :
        sampleOf[i] = profiles[s].life \/ i \in late

\* Together: what a profile shows, its images, its counts and its history, is true.
ProfilesAreTrue == ShownHasImage /\ CountsSettle /\ NoPastLives
=============================================================================
