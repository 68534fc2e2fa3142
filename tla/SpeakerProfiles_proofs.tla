------------------------- MODULE SpeakerProfiles_proofs -------------------------
(***************************************************************************)
(* What holds of known speakers for every number of profiles, requests and *)
(* submissions.  Uploads and stores touch different variables, so each     *)
(* step keeps one half of the invariant by leaving it alone.               *)
(***************************************************************************)
EXTENDS SpeakerProfiles, TLAPS

Record == [name : Names, print : Requests \cup {"old", "new"}, policy : {"old", "current"},
           created : Times, updated : Times]
Requested == [at : {"uploads", "open", "enrolls", "cleans", "stores", "over"},
              kind : {"create", "update", "delete"}, ok : BOOLEAN, enrolled : BOOLEAN]

(* Every lease is one that is still to be given back, or could not be.     *)
UploadsInv ==
    /\ request \in [Requests -> Requested]
    /\ leases \in [Requests -> Nat] /\ samples \in [Requests -> Nat] /\ stuck \in [Requests -> Nat]
    /\ \A r \in Requests :
          /\ leases[r] = samples[r] + stuck[r]
          /\ request[r].at \in {"stores", "over"} \/ request[r].kind = "delete" => samples[r] = 0

ProfilesInv ==
    /\ Present \subseteq Ids
    /\ \A i \in Present : profiles[i] \in Record
    /\ NamesUnique /\ ProfilesAreWhole

SnapshotInv ==
    /\ job \in [Jobs -> {"waits", "accepted", "rejected"}]
    /\ snapshot \in [Jobs -> SUBSET [id : Ids, name : Names, print : Requests \cup {"old", "new"}]]
    /\ SnapshotOfOneMoment

Inv == UploadsInv /\ ProfilesInv /\ SnapshotInv

Uploading(r) ==
    \/ BeginSample(r) \/ SealSample(r) \/ UploadFails(r) \/ FieldsRead(r)
    \/ EnrollmentEnds(r) \/ Clean(r) \/ Cleaned(r)
Storing(r) == Create(r) \/ Update(r) \/ Delete(r)

LEMMA InvGivesProperties == Inv => TypeOK /\ NamesUnique /\ ProfilesAreWhole
                                   /\ SnapshotOfOneMoment /\ SamplesReleased
  BY DEF Inv, UploadsInv, ProfilesInv, SnapshotInv, TypeOK, SamplesReleased, Record, Requested

LEMMA InitInv == Init => Inv
<1> SUFFICES ASSUME Init PROVE Inv
  OBVIOUS
<1>1. UploadsInv
  <2>1. request \in [Requests -> Requested]
    BY DEF Init, Requested
  <2>2. QED
    BY <2>1 DEF Init, UploadsInv
<1>2. ProfilesInv
  <2>1. PICK name \in [Known -> Names], print \in [Known -> {"old", "new"}], t \in Times :
          /\ \A a, b \in Known : name[a].key = name[b].key => a = b
          /\ profiles = [i \in Known |-> Profile(name[i], print[i], PolicyOf(print[i]), t, t)]
    BY DEF Init
  <2>2. Present = Known /\ Known \subseteq Ids
    BY <2>1, ProfilesAssumption DEF Present
  <2>3. \A i \in Known : profiles[i] = Profile(name[i], print[i], PolicyOf(print[i]), t, t)
    BY <2>1
  <2>4. \A i \in Known : profiles[i] \in Record
    BY <2>1, <2>3 DEF Profile, PolicyOf, Record
  <2>5. NamesUnique /\ ProfilesAreWhole
    BY <2>1, <2>2, <2>3 DEF NamesUnique, ProfilesAreWhole, Profile
  <2>6. QED
    BY <2>2, <2>4, <2>5 DEF ProfilesInv
<1>3. SnapshotInv
  BY DEF Init, SnapshotInv, SnapshotOfOneMoment
<1>4. QED
  BY <1>1, <1>2, <1>3 DEF Inv

LEMMA UnchangedProfiles == ASSUME ProfilesInv, UNCHANGED profiles PROVE ProfilesInv'
  BY DEF ProfilesInv, NamesUnique, ProfilesAreWhole, Present

LEMMA UnchangedSnapshots == ASSUME SnapshotInv, UNCHANGED <<job, snapshot>> PROVE SnapshotInv'
  BY DEF SnapshotInv, SnapshotOfOneMoment

(* The step of a request in its uploads keeps its own accounts.            *)
LEMMA UploadingKeepsUploads ==
  ASSUME UploadsInv, NEW r \in Requests, Uploading(r) PROVE UploadsInv'
<1> USE DEF UploadsInv, Requested, Moves, Fails, Kind, uploads
<1>1. CASE BeginSample(r)
  BY <1>1 DEF BeginSample
<1>2. CASE SealSample(r)
  BY <1>2 DEF SealSample
<1>3. CASE UploadFails(r)
  BY <1>3 DEF UploadFails
<1>4. CASE FieldsRead(r)
  BY <1>4 DEF FieldsRead
<1>5. CASE EnrollmentEnds(r)
  BY <1>5 DEF EnrollmentEnds
<1>6. CASE Clean(r)
  <2>1. samples[r] \in Nat \ {0} /\ leases[r] \in Nat \ {0} /\ stuck[r] \in Nat
    BY <1>6 DEF Clean
  <2>2. CASE Released(r)
    <3>1. leases[r] - 1 \in Nat /\ samples[r] - 1 \in Nat
      BY <2>1
    <3>2. leases' \in [Requests -> Nat] /\ samples' \in [Requests -> Nat] /\ stuck' = stuck
      BY <2>2, <3>1 DEF Released
    <3>3. /\ leases'[r] = leases[r] - 1 /\ samples'[r] = samples[r] - 1
          /\ \A q \in Requests \ {r} : leases'[q] = leases[q] /\ samples'[q] = samples[q]
      BY <2>2 DEF Released
    <3>4. request' = request /\ request[r].at = "cleans" /\ samples[r] # 0
      BY <1>6, <2>1 DEF Clean
    <3>5. QED
      BY <2>1, <3>2, <3>3, <3>4
  <2>3. CASE ~Released(r)
    <3>1. /\ stuck' = [stuck EXCEPT ![r] = @ + 1]
          /\ samples' = [samples EXCEPT ![r] = @ - 1]
          /\ UNCHANGED <<leases, request>> /\ request[r].at = "cleans"
      BY <1>6, <2>3 DEF Clean
    <3>2. samples[r] - 1 \in Nat /\ stuck[r] + 1 \in Nat /\ samples[r] # 0
      BY <2>1
    <3>3. samples' \in [Requests -> Nat] /\ stuck' \in [Requests -> Nat]
      BY <3>1, <3>2
    <3>4. /\ stuck'[r] = stuck[r] + 1 /\ samples'[r] = samples[r] - 1
          /\ \A q \in Requests \ {r} : stuck'[q] = stuck[q] /\ samples'[q] = samples[q]
      BY <3>1
    <3>5. leases[r] = samples'[r] + stuck'[r]
      BY <2>1, <3>4
    <3>6. \A q \in Requests : leases[q] = samples'[q] + stuck'[q]
      BY <3>4, <3>5
    <3>7. \A q \in Requests : request[q].at \in {"stores", "over"} \/ request[q].kind = "delete"
                               => samples'[q] = 0
      BY <3>1, <3>2, <3>4
    <3>8. QED
      BY <3>1, <3>3, <3>6, <3>7
  <2>4. QED
    BY <2>2, <2>3
<1>7. CASE Cleaned(r)
  BY <1>7 DEF Cleaned
<1>8. QED
  BY <1>1, <1>2, <1>3, <1>4, <1>5, <1>6, <1>7 DEF Uploading

LEMMA StoringKeepsUploads ==
  ASSUME UploadsInv, NEW r \in Requests, Storing(r) PROVE UploadsInv'
  BY DEF UploadsInv, Requested, Moves, Kind, uploads, Storing, Create, Update, Delete, Stores

LEMMA PutKeepsProfiles ==
  ASSUME ProfilesInv, NEW id \in Ids, NEW profile \in Record, Put(id, profile),
         ~NameTaken(profile.name, Present \ {id}), profile.policy = PolicyOf(profile.print)
  PROVE  ProfilesInv'
<1>1. /\ Present' = Present \cup {id}
      /\ profiles'[id] = profile
      /\ \A i \in Present \ {id} : profiles'[i] = profiles[i]
  BY DEF Put, Present
<1>2. \A i \in Present' : profiles'[i] \in Record
  BY <1>1 DEF ProfilesInv
<1>3. NamesUnique'
  BY <1>1 DEF NamesUnique, NameTaken, ProfilesInv
<1>4. ProfilesAreWhole'
  BY <1>1 DEF ProfilesAreWhole, ProfilesInv
<1>5. QED
  BY <1>1, <1>2, <1>3, <1>4 DEF ProfilesInv

LEMMA UpdatedIsWhole ==
  ASSUME NEW r \in Requests, NEW old \in Record, NEW name \in Names, NEW now \in Times,
         old.policy = PolicyOf(old.print)
  PROVE  LET new == Updated(r, old, name, now) IN
         /\ new \in Record /\ new.name = name /\ new.policy = PolicyOf(new.print)
         /\ new.updated >= old.updated
<1> /\ old.created \in Times /\ old.updated \in Times
    /\ old.print \in Requests \cup {"old", "new"} /\ old.policy \in {"old", "current"}
  BY DEF Record
<1>1. Later(old.updated, now) \in Times /\ Later(old.updated, now) >= old.updated
  <2>1. old.updated \in Int /\ now \in Int
    BY ProfilesAssumption
  <2>2. QED
    BY <2>1 DEF Later
<1>2. CASE request[r].enrolled
  BY <1>1, <1>2 DEF Updated, Profile, Record, PolicyOf
<1>3. CASE ~request[r].enrolled
  BY <1>1, <1>3 DEF Updated, Profile, Record
<1>4. QED
  BY <1>2, <1>3

LEMMA StoringKeepsProfiles ==
  ASSUME ProfilesInv, NEW r \in Requests, Storing(r) PROVE ProfilesInv'
<1>1. CASE Create(r)
  <2>1. CASE UNCHANGED profiles
    BY <2>1, UnchangedProfiles
  <2>2. CASE ~UNCHANGED profiles
    <3>1. PICK name \in Names, id \in Ids \ Present, now \in Times :
            ~NameTaken(name, Present) /\ Put(id, Profile(name, r, PolicyOf(r), now, now))
      BY <1>1, <2>2 DEF Create
    <3> DEFINE new == Profile(name, r, PolicyOf(r), now, now)
    <3>2. new \in Record /\ new.name = name /\ new.policy = PolicyOf(new.print)
      BY DEF Profile, Record, PolicyOf
    <3>3. ~NameTaken(new.name, Present \ {id})
      BY <3>1, <3>2 DEF NameTaken
    <3>4. QED
      BY <3>1, <3>2, <3>3, PutKeepsProfiles
  <2>3. QED
    BY <2>1, <2>2
<1>2. CASE Update(r)
  <2>1. CASE UNCHANGED profiles
    BY <2>1, UnchangedProfiles
  <2>2. CASE ~UNCHANGED profiles
    <3>1. PICK id \in Ids, name \in Names, now \in Times :
            /\ id \in Present /\ ~NameTaken(name, Present \ {id})
            /\ Put(id, Updated(r, profiles[id], name, now))
      BY <1>2, <2>2 DEF Update
    <3>2. profiles[id] \in Record /\ profiles[id].policy = PolicyOf(profiles[id].print)
      BY <3>1 DEF ProfilesInv, ProfilesAreWhole
    <3>3. QED
      BY <3>1, <3>2, UpdatedIsWhole, PutKeepsProfiles
  <2>3. QED
    BY <2>1, <2>2
<1>3. CASE Delete(r)
  <2>1. /\ Present' \subseteq Present
        /\ \A i \in Present' : profiles'[i] = profiles[i]
    BY <1>3 DEF Delete, Present
  <2>2. QED
    BY <2>1 DEF ProfilesInv, NamesUnique, ProfilesAreWhole
<1>4. QED
  BY <1>1, <1>2, <1>3 DEF Storing

(* All entries are read from one state of unique names.                    *)
LEMMA ResolveKeepsSnapshots ==
  ASSUME ProfilesInv, SnapshotInv, NEW j \in Jobs, Resolve(j) PROVE SnapshotInv'
<1>1. CASE UNCHANGED snapshot
  BY <1>1 DEF Resolve, Becomes, SnapshotInv, SnapshotOfOneMoment
<1>2. CASE ~UNCHANGED snapshot
  <2>1. PICK ids \in SUBSET Ids :
          /\ \A id \in ids : Usable(id)
          /\ Becomes(j, "accepted")
          /\ snapshot' = [snapshot EXCEPT ![j] = {Entry(id) : id \in ids}]
    BY <1>2 DEF Resolve
  <2>2. \A id \in ids : /\ Entry(id) \in [id : Ids, name : Names, print : Requests \cup {"old", "new"}]
                        /\ Entry(id).print # "old"
    BY <2>1 DEF Usable, Entry, ProfilesInv, ProfilesAreWhole, Record, PolicyOf
  <2>3. \A a, b \in ids : Entry(a).name.key = Entry(b).name.key \/ Entry(a).id = Entry(b).id
                            => Entry(a) = Entry(b)
    BY <2>1 DEF Usable, Entry, ProfilesInv, NamesUnique
  <2>4. job' \in [Jobs -> {"waits", "accepted", "rejected"}]
    BY <2>1 DEF Becomes, SnapshotInv
  <2>5. snapshot' \in [Jobs -> SUBSET [id : Ids, name : Names, print : Requests \cup {"old", "new"}]]
    BY <2>1, <2>2 DEF SnapshotInv
  <2>6. SnapshotOfOneMoment'
    BY <2>1, <2>2, <2>3 DEF SnapshotInv, SnapshotOfOneMoment
  <2>7. QED
    BY <2>4, <2>5, <2>6 DEF SnapshotInv
<1>3. QED
  BY <1>1, <1>2

LEMMA NextInv == ASSUME Inv, [Next]_vars PROVE Inv'
<1>1. CASE UNCHANGED vars
  BY <1>1, UnchangedProfiles, UnchangedSnapshots DEF Inv, UploadsInv, vars
<1>2. ASSUME NEW r \in Requests, Uploading(r) PROVE Inv'
  <2>1. UNCHANGED store
    BY <1>2 DEF Uploading, BeginSample, SealSample, UploadFails, FieldsRead, EnrollmentEnds, Clean, Cleaned
  <2>2. QED
    BY <1>2, <2>1, UploadingKeepsUploads, UnchangedProfiles, UnchangedSnapshots DEF Inv, store
<1>3. ASSUME NEW r \in Requests, Storing(r) PROVE Inv'
  <2>1. UNCHANGED <<job, snapshot>>
    BY <1>3 DEF Storing, Create, Update, Delete, Stores
  <2>2. QED
    BY <1>3, <2>1, StoringKeepsUploads, StoringKeepsProfiles, UnchangedSnapshots DEF Inv
<1>4. ASSUME NEW j \in Jobs, Resolve(j) PROVE Inv'
  <2>1. UNCHANGED <<profiles, request, leases, samples, stuck>>
    BY <1>4 DEF Resolve, uploads
  <2>2. QED
    BY <1>4, <2>1, ResolveKeepsSnapshots, UnchangedProfiles DEF Inv, UploadsInv
<1>5. QED
  BY <1>1, <1>2, <1>3, <1>4 DEF Next, Uploading, Storing, Over

LEMMA SpecInv == Spec => []Inv
  BY InitInv, NextInv, PTL DEF Spec

(* Every reachable state is well formed; a lease is never given back twice. *)
THEOREM ProfilesTypeCorrect == Spec => []TypeOK
  BY SpecInv, InvGivesProperties, PTL

(* Names stay unique but for their case, for any number of requests.       *)
THEOREM NamesStayUnique == Spec => []NamesUnique
  BY SpecInv, InvGivesProperties, PTL

(* Embeddings and what is said of them always belong together.             *)
THEOREM ProfilesStayWhole == Spec => []ProfilesAreWhole
  BY SpecInv, InvGivesProperties, PTL

(* What a submission keeps of its speakers is one state of the profiles.   *)
THEOREM SnapshotsAreConsistent == Spec => []SnapshotOfOneMoment
  BY SpecInv, InvGivesProperties, PTL

(* A request has given back all samples that could be before it stores.    *)
THEOREM AllSamplesReleased == Spec => []SamplesReleased
  BY SpecInv, InvGivesProperties, PTL

(* No update takes a profile back in time, whatever the clock shows.       *)
THEOREM UpdatesGoForward == Spec => NeverUpdatedBack
<1>1. ASSUME Inv, [Next]_vars
      PROVE  \A i \in Present \cap Present' : profiles'[i].updated >= profiles[i].updated
  <2> \A i \in Present : profiles[i].updated \in Int
    BY <1>1, ProfilesAssumption DEF Inv, ProfilesInv, Record
  <2>1. CASE UNCHANGED profiles
    BY <2>1
  <2>2. CASE ~UNCHANGED profiles
    <3>1. PICK r \in Requests : Storing(r)
      BY <1>1, <2>2 DEF Next, vars, store, Storing, BeginSample, SealSample, UploadFails, FieldsRead,
                        EnrollmentEnds, Clean, Cleaned, Resolve, Over
    <3>3. CASE Create(r) \/ Delete(r)
      <4>1. \A i \in Present \cap Present' : profiles'[i] = profiles[i]
        BY <2>2, <3>3 DEF Create, Delete, Put, Present
      <4>2. QED
        BY <4>1
    <3>4. CASE Update(r)
      <4>1. PICK id \in Ids, name \in Names, now \in Times :
              id \in Present /\ Put(id, Updated(r, profiles[id], name, now))
        BY <2>2, <3>4 DEF Update
      <4>2. profiles[id] \in Record /\ profiles[id].policy = PolicyOf(profiles[id].print)
        BY <1>1, <4>1 DEF Inv, ProfilesInv, ProfilesAreWhole
      <4>3. profiles'[id].updated >= profiles[id].updated
        BY <4>1, <4>2, UpdatedIsWhole DEF Put, Present
      <4>4. \A i \in Present \ {id} : profiles'[i] = profiles[i]
        BY <4>1 DEF Put, Present
      <4>5. QED
        BY <4>3, <4>4
    <3>5. QED
      BY <3>1, <3>3, <3>4 DEF Storing
  <2>3. QED
    BY <2>1, <2>2
<1>2. Inv /\ [Next]_vars
        => [\A i \in Present \cap Present' : profiles'[i].updated >= profiles[i].updated]_vars
  BY <1>1
<1>3. QED
  BY SpecInv, <1>2, PTL DEF Spec, NeverUpdatedBack
=============================================================================
