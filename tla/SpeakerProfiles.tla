---------------------------- MODULE SpeakerProfiles ----------------------------
(***************************************************************************)
(* Known speakers (api.py, storage.py, speaker_snapshot.py): requests that *)
(* create, update and delete profiles, with uploaded samples from which a  *)
(* processor makes an embedding, and submissions that take a snapshot of   *)
(* the profiles they name.  Every store is one transaction; the samples    *)
(* are storage leases that are all to be given back before it.             *)
(***************************************************************************)
EXTENDS Integers, FiniteSets

CONSTANTS
    Ids, Requests, Jobs,
    Keys,           \* casefolded names
    Known,          \* profiles there are at the start
    Times,          \* what the wall clock may show; it may be set back
    MaxProfiles,    \* MAX_SPEAKER_PROFILES
    MinSamples, MaxSamples,
    MaxFailures     \* bound: releases that fail

ASSUME ProfilesAssumption ==
    /\ Times \subseteq Int /\ Times # {} /\ Known \subseteq Ids
    /\ MinSamples \in Nat \ {0} /\ MaxSamples \in Nat /\ MinSamples <= MaxSamples
    /\ MaxProfiles \in Nat /\ MaxFailures \in Nat

VARIABLES
    profiles,       \* the profiles there are, by id
    request,        \* each request: where it is, and what it asks for
    leases,         \* samples of each request in the ledger
    samples,        \* samples it still has to give back
    stuck,          \* samples it could not give back
    job,            \* each submission: waits, accepted, rejected
    snapshot        \* what it has of the profiles it names

vars == <<profiles, request, leases, samples, stuck, job, snapshot>>
store == <<profiles, job, snapshot>>
uploads == <<leases, samples, stuck>>

Names == [key : Keys, form : {"lower", "upper"}]
PolicyOf(print) == IF print = "old" THEN "old" ELSE "current"
Profile(name, print, policy, created, updated) ==
    [name |-> name, print |-> print, policy |-> policy, created |-> created, updated |-> updated]
Present == DOMAIN profiles

(* Fault: names are compared as they are written.                          *)
NameTakenExactly(name, others) == \E i \in others : profiles[i].name = name

(* The key of a name is unique, in whatever case it is written.            *)
NameTaken(name, others) == \E i \in others : profiles[i].name.key = name.key
Later(a, b) == IF a > b THEN a ELSE b

(* Known profiles have an embedding of the present policy or of an old one. *)
Init ==
    /\ \E name \in [Known -> Names], print \in [Known -> {"old", "new"}], t \in Times :
          /\ \A a, b \in Known : name[a].key = name[b].key => a = b
          /\ profiles = [i \in Known |-> Profile(name[i], print[i], PolicyOf(print[i]), t, t)]
    /\ request \in [Requests -> [at : {"uploads"}, kind : {"create", "update", "delete"},
                                 ok : {TRUE}, enrolled : {FALSE}]]
    /\ leases = [r \in Requests |-> 0] /\ samples = [r \in Requests |-> 0]
    /\ stuck = [r \in Requests |-> 0]
    /\ job = [j \in Jobs |-> "waits"] /\ snapshot = [j \in Jobs |-> {}]

-----------------------------------------------------------------------------
(* _prepare_speaker_change: the samples, the embedding, the clean-up.      *)
Kind(r) == request[r].kind
Moves(r, from, to) == request[r].at = from /\ request' = [request EXCEPT ![r].at = to]
Fails(r, from) ==
    /\ request[r].at = from
    /\ request' = [request EXCEPT ![r].at = "cleans", ![r].ok = FALSE]

BeginSample(r) ==
    /\ Kind(r) # "delete" /\ samples[r] < MaxSamples /\ Moves(r, "uploads", "open")
    /\ leases' = [leases EXCEPT ![r] = @ + 1]
    /\ samples' = [samples EXCEPT ![r] = @ + 1]
    /\ UNCHANGED <<store, stuck>>

SealSample(r) == Moves(r, "open", "uploads") /\ UNCHANGED <<store, uploads>>

(* Refused by admission, empty, too large, or the client has gone.         *)
UploadFails(r) ==
    /\ Kind(r) # "delete" /\ (Fails(r, "open") \/ Fails(r, "uploads"))
    /\ UNCHANGED <<store, uploads>>

(* An update may come without samples, which keeps the embedding.          *)
FieldsRead(r) ==
    /\ \/ Kind(r) # "delete" /\ samples[r] >= MinSamples /\ Moves(r, "uploads", "enrolls")
       \/ Kind(r) = "update" /\ samples[r] = 0 /\ Moves(r, "uploads", "cleans")
    /\ UNCHANGED <<store, uploads>>

EnrollmentEnds(r) ==
    /\ request[r].at = "enrolls"
    /\ \/ request' = [request EXCEPT ![r].at = "cleans", ![r].enrolled = TRUE]
       \/ Fails(r, "enrolls")
    /\ UNCHANGED <<store, uploads>>

Released(r) ==
    /\ leases' = [leases EXCEPT ![r] = @ - 1]
    /\ samples' = [samples EXCEPT ![r] = @ - 1]
    /\ UNCHANGED stuck

(* Fault: the first release that fails ends the clean-up.                  *)
CleanToFirstFailure(r) ==
    /\ request[r].at = "cleans" /\ samples[r] > 0
    /\ \/ Released(r)
       \/ /\ stuck[r] < MaxFailures
          /\ stuck' = [stuck EXCEPT ![r] = @ + 1]
          /\ samples' = [samples EXCEPT ![r] = 0]
          /\ UNCHANGED leases
    /\ UNCHANGED <<store, request>>

(* cleanup: a release that fails does not keep the others.                 *)
Clean(r) ==
    /\ request[r].at = "cleans" /\ samples[r] > 0
    /\ \/ Released(r)
       \/ /\ stuck[r] < MaxFailures
          /\ stuck' = [stuck EXCEPT ![r] = @ + 1]
          /\ samples' = [samples EXCEPT ![r] = @ - 1]
          /\ UNCHANGED leases
    /\ UNCHANGED <<store, request>>

Cleaned(r) ==
    /\ samples[r] = 0
    /\ Moves(r, "cleans", IF request[r].ok /\ stuck[r] = 0 THEN "stores" ELSE "over")
    /\ UNCHANGED <<store, uploads>>

-----------------------------------------------------------------------------
(* The stores, each in one transaction, with the time read just before it. *)
Put(id, profile) == profiles' = [i \in Present \cup {id} |-> IF i = id THEN profile ELSE profiles[i]]
Stores(r) == Moves(r, "stores", "over") /\ UNCHANGED <<uploads, job, snapshot>>

(* A generated id that is taken is generated again.                        *)
Create(r) ==
    /\ Kind(r) = "create" /\ Stores(r)
    /\ \E name \in Names :
          \/ /\ ~NameTaken(name, Present) /\ Cardinality(Present) < MaxProfiles
             /\ \E id \in Ids \ Present, now \in Times :
                   Put(id, Profile(name, r, PolicyOf(r), now, now))
          \/ /\ NameTaken(name, Present) \/ Cardinality(Present) >= MaxProfiles \/ Ids = Present
             /\ UNCHANGED profiles

Updated(r, old, name, now) ==
    IF request[r].enrolled
    THEN Profile(name, r, PolicyOf(r), old.created, Later(old.updated, now))
    ELSE Profile(name, old.print, old.policy, old.created, Later(old.updated, now))

Update(r) ==
    /\ Kind(r) = "update" /\ Stores(r)
    /\ \E id \in Ids, name \in Names :
          LET taken == NameTaken(name, Present \ {id}) IN
          \/ /\ id \in Present /\ ~taken
             /\ \E now \in Times : Put(id, Updated(r, profiles[id], name, now))
          \/ (id \notin Present \/ taken) /\ UNCHANGED profiles

Delete(r) ==
    /\ Kind(r) = "delete" /\ Moves(r, "uploads", "over")
    /\ \E id \in Ids : profiles' = [i \in Present \ {id} |-> profiles[i]]
    /\ UNCHANGED <<uploads, job, snapshot>>

Entry(id) == [id |-> id, name |-> profiles[id].name, print |-> profiles[id].print]
Usable(id) == id \in Present /\ profiles[id].policy = "current"
Becomes(j, state) == job[j] = "waits" /\ job' = [job EXCEPT ![j] = state]

(* Fault: the profiles are read one by one.                                *)
ResolveOneByOne(j) ==
    /\ \/ Becomes(j, "rejected") /\ UNCHANGED snapshot
       \/ Becomes(j, "accepted") /\ UNCHANGED snapshot
       \/ \E id \in Present \ {e.id : e \in snapshot[j]} :
             /\ Becomes(j, "waits") /\ Usable(id)
             /\ snapshot' = [snapshot EXCEPT ![j] = @ \cup {Entry(id)}]
    /\ UNCHANGED <<profiles, request, uploads>>

(* resolve_selected_speaker_snapshot: all of them, in one query, or none.  *)
Resolve(j) ==
    /\ \E ids \in SUBSET Ids :
          \/ /\ \A id \in ids : Usable(id)
             /\ Becomes(j, "accepted")
             /\ snapshot' = [snapshot EXCEPT ![j] = {Entry(id) : id \in ids}]
          \/ /\ \E id \in ids : ~Usable(id)
             /\ Becomes(j, "rejected") /\ UNCHANGED snapshot
    /\ UNCHANGED <<profiles, request, uploads>>

Over ==
    /\ \A r \in Requests : request[r].at = "over"
    /\ \A j \in Jobs : job[j] # "waits"
    /\ UNCHANGED vars

Next ==
    \/ \E r \in Requests :
          \/ BeginSample(r) \/ SealSample(r) \/ UploadFails(r) \/ FieldsRead(r)
          \/ EnrollmentEnds(r) \/ Clean(r) \/ Cleaned(r)
          \/ Create(r) \/ Update(r) \/ Delete(r)
    \/ \E j \in Jobs : Resolve(j)
    \/ Over

Spec == Init /\ [][Next]_vars

-----------------------------------------------------------------------------
TypeOK ==
    /\ Present \subseteq Ids
    /\ \A i \in Present : profiles[i] \in
          [name : Names, print : Requests \cup {"old", "new"}, policy : {"old", "current"},
           created : Times, updated : Times]
    /\ request \in [Requests -> [at : {"uploads", "open", "enrolls", "cleans", "stores", "over"},
                                kind : {"create", "update", "delete"}, ok : BOOLEAN, enrolled : BOOLEAN]]
    /\ leases \in [Requests -> Nat] /\ samples \in [Requests -> Nat] /\ stuck \in [Requests -> Nat]
    /\ job \in [Jobs -> {"waits", "accepted", "rejected"}]
    /\ snapshot \in [Jobs -> SUBSET [id : Ids, name : Names, print : Requests \cup {"old", "new"}]]

(* No two profiles ever have names that differ in case only, whatever      *)
(* requests create and rename at once (create_ and update_speaker_profile). *)
NamesUnique == \A a, b \in Present : profiles[a].name.key = profiles[b].name.key => a = b

(* A profile says of its embedding what the enrollment that made it was    *)
(* made under, however updates with and without samples follow each other  *)
(* (update_speaker_profile).                                               *)
ProfilesAreWhole == \A i \in Present : profiles[i].policy = PolicyOf(profiles[i].print)

(* The speakers of a submission were there at one moment: their names are  *)
(* distinct, and all were made under the present policy (publish_job).     *)
SnapshotOfOneMoment ==
    \A j \in Jobs : \A a, b \in snapshot[j] :
        /\ a.name.key = b.name.key \/ a.id = b.id => a = b
        /\ a.print # "old"

(* When a request stores or ends, it has given back every sample whose     *)
(* release did not fail (_SpeakerSampleUploads.cleanup).                   *)
SamplesReleased ==
    \A r \in Requests : request[r].at \in {"stores", "over"} => leases[r] = stuck[r]

(* A profile's update time never goes back, though the clock may: a row    *)
(* updated before it was created could not be read                         *)
(* (update_speaker_profile, SpeakerProfile.__post_init__).                 *)
NeverUpdatedBack ==
    [][\A i \in Present \cap Present' : profiles'[i].updated >= profiles[i].updated]_vars
=============================================================================
