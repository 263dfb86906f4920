---------------------------- MODULE EditionProofs ----------------------------
(***************************************************************************)
(* Proofs about the publication of an edition, for any articles, commands, *)
(* requests and workers and for every value of the bounds.                 *)
(*                                                                         *)
(* Two arguments carry them. A job that ended for good never changes, so   *)
(* a caller that saw it ended, however long ago, may append its successor: *)
(* only the last job of a chain can be live. And whatever a manifest       *)
(* froze only moves forward (versions, decisions), so a manifest that was  *)
(* replaced never matches the edition again.                               *)
(***************************************************************************)
EXTENDS EditionPublication, FiniteSetTheorems, SequenceTheorems, SetLemmas, TLAPS

(* A job that nobody can queue again.                                      *)
Over(row) == \/ row.status = "cancelled"
             \/ row.status = "failed" /\ row.attempt = MaxAttempts

(* Attempts are left to a queued job and spent by a running one; all jobs  *)
(* of a chain but the last are over; a chain belongs to a manifest, and a  *)
(* message to a job.                                                       *)
RowSound(row) ==
    /\ row.status = "queued" => row.attempt < MaxAttempts
    /\ row.status = "running" => row.attempt > 0

ChainSound(c) ==
    /\ \A i \in DOMAIN jobs[c] : RowSound(jobs[c][i])
    /\ \A i \in DOMAIN jobs[c] : i < Len(jobs[c]) => Over(jobs[c][i])
    /\ Len(jobs[c]) > 0 => c[2] \in DOMAIN manifests

ChainsSound == \A c \in Chains : ChainSound(c)
QueueSound == \A x \in queue : x[2] \in DOMAIN jobs[x[1]]

(* What a process executes exists; what it assures belongs to a manifest;  *)
(* the job it read exists, and is as it was if it was over.                *)
ProcSound(p) ==
    /\ p \in Workers /\ proc[p].pc # "idle" =>
         proc[p].job \in DOMAIN jobs[proc[p].chain]
    /\ proc[p].pc \in {"look", "assure", "dispatch"} =>
         proc[p].target[2] \in DOMAIN manifests
    /\ proc[p].pc = "dispatch" => proc[p].seen.number # 0
    /\ proc[p].pc \in {"assure", "dispatch"} /\ proc[p].seen.number # 0 =>
         /\ proc[p].seen.number \in DOMAIN jobs[proc[p].target]
         /\ Over(proc[p].seen.row) =>
              jobs[proc[p].target][proc[p].seen.number] = proc[p].seen.row

ProcsSound == \A p \in Procs : ProcSound(p)

(* The work of the jobs.                                                   *)
WorkInv == ChainsSound /\ QueueSound /\ ProcsSound

(* An applied command has its answer; a command that is not a replacement  *)
(* names one article.                                                      *)
CommandSound(k) ==
    /\ events[k] # 0 => /\ commands[k].kind # "none"
                        /\ commands[k].answer \in {"done", "archived"}
    /\ commands[k].kind \notin {"none", "replace"} =>
         \E s \in Subjects : commands[k].targets = {s}

CommandsSound == \A k \in Keys : CommandSound(k)

EntriesSound == \A s \in Subjects :
    composition.entries[s].disposition = "included" =>
        composition.entries[s].decision = 0

(* The inputs of a manifest are not ahead of the edition; as long as the   *)
(* composition has not moved they are its entries, with a decision that    *)
(* was the effective one and did not exclude.                              *)
FrozenSound(e) ==
    /\ e.decision <= EffectiveDecision(e.subject, e.pin)
    /\ e.decision # 0 => /\ e.decision \in DOMAIN decisions
                         /\ ~decisions[e.decision].exclude

ManifestSound(m) ==
    LET inputs == manifests[m].inputs IN
    /\ inputs.edition <= edition.version
    /\ inputs.composition <= composition.version
    /\ \A e \in inputs.entries : FrozenSound(e)
    /\ inputs.composition = composition.version =>
         /\ \A e \in inputs.entries : e.subject \in With("included")
               /\ e.pin = composition.entries[e.subject].pin
         /\ \A s \in With("included") : \E e \in inputs.entries : e.subject = s
         /\ inputs.exclusions = {<<s, composition.entries[s].decision>> :
                                   s \in With("excluded")}

(* Something it froze has moved: it will never match again.                *)
Past(m) ==
    LET inputs == manifests[m].inputs IN
    \/ inputs.edition < edition.version
    \/ inputs.composition < composition.version
    \/ \E e \in inputs.entries : e.decision < EffectiveDecision(e.subject, e.pin)

ManifestsSound ==
    /\ \A m \in DOMAIN manifests : ManifestSound(m)
    /\ \A m \in DOMAIN manifests :
         m < Len(manifests) => manifests[m].released \/ Past(m)

(* The inductive invariant.                                                *)
EdInv == TypeOK /\ WorkInv /\ CommandsSound /\ EntriesSound /\ ManifestsSound

-----------------------------------------------------------------------------
(* Facts about the operators.                                              *)

(* The effective decision of any journal, to speak of it before and after  *)
(* a step.                                                                 *)
EffectiveIn(D, s, pin) ==
    Max({0} \union {i \in DOMAIN D : D[i].subject = s /\ D[i].pin = pin})

LEMMA EffectiveInJournal ==
  ASSUME NEW D \in Seq(Decision), NEW s, NEW pin
  PROVE  /\ EffectiveIn(D, s, pin) \in {0} \union DOMAIN D
         /\ EffectiveIn(D, s, pin) \in 0..Len(D)
         /\ \A i \in DOMAIN D : D[i].subject = s /\ D[i].pin = pin =>
              i <= EffectiveIn(D, s, pin)
         /\ EffectiveIn(D, s, pin) # 0 =>
              /\ D[EffectiveIn(D, s, pin)].subject = s
              /\ D[EffectiveIn(D, s, pin)].pin = pin
<1> DEFINE S == {0} \union {i \in DOMAIN D : D[i].subject = s /\ D[i].pin = pin}
<1>1. Len(D) \in Nat /\ DOMAIN D = 1..Len(D)
  OBVIOUS
<1>2. S \in SUBSET (0..Len(D)) /\ S # {}
  BY <1>1
<1>3. EffectiveIn(D, s, pin) = Max(S)
  BY DEF EffectiveIn
<1>4. Max(S) \in S /\ \A y \in S : y <= Max(S)
  <2> HIDE DEF S
  <2> QED
    BY <1>1, <1>2, MaxOfBounded
<1> QED
  BY <1>1, <1>3, <1>4

(* A further decision does not bring an older one back into effect.        *)
LEMMA EffectiveGrows ==
  ASSUME NEW D \in Seq(Decision), NEW d \in Decision, NEW s, NEW pin
  PROVE  EffectiveIn(D, s, pin) <= EffectiveIn(Append(D, d), s, pin)
<1> DEFINE E == Append(D, d)
           x == EffectiveIn(D, s, pin)
           y == EffectiveIn(Append(D, d), s, pin)
<1>1. /\ E \in Seq(Decision) /\ Len(E) = Len(D) + 1
      /\ \A i \in 1..Len(D) : E[i] = D[i]
  BY AppendProperties
<1>2. y \in 0..Len(E)
  BY <1>1, EffectiveInJournal
<1>3. x \in 0..Len(D)
  BY EffectiveInJournal
<1>4. CASE x = 0
  BY <1>1, <1>2, <1>4
<1>5. CASE x # 0
  <2>1. x \in DOMAIN D /\ D[x].subject = s /\ D[x].pin = pin
    BY <1>5, EffectiveInJournal
  <2>2. x \in DOMAIN E /\ E[x].subject = s /\ E[x].pin = pin
    <3> HIDE DEF x, E
    <3> QED
      BY <2>1, <1>1
  <2> QED
    BY <2>2, <1>1, EffectiveInJournal
<1> QED
  BY <1>4, <1>5

LEMMA EffectiveIsIn ==
  \A s, pin : EffectiveDecision(s, pin) = EffectiveIn(decisions, s, pin)
BY DEF EffectiveDecision, EffectiveIn

(* The constants of the model have their types.                            *)
LEMMA ConstantTypes ==
  /\ NoPin \notin Pins
  /\ Absent \in Entry /\ Deferred \in Entry
  /\ \A pin \in Pins \union {NoPin} : Included(pin) \in Entry
  /\ \A pin \in Pins \union {NoPin}, d \in 0..MaxDecisions : Excluded(pin, d) \in Entry
  /\ NewJob \in Job /\ RowSound(NewJob)
  /\ NoCommand \in Command
  /\ Anywhere \in Chains
  /\ Nothing \in [number : 0..MaxJobs, row : Job]
  /\ Idle \in Proc
<1> USE PublicationAssumption
<1>1. NoPin \notin Pins
  BY DEF NoPin, Pins
<1>2. /\ Absent \in Entry /\ Deferred \in Entry
      /\ \A pin \in Pins \union {NoPin} : Included(pin) \in Entry
      /\ \A pin \in Pins \union {NoPin}, d \in 0..MaxDecisions : Excluded(pin, d) \in Entry
  BY DEF Absent, Deferred, Included, Excluded, Entry, Disposition
<1>3. NewJob \in Job /\ RowSound(NewJob)
  BY DEF NewJob, Job, JobStatus, RowSound
<1>4. NoCommand \in Command
  BY DEF NoCommand, Command, CommandKind, Answer
<1>5. Anywhere \in Chains
  BY DEF Anywhere, Chains, Manifests
<1>6. Nothing \in [number : 0..MaxJobs, row : Job]
  BY <1>3 DEF Nothing
<1>7. Idle \in Proc
  BY <1>5, <1>6 DEF Idle, Proc, ProcPc
<1> QED
  BY <1>1, <1>2, <1>3, <1>4, <1>5, <1>6, <1>7

(* The initial state satisfies the invariant.                              *)
LEMMA InitSound == Init => EdInv
<1> SUFFICES ASSUME Init PROVE EdInv
  OBVIOUS
<1> USE PublicationAssumption DEF Init
<1>1. TypeOK
  <2>1. edition \in [open : BOOLEAN, version : 1..MaxEdition]
    OBVIOUS
  <2>2. production \in [Subjects -> Run]
    BY DEF Run
  <2>3. composition \in [version : Nat, entries : [Subjects -> Entry]]
    BY ConstantTypes
  <2>4. decisions \in Seq(Decision) /\ Len(decisions) <= MaxDecisions
    OBVIOUS
  <2>5. commands \in [Keys -> Command] /\ events \in [Keys -> Nat]
    BY ConstantTypes
  <2>6. manifests \in Seq(Manifest) /\ Len(manifests) <= MaxManifests
    OBVIOUS
  <2>7. jobs \in [Chains -> Seq(Job)] /\ \A c \in Chains : Len(jobs[c]) <= MaxJobs
    OBVIOUS
  <2>8. proc \in [Procs -> Proc]
    BY ConstantTypes
  <2> QED
    BY <2>1, <2>2, <2>3, <2>4, <2>5, <2>6, <2>7, <2>8 DEF TypeOK
<1>2. WorkInv
  BY DEF WorkInv, ChainsSound, ChainSound, QueueSound, ProcsSound, ProcSound, Idle
<1>3. CommandsSound
  BY DEF CommandsSound, CommandSound, NoCommand
<1>4. EntriesSound
  BY DEF EntriesSound, Absent
<1>5. ManifestsSound
  BY DEF ManifestsSound
<1> QED
  BY <1>1, <1>2, <1>3, <1>4, <1>5 DEF EdInv

-----------------------------------------------------------------------------
(* Changes of the edition, of documents, of decisions and of the           *)
(* composition: the work of the jobs and the manifests are left alone.     *)

WorkUnchanged == UNCHANGED <<manifests, jobs, queue, proc, losses>>

(* The edition moves forward.                                              *)
Forward ==
    /\ edition.version <= edition'.version
    /\ composition' = composition \/ composition'.version = composition.version + 1
    /\ decisions' = decisions \/ \E d \in Decision : decisions' = Append(decisions, d)

LEMMA ManifestTypes ==
  ASSUME TypeOK
  PROVE  /\ edition.version \in Nat /\ composition.version \in Nat
         /\ \A m \in DOMAIN manifests :
              /\ manifests[m] \in Manifest
              /\ manifests[m].inputs \in Inputs
              /\ manifests[m].inputs.edition \in Nat
              /\ manifests[m].inputs.composition \in Nat
              /\ \A e \in manifests[m].inputs.entries :
                   e \in Frozen /\ e.decision \in Nat
         /\ Len(manifests) \in Nat /\ DOMAIN manifests = 1..Len(manifests)
         /\ Len(decisions) \in Nat /\ DOMAIN decisions = 1..Len(decisions)
         /\ \A s, pin : EffectiveDecision(s, pin) \in 0..MaxDecisions
<1> USE PublicationAssumption
<1>1. edition.version \in Nat /\ composition.version \in Nat
  BY DEF TypeOK
<1>2. /\ Len(manifests) \in Nat /\ DOMAIN manifests = 1..Len(manifests)
      /\ Len(decisions) \in Nat /\ DOMAIN decisions = 1..Len(decisions)
  BY DEF TypeOK
<1>3. \A m \in DOMAIN manifests : manifests[m] \in Manifest
  BY <1>2 DEF TypeOK
<1>4. \A m \in DOMAIN manifests : manifests[m].inputs \in Inputs
  BY <1>3 DEF Manifest
<1>5. \A m \in DOMAIN manifests :
        /\ manifests[m].inputs.edition \in Nat
        /\ manifests[m].inputs.composition \in Nat
        /\ \A e \in manifests[m].inputs.entries : e \in Frozen
  BY <1>4 DEF Inputs
<1>6. \A m \in DOMAIN manifests : \A e \in manifests[m].inputs.entries :
        e.decision \in Nat
  BY <1>5 DEF Frozen
<1>7. \A s, pin : EffectiveDecision(s, pin) \in 0..MaxDecisions
  <2> SUFFICES ASSUME NEW s, NEW pin PROVE EffectiveDecision(s, pin) \in 0..MaxDecisions
    OBVIOUS
  <2>1. EffectiveIn(decisions, s, pin) \in 0..Len(decisions)
    BY EffectiveInJournal DEF TypeOK
  <2> QED
    BY <2>1, <1>2, EffectiveIsIn DEF TypeOK
<1> QED
  BY <1>1, <1>2, <1>3, <1>4, <1>5, <1>6, <1>7

LEMMA ManifestsForward ==
  ASSUME TypeOK, TypeOK', ManifestsSound, manifests' = manifests, Forward
  PROVE  ManifestsSound'
<1> USE ManifestTypes, PublicationAssumption
<1>1. \A s, pin : EffectiveDecision(s, pin) <= EffectiveDecision(s, pin)'
  <2> SUFFICES ASSUME NEW s, NEW pin
               PROVE  EffectiveDecision(s, pin) <= EffectiveDecision(s, pin)'
    OBVIOUS
  <2>1. EffectiveDecision(s, pin)' = EffectiveIn(decisions', s, pin)
    BY DEF EffectiveDecision, EffectiveIn
  <2>2. EffectiveDecision(s, pin) = EffectiveIn(decisions, s, pin)
    BY EffectiveIsIn
  <2>3. decisions \in Seq(Decision)
    BY DEF TypeOK
  <2>4. CASE decisions' = decisions
    BY <2>1, <2>2, <2>4
  <2>5. CASE \E d \in Decision : decisions' = Append(decisions, d)
    BY <2>1, <2>2, <2>3, <2>5, EffectiveGrows
  <2> QED
    BY <2>4, <2>5 DEF Forward
<1>2. \A s, pin : EffectiveDecision(s, pin)' \in Nat
  <2> SUFFICES ASSUME NEW s, NEW pin PROVE EffectiveDecision(s, pin)' \in Nat
    OBVIOUS
  <2>1. EffectiveDecision(s, pin)' = EffectiveIn(decisions', s, pin)
    BY DEF EffectiveDecision, EffectiveIn
  <2>2. decisions' \in Seq(Decision) /\ Len(decisions') \in Nat
    BY DEF TypeOK
  <2> QED
    BY <2>1, <2>2, EffectiveInJournal
<1>3. /\ DOMAIN decisions \subseteq DOMAIN decisions'
      /\ \A i \in DOMAIN decisions : decisions'[i] = decisions[i]
  <2>1. decisions \in Seq(Decision)
    BY DEF TypeOK
  <2>2. \A d \in Decision : /\ DOMAIN Append(decisions, d) = 1..(Len(decisions) + 1)
                            /\ \A i \in 1..Len(decisions) :
                                 Append(decisions, d)[i] = decisions[i]
    BY <2>1, AppendProperties
  <2>3. Len(decisions) \in Nat /\ DOMAIN decisions = 1..Len(decisions)
    BY <2>1
  <2> QED
    BY <2>2, <2>3 DEF Forward
<1>4. /\ edition'.version \in Nat /\ composition'.version \in Nat
      /\ edition.version <= edition'.version
      /\ composition.version <= composition'.version
      /\ composition'.version = composition.version => composition' = composition
  <2>1. /\ edition'.version \in Nat /\ composition'.version \in Nat
        /\ composition.version \in Nat
    BY DEF TypeOK
  <2> QED
    BY <2>1 DEF Forward
<1>5. ASSUME NEW m \in DOMAIN manifests, NEW e \in manifests[m].inputs.entries,
             FrozenSound(e)
      PROVE  FrozenSound(e)'
  <2>1. e.decision <= EffectiveDecision(e.subject, e.pin)'
    BY <1>1, <1>2, <1>5 DEF FrozenSound
  <2> QED
    BY <2>1, <1>3, <1>5 DEF FrozenSound
<1>6. ASSUME NEW m \in DOMAIN manifests PROVE ManifestSound(m)'
  <2>1. ManifestSound(m)
    BY DEF ManifestsSound
  <2>2. /\ manifests'[m].inputs.edition <= edition'.version
        /\ manifests'[m].inputs.composition <= composition'.version
    BY <2>1, <1>4 DEF ManifestSound
  <2>3. \A e \in manifests'[m].inputs.entries : FrozenSound(e)'
    BY <2>1, <1>5 DEF ManifestSound
  <2>4. manifests'[m].inputs.composition = composition'.version =>
          composition' = composition
    BY <2>1, <1>4 DEF ManifestSound
  <2> QED
    BY <2>1, <2>2, <2>3, <2>4 DEF ManifestSound, With
<1>7. ASSUME NEW m \in DOMAIN manifests, Past(m) PROVE Past(m)'
  BY <1>1, <1>2, <1>4, <1>7 DEF Past
<1> QED
  BY <1>6, <1>7 DEF ManifestsSound

(* What has to be shown of an editorial step.                              *)
LEMMA EditorialFrame ==
  ASSUME EdInv, TypeOK', WorkUnchanged, Forward, CommandsSound', EntriesSound'
  PROVE  EdInv'
<1>1. ManifestsSound'
  BY ManifestsForward DEF EdInv, WorkUnchanged
<1>2. WorkInv'
  BY DEF EdInv, WorkUnchanged, WorkInv, ChainsSound, ChainSound, QueueSound,
         ProcsSound, ProcSound
<1> QED
  BY <1>1, <1>2 DEF EdInv

LEMMA EditionSteps ==
  ASSUME EdInv, UpdateEdition \/ ArchiveEdition
  PROVE  EdInv'
<1> USE PublicationAssumption
<1>1. /\ edition' \in [open : BOOLEAN, version : 1..MaxEdition]
      /\ edition.version <= edition'.version
  <2>1. edition \in [open : BOOLEAN, version : 1..MaxEdition]
    BY DEF EdInv, TypeOK
  <2>2. edition.version + 1 \in 1..MaxEdition
    BY <2>1 DEF UpdateEdition, ArchiveEdition
  <2>3. edition'.version = edition.version + 1
    BY <2>1 DEF UpdateEdition, ArchiveEdition
  <2>4. edition' \in [open : BOOLEAN, version : 1..MaxEdition]
    <3>1. CASE UpdateEdition
      BY <2>1, <2>2, <3>1 DEF UpdateEdition
    <3>2. CASE ArchiveEdition
      BY <2>1, <2>2, <3>2 DEF ArchiveEdition
    <3> QED
      BY <3>1, <3>2
  <2> QED
    BY <2>1, <2>3, <2>4
<1>2. UNCHANGED <<production, composition, decisions, commands, events, manifests,
                  jobs, queue, proc, losses>>
  BY DEF UpdateEdition, ArchiveEdition
<1>3. TypeOK'
  BY <1>1, <1>2 DEF EdInv, TypeOK
<1>4. CommandsSound' /\ EntriesSound'
  BY <1>2 DEF EdInv, CommandsSound, CommandSound, EntriesSound
<1> QED
  BY <1>1, <1>2, <1>3, <1>4, EditorialFrame DEF WorkUnchanged, Forward

LEMMA SetRunSound ==
  ASSUME EdInv, NEW s \in Subjects, NEW run \in Run, SetRun(s, run)
  PROVE  EdInv'
<1>1. production' \in [Subjects -> Run]
  BY DEF EdInv, TypeOK, SetRun
<1>2. UNCHANGED <<edition, composition, decisions, commands, events, manifests,
                  jobs, queue, proc, losses>>
  BY DEF SetRun
<1>3. TypeOK'
  BY <1>1, <1>2 DEF EdInv, TypeOK
<1>4. CommandsSound' /\ EntriesSound'
  BY <1>2 DEF EdInv, CommandsSound, CommandSound, EntriesSound
<1>5. edition.version <= edition'.version
  BY <1>2, PublicationAssumption DEF EdInv, TypeOK
<1> QED
  BY <1>2, <1>3, <1>4, <1>5, EditorialFrame DEF WorkUnchanged, Forward

LEMMA RunSteps ==
  ASSUME EdInv, NEW s \in Subjects, NEW b \in BOOLEAN,
         RetryRun(s) \/ AugmentDocument(s) \/ RunEnds(s, b) \/ RepairDocument(s, b)
  PROVE  EdInv'
<1> USE PublicationAssumption
<1>1. production[s] \in Run
  BY DEF EdInv, TypeOK
<1>2. CASE RetryRun(s)
  <2> DEFINE r == [production[s] EXCEPT !.generation = @ + 1, !.status = "running",
                                        !.verified = {}]
  <2>0. production[s].generation + 1 \in 1..MaxGeneration
    BY <1>1, <1>2 DEF RetryRun, Run
  <2>1. r \in Run
    BY <1>1, <2>0 DEF Run
  <2>2. SetRun(s, r)
    BY <1>2 DEF RetryRun
  <2> QED
    BY <2>1, <2>2, SetRunSound
<1>3. CASE AugmentDocument(s)
  <2> DEFINE r == [production[s] EXCEPT !.latest = @ + 1,
                     !.verified = @ \union {production[s].latest + 1}]
  <2>0. /\ production[s].latest + 1 \in 0..MaxDocument
        /\ production[s].verified \union {production[s].latest + 1} \in
             SUBSET (1..MaxDocument)
    BY <1>1, <1>3 DEF AugmentDocument, Run
  <2>1. r \in Run
    BY <1>1, <2>0 DEF Run
  <2>2. SetRun(s, r)
    BY <1>3 DEF AugmentDocument
  <2> QED
    BY <2>1, <2>2, SetRunSound
<1>4. CASE RunEnds(s, b)
  <2> DEFINE r == IF b THEN [production[s] EXCEPT !.status = "ready", !.latest = @ + 1,
                               !.verified = {production[s].latest + 1}]
                  ELSE [production[s] EXCEPT !.status = "failed"]
  <2>0. b => /\ production[s].latest + 1 \in 0..MaxDocument
             /\ {production[s].latest + 1} \in SUBSET (1..MaxDocument)
    BY <1>1, <1>4 DEF RunEnds, Run
  <2>1. r \in Run
    <3>1. CASE b
      BY <1>1, <2>0, <3>1 DEF Run
    <3>2. CASE ~b
      BY <1>1, <3>2 DEF Run
    <3> QED
      BY <3>1, <3>2
  <2>2. SetRun(s, r)
    BY <1>4 DEF RunEnds
  <2> QED
    BY <2>1, <2>2, SetRunSound
<1>5. CASE RepairDocument(s, b)
  <2> DEFINE r == IF b THEN [production[s] EXCEPT !.latest = @ + 1,
                               !.verified = {production[s].latest + 1}]
                  ELSE [production[s] EXCEPT !.status = "failed", !.verified = {}]
  <2>0. b => /\ production[s].latest + 1 \in 0..MaxDocument
             /\ {production[s].latest + 1} \in SUBSET (1..MaxDocument)
    BY <1>1, <1>5 DEF RepairDocument, Run
  <2>1. r \in Run
    <3>1. CASE b
      BY <1>1, <2>0, <3>1 DEF Run
    <3>2. CASE ~b
      BY <1>1, <3>2 DEF Run
    <3> QED
      BY <3>1, <3>2
  <2>2. SetRun(s, r)
    BY <1>5 DEF RepairDocument
  <2> QED
    BY <2>1, <2>2, SetRunSound
<1> QED
  BY <1>2, <1>3, <1>4, <1>5

(* The pins of the model's operators.                                      *)
LEMMA PinTypes ==
  ASSUME TypeOK, NEW s \in Subjects
  PROVE  /\ LatestPin(s) \in Pins \union {NoPin}
         /\ ExclusionIdentity(s) \in Pins \union {NoPin}
         /\ composition.entries[s] \in Entry
         /\ \A pin \in Pins \union {NoPin} : PinIsCurrent(s, pin) => pin \in Pins
<1> USE PublicationAssumption
<1>1. production[s] \in Run /\ composition.entries[s] \in Entry
  BY DEF TypeOK
<1>2. production[s].verified # {} =>
        Max(production[s].verified) \in production[s].verified
  <2>1. production[s].verified \in SUBSET (0..MaxDocument)
    BY <1>1 DEF Run
  <2> QED
    BY <2>1, MaxOfBounded
<1>3. LatestPin(s) \in Pins \union {NoPin}
  BY <1>1, <1>2 DEF LatestPin, Pins, Run
<1>4. composition.entries[s].pin \in Pins \union {NoPin}
  BY <1>1 DEF Entry
<1>5. [generation |-> production[s].generation, document |-> 0] \in Pins
  BY <1>1 DEF Pins, Run
<1>6. ExclusionIdentity(s) \in Pins \union {NoPin}
  BY <1>3, <1>4, <1>5 DEF ExclusionIdentity
<1>7. \A pin \in Pins \union {NoPin} : PinIsCurrent(s, pin) => pin \in Pins
  BY <1>1 DEF PinIsCurrent, NoPin, Pins, Run
<1> QED
  BY <1>1, <1>3, <1>6, <1>7

LEMMA DecideSound ==
  ASSUME EdInv, NEW s \in Subjects, NEW b \in BOOLEAN, Decide(s, b)
  PROVE  EdInv'
<1> USE PublicationAssumption
<1> DEFINE d == [subject |-> s, pin |-> composition.entries[s].pin, exclude |-> b]
<1>1. composition.entries[s].pin \in Pins
  BY PinTypes DEF EdInv, Decide, Entry
<1>2. d \in Decision /\ decisions' = Append(decisions, d)
  BY <1>1 DEF Decision, Decide
<1>3. decisions' \in Seq(Decision) /\ Len(decisions') <= MaxDecisions
  <2> HIDE DEF d
  <2>1. decisions \in Seq(Decision) /\ Len(decisions) < MaxDecisions
    BY DEF EdInv, TypeOK, Decide
  <2> QED
    BY <1>2, <2>1, AppendProperties
<1>4. UNCHANGED <<edition, production, composition, commands, events, manifests,
                  jobs, queue, proc, losses>>
  BY DEF Decide
<1>5. TypeOK'
  BY <1>3, <1>4 DEF EdInv, TypeOK
<1>6. CommandsSound' /\ EntriesSound'
  BY <1>4 DEF EdInv, CommandsSound, CommandSound, EntriesSound
<1>7. edition.version <= edition'.version
  BY <1>4 DEF EdInv, TypeOK
<1> QED
  BY <1>2, <1>4, <1>5, <1>6, <1>7, EditorialFrame DEF WorkUnchanged, Forward

LEMMA IssueSound ==
  ASSUME EdInv, NEW k \in Keys, NEW kind \in CommandKind, NEW targets \in SUBSET Subjects,
         IssueCommand(k, kind, targets)
  PROVE  EdInv'
<1> USE PublicationAssumption
<1> DEFINE pins == [s \in Subjects |->
              IF s \in targets /\ kind \in {"include", "replace"} THEN LatestPin(s) ELSE NoPin]
           c == [kind |-> kind, targets |-> targets, pins |-> pins,
                 expected |-> composition.version, answer |-> "none"]
<1>1. pins \in [Subjects -> Pins \union {NoPin}]
  BY PinTypes DEF EdInv
<1>2. c \in Command
  <2> HIDE DEF pins
  <2> QED
    BY <1>1 DEF Command, Answer, EdInv, TypeOK
<1>3. commands' = [commands EXCEPT ![k] = c]
  BY DEF IssueCommand
<1>4. UNCHANGED <<edition, production, composition, decisions, events, manifests,
                  jobs, queue, proc, losses>>
  BY DEF IssueCommand
<1>5. TypeOK'
  <2> HIDE DEF c
  <2>1. commands' \in [Keys -> Command]
    BY <1>2, <1>3 DEF EdInv, TypeOK
  <2> QED
    BY <2>1, <1>4 DEF EdInv, TypeOK
<1>6. CommandsSound'
  <2> SUFFICES ASSUME NEW j \in Keys PROVE CommandSound(j)'
    BY DEF CommandsSound
  <2>1. CommandSound(j) /\ commands \in [Keys -> Command]
    BY DEF EdInv, CommandsSound, TypeOK
  <2>2. CASE j = k
    BY <2>1, <2>2, <1>3, <1>4 DEF CommandSound, IssueCommand
  <2>3. CASE j # k
    BY <2>1, <2>3, <1>3, <1>4 DEF CommandSound
  <2> QED
    BY <2>2, <2>3
<1>7. EntriesSound'
  BY <1>4 DEF EdInv, EntriesSound
<1>8. edition.version <= edition'.version
  BY <1>4 DEF EdInv, TypeOK
<1> QED
  BY <1>4, <1>5, <1>6, <1>7, <1>8, EditorialFrame DEF WorkUnchanged, Forward

(* A command that changes nothing but its answer.                          *)
LEMMA AnswerSound ==
  ASSUME EdInv, NEW k \in Keys, NEW answer \in Answer, commands[k].kind # "none",
         events[k] # 0 => answer \in {"done", "archived"},
         AnswerCommand(k, answer), UNCHANGED <<edition, production>>, WorkUnchanged
  PROVE  EdInv'
<1>1. UNCHANGED <<edition, production, composition, decisions, events, manifests,
                  jobs, queue, proc, losses>>
  BY DEF AnswerCommand, WorkUnchanged
<1>2. commands' = [commands EXCEPT ![k].answer = answer]
  BY DEF AnswerCommand
<1>3. commands \in [Keys -> Command]
  BY DEF EdInv, TypeOK
<1>4. commands' \in [Keys -> Command]
  BY <1>2, <1>3 DEF Command
<1>5. TypeOK'
  BY <1>1, <1>4 DEF EdInv, TypeOK
<1>6. CommandsSound'
  <2> SUFFICES ASSUME NEW j \in Keys PROVE CommandSound(j)'
    BY DEF CommandsSound
  <2>1. CommandSound(j)
    BY DEF EdInv, CommandsSound
  <2>2. /\ commands'[j].kind = commands[j].kind
        /\ commands'[j].targets = commands[j].targets
        /\ commands'[j].answer = IF j = k THEN answer ELSE commands[j].answer
    BY <1>2, <1>3 DEF Command
  <2> QED
    BY <2>1, <2>2, <1>1 DEF CommandSound
<1>7. EntriesSound'
  BY <1>1 DEF EdInv, EntriesSound
<1>8. edition.version <= edition'.version
  BY <1>1, PublicationAssumption DEF EdInv, TypeOK
<1> QED
  BY <1>1, <1>5, <1>6, <1>7, <1>8, EditorialFrame DEF WorkUnchanged, Forward

(* The entries a command asks for.                                         *)
LEMMA RequestedTypes ==
  ASSUME EdInv, NEW k \in Keys, commands[k].kind # "none",
         commands[k].kind = "exclude" => Len(decisions) < MaxDecisions
  PROVE  /\ Requested(commands[k]) \in [Subjects -> Entry]
         /\ \A s \in Subjects : Requested(commands[k])[s].disposition = "included" =>
              Requested(commands[k])[s].decision = 0
         /\ commands[k].kind = "exclude" => \A s \in commands[k].targets :
              Requested(commands[k])[s].disposition = "excluded"
<1> USE PublicationAssumption
<1> DEFINE c == commands[k]
           old == composition.entries
<1>1. c \in Command /\ old \in [Subjects -> Entry]
  BY DEF EdInv, TypeOK
<1>2. /\ c.kind \in CommandKind /\ c.pins \in [Subjects -> Pins \union {NoPin}]
      /\ c.targets \subseteq Subjects
  BY <1>1 DEF Command
<1>3. \A s \in Subjects : old[s].disposition = "included" => old[s].decision = 0
  BY DEF EdInv, EntriesSound
<1>4. \A pin \in Pins \union {NoPin} : /\ Included(pin) \in Entry
                                       /\ Included(pin).decision = 0
  BY ConstantTypes DEF Included
<1>5. /\ Absent \in Entry /\ Absent.disposition # "included"
      /\ Deferred \in Entry /\ Deferred.disposition # "included"
  BY ConstantTypes DEF Absent, Deferred
<1>6. c.kind = "exclude" => \A s \in Subjects :
        LET e == Excluded(ExclusionIdentity(s), Len(decisions) + 1)
        IN  e \in Entry /\ e.disposition = "excluded"
  <2> SUFFICES ASSUME c.kind = "exclude", NEW s \in Subjects
               PROVE  LET e == Excluded(ExclusionIdentity(s), Len(decisions) + 1)
                      IN  e \in Entry /\ e.disposition = "excluded"
    OBVIOUS
  <2>1. ExclusionIdentity(s) \in Pins \union {NoPin}
    BY PinTypes DEF EdInv
  <2>2. Len(decisions) + 1 \in 0..MaxDecisions
    BY DEF EdInv, TypeOK
  <2> QED
    BY <2>1, <2>2, ConstantTypes DEF Excluded
<1>7. CASE c.kind = "replace"
  <2>1. Requested(c) = [s \in Subjects |->
          IF s \in c.targets THEN Included(c.pins[s]) ELSE Absent]
    BY <1>7 DEF Requested
  <2> HIDE DEF c, old
  <2> QED
    BY <2>1, <1>2, <1>4, <1>5, <1>7 DEF c
<1>8. CASE c.kind = "reorder"
  <2>1. Requested(c) = old
    BY <1>8 DEF Requested
  <2> HIDE DEF c, old
  <2> QED
    BY <2>1, <1>1, <1>3, <1>8 DEF c
<1>9. CASE c.kind = "include"
  <2>1. Requested(c) = [s \in Subjects |->
          IF s \notin c.targets THEN old[s] ELSE Included(c.pins[s])]
    BY <1>9 DEF Requested
  <2> HIDE DEF c, old
  <2> QED
    BY <2>1, <1>1, <1>2, <1>3, <1>4, <1>9 DEF c
<1>10. CASE c.kind = "defer"
  <2>1. Requested(c) = [s \in Subjects |-> IF s \notin c.targets THEN old[s] ELSE Deferred]
    BY <1>10 DEF Requested
  <2> HIDE DEF c, old
  <2> QED
    BY <2>1, <1>1, <1>2, <1>3, <1>5, <1>10 DEF c
<1>11. CASE c.kind = "exclude"
  <2>1. Requested(c) = [s \in Subjects |-> IF s \notin c.targets THEN old[s]
          ELSE Excluded(ExclusionIdentity(s), Len(decisions) + 1)]
    BY <1>11 DEF Requested
  <2> HIDE DEF c, old
  <2> QED
    BY <2>1, <1>1, <1>2, <1>3, <1>6, <1>11 DEF c
<1> QED
  BY <1>2, <1>7, <1>8, <1>9, <1>10, <1>11 DEF CommandKind

(* A command that is applied.                                              *)
Applies(k) ==
    LET c == commands[k]
        entries == Requested(c) IN
    /\ c.kind # "none"
    /\ composition.version = c.expected /\ ReferencesAreValid(entries)
    /\ c.kind = "exclude" => Len(decisions) < MaxDecisions
    /\ composition' = [version |-> composition.version + 1, entries |-> entries]
    /\ decisions' = IF c.kind # "exclude" THEN decisions
          ELSE LET s == CHOOSE s \in c.targets : TRUE IN Append(decisions,
                 [subject |-> s, pin |-> entries[s].pin, exclude |-> TRUE])
    /\ events' = [events EXCEPT ![k] = composition.version + 1]
    /\ commands' = [commands EXCEPT ![k].answer = "done"]

LEMMA AppliesSound ==
  ASSUME EdInv, NEW k \in Keys, Applies(k),
         UNCHANGED <<edition, production>>, WorkUnchanged
  PROVE  EdInv'
<1> USE PublicationAssumption
<1> DEFINE c == commands[k]
           entries == Requested(c)
<1>1. /\ c.kind # "none" /\ ReferencesAreValid(entries)
      /\ c.kind = "exclude" => Len(decisions) < MaxDecisions
      /\ composition' = [version |-> composition.version + 1, entries |-> entries]
      /\ events' = [events EXCEPT ![k] = composition.version + 1]
      /\ commands' = [commands EXCEPT ![k].answer = "done"]
  BY DEF Applies
<1>2. /\ entries \in [Subjects -> Entry]
      /\ \A s \in Subjects : entries[s].disposition = "included" => entries[s].decision = 0
      /\ c.kind = "exclude" => \A s \in c.targets : entries[s].disposition = "excluded"
  BY <1>1, RequestedTypes
<1>3. composition' \in [version : Nat, entries : [Subjects -> Entry]]
  <2> HIDE DEF entries
  <2>1. composition.version + 1 \in Nat
    BY DEF EdInv, TypeOK
  <2> QED
    BY <2>1, <1>1, <1>2
<1>4. \/ decisions' = decisions
      \/ \E d \in Decision : decisions' = Append(decisions, d) /\ Len(decisions) < MaxDecisions
  <2>1. CASE c.kind # "exclude"
    BY <2>1 DEF Applies
  <2>2. CASE c.kind = "exclude"
    <3> DEFINE s == CHOOSE s \in c.targets : TRUE
               d == [subject |-> s, pin |-> entries[s].pin, exclude |-> TRUE]
    <3>1. s \in Subjects /\ s \in c.targets
      BY <2>2 DEF EdInv, CommandsSound, CommandSound
    <3>2. decisions' = Append(decisions, d)
      BY <2>2 DEF Applies
    <3> HIDE DEF s
    <3>3. entries[s].disposition = "excluded" /\ entries[s].pin \in Pins \union {NoPin}
      <4> HIDE DEF c, entries
      <4> QED
        BY <3>1, <2>2, <1>2 DEF Entry
    <3>4. entries[s].pin # NoPin
      <4> HIDE DEF c, entries
      <4> QED
        BY <3>1, <3>3, <1>1 DEF ReferencesAreValid
    <3>5. d \in Decision
      <4> HIDE DEF c, entries
      <4> QED
        BY <3>1, <3>3, <3>4 DEF Decision
    <3> HIDE DEF d
    <3> QED
      BY <3>2, <3>5, <2>2, <1>1
  <2> QED
    BY <2>1, <2>2
<1>5. decisions' \in Seq(Decision) /\ Len(decisions') <= MaxDecisions
  <2>1. decisions \in Seq(Decision) /\ Len(decisions) <= MaxDecisions
    BY DEF EdInv, TypeOK
  <2>2. CASE decisions' = decisions
    BY <2>1, <2>2
  <2>3. ASSUME NEW d \in Decision, decisions' = Append(decisions, d),
               Len(decisions) < MaxDecisions
        PROVE  decisions' \in Seq(Decision) /\ Len(decisions') <= MaxDecisions
    BY <2>1, <2>3, AppendProperties
  <2> QED
    BY <2>2, <2>3, <1>4
<1>6. commands \in [Keys -> Command] /\ events \in [Keys -> Nat] /\ composition.version \in Nat
  BY DEF EdInv, TypeOK
<1>7. commands' \in [Keys -> Command] /\ events' \in [Keys -> Nat]
  <2> HIDE DEF c, entries
  <2>1. commands' = [commands EXCEPT ![k].answer = "done"]
    BY <1>1
  <2>2. commands' \in [Keys -> Command]
    BY <2>1, <1>6 DEF Command, Answer
  <2>3. events' = [events EXCEPT ![k] = composition.version + 1]
    BY <1>1
  <2>4. events' \in [Keys -> Nat]
    BY <2>3, <1>6
  <2> QED
    BY <2>2, <2>4
<1>8. TypeOK'
  BY <1>3, <1>5, <1>7 DEF EdInv, TypeOK, WorkUnchanged
<1>9. CommandsSound'
  <2> SUFFICES ASSUME NEW j \in Keys PROVE CommandSound(j)'
    BY DEF CommandsSound
  <2>1. CommandSound(j)
    BY DEF EdInv, CommandsSound
  <2>2. /\ commands'[j].kind = commands[j].kind
        /\ commands'[j].targets = commands[j].targets
        /\ commands'[j].answer = IF j = k THEN "done" ELSE commands[j].answer
        /\ j # k => events'[j] = events[j]
    BY <1>1, <1>6 DEF Command
  <2>3. CASE j = k
    BY <2>1, <2>2, <2>3, <1>1 DEF CommandSound
  <2>4. CASE j # k
    BY <2>1, <2>2, <2>4 DEF CommandSound
  <2> QED
    BY <2>3, <2>4
<1>10. EntriesSound'
  <2> HIDE DEF entries
  <2> QED
    BY <1>1, <1>2 DEF EntriesSound
<1>11. edition.version <= edition'.version
  BY DEF EdInv, TypeOK
<1>12. Forward
  <2> HIDE DEF entries
  <2> QED
    BY <1>1, <1>4, <1>11 DEF Forward
<1> QED
  BY <1>8, <1>9, <1>10, <1>12, EditorialFrame

LEMMA MutateSound ==
  ASSUME EdInv, NEW k \in Keys, Mutate(k)
  PROVE  EdInv'
<1>1. commands[k].kind # "none" /\ UNCHANGED <<edition, production>> /\ WorkUnchanged
  BY DEF Mutate, WorkUnchanged
<1>2. CASE ~edition.open /\ AnswerCommand(k, "archived")
  BY <1>1, <1>2, AnswerSound DEF Answer
<1>3. CASE AlreadyApplied(k) /\ AnswerCommand(k, "done")
  BY <1>1, <1>3, AnswerSound DEF Answer
<1>4. CASE ~AlreadyApplied(k) /\ AnswerCommand(k, "conflict")
  BY <1>1, <1>4, AnswerSound DEF Answer, AlreadyApplied
<1>5. CASE ~AlreadyApplied(k) /\ AnswerCommand(k, "refused")
  BY <1>1, <1>5, AnswerSound DEF Answer, AlreadyApplied
<1>6. CASE Applies(k)
  BY <1>1, <1>6, AppliesSound
<1> QED
  BY <1>2, <1>3, <1>4, <1>5, <1>6 DEF Mutate, Applies

LEMMA EditorialSound ==
  ASSUME EdInv, EditorialStep
  PROVE  EdInv'
BY EditionSteps, RunSteps, DecideSound, MutateSound, IssueSound DEF EditorialStep

-----------------------------------------------------------------------------
(* The work of the jobs: the edition is left alone.                        *)

ManifestsKept == DOMAIN manifests \subseteq DOMAIN manifests'

(* Jobs stay, and a job that is over stays as it is.                       *)
JobsKept == \A c \in Chains : \A i \in DOMAIN jobs[c] :
    i \in DOMAIN jobs'[c] /\ (Over(jobs[c][i]) => jobs'[c][i] = jobs[c][i])

JobsStep ==
    /\ jobs' \in [Chains -> Seq(Job)]
    /\ \A c \in Chains : Len(jobs'[c]) <= MaxJobs
    /\ ChainsSound'
    /\ JobsKept

(* A message is about a job that exists.                                   *)
QueueStep == \A x \in queue' :
    x \in queue \/ (x \in Chains \X (1..MaxJobs) /\ x[2] \in DOMAIN jobs'[x[1]])

LEMMA JobTypes ==
  ASSUME TypeOK
  PROVE  /\ \A c \in Chains : /\ jobs[c] \in Seq(Job) /\ Len(jobs[c]) \in Nat
                             /\ DOMAIN jobs[c] = 1..Len(jobs[c])
                             /\ \A i \in DOMAIN jobs[c] : jobs[c][i] \in Job
         /\ \A p \in Procs : /\ proc[p] \in Proc
                            /\ proc[p].chain \in Chains /\ proc[p].target \in Chains
                            /\ proc[p].seen.number \in 0..MaxJobs
                            /\ proc[p].seen.row \in Job
<1>1. jobs \in [Chains -> Seq(Job)] /\ proc \in [Procs -> Proc]
  BY DEF TypeOK
<1>2. \A c \in Chains : /\ jobs[c] \in Seq(Job) /\ Len(jobs[c]) \in Nat
                       /\ DOMAIN jobs[c] = 1..Len(jobs[c])
                       /\ \A i \in DOMAIN jobs[c] : jobs[c][i] \in Job
  BY <1>1
<1>3. \A p \in Procs : /\ proc[p] \in Proc
                      /\ proc[p].chain \in Chains /\ proc[p].target \in Chains
                      /\ proc[p].seen.number \in 0..MaxJobs
                      /\ proc[p].seen.row \in Job
  BY <1>1 DEF Proc
<1> QED
  BY <1>2, <1>3

LEMMA JobsUnchanged ==
  ASSUME EdInv, jobs' = jobs, ManifestsKept
  PROVE  JobsStep
BY DEF EdInv, TypeOK, WorkInv, JobsStep, JobsKept, ChainsSound, ChainSound, ManifestsKept

(* The last job of a chain gets another row.                               *)
LEMMA RowChanges ==
  ASSUME EdInv, NEW c \in Chains, NEW i \in DOMAIN jobs[c], NEW row \in Job,
         RowSound(row), ~Over(jobs[c][i]), manifests' = manifests,
         jobs' = [jobs EXCEPT ![c][i] = row]
  PROVE  JobsStep /\ DOMAIN jobs'[c] = DOMAIN jobs[c] /\ jobs'[c][i] = row
<1>1. jobs[c] \in Seq(Job) /\ i \in 1..Len(jobs[c]) /\ Len(jobs[c]) \in Nat
  BY JobTypes DEF EdInv
<1>2. /\ [jobs[c] EXCEPT ![i] = row] \in Seq(Job)
      /\ Len([jobs[c] EXCEPT ![i] = row]) = Len(jobs[c])
      /\ \A j \in 1..Len(jobs[c]) :
           [jobs[c] EXCEPT ![i] = row][j] = IF j = i THEN row ELSE jobs[c][j]
  BY <1>1, ExceptSeq
<1>3. jobs \in [Chains -> Seq(Job)] /\ \A d \in Chains : Len(jobs[d]) <= MaxJobs
  BY DEF EdInv, TypeOK
<1>4. /\ \A d \in Chains \ {c} : jobs'[d] = jobs[d]
      /\ jobs'[c] = [jobs[c] EXCEPT ![i] = row]
      /\ jobs' \in [Chains -> Seq(Job)]
  BY <1>2, <1>3
<1>5. DOMAIN jobs[c] = 1..Len(jobs[c]) /\ DOMAIN jobs'[c] = 1..Len(jobs[c])
  BY <1>1, <1>2, <1>4
<1>6. ~(i < Len(jobs[c]))
  BY <1>5 DEF EdInv, WorkInv, ChainsSound, ChainSound
<1>7. ChainSound(c)'
  <2>1. ChainSound(c)
    BY DEF EdInv, WorkInv, ChainsSound
  <2>2. \A j \in DOMAIN jobs'[c] : RowSound(jobs'[c][j])
    BY <2>1, <1>2, <1>4, <1>5 DEF ChainSound
  <2>3. \A j \in DOMAIN jobs'[c] : j < Len(jobs'[c]) => Over(jobs'[c][j])
    BY <2>1, <1>1, <1>2, <1>4, <1>5, <1>6 DEF ChainSound
  <2>4. Len(jobs'[c]) > 0 => c[2] \in DOMAIN manifests'
    BY <2>1, <1>2, <1>4 DEF ChainSound
  <2> QED
    BY <2>2, <2>3, <2>4 DEF ChainSound
<1>8. \A d \in Chains \ {c} : ChainSound(d)'
  BY <1>4 DEF EdInv, WorkInv, ChainsSound, ChainSound
<1>9. JobsKept
  BY <1>2, <1>4, <1>5 DEF JobsKept
<1>10. \A d \in Chains : Len(jobs'[d]) <= MaxJobs
  BY <1>2, <1>3, <1>4
<1> QED
  BY <1>1, <1>2, <1>4, <1>5, <1>7, <1>8, <1>9, <1>10 DEF JobsStep, ChainsSound

(* A chain gets its first job, or a successor of one that is over.         *)
LEMMA JobAppended ==
  ASSUME EdInv, NEW c \in Chains, c[2] \in DOMAIN manifests,
         Len(jobs[c]) > 0 => Over(jobs[c][Len(jobs[c])]),
         Len(jobs[c]) < MaxJobs, manifests' = manifests,
         jobs' = [jobs EXCEPT ![c] = Append(jobs[c], NewJob)]
  PROVE  /\ JobsStep /\ Len(jobs'[c]) = Len(jobs[c]) + 1
         /\ jobs'[c][Len(jobs'[c])] = NewJob
<1>1. jobs[c] \in Seq(Job) /\ Len(jobs[c]) \in Nat /\ DOMAIN jobs[c] = 1..Len(jobs[c])
  BY JobTypes DEF EdInv
<1> DEFINE chain == Append(jobs[c], NewJob)
<1>2. /\ chain \in Seq(Job) /\ Len(chain) = Len(jobs[c]) + 1
      /\ \A j \in 1..Len(jobs[c]) : chain[j] = jobs[c][j]
      /\ chain[Len(jobs[c]) + 1] = NewJob
  BY <1>1, AppendProperties, ConstantTypes
<1>3. jobs \in [Chains -> Seq(Job)] /\ \A d \in Chains : Len(jobs[d]) <= MaxJobs
  BY DEF EdInv, TypeOK
<1>4. /\ \A d \in Chains \ {c} : jobs'[d] = jobs[d]
      /\ jobs'[c] = chain
      /\ jobs' \in [Chains -> Seq(Job)]
  BY <1>2, <1>3
<1>5. DOMAIN chain = 1..(Len(jobs[c]) + 1)
  BY <1>1, <1>2
<1> HIDE DEF chain
<1>6. ChainSound(c)'
  <2>1. ChainSound(c)
    BY DEF EdInv, WorkInv, ChainsSound
  <2>2. ASSUME NEW j \in DOMAIN chain PROVE RowSound(chain[j])
    <3>1. j \in DOMAIN jobs[c] \/ j = Len(jobs[c]) + 1
      BY <1>1, <1>5
    <3>2. CASE j \in DOMAIN jobs[c]
      BY <3>2, <2>1, <1>1, <1>2 DEF ChainSound
    <3>3. CASE j = Len(jobs[c]) + 1
      BY <3>3, <1>2, ConstantTypes
    <3> QED
      BY <3>1, <3>2, <3>3
  <2>3. ASSUME NEW j \in DOMAIN chain, j < Len(chain) PROVE Over(chain[j])
    <3>1. j \in 1..Len(jobs[c]) /\ chain[j] = jobs[c][j]
      BY <2>3, <1>1, <1>2, <1>5
    <3> QED
      BY <3>1, <2>1, <1>1 DEF ChainSound
  <2> QED
    BY <2>2, <2>3, <1>4 DEF ChainSound
<1>7. \A d \in Chains \ {c} : ChainSound(d)'
  BY <1>4 DEF EdInv, WorkInv, ChainsSound, ChainSound
<1>8. JobsKept
  BY <1>1, <1>2, <1>4, <1>5 DEF JobsKept
<1>9. \A d \in Chains : Len(jobs'[d]) <= MaxJobs
  BY <1>1, <1>2, <1>3, <1>4, PublicationAssumption
<1> QED
  BY <1>1, <1>2, <1>4, <1>6, <1>7, <1>8, <1>9 DEF JobsStep, ChainsSound

LEMMA ProcKept ==
  ASSUME TypeOK, NEW p \in Procs, proc'[p] = proc[p], ProcSound(p), JobsKept, ManifestsKept
  PROVE  ProcSound(p)'
BY JobTypes DEF ProcSound, JobsKept, ManifestsKept

(* What has to be shown of a step of the work.                             *)
LEMMA WorkFrame ==
  ASSUME EdInv, UNCHANGED editorial, losses' \in 0..MaxLosses, JobsStep,
         QueueStep,
         proc' \in [Procs -> Proc],
         \A p \in Procs : proc'[p] = proc[p] \/ ProcSound(p)',
         manifests' \in Seq(Manifest), Len(manifests') <= MaxManifests,
         ManifestsKept, ManifestsSound'
  PROVE  EdInv'
<1>1. UNCHANGED <<edition, production, composition, decisions, commands, events>>
  BY DEF editorial
<1>2. TypeOK'
  <2>1. queue' \subseteq Chains \X (1..MaxJobs)
    BY DEF EdInv, TypeOK, QueueStep
  <2> QED
    BY <2>1, <1>1 DEF EdInv, TypeOK, JobsStep
<1>3. ProcsSound'
  BY ProcKept DEF EdInv, WorkInv, ProcsSound, JobsStep
<1>4. QueueSound'
  <2>1. \A x \in queue : x[1] \in Chains
    BY DEF EdInv, TypeOK
  <2> QED
    BY <2>1 DEF EdInv, WorkInv, QueueSound, JobsStep, JobsKept, QueueStep
<1>5. CommandsSound' /\ EntriesSound'
  BY <1>1 DEF EdInv, CommandsSound, CommandSound, EntriesSound
<1> QED
  BY <1>2, <1>3, <1>4, <1>5 DEF EdInv, WorkInv, JobsStep

(* A step of the work leaves the journal and the composition alone, and    *)
(* with them what is true of frozen inputs.                                *)
LEMMA WorkOperators ==
  ASSUME UNCHANGED editorial
  PROVE  /\ \A s, pin : EffectiveDecision(s, pin)' = EffectiveDecision(s, pin)
         /\ \A d : With(d)' = With(d)
         /\ \A e : FrozenSound(e)' = FrozenSound(e)
         /\ UNCHANGED <<edition, composition, decisions, production>>
<1>1. UNCHANGED <<edition, composition, decisions, production>>
  BY DEF editorial
<1>2. \A s, pin : EffectiveDecision(s, pin)' = EffectiveDecision(s, pin)
  BY <1>1 DEF EffectiveDecision
<1>3. \A d : With(d)' = With(d)
  BY <1>1 DEF With
<1>4. \A e : FrozenSound(e)' = FrozenSound(e)
  BY <1>1, <1>2 DEF FrozenSound
<1> QED
  BY <1>1, <1>2, <1>3, <1>4

LEMMA SameInputs ==
  ASSUME UNCHANGED editorial, NEW m, manifests'[m].inputs = manifests[m].inputs
  PROVE  /\ ManifestSound(m) => ManifestSound(m)'
         /\ Past(m) => Past(m)'
<1>1. /\ \A s, pin : EffectiveDecision(s, pin)' = EffectiveDecision(s, pin)
      /\ \A d : With(d)' = With(d)
      /\ \A e : FrozenSound(e)' = FrozenSound(e)
      /\ UNCHANGED <<edition, composition>>
  BY WorkOperators
<1>2. ManifestSound(m) => ManifestSound(m)'
  BY <1>1 DEF ManifestSound
<1>3. Past(m) => Past(m)'
  BY <1>1 DEF Past
<1> QED
  BY <1>2, <1>3

(* Manifests get a release and a PDF; what they froze stays.               *)
LEMMA ManifestsAdvance ==
  ASSUME EdInv, UNCHANGED editorial, manifests' \in Seq(Manifest),
         Len(manifests') = Len(manifests),
         \A m \in DOMAIN manifests :
           /\ manifests'[m].inputs = manifests[m].inputs
           /\ manifests[m].released => manifests'[m].released
  PROVE  Len(manifests') <= MaxManifests /\ ManifestsKept /\ ManifestsSound'
<1>1. DOMAIN manifests = DOMAIN manifests' /\ Len(manifests') <= MaxManifests
  BY DEF EdInv, TypeOK
<1>2. \A m \in DOMAIN manifests : ManifestSound(m)'
  BY SameInputs DEF EdInv, ManifestsSound
<1>3. ASSUME NEW m \in DOMAIN manifests, m < Len(manifests)
      PROVE  manifests'[m].released \/ Past(m)'
  BY <1>3, SameInputs DEF EdInv, ManifestsSound
<1> QED
  BY <1>1, <1>2, <1>3 DEF ManifestsKept, ManifestsSound

LEMMA ManifestsUnchanged ==
  ASSUME EdInv, UNCHANGED editorial, manifests' = manifests
  PROVE  /\ manifests' \in Seq(Manifest) /\ Len(manifests') <= MaxManifests
         /\ ManifestsKept /\ ManifestsSound'
<1>1. manifests \in Seq(Manifest)
  BY DEF EdInv, TypeOK
<1> QED
  BY <1>1, ManifestsAdvance

(* A pending manifest that does not match the edition is past: versions    *)
(* and decisions only grow, so one of them has moved.                      *)
LEMMA MismatchIsPast ==
  ASSUME EdInv, NEW m \in DOMAIN manifests, ~Past(m)
  PROVE  InputsMatch(m)
<1> DEFINE I == manifests[m].inputs
<1>1. /\ I \in Inputs /\ I.edition \in Nat /\ I.composition \in Nat
      /\ edition.version \in Nat /\ composition.version \in Nat
      /\ \A e \in I.entries : e \in Frozen /\ e.decision \in Nat
      /\ \A s, pin : EffectiveDecision(s, pin) \in Nat
  BY ManifestTypes, PublicationAssumption DEF EdInv
<1>2. ManifestSound(m)
  BY DEF EdInv, ManifestsSound
<1>3. /\ I.edition = edition.version /\ I.composition = composition.version
      /\ \A e \in I.entries : e.decision = EffectiveDecision(e.subject, e.pin)
  <2>1. /\ I.edition <= edition.version /\ I.composition <= composition.version
        /\ \A e \in I.entries : e.decision <= EffectiveDecision(e.subject, e.pin)
    BY <1>2 DEF ManifestSound, FrozenSound
  <2>2. /\ ~(I.edition < edition.version) /\ ~(I.composition < composition.version)
        /\ \A e \in I.entries : ~(e.decision < EffectiveDecision(e.subject, e.pin))
    BY DEF Past
  <2> HIDE DEF I
  <2> QED
    BY <2>1, <2>2, <1>1
<1>4. /\ \A e \in I.entries : e.subject \in With("included")
            /\ e.pin = composition.entries[e.subject].pin
      /\ \A s \in With("included") : \E e \in I.entries : e.subject = s
      /\ I.exclusions = {<<s, composition.entries[s].decision>> :
                            s \in With("excluded")}
  BY <1>2, <1>3 DEF ManifestSound
<1> DEFINE Freeze(s) == [subject |-> s, pin |-> composition.entries[s].pin,
                         decision |-> EffectiveDecision(s, composition.entries[s].pin)]
<1> HIDE DEF I
<1>5. \A e \in I.entries : e = Freeze(e.subject)
  BY <1>1, <1>3, <1>4 DEF Frozen
<1>6. I.entries = {Freeze(s) : s \in With("included")}
  <2> HIDE DEF Freeze
  <2> QED
    BY <1>4, <1>5
<1>7. I = CurrentInputs
  BY <1>1, <1>3, <1>4, <1>6 DEF Inputs, CurrentInputs
<1> QED
  BY <1>7 DEF InputsMatch, I

(* What is frozen has its type.                                            *)
LEMMA CurrentInputTypes ==
  ASSUME TypeOK
  PROVE  CurrentInputs \in Inputs
<1>1. edition.version \in 1..MaxEdition /\ composition.version \in Nat
  BY DEF TypeOK
<1>2. \A s \in Subjects : /\ composition.entries[s].pin \in Pins \union {NoPin}
                         /\ composition.entries[s].decision \in 0..MaxDecisions
  <2>1. \A s \in Subjects : composition.entries[s] \in Entry
    BY DEF TypeOK
  <2> QED
    BY <2>1 DEF Entry
<1>3. \A s, pin : EffectiveDecision(s, pin) \in 0..MaxDecisions
  BY ManifestTypes
<1>4. With("included") \subseteq Subjects /\ With("excluded") \subseteq Subjects
  BY DEF With
<1>5. {[subject |-> s, pin |-> composition.entries[s].pin,
        decision |-> EffectiveDecision(s, composition.entries[s].pin)] :
          s \in With("included")} \in SUBSET Frozen
  BY <1>2, <1>3, <1>4 DEF Frozen
<1>6. {<<s, composition.entries[s].decision>> : s \in With("excluded")}
        \in SUBSET (Subjects \X (0..MaxDecisions))
  BY <1>2, <1>4
<1> QED
  BY <1>1, <1>5, <1>6 DEF CurrentInputs, Inputs

(* Nothing that is frozen now is excluded.                                 *)
LEMMA FreezeSound ==
  ASSUME EdInv, Acceptable
  PROVE  /\ CurrentInputs.edition = edition.version
         /\ CurrentInputs.composition = composition.version
         /\ CurrentInputs.exclusions = {<<s, composition.entries[s].decision>> :
                                          s \in With("excluded")}
         /\ \A e \in CurrentInputs.entries :
              /\ e.subject \in With("included")
              /\ e.pin = composition.entries[e.subject].pin
              /\ FrozenSound(e)
         /\ \A s \in With("included") : \E e \in CurrentInputs.entries : e.subject = s
<1> DEFINE Freeze(s) == [subject |-> s, pin |-> composition.entries[s].pin,
                         decision |-> EffectiveDecision(s, composition.entries[s].pin)]
<1>1. /\ CurrentInputs.edition = edition.version
      /\ CurrentInputs.composition = composition.version
      /\ CurrentInputs.exclusions = {<<s, composition.entries[s].decision>> :
                                       s \in With("excluded")}
      /\ CurrentInputs.entries = {Freeze(s) : s \in With("included")}
  BY DEF CurrentInputs
<1>2. \A s : /\ Freeze(s).subject = s /\ Freeze(s).pin = composition.entries[s].pin
             /\ Freeze(s).decision = EffectiveDecision(s, composition.entries[s].pin)
  OBVIOUS
<1> HIDE DEF Freeze
<1>3. ASSUME NEW e \in CurrentInputs.entries
      PROVE  /\ e.subject \in With("included")
             /\ e.pin = composition.entries[e.subject].pin
             /\ e.decision = EffectiveDecision(e.subject, e.pin)
  BY <1>1, <1>2
<1>4. ASSUME NEW e \in CurrentInputs.entries PROVE FrozenSound(e)
  <2>1. e.decision = EffectiveDecision(e.subject, e.pin) /\ ~IsExcluded(e.subject, e.pin)
    BY <1>3 DEF Acceptable
  <2>2. e.decision \in {0} \union DOMAIN decisions
    BY <2>1, EffectiveInJournal, EffectiveIsIn DEF EdInv, TypeOK
  <2>3. e.decision \in Nat
    BY <2>1, ManifestTypes, PublicationAssumption DEF EdInv
  <2> QED
    BY <2>1, <2>2, <2>3 DEF FrozenSound, IsExcluded
<1>5. \A s \in With("included") : \E e \in CurrentInputs.entries : e.subject = s
  BY <1>1, <1>2
<1> QED
  BY <1>1, <1>3, <1>4, <1>5

(* Acceptance freezes another manifest: the one before it was released or  *)
(* will never match again.                                                 *)
LEMMA ManifestAppended ==
  ASSUME EdInv, UNCHANGED editorial, Acceptable, Len(manifests) + 1 <= MaxManifests,
         NEW new \in Manifest, new.inputs = CurrentInputs,
         manifests' = Append(manifests, new),
         Len(manifests) # 0 => \/ manifests[Len(manifests)].released
                               \/ ~InputsMatch(Len(manifests))
  PROVE  /\ manifests' \in Seq(Manifest) /\ Len(manifests') <= MaxManifests
         /\ ManifestsKept /\ ManifestsSound'
         /\ Len(manifests') = Len(manifests) + 1
<1>1. PICK n \in Nat : n = Len(manifests) /\ DOMAIN manifests = 1..n
  BY DEF EdInv, TypeOK
<1>2. /\ manifests' \in Seq(Manifest) /\ Len(manifests') = n + 1
      /\ \A m \in 1..n : manifests'[m] = manifests[m]
      /\ manifests'[n + 1] = new
  <2>1. manifests \in Seq(Manifest)
    BY DEF EdInv, TypeOK
  <2> QED
    BY <2>1, <1>1, AppendProperties
<1>3. DOMAIN manifests' = 1..(n + 1) /\ ManifestsKept
  BY <1>1, <1>2 DEF ManifestsKept
<1>4. \A m \in 1..n : ManifestSound(m)'
  BY <1>1, <1>2, SameInputs DEF EdInv, ManifestsSound
<1>5. ManifestSound(n + 1)'
  <2>1. manifests'[n + 1].inputs = CurrentInputs
    BY <1>2
  <2>2. edition.version \in Nat /\ composition.version \in Nat
    BY ManifestTypes DEF EdInv
  <2>3. /\ \A d : With(d)' = With(d)
        /\ \A e : FrozenSound(e)' = FrozenSound(e)
        /\ UNCHANGED <<edition, composition>>
    BY WorkOperators
  <2>4. /\ CurrentInputs.edition <= edition'.version
        /\ CurrentInputs.composition <= composition'.version
    BY <2>2, <2>3, FreezeSound
  <2>5. /\ \A e \in CurrentInputs.entries :
             /\ e.subject \in With("included")'
             /\ e.pin = composition'.entries[e.subject].pin
             /\ FrozenSound(e)'
        /\ \A s \in With("included")' : \E e \in CurrentInputs.entries : e.subject = s
        /\ CurrentInputs.exclusions = {<<s, composition'.entries[s].decision>> :
                                         s \in With("excluded")'}
    BY <2>3, FreezeSound
  <2> QED
    BY <2>1, <2>4, <2>5 DEF ManifestSound
<1>6. ASSUME NEW m \in 1..n PROVE manifests'[m].released \/ Past(m)'
  <2>1. m < n \/ m = n
    OBVIOUS
  <2>2. manifests[m].released \/ Past(m)
    BY <2>1, <1>1, MismatchIsPast DEF EdInv, ManifestsSound
  <2> QED
    BY <2>2, <1>2, SameInputs
<1>7. \A m \in 1..(n + 1) : m \in 1..n \/ m = n + 1
  OBVIOUS
<1>8. \A m \in 1..(n + 1) : m < n + 1 => m \in 1..n
  OBVIOUS
<1>9. ManifestsSound'
  BY <1>2, <1>3, <1>4, <1>5, <1>6, <1>7, <1>8 DEF ManifestsSound
<1> QED
  BY <1>1, <1>2, <1>3, <1>9

Seen == [number : 0..MaxJobs, row : Job]

LEMMA ProcFields ==
  ASSUME NEW r \in Proc
  PROVE  /\ r.pc \in ProcPc /\ r.chain \in Chains /\ r.job \in 0..MaxJobs
         /\ r.target \in Chains /\ r.seen \in Seen /\ r.turn \in 0..3
         /\ \A pc \in ProcPc : [r EXCEPT !.pc = pc] \in Proc
         /\ \A t \in Chains : [r EXCEPT !.target = t] \in Proc
         /\ \A see \in Seen : [r EXCEPT !.seen = see] \in Proc
         /\ \A n \in 0..3 : [r EXCEPT !.turn = n] \in Proc
         /\ \A c \in Chains : [r EXCEPT !.chain = c] \in Proc
         /\ \A i \in 0..MaxJobs : [r EXCEPT !.job = i] \in Proc
<1>1. Proc = [pc : ProcPc, chain : Chains, job : 0..MaxJobs, target : Chains,
              seen : Seen, turn : 0..3]
  BY DEF Proc, Seen
<1> QED
  BY <1>1

(* One process moves.                                                      *)
LEMMA ProcMoves ==
  ASSUME EdInv, NEW p \in Procs, NEW new \in Proc, proc' = [proc EXCEPT ![p] = new]
  PROVE  /\ proc' \in [Procs -> Proc] /\ proc'[p] = new
         /\ \A q \in Procs : q # p => proc'[q] = proc[q]
<1>1. proc \in [Procs -> Proc]
  BY DEF EdInv, TypeOK
<1> QED
  BY <1>1

LEMMA QueueUnchanged ==
  ASSUME queue' = queue
  PROVE  QueueStep
BY DEF QueueStep

LEMMA LossesUnchanged ==
  ASSUME EdInv, losses' = losses
  PROVE  losses' \in 0..MaxLosses
BY DEF EdInv, TypeOK

(* Only the process moves: nothing else is left to show.                   *)
LEMMA ProcOnly ==
  ASSUME EdInv, UNCHANGED editorial, UNCHANGED <<manifests, jobs, queue, losses>>,
         NEW p \in Procs, NEW new \in Proc, proc' = [proc EXCEPT ![p] = new],
         ProcSound(p)'
  PROVE  EdInv'
<1>1. UNCHANGED manifests /\ UNCHANGED jobs /\ UNCHANGED queue /\ UNCHANGED losses
  OBVIOUS
<1>2. ManifestsKept /\ manifests' \in Seq(Manifest) /\ Len(manifests') <= MaxManifests
      /\ ManifestsSound'
  BY <1>1, ManifestsUnchanged
<1>3. JobsStep
  BY <1>1, <1>2, JobsUnchanged
<1>4. proc' \in [Procs -> Proc] /\ \A q \in Procs : proc'[q] = proc[q] \/ ProcSound(q)'
  BY ProcMoves
<1>5. QueueStep
  BY <1>1, QueueUnchanged
<1>6. losses' \in 0..MaxLosses
  BY <1>1, LossesUnchanged
<1> QED
  BY <1>2, <1>3, <1>4, <1>5, <1>6, WorkFrame

(* A process that goes on to assure a job.                                 *)
LEMMA AssuringSound ==
  ASSUME EdInv, NEW p \in Procs, NEW target \in Chains, Assuring(p, target)
  PROVE  \E new \in Proc :
           /\ proc' = [proc EXCEPT ![p] = new]
           /\ new.pc = "look" /\ new.target = target
           /\ new.chain = proc[p].chain /\ new.job = proc[p].job
<1>1. proc \in [Procs -> Proc] /\ proc[p] \in Proc
  BY DEF EdInv, TypeOK
<1> DEFINE new == [proc[p] EXCEPT !.pc = "look", !.target = target, !.turn = 0]
<1>2. proc' = [proc EXCEPT ![p] = new]
  BY <1>1 DEF Assuring
<1>3. new \in Proc
  <2>1. "look" \in ProcPc /\ 0 \in 0..3
    BY DEF ProcPc
  <2>2. [proc[p] EXCEPT !.pc = "look"] \in Proc
    BY <1>1, <2>1, ProcFields
  <2>3. [[proc[p] EXCEPT !.pc = "look"] EXCEPT !.target = target] \in Proc
    BY <2>2, ProcFields
  <2>4. [[[proc[p] EXCEPT !.pc = "look"] EXCEPT !.target = target] EXCEPT !.turn = 0]
          \in Proc
    BY <2>1, <2>3, ProcFields
  <2> QED
    BY <2>4, Zenon
<1>4. /\ new.pc = "look" /\ new.target = target
      /\ new.chain = proc[p].chain /\ new.job = proc[p].job
  BY <1>1 DEF Proc
<1> QED
  BY <1>2, <1>3, <1>4

LEMMA AcceptSound ==
  ASSUME EdInv, NEW p \in Requests, Accept(p)
  PROVE  EdInv'
<1> DEFINE newest == Len(manifests)
           resumed == newest # 0 /\ ~manifests[newest].released /\ InputsMatch(newest)
           m == IF resumed THEN newest ELSE newest + 1
<1>1. p \in Procs /\ p \notin Workers
  BY PublicationAssumption DEF Procs
<1>2. /\ Acceptable /\ m <= MaxManifests /\ UNCHANGED editorial
      /\ UNCHANGED jobs /\ UNCHANGED queue /\ UNCHANGED losses
      /\ Assuring(p, <<"assemble", m>>)
      /\ proc[p].pc = "idle"
  BY DEF Accept
<1>3. newest \in Nat /\ DOMAIN manifests = 1..newest
  BY DEF EdInv, TypeOK
<1>4. /\ manifests' \in Seq(Manifest) /\ Len(manifests') <= MaxManifests
      /\ ManifestsKept /\ ManifestsSound' /\ m \in DOMAIN manifests'
  <2>1. CASE resumed
    <3>1. manifests' = manifests /\ m = newest
      BY <2>1 DEF Accept
    <3>2. m \in DOMAIN manifests'
      BY <3>1, <2>1, <1>3
    <3> HIDE DEF m, resumed, newest
    <3> QED
      BY <1>2, <3>1, <3>2, ManifestsUnchanged
  <2>2. CASE ~resumed
    <3> DEFINE new == [inputs |-> CurrentInputs, released |-> FALSE, rendered |-> FALSE]
    <3>1. manifests' = Append(manifests, new) /\ m = newest + 1
      BY <2>2 DEF Accept
    <3>2. new \in Manifest /\ new.inputs = CurrentInputs
      BY CurrentInputTypes DEF EdInv, Manifest
    <3>3. newest # 0 => manifests[newest].released \/ ~InputsMatch(newest)
      BY <2>2
    <3>4. newest + 1 <= MaxManifests
      BY <3>1, <1>2
    <3> HIDE DEF new, m, resumed
    <3>5. /\ manifests' \in Seq(Manifest) /\ Len(manifests') <= MaxManifests
          /\ ManifestsKept /\ ManifestsSound' /\ Len(manifests') = newest + 1
      BY <3>1, <3>2, <3>3, <3>4, <1>2, ManifestAppended
    <3> QED
      BY <3>1, <3>5, <1>3
  <2> QED
    BY <2>1, <2>2
<1>5. m \in Manifests /\ <<"assemble", m>> \in Chains
  <2>1. m \in Nat /\ m >= 1
    BY <1>3
  <2> QED
    BY <2>1, <1>2, PublicationAssumption DEF Manifests, Chains
<1> HIDE DEF m, resumed, newest
<1>6. PICK new \in Proc :
           /\ proc' = [proc EXCEPT ![p] = new]
           /\ new.pc = "look" /\ new.target = <<"assemble", m>>
  BY <1>1, <1>2, <1>5, AssuringSound
<1>7. /\ proc' \in [Procs -> Proc] /\ proc'[p] = new
      /\ \A q \in Procs : q # p => proc'[q] = proc[q]
  BY <1>1, <1>6, ProcMoves
<1>8. ProcSound(p)'
  BY <1>1, <1>4, <1>6, <1>7 DEF ProcSound
<1>9. JobsStep
  BY <1>2, <1>4, JobsUnchanged
<1> QED
  BY <1>2, <1>4, <1>7, <1>8, <1>9, WorkFrame, LossesUnchanged, QueueUnchanged

LEMMA RetryRenderSound ==
  ASSUME EdInv, NEW p \in Requests, RetryRender(p)
  PROVE  EdInv'
<1> DEFINE m == Len(manifests)
<1>1. p \in Procs /\ p \notin Workers
  BY PublicationAssumption DEF Procs
<1>2. /\ m # 0 /\ UNCHANGED editorial /\ UNCHANGED <<manifests, jobs, queue, losses>>
      /\ Assuring(p, <<"render", m>>)
  BY DEF RetryRender
<1>3. m \in DOMAIN manifests /\ <<"render", m>> \in Chains
  <2>1. m \in Nat /\ DOMAIN manifests = 1..m /\ m <= MaxManifests
    BY DEF EdInv, TypeOK
  <2> QED
    BY <2>1, <1>2, PublicationAssumption DEF Manifests, Chains
<1> HIDE DEF m
<1>4. PICK new \in Proc :
           /\ proc' = [proc EXCEPT ![p] = new]
           /\ new.pc = "look" /\ new.target = <<"render", m>>
  BY <1>1, <1>2, <1>3, AssuringSound
<1>5. proc'[p] = new
  BY <1>1, <1>4, ProcMoves
<1>6. ProcSound(p)'
  BY <1>1, <1>2, <1>3, <1>4, <1>5 DEF ProcSound
<1> QED
  BY <1>1, <1>2, <1>4, <1>6, ProcOnly

(* A request has answered; a handler goes on to its end.                   *)
LEMMA AssuredSound ==
  ASSUME EdInv, NEW p \in Procs, proc[p].pc # "idle", Assured(p), JobsKept
  PROVE  \E new \in Proc : proc' = [proc EXCEPT ![p] = new] /\ ProcSound(p)'
<1>1. proc[p] \in Proc /\ proc[p].chain \in Chains
  BY JobTypes DEF EdInv
<1>2. CASE p \in Requests
  <2>1. proc' = [proc EXCEPT ![p] = Idle]
    BY <1>2 DEF Assured
  <2>2. Idle \in Proc /\ Idle.pc = "idle"
    BY ConstantTypes DEF Idle
  <2>3. proc'[p] = Idle
    BY <2>1, <2>2, ProcMoves
  <2>4. ProcSound(p)'
    BY <2>2, <2>3 DEF ProcSound
  <2> QED
    BY <2>1, <2>2, <2>4
<1>3. CASE p \notin Requests
  <2> DEFINE new == [Idle EXCEPT !.pc = "ending", !.chain = proc[p].chain,
                                 !.job = proc[p].job]
  <2>1. proc' = [proc EXCEPT ![p] = new]
    BY <1>3 DEF Assured
  <2>2. new \in Proc
    <3>1. "ending" \in ProcPc /\ proc[p].job \in 0..MaxJobs
      BY <1>1, ProcFields DEF ProcPc
    <3>2. [Idle EXCEPT !.pc = "ending"] \in Proc
      BY <3>1, ConstantTypes, ProcFields
    <3>3. [[Idle EXCEPT !.pc = "ending"] EXCEPT !.chain = proc[p].chain] \in Proc
      BY <3>2, <1>1, ProcFields
    <3>4. [[[Idle EXCEPT !.pc = "ending"] EXCEPT !.chain = proc[p].chain]
             EXCEPT !.job = proc[p].job] \in Proc
      BY <3>1, <3>3, ProcFields
    <3> QED
      BY <3>4, Zenon
  <2>3. new.pc = "ending" /\ new.chain = proc[p].chain /\ new.job = proc[p].job
    BY DEF Idle
  <2> HIDE DEF new
  <2>4. proc'[p] = new
    BY <2>1, <2>2, ProcMoves
  <2>5. p \in Workers => proc[p].job \in DOMAIN jobs[proc[p].chain]
    BY DEF EdInv, WorkInv, ProcsSound, ProcSound
  <2>6. ProcSound(p)'
    BY <2>3, <2>4, <2>5, <1>1 DEF ProcSound, JobsKept
  <2> QED
    BY <2>1, <2>2, <2>6
<1> QED
  BY <1>2, <1>3

(* The process reads a job as it now is, or finds none.                    *)
Sees(old, new, see) ==
    /\ new.pc = "assure" /\ new.chain = old.chain /\ new.job = old.job
    /\ new.target = old.target /\ new.seen = see

LEMMA SeesSound ==
  ASSUME EdInv, NEW p \in Procs, proc[p].pc \in {"look", "assure"},
         JobsKept, ManifestsKept, NEW see,
         NEW new \in Proc, Sees(proc[p], new, see), proc' = [proc EXCEPT ![p] = new],
         see.number # 0 => /\ see.number \in DOMAIN jobs'[proc[p].target]
                           /\ see.row = jobs'[proc[p].target][see.number]
  PROVE  ProcSound(p)'
<1>1. /\ proc[p].chain \in Chains /\ proc[p].job \in 0..MaxJobs
      /\ proc[p].target \in Chains
  <2>1. proc[p] \in Proc
    BY JobTypes DEF EdInv
  <2> QED
    BY <2>1, ProcFields
<1>3. proc'[p] = new
  BY ProcMoves
<1>4. /\ proc'[p].pc = "assure" /\ proc'[p].chain = proc[p].chain
      /\ proc'[p].job = proc[p].job /\ proc'[p].target = proc[p].target
      /\ proc'[p].seen = see
  BY <1>3 DEF Sees
<1>5. ProcSound(p)
  BY DEF EdInv, WorkInv, ProcsSound
<1>6. /\ p \in Workers => proc[p].job \in DOMAIN jobs[proc[p].chain]
      /\ proc[p].target[2] \in DOMAIN manifests
  BY <1>5 DEF ProcSound
<1>7. /\ p \in Workers => proc[p].job \in DOMAIN jobs'[proc[p].chain]
      /\ proc[p].target[2] \in DOMAIN manifests'
  BY <1>1, <1>6 DEF JobsKept, ManifestsKept
<1>8. ProcSound(p)'
  BY <1>4, <1>7 DEF ProcSound
<1> QED
  BY <1>8

(* A row of an existing job, as a process reads it.                        *)
LEMMA SeenTypes ==
  ASSUME NEW chain \in Seq(Job), Len(chain) <= MaxJobs, NEW i \in DOMAIN chain
  PROVE  /\ [number |-> i, row |-> chain[i]] \in Seen
         /\ [number |-> i, row |-> chain[i]].number = i
         /\ [number |-> i, row |-> chain[i]].row = chain[i]
<1>1. i \in 0..MaxJobs /\ chain[i] \in Job
  BY PublicationAssumption
<1> QED
  BY <1>1 DEF Seen

LEMMA SeesTypes ==
  ASSUME NEW r \in Proc, NEW see \in Seen, NEW n \in 0..3
  PROVE  /\ [r EXCEPT !.pc = "assure", !.seen = see] \in Proc
         /\ [[r EXCEPT !.pc = "assure", !.seen = see] EXCEPT !.turn = n] \in Proc
         /\ Sees(r, [r EXCEPT !.pc = "assure", !.seen = see], see)
         /\ Sees(r, [[r EXCEPT !.pc = "assure", !.seen = see] EXCEPT !.turn = n], see)
<1>1. "assure" \in ProcPc
  BY DEF ProcPc
<1>2. [r EXCEPT !.pc = "assure"] \in Proc
  BY <1>1, ProcFields
<1>3. [[r EXCEPT !.pc = "assure"] EXCEPT !.seen = see] \in Proc
  BY <1>2, ProcFields
<1>4. [r EXCEPT !.pc = "assure", !.seen = see] \in Proc
  BY <1>3, Zenon
<1>5. [[r EXCEPT !.pc = "assure", !.seen = see] EXCEPT !.turn = n] \in Proc
  BY <1>4, ProcFields
<1>6. Sees(r, [r EXCEPT !.pc = "assure", !.seen = see], see)
  BY DEF Proc, Sees
<1>7. Sees(r, [[r EXCEPT !.pc = "assure", !.seen = see] EXCEPT !.turn = n], see)
  BY DEF Proc, Sees
<1> QED
  BY <1>4, <1>5, <1>6, <1>7

LEMMA LookSound ==
  ASSUME EdInv, NEW p \in Procs, Look(p)
  PROVE  EdInv'
<1> DEFINE c == proc[p].target
           chain == jobs[proc[p].target]
           see == IF chain = << >> THEN Nothing
                  ELSE [number |-> Len(chain), row |-> chain[Len(chain)]]
           new == [proc[p] EXCEPT !.pc = "assure", !.seen = see]
<1>1. /\ proc[p].pc = "look" /\ UNCHANGED editorial
      /\ UNCHANGED <<manifests, jobs, queue, losses>>
  BY DEF Look
<1>2. /\ proc \in [Procs -> Proc] /\ proc[p] \in Proc /\ c \in Chains
      /\ proc[p].turn \in 0..3 /\ chain \in Seq(Job) /\ Len(chain) <= MaxJobs
  <2>1. proc \in [Procs -> Proc] /\ proc[p] \in Proc
    BY DEF EdInv, TypeOK
  <2>2. c \in Chains /\ proc[p].turn \in 0..3
    BY <2>1, ProcFields
  <2> QED
    BY <2>1, <2>2 DEF EdInv, TypeOK
<1>3. JobsKept /\ ManifestsKept
  BY <1>1, JobsUnchanged DEF JobsStep, ManifestsKept
<1>4. /\ see \in Seen
      /\ see.number # 0 => see.number \in DOMAIN chain /\ see.row = chain[see.number]
  <2>1. CASE chain = << >>
    BY <2>1, ConstantTypes DEF Nothing, Seen
  <2>2. CASE chain # << >>
    <3>1. Len(chain) \in DOMAIN chain
      BY <1>2, <2>2
    <3> HIDE DEF chain
    <3> QED
      BY <3>1, <2>2, <1>2, SeenTypes
  <2> QED
    BY <2>1, <2>2
<1>5. proc' = [proc EXCEPT ![p].pc = "assure", ![p].seen = see]
  BY DEF Look, SawJob
<1>6. proc' = [proc EXCEPT ![p] = new]
  <2> HIDE DEF see
  <2> QED
    BY <1>2, <1>5
<1> HIDE DEF see, chain, c
<1>7. new \in Proc /\ Sees(proc[p], new, see)
  BY <1>2, <1>4, SeesTypes
<1> HIDE DEF new
<1>8. ProcSound(p)'
  <2>1. see.number # 0 => /\ see.number \in DOMAIN jobs'[proc[p].target]
                          /\ see.row = jobs'[proc[p].target][see.number]
    BY <1>1, <1>4 DEF chain
  <2> QED
    BY <2>1, <1>1, <1>3, <1>6, <1>7, SeesSound
<1> QED
  BY <1>1, <1>6, <1>7, <1>8, ProcOnly

(* One process moves and one job at most changes.                          *)
LEMMA JobAndProc ==
  ASSUME EdInv, UNCHANGED editorial, manifests' = manifests, losses' \in 0..MaxLosses,
         JobsStep, QueueStep,
         NEW p \in Procs, NEW new \in Proc, proc' = [proc EXCEPT ![p] = new],
         ProcSound(p)'
  PROVE  EdInv'
<1>1. ManifestsKept /\ manifests' \in Seq(Manifest) /\ Len(manifests') <= MaxManifests
      /\ ManifestsSound'
  BY ManifestsUnchanged
<1>2. proc' \in [Procs -> Proc] /\ \A q \in Procs : proc'[q] = proc[q] \/ ProcSound(q)'
  BY ProcMoves
<1> QED
  BY <1>1, <1>2, WorkFrame

(* Only jobs change.                                                       *)
LEMMA JobOnly ==
  ASSUME EdInv, UNCHANGED editorial, manifests' = manifests, losses' \in 0..MaxLosses,
         JobsStep, QueueStep, proc' = proc
  PROVE  EdInv'
<1>1. ManifestsKept /\ manifests' \in Seq(Manifest) /\ Len(manifests') <= MaxManifests
      /\ ManifestsSound'
  BY ManifestsUnchanged
<1>2. proc' \in [Procs -> Proc] /\ \A q \in Procs : proc'[q] = proc[q] \/ ProcSound(q)'
  BY DEF EdInv, TypeOK
<1> QED
  BY <1>1, <1>2, WorkFrame

(* The chain after a submission, and the job of the key: a successor only  *)
(* follows a job that is over.                                             *)
SubmittedChain(p) == SubmitAfter(jobs[proc[p].target], proc[p].seen.number)
SubmittedNumber(p) ==
    IF Len(SubmittedChain(p)) > Len(jobs[proc[p].target]) THEN Len(SubmittedChain(p))
    ELSE proc[p].seen.number + 1

LEMMA SubmissionSound ==
  ASSUME EdInv, NEW p \in Procs, SubmitJob(p)
  PROVE  /\ JobsStep /\ jobs'[proc[p].target] = SubmittedChain(p)
         /\ SubmittedNumber(p) \in DOMAIN SubmittedChain(p)
         /\ SubmittedChain(p) \in Seq(Job) /\ Len(SubmittedChain(p)) <= MaxJobs
<1>a. PICK c : c = proc[p].target
  OBVIOUS
<1>b. PICK chain : chain = SubmittedChain(p) /\ chain = SubmitAfter(jobs[c], proc[p].seen.number)
  BY <1>a DEF SubmittedChain
<1>c. PICK i : /\ i = SubmittedNumber(p)
               /\ i = IF Len(chain) > Len(jobs[c]) THEN Len(chain)
                      ELSE proc[p].seen.number + 1
  BY <1>a, <1>b DEF SubmittedNumber
<1> SUFFICES /\ JobsStep /\ jobs'[c] = chain /\ i \in DOMAIN chain
             /\ chain \in Seq(Job) /\ Len(chain) <= MaxJobs
  BY <1>a, <1>b, <1>c
<1> DEFINE saw == proc[p].seen
<1>1. /\ proc[p].pc = "assure" /\ Len(chain) <= MaxJobs
      /\ jobs' = [jobs EXCEPT ![c] = chain] /\ manifests' = manifests
      /\ saw.number # 0 => Over(saw.row)
  BY <1>a, <1>b DEF SubmitJob, Over
<1>2. /\ c \in Chains /\ jobs \in [Chains -> Seq(Job)] /\ jobs[c] \in Seq(Job)
      /\ Len(jobs[c]) \in Nat /\ DOMAIN jobs[c] = 1..Len(jobs[c])
      /\ saw.number \in Nat
  BY <1>a, JobTypes, PublicationAssumption DEF EdInv, TypeOK
<1>3. /\ c[2] \in DOMAIN manifests
      /\ saw.number # 0 => /\ saw.number \in DOMAIN jobs[c]
                           /\ jobs[c][saw.number] = saw.row
  <2>1. ProcSound(p)
    BY DEF EdInv, WorkInv, ProcsSound
  <2> QED
    BY <1>a, <2>1, <1>1 DEF ProcSound
<1> HIDE DEF saw
<1>4. CASE Len(jobs[c]) > saw.number
  <2>1. chain = jobs[c] /\ i = saw.number + 1
    BY <1>a, <1>b, <1>c, <1>4, <1>2 DEF SubmitAfter, saw
  <2>2. jobs' = jobs
    BY <2>1, <1>1, <1>2
  <2>3. JobsStep
    BY <2>2, <1>1, JobsUnchanged DEF ManifestsKept
  <2>4. i \in DOMAIN chain
    BY <2>1, <1>2, <1>4
  <2> QED
    BY <2>1, <2>2, <2>3, <2>4, <1>1, <1>2
<1>5. CASE ~(Len(jobs[c]) > saw.number)
  <2>1. chain = Append(jobs[c], NewJob)
    BY <1>b, <1>5 DEF SubmitAfter, saw
  <2>2. chain \in Seq(Job) /\ Len(chain) = Len(jobs[c]) + 1
    BY <2>1, <1>2, AppendProperties, ConstantTypes
  <2>3. i = Len(chain) /\ i \in DOMAIN chain /\ Len(jobs[c]) < MaxJobs
    BY <1>c, <2>2, <1>1, <1>2, PublicationAssumption
  <2>4. Len(jobs[c]) > 0 => saw.number = Len(jobs[c]) /\ Over(jobs[c][Len(jobs[c])])
    BY <1>1, <1>2, <1>3, <1>5
  <2>5. JobsStep
    BY <2>1, <2>3, <2>4, <1>1, <1>2, <1>3, JobAppended
  <2>6. jobs'[c] = chain
    BY <1>1, <1>2
  <2> QED
    BY <2>2, <2>3, <2>5, <2>6, <1>1
<1> QED
  BY <1>4, <1>5

LEMMA SubmitSound ==
  ASSUME EdInv, NEW p \in Procs, SubmitJob(p)
  PROVE  EdInv'
<1> DEFINE c == proc[p].target
           chain == SubmittedChain(p)
           i == SubmittedNumber(p)
<1>4. /\ JobsStep /\ jobs'[c] = chain /\ i \in DOMAIN chain
      /\ chain \in Seq(Job) /\ Len(chain) <= MaxJobs
  BY SubmissionSound
<1>5. PICK n : n = IF proc[p].seen.number = 0 THEN 0 ELSE proc[p].turn + 1
  OBVIOUS
<1>6. /\ proc[p].pc = "assure" /\ UNCHANGED editorial /\ manifests' = manifests
      /\ queue' = queue /\ losses' = losses
      /\ proc[p].seen.number # 0 => proc[p].turn < 3
  BY DEF SubmitJob
<1>7. proc \in [Procs -> Proc] /\ proc[p] \in Proc
  BY DEF EdInv, TypeOK
<1>8. n \in 0..3
  <2>1. proc[p].turn \in 0..3
    BY <1>7, ProcFields
  <2> QED
    BY <2>1, <1>5, <1>6
<1>9. PICK see : see = [number |-> i, row |-> chain[i]]
  OBVIOUS
<1>10. see \in Seen /\ see.number = i /\ see.row = chain[i]
  BY <1>4, <1>9, SeenTypes
<1> DEFINE new == [[proc[p] EXCEPT !.pc = "assure", !.seen = see] EXCEPT !.turn = n]
<1>11. proc' = [proc EXCEPT ![p] = new]
  <2>1. proc' = [SawJob(p, chain, i)
                   EXCEPT ![p].turn = IF proc[p].seen.number = 0 THEN 0 ELSE @ + 1]
    BY DEF SubmitJob, SubmittedChain, SubmittedNumber
  <2>2. SawJob(p, chain, i) = [proc EXCEPT ![p] = [proc[p] EXCEPT !.pc = "assure",
                                                                 !.seen = see]]
    BY <1>7, <1>9 DEF SawJob
  <2>3. SawJob(p, chain, i)[p].turn = proc[p].turn
    BY <2>2, <1>7 DEF Proc
  <2>4. proc' = [SawJob(p, chain, i) EXCEPT ![p].turn = n]
    BY <2>1, <2>3, <1>5
  <2> QED
    BY <2>2, <2>4, <1>7
<1>12. new \in Proc /\ Sees(proc[p], new, see)
  BY <1>7, <1>8, <1>10, SeesTypes
<1> HIDE DEF new
<1>13. JobsKept /\ ManifestsKept
  BY <1>4, <1>6 DEF JobsStep, ManifestsKept
<1>14. ProcSound(p)'
  BY <1>4, <1>6, <1>10, <1>11, <1>12, <1>13, SeesSound
<1> QED
  BY <1>4, <1>6, <1>11, <1>12, <1>14, LossesUnchanged, QueueUnchanged, JobAndProc

(* A failed job with attempts left is queued again.                        *)
LEMMA RetriedSound ==
  ASSUME NEW row \in Job, CanRetry(row)
  PROVE  RetriedRow(row) \in Job /\ RowSound(RetriedRow(row)) /\ ~Over(row)
<1>1. /\ RetriedRow(row).status = "queued" /\ RetriedRow(row).attempt = row.attempt
      /\ row.attempt \in 0..MaxAttempts /\ row.status = "failed"
      /\ row.attempt < MaxAttempts
  BY DEF RetriedRow, Job, CanRetry
<1>2. RetriedRow(row) \in Job
  BY DEF RetriedRow, Job, JobStatus
<1> QED
  BY <1>1, <1>2, PublicationAssumption DEF RowSound, Over

LEMMA RetryFailedSound ==
  ASSUME EdInv, NEW p \in Procs, RetryFailed(p)
  PROVE  EdInv'
<1> DEFINE c == proc[p].target
           i == proc[p].seen.number
           chain == IF CanRetry(jobs[c][i])
                    THEN [jobs[c] EXCEPT ![i] = RetriedRow(@)] ELSE jobs[c]
           see == [number |-> i, row |-> chain[i]]
           n == proc[p].turn + 1
           new == [[proc[p] EXCEPT !.pc = "assure", !.seen = see] EXCEPT !.turn = n]
<1>1. /\ proc[p].pc = "assure" /\ i # 0 /\ proc[p].turn < 3 /\ UNCHANGED editorial
      /\ manifests' = manifests /\ queue' = queue /\ losses' = losses
      /\ jobs' = [jobs EXCEPT ![c] = chain]
  BY DEF RetryFailed
<1>2. proc \in [Procs -> Proc] /\ proc[p] \in Proc /\ jobs \in [Chains -> Seq(Job)]
  BY DEF EdInv, TypeOK
<1>3. c \in Chains /\ n \in 0..3 /\ jobs[c] \in Seq(Job)
  <2>1. c \in Chains /\ proc[p].turn \in 0..3
    BY <1>2, ProcFields
  <2> QED
    BY <2>1, <1>1, <1>2
<1>4. i \in DOMAIN jobs[c] /\ jobs[c][i] \in Job
  <2>1. ProcSound(p)
    BY DEF EdInv, WorkInv, ProcsSound
  <2>2. i \in DOMAIN jobs[c]
    BY <2>1, <1>1 DEF ProcSound
  <2> QED
    BY <2>2, <1>3
<1>5. proc' = [proc EXCEPT ![p] = new]
  <2>1. proc' = [SawJob(p, chain, i) EXCEPT ![p].turn = @ + 1]
    BY DEF RetryFailed
  <2> HIDE DEF see, chain, c, i
  <2>2. SawJob(p, chain, i) = [proc EXCEPT ![p] = [proc[p] EXCEPT !.pc = "assure",
                                                                 !.seen = see]]
    BY <1>2 DEF SawJob, see
  <2>3. SawJob(p, chain, i)[p].turn = proc[p].turn
    BY <2>2, <1>2 DEF Proc
  <2>4. proc' = [SawJob(p, chain, i) EXCEPT ![p].turn = n]
    BY <2>1, <2>3
  <2> QED
    BY <2>2, <2>4, <1>2
<1> HIDE DEF new
<1>6. JobsStep /\ jobs'[c] = chain /\ i \in DOMAIN chain
  <2>1. CASE CanRetry(jobs[c][i])
    <3>1. /\ RetriedRow(jobs[c][i]) \in Job /\ RowSound(RetriedRow(jobs[c][i]))
          /\ ~Over(jobs[c][i])
      BY <2>1, <1>4, RetriedSound
    <3>2. chain = [jobs[c] EXCEPT ![i] = RetriedRow(jobs[c][i])]
      BY <2>1
    <3> HIDE DEF chain, c, i
    <3>3. jobs' = [jobs EXCEPT ![c][i] = RetriedRow(jobs[c][i])]
      BY <3>2, <1>1, <1>2, <1>3
    <3>4. JobsStep /\ DOMAIN jobs'[c] = DOMAIN jobs[c]
      BY <3>1, <3>3, <1>1, <1>3, <1>4, RowChanges
    <3>5. jobs'[c] = chain
      BY <1>1, <1>2, <1>3
    <3> QED
      BY <3>4, <3>5, <1>4
  <2>2. CASE ~CanRetry(jobs[c][i])
    <3>1. chain = jobs[c]
      BY <2>2
    <3> HIDE DEF chain, c, i
    <3>2. jobs' = jobs
      BY <3>1, <1>1, <1>2, <1>3
    <3>3. JobsStep
      BY <3>2, <1>1, JobsUnchanged DEF ManifestsKept
    <3> QED
      BY <3>1, <3>2, <3>3, <1>4
  <2> QED
    BY <2>1, <2>2
<1>7. chain \in Seq(Job) /\ Len(chain) <= MaxJobs
  <2> HIDE DEF chain
  <2> QED
    BY <1>3, <1>6 DEF JobsStep
<1> HIDE DEF chain
<1>8. see \in Seen /\ see.number = i /\ see.row = chain[i]
  BY <1>6, <1>7, SeenTypes
<1> HIDE DEF see
<1>9. new \in Proc /\ Sees(proc[p], new, see)
  BY <1>2, <1>3, <1>8, SeesTypes DEF new
<1>10. JobsKept /\ ManifestsKept
  BY <1>1, <1>6 DEF JobsStep, ManifestsKept
<1>11. ProcSound(p)'
  BY <1>1, <1>5, <1>6, <1>8, <1>9, <1>10, SeesSound
<1> QED
  BY <1>1, <1>5, <1>6, <1>9, <1>11, LossesUnchanged, QueueUnchanged, JobAndProc

LEMMA AssureEndSound ==
  ASSUME EdInv, NEW p \in Procs, AssureBreaks(p) \/ AssureEnds(p)
  PROVE  EdInv'
<1>1. /\ UNCHANGED editorial /\ UNCHANGED <<manifests, jobs, queue, losses>>
      /\ proc[p].pc \in {"look", "assure"}
  BY DEF AssureBreaks, AssureEnds
<1>2. JobsKept
  BY <1>1 DEF JobsKept
<1>3. CASE Assured(p)
  BY <1>1, <1>2, <1>3, AssuredSound, ProcOnly
<1>4. CASE ~Assured(p)
  <2> DEFINE new == [proc[p] EXCEPT !.pc = "dispatch"]
  <2>1. /\ proc' = [proc EXCEPT ![p].pc = "dispatch"] /\ proc[p].pc = "assure"
        /\ proc[p].seen.number # 0
    BY <1>4 DEF AssureBreaks, AssureEnds
  <2>2. proc \in [Procs -> Proc] /\ proc[p] \in Proc
    BY DEF EdInv, TypeOK
  <2>3. new \in Proc
    BY <2>2, ProcFields DEF ProcPc
  <2>4. proc' = [proc EXCEPT ![p] = new]
    BY <2>1, <2>2
  <2>5. proc'[p] = new
    BY <2>3, <2>4, ProcMoves
  <2>6. /\ new.pc = "dispatch" /\ new.chain = proc[p].chain /\ new.job = proc[p].job
        /\ new.target = proc[p].target /\ new.seen = proc[p].seen
    BY <2>2 DEF Proc
  <2> HIDE DEF new
  <2>7. ProcSound(p)
    BY DEF EdInv, WorkInv, ProcsSound
  <2>8. ProcSound(p)'
    BY <1>1, <2>1, <2>5, <2>6, <2>7 DEF ProcSound
  <2> QED
    BY <1>1, <2>3, <2>4, <2>8, ProcOnly
<1> QED
  BY <1>3, <1>4

LEMMA DispatchSound ==
  ASSUME EdInv, NEW p \in Procs, NEW sent \in BOOLEAN, DispatchJob(p, sent)
  PROVE  EdInv'
<1>1. /\ UNCHANGED editorial /\ manifests' = manifests /\ jobs' = jobs /\ losses' = losses
      /\ Assured(p) /\ proc[p].pc = "dispatch"
      /\ queue' \subseteq queue \union {<<proc[p].target, proc[p].seen.number>>}
  BY DEF DispatchJob
<1>2. JobsStep /\ JobsKept
  BY <1>1, JobsUnchanged DEF ManifestsKept, JobsStep
<1>3. PICK new \in Proc : proc' = [proc EXCEPT ![p] = new] /\ ProcSound(p)'
  BY <1>1, <1>2, AssuredSound
<1>4. QueueStep
  <2>1. /\ proc[p].seen.number \in DOMAIN jobs[proc[p].target]
        /\ proc[p].target \in Chains
    <3>1. ProcSound(p)
      BY DEF EdInv, WorkInv, ProcsSound
    <3> QED
      BY <3>1, <1>1, JobTypes DEF ProcSound, EdInv
  <2>2. proc[p].seen.number \in 1..MaxJobs
    <3>1. jobs[proc[p].target] \in Seq(Job) /\ Len(jobs[proc[p].target]) <= MaxJobs
      BY <2>1 DEF EdInv, TypeOK
    <3> QED
      BY <2>1, <3>1, PublicationAssumption
  <2> QED
    BY <2>1, <2>2, <1>1 DEF QueueStep
<1> QED
  BY <1>1, <1>2, <1>3, <1>4, LossesUnchanged, JobAndProc

-----------------------------------------------------------------------------
(* The engine and the handlers.                                            *)

(* A live job gets another row.                                            *)
LEMMA RowSet ==
  ASSUME EdInv, NEW c \in Chains, NEW i \in DOMAIN jobs[c],
         jobs[c][i].status \in {"queued", "running"},
         NEW status \in JobStatus, NEW attempt \in 0..MaxAttempts,
         status = "queued" => attempt < MaxAttempts,
         status = "running" => attempt > 0,
         SetJob(c, i, status, attempt), manifests' = manifests
  PROVE  JobsStep /\ DOMAIN jobs'[c] = DOMAIN jobs[c]
<1> DEFINE row == [status |-> status, attempt |-> attempt]
<1>1. row \in Job /\ RowSound(row)
  BY DEF Job, RowSound
<1>2. jobs' = [jobs EXCEPT ![c][i] = row]
  BY DEF SetJob
<1>3. ~Over(jobs[c][i])
  BY DEF Over
<1> HIDE DEF row
<1> QED
  BY <1>1, <1>2, <1>3, RowChanges

LEMMA LiveRow ==
  ASSUME EdInv, NEW c \in Chains, NEW i \in DOMAIN jobs[c]
  PROVE  /\ jobs[c][i].attempt \in 0..MaxAttempts /\ RowSound(jobs[c][i])
         /\ i \in 1..MaxJobs
<1>1. jobs[c] \in Seq(Job) /\ Len(jobs[c]) <= MaxJobs /\ jobs[c][i] \in Job
  BY DEF EdInv, TypeOK
<1>2. jobs[c][i].attempt \in 0..MaxAttempts
  BY <1>1 DEF Job
<1>3. RowSound(jobs[c][i])
  BY DEF EdInv, WorkInv, ChainsSound, ChainSound
<1>4. i \in 1..MaxJobs
  BY <1>1, PublicationAssumption
<1> QED
  BY <1>2, <1>3, <1>4

LEMMA CancelSound ==
  ASSUME EdInv, NEW c \in Chains, NEW i, CancelJob(c, i)
  PROVE  EdInv'
<1>1. /\ i \in DOMAIN jobs[c] /\ jobs[c][i].status \in {"queued", "running"}
      /\ SetJob(c, i, "cancelled", jobs[c][i].attempt)
      /\ UNCHANGED editorial /\ manifests' = manifests /\ queue' = queue
      /\ proc' = proc /\ losses' = losses
  BY DEF CancelJob
<1>2. jobs[c][i].attempt \in 0..MaxAttempts /\ "cancelled" \in JobStatus
  BY <1>1, LiveRow DEF JobStatus
<1>3. JobsStep
  BY <1>1, <1>2, RowSet
<1> QED
  BY <1>1, <1>3, LossesUnchanged, QueueUnchanged, JobOnly

LEMMA RetryJobSound ==
  ASSUME EdInv, NEW c \in Chains, NEW i, RetryJob(c, i)
  PROVE  EdInv'
<1> DEFINE row == RetriedRow(jobs[c][i])
<1>1. /\ i \in DOMAIN jobs[c] /\ CanRetry(jobs[c][i])
      /\ jobs' = [jobs EXCEPT ![c][i] = row]
      /\ queue' = queue \union {<<c, i>>}
      /\ UNCHANGED editorial /\ manifests' = manifests
      /\ proc' = proc /\ losses' = losses
  BY DEF RetryJob
<1>2. jobs[c][i] \in Job
  BY <1>1, JobTypes DEF EdInv
<1>3. row \in Job /\ RowSound(row) /\ ~Over(jobs[c][i])
  BY <1>1, <1>2, RetriedSound
<1> HIDE DEF row
<1>4. JobsStep /\ DOMAIN jobs'[c] = DOMAIN jobs[c]
  BY <1>1, <1>3, RowChanges
<1>5. QueueStep
  BY <1>1, <1>4, LiveRow DEF QueueStep
<1> QED
  BY <1>1, <1>4, <1>5, LossesUnchanged, JobOnly

LEMMA RecoverSound ==
  ASSUME EdInv, NEW c \in Chains, NEW i, RecoverJob(c, i)
  PROVE  EdInv'
<1> DEFINE n == jobs[c][i].attempt - 1
<1>1. /\ i \in DOMAIN jobs[c] /\ jobs[c][i].status = "running"
      /\ SetJob(c, i, "queued", n)
      /\ queue' = queue \union {<<c, i>>}
      /\ UNCHANGED editorial /\ manifests' = manifests /\ proc' = proc
      /\ losses' = losses \/ (losses < MaxLosses /\ losses' = losses + 1)
  BY DEF RecoverJob
<1>2. jobs[c][i].attempt \in 0..MaxAttempts /\ jobs[c][i].attempt > 0
  BY <1>1, LiveRow DEF RowSound
<1>3. n \in 0..MaxAttempts /\ n < MaxAttempts /\ "queued" \in JobStatus
  BY <1>2, PublicationAssumption DEF JobStatus
<1> HIDE DEF n
<1>4. JobsStep /\ DOMAIN jobs'[c] = DOMAIN jobs[c]
  BY <1>1, <1>3, RowSet
<1>5. QueueStep
  BY <1>1, <1>4, LiveRow DEF QueueStep
<1>6. losses' \in 0..MaxLosses
  BY <1>1, PublicationAssumption DEF EdInv, TypeOK
<1> QED
  BY <1>1, <1>4, <1>5, <1>6, JobOnly

LEMMA DeliverSound ==
  ASSUME EdInv, NEW w \in Workers, NEW c \in Chains, NEW i, Deliver(w, c, i)
  PROVE  EdInv'
<1>1. /\ w \in Procs /\ <<c, i>> \in queue /\ queue' = queue \ {<<c, i>>}
      /\ UNCHANGED editorial /\ manifests' = manifests /\ losses' = losses
  BY DEF Deliver, Procs
<1>2. QueueStep
  BY <1>1 DEF QueueStep
<1>3. i \in DOMAIN jobs[c]
  <2>1. <<c, i>>[2] \in DOMAIN jobs[<<c, i>>[1]]
    BY <1>1 DEF EdInv, WorkInv, QueueSound
  <2> QED
    BY <2>1
<1>4. CASE jobs[c][i].status # "queued"
  <2>1. jobs' = jobs /\ proc' = proc
    BY <1>4 DEF Deliver
  <2>2. JobsStep
    BY <2>1, <1>1, JobsUnchanged DEF ManifestsKept
  <2> QED
    BY <2>1, <2>2, <1>1, <1>2, LossesUnchanged, JobOnly
<1>5. CASE jobs[c][i].status = "queued"
  <2> DEFINE n == jobs[c][i].attempt + 1
             pc == IF c[1] = "assemble" THEN "phase1" ELSE "render"
             new == [Idle EXCEPT !.chain = c, !.job = i, !.pc = pc]
  <2>1. SetJob(c, i, "running", n) /\ proc' = [proc EXCEPT ![w] = new]
    BY <1>5 DEF Deliver
  <2>2. n \in 0..MaxAttempts /\ n > 0 /\ "running" \in JobStatus
    <3>1. jobs[c][i].attempt \in 0..MaxAttempts /\ jobs[c][i].attempt < MaxAttempts
      BY <1>3, <1>5, LiveRow DEF RowSound
    <3> QED
      BY <3>1, PublicationAssumption DEF JobStatus
  <2>3. JobsStep /\ DOMAIN jobs'[c] = DOMAIN jobs[c]
    <3> HIDE DEF n
    <3> QED
      BY <2>1, <2>2, <1>1, <1>3, <1>5, RowSet
  <2>4. new \in Proc
    <3>1. pc \in ProcPc /\ i \in 0..MaxJobs
      BY <1>3, LiveRow DEF ProcPc
    <3> HIDE DEF pc
    <3>2. [Idle EXCEPT !.chain = c] \in Proc
      BY ConstantTypes, ProcFields
    <3>3. [[Idle EXCEPT !.chain = c] EXCEPT !.job = i] \in Proc
      BY <3>1, <3>2, ProcFields
    <3>4. [[[Idle EXCEPT !.chain = c] EXCEPT !.job = i] EXCEPT !.pc = pc] \in Proc
      BY <3>1, <3>3, ProcFields
    <3> QED
      BY <3>4, Zenon
  <2>5. new.pc \in {"phase1", "render"} /\ new.chain = c /\ new.job = i
    BY DEF Idle
  <2> HIDE DEF new
  <2>6. proc'[w] = new
    BY <2>1, <2>4, <1>1, ProcMoves
  <2>7. ProcSound(w)'
    BY <2>3, <2>5, <2>6, <1>3 DEF ProcSound
  <2> QED
    BY <2>1, <2>3, <2>4, <2>7, <1>1, <1>2, LossesUnchanged, JobAndProc
<1> QED
  BY <1>4, <1>5

(* The handler of a job moves on.                                          *)
LEMMA HandlerMoves ==
  ASSUME EdInv, NEW w \in Workers, proc[w].pc # "idle",
         NEW pc \in {"phase2", "ending", "failing"},
         proc' = [proc EXCEPT ![w].pc = pc], JobsKept
  PROVE  \E new \in Proc : proc' = [proc EXCEPT ![w] = new] /\ ProcSound(w)'
<1> DEFINE new == [proc[w] EXCEPT !.pc = pc]
<1>1. w \in Procs /\ proc \in [Procs -> Proc] /\ proc[w] \in Proc
  BY DEF EdInv, TypeOK, Procs
<1>2. new \in Proc
  BY <1>1, ProcFields DEF ProcPc
<1>3. proc' = [proc EXCEPT ![w] = new]
  BY <1>1
<1>4. new.pc = pc /\ new.chain = proc[w].chain /\ new.job = proc[w].job
  BY <1>1 DEF Proc
<1> HIDE DEF new
<1>5. proc'[w] = new
  BY <1>1, <1>2, <1>3, ProcMoves
<1>6. proc[w].job \in DOMAIN jobs[proc[w].chain] /\ proc[w].chain \in Chains
  <2>1. ProcSound(w)
    BY <1>1 DEF EdInv, WorkInv, ProcsSound
  <2> QED
    BY <2>1, <1>1, ProcFields DEF ProcSound
<1>7. ProcSound(w)'
  BY <1>4, <1>5, <1>6 DEF ProcSound, JobsKept
<1> QED
  BY <1>2, <1>3, <1>7

LEMMA Phase1Sound ==
  ASSUME EdInv, NEW w \in Workers, Phase1(w) \/ HandlerBreaks(w)
  PROVE  EdInv'
<1>1. /\ w \in Procs /\ proc[w].pc # "idle" /\ UNCHANGED editorial
      /\ UNCHANGED <<manifests, jobs, queue, losses>>
      /\ \/ proc' = [proc EXCEPT ![w].pc = "phase2"]
         \/ proc' = [proc EXCEPT ![w].pc = "failing"]
  BY DEF Phase1, HandlerBreaks, Procs
<1>2. JobsKept
  BY <1>1 DEF JobsKept
<1> QED
  BY <1>1, <1>2, HandlerMoves, ProcOnly

(* A job that is executed belongs to a manifest.                           *)
LEMMA HandledManifest ==
  ASSUME EdInv, NEW w \in Workers, proc[w].pc # "idle"
  PROVE  /\ proc[w].chain[2] \in DOMAIN manifests
         /\ <<"render", proc[w].chain[2]>> \in Chains
         /\ proc[w].chain \in Chains
         /\ proc[w].job \in DOMAIN jobs[proc[w].chain]
<1>1. w \in Procs
  BY DEF Procs
<1>2. ProcSound(w) /\ proc[w].chain \in Chains
  BY <1>1, JobTypes DEF EdInv, WorkInv, ProcsSound
<1>3. proc[w].job \in DOMAIN jobs[proc[w].chain]
  BY <1>2 DEF ProcSound
<1>4. Len(jobs[proc[w].chain]) > 0
  BY <1>2, <1>3, JobTypes DEF EdInv
<1>5. proc[w].chain[2] \in DOMAIN manifests
  BY <1>2, <1>4 DEF EdInv, WorkInv, ChainsSound, ChainSound
<1>6. <<"render", proc[w].chain[2]>> \in Chains
  BY <1>2 DEF Chains
<1> QED
  BY <1>2, <1>3, <1>5, <1>6

(* One manifest gets its release or its PDF.                               *)
LEMMA ManifestMarked ==
  ASSUME EdInv, UNCHANGED editorial, NEW m \in DOMAIN manifests, NEW new \in Manifest,
         new.inputs = manifests[m].inputs, manifests[m].released => new.released,
         manifests' = [manifests EXCEPT ![m] = new]
  PROVE  /\ manifests' \in Seq(Manifest) /\ Len(manifests') <= MaxManifests
         /\ ManifestsKept /\ ManifestsSound'
<1>1. manifests \in Seq(Manifest) /\ m \in 1..Len(manifests)
  BY DEF EdInv, TypeOK
<1>2. /\ manifests' \in Seq(Manifest) /\ Len(manifests') = Len(manifests)
      /\ \A j \in 1..Len(manifests) :
           manifests'[j] = IF j = m THEN new ELSE manifests[j]
  BY <1>1, ExceptSeq
<1>3. \A j \in DOMAIN manifests :
           /\ manifests'[j].inputs = manifests[j].inputs
           /\ manifests[j].released => manifests'[j].released
  BY <1>1, <1>2
<1> QED
  BY <1>2, <1>3, ManifestsAdvance

LEMMA Phase2Sound ==
  ASSUME EdInv, NEW w \in Workers, Phase2(w)
  PROVE  EdInv'
<1> DEFINE m == proc[w].chain[2]
<1>1. /\ w \in Procs /\ proc[w].pc = "phase2" /\ UNCHANGED editorial
      /\ jobs' = jobs /\ queue' = queue /\ losses' = losses
  BY DEF Phase2, Procs
<1>2. JobsKept
  BY <1>1 DEF JobsKept
<1>3. CASE ~(manifests[m].released \/ Phase2Release(m))
  <2>1. proc' = [proc EXCEPT ![w].pc = "failing"] /\ manifests' = manifests
    BY <1>3 DEF Phase2
  <2> QED
    BY <2>1, <1>1, <1>2, HandlerMoves, ProcOnly
<1>4. CASE manifests[m].released \/ Phase2Release(m)
  <2> DEFINE new == [manifests[m] EXCEPT !.released = TRUE]
  <2>1. /\ manifests' = [manifests EXCEPT ![m].released = TRUE]
        /\ Assuring(w, <<"render", m>>)
    BY <1>4 DEF Phase2
  <2>2. /\ m \in DOMAIN manifests /\ <<"render", m>> \in Chains
        /\ proc[w].chain \in Chains /\ proc[w].job \in DOMAIN jobs[proc[w].chain]
    BY <1>1, HandledManifest
  <2> HIDE DEF m
  <2>3. manifests[m] \in Manifest
    BY <2>2, ManifestTypes DEF EdInv
  <2>4. new \in Manifest /\ new.inputs = manifests[m].inputs /\ new.released
    BY <2>3 DEF Manifest
  <2>5. manifests' = [manifests EXCEPT ![m] = new]
    BY <2>1, <2>2
  <2> HIDE DEF new
  <2>6. /\ manifests' \in Seq(Manifest) /\ Len(manifests') <= MaxManifests
        /\ ManifestsKept /\ ManifestsSound'
    BY <2>2, <2>4, <2>5, <1>1, ManifestMarked
  <2>7. PICK next \in Proc :
           /\ proc' = [proc EXCEPT ![w] = next]
           /\ next.pc = "look" /\ next.target = <<"render", m>>
           /\ next.chain = proc[w].chain /\ next.job = proc[w].job
    BY <2>1, <2>2, <1>1, AssuringSound
  <2>8. /\ proc' \in [Procs -> Proc] /\ proc'[w] = next
        /\ \A q \in Procs : q # w => proc'[q] = proc[q]
    BY <2>7, <1>1, ProcMoves
  <2>9. ProcSound(w)'
    BY <2>2, <2>6, <2>7, <2>8, <1>1 DEF ProcSound, ManifestsKept
  <2>10. JobsStep
    BY <2>6, <1>1, JobsUnchanged
  <2> QED
    BY <2>6, <2>8, <2>9, <2>10, <1>1, WorkFrame, LossesUnchanged, QueueUnchanged
<1> QED
  BY <1>3, <1>4

LEMMA RenderSound ==
  ASSUME EdInv, NEW w \in Workers, Render(w)
  PROVE  EdInv'
<1> DEFINE m == proc[w].chain[2]
           new == [manifests[m] EXCEPT !.rendered = TRUE]
<1>1. /\ w \in Procs /\ proc[w].pc = "render" /\ UNCHANGED editorial
      /\ jobs' = jobs /\ queue' = queue /\ losses' = losses
      /\ manifests' = [manifests EXCEPT ![m].rendered = TRUE]
      /\ proc' = [proc EXCEPT ![w].pc = "ending"]
  BY DEF Render, Procs
<1>2. m \in DOMAIN manifests
  BY <1>1, HandledManifest
<1> HIDE DEF m
<1>3. manifests[m] \in Manifest
  BY <1>2, ManifestTypes DEF EdInv
<1>4. /\ new \in Manifest /\ new.inputs = manifests[m].inputs
      /\ new.released = manifests[m].released
  BY <1>3 DEF Manifest
<1>5. manifests' = [manifests EXCEPT ![m] = new]
  BY <1>1, <1>2
<1> HIDE DEF new
<1>6. /\ manifests' \in Seq(Manifest) /\ Len(manifests') <= MaxManifests
      /\ ManifestsKept /\ ManifestsSound'
  BY <1>1, <1>2, <1>4, <1>5, ManifestMarked
<1>7. JobsStep /\ JobsKept
  BY <1>1, <1>6, JobsUnchanged DEF JobsStep
<1>8. PICK next \in Proc : proc' = [proc EXCEPT ![w] = next] /\ ProcSound(w)'
  BY <1>1, <1>7, HandlerMoves
<1>9. /\ proc' \in [Procs -> Proc]
      /\ \A q \in Procs : q # w => proc'[q] = proc[q]
  BY <1>1, <1>8, ProcMoves
<1> QED
  BY <1>1, <1>6, <1>7, <1>8, <1>9, WorkFrame, LossesUnchanged, QueueUnchanged

LEMMA IdleSound ==
  ASSUME EdInv, NEW p \in Procs, proc' = [proc EXCEPT ![p] = Idle]
  PROVE  Idle \in Proc /\ ProcSound(p)'
<1>1. Idle \in Proc /\ Idle.pc = "idle"
  BY ConstantTypes DEF Idle
<1>2. proc'[p] = Idle
  BY <1>1, ProcMoves
<1> QED
  BY <1>1, <1>2 DEF ProcSound

LEMMA HandlerEndsSound ==
  ASSUME EdInv, NEW w \in Workers, HandlerEnds(w)
  PROVE  EdInv'
<1> DEFINE c == proc[w].chain
           i == proc[w].job
           status == IF proc[w].pc = "ending" THEN "succeeded" ELSE "failed"
<1>1. /\ w \in Procs /\ proc[w].pc # "idle" /\ UNCHANGED editorial
      /\ manifests' = manifests /\ queue' = queue /\ losses' = losses
      /\ proc' = [proc EXCEPT ![w] = Idle]
      /\ \/ jobs' = jobs
         \/ jobs[c][i].status = "running" /\ SetJob(c, i, status, jobs[c][i].attempt)
  BY DEF HandlerEnds, Procs
<1>2. c \in Chains /\ i \in DOMAIN jobs[c]
  BY <1>1, HandledManifest
<1>3. status \in JobStatus /\ status # "queued" /\ status # "running"
  BY DEF JobStatus
<1> HIDE DEF c, i, status
<1>4. JobsStep
  <2>1. jobs[c][i].attempt \in 0..MaxAttempts
    BY <1>2, LiveRow
  <2>2. CASE jobs' = jobs
    BY <2>2, <1>1, JobsUnchanged DEF ManifestsKept
  <2>3. CASE jobs[c][i].status = "running" /\ SetJob(c, i, status, jobs[c][i].attempt)
    BY <2>1, <2>3, <1>1, <1>2, <1>3, RowSet
  <2> QED
    BY <2>2, <2>3, <1>1
<1> QED
  BY <1>1, <1>4, IdleSound, LossesUnchanged, QueueUnchanged, JobAndProc

LEMMA DiesSound ==
  ASSUME EdInv, NEW p \in Procs, ProcessDies(p)
  PROVE  EdInv'
<1>1. /\ losses < MaxLosses /\ losses' = losses + 1 /\ UNCHANGED editorial
      /\ manifests' = manifests /\ jobs' = jobs /\ queue' = queue
      /\ proc' = [proc EXCEPT ![p] = Idle]
  BY DEF ProcessDies
<1>2. losses' \in 0..MaxLosses
  BY <1>1, PublicationAssumption DEF EdInv, TypeOK
<1>3. JobsStep
  BY <1>1, JobsUnchanged DEF ManifestsKept
<1> QED
  BY <1>1, <1>2, <1>3, IdleSound, QueueUnchanged, JobAndProc

-----------------------------------------------------------------------------
(* The theorems.                                                           *)

LEMMA StepSound ==
  ASSUME EdInv, [Next]_vars
  PROVE  EdInv'
<1>1. CASE EditorialStep
  BY <1>1, EditorialSound
<1>2. CASE \E p \in Requests : Accept(p) \/ RetryRender(p)
  BY <1>2, AcceptSound, RetryRenderSound
<1>3. CASE \E p \in Procs : AssureStep(p) \/ ProcessDies(p)
  BY <1>3, LookSound, SubmitSound, RetryFailedSound, AssureEndSound, DispatchSound,
     DiesSound DEF AssureStep
<1>4. CASE \E w \in Workers : WorkerStep(w)
  BY <1>4, DeliverSound, Phase1Sound, Phase2Sound, RenderSound, HandlerEndsSound
     DEF WorkerStep
<1>5. CASE \E c \in Chains, i \in 1..MaxJobs :
             CancelJob(c, i) \/ RetryJob(c, i) \/ RecoverJob(c, i)
  BY <1>5, CancelSound, RetryJobSound, RecoverSound
<1>6. CASE UNCHANGED vars
  <2>1. /\ UNCHANGED editorial /\ manifests' = manifests /\ jobs' = jobs
        /\ queue' = queue /\ proc' = proc /\ losses' = losses
    BY <1>6 DEF vars, editorial
  <2>2. JobsStep
    BY <2>1, JobsUnchanged DEF ManifestsKept
  <2> QED
    BY <2>1, <2>2, LossesUnchanged, QueueUnchanged, JobOnly
<1> QED
  BY <1>1, <1>2, <1>3, <1>4, <1>5, <1>6 DEF Next

(* The inductive invariant holds in every reachable state.                 *)
THEOREM EditionInvariant == Spec => []EdInv
<1>1. Init => EdInv
  BY InitSound
<1>2. EdInv /\ [Next]_vars => EdInv'
  BY StepSound
<1> QED
  BY <1>1, <1>2, PTL DEF Spec

(* Every variable keeps its type: attempts never leave their bound, and    *)
(* rows, numbers and references stay within MaxJobs and MaxManifests.  That *)
(* what they refer to exists is in EditionInvariant (ChainsSound,          *)
(* QueueSound, ProcsSound).                                                *)
THEOREM EditionTypes == Spec => []TypeOK
<1>1. EdInv => TypeOK
  BY DEF EdInv
<1> QED
  BY <1>1, EditionInvariant, PTL

(* At most one job of a manifest or of a release is queued or runs,        *)
(* whoever assures, retries, cancels and recovers jobs meanwhile           *)
(* (_ensure_queued_job).                                                   *)
THEOREM OneJobAtATime == Spec => []OneLiveJob
<1>1. EdInv => OneLiveJob
  <2> SUFFICES ASSUME EdInv, NEW c \in Chains
               PROVE  Cardinality({i \in DOMAIN jobs[c] :
                         jobs[c][i].status \in {"queued", "running"}}) <= 1
    BY DEF OneLiveJob
  <2> DEFINE live == {i \in DOMAIN jobs[c] :
                        jobs[c][i].status \in {"queued", "running"}}
             n == Len(jobs[c])
  <2>1. n \in Nat /\ DOMAIN jobs[c] = 1..n
    BY JobTypes DEF EdInv
  <2>2. \A i \in DOMAIN jobs[c] : i < n => Over(jobs[c][i])
    BY DEF EdInv, WorkInv, ChainsSound, ChainSound
  <2>3. live \subseteq {n}
    BY <2>1, <2>2 DEF Over
  <2>4. IsFiniteSet({n}) /\ Cardinality({n}) = 1
    BY FS_Singleton
  <2> HIDE DEF live, n
  <2>5. Cardinality(live) <= 1
    BY <2>3, <2>4, FS_Subset
  <2> QED
    BY <2>5 DEF live
<1> QED
  BY <1>1, EditionInvariant, PTL

(* The entries of the inputs as they are now.                              *)
LEMMA CurrentEntries ==
  ASSUME NEW e \in CurrentInputs.entries
  PROVE  /\ e.subject \in With("included")
         /\ e.pin = composition.entries[e.subject].pin
         /\ e.decision = EffectiveDecision(e.subject, e.pin)
<1> DEFINE Freeze(s) == [subject |-> s, pin |-> composition.entries[s].pin,
                         decision |-> EffectiveDecision(s, composition.entries[s].pin)]
<1>1. CurrentInputs.entries = {Freeze(s) : s \in With("included")}
  BY DEF CurrentInputs
<1>2. \A s : /\ Freeze(s).subject = s /\ Freeze(s).pin = composition.entries[s].pin
             /\ Freeze(s).decision = EffectiveDecision(s, composition.entries[s].pin)
  OBVIOUS
<1> HIDE DEF Freeze
<1> QED
  BY <1>1, <1>2

(* A manifest that matches the edition is the newest, unless it has been   *)
(* released, and nothing in it is excluded.                                *)
LEMMA MatchIsReviewed ==
  ASSUME EdInv, NEW m \in DOMAIN manifests, ~manifests[m].released, InputsMatch(m)
  PROVE  /\ m = Len(manifests)
         /\ \A e \in manifests[m].inputs.entries :
              /\ composition.entries[e.subject] = Included(e.pin)
              /\ ~IsExcluded(e.subject, e.pin)
<1>1. manifests[m].inputs = CurrentInputs
  BY DEF InputsMatch
<1>2. /\ edition.version \in Nat /\ composition.version \in Nat
      /\ \A s, pin : EffectiveDecision(s, pin) \in Nat
      /\ Len(manifests) \in Nat /\ DOMAIN manifests = 1..Len(manifests)
  BY ManifestTypes, PublicationAssumption DEF EdInv
<1>3. ~Past(m)
  <2>1. CurrentInputs.edition = edition.version
        /\ CurrentInputs.composition = composition.version
    BY DEF CurrentInputs
  <2>2. \A e \in manifests[m].inputs.entries :
          e.decision = EffectiveDecision(e.subject, e.pin)
    BY <1>1, CurrentEntries
  <2> QED
    BY <2>1, <2>2, <1>1, <1>2 DEF Past
<1>4. m = Len(manifests)
  BY <1>2, <1>3 DEF EdInv, ManifestsSound
<1>5. ASSUME NEW e \in manifests[m].inputs.entries
      PROVE  /\ composition.entries[e.subject] = Included(e.pin)
             /\ ~IsExcluded(e.subject, e.pin)
  <2>1. /\ e.subject \in With("included")
        /\ e.pin = composition.entries[e.subject].pin
        /\ e.decision = EffectiveDecision(e.subject, e.pin)
    BY <1>1, CurrentEntries
  <2>2. /\ e.subject \in Subjects
        /\ composition.entries[e.subject].disposition = "included"
    BY <2>1 DEF With
  <2>3. composition.entries[e.subject].decision = 0
    BY <2>2 DEF EdInv, EntriesSound
  <2>4. composition.entries[e.subject] \in Entry
    BY <2>2 DEF EdInv, TypeOK
  <2>5. composition.entries[e.subject] = Included(e.pin)
    BY <2>1, <2>2, <2>3, <2>4 DEF Entry, Included
  <2>6. FrozenSound(e)
    BY DEF EdInv, ManifestsSound, ManifestSound
  <2>7. ~IsExcluded(e.subject, e.pin)
    BY <2>1, <2>6 DEF FrozenSound, IsExcluded
  <2> QED
    BY <2>5, <2>7
<1> QED
  BY <1>4, <1>5

(* Only the second phase of an assembly releases.                          *)
LEMMA ReleasesInPhase2 ==
  ASSUME EdInv, Next, NEW m \in DOMAIN manifests,
         manifests'[m].released, ~manifests[m].released
  PROVE  InputsMatch(m)
<1>1. manifests \in Seq(Manifest) /\ DOMAIN manifests = 1..Len(manifests)
  BY DEF EdInv, TypeOK
<1>2. manifests' # manifests
  OBVIOUS
<1>3. CASE EditorialStep
  BY <1>2, <1>3 DEF EditorialStep, UpdateEdition, ArchiveEdition, RetryRun, SetRun,
     AugmentDocument, RunEnds, RepairDocument, Decide, Mutate, IssueCommand
<1>4. ASSUME NEW p \in Requests, Accept(p) PROVE FALSE
  <2>1. PICK new : manifests' = Append(manifests, new)
    BY <1>2, <1>4 DEF Accept
  <2>2. Append(manifests, new)[m] = manifests[m]
    BY <1>1
  <2> QED
    BY <2>1, <2>2
<1>5. CASE \E p \in Requests : RetryRender(p)
  BY <1>2, <1>5 DEF RetryRender
<1>6. CASE \E p \in Procs : AssureStep(p) \/ ProcessDies(p)
  BY <1>2, <1>6 DEF AssureStep, Look, SubmitJob, RetryFailed, AssureEnds, AssureBreaks,
     DispatchJob, ProcessDies
<1>7. CASE \E c \in Chains, i \in 1..MaxJobs :
             CancelJob(c, i) \/ RetryJob(c, i) \/ RecoverJob(c, i)
  BY <1>2, <1>7 DEF CancelJob, RetryJob, RecoverJob
<1>8. ASSUME NEW w \in Workers, Render(w) PROVE FALSE
  <2>1. PICK n : manifests' = [manifests EXCEPT ![n].rendered = TRUE]
    BY <1>8 DEF Render
  <2>2. manifests[m] \in Manifest
    BY ManifestTypes DEF EdInv
  <2>3. manifests'[m] = IF m = n THEN [manifests[m] EXCEPT !.rendered = TRUE]
                        ELSE manifests[m]
    BY <2>1
  <2> QED
    BY <2>2, <2>3 DEF Manifest
<1>9. ASSUME NEW w \in Workers, Phase2(w) PROVE InputsMatch(m)
  <2> DEFINE n == proc[w].chain[2]
  <2>1. /\ manifests' = [manifests EXCEPT ![n].released = TRUE]
        /\ manifests[n].released \/ Phase2Release(n)
    BY <1>2, <1>9 DEF Phase2
  <2> HIDE DEF n
  <2>2. m = n
    BY <2>1
  <2> QED
    BY <2>1, <2>2 DEF Phase2Release, MayRelease
<1>10. CASE \E w \in Workers : \/ Phase1(w) \/ HandlerBreaks(w) \/ HandlerEnds(w)
                              \/ \E c \in Chains, i \in 1..MaxJobs : Deliver(w, c, i)
  BY <1>2, <1>10 DEF Phase1, HandlerBreaks, HandlerEnds, Deliver
<1> QED
  BY <1>3, <1>4, <1>5, <1>6, <1>7, <1>8, <1>9, <1>10 DEF Next, WorkerStep

(* What is released is the newest manifest, all of it still included and   *)
(* nothing of it excluded by a later review, although jobs of older        *)
(* manifests can be retried for ever (assemble, _publication_inputs_match). *)
THEOREM ReleasesAreAsReviewed == Spec => ReleaseIsAsReviewed
<1> DEFINE Step == \A m \in DOMAIN manifests :
        manifests'[m].released /\ ~manifests[m].released =>
            /\ m = Len(manifests)
            /\ \A e \in manifests[m].inputs.entries :
                 /\ composition.entries[e.subject] = Included(e.pin)
                 /\ ~IsExcluded(e.subject, e.pin)
<1>1. ASSUME EdInv, [Next]_vars PROVE [Step]_vars
  <2>1. CASE Next
    BY <2>1, <1>1, ReleasesInPhase2, MatchIsReviewed
  <2> QED
    BY <2>1, <1>1
<1> QED
  BY <1>1, EditionInvariant, PTL DEF Spec, ReleaseIsAsReviewed

(* A repeated command is answered with its result and changes nothing,     *)
(* whatever other commands did since (_mutate).                            *)
THEOREM RepeatsAreAnswered == Spec => RepeatIsAnswered
<1> DEFINE Step == \A k \in Keys : events[k] # 0 =>
        /\ events'[k] = events[k]
        /\ commands'[k].answer \notin {"conflict", "refused"}
<1>1. ASSUME EdInv, [Next]_vars PROVE Step
  <2> SUFFICES ASSUME NEW k \in Keys, events[k] # 0
               PROVE  /\ events'[k] = events[k]
                      /\ commands'[k].answer \notin {"conflict", "refused"}
    OBVIOUS
  <2>1. /\ commands[k].kind # "none" /\ commands[k].answer \in {"done", "archived"}
        /\ commands \in [Keys -> Command] /\ events \in [Keys -> Nat]
    BY <1>1 DEF EdInv, CommandsSound, CommandSound, TypeOK
  <2>2. CASE UNCHANGED <<commands, events>>
    BY <2>1, <2>2
  <2>3. ASSUME NEW j \in Keys, Mutate(j)
        PROVE  /\ events'[k] = events[k]
               /\ commands'[k].answer \notin {"conflict", "refused"}
    <3>1. CASE j = k
      <4>1. events' = events /\ \E a \in {"archived", "done"} :
              commands' = [commands EXCEPT ![k].answer = a]
        BY <2>3, <3>1 DEF Mutate, AnswerCommand, AlreadyApplied
      <4> QED
        BY <4>1, <2>1 DEF Command
    <3>2. CASE j # k
      <4>1. /\ events' = events \/ events' = [events EXCEPT ![j] = composition.version + 1]
            /\ \E a \in Answer : commands' = [commands EXCEPT ![j].answer = a]
        BY <2>3 DEF Mutate, AnswerCommand, Answer
      <4> QED
        BY <4>1, <3>2, <2>1
    <3> QED
      BY <3>1, <3>2
  <2>4. ASSUME NEW j \in Keys, NEW kind, NEW targets, IssueCommand(j, kind, targets)
        PROVE  /\ events'[k] = events[k]
               /\ commands'[k].answer \notin {"conflict", "refused"}
    <3>1. j # k /\ events' = events
      BY <2>1, <2>4 DEF IssueCommand
    <3>2. \E new : commands' = [commands EXCEPT ![j] = new]
      BY <2>4 DEF IssueCommand
    <3> QED
      BY <3>1, <3>2, <2>1
  <2>5. CASE EditorialStep
    <3>1. CASE \E j \in Keys : \/ Mutate(j)
                              \/ \E kind \in CommandKind, targets \in SUBSET Subjects :
                                   IssueCommand(j, kind, targets)
      BY <3>1, <2>3, <2>4
    <3>2. CASE ~\E j \in Keys : \/ Mutate(j)
                               \/ \E kind \in CommandKind, targets \in SUBSET Subjects :
                                    IssueCommand(j, kind, targets)
      <4>1. UNCHANGED <<commands, events>>
        BY <2>5, <3>2 DEF EditorialStep, UpdateEdition, ArchiveEdition, RetryRun, SetRun,
           AugmentDocument, RunEnds, RepairDocument, Decide
      <4> QED
        BY <4>1, <2>2
    <3> QED
      BY <3>1, <3>2
  <2>6. CASE ~EditorialStep
    <3>1. UNCHANGED editorial
      BY <1>1, <2>6 DEF Next, vars, editorial, Accept, RetryRender, AssureStep, Look,
         SubmitJob, RetryFailed, AssureEnds, AssureBreaks, DispatchJob, ProcessDies,
         WorkerStep, Deliver, Phase1, Phase2, Render, HandlerBreaks, HandlerEnds,
         CancelJob, RetryJob, RecoverJob
    <3> QED
      BY <3>1, <2>2 DEF editorial
  <2> QED
    BY <2>5, <2>6
<1>2. EdInv /\ [Next]_vars => [Step]_vars
  BY <1>1
<1> QED
  BY <1>2, EditionInvariant, PTL DEF Spec, RepeatIsAnswered
=============================================================================
