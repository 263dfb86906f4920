------------------------ MODULE EditionPublication ------------------------
(* The composition of an edition, the review of its articles, and its       *)
(* publication: acceptance freezes a manifest, a job assembles it into a    *)
(* release, another job renders the release (application/edition_*.py).     *)
(* What locks the edition's row is one step; whatever happens outside that  *)
(* lock, or in several transactions, is several.                            *)
EXTENDS Integers, Sequences, FiniteSets, FiniteSetsExt

CONSTANTS
    Subjects,         \* the articles of the edition
    Keys,             \* idempotency keys of composition commands
    Requests,         \* requests that accept the edition or retry its render
    Workers,
    MaxAttempts,      \* attempts of a job
    MaxGeneration,    \* bound: pipeline generations of a run
    MaxDocument,      \* bound: publication artifacts of a run
    MaxEdition,       \* bound: versions of the edition
    MaxDecisions,     \* bound: review decisions
    MaxManifests,     \* bound: manifests
    MaxJobs,          \* bound: jobs that succeed one another for one input
    MaxLosses         \* bound: workers and requests lost, leases lapsed

ASSUME PublicationAssumption ==
    /\ Requests \cap Workers = {}
    /\ MaxAttempts \in Nat \ {0} /\ MaxGeneration \in Nat \ {0}
    /\ MaxDocument \in Nat \ {0} /\ MaxEdition \in Nat \ {0}
    /\ MaxManifests \in Nat \ {0}
    /\ MaxDecisions \in Nat /\ MaxJobs \in Nat /\ MaxLosses \in Nat

VARIABLES
    edition,      \* its row: open and version
    production,   \* the run of each article and its publication artifacts
    composition,  \* version and one entry for each article
    decisions,    \* the review decisions, oldest first
    commands,     \* composition commands as the client keeps repeating them
    events,       \* the version a command of this key produced, 0 for none
    manifests,    \* frozen inputs, oldest first, with their release and PDF
    jobs,         \* per kind and manifest, a job and its successors
    queue,        \* messages in Redis
    proc,         \* requests and workers
    losses

vars == <<edition, production, composition, decisions, commands, events,
          manifests, jobs, queue, proc, losses>>

editorial == <<edition, production, composition, decisions, commands, events>>

Procs == Requests \union Workers
Manifests == 1..MaxManifests
Chains == {"assemble", "render"} \X Manifests

(* A document is named by the generation of its run and its version; an    *)
(* article excluded without a document is named by the generation alone.   *)
Pins == [generation : 1..MaxGeneration, document : 0..MaxDocument]
NoPin == [generation |-> 0, document |-> 0]

Disposition == {"absent", "included", "deferred", "excluded"}
Entry == [disposition : Disposition, pin : Pins \union {NoPin},
          decision : 0..MaxDecisions]
Absent == [disposition |-> "absent", pin |-> NoPin, decision |-> 0]
Included(pin) == [disposition |-> "included", pin |-> pin, decision |-> 0]
Deferred == [disposition |-> "deferred", pin |-> NoPin, decision |-> 0]
Excluded(pin, decision) ==
    [disposition |-> "excluded", pin |-> pin, decision |-> decision]

JobStatus == {"queued", "running", "succeeded", "failed", "cancelled"}
Job == [status : JobStatus, attempt : 0..MaxAttempts]
NewJob == [status |-> "queued", attempt |-> 0]

CommandKind == {"none", "include", "defer", "exclude", "reorder", "replace"}
Answer == {"none", "done", "archived", "conflict", "refused"}
Command == [kind : CommandKind, targets : SUBSET Subjects,
            pins : [Subjects -> Pins \union {NoPin}], expected : Nat,
            answer : Answer]
NoCommand == [kind |-> "none", targets |-> {}, pins |-> [s \in Subjects |-> NoPin],
              expected |-> 0, answer |-> "none"]

ProcPc == {"idle", "phase1", "phase2", "render", "look", "assure",
           "dispatch", "ending", "failing"}

(* The process executes job number job of its chain and assures a job of   *)
(* target, of which it read seen (number 0: none) and turned turn times.   *)
Proc == [pc : ProcPc, chain : Chains, job : 0..MaxJobs, target : Chains,
         seen : [number : 0..MaxJobs, row : Job], turn : 0..3]
Nothing == [number |-> 0, row |-> NewJob]
Anywhere == <<"assemble", 1>>
Idle == [pc |-> "idle", chain |-> Anywhere, job |-> 0, target |-> Anywhere,
         seen |-> Nothing, turn |-> 0]

Decision == [subject : Subjects, pin : Pins, exclude : BOOLEAN]
Run == [generation : 1..MaxGeneration, status : {"ready", "running", "failed"},
        latest : 0..MaxDocument, verified : SUBSET (1..MaxDocument)]

(* What a manifest freezes, with the decision that was effective.          *)
Frozen == [subject : Subjects, pin : Pins \union {NoPin}, decision : 0..MaxDecisions]
Inputs == [edition : 1..MaxEdition, composition : Nat, entries : SUBSET Frozen,
           exclusions : SUBSET (Subjects \X (0..MaxDecisions))]
Manifest == [inputs : Inputs, released : BOOLEAN, rendered : BOOLEAN]

TypeOK ==
    /\ edition \in [open : BOOLEAN, version : 1..MaxEdition]
    /\ production \in [Subjects -> Run]
    /\ composition \in [version : Nat, entries : [Subjects -> Entry]]
    /\ decisions \in Seq(Decision) /\ Len(decisions) <= MaxDecisions
    /\ commands \in [Keys -> Command]
    /\ events \in [Keys -> Nat]
    /\ manifests \in Seq(Manifest) /\ Len(manifests) <= MaxManifests
    /\ jobs \in [Chains -> Seq(Job)] /\ \A c \in Chains : Len(jobs[c]) <= MaxJobs
    /\ queue \subseteq Chains \X (1..MaxJobs)
    /\ proc \in [Procs -> Proc]
    /\ losses \in 0..MaxLosses

(* Production has come to a first document of every article.               *)
Init ==
    /\ edition = [open |-> TRUE, version |-> 1]
    /\ production = [s \in Subjects |-> [generation |-> 1, status |-> "ready",
                                         latest |-> 1, verified |-> {1}]]
    /\ composition = [version |-> 0, entries |-> [s \in Subjects |-> Absent]]
    /\ decisions = << >>
    /\ commands = [k \in Keys |-> NoCommand]
    /\ events = [k \in Keys |-> 0]
    /\ manifests = << >>
    /\ jobs = [c \in Chains |-> << >>]
    /\ queue = {}
    /\ proc = [p \in Procs |-> Idle]
    /\ losses = 0

-----------------------------------------------------------------------------
(* The edition and its articles.                                           *)

(* EditionService.update and archive: compare-and-swap on the version.     *)
UpdateEdition ==
    /\ edition.open /\ edition.version < MaxEdition
    /\ edition' = [edition EXCEPT !.version = @ + 1]
    /\ UNCHANGED <<production, composition, decisions, commands, events,
                   manifests, jobs, queue, proc, losses>>

ArchiveEdition ==
    /\ edition.open /\ edition.version < MaxEdition
    /\ edition' = [open |-> FALSE, version |-> edition.version + 1]
    /\ UNCHANGED <<production, composition, decisions, commands, events,
                   manifests, jobs, queue, proc, losses>>

SetRun(s, run) ==
    /\ production' = [production EXCEPT ![s] = run]
    /\ UNCHANGED <<edition, composition, decisions, commands, events,
                   manifests, jobs, queue, proc, losses>>

(* retry_from_stage: a new generation, the publication artifacts go stale. *)
RetryRun(s) ==
    LET run == production[s] IN
    /\ edition.open
    /\ run.status # "running" /\ run.generation < MaxGeneration
    /\ SetRun(s, [run EXCEPT !.generation = @ + 1, !.status = "running",
                             !.verified = {}])

(* The pipeline ends, with a document or without one.                      *)
RunEnds(s, ready) ==
    LET run == production[s] IN
    /\ run.status = "running"
    /\ ready => run.latest < MaxDocument
    /\ SetRun(s, IF ready
                 THEN [run EXCEPT !.status = "ready", !.latest = @ + 1,
                                  !.verified = {run.latest + 1}]
                 ELSE [run EXCEPT !.status = "failed"])

(* A repair makes the documents stale. Either it assembles their successor, *)
(* or the run leaves READY and owes a new one.                             *)
RepairDocument(s, rebuilt) ==
    LET run == production[s] IN
    /\ edition.open
    /\ run.status # "running"
    /\ rebuilt => run.latest < MaxDocument
    /\ SetRun(s, IF rebuilt
                 THEN [run EXCEPT !.latest = @ + 1, !.verified = {run.latest + 1}]
                 ELSE [run EXCEPT !.status = "failed", !.verified = {}])

(* The analyst's opinion is appended in a newer document, beside the one   *)
(* it augments; the edition is not locked.                                 *)
AugmentDocument(s) ==
    LET run == production[s] IN
    /\ run.verified # {} /\ run.latest < MaxDocument
    /\ SetRun(s, [run EXCEPT !.latest = @ + 1, !.verified = @ \union {run.latest + 1}])

-----------------------------------------------------------------------------
(* Review decisions (EditionReviewService.decide).                         *)

(* The document of the entry is the one its run now has.                   *)
PinIsCurrent(s, pin) ==
    /\ pin.generation = production[s].generation
    /\ pin.document = 0 \/ pin.document \in production[s].verified

Decide(s, exclude) ==
    LET entry == composition.entries[s] IN
    /\ edition.open
    /\ entry.disposition = "included" /\ PinIsCurrent(s, entry.pin)
    /\ Len(decisions) < MaxDecisions
    /\ decisions' = Append(decisions,
         [subject |-> s, pin |-> entry.pin, exclude |-> exclude])
    /\ UNCHANGED <<edition, production, composition, commands, events,
                   manifests, jobs, queue, proc, losses>>

(* The number of the last decision about exactly this document, 0 if none. *)
EffectiveDecision(s, pin) ==
    Max({0} \union {i \in DOMAIN decisions :
                      decisions[i].subject = s /\ decisions[i].pin = pin})

IsExcluded(s, pin) ==
    LET d == EffectiveDecision(s, pin) IN d # 0 /\ decisions[d].exclude

-----------------------------------------------------------------------------
(* Composition commands (EditionCompositionService).                       *)

LatestPin(s) ==
    IF production[s].verified = {} THEN NoPin
    ELSE [generation |-> production[s].generation,
          document |-> Max(production[s].verified)]

(* A client composes a command from what it reads now, and sends it as     *)
(* often as it likes.                                                      *)
IssueCommand(k, kind, targets) ==
    /\ commands[k].kind = "none"
    /\ kind # "none"
    /\ kind # "replace" => \E s \in Subjects : targets = {s}
    /\ kind = "reorder" => \E s \in targets :
         composition.entries[s].disposition = "included"
    /\ commands' = [commands EXCEPT ![k] =
         [kind |-> kind, targets |-> targets,
          pins |-> [s \in Subjects |->
            IF s \in targets /\ kind \in {"include", "replace"} THEN LatestPin(s) ELSE NoPin],
          expected |-> composition.version, answer |-> "none"]]
    /\ UNCHANGED <<edition, production, composition, decisions, events,
                   manifests, jobs, queue, proc, losses>>

(* _resolve_exclusion_identity; NoPin is a refusal.                        *)
ExclusionIdentity(s) ==
    LET entry == composition.entries[s]
        run == production[s] IN
    CASE entry.disposition = "included" ->
            IF PinIsCurrent(s, entry.pin) THEN entry.pin ELSE NoPin
      [] entry.disposition # "included" /\ run.status = "ready" -> LatestPin(s)
      [] entry.disposition # "included" /\ run.status = "failed" /\ run.verified = {} ->
            [generation |-> run.generation, document |-> 0]
      [] OTHER -> NoPin

(* The entries a command asks for; an exclusion appends its own decision.  *)
Requested(c) ==
    LET old == composition.entries IN
    CASE c.kind = "replace" ->
            [s \in Subjects |-> IF s \in c.targets THEN Included(c.pins[s]) ELSE Absent]
      [] c.kind = "reorder" -> old
      [] OTHER -> [s \in Subjects |->
            IF s \notin c.targets THEN old[s]
            ELSE CASE c.kind = "include" -> Included(c.pins[s])
                   [] c.kind = "defer" -> Deferred
                   [] OTHER -> Excluded(ExclusionIdentity(s), Len(decisions) + 1)]

(* _validate_mutation_references, of every entry of the new composition.   *)
ReferencesAreValid(entries) ==
    \A s \in Subjects :
        /\ entries[s].disposition \in {"included", "excluded"} =>
             entries[s].pin # NoPin /\ PinIsCurrent(s, entries[s].pin)
        /\ entries[s].disposition = "included" => entries[s].pin.document # 0

AnswerCommand(k, answer) ==
    /\ commands' = [commands EXCEPT ![k].answer = answer]
    /\ UNCHANGED <<composition, decisions, events>>

AlreadyApplied_Mutant(k) == events[k] # 0 /\ composition.version = commands[k].expected

(* A command with this key has been applied: its result is given again.    *)
AlreadyApplied(k) == events[k] # 0

(* _mutate: the edition is locked, then the key is looked up, then the     *)
(* version is compared.                                                    *)
Mutate(k) ==
    LET c == commands[k]
        entries == Requested(c) IN
    /\ c.kind # "none"
    /\ \/ ~edition.open /\ AnswerCommand(k, "archived")
       \/ edition.open /\ AlreadyApplied(k) /\ AnswerCommand(k, "done")
       \/ /\ edition.open /\ ~AlreadyApplied(k)
          /\ composition.version # c.expected
          /\ AnswerCommand(k, "conflict")
       \/ /\ edition.open /\ ~AlreadyApplied(k)
          /\ composition.version = c.expected /\ ~ReferencesAreValid(entries)
          /\ AnswerCommand(k, "refused")
       \/ /\ edition.open /\ ~AlreadyApplied(k)
          /\ composition.version = c.expected /\ ReferencesAreValid(entries)
          /\ c.kind = "exclude" => Len(decisions) < MaxDecisions
          /\ composition' = [version |-> composition.version + 1, entries |-> entries]
          /\ decisions' = IF c.kind # "exclude" THEN decisions
                ELSE LET s == CHOOSE s \in c.targets : TRUE IN Append(decisions,
                       [subject |-> s, pin |-> entries[s].pin, exclude |-> TRUE])
          /\ events' = [events EXCEPT ![k] = composition.version + 1]
          /\ commands' = [commands EXCEPT ![k].answer = "done"]
    /\ UNCHANGED <<edition, production, manifests, jobs, queue, proc, losses>>

-----------------------------------------------------------------------------
(* Acceptance (EditionPublicationService.accept).                          *)

With(disposition) ==
    {s \in Subjects : composition.entries[s].disposition = disposition}

(* _resolve_current_publication_inputs without the review: every included  *)
(* or excluded article still is the one composed.                          *)
Resolvable ==
    /\ With("included") # {}
    /\ \A s \in With("included") \union With("excluded") :
         PinIsCurrent(s, composition.entries[s].pin)

(* ... and with it: nothing is left open, nothing included is excluded by  *)
(* a review, unfinished or superseded.                                     *)
Acceptable ==
    /\ Resolvable
    /\ With("absent") = {} /\ With("deferred") = {}
    /\ \A s \in With("included") :
         LET pin == composition.entries[s].pin IN
         /\ ~IsExcluded(s, pin)
         /\ production[s].status = "ready"
         /\ pin = LatestPin(s)

CurrentInputs ==
    [edition |-> edition.version, composition |-> composition.version,
     entries |-> {[subject |-> s, pin |-> composition.entries[s].pin,
                   decision |-> EffectiveDecision(s, composition.entries[s].pin)] :
                  s \in With("included")},
     exclusions |-> {<<s, composition.entries[s].decision>> : s \in With("excluded")}]

(* _publication_inputs_match.                                              *)
InputsMatch(m) == manifests[m].inputs = CurrentInputs

(* The process goes on to _ensure_queued_job.                              *)
Assuring(p, target) ==
    proc' = [proc EXCEPT ![p].pc = "look", ![p].target = target, ![p].turn = 0]

(* The newest manifest is resumed if it is pending and still matches; else *)
(* a new one is frozen.  Open repairs, and a composition that is not the   *)
(* one the analyst saw, are more reasons for a refusal.                    *)
Accept(p) ==
    LET newest == Len(manifests)
        resumed == newest # 0 /\ ~manifests[newest].released /\ InputsMatch(newest)
        m == IF resumed THEN newest ELSE newest + 1 IN
    /\ p \in Requests /\ proc[p].pc = "idle"
    /\ edition.open /\ Acceptable
    /\ m <= MaxManifests
    /\ manifests' = IF resumed THEN manifests
         ELSE Append(manifests, [inputs |-> CurrentInputs,
                                 released |-> FALSE, rendered |-> FALSE])
    /\ Assuring(p, <<"assemble", m>>)
    /\ UNCHANGED <<editorial, jobs, queue, losses>>

(* retry_render, for the release of the newest manifest.                   *)
RetryRender(p) ==
    LET m == Len(manifests) IN
    /\ p \in Requests /\ proc[p].pc = "idle"
    /\ m # 0 /\ manifests[m].released /\ ~manifests[m].rendered
    /\ Assuring(p, <<"render", m>>)
    /\ UNCHANGED <<editorial, manifests, jobs, queue, losses>>

-----------------------------------------------------------------------------
(* _ensure_queued_job, by a request or by the handler of an assembly: the  *)
(* job it read is one that others cancel, retry, execute and succeed.      *)

SawJob(p, chain, i) ==
    [proc EXCEPT ![p].pc = "assure", ![p].seen = [number |-> i, row |-> chain[i]]]

(* The handler goes on to its end; a request has answered.                 *)
Assured(p) ==
    proc' = [proc EXCEPT ![p] = IF p \in Requests THEN Idle
        ELSE [Idle EXCEPT !.pc = "ending", !.chain = proc[p].chain, !.job = proc[p].job]]

(* list_for_aggregate: the newest job, if there is one.                    *)
Look(p) ==
    LET chain == jobs[proc[p].target] IN
    /\ proc[p].pc = "look"
    /\ proc' = IF chain = << >>
               THEN [proc EXCEPT ![p].pc = "assure", ![p].seen = Nothing]
               ELSE SawJob(p, chain, Len(chain))
    /\ UNCHANGED <<editorial, manifests, jobs, queue, losses>>

SubmitAfter_Mutant(chain, i) == Append(chain, NewJob)

(* The chain after the submission under the key that names job i (0: the   *)
(* first key): a duplicate key finds the job that is there.                *)
SubmitAfter(chain, i) == IF Len(chain) > i THEN chain ELSE Append(chain, NewJob)

(* Submission of the first job, or of the successor of one that ended for  *)
(* good; the job of the key is read back.                                  *)
SubmitJob(p) ==
    LET c == proc[p].target
        saw == proc[p].seen
        chain == SubmitAfter(jobs[c], saw.number) IN
    /\ proc[p].pc = "assure"
    /\ \/ saw.number = 0
       \/ /\ proc[p].turn < 3
          /\ \/ saw.row.status = "cancelled"
             \/ saw.row.status = "failed" /\ saw.row.attempt = MaxAttempts
    /\ Len(chain) <= MaxJobs
    /\ jobs' = [jobs EXCEPT ![c] = chain]
    /\ proc' = [SawJob(p, chain, IF Len(chain) > Len(jobs[c]) THEN Len(chain)
                                 ELSE saw.number + 1)
                  EXCEPT ![p].turn = IF saw.number = 0 THEN 0 ELSE @ + 1]
    /\ UNCHANGED <<editorial, manifests, queue, losses>>

RetriedRow(row) == [row EXCEPT !.status = "queued"]

CanRetry_Mutant(row) == row.status = "failed"

CanRetry(row) == row.status = "failed" /\ row.attempt < MaxAttempts

(* A failed job with attempts left is retried; when another caller was     *)
(* faster the job is read again.                                           *)
RetryFailed(p) ==
    LET c == proc[p].target
        i == proc[p].seen.number
        chain == IF CanRetry(jobs[c][i])
                 THEN [jobs[c] EXCEPT ![i] = RetriedRow(@)] ELSE jobs[c] IN
    /\ proc[p].pc = "assure" /\ i # 0 /\ proc[p].turn < 3
    /\ CanRetry(proc[p].seen.row)
    /\ jobs' = [jobs EXCEPT ![c] = chain]
    /\ proc' = [SawJob(p, chain, i) EXCEPT ![p].turn = @ + 1]
    /\ UNCHANGED <<editorial, manifests, queue, losses>>

(* The database fails under the assurance: logged and swallowed.           *)
AssureBreaks(p) ==
    /\ proc[p].pc \in {"look", "assure"}
    /\ Assured(p)
    /\ UNCHANGED <<editorial, manifests, jobs, queue, losses>>

(* A queued job will be dispatched; one that runs or succeeded is left     *)
(* alone; three turns without either are such an error as well.            *)
AssureEnds(p) ==
    /\ proc[p].pc = "assure" /\ proc[p].seen.number # 0
    /\ \/ /\ proc[p].turn < 3 /\ proc[p].seen.row.status = "queued"
          /\ proc' = [proc EXCEPT ![p].pc = "dispatch"]
       \/ /\ proc[p].turn < 3
          /\ proc[p].seen.row.status \in {"running", "succeeded"}
          /\ Assured(p)
       \/ proc[p].turn = 3 /\ Assured(p)
    /\ UNCHANGED <<editorial, manifests, jobs, queue, losses>>

(* The message is sent, or Redis refuses it, which is swallowed too.       *)
DispatchJob(p, sent) ==
    /\ proc[p].pc = "dispatch"
    /\ queue' = IF sent THEN queue \union {<<proc[p].target, proc[p].seen.number>>}
                ELSE queue
    /\ Assured(p)
    /\ UNCHANGED <<editorial, manifests, jobs, losses>>

-----------------------------------------------------------------------------
(* The jobs: what the engine and analysts do to them, and the handlers.    *)

SetJob(c, i, status, attempt) ==
    jobs' = [jobs EXCEPT ![c][i] = [status |-> status, attempt |-> attempt]]

(* JobService.cancel: of a queued job at once, of a running one when its   *)
(* handler next touches the row, which assemble survives, or ends.         *)
CancelJob(c, i) ==
    /\ i \in DOMAIN jobs[c]
    /\ jobs[c][i].status \in {"queued", "running"}
    /\ SetJob(c, i, "cancelled", jobs[c][i].attempt)
    /\ UNCHANGED <<editorial, manifests, queue, proc, losses>>

(* The retry of any failed job through the jobs API, which dispatches it.  *)
RetryJob(c, i) ==
    /\ i \in DOMAIN jobs[c] /\ CanRetry(jobs[c][i])
    /\ jobs' = [jobs EXCEPT ![c][i] = RetriedRow(@)]
    /\ queue' = queue \union {<<c, i>>}
    /\ UNCHANGED <<editorial, manifests, proc, losses>>

(* A message is delivered; a job that is not queued is not claimed.        *)
Deliver(w, c, i) ==
    LET row == jobs[c][i] IN
    /\ w \in Workers /\ proc[w].pc = "idle"
    /\ <<c, i>> \in queue
    /\ queue' = queue \ {<<c, i>>}
    /\ IF row.status = "queued"
       THEN /\ SetJob(c, i, "running", row.attempt + 1)
            /\ proc' = [proc EXCEPT ![w] = [Idle EXCEPT !.chain = c, !.job = i,
                         !.pc = IF c[1] = "assemble" THEN "phase1" ELSE "render"]]
       ELSE UNCHANGED <<jobs, proc>>
    /\ UNCHANGED <<editorial, manifests, losses>>

MayRelease(m) ==
    /\ edition.open
    /\ edition.version = manifests[m].inputs.edition
    /\ Resolvable /\ InputsMatch(m)

(* assemble, phase 1: the checks without a lock, then the slow work.       *)
Phase1(w) ==
    LET m == proc[w].chain[2] IN
    /\ proc[w].pc = "phase1"
    /\ proc' = [proc EXCEPT ![w].pc =
         IF manifests[m].released \/ MayRelease(m) THEN "phase2" ELSE "failing"]
    /\ UNCHANGED <<editorial, manifests, jobs, queue, losses>>

Phase2Release_Mutant(m) == TRUE

(* phase 2 checks everything again, now that the edition is locked.        *)
Phase2Release(m) == MayRelease(m)

Phase2(w) ==
    LET m == proc[w].chain[2] IN
    /\ proc[w].pc = "phase2"
    /\ IF manifests[m].released \/ Phase2Release(m)
       THEN /\ manifests' = [manifests EXCEPT ![m].released = TRUE]
            /\ Assuring(w, <<"render", m>>)
       ELSE /\ proc' = [proc EXCEPT ![w].pc = "failing"]
            /\ UNCHANGED manifests
    /\ UNCHANGED <<editorial, jobs, queue, losses>>

(* handle_render: the first PDF of a release stays.                        *)
Render(w) ==
    /\ proc[w].pc = "render"
    /\ manifests' = [manifests EXCEPT ![proc[w].chain[2]].rendered = TRUE]
    /\ proc' = [proc EXCEPT ![w].pc = "ending"]
    /\ UNCHANGED <<editorial, jobs, queue, losses>>

(* Storage, the compiler or the database fails.                            *)
HandlerBreaks(w) ==
    /\ proc[w].pc \in {"phase1", "phase2", "render"}
    /\ proc' = [proc EXCEPT ![w].pc = "failing"]
    /\ UNCHANGED <<editorial, manifests, jobs, queue, losses>>

(* The end of the job is written if it still runs; the engine retries none *)
(* of these errors by itself.                                              *)
HandlerEnds(w) ==
    LET c == proc[w].chain
        row == jobs[c][proc[w].job] IN
    /\ proc[w].pc \in {"ending", "failing"}
    /\ IF row.status = "running"
       THEN SetJob(c, proc[w].job,
              IF proc[w].pc = "ending" THEN "succeeded" ELSE "failed", row.attempt)
       ELSE UNCHANGED jobs
    /\ proc' = [proc EXCEPT ![w] = Idle]
    /\ UNCHANGED <<editorial, manifests, queue, losses>>

(* A worker or an API process is lost.                                     *)
ProcessDies(p) ==
    /\ losses < MaxLosses /\ proc[p].pc # "idle"
    /\ losses' = losses + 1
    /\ proc' = [proc EXCEPT ![p] = Idle]
    /\ UNCHANGED <<editorial, manifests, jobs, queue>>

Executed(c, i) == \E w \in Workers :
    proc[w].pc # "idle" /\ proc[w].chain = c /\ proc[w].job = i

(* The recovery takes a job whose heartbeat expired, that of a worker      *)
(* which only stalls too, and gives the attempt back.                      *)
RecoverJob(c, i) ==
    /\ i \in DOMAIN jobs[c]
    /\ jobs[c][i].status = "running"
    /\ Executed(c, i) => losses < MaxLosses
    /\ losses' = IF Executed(c, i) THEN losses + 1 ELSE losses
    /\ SetJob(c, i, "queued", jobs[c][i].attempt - 1)
    /\ queue' = queue \union {<<c, i>>}
    /\ UNCHANGED <<editorial, manifests, proc>>

-----------------------------------------------------------------------------
EditorialStep ==
    \/ UpdateEdition \/ ArchiveEdition
    \/ \E s \in Subjects :
         \/ RetryRun(s) \/ AugmentDocument(s)
         \/ \E b \in BOOLEAN : RunEnds(s, b) \/ RepairDocument(s, b) \/ Decide(s, b)
    \/ \E k \in Keys :
         \/ Mutate(k)
         \/ \E kind \in CommandKind, targets \in SUBSET Subjects :
              IssueCommand(k, kind, targets)

AssureStep(p) ==
    \/ Look(p) \/ SubmitJob(p) \/ RetryFailed(p) \/ AssureEnds(p) \/ AssureBreaks(p)
    \/ \E sent \in BOOLEAN : DispatchJob(p, sent)

WorkerStep(w) ==
    \/ \E c \in Chains, i \in 1..MaxJobs : Deliver(w, c, i)
    \/ Phase1(w) \/ Phase2(w) \/ Render(w) \/ HandlerBreaks(w) \/ HandlerEnds(w)

Next ==
    \/ EditorialStep
    \/ \E p \in Requests : Accept(p) \/ RetryRender(p)
    \/ \E p \in Procs : AssureStep(p) \/ ProcessDies(p)
    \/ \E w \in Workers : WorkerStep(w)
    \/ \E c \in Chains, i \in 1..MaxJobs :
         CancelJob(c, i) \/ RetryJob(c, i) \/ RecoverJob(c, i)

Spec == Init /\ [][Next]_vars

-----------------------------------------------------------------------------
(* Properties.                                                             *)

(* What is released is what the editors last accepted and still want: a    *)
(* release is of the newest manifest, although older ones stay pending and *)
(* their jobs can be retried for ever, and none of its articles is         *)
(* excluded, by the composition or by a later review of the same document, *)
(* at the moment of the release (assemble, _publication_inputs_match).     *)
ReleaseIsAsReviewed ==
    [][\A m \in DOMAIN manifests :
        manifests'[m].released /\ ~manifests[m].released =>
            /\ m = Len(manifests)
            /\ \A e \in manifests[m].inputs.entries :
                 /\ composition.entries[e.subject] = Included(e.pin)
                 /\ ~IsExcluded(e.subject, e.pin)]_vars

(* Whoever assures, retries, cancels or recovers, in whatever order, at    *)
(* most one job for a manifest or a release is queued or runs: keys are    *)
(* deterministic and a job that ended for good is never revived            *)
(* (_ensure_queued_job).                                                   *)
OneLiveJob ==
    \A c \in Chains :
        Cardinality({i \in DOMAIN jobs[c] :
                       jobs[c][i].status \in {"queued", "running"}}) <= 1

(* A command that was applied, and is repeated because its answer was      *)
(* lost, is answered with its result, or that the edition has been         *)
(* archived since, and changes nothing, whatever other commands did        *)
(* meanwhile (_mutate): it is never taken for a conflict or refused.       *)
RepeatIsAnswered ==
    [][\A k \in Keys : events[k] # 0 =>
        /\ events'[k] = events[k]
        /\ commands'[k].answer \notin {"conflict", "refused"}]_vars
=============================================================================
