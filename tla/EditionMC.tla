------------------------------ MODULE EditionMC ------------------------------
(* An instance of EditionPublication for TLC.                               *)
EXTENDS EditionPublication, TLC

CONSTANTS k1, k2

Symmetry == Permutations(Requests) \union Permutations(Workers)
            \union Permutations(Subjects)

Fresh == [generation |-> 1, status |-> "ready", latest |-> 1, verified |-> {1}]

(* Changes of the edition, of documents and by reviews.                     *)
Changes ==
    (edition.version - 1) + Cardinality({s \in Subjects : production[s] # Fresh})
    + Len(decisions)

Busy(procs) == Cardinality({p \in procs : proc[p].pc # "idle"})
Numbered(kind) == {<<c, i>> \in Chains \X (1..MaxJobs) :
                    c[1] = kind /\ i \in DOMAIN jobs[c]}
RendersWait == \A n \in Numbered("render") : jobs[n[1]][n[2]] = NewJob

(* A job of the chain was sent, or somebody is about to.                    *)
Served(c) ==
    \/ \E p \in Procs : proc[p].target = c /\ proc[p].pc \in {"look", "assure", "dispatch"}
    \/ /\ jobs[c] # << >>
       /\ jobs[c][1].status = "queued" => <<c, 1>> \in queue

(* The first command takes every article.                                   *)
AllTaken == commands[k1].kind \in {"none", "replace"}
            /\ commands[k1].targets \in {{}, Subjects}

(* Two commands of any kind, before the edition is accepted, and a change   *)
(* after the first was composed.                                            *)
Composing ==
    /\ manifests = << >> /\ Changes <= 1
    /\ Changes = 0 \/ ~AllTaken

(* A command, or another change once the edition was accepted, against      *)
(* assemblies which nothing else disturbs.                                  *)
Editing ==
    /\ AllTaken /\ commands[k2].kind \in {"none", "exclude", "reorder"}
    /\ commands[k1].answer = "none" => commands[k2].kind = "none"
    /\ Changes <= IF manifests = << >> /\ commands[k2].kind # "exclude" THEN 0 ELSE 1
    /\ losses = 0 /\ Busy(Requests) <= 1 /\ Busy(Workers) <= 1 /\ RendersWait
    /\ \A p \in Requests : proc[p].target[1] = "assemble"
    /\ \A n \in Numbered("assemble") :
         /\ n[2] = 1 /\ jobs[n[1]][1].status # "cancelled"
         /\ jobs[n[1]][1].attempt <= IF jobs[n[1]][1].status = "queued" THEN 0 ELSE 1
    /\ \A m \in DOMAIN manifests :
         /\ Served(<<"assemble", m>>)
         /\ manifests[m].released => Served(<<"render", m>>)

(* Two processes at a time, on an edition that nobody changes: they assure, *)
(* cancel and retry, or a worker is lost and its job recovered.             *)
Executing ==
    /\ AllTaken /\ commands[k2].kind = "none" /\ Changes = 0
    /\ Len(manifests) <= 1 /\ Busy(Procs) <= 2
    /\ \/ losses = 0 /\ Busy(Workers) <= 1 /\ RendersWait
       \/ Busy(Requests) <= 1 /\ \A c \in Chains : Len(jobs[c]) <= 1

Scenario == Composing \/ Editing \/ Executing
=============================================================================
