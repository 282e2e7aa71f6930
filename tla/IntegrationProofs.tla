-------------------------- MODULE IntegrationProofs --------------------------
(* Proofs about Integration, for any number of files, candidates,            *)
(* publications and upsets.  The program lets two of the upsets pass, and    *)
(* the theorems they break name them: what these state holds until the first *)
(* of them.                                                                  *)
EXTENDS Integration, TLAPS

(* A file that could not be put back is skipped and the publication recorded *)
(* as reverted (delegates.go, the rollback closure).                         *)
RollbackFails == \E f \in File : Rollback(f) /\ Upset("stuck")
(* "keep" stands in memory although the append or its flush failed           *)
(* (integration_checkpoint.go AcceptIntegrationCheckpoint).                  *)
AcceptUnsaved ==
    \E i \in Id : Accept(i) /\ Unrecorded(i, [mem[i] EXCEPT !.state = "accepted"])
Dependable == ~RollbackFails /\ ~AcceptUnsaved

(*                          The inductive invariant                           *)
Fields == {"cand", "files", "before", "state"}
Shapes ==
    /\ DOMAIN ws = File
    /\ DOMAIN mem = Id /\ DOMAIN disk = Id
    /\ \A i \in Id : DOMAIN mem[i] = Fields /\ DOMAIN disk[i] = Fields
    /\ DOMAIN log = {"open", "failed"} /\ log.open \in BOOLEAN /\ log.failed \in BOOLEAN
    /\ DOMAIN node = {"mem", "saved"} /\ DOMAIN node.mem = Owned /\ DOMAIN node.saved = Owned
    /\ DOMAIN job = {"op", "cand", "id", "before", "version", "todo", "applied", "seen"}
    /\ DOMAIN used = {"publications", "upsets"} /\ used.publications \in Nat

(* A failed append is latched: without one, the session file and the saved   *)
(* graph are what memory says.                                               *)
InStep == ~log.failed => mem = disk /\ node.mem = node.saved

Fresh == \A i \in Id : i > used.publications => disk[i].state = "none"

(* What the command under way knows of the checkpoint it works on.           *)
Publishing == {"approve", "checkpoint", "write", "rollback", "observe"}
JobFits ==
    /\ ~log.open => job = NoJob
    /\ job.op \in Publishing => job.id \in Id /\ job.id <= used.publications
    /\ job.op \in {"approve", "checkpoint"} =>
          disk[job.id].state = "none" /\ job.applied = {}
    /\ job.op \in {"write", "rollback"} =>
          /\ mem[job.id] = disk[job.id] /\ mem[job.id].state = "pending"
          /\ mem[job.id].cand = job.cand
          /\ job.todo \cup job.applied \subseteq mem[job.id].files
          /\ \A f \in job.todo \ Large : mem[job.id].before[f] = job.before[f]
    /\ job.op = "observe" => job.cand \in Owned
    /\ job.op = "restore" => job.id \in Id /\ mem[job.id].state = "pending"

(* What it knows of the graph: a candidate of the graph is published while   *)
(* it has no other publication without an outcome.                           *)
Settled(c) ==
    ~log.failed => \A i \in Id : disk[i].cand = c => disk[i].state # "pending"
GraphFits ==
    /\ \A c \in Owned : node.saved[c] # "review" => node.mem[c] # "review"
    /\ job.op \in Publishing /\ job.cand \in Owned =>
          /\ node.mem[job.cand] = "review"
          /\ job.op \in {"approve", "checkpoint", "observe"} => Settled(job.cand)
          /\ job.op \in {"write", "rollback"} /\ ~log.failed => \A i \in Id \ {job.id} :
                      disk[i].cand = job.cand => disk[i].state # "pending"
          /\ job.op = "observe" /\ ~log.failed =>
                disk[job.id].cand = job.cand /\ disk[job.id].state = "applied"

(* What a file holds that nobody edited since the second look.               *)
EditsSafe ==
    job.op \in {"checkpoint", "write", "rollback"} =>
        \A f \in (File \cap (job.todo \cup job.applied)) \ raced :
            \A x \in ws[f] : x.by = job.cand \/ x \in job.before[f]

IInv ==
    /\ Shapes /\ InStep /\ Fresh /\ JobFits /\ GraphFits /\ EditsSafe
    /\ IntegratedIsWhole

(* What is torn is named by a pending record that memory has as well.        *)
TornKnown ==
    \A t \in torn :
        /\ t.id \in Id /\ t.id <= used.publications
        /\ mem[t.id] = disk[t.id] /\ disk[t.id].state = "pending"
        /\ t.file \in disk[t.id].files
        /\ t.file \notin Large => disk[t.id].before[t.file] = t.before
(* Which torn files are the command's own; a candidate of the graph is       *)
(* published into a workspace that was whole.                                *)
TornFits ==
    /\ job.op \in {"approve", "checkpoint"} => \A t \in torn : t.id # job.id
    /\ job.op \in {"write", "rollback"} =>
          \A t \in torn : t.id = job.id => t.file \in job.applied
    /\ job.op = "restore" => \A t \in torn : t.id = job.id => t.file \in job.todo
    /\ job.op = "verify" => torn = {}
    /\ job.op \in Publishing /\ job.cand \in Owned =>
          /\ job.op \in {"approve", "checkpoint", "observe"} => torn = {}
          /\ job.op \in {"write", "rollback"} => \A t \in torn : t.id = job.id
TInv == TornKnown /\ TornFits

-----------------------------------------------------------------------------
LEMMA InitSound == Init => IInv /\ TInv
<1> SUFFICES ASSUME Init PROVE IInv /\ TInv
  OBVIOUS
<1> QED
  BY BoundsAssumption DEF Init, IInv, Shapes, InStep, Fresh, JobFits, GraphFits, EditsSafe, TInv, TornKnown, TornFits,
     IntegratedIsWhole, NoRecord, NoJob, Fields, Publishing, Settled, User

(*                   What an append and a save leave behind                   *)
Stores ==
    /\ DOMAIN mem = Id /\ DOMAIN disk = Id
    /\ \A i \in Id : DOMAIN mem[i] = Fields /\ DOMAIN disk[i] = Fields
    /\ DOMAIN log = {"open", "failed"} /\ log.open \in BOOLEAN /\ log.failed \in BOOLEAN
    /\ DOMAIN used = {"publications", "upsets"} /\ used.publications \in Nat
LEMMA UpsetShapes ==
    ASSUME Stores, NEW kind, Upset(kind)
    PROVE  /\ DOMAIN used' = {"publications", "upsets"}
           /\ used'.publications = used.publications
BY DEF Stores, Upset
LEMMA LatchShapes ==
    ASSUME Stores, log' = [log EXCEPT !.failed = TRUE]
    PROVE  DOMAIN log' = {"open", "failed"} /\ log'.open = log.open /\ log'.failed = TRUE
BY DEF Stores
LEMMA StoredShapes ==
    ASSUME Stores, NEW i \in Id, NEW r, DOMAIN r = Fields, Recorded(i, r) \/ Unrecorded(i, r)
    PROVE  Stores' /\ log'.open = log.open /\ used'.publications = used.publications
<1>1. /\ DOMAIN mem' = Id /\ \A j \in Id : DOMAIN mem'[j] = Fields
  BY DEF Stores, Recorded, Unrecorded
<1>2. /\ DOMAIN disk' = Id /\ \A j \in Id : DOMAIN disk'[j] = Fields
  BY DEF Stores, Recorded, Unrecorded
<1>3. /\ DOMAIN log' = {"open", "failed"} /\ log'.failed \in BOOLEAN /\ log'.open = log.open
  BY LatchShapes DEF Stores, Recorded, Unrecorded
<1>4. /\ DOMAIN used' = {"publications", "upsets"} /\ used'.publications = used.publications
  BY UpsetShapes DEF Stores, Recorded, Unrecorded
<1> QED
  BY <1>1, <1>2, <1>3, <1>4 DEF Stores
LEMMA EndedShapes ==
    ASSUME Stores, NEW i \in Id, NEW state, Ended(i, state)
    PROVE  Stores' /\ log'.open = log.open /\ used'.publications = used.publications
<1>1. DOMAIN [mem[i] EXCEPT !.state = state] = Fields
  BY DEF Stores
<1> QED
  BY <1>1, StoredShapes DEF Ended
LEMMA GraphedShapes ==
    ASSUME Shapes, NEW nodes, DOMAIN nodes = Owned, Graphed(nodes)
    PROVE  /\ DOMAIN node' = {"mem", "saved"}
           /\ DOMAIN node'.mem = Owned /\ DOMAIN node'.saved = Owned
           /\ DOMAIN log' = {"open", "failed"} /\ log'.failed \in BOOLEAN /\ log'.open = log.open
           /\ DOMAIN used' = {"publications", "upsets"}
           /\ used'.publications = used.publications
<1>1. Stores
  BY DEF Shapes, Stores
<1>2. DOMAIN node' = {"mem", "saved"} /\ DOMAIN node'.mem = Owned /\ DOMAIN node'.saved = Owned
  BY DEF Shapes, Graphed
<1>3. DOMAIN log' = {"open", "failed"} /\ log'.failed \in BOOLEAN /\ log'.open = log.open
  BY <1>1, LatchShapes DEF Shapes, Graphed
<1>4. DOMAIN used' = {"publications", "upsets"} /\ used'.publications = used.publications
  BY <1>1, UpsetShapes DEF Stores, Graphed
<1> QED
  BY <1>2, <1>3, <1>4

(*                         One lemma for each action                          *)
LEMMA ReviewKeeps ==
    ASSUME IInv, NEW c \in Candidate, Review(c)
    PROVE  IInv'
<1>a. PICK chosen : job' = [NoJob EXCEPT !.op = "approve", !.cand = c, !.todo = chosen,
            !.before = [f \in chosen |-> ws[f]], !.version = child[c],
            !.id = used.publications + 1]
  BY DEF Review
<1>b. /\ DOMAIN job' = {"op", "cand", "id", "before", "version", "todo", "applied", "seen"}
      /\ job'.op = "approve" /\ job'.cand = c /\ job'.id = used.publications + 1
      /\ job'.applied = {}
  BY <1>a DEF NoJob
<1>c. /\ DOMAIN used' = {"publications", "upsets"} /\ used.publications \in Nat
      /\ used'.publications = used.publications + 1 /\ used'.publications \in Id
  BY BoundsAssumption DEF Review, IInv, Shapes, Id
<1>e. disk[job'.id].state = "none"
  BY <1>b, <1>c DEF IInv, Fresh
<1>f. UNCHANGED <<ws, child, mem, disk, log, node, torn, raced>> /\ log.open
  BY DEF Review, Free
<1>1. Shapes'
  <2>1. Shapes
    BY DEF IInv
  <2>2. used'.publications \in Nat
    BY <1>c
  <2> QED
    BY <1>b, <1>c, <1>f, <2>1, <2>2 DEF Shapes
<1>4. Fresh'
  BY <1>c, <1>f DEF IInv, Fresh, Id
<1>5. JobFits'
  BY <1>b, <1>c, <1>e, <1>f DEF IInv, JobFits
<1> USE BoundsAssumption, SetsAssumption DEF IInv, Shapes, Fields, Publishing, Review,
         Free, Refused, InterruptedIntegrations, NoJob, Selectable, Touched
<1>2. InStep'
  BY DEF InStep, Fresh, JobFits, GraphFits, EditsSafe, IntegratedIsWhole, Settled
<1>6. GraphFits'
  BY DEF InStep, Fresh, JobFits, GraphFits, EditsSafe, IntegratedIsWhole, Settled
<1>7. EditsSafe'
  BY DEF InStep, Fresh, JobFits, GraphFits, EditsSafe, IntegratedIsWhole, Settled
<1>8. IntegratedIsWhole'
  BY DEF InStep, Fresh, JobFits, GraphFits, EditsSafe, IntegratedIsWhole, Settled
<1> QED
  BY <1>1, <1>2, <1>4, <1>5, <1>6, <1>7, <1>8

LEMMA DenyKeeps ==
    ASSUME IInv, Deny
    PROVE  IInv'
<1> USE BoundsAssumption, SetsAssumption DEF IInv, Shapes, Fields, Publishing, Deny,
         Doing, NoJob
<1>1. Shapes'
  BY DEF InStep, Fresh, JobFits, GraphFits, EditsSafe, IntegratedIsWhole, Settled
<1>2. InStep'
  BY DEF InStep, Fresh, JobFits, GraphFits, EditsSafe, IntegratedIsWhole, Settled
<1>4. Fresh'
  BY DEF InStep, Fresh, JobFits, GraphFits, EditsSafe, IntegratedIsWhole, Settled
<1>5. JobFits'
  BY DEF InStep, Fresh, JobFits, GraphFits, EditsSafe, IntegratedIsWhole, Settled
<1>6. GraphFits'
  BY DEF InStep, Fresh, JobFits, GraphFits, EditsSafe, IntegratedIsWhole, Settled
<1>7. EditsSafe'
  BY DEF InStep, Fresh, JobFits, GraphFits, EditsSafe, IntegratedIsWhole, Settled
<1>8. IntegratedIsWhole'
  BY DEF InStep, Fresh, JobFits, GraphFits, EditsSafe, IntegratedIsWhole, Settled
<1> QED
  BY <1>1, <1>2, <1>4, <1>5, <1>6, <1>7, <1>8

LEMMA ApproveKeeps ==
    ASSUME IInv, Approve
    PROVE  IInv'
<1> USE BoundsAssumption, SetsAssumption DEF IInv, Shapes, Fields, Publishing, Approve,
         Doing, NoJob, Unchanged
<1>1. Shapes'
  BY DEF InStep, Fresh, JobFits, GraphFits, EditsSafe, IntegratedIsWhole, Settled
<1>2. InStep'
  BY DEF InStep, Fresh, JobFits, GraphFits, EditsSafe, IntegratedIsWhole, Settled
<1>4. Fresh'
  BY DEF InStep, Fresh, JobFits, GraphFits, EditsSafe, IntegratedIsWhole, Settled
<1>5. JobFits'
  BY DEF InStep, Fresh, JobFits, GraphFits, EditsSafe, IntegratedIsWhole, Settled
<1>6. GraphFits'
  BY DEF InStep, Fresh, JobFits, GraphFits, EditsSafe, IntegratedIsWhole, Settled
<1>7. EditsSafe'
  BY DEF InStep, Fresh, JobFits, GraphFits, EditsSafe, IntegratedIsWhole, Settled
<1>8. IntegratedIsWhole'
  BY DEF InStep, Fresh, JobFits, GraphFits, EditsSafe, IntegratedIsWhole, Settled
<1> QED
  BY <1>1, <1>2, <1>4, <1>5, <1>6, <1>7, <1>8

LEMMA BeginCheckpointKeeps ==
    ASSUME IInv, BeginCheckpoint
    PROVE  IInv'
<1>a. Stores
  BY DEF IInv, Shapes, Stores
<1>b. job.id \in Id /\ job.id <= used.publications
  BY DEF IInv, JobFits, Publishing, BeginCheckpoint, Doing
<1>c. Stores' /\ log'.open = log.open /\ used'.publications = used.publications
  <2>1. DOMAIN Checkpoint = Fields
    BY DEF Checkpoint, Fields
  <2> QED
    BY <1>a, <1>b, <2>1, StoredShapes DEF BeginCheckpoint
<1> USE BoundsAssumption, SetsAssumption DEF IInv, Shapes, Fields, Publishing,
         BeginCheckpoint, Doing, Checkpoint, Recorded, Unrecorded, Upset, NoJob
<1>1. Shapes'
  BY <1>c DEF Stores
<1>2. InStep'
  BY DEF InStep, Fresh, JobFits, GraphFits, EditsSafe, IntegratedIsWhole, Settled
<1>4. Fresh'
  <2>1. \A j \in Id \ {job.id} : disk'[j] = disk[j]
    BY <1>a, <1>b DEF BeginCheckpoint, Recorded, Unrecorded, Stores
  <2> QED
    BY <1>b, <1>c, <2>1 DEF IInv, Shapes, Fresh, Id
<1>5. JobFits'
  BY DEF InStep, Fresh, JobFits, GraphFits, EditsSafe, IntegratedIsWhole, Settled
<1>6. GraphFits'
  BY DEF InStep, Fresh, JobFits, GraphFits, EditsSafe, IntegratedIsWhole, Settled
<1>7. EditsSafe'
  BY DEF InStep, Fresh, JobFits, GraphFits, EditsSafe, IntegratedIsWhole, Settled
<1>8. IntegratedIsWhole'
  BY DEF InStep, Fresh, JobFits, GraphFits, EditsSafe, IntegratedIsWhole, Settled
<1> QED
  BY <1>1, <1>2, <1>4, <1>5, <1>6, <1>7, <1>8

(* A write moves one file from what is to do to what is done, or fails.      *)
LEMMA WriteIs ==
    ASSUME IInv, NEW f \in File, Write(f)
    PROVE  /\ \/ /\ job' = [job EXCEPT !.todo = @ \ {f}, !.applied = @ \cup {f}]
                 /\ ws' = [ws EXCEPT ![f] = After(f)] /\ UNCHANGED used
                 /\ torn' = torn \cup {[id |-> job.id, file |-> f, before |-> job.before[f]]}
              \/ job' = [job EXCEPT !.op = "rollback"] /\ UNCHANGED <<ws, torn>> /\ Upset("io")
           /\ /\ job'.op \in {"write", "rollback"} /\ job.op = "write" /\ f \in job.todo
              /\ job'.cand = job.cand /\ job'.id = job.id /\ job'.before = job.before
              /\ job'.todo \subseteq job.todo /\ job.applied \subseteq job'.applied
              /\ job'.todo \cup job'.applied = job.todo \cup job.applied
           /\ \A t \in torn' : t \in torn \/ (t.id = job.id /\ t.file = f /\ f \in job'.applied)
<1>a. \/ /\ job' = [job EXCEPT !.todo = @ \ {f}, !.applied = @ \cup {f}]
         /\ ws' = [ws EXCEPT ![f] = After(f)] /\ UNCHANGED used
         /\ torn' = torn \cup {[id |-> job.id, file |-> f, before |-> job.before[f]]}
      \/ job' = [job EXCEPT !.op = "rollback"] /\ UNCHANGED <<ws, torn>> /\ Upset("io")
  BY DEF Write
<1>b. /\ job'.op \in {"write", "rollback"} /\ job.op = "write" /\ f \in job.todo
      /\ job'.cand = job.cand /\ job'.id = job.id /\ job'.before = job.before
      /\ job'.todo \subseteq job.todo /\ job.applied \subseteq job'.applied
      /\ job'.todo \cup job'.applied = job.todo \cup job.applied
  <2>1. job.op = "write" /\ f \in job.todo
    BY DEF Write, Doing
  <2>2. CASE job' = [job EXCEPT !.todo = @ \ {f}, !.applied = @ \cup {f}]
    <3>1. /\ job'.op = job.op /\ job'.cand = job.cand /\ job'.id = job.id
          /\ job'.before = job.before
          /\ job'.todo = job.todo \ {f} /\ job'.applied = job.applied \cup {f}
      BY <2>2 DEF IInv, Shapes
    <3> QED
      BY <2>1, <3>1
  <2>3. CASE job' = [job EXCEPT !.op = "rollback"]
    BY <2>1, <2>3 DEF IInv, Shapes
  <2> QED
    BY <1>a, <2>2, <2>3
<1>c. \A t \in torn' : t \in torn \/ (t.id = job.id /\ t.file = f /\ f \in job'.applied)
  <2>1. CASE job' = [job EXCEPT !.todo = @ \ {f}, !.applied = @ \cup {f}]
    <3>1. f \in job'.applied
      BY <2>1 DEF IInv, Shapes
    <3>2. torn' = torn \cup {[id |-> job.id, file |-> f, before |-> job.before[f]]} \/ torn' = torn
      BY <1>a
    <3> QED
      BY <3>1, <3>2
  <2>2. CASE torn' = torn
    BY <2>2
  <2> QED
    BY <1>a, <2>1, <2>2
<1> QED
  BY <1>a, <1>b, <1>c

LEMMA WriteKeeps ==
    ASSUME IInv, NEW f \in File, Write(f)
    PROVE  IInv'
<1>a. \/ /\ job' = [job EXCEPT !.todo = @ \ {f}, !.applied = @ \cup {f}]
         /\ ws' = [ws EXCEPT ![f] = After(f)] /\ UNCHANGED used
         /\ torn' = torn \cup {[id |-> job.id, file |-> f, before |-> job.before[f]]}
      \/ job' = [job EXCEPT !.op = "rollback"] /\ UNCHANGED <<ws, torn>> /\ Upset("io")
  BY WriteIs
<1>b. /\ job'.op \in {"write", "rollback"} /\ job.op = "write" /\ f \in job.todo
      /\ job'.cand = job.cand /\ job'.id = job.id /\ job'.before = job.before
      /\ job'.todo \subseteq job.todo /\ job.applied \subseteq job'.applied
      /\ job'.todo \cup job'.applied = job.todo \cup job.applied
  BY WriteIs
<1>c. \A t \in torn' : t \in torn \/ (t.id = job.id /\ t.file = f /\ f \in job'.applied)
  BY WriteIs
<1>d. used'.publications = used.publications
  BY <1>a DEF IInv, Shapes, Upset
<1>e. UNCHANGED <<mem, disk, log, node, raced>> /\ log.open
  BY DEF Write, Doing
<1>5. JobFits'
  BY <1>b, <1>c, <1>d, <1>e DEF IInv, JobFits, Publishing
<1>6. GraphFits'
  BY <1>b, <1>c, <1>e DEF IInv, JobFits, GraphFits, Publishing
<1>7. EditsSafe'
  <2> SUFFICES ASSUME NEW g \in (File \cap (job'.todo \cup job'.applied)) \ raced',
                      NEW x \in ws'[g]
               PROVE  x.by = job'.cand \/ x \in job'.before[g]
    BY DEF EditsSafe
  <2>1. g \in (File \cap (job.todo \cup job.applied)) \ raced
    BY <1>b, <1>e
  <2>2. x \in ws[g] => x.by = job.cand \/ x \in job.before[g]
    BY <2>1, <1>b DEF IInv, EditsSafe
  <2>3. ws' = [ws EXCEPT ![f] = After(f)] \/ ws' = ws
    BY <1>a
  <2>4. g # f => ws'[g] = ws[g]
    BY <2>3, <2>1 DEF IInv, Shapes
  <2>5. x \in ws[g] \/ x \in After(g)
    BY <2>3, <2>4 DEF IInv, Shapes
  <2> QED
    BY <2>2, <2>5, <1>b DEF After
<1> USE BoundsAssumption, SetsAssumption DEF IInv, Shapes, Fields, Publishing, Write,
         Doing, After, Upset, NoJob
<1>1. Shapes'
  BY DEF InStep, Fresh, JobFits, GraphFits, EditsSafe, IntegratedIsWhole, Settled
<1>2. InStep'
  BY DEF InStep, Fresh, JobFits, GraphFits, EditsSafe, IntegratedIsWhole, Settled
<1>4. Fresh'
  BY DEF InStep, Fresh, JobFits, GraphFits, EditsSafe, IntegratedIsWhole, Settled
<1>8. IntegratedIsWhole'
  BY DEF InStep, Fresh, JobFits, GraphFits, EditsSafe, IntegratedIsWhole, Settled
<1> QED
  BY <1>1, <1>2, <1>4, <1>5, <1>6, <1>7, <1>8

LEMMA RollbackKeeps ==
    ASSUME IInv, NEW f \in File, Rollback(f)
    PROVE  IInv'
<1>a. /\ job.op = "rollback" /\ job'.op = "rollback" /\ f \in job.applied
      /\ job'.cand = job.cand /\ job'.before = job.before /\ job'.todo = job.todo
      /\ job'.applied \subseteq job.applied /\ UNCHANGED raced
  BY DEF IInv, Shapes, Rollback, Doing
<1>b. ws' = ws \/ ws' = [ws EXCEPT ![f] = job.before[f]]
  BY DEF Rollback
<1> USE BoundsAssumption, SetsAssumption DEF IInv, Shapes, Fields, Publishing, Rollback,
         Doing, Upset, NoJob
<1>1. Shapes'
  BY DEF InStep, Fresh, JobFits, GraphFits, EditsSafe, IntegratedIsWhole, Settled
<1>2. InStep'
  BY DEF InStep, Fresh, JobFits, GraphFits, EditsSafe, IntegratedIsWhole, Settled
<1>4. Fresh'
  BY DEF InStep, Fresh, JobFits, GraphFits, EditsSafe, IntegratedIsWhole, Settled
<1>5. JobFits'
  BY DEF InStep, Fresh, JobFits, GraphFits, EditsSafe, IntegratedIsWhole, Settled
<1>6. GraphFits'
  BY DEF InStep, Fresh, JobFits, GraphFits, EditsSafe, IntegratedIsWhole, Settled
<1>7. EditsSafe'
  <2> SUFFICES ASSUME NEW g \in (File \cap (job'.todo \cup job'.applied)) \ raced',
                      NEW x \in ws'[g]
               PROVE  x.by = job'.cand \/ x \in job'.before[g]
    BY DEF EditsSafe
  <2>1. g \in (File \cap (job.todo \cup job.applied)) \ raced
    BY <1>a
  <2>2. x \in ws[g] => x.by = job.cand \/ x \in job.before[g]
    BY <2>1, <1>a DEF IInv, EditsSafe
  <2>3. x \in ws[g] \/ x \in job.before[g]
    BY <1>b DEF IInv, Shapes
  <2> QED
    BY <2>2, <2>3, <1>a
<1>8. IntegratedIsWhole'
  BY DEF InStep, Fresh, JobFits, GraphFits, EditsSafe, IntegratedIsWhole, Settled
<1> QED
  BY <1>1, <1>2, <1>4, <1>5, <1>6, <1>7, <1>8

LEMMA FinishAppliedKeeps ==
    ASSUME IInv, FinishApplied
    PROVE  IInv'
<1>a. Stores
  BY DEF IInv, Shapes, Stores
<1>b. job.id \in Id
  BY DEF IInv, JobFits, Publishing, FinishApplied, Doing
<1>c. Stores' /\ log'.open = log.open
  BY <1>a, <1>b, EndedShapes DEF FinishApplied
<1> USE BoundsAssumption, SetsAssumption DEF IInv, Shapes, Fields, Publishing,
         FinishApplied, Doing, Ended, Recorded, Unrecorded, Upset, Forgotten, NoJob
<1>1. Shapes'
  BY <1>c DEF Stores
<1>2. InStep'
  BY DEF InStep, Fresh, JobFits, GraphFits, EditsSafe, IntegratedIsWhole, Settled
<1>4. Fresh'
  BY DEF InStep, Fresh, JobFits, GraphFits, EditsSafe, IntegratedIsWhole, Settled
<1>5. JobFits'
  BY DEF InStep, Fresh, JobFits, GraphFits, EditsSafe, IntegratedIsWhole, Settled
<1>6. GraphFits'
  BY DEF InStep, Fresh, JobFits, GraphFits, EditsSafe, IntegratedIsWhole, Settled
<1>7. EditsSafe'
  BY DEF InStep, Fresh, JobFits, GraphFits, EditsSafe, IntegratedIsWhole, Settled
<1>8. IntegratedIsWhole'
  BY DEF InStep, Fresh, JobFits, GraphFits, EditsSafe, IntegratedIsWhole, Settled
<1> QED
  BY <1>1, <1>2, <1>4, <1>5, <1>6, <1>7, <1>8

LEMMA FinishRevertedKeeps ==
    ASSUME IInv, FinishReverted
    PROVE  IInv'
<1>a. Stores
  BY DEF IInv, Shapes, Stores
<1>b. job.id \in Id
  BY DEF IInv, JobFits, Publishing, FinishReverted, Doing
<1>c. Stores' /\ log'.open = log.open
  BY <1>a, <1>b, EndedShapes DEF FinishReverted
<1> USE BoundsAssumption, SetsAssumption DEF IInv, Shapes, Fields, Publishing,
         FinishReverted, Doing, Ended, Recorded, Unrecorded, Upset, NoJob
<1>1. Shapes'
  BY <1>c DEF Stores
<1>2. InStep'
  BY DEF InStep, Fresh, JobFits, GraphFits, EditsSafe, IntegratedIsWhole, Settled
<1>4. Fresh'
  BY DEF InStep, Fresh, JobFits, GraphFits, EditsSafe, IntegratedIsWhole, Settled
<1>5. JobFits'
  BY DEF InStep, Fresh, JobFits, GraphFits, EditsSafe, IntegratedIsWhole, Settled
<1>6. GraphFits'
  BY DEF InStep, Fresh, JobFits, GraphFits, EditsSafe, IntegratedIsWhole, Settled
<1>7. EditsSafe'
  BY DEF InStep, Fresh, JobFits, GraphFits, EditsSafe, IntegratedIsWhole, Settled
<1>8. IntegratedIsWhole'
  BY DEF InStep, Fresh, JobFits, GraphFits, EditsSafe, IntegratedIsWhole, Settled
<1> QED
  BY <1>1, <1>2, <1>4, <1>5, <1>6, <1>7, <1>8

LEMMA IntegrateCandidateKeeps ==
    ASSUME IInv, IntegrateCandidate
    PROVE  IInv'
<1>a. Graphed([node.mem EXCEPT ![job.cand] = "integrated"]) \/ UNCHANGED <<log, node>>
  BY DEF IntegrateCandidate
<1>b. DOMAIN [node.mem EXCEPT ![job.cand] = "integrated"] = Owned
  BY DEF IInv, Shapes
<1>c. Shapes /\ Stores
  BY DEF IInv, Shapes, Stores
<1> USE BoundsAssumption, SetsAssumption DEF IInv, Shapes, Fields, Publishing,
         IntegrateCandidate, Doing, Graphed, Upset, NoJob
<1>1. Shapes'
  BY <1>a, <1>b, <1>c, GraphedShapes, UpsetShapes
<1>2. InStep'
  BY DEF InStep, Fresh, JobFits, GraphFits, EditsSafe, IntegratedIsWhole, Settled
<1>4. Fresh'
  BY DEF InStep, Fresh, JobFits, GraphFits, EditsSafe, IntegratedIsWhole, Settled
<1>5. JobFits'
  BY DEF InStep, Fresh, JobFits, GraphFits, EditsSafe, IntegratedIsWhole, Settled
<1>6. GraphFits'
  BY DEF InStep, Fresh, JobFits, GraphFits, EditsSafe, IntegratedIsWhole, Settled
<1>7. EditsSafe'
  BY DEF InStep, Fresh, JobFits, GraphFits, EditsSafe, IntegratedIsWhole, Settled
<1>8. IntegratedIsWhole'
  BY DEF InStep, Fresh, JobFits, GraphFits, EditsSafe, IntegratedIsWhole, Settled
<1> QED
  BY <1>1, <1>2, <1>4, <1>5, <1>6, <1>7, <1>8

LEMMA VerifyKeeps ==
    ASSUME IInv, Verify
    PROVE  IInv'
<1> USE BoundsAssumption, SetsAssumption DEF IInv, Shapes, Fields, Publishing, Verify,
         Free, Refused, InterruptedIntegrations, IntegratedNodes, NoJob
<1>1. Shapes'
  BY DEF InStep, Fresh, JobFits, GraphFits, EditsSafe, IntegratedIsWhole, Settled
<1>2. InStep'
  BY DEF InStep, Fresh, JobFits, GraphFits, EditsSafe, IntegratedIsWhole, Settled
<1>4. Fresh'
  BY DEF InStep, Fresh, JobFits, GraphFits, EditsSafe, IntegratedIsWhole, Settled
<1>5. JobFits'
  BY DEF InStep, Fresh, JobFits, GraphFits, EditsSafe, IntegratedIsWhole, Settled
<1>6. GraphFits'
  BY DEF InStep, Fresh, JobFits, GraphFits, EditsSafe, IntegratedIsWhole, Settled
<1>7. EditsSafe'
  BY DEF InStep, Fresh, JobFits, GraphFits, EditsSafe, IntegratedIsWhole, Settled
<1>8. IntegratedIsWhole'
  BY DEF InStep, Fresh, JobFits, GraphFits, EditsSafe, IntegratedIsWhole, Settled
<1> QED
  BY <1>1, <1>2, <1>4, <1>5, <1>6, <1>7, <1>8

LEMMA VerifyDoneKeeps ==
    ASSUME IInv, VerifyDone
    PROVE  IInv'
<1>a. Graphed(Accepted) \/ UNCHANGED <<log, node>>
  BY DEF VerifyDone
<1>b. DOMAIN Accepted = Owned
  BY DEF IInv, Shapes, Accepted
<1>c. Shapes /\ Stores
  BY DEF IInv, Shapes, Stores
<1> USE BoundsAssumption, SetsAssumption DEF IInv, Shapes, Fields, Publishing,
         VerifyDone, Doing, Graphed, Upset, Accepted, IntegratedNodes, NoJob
<1>1. Shapes'
  BY <1>a, <1>b, <1>c, GraphedShapes, UpsetShapes
<1>2. InStep'
  BY DEF InStep, Fresh, JobFits, GraphFits, EditsSafe, IntegratedIsWhole, Settled
<1>4. Fresh'
  BY DEF InStep, Fresh, JobFits, GraphFits, EditsSafe, IntegratedIsWhole, Settled
<1>5. JobFits'
  BY DEF InStep, Fresh, JobFits, GraphFits, EditsSafe, IntegratedIsWhole, Settled
<1>6. GraphFits'
  BY DEF InStep, Fresh, JobFits, GraphFits, EditsSafe, IntegratedIsWhole, Settled
<1>7. EditsSafe'
  BY DEF InStep, Fresh, JobFits, GraphFits, EditsSafe, IntegratedIsWhole, Settled
<1>8. IntegratedIsWhole'
  BY DEF InStep, Fresh, JobFits, GraphFits, EditsSafe, IntegratedIsWhole, Settled
<1> QED
  BY <1>1, <1>2, <1>4, <1>5, <1>6, <1>7, <1>8

LEMMA WaiveKeeps ==
    ASSUME IInv, Waive
    PROVE  IInv'
<1>a. Graphed(Accepted) \/ UNCHANGED <<log, node>>
  BY DEF Waive
<1>b. DOMAIN Accepted = Owned
  BY DEF IInv, Shapes, Accepted
<1>c. Shapes /\ Stores
  BY DEF IInv, Shapes, Stores
<1> USE BoundsAssumption, SetsAssumption DEF IInv, Shapes, Fields, Publishing, Waive,
         Free, Graphed, Upset, Accepted, IntegratedNodes, NoJob
<1>1. Shapes'
  BY <1>a, <1>b, <1>c, GraphedShapes, UpsetShapes
<1>2. InStep'
  BY DEF InStep, Fresh, JobFits, GraphFits, EditsSafe, IntegratedIsWhole, Settled
<1>4. Fresh'
  BY DEF InStep, Fresh, JobFits, GraphFits, EditsSafe, IntegratedIsWhole, Settled
<1>5. JobFits'
  BY DEF InStep, Fresh, JobFits, GraphFits, EditsSafe, IntegratedIsWhole, Settled
<1>6. GraphFits'
  BY DEF InStep, Fresh, JobFits, GraphFits, EditsSafe, IntegratedIsWhole, Settled
<1>7. EditsSafe'
  BY DEF InStep, Fresh, JobFits, GraphFits, EditsSafe, IntegratedIsWhole, Settled
<1>8. IntegratedIsWhole'
  BY DEF InStep, Fresh, JobFits, GraphFits, EditsSafe, IntegratedIsWhole, Settled
<1> QED
  BY <1>1, <1>2, <1>4, <1>5, <1>6, <1>7, <1>8

LEMMA RestoreKeeps ==
    ASSUME IInv, NEW i \in Id, Restore(i)
    PROVE  IInv'
<1> USE BoundsAssumption, SetsAssumption DEF IInv, Shapes, Fields, Publishing, Restore,
         Free, NoJob
<1>1. Shapes'
  BY DEF InStep, Fresh, JobFits, GraphFits, EditsSafe, IntegratedIsWhole, Settled
<1>2. InStep'
  BY DEF InStep, Fresh, JobFits, GraphFits, EditsSafe, IntegratedIsWhole, Settled
<1>4. Fresh'
  BY DEF InStep, Fresh, JobFits, GraphFits, EditsSafe, IntegratedIsWhole, Settled
<1>5. JobFits'
  BY DEF InStep, Fresh, JobFits, GraphFits, EditsSafe, IntegratedIsWhole, Settled
<1>6. GraphFits'
  BY DEF InStep, Fresh, JobFits, GraphFits, EditsSafe, IntegratedIsWhole, Settled
<1>7. EditsSafe'
  BY DEF InStep, Fresh, JobFits, GraphFits, EditsSafe, IntegratedIsWhole, Settled
<1>8. IntegratedIsWhole'
  BY DEF InStep, Fresh, JobFits, GraphFits, EditsSafe, IntegratedIsWhole, Settled
<1> QED
  BY <1>1, <1>2, <1>4, <1>5, <1>6, <1>7, <1>8

LEMMA RestoreFileKeeps ==
    ASSUME IInv, NEW f \in File, RestoreFile(f)
    PROVE  IInv'
<1> USE BoundsAssumption, SetsAssumption DEF IInv, Shapes, Fields, Publishing,
         RestoreFile, Doing, Upset, NoJob
<1>1. Shapes'
  BY DEF InStep, Fresh, JobFits, GraphFits, EditsSafe, IntegratedIsWhole, Settled
<1>2. InStep'
  BY DEF InStep, Fresh, JobFits, GraphFits, EditsSafe, IntegratedIsWhole, Settled
<1>4. Fresh'
  BY DEF InStep, Fresh, JobFits, GraphFits, EditsSafe, IntegratedIsWhole, Settled
<1>5. JobFits'
  BY DEF InStep, Fresh, JobFits, GraphFits, EditsSafe, IntegratedIsWhole, Settled
<1>6. GraphFits'
  BY DEF InStep, Fresh, JobFits, GraphFits, EditsSafe, IntegratedIsWhole, Settled
<1>7. EditsSafe'
  BY DEF InStep, Fresh, JobFits, GraphFits, EditsSafe, IntegratedIsWhole, Settled
<1>8. IntegratedIsWhole'
  BY DEF InStep, Fresh, JobFits, GraphFits, EditsSafe, IntegratedIsWhole, Settled
<1> QED
  BY <1>1, <1>2, <1>4, <1>5, <1>6, <1>7, <1>8

LEMMA RestoredKeeps ==
    ASSUME IInv, Restored
    PROVE  IInv'
<1>a. Stores
  BY DEF IInv, Shapes, Stores
<1>b. job.id \in Id
  BY DEF IInv, JobFits, Publishing, Restored, Doing
<1>c. Stores' /\ log'.open = log.open
  BY <1>a, <1>b, EndedShapes DEF Restored
<1> USE BoundsAssumption, SetsAssumption DEF IInv, Shapes, Fields, Publishing, Restored,
         Doing, Ended, Recorded, Unrecorded, Upset, NoJob
<1>1. Shapes'
  BY <1>c DEF Stores
<1>2. InStep'
  BY DEF InStep, Fresh, JobFits, GraphFits, EditsSafe, IntegratedIsWhole, Settled
<1>4. Fresh'
  BY DEF InStep, Fresh, JobFits, GraphFits, EditsSafe, IntegratedIsWhole, Settled
<1>5. JobFits'
  BY DEF InStep, Fresh, JobFits, GraphFits, EditsSafe, IntegratedIsWhole, Settled
<1>6. GraphFits'
  BY DEF InStep, Fresh, JobFits, GraphFits, EditsSafe, IntegratedIsWhole, Settled
<1>7. EditsSafe'
  BY DEF InStep, Fresh, JobFits, GraphFits, EditsSafe, IntegratedIsWhole, Settled
<1>8. IntegratedIsWhole'
  BY DEF InStep, Fresh, JobFits, GraphFits, EditsSafe, IntegratedIsWhole, Settled
<1> QED
  BY <1>1, <1>2, <1>4, <1>5, <1>6, <1>7, <1>8

LEMMA AcceptKeeps ==
    ASSUME IInv, NEW i \in Id, Accept(i)
    PROVE  IInv'
<1>a. Stores
  BY DEF IInv, Shapes, Stores
<1>b. Stores'
  <2>1. DOMAIN [mem[i] EXCEPT !.state = "accepted"] = Fields
    BY <1>a DEF Stores
  <2> QED
    BY <1>a, <2>1, StoredShapes DEF Accept
<1> USE BoundsAssumption, SetsAssumption DEF IInv, Shapes, Fields, Publishing, Accept,
         Free, Recorded, Unrecorded, Upset, Forgotten, NoJob
<1>1. Shapes'
  BY <1>b DEF Stores
<1>2. InStep'
  BY DEF InStep, Fresh, JobFits, GraphFits, EditsSafe, IntegratedIsWhole, Settled
<1>4. Fresh'
  BY DEF InStep, Fresh, JobFits, GraphFits, EditsSafe, IntegratedIsWhole, Settled
<1>5. JobFits'
  BY DEF InStep, Fresh, JobFits, GraphFits, EditsSafe, IntegratedIsWhole, Settled
<1>6. GraphFits'
  BY DEF InStep, Fresh, JobFits, GraphFits, EditsSafe, IntegratedIsWhole, Settled
<1>7. EditsSafe'
  BY DEF InStep, Fresh, JobFits, GraphFits, EditsSafe, IntegratedIsWhole, Settled
<1>8. IntegratedIsWhole'
  BY DEF InStep, Fresh, JobFits, GraphFits, EditsSafe, IntegratedIsWhole, Settled
<1> QED
  BY <1>1, <1>2, <1>4, <1>5, <1>6, <1>7, <1>8

LEMMA EditOutsideKeeps ==
    ASSUME IInv, NEW f \in File, EditOutside(f)
    PROVE  IInv'
<1> USE BoundsAssumption, SetsAssumption DEF IInv, Shapes, Fields, Publishing,
         EditOutside, Upset, NoJob
<1>1. Shapes'
  BY DEF InStep, Fresh, JobFits, GraphFits, EditsSafe, IntegratedIsWhole, Settled
<1>2. InStep'
  BY DEF InStep, Fresh, JobFits, GraphFits, EditsSafe, IntegratedIsWhole, Settled
<1>4. Fresh'
  BY DEF InStep, Fresh, JobFits, GraphFits, EditsSafe, IntegratedIsWhole, Settled
<1>5. JobFits'
  BY DEF InStep, Fresh, JobFits, GraphFits, EditsSafe, IntegratedIsWhole, Settled
<1>6. GraphFits'
  BY DEF InStep, Fresh, JobFits, GraphFits, EditsSafe, IntegratedIsWhole, Settled
<1>7. EditsSafe'
  BY DEF InStep, Fresh, JobFits, GraphFits, EditsSafe, IntegratedIsWhole, Settled
<1>8. IntegratedIsWhole'
  BY DEF InStep, Fresh, JobFits, GraphFits, EditsSafe, IntegratedIsWhole, Settled
<1> QED
  BY <1>1, <1>2, <1>4, <1>5, <1>6, <1>7, <1>8

LEMMA ChildEditsKeeps ==
    ASSUME IInv, NEW c \in Candidate, ChildEdits(c)
    PROVE  IInv'
<1> USE BoundsAssumption, SetsAssumption DEF IInv, Shapes, Fields, Publishing,
         ChildEdits, Upset, NoJob
<1>1. Shapes'
  BY DEF InStep, Fresh, JobFits, GraphFits, EditsSafe, IntegratedIsWhole, Settled
<1>2. InStep'
  BY DEF InStep, Fresh, JobFits, GraphFits, EditsSafe, IntegratedIsWhole, Settled
<1>4. Fresh'
  BY DEF InStep, Fresh, JobFits, GraphFits, EditsSafe, IntegratedIsWhole, Settled
<1>5. JobFits'
  BY DEF InStep, Fresh, JobFits, GraphFits, EditsSafe, IntegratedIsWhole, Settled
<1>6. GraphFits'
  BY DEF InStep, Fresh, JobFits, GraphFits, EditsSafe, IntegratedIsWhole, Settled
<1>7. EditsSafe'
  BY DEF InStep, Fresh, JobFits, GraphFits, EditsSafe, IntegratedIsWhole, Settled
<1>8. IntegratedIsWhole'
  BY DEF InStep, Fresh, JobFits, GraphFits, EditsSafe, IntegratedIsWhole, Settled
<1> QED
  BY <1>1, <1>2, <1>4, <1>5, <1>6, <1>7, <1>8

LEMMA CrashKeeps ==
    ASSUME IInv, Crash
    PROVE  IInv'
<1> USE BoundsAssumption, SetsAssumption DEF IInv, Shapes, Fields, Publishing, Crash,
         Upset, NoJob
<1>1. Shapes'
  BY DEF InStep, Fresh, JobFits, GraphFits, EditsSafe, IntegratedIsWhole, Settled
<1>2. InStep'
  BY DEF InStep, Fresh, JobFits, GraphFits, EditsSafe, IntegratedIsWhole, Settled
<1>4. Fresh'
  BY DEF InStep, Fresh, JobFits, GraphFits, EditsSafe, IntegratedIsWhole, Settled
<1>5. JobFits'
  BY DEF InStep, Fresh, JobFits, GraphFits, EditsSafe, IntegratedIsWhole, Settled
<1>6. GraphFits'
  BY DEF InStep, Fresh, JobFits, GraphFits, EditsSafe, IntegratedIsWhole, Settled
<1>7. EditsSafe'
  BY DEF InStep, Fresh, JobFits, GraphFits, EditsSafe, IntegratedIsWhole, Settled
<1>8. IntegratedIsWhole'
  BY DEF InStep, Fresh, JobFits, GraphFits, EditsSafe, IntegratedIsWhole, Settled
<1> QED
  BY <1>1, <1>2, <1>4, <1>5, <1>6, <1>7, <1>8

LEMMA RestartKeeps ==
    ASSUME IInv, Restart
    PROVE  IInv'
<1> USE BoundsAssumption, SetsAssumption DEF IInv, Shapes, Fields, Publishing, Restart,
         NoJob
<1>1. Shapes'
  BY DEF InStep, Fresh, JobFits, GraphFits, EditsSafe, IntegratedIsWhole, Settled
<1>2. InStep'
  BY DEF InStep, Fresh, JobFits, GraphFits, EditsSafe, IntegratedIsWhole, Settled
<1>4. Fresh'
  BY DEF InStep, Fresh, JobFits, GraphFits, EditsSafe, IntegratedIsWhole, Settled
<1>5. JobFits'
  BY DEF InStep, Fresh, JobFits, GraphFits, EditsSafe, IntegratedIsWhole, Settled
<1>6. GraphFits'
  BY DEF InStep, Fresh, JobFits, GraphFits, EditsSafe, IntegratedIsWhole, Settled
<1>7. EditsSafe'
  BY DEF InStep, Fresh, JobFits, GraphFits, EditsSafe, IntegratedIsWhole, Settled
<1>8. IntegratedIsWhole'
  BY DEF InStep, Fresh, JobFits, GraphFits, EditsSafe, IntegratedIsWhole, Settled
<1> QED
  BY <1>1, <1>2, <1>4, <1>5, <1>6, <1>7, <1>8

LEMMA NextKeeps == ASSUME IInv, [Next]_vars PROVE IInv'
<1>1. CASE UNCHANGED vars
  BY <1>1 DEF vars, IInv, Shapes, InStep, Fresh, JobFits, GraphFits, Settled,
     EditsSafe, IntegratedIsWhole
<1>2. CASE Next
  BY <1>2, ReviewKeeps, DenyKeeps, ApproveKeeps, BeginCheckpointKeeps,
     WriteKeeps, RollbackKeeps, FinishAppliedKeeps, FinishRevertedKeeps,
     IntegrateCandidateKeeps, VerifyKeeps, VerifyDoneKeeps, WaiveKeeps,
     RestoreKeeps, RestoreFileKeeps, RestoredKeeps, AcceptKeeps,
     EditOutsideKeeps, ChildEditsKeeps, CrashKeeps, RestartKeeps
     DEF Next
<1> QED
  BY <1>1, <1>2

(*                           What is torn is known                            *)
LEMMA ReviewTorn ==
    ASSUME IInv, TInv, NEW c \in Candidate, Review(c)
    PROVE  TInv'
<1>a. PICK chosen : job' = [NoJob EXCEPT !.op = "approve", !.cand = c, !.todo = chosen,
            !.before = [f \in chosen |-> ws[f]], !.version = child[c],
            !.id = used.publications + 1]
  BY DEF Review
<1>b. /\ DOMAIN job' = {"op", "cand", "id", "before", "version", "todo", "applied", "seen"}
      /\ job'.op = "approve" /\ job'.cand = c /\ job'.id = used.publications + 1
      /\ job'.applied = {}
  BY <1>a DEF NoJob
<1>c. /\ DOMAIN used' = {"publications", "upsets"} /\ used.publications \in Nat
      /\ used'.publications = used.publications + 1 /\ used'.publications \in Id
  BY BoundsAssumption DEF Review, IInv, Shapes, Id
<1>d. \A t \in torn : t.id # job'.id /\ t.id <= used'.publications
  BY <1>b, <1>c DEF TInv, TornKnown, Id
<1>f. UNCHANGED <<ws, child, mem, disk, log, node, torn, raced>> /\ log.open
  BY DEF Review, Free
<1>1. c \in Owned => torn = {}
  BY DEF Review, Refused, InterruptedIntegrations, TInv, TornKnown
<1>2. TornKnown'
  BY <1>d, <1>f DEF TInv, TornKnown
<1>3. TornFits'
  BY <1>b, <1>d, <1>f, <1>1 DEF TornFits
<1> QED
  BY <1>2, <1>3 DEF TInv

LEMMA DenyTorn ==
    ASSUME IInv, TInv, Deny
    PROVE  TInv'
<1> USE BoundsAssumption, SetsAssumption DEF IInv, Shapes, Fields, Publishing, Deny,
         Doing, NoJob
<1>1. TornKnown'
  BY DEF InStep, Fresh, JobFits, GraphFits, Settled, TInv, TornKnown, TornFits
<1>2. TornFits'
  BY DEF InStep, Fresh, JobFits, GraphFits, Settled, TInv, TornKnown, TornFits
<1> QED
  BY <1>1, <1>2 DEF TInv

LEMMA ApproveTorn ==
    ASSUME IInv, TInv, Approve
    PROVE  TInv'
<1> USE BoundsAssumption, SetsAssumption DEF IInv, Shapes, Fields, Publishing, Approve,
         Doing, NoJob, Unchanged
<1>1. TornKnown'
  BY DEF InStep, Fresh, JobFits, GraphFits, Settled, TInv, TornKnown, TornFits
<1>2. TornFits'
  BY DEF InStep, Fresh, JobFits, GraphFits, Settled, TInv, TornKnown, TornFits
<1> QED
  BY <1>1, <1>2 DEF TInv

LEMMA BeginCheckpointTorn ==
    ASSUME IInv, TInv, BeginCheckpoint
    PROVE  TInv'
<1> USE BoundsAssumption, SetsAssumption DEF IInv, Shapes, Fields, Publishing,
         BeginCheckpoint, Doing, Checkpoint, Recorded, Unrecorded, Upset, NoJob
<1>1. TornKnown'
  BY DEF InStep, Fresh, JobFits, GraphFits, Settled, TInv, TornKnown, TornFits
<1>2. TornFits'
  BY DEF InStep, Fresh, JobFits, GraphFits, Settled, TInv, TornKnown, TornFits
<1> QED
  BY <1>1, <1>2 DEF TInv

LEMMA WriteTorn ==
    ASSUME IInv, TInv, NEW f \in File, Write(f)
    PROVE  TInv'
<1>a. job.op = "write" /\ job'.op \in {"write", "rollback"} /\ f \in job.todo
      /\ job'.cand = job.cand /\ job'.id = job.id /\ job.applied \subseteq job'.applied
  BY WriteIs
<1>b. \A t \in torn' : t \in torn \/ (t.id = job.id /\ t.file = f /\ f \in job'.applied)
  BY WriteIs
<1>2. TornFits'
  BY <1>a, <1>b DEF TInv, TornFits, Publishing
<1> USE BoundsAssumption, SetsAssumption DEF IInv, Shapes, Fields, Publishing, Write,
         Doing, After, Upset, NoJob
<1>1. TornKnown'
  BY DEF InStep, Fresh, JobFits, GraphFits, Settled, TInv, TornKnown, TornFits
<1> QED
  BY <1>1, <1>2 DEF TInv

LEMMA RollbackTorn ==
    ASSUME IInv, TInv, NEW f \in File, Rollback(f), ~Upset("stuck")
    PROVE  TInv'
<1> USE BoundsAssumption, SetsAssumption DEF IInv, Shapes, Fields, Publishing, Rollback,
         Doing, Upset, NoJob
<1>1. TornKnown'
  BY DEF InStep, Fresh, JobFits, GraphFits, Settled, TInv, TornKnown, TornFits
<1>2. TornFits'
  BY DEF InStep, Fresh, JobFits, GraphFits, Settled, TInv, TornKnown, TornFits
<1> QED
  BY <1>1, <1>2 DEF TInv

LEMMA FinishAppliedTorn ==
    ASSUME IInv, TInv, FinishApplied
    PROVE  TInv'
<1> USE BoundsAssumption, SetsAssumption DEF IInv, Shapes, Fields, Publishing,
         FinishApplied, Doing, Ended, Recorded, Unrecorded, Upset, Forgotten, NoJob
<1>1. TornKnown'
  BY DEF InStep, Fresh, JobFits, GraphFits, Settled, TInv, TornKnown, TornFits
<1>2. TornFits'
  BY DEF InStep, Fresh, JobFits, GraphFits, Settled, TInv, TornKnown, TornFits
<1> QED
  BY <1>1, <1>2 DEF TInv

LEMMA FinishRevertedTorn ==
    ASSUME IInv, TInv, FinishReverted
    PROVE  TInv'
<1> USE BoundsAssumption, SetsAssumption DEF IInv, Shapes, Fields, Publishing,
         FinishReverted, Doing, Ended, Recorded, Unrecorded, Upset, NoJob
<1>1. TornKnown'
  BY DEF InStep, Fresh, JobFits, GraphFits, Settled, TInv, TornKnown, TornFits
<1>2. TornFits'
  BY DEF InStep, Fresh, JobFits, GraphFits, Settled, TInv, TornKnown, TornFits
<1> QED
  BY <1>1, <1>2 DEF TInv

LEMMA IntegrateCandidateTorn ==
    ASSUME IInv, TInv, IntegrateCandidate
    PROVE  TInv'
<1> USE BoundsAssumption, SetsAssumption DEF IInv, Shapes, Fields, Publishing,
         IntegrateCandidate, Doing, Graphed, Upset, NoJob
<1>1. TornKnown'
  BY DEF InStep, Fresh, JobFits, GraphFits, Settled, TInv, TornKnown, TornFits
<1>2. TornFits'
  BY DEF InStep, Fresh, JobFits, GraphFits, Settled, TInv, TornKnown, TornFits
<1> QED
  BY <1>1, <1>2 DEF TInv

LEMMA VerifyTorn ==
    ASSUME IInv, TInv, Verify
    PROVE  TInv'
<1> USE BoundsAssumption, SetsAssumption DEF IInv, Shapes, Fields, Publishing, Verify,
         Free, Refused, InterruptedIntegrations, IntegratedNodes, NoJob
<1>1. TornKnown'
  BY DEF InStep, Fresh, JobFits, GraphFits, Settled, TInv, TornKnown, TornFits
<1>2. TornFits'
  BY DEF InStep, Fresh, JobFits, GraphFits, Settled, TInv, TornKnown, TornFits
<1> QED
  BY <1>1, <1>2 DEF TInv

LEMMA VerifyDoneTorn ==
    ASSUME IInv, TInv, VerifyDone
    PROVE  TInv'
<1> USE BoundsAssumption, SetsAssumption DEF IInv, Shapes, Fields, Publishing,
         VerifyDone, Doing, Graphed, Upset, Accepted, IntegratedNodes, NoJob
<1>1. TornKnown'
  BY DEF InStep, Fresh, JobFits, GraphFits, Settled, TInv, TornKnown, TornFits
<1>2. TornFits'
  BY DEF InStep, Fresh, JobFits, GraphFits, Settled, TInv, TornKnown, TornFits
<1> QED
  BY <1>1, <1>2 DEF TInv

LEMMA WaiveTorn ==
    ASSUME IInv, TInv, Waive
    PROVE  TInv'
<1> USE BoundsAssumption, SetsAssumption DEF IInv, Shapes, Fields, Publishing, Waive,
         Free, Graphed, Upset, Accepted, IntegratedNodes, NoJob
<1>1. TornKnown'
  BY DEF InStep, Fresh, JobFits, GraphFits, Settled, TInv, TornKnown, TornFits
<1>2. TornFits'
  BY DEF InStep, Fresh, JobFits, GraphFits, Settled, TInv, TornKnown, TornFits
<1> QED
  BY <1>1, <1>2 DEF TInv

LEMMA RestoreTorn ==
    ASSUME IInv, TInv, NEW i \in Id, Restore(i)
    PROVE  TInv'
<1> USE BoundsAssumption, SetsAssumption DEF IInv, Shapes, Fields, Publishing, Restore,
         Free, NoJob
<1>1. TornKnown'
  BY DEF InStep, Fresh, JobFits, GraphFits, Settled, TInv, TornKnown, TornFits
<1>2. TornFits'
  BY DEF InStep, Fresh, JobFits, GraphFits, Settled, TInv, TornKnown, TornFits
<1> QED
  BY <1>1, <1>2 DEF TInv

LEMMA RestoreFileTorn ==
    ASSUME IInv, TInv, NEW f \in File, RestoreFile(f)
    PROVE  TInv'
<1> USE BoundsAssumption, SetsAssumption DEF IInv, Shapes, Fields, Publishing,
         RestoreFile, Doing, Upset, NoJob
<1>1. TornKnown'
  BY DEF InStep, Fresh, JobFits, GraphFits, Settled, TInv, TornKnown, TornFits
<1>2. TornFits'
  BY DEF InStep, Fresh, JobFits, GraphFits, Settled, TInv, TornKnown, TornFits
<1> QED
  BY <1>1, <1>2 DEF TInv

LEMMA RestoredTorn ==
    ASSUME IInv, TInv, Restored
    PROVE  TInv'
<1> USE BoundsAssumption, SetsAssumption DEF IInv, Shapes, Fields, Publishing, Restored,
         Doing, Ended, Recorded, Unrecorded, Upset, NoJob
<1>1. TornKnown'
  BY DEF InStep, Fresh, JobFits, GraphFits, Settled, TInv, TornKnown, TornFits
<1>2. TornFits'
  BY DEF InStep, Fresh, JobFits, GraphFits, Settled, TInv, TornKnown, TornFits
<1> QED
  BY <1>1, <1>2 DEF TInv

LEMMA AcceptTorn ==
    ASSUME IInv, TInv, NEW i \in Id, Accept(i), ~Unrecorded(i, [mem[i] EXCEPT !.state = "accepted"])
    PROVE  TInv'
<1> USE BoundsAssumption, SetsAssumption DEF IInv, Shapes, Fields, Publishing, Accept,
         Free, Recorded, Unrecorded, Upset, Forgotten, NoJob
<1>1. TornKnown'
  BY DEF InStep, Fresh, JobFits, GraphFits, Settled, TInv, TornKnown, TornFits
<1>2. TornFits'
  BY DEF InStep, Fresh, JobFits, GraphFits, Settled, TInv, TornKnown, TornFits
<1> QED
  BY <1>1, <1>2 DEF TInv

LEMMA EditOutsideTorn ==
    ASSUME IInv, TInv, NEW f \in File, EditOutside(f)
    PROVE  TInv'
<1> USE BoundsAssumption, SetsAssumption DEF IInv, Shapes, Fields, Publishing,
         EditOutside, Upset, NoJob
<1>1. TornKnown'
  BY DEF InStep, Fresh, JobFits, GraphFits, Settled, TInv, TornKnown, TornFits
<1>2. TornFits'
  BY DEF InStep, Fresh, JobFits, GraphFits, Settled, TInv, TornKnown, TornFits
<1> QED
  BY <1>1, <1>2 DEF TInv

LEMMA ChildEditsTorn ==
    ASSUME IInv, TInv, NEW c \in Candidate, ChildEdits(c)
    PROVE  TInv'
<1> USE BoundsAssumption, SetsAssumption DEF IInv, Shapes, Fields, Publishing,
         ChildEdits, Upset, NoJob
<1>1. TornKnown'
  BY DEF InStep, Fresh, JobFits, GraphFits, Settled, TInv, TornKnown, TornFits
<1>2. TornFits'
  BY DEF InStep, Fresh, JobFits, GraphFits, Settled, TInv, TornKnown, TornFits
<1> QED
  BY <1>1, <1>2 DEF TInv

LEMMA CrashTorn ==
    ASSUME IInv, TInv, Crash
    PROVE  TInv'
<1> USE BoundsAssumption, SetsAssumption DEF IInv, Shapes, Fields, Publishing, Crash,
         Upset, NoJob
<1>1. TornKnown'
  BY DEF InStep, Fresh, JobFits, GraphFits, Settled, TInv, TornKnown, TornFits
<1>2. TornFits'
  BY DEF InStep, Fresh, JobFits, GraphFits, Settled, TInv, TornKnown, TornFits
<1> QED
  BY <1>1, <1>2 DEF TInv

LEMMA RestartTorn ==
    ASSUME IInv, TInv, Restart
    PROVE  TInv'
<1> USE BoundsAssumption, SetsAssumption DEF IInv, Shapes, Fields, Publishing, Restart,
         NoJob
<1>1. TornKnown'
  BY DEF InStep, Fresh, JobFits, GraphFits, Settled, TInv, TornKnown, TornFits
<1>2. TornFits'
  BY DEF InStep, Fresh, JobFits, GraphFits, Settled, TInv, TornKnown, TornFits
<1> QED
  BY <1>1, <1>2 DEF TInv

LEMMA NextTorn == ASSUME IInv, TInv, [Next]_vars, [Dependable]_vars PROVE TInv'
<1>1. CASE UNCHANGED vars
  BY <1>1 DEF vars, TInv, TornKnown, TornFits
<1>2. CASE Next /\ Dependable
  BY <1>2, ReviewTorn, DenyTorn, ApproveTorn, BeginCheckpointTorn, WriteTorn, RollbackTorn, FinishAppliedTorn, FinishRevertedTorn, IntegrateCandidateTorn, VerifyTorn, VerifyDoneTorn, WaiveTorn, RestoreTorn, RestoreFileTorn, RestoredTorn, AcceptTorn, EditOutsideTorn, ChildEditsTorn, CrashTorn, RestartTorn
     DEF Next, Dependable, RollbackFails, AcceptUnsaved
<1> QED
  BY <1>1, <1>2

-----------------------------------------------------------------------------
(* Whatever fails: records that memory has and the file lacks come after a   *)
(* latched failure, a command under way works on a pending record of its own *)
(* candidate, files that nobody edited since its second look hold what it    *)
(* read and its own change, and what the graph saved as integrated is whole. *)
THEOREM IntegrationSound == Spec => []IInv
<1>1. Init => IInv
  BY InitSound
<1>2. IInv /\ [Next]_vars => IInv'
  BY NextKeeps
<1> QED
  BY <1>1, <1>2, PTL DEF Spec

(* As long as every rollback succeeds and every acceptance is saved, what is *)
(* torn is named by a pending record that memory has as well, and a command  *)
(* knows which torn files are its own.                                       *)
THEOREM TornSound == Spec /\ [][Dependable]_vars => []TInv
<1>1. Init => TInv
  BY InitSound
<1>2. IInv /\ TInv /\ [Next]_vars /\ [Dependable]_vars => TInv'
  BY NextTorn
<1> QED
  BY <1>1, <1>2, IntegrationSound, PTL DEF Spec

(* Wherever a publication is cut off, the session file names every file it   *)
(* moved, with the content the file held (publishDelegateIntegration-        *)
(* Checkpointed), as long as every rollback succeeds and every acceptance is *)
(* saved: a file that could not be put back stays behind a record that says  *)
(* "reverted".                                                               *)
THEOREM Recoverable == Spec /\ [][Dependable]_vars => []BytesAreRecoverable
<1>1. TInv => BytesAreRecoverable
  BY DEF TInv, TornKnown, BytesAreRecoverable
<1> QED
  BY <1>1, TornSound, PTL

(* A node saved as integrated was published whole and has no publication     *)
(* without an outcome, whatever fails (IntegrateOrchestratedCandidate).      *)
THEOREM PublishedWhole == Spec => []IntegratedIsWhole
<1>1. IInv => IntegratedIsWhole
  BY DEF IInv
<1> QED
  BY <1>1, IntegrationSound, PTL

(* No graph step stands on a workspace that holds part of a candidate        *)
(* (interruptedIntegrationRefusal), as long as every rollback succeeds and   *)
(* every acceptance is saved: after a rollback that left a file, or a "keep" *)
(* that stands in memory only, nothing looks interrupted any more.           *)
THEOREM StandsOnWhole == Spec /\ [][Dependable]_vars => GraphStandsOnWhole
<1>1. ASSUME IInv, TInv, [Next]_vars, torn # {}, log.open
      PROVE  /\ node' = node
             /\ Doing("approve")' => job.op = "approve" \/ job'.cand \notin Owned
  <2>1. Refused
    BY <1>1 DEF TInv, TornKnown, Refused, InterruptedIntegrations
  <2>2. job.op # "verify" /\ (job.op = "observe" => job.cand \notin Owned)
    BY <1>1 DEF TInv, TornFits, Publishing
  <2>3. job.op = "observe" => job.cand \in Owned
    BY <1>1 DEF IInv, JobFits
  <2>4. node' = node
    BY <1>1, <2>1, <2>2, <2>3 DEF Next, vars, Review, ChildEdits, Deny, Approve, BeginCheckpoint,
       FinishApplied, FinishReverted, Write, Rollback, RestoreFile, EditOutside, IntegrateCandidate,
       Verify, VerifyDone, Waive, Restore, Accept, Restored, Crash, Restart, Doing
  <2>5. ASSUME Doing("approve")', job.op # "approve" PROVE job'.cand \notin Owned
    <3>1. job'.op = "approve"
      BY <2>5 DEF Doing
    <3>2. ASSUME NEW g \in File, Write(g) PROVE FALSE
      BY <3>1, <3>2, <1>1 DEF Write, Doing, IInv, Shapes
    <3>3. ASSUME NEW g \in File, Rollback(g) \/ RestoreFile(g) \/ EditOutside(g) PROVE FALSE
      BY <3>1, <3>3, <2>5, <1>1 DEF Rollback, RestoreFile, EditOutside, Doing, NoJob, IInv, Shapes
    <3>4. ASSUME NEW i \in Id, Restore(i) \/ Accept(i) PROVE FALSE
      BY <3>1, <3>4, <2>5 DEF Restore, Accept, Free, NoJob
    <3>5. ASSUME Deny \/ Approve \/ BeginCheckpoint \/ FinishApplied \/ FinishReverted
          PROVE  FALSE
      BY <3>1, <3>5, <2>5, <1>1 DEF Deny, Approve, BeginCheckpoint, FinishApplied, FinishReverted,
         Doing, NoJob, IInv, Shapes
    <3>6. ASSUME IntegrateCandidate \/ Verify \/ VerifyDone \/ Waive \/ Restored \/ Crash \/ Restart
          PROVE  FALSE
      <4>1. \/ job' = NoJob \/ job' = job
            \/ job' = [NoJob EXCEPT !.op = "verify", !.seen = ws]
        BY <3>6 DEF IntegrateCandidate, Verify, VerifyDone, Waive, Restored, Crash, Restart
      <4>2. CASE job' = [NoJob EXCEPT !.op = "verify", !.seen = ws]
        <5>1. job'.op = "verify"
          BY <4>2 DEF NoJob
        <5> QED
          BY <5>1, <3>1
      <4>3. CASE job' = NoJob
        BY <4>3, <3>1 DEF NoJob
      <4>4. CASE job' = job
        BY <4>4, <3>1, <2>5
      <4> QED
        BY <4>1, <4>2, <4>3, <4>4
    <3>7. PICK c \in Candidate : Review(c)
      BY <1>1, <2>5, <3>1, <3>2, <3>3, <3>4, <3>5, <3>6 DEF Next, vars, ChildEdits
    <3>8. c \notin Owned
      BY <2>1, <3>7 DEF Review
    <3> QED
      BY <3>7, <3>8 DEF Review, NoJob
  <2> QED
    BY <2>4, <2>5
<1>2. IInv /\ TInv /\ [Next]_vars =>
        [torn # {} /\ log.open =>
            /\ node' = node
            /\ Doing("approve")' => job.op = "approve" \/ job'.cand \notin Owned]_vars
  BY <1>1
<1> QED
  BY <1>2, IntegrationSound, TornSound, PTL DEF Spec, GraphStandsOnWhole

(* A publication drops no change that was there at its second look (Approve, *)
(* the re-read of every source and target), whatever fails.                  *)
THEOREM EditsKept == Spec => NoLostEdit
<1>1. ASSUME IInv, [Next]_vars, job.op \in {"write", "rollback"}, NEW f \in File \ raced,
             NEW x \in ws[f]
      PROVE  x.by = job.cand \/ x \in ws'[f]
  <2>1. f \in job.todo \cup job.applied => x.by = job.cand \/ x \in job.before[f]
    BY <1>1 DEF IInv, EditsSafe
  <2>2. ASSUME NEW g \in File, Write(g) PROVE x.by = job.cand \/ x \in ws'[f]
    <3>1. g \in job.todo /\ (ws' = ws \/ ws' = [ws EXCEPT ![g] = After(g)])
      BY <2>2 DEF Write
    <3> QED
      BY <1>1, <2>1, <3>1 DEF After, IInv, Shapes
  <2>3. ASSUME NEW g \in File, Rollback(g) PROVE x.by = job.cand \/ x \in ws'[f]
    <3>1. g \in job.applied /\ (ws' = ws \/ ws' = [ws EXCEPT ![g] = job.before[g]])
      BY <2>3 DEF Rollback
    <3> QED
      BY <1>1, <2>1, <3>1 DEF IInv, Shapes
  <2>4. ASSUME NEW g \in File, EditOutside(g) PROVE x \in ws'[f]
    BY <1>1, <2>4 DEF EditOutside, IInv, Shapes
  <2>5. CASE UNCHANGED ws
    BY <2>5
  <2> QED
    BY <1>1, <2>2, <2>3, <2>4, <2>5 DEF Next, vars, Review, ChildEdits, Deny, Approve,
       BeginCheckpoint, FinishApplied, FinishReverted, RestoreFile, IntegrateCandidate,
       Verify, VerifyDone, Waive, Restore, Accept, Restored, Crash, Restart, Doing
<1>2. IInv /\ [Next]_vars =>
        [job.op \in {"write", "rollback"} => \A f \in File \ raced :
            \A x \in ws[f] : x.by = job.cand \/ x \in ws'[f]]_vars
  BY <1>1
<1> QED
  BY <1>2, IntegrationSound, PTL DEF Spec, NoLostEdit
=============================================================================
