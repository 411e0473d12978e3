----------------------------- MODULE Publication -----------------------------
(***************************************************************************)
(* internal/publication (with internal/sourceobject, internal/captureset   *)
(* and the publication branch of internal/mcp/transport.go): no-replace    *)
(* publication of exact bytes beneath one private root shared by several   *)
(* processes, any of which may be killed between two steps, on a machine   *)
(* that may lose power.                                                    *)
(*                                                                         *)
(* A file appears under its final name by a hard link to a temporary       *)
(* sibling that was written and synced, so it is visible with all its      *)
(* bytes or not at all; whether the NAME outlives a power loss depends on  *)
(* a sync of the directory that holds it.                                  *)
(***************************************************************************)
EXTENDS FiniteSets

CONSTANTS
    Callers,      \* goroutines that publish
    Processes,    \* processes that opened the root
    ProcessOf,    \* Callers -> Processes
    Artifacts,    \* byte strings
    Selectors,    \* output selectors a client may name
    Jobs,         \* kinds of publication to run, a subset of JobKinds
    Absent, None

JobKinds == {"output", "object", "bundle"}

ASSUME PublicationConstants ==
    /\ ProcessOf \in [Callers -> Processes]
    /\ Jobs \subseteq JobKinds
    /\ Absent \notin Artifacts
    /\ None \notin {"receipt"} \cup JobKinds

VARIABLES
    syncs,        \* whether the platform can sync a directory
    disk,         \* name -> the bytes visible there, or Absent
    durable,      \* names that a power loss leaves in place
    job,          \* caller -> kind of its latest call
    what, where,  \* caller -> the bytes it publishes, the selector it names
    stage,        \* caller -> the file or sync it is at, "idle" or "done"
    phase,        \* caller -> how far the file of its stage is
    out,          \* caller -> what its call answered
    fault,        \* caller -> whether a system call of its call failed
    wrote,        \* caller -> names its call made visible
    spoiled,      \* history: generations some call gave up half way
    epoch         \* history: changes with every power loss

vars == <<syncs, epoch, disk, durable, job, what, where, stage, phase, out, fault, wrote, spoiled>>

Flat(s) == <<"flat", s>>
Directory(a) == <<"directory", a>>
Artifact(a) == <<"artifact", a>>
Receipt(a) == <<"receipt", a>>
Selector(a) == <<"selector", a>>
Object(a) == <<"object", a>>
Bundle(a) == <<"bundle", a>>

InGeneration == {"artifact", "receipt"}
Names == {"flat"} \X Selectors
         \cup {"directory", "artifact", "receipt", "selector", "object", "bundle"} \X Artifacts

Visible == {n \in Names : disk[n] # Absent}
FileStages == {"flat", "artifact", "receipt", "selector", "object", "bundle"}
SyncStages == {"sync artifact", "sync directory", "sync receipt", "sync selector"}
Stages == FileStages \cup SyncStages \cup {"idle", "done"}
Phases == {"begin", "install", "reread", "inspect"}
Running(c) == stage[c] \notin {"idle", "done"}

-----------------------------------------------------------------------------
(* A call: the files it installs and the directories it syncs, in order *)

FirstStage(j) == IF j = "output" THEN "flat" ELSE j

\* Mutant: the selector is installed before the receipt's directory is synced.
NextStageUnsyncedReceipt(s) ==
    CASE s = "flat" -> "artifact"
      [] s = "artifact" -> "sync artifact"
      [] s = "sync artifact" -> "sync directory"
      [] s = "sync directory" -> "receipt"
      [] s = "receipt" -> "selector"
      [] s = "selector" -> "sync receipt"
      [] s = "sync receipt" -> "sync selector"
      [] OTHER -> "done"

\* Mutant: the publication root is not synced before the receipt.
NextStageUnsyncedRoot(s) ==
    CASE s = "flat" -> "artifact"
      [] s = "artifact" -> "sync artifact"
      [] s = "sync artifact" -> "receipt"
      [] s = "receipt" -> "sync receipt"
      [] s = "sync receipt" -> "selector"
      [] s = "selector" -> "sync selector"
      [] OTHER -> "done"

\* PublishVerifiedGeneration after Operation.Publish; the other jobs are one file
NextStage(s) ==
    CASE s = "flat" -> "artifact"
      [] s = "artifact" -> "sync artifact"
      [] s = "sync artifact" -> "sync directory"
      [] s = "sync directory" -> "receipt"
      [] s = "receipt" -> "sync receipt"
      [] s = "sync receipt" -> "selector"
      [] s = "selector" -> "sync selector"
      [] OTHER -> "done"

Target(c) == <<stage[c], IF stage[c] = "flat" THEN where[c] ELSE what[c]>>

\* The names one directory sync settles: those of the generation's directory, of
\* the object store's root, or of the publication root.  Nothing syncs the
\* directories above a capture set, so its name is never settled.
SyncedBy(s, a) ==
    CASE s \in {"sync artifact", "sync receipt"} -> Visible \cap (InGeneration \X {a})
      [] s = "object" -> Visible \cap ({"object"} \X Artifacts)
      [] s \in {"sync directory", "sync selector"} ->
             Visible \cap ({"flat"} \X Selectors \cup {"directory", "selector"} \X Artifacts)
      [] OTHER -> {}

\* existingVerifiedGeneration
Complete(a) ==
    /\ disk[Artifact(a)] = a
    /\ disk[Receipt(a)] = a
    /\ disk[Selector(a)] = a

\* Mutant: the lock is taken before safeTarget and again after it.
LockedByWaiters(c) ==
    \E d \in Callers \ {c} :
        /\ ProcessOf[d] = ProcessOf[c]
        /\ stage[d] \in FileStages
        /\ Target(d) = Target(c)

\* targetLocks: a mutex per final name, known to one process only
Locked(c) ==
    \E d \in Callers \ {c} :
        /\ ProcessOf[d] = ProcessOf[c]
        /\ stage[d] \in FileStages
        /\ phase[d] \in {"install", "reread"}
        /\ Target(d) = Target(c)

PublicationInit ==
    /\ syncs \in BOOLEAN
    /\ disk = [n \in Names |-> Absent]
    /\ durable = {}
    /\ job = [c \in Callers |-> None]
    /\ what = [c \in Callers |-> None]
    /\ where = [c \in Callers |-> None]
    /\ stage = [c \in Callers |-> "idle"]
    /\ phase = [c \in Callers |-> "begin"]
    /\ out = [c \in Callers |-> None]
    /\ fault = [c \in Callers |-> FALSE]
    /\ wrote = [c \in Callers |-> {}]
    /\ spoiled = {}
    /\ epoch = FALSE

-----------------------------------------------------------------------------
(* Steps of a call *)

Submit(c, j, a, s) ==
    /\ ~ Running(c)
    /\ job' = [job EXCEPT ![c] = j]
    /\ what' = [what EXCEPT ![c] = a]
    /\ where' = [where EXCEPT ![c] = s]
    /\ stage' = [stage EXCEPT ![c] = FirstStage(j)]
    /\ phase' = [phase EXCEPT ![c] = "begin"]
    /\ out' = [out EXCEPT ![c] = None]
    /\ fault' = [fault EXCEPT ![c] = FALSE]
    /\ wrote' = [wrote EXCEPT ![c] = {}]
    /\ UNCHANGED <<syncs, epoch, disk, durable, spoiled>>

\* The caller's call ends with answer o; a generation it had begun stays as it is.
Answer(c, o, failed) ==
    /\ stage' = [stage EXCEPT ![c] = "done"]
    /\ phase' = [phase EXCEPT ![c] = "begin"]
    /\ out' = [out EXCEPT ![c] = o]
    /\ fault' = [fault EXCEPT ![c] = failed]
    /\ wrote' = [wrote EXCEPT ![c] = {}]
    /\ UNCHANGED <<job, what, where>>

Abandons(c) == wrote[c] \cap {Artifact(what[c])} # {}
SpoiledBy(cs) == spoiled \cup {what[c] : c \in {d \in cs : Abandons(d)}}

\* A failed system call: the failure result of the stage
Fail(c) ==
    /\ Answer(c, "failed", TRUE)
    /\ spoiled' = SpoiledBy({c})

\* The call's next stage, or its receipt after the last one.
Advance(c) ==
    LET next == NextStage(stage[c])
    IN  /\ stage' = [stage EXCEPT ![c] = next]
        /\ phase' = [phase EXCEPT ![c] = "begin"]
        /\ out' = [out EXCEPT ![c] = IF next = "done" THEN "receipt" ELSE @]
        /\ wrote' = [wrote EXCEPT ![c] = IF next = "done" THEN {} ELSE @]
        /\ UNCHANGED <<job, what, where, fault, spoiled>>

\* Mutant: a source object that another publisher stored first is a failure.
ExistsIsFailure(c) ==
    \/ /\ stage[c] = "artifact"
       /\ phase' = [phase EXCEPT ![c] = "inspect"]
       /\ UNCHANGED <<job, what, where, stage, out, fault, wrote, spoiled>>
    \/ /\ stage[c] # "artifact"
       /\ Answer(c, "exists", fault[c])
       /\ spoiled' = SpoiledBy({c})

\* The final name is taken: an equal source object is success, a generation is
\* inspected next, everything else is TARGET_EXISTS.
Exists(c) ==
    \/ /\ stage[c] = "artifact"
       /\ phase' = [phase EXCEPT ![c] = "inspect"]
       /\ UNCHANGED <<job, what, where, stage, out, fault, wrote, spoiled>>
    \/ /\ stage[c] # "artifact"
       /\ Answer(c, IF stage[c] = "object" THEN "receipt" ELSE "exists", fault[c])
       /\ spoiled' = SpoiledBy({c})

\* safeTarget, which makes the generation's directory, then the lock and the Lstat
Begin(c) ==
    /\ stage[c] \in FileStages
    /\ phase[c] = "begin"
    /\ ~ Locked(c)
    /\ \/ /\ disk[Target(c)] = Absent
          /\ phase' = [phase EXCEPT ![c] = "install"]
          /\ disk' = IF stage[c] \in InGeneration
                     THEN [disk EXCEPT ![Directory(what[c])] = what[c]] ELSE disk
          /\ UNCHANGED <<job, what, where, stage, out, fault, wrote, spoiled>>
       \/ /\ disk[Target(c)] # Absent
          /\ Exists(c)
          /\ UNCHANGED disk
    /\ UNCHANGED <<syncs, epoch, durable>>

\* Mutant: the temporary sibling is renamed over the final name.
InstallReplaces(c) ==
    /\ stage[c] \in FileStages
    /\ phase[c] = "install"
    /\ disk' = [disk EXCEPT ![Target(c)] = what[c]]
    /\ phase' = [phase EXCEPT ![c] = "reread"]
    /\ wrote' = [wrote EXCEPT ![c] = @ \cup {Target(c)}]
    /\ UNCHANGED <<syncs, epoch, durable, job, what, where, stage, out, fault, spoiled>>

\* The temporary sibling is complete; Link refuses a name that appeared meanwhile.
Install(c) ==
    /\ stage[c] \in FileStages
    /\ phase[c] = "install"
    /\ \/ /\ disk[Target(c)] = Absent
          /\ disk' = [disk EXCEPT ![Target(c)] = what[c]]
          /\ phase' = [phase EXCEPT ![c] = "reread"]
          /\ wrote' = [wrote EXCEPT ![c] = @ \cup {Target(c)}]
          /\ UNCHANGED <<job, what, where, stage, out, fault, spoiled>>
       \/ /\ disk[Target(c)] # Absent
          /\ Exists(c)
          /\ UNCHANGED disk
    /\ UNCHANGED <<syncs, epoch, durable>>

\* existingVerifiedGeneration of a generation that this call did not begin
Inspect(c) ==
    /\ phase[c] = "inspect"
    /\ Answer(c, IF Complete(what[c]) THEN "receipt" ELSE "exists", fault[c])
    /\ UNCHANGED <<syncs, epoch, disk, durable, spoiled>>

\* The published bytes are read back and compared.
Reread(c) ==
    /\ stage[c] \in FileStages
    /\ phase[c] = "reread"
    /\ job[c] = "output"
    /\ disk[Target(c)] = what[c]
    /\ Advance(c)
    /\ UNCHANGED <<syncs, epoch, disk, durable>>

\* PublishBoundFile after its link: a directory sync whose failure is only noted,
\* then verification, whose failure is an error to the object store and a status
\* in the receipt of a capture set.
Verify(c, synced, verified) ==
    /\ stage[c] \in FileStages
    /\ phase[c] = "reread"
    /\ job[c] \in {"object", "bundle"}
    /\ durable' = IF synced /\ syncs THEN durable \cup SyncedBy(job[c], what[c]) ELSE durable
    /\ IF verified \/ job[c] = "bundle"
       THEN Advance(c)
       ELSE Fail(c)
    /\ UNCHANGED <<syncs, epoch, disk>>

\* syncGeneration and Root.SyncDirectory; a platform without directory sync passes
SyncDirectory(c) ==
    /\ stage[c] \in SyncStages
    /\ durable' = IF syncs THEN durable \cup SyncedBy(stage[c], what[c]) ELSE durable
    /\ Advance(c)
    /\ UNCHANGED <<syncs, epoch, disk>>

\* Mutant: a failed call removes the files it had made visible.
SystemCallFailsAndCleans(c) ==
    /\ Running(c)
    /\ stage[c] \in FileStages => phase[c] # "begin" \/ ~ Locked(c)
    /\ phase[c] = "reread" => job[c] = "output"
    /\ Fail(c)
    /\ disk' = [n \in Names |-> IF n \in wrote[c] THEN Absent ELSE disk[n]]
    /\ durable' = durable \ wrote[c]
    /\ UNCHANGED <<syncs, epoch>>

\* Staging, link, reread or sync fails; what is visible stays.
SystemCallFails(c) ==
    /\ Running(c)
    /\ stage[c] \in FileStages => phase[c] # "begin" \/ ~ Locked(c)
    /\ phase[c] = "reread" => job[c] = "output"
    /\ Fail(c)
    /\ UNCHANGED <<syncs, epoch, disk, durable>>

-----------------------------------------------------------------------------
(* Crashes *)

Stop(cs) ==
    /\ stage' = [c \in Callers |-> IF c \in cs THEN "idle" ELSE stage[c]]
    /\ phase' = [c \in Callers |-> IF c \in cs THEN "begin" ELSE phase[c]]
    /\ out' = [c \in Callers |-> IF c \in cs THEN None ELSE out[c]]
    /\ fault' = [c \in Callers |-> IF c \in cs THEN FALSE ELSE fault[c]]
    /\ wrote' = [c \in Callers |-> IF c \in cs THEN {} ELSE wrote[c]]
    /\ spoiled' = SpoiledBy({c \in cs : Running(c)})
    /\ job' = [c \in Callers |-> IF c \in cs THEN None ELSE job[c]]
    /\ what' = [c \in Callers |-> IF c \in cs THEN None ELSE what[c]]
    /\ where' = [c \in Callers |-> IF c \in cs THEN None ELSE where[c]]

\* A process is killed; the kernel keeps the namespace.
Kill(p) ==
    /\ Stop({c \in Callers : ProcessOf[c] = p})
    /\ UNCHANGED <<syncs, epoch, disk, durable>>

\* A name survives with the directory that holds it.
Survivors(kept) == {n \in kept : n[1] \in InGeneration => Directory(n[2]) \in kept}

PowerLoss ==
    /\ \E lucky \in SUBSET (Visible \ durable) :
          LET kept == Survivors(durable \cup lucky)
          IN  /\ durable' = kept
              /\ disk' = [n \in Names |-> IF n \in kept THEN disk[n] ELSE Absent]
    /\ Stop(Callers)
    /\ epoch' = ~ epoch
    /\ UNCHANGED syncs

CallStep(c) ==
    \/ Begin(c)
    \/ Install(c)
    \/ Inspect(c)
    \/ Reread(c)
    \/ \E synced, verified \in BOOLEAN : Verify(c, synced, verified)
    \/ SyncDirectory(c)
    \/ SystemCallFails(c)

PublicationNext ==
    \/ \E c \in Callers :
          \/ \E j \in Jobs, a \in Artifacts, s \in Selectors : Submit(c, j, a, s)
          \/ CallStep(c)
    \/ \E p \in Processes : Kill(p)
    \/ PowerLoss

PublicationSpec == PublicationInit /\ [][PublicationNext]_vars

\* Every goroutine that publishes keeps running, and sync.Mutex hands a lock over
\* to a waiter that has been starved of it.
PublicationFairSpec ==
    PublicationSpec /\ \A c \in Callers : WF_vars(CallStep(c)) /\ SF_vars(Begin(c))

-----------------------------------------------------------------------------
(* Properties *)

\* Every variable has its type, and only visible names are durable.
PublicationTypeOK ==
    /\ syncs \in BOOLEAN /\ epoch \in BOOLEAN
    /\ disk \in [Names -> Artifacts \cup {Absent}]
    /\ durable \subseteq Visible
    /\ job \in [Callers -> Jobs \cup {None}]
    /\ what \in [Callers -> Artifacts \cup {None}]
    /\ where \in [Callers -> Selectors \cup {None}]
    /\ stage \in [Callers -> Stages]
    /\ phase \in [Callers -> Phases]
    /\ out \in [Callers -> {"receipt", "exists", "failed", None}]
    /\ fault \in [Callers -> BOOLEAN]
    /\ wrote \in [Callers -> SUBSET Names]
    /\ spoiled \subseteq Artifacts

\* "The selector is installed last; an absent selector never authorizes an
\* incomplete generation": where directories can be synced, a selector that is
\* visible, after any crash too, leads to an artifact and a receipt that no later
\* crash removes.
SelectedIsWhole ==
    syncs => \A a \in Artifacts :
                 Selector(a) \in Visible => {Directory(a), Artifact(a), Receipt(a)} \subseteq durable

\* A receipt says CHECKED only of an artifact whose two directory entries outlive
\* a power loss.
CheckedIsDurable ==
    syncs => \A a \in Artifacts :
                 Receipt(a) \in Visible => {Directory(a), Artifact(a)} \subseteq durable

\* A generation whose selector is missing is being written by the call that linked
\* its artifact, or was given up by one; no other history leaves one torn, and no
\* second writer ever continues it.
TornExplained ==
    syncs => \A a \in Artifacts :
                 Artifact(a) \in Visible /\ Selector(a) \notin Visible =>
                     \/ a \in spoiled
                     \/ \E c \in Callers : Running(c) /\ Artifact(a) \in wrote[c]

\* A caller that holds a receipt published what the receipt says: its own bytes are
\* under the name it chose, no other live caller holds a receipt for that name, and
\* the generation the receipt names is complete.
ReceiptsTrue ==
    \A c \in Callers : out[c] = "receipt" =>
        /\ job[c] = "output" =>
              /\ Complete(what[c])
              /\ disk[Flat(where[c])] = what[c]
              /\ \A d \in Callers \ {c} :
                    out[d] = "receipt" /\ job[d] = "output" => where[d] # where[c]
        /\ job[c] \in {"object", "bundle"} => disk[<<job[c], what[c]>>] = what[c]

\* What callers were told and what the directory holds agree: receipts are true, and
\* what is torn was torn by a call that was told so or died.
AnswersMatchDisk == TornExplained /\ ReceiptsTrue

\* Source objects are idempotent: publishing one fails only when a system call of
\* that very publication failed, whoever else publishes it meanwhile.
ObjectsIdempotent ==
    \A c \in Callers : job[c] = "object" /\ stage[c] = "done" => out[c] = "receipt" \/ fault[c]

\* What a client may rely on, at the level of whole generations.
Generations ==
    INSTANCE GenerationStore WITH
        exposed <- {a \in Artifacts : Complete(a)},
        settled <- {a \in Artifacts :
                       Complete(a) /\ {Directory(a), Artifact(a), Receipt(a), Selector(a)} \subseteq durable}

\* The publisher implements the generation store, power losses included.
ImplementsGenerationStore == Generations!StoreSpec

\* Every call ends, also when callers of one process queue for one name.
CallsEnd == \A c \in Callers : Running(c) ~> ~ Running(c)
=============================================================================
