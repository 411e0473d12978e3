-------------------------- MODULE PublicationProofs --------------------------
(***************************************************************************)
(* Proofs about Publication: visible selectors lead to whole, durable      *)
(* generations after any number of crashes, and the publisher implements   *)
(* GenerationStore.                                                        *)
(***************************************************************************)
EXTENDS Publication, TLAPS

\* Stages of a call by what must have been done before them.
AfterArtifact == {"sync artifact", "sync directory", "receipt", "sync receipt", "selector", "sync selector"}
AfterSync == {"sync directory", "receipt", "sync receipt", "selector", "sync selector"}
AfterRootSync == {"receipt", "sync receipt", "selector", "sync selector"}
AfterReceipt == {"sync receipt", "selector", "sync selector"}
AfterReceiptSync == {"selector", "sync selector"}

\* What the position of one call says of the disk.
Progress(c) ==
    /\ stage[c] \notin {"idle", "done"} => what[c] \in Artifacts /\ (stage[c] = "flat" => where[c] \in Selectors)
    /\ stage[c] = "artifact" /\ phase[c] \in {"install", "reread"} => Directory(what[c]) \in Visible
    /\ stage[c] = "artifact" /\ phase[c] = "reread" => Artifact(what[c]) \in Visible
    /\ stage[c] \in AfterArtifact => {Directory(what[c]), Artifact(what[c])} \subseteq Visible
    /\ syncs /\ stage[c] \in AfterSync => Artifact(what[c]) \in durable
    /\ syncs /\ stage[c] \in AfterRootSync => Directory(what[c]) \in durable
    /\ stage[c] = "receipt" /\ phase[c] = "reread" => Receipt(what[c]) \in Visible
    /\ stage[c] \in AfterReceipt => Receipt(what[c]) \in Visible
    /\ syncs /\ stage[c] \in AfterReceiptSync => Receipt(what[c]) \in durable

\* Inductive: the two durability invariants with the progress of every call.
DurableInv ==
    /\ PublicationTypeOK
    /\ SelectedIsWhole
    /\ CheckedIsDurable
    /\ \A c \in Callers : Progress(c)

-----------------------------------------------------------------------------
(* Names, stages and the disk *)

LEMMA NamesTyped ==
    /\ \A s \in Selectors : Flat(s) \in Names
    /\ \A a \in Artifacts : /\ Directory(a) \in Names /\ Artifact(a) \in Names
                            /\ Receipt(a) \in Names /\ Selector(a) \in Names
                            /\ Object(a) \in Names /\ Bundle(a) \in Names
BY DEF Names, Flat, Directory, Artifact, Receipt, Selector, Object, Bundle

LEMMA NextStages ==
    /\ NextStage("flat") = "artifact"
    /\ NextStage("artifact") = "sync artifact"
    /\ NextStage("sync artifact") = "sync directory"
    /\ NextStage("sync directory") = "receipt"
    /\ NextStage("receipt") = "sync receipt"
    /\ NextStage("sync receipt") = "selector"
    /\ NextStage("selector") = "sync selector"
    /\ NextStage("sync selector") = "done"
    /\ NextStage("object") = "done"
    /\ NextStage("bundle") = "done"
BY DEF NextStage

\* The target of a call at a file stage is a name.
LEMMA TargetNamed ==
    ASSUME NEW c \in Callers, DurableInv, stage[c] \in FileStages
    PROVE  Target(c) \in Names /\ what[c] \in Artifacts
<1>1. Progress(c) BY DEF DurableInv
<1>2. what[c] \in Artifacts /\ (stage[c] = "flat" => where[c] \in Selectors)
  BY <1>1 DEF Progress, FileStages
<1>. QED BY <1>2 DEF Target, Names, FileStages

LEMMA SyncedVisible ==
    ASSUME NEW s, NEW a
    PROVE  SyncedBy(s, a) \subseteq Visible
BY DEF SyncedBy

\* A call that does not move keeps its facts while names only appear and settle.
LEMMA OthersKeep ==
    ASSUME NEW d \in Callers, Progress(d), syncs' = syncs,
           Visible \subseteq Visible', durable \subseteq durable',
           stage'[d] = stage[d], phase'[d] = phase[d], what'[d] = what[d], where'[d] = where[d]
    PROVE  Progress(d)'
BY DEF Progress, Directory, Artifact, Receipt

\* A call that is over says nothing of the disk.
LEMMA OverKeeps ==
    ASSUME NEW d \in Callers, stage'[d] \in {"idle", "done"}
    PROVE  Progress(d)'
BY DEF Progress, AfterArtifact, AfterSync, AfterRootSync, AfterReceipt, AfterReceiptSync

LEMMA SpoiledTyped ==
    ASSUME NEW cs \in SUBSET Callers, PublicationTypeOK
    PROVE  SpoiledBy(cs) \subseteq Artifacts
<1>. SUFFICES ASSUME NEW d \in cs, Abandons(d) PROVE what[d] \in Artifacts
  BY DEF SpoiledBy, PublicationTypeOK
<1>1. Artifact(what[d]) \in Names
  BY DEF Abandons, PublicationTypeOK
<1>. QED BY <1>1 DEF Artifact, Names

\* While names only appear, a selector or receipt that was there stays explained.
LEMMA DurabilityKept ==
    ASSUME DurableInv, syncs' = syncs, durable \subseteq durable',
           \A a \in Artifacts :
               /\ Selector(a) \in Visible' => Selector(a) \in Visible
               /\ Receipt(a) \in Visible' => Receipt(a) \in Visible
    PROVE  SelectedIsWhole' /\ CheckedIsDurable'
BY DEF DurableInv, SelectedIsWhole, CheckedIsDurable, Selector, Receipt, Directory, Artifact

\* A call answers; whatever its last step synced is settled.
LEMMA AnswerStep ==
    ASSUME DurableInv, NEW c \in Callers, NEW o \in {"receipt", "exists", "failed"}, NEW f \in BOOLEAN,
           Answer(c, o, f), spoiled' \subseteq Artifacts, UNCHANGED <<syncs, epoch, disk>>,
           durable \subseteq durable', durable' \subseteq Visible
    PROVE  DurableInv'
<1>. PublicationTypeOK BY DEF DurableInv
<1>1. Visible' = Visible BY DEF Visible
<1>2. PublicationTypeOK'
  BY <1>1 DEF PublicationTypeOK, Answer, Stages, Phases
<1>3. SelectedIsWhole' /\ CheckedIsDurable'
  BY <1>1, DurabilityKept
<1>4. ASSUME NEW d \in Callers PROVE Progress(d)'
  <2>1. CASE d = c
    BY <2>1, OverKeeps DEF Answer, PublicationTypeOK
  <2>2. CASE d # c
    BY <1>1, <2>2, OthersKeep DEF Answer, PublicationTypeOK, DurableInv
  <2>. QED BY <2>1, <2>2
<1>. QED BY <1>2, <1>3, <1>4 DEF DurableInv

\* A call goes on to its next stage, having synced what that stage relies on.
LEMMA AdvanceStep ==
    ASSUME DurableInv, NEW c \in Callers, Advance(c), stage[c] \notin {"idle", "done"},
           UNCHANGED <<syncs, epoch, disk>>, durable \subseteq durable', durable' \subseteq Visible,
           stage[c] \in FileStages => phase[c] = "reread",
           syncs /\ stage[c] \in SyncStages => SyncedBy(stage[c], what[c]) \subseteq durable'
    PROVE  DurableInv'
<1>. PublicationTypeOK BY DEF DurableInv
<1>1. Visible' = Visible BY DEF Visible
<1>2. Progress(c) /\ what[c] \in Artifacts BY DEF DurableInv, Progress
<1>3. stage[c] \in FileStages \cup SyncStages BY DEF PublicationTypeOK, Stages
<1>4. stage'[c] = NextStage(stage[c]) /\ what'[c] = what[c] /\ where'[c] = where[c] /\ phase'[c] = "begin"
  BY DEF Advance, PublicationTypeOK
<1>5. NextStage(stage[c]) \in Stages
  BY <1>3, NextStages DEF FileStages, SyncStages, Stages
<1>6. PublicationTypeOK'
  BY <1>1, <1>5 DEF PublicationTypeOK, Advance, Phases
<1>7. SelectedIsWhole' /\ CheckedIsDurable'
  BY <1>1, DurabilityKept
<1>8. Progress(c)'
  <2>1. CASE stage[c] = "sync artifact"
    <3>1. Artifact(what[c]) \in Visible /\ Directory(what[c]) \in Visible
      BY <1>2, <2>1 DEF Progress, AfterArtifact
    <3>2. syncs => Artifact(what[c]) \in SyncedBy(stage[c], what[c])
      BY <2>1, <3>1, <1>2 DEF SyncedBy, Artifact, InGeneration
    <3>3. syncs => Artifact(what[c]) \in durable'
      BY <3>2, <2>1 DEF SyncStages
    <3>4. stage'[c] = "sync directory" BY <1>4, <2>1, NextStages
    <3>. QED BY <1>1, <1>2, <1>4, <3>1, <3>3, <3>4
         DEF Progress, AfterArtifact, AfterSync, AfterRootSync, AfterReceipt, AfterReceiptSync, Artifact, Directory
  <2>2. CASE stage[c] = "sync directory"
    <3>1. /\ Artifact(what[c]) \in Visible /\ Directory(what[c]) \in Visible
          /\ syncs => Artifact(what[c]) \in durable
      BY <1>2, <2>2 DEF Progress, AfterArtifact, AfterSync
    <3>2. syncs => Directory(what[c]) \in SyncedBy(stage[c], what[c])
      BY <2>2, <3>1, <1>2 DEF SyncedBy, Directory
    <3>3. syncs => Directory(what[c]) \in durable'
      BY <3>2, <2>2 DEF SyncStages
    <3>4. stage'[c] = "receipt" BY <1>4, <2>2, NextStages
    <3>. QED BY <1>1, <1>2, <1>4, <3>1, <3>3, <3>4
         DEF Progress, AfterArtifact, AfterSync, AfterRootSync, AfterReceipt, AfterReceiptSync, Artifact, Directory
  <2>3. CASE stage[c] = "sync receipt"
    <3>1. /\ Artifact(what[c]) \in Visible /\ Directory(what[c]) \in Visible /\ Receipt(what[c]) \in Visible
          /\ syncs => Artifact(what[c]) \in durable /\ Directory(what[c]) \in durable
      BY <1>2, <2>3 DEF Progress, AfterArtifact, AfterSync, AfterRootSync, AfterReceipt
    <3>2. syncs => Receipt(what[c]) \in SyncedBy(stage[c], what[c])
      BY <2>3, <3>1, <1>2 DEF SyncedBy, Receipt, InGeneration
    <3>3. syncs => Receipt(what[c]) \in durable'
      BY <3>2, <2>3 DEF SyncStages
    <3>4. stage'[c] = "selector" BY <1>4, <2>3, NextStages
    <3>. QED BY <1>1, <1>2, <1>4, <3>1, <3>3, <3>4
         DEF Progress, AfterArtifact, AfterSync, AfterRootSync, AfterReceipt, AfterReceiptSync, Artifact, Directory, Receipt
  <2>4. CASE stage[c] \in {"flat", "artifact", "receipt", "selector"}
    BY <1>1, <1>2, <1>4, <2>4, NextStages
       DEF Progress, AfterArtifact, AfterSync, AfterRootSync, AfterReceipt, AfterReceiptSync,
           Artifact, Directory, Receipt, FileStages
  <2>5. CASE stage[c] \in {"sync selector", "object", "bundle"}
    BY <1>4, <2>5, NextStages, OverKeeps
  <2>. QED BY <1>3, <2>1, <2>2, <2>3, <2>4, <2>5 DEF FileStages, SyncStages
<1>9. ASSUME NEW d \in Callers, d # c PROVE Progress(d)'
  BY <1>1, <1>9, OthersKeep DEF Advance, PublicationTypeOK, DurableInv
<1>. QED BY <1>6, <1>7, <1>8, <1>9 DEF DurableInv

-----------------------------------------------------------------------------
(* The actions *)

LEMMA SubmitStep ==
    ASSUME DurableInv, NEW c \in Callers, NEW j \in Jobs, NEW a \in Artifacts, NEW t \in Selectors,
           Submit(c, j, a, t)
    PROVE  DurableInv'
<1>. PublicationTypeOK BY DEF DurableInv
<1>1. Visible' = Visible /\ durable' = durable /\ syncs' = syncs BY DEF Visible, Submit
<1>2. FirstStage(j) \in {"flat", "object", "bundle"}
  BY PublicationConstants DEF FirstStage, JobKinds
<1>3. PublicationTypeOK'
  BY <1>1, <1>2 DEF PublicationTypeOK, Submit, Stages, FileStages, Phases
<1>4. SelectedIsWhole' /\ CheckedIsDurable'
  BY <1>1, DurabilityKept
<1>5. Progress(c)'
  BY <1>2 DEF Submit, PublicationTypeOK, Progress, AfterArtifact, AfterSync, AfterRootSync, AfterReceipt, AfterReceiptSync
<1>6. ASSUME NEW d \in Callers, d # c PROVE Progress(d)'
  BY <1>1, <1>6, OthersKeep DEF Submit, PublicationTypeOK, DurableInv
<1>. QED BY <1>3, <1>4, <1>5, <1>6 DEF DurableInv

LEMMA InspectStep ==
    ASSUME DurableInv, NEW c \in Callers, Inspect(c)
    PROVE  DurableInv'
BY AnswerStep DEF Inspect, DurableInv, PublicationTypeOK

LEMMA FailStep ==
    ASSUME DurableInv, NEW c \in Callers, Fail(c), UNCHANGED <<syncs, epoch, disk>>,
           durable \subseteq durable', durable' \subseteq Visible
    PROVE  DurableInv'
BY AnswerStep, SpoiledTyped DEF Fail, DurableInv, PublicationTypeOK

LEMMA SystemCallFailsStep ==
    ASSUME DurableInv, NEW c \in Callers, SystemCallFails(c)
    PROVE  DurableInv'
BY FailStep DEF SystemCallFails, DurableInv, PublicationTypeOK

LEMMA RereadStep ==
    ASSUME DurableInv, NEW c \in Callers, Reread(c)
    PROVE  DurableInv'
<1>1. durable' = durable /\ durable \subseteq Visible
  BY DEF Reread, DurableInv, PublicationTypeOK
<1>2. stage[c] \notin SyncStages /\ stage[c] \notin {"idle", "done"}
  BY DEF Reread, FileStages, SyncStages
<1>. QED BY <1>1, <1>2, AdvanceStep DEF Reread

LEMMA VerifyStep ==
    ASSUME DurableInv, NEW c \in Callers, NEW synced \in BOOLEAN, NEW verified \in BOOLEAN,
           Verify(c, synced, verified)
    PROVE  DurableInv'
<1>1. durable \subseteq durable' /\ durable' \subseteq Visible
  BY SyncedVisible DEF Verify, DurableInv, PublicationTypeOK
<1>2. stage[c] \notin SyncStages /\ stage[c] \notin {"idle", "done"} /\ phase[c] = "reread"
  BY DEF Verify, FileStages, SyncStages
<1>3. UNCHANGED <<syncs, epoch, disk>> /\ (Advance(c) \/ Fail(c))
  BY DEF Verify
<1>4. CASE Advance(c) BY <1>1, <1>2, <1>3, <1>4, AdvanceStep
<1>5. CASE Fail(c) BY <1>1, <1>3, <1>5, FailStep
<1>. QED BY <1>3, <1>4, <1>5

LEMMA SyncDirectoryStep ==
    ASSUME DurableInv, NEW c \in Callers, SyncDirectory(c)
    PROVE  DurableInv'
<1>1. durable \subseteq durable' /\ durable' \subseteq Visible
  BY SyncedVisible DEF SyncDirectory, DurableInv, PublicationTypeOK
<1>2. stage[c] \in SyncStages /\ stage[c] \notin FileStages /\ stage[c] \notin {"idle", "done"}
  BY DEF SyncDirectory, FileStages, SyncStages
<1>3. syncs => SyncedBy(stage[c], what[c]) \subseteq durable'
  BY DEF SyncDirectory
<1>. QED BY <1>1, <1>2, <1>3, AdvanceStep DEF SyncDirectory

LEMMA ExistsStep ==
    ASSUME DurableInv, NEW c \in Callers, Exists(c), UNCHANGED <<syncs, epoch, disk, durable>>
    PROVE  DurableInv'
<1>. PublicationTypeOK BY DEF DurableInv
<1>1. CASE stage[c] # "artifact"
  BY <1>1, AnswerStep, SpoiledTyped DEF Exists, PublicationTypeOK
<1>2. CASE stage[c] = "artifact"
  <2>1. /\ phase' = [phase EXCEPT ![c] = "inspect"]
        /\ UNCHANGED <<job, what, where, stage, out, fault, wrote, spoiled>>
    BY <1>2 DEF Exists
  <2>2. Visible' = Visible BY DEF Visible
  <2>3. PublicationTypeOK' BY <2>1, <2>2 DEF PublicationTypeOK, Phases
  <2>4. SelectedIsWhole' /\ CheckedIsDurable' BY <2>2, DurabilityKept
  <2>5. Progress(c)'
    BY <1>2, <2>1, <2>2 DEF DurableInv, PublicationTypeOK, Progress, AfterArtifact, AfterSync, AfterRootSync, AfterReceipt, AfterReceiptSync
  <2>6. ASSUME NEW d \in Callers, d # c PROVE Progress(d)'
    BY <2>1, <2>2, <2>6, OthersKeep DEF PublicationTypeOK, DurableInv
  <2>. QED BY <2>3, <2>4, <2>5, <2>6 DEF DurableInv
<1>. QED BY <1>1, <1>2

LEMMA BeginStep ==
    ASSUME DurableInv, NEW c \in Callers, Begin(c)
    PROVE  DurableInv'
<1>. PublicationTypeOK BY DEF DurableInv
<1>1. CASE disk[Target(c)] # Absent
  BY <1>1, ExistsStep DEF Begin
<1>2. CASE disk[Target(c)] = Absent
  <2>. what[c] \in Artifacts BY TargetNamed DEF Begin
  <2>1. /\ phase' = [phase EXCEPT ![c] = "install"]
        /\ disk' = IF stage[c] \in InGeneration THEN [disk EXCEPT ![Directory(what[c])] = what[c]] ELSE disk
        /\ UNCHANGED <<syncs, epoch, durable, job, what, where, stage, out, fault, wrote, spoiled>>
    BY <1>2 DEF Begin
  <2>2. disk' \in [Names -> Artifacts \cup {Absent}]
    BY <2>1 DEF PublicationTypeOK
  <2>3. Visible \subseteq Visible' /\ (stage[c] \in InGeneration => Directory(what[c]) \in Visible')
    BY <2>1, NamesTyped, PublicationConstants DEF Visible, PublicationTypeOK
  <2>4. \A a \in Artifacts :
            /\ Selector(a) \in Visible' => Selector(a) \in Visible
            /\ Receipt(a) \in Visible' => Receipt(a) \in Visible
    BY <2>1, NamesTyped DEF Visible, PublicationTypeOK, Selector, Receipt, Directory
  <2>5. PublicationTypeOK'
    BY <2>1, <2>2, <2>3 DEF PublicationTypeOK, Phases
  <2>6. SelectedIsWhole' /\ CheckedIsDurable'
    <3>1. syncs' = syncs /\ durable \subseteq durable' BY <2>1
    <3>. QED BY <3>1, <2>4, DurabilityKept
  <2>7. Progress(c)'
    <3>1. Progress(c) BY DEF DurableInv
    <3>. QED BY <2>1, <2>3, <3>1 DEF InGeneration, PublicationTypeOK, Progress, Directory, Artifact, Receipt
  <2>8. ASSUME NEW d \in Callers, d # c PROVE Progress(d)'
    BY <2>1, <2>3, <2>8, OthersKeep DEF PublicationTypeOK, DurableInv
  <2>. QED BY <2>5, <2>6, <2>7, <2>8 DEF DurableInv
<1>. QED BY <1>1, <1>2

LEMMA InstallStep ==
    ASSUME DurableInv, NEW c \in Callers, Install(c)
    PROVE  DurableInv'
<1>. PublicationTypeOK BY DEF DurableInv
<1>1. CASE disk[Target(c)] # Absent
  BY <1>1, ExistsStep DEF Install
<1>2. CASE disk[Target(c)] = Absent
  <2>. what[c] \in Artifacts /\ Target(c) \in Names BY TargetNamed DEF Install
  <2>1. /\ phase' = [phase EXCEPT ![c] = "reread"]
        /\ phase[c] = "install" /\ stage[c] \in FileStages
        /\ disk' = [disk EXCEPT ![Target(c)] = what[c]]
        /\ wrote' = [wrote EXCEPT ![c] = @ \cup {Target(c)}]
        /\ UNCHANGED <<syncs, epoch, durable, job, what, where, stage, out, fault, spoiled>>
    BY <1>2 DEF Install
  <2>2. Visible' = Visible \cup {Target(c)}
    BY <2>1, PublicationConstants DEF Visible, PublicationTypeOK
  <2>3. Progress(c) BY DEF DurableInv
  <2>4. PublicationTypeOK'
    <3>1. disk' \in [Names -> Artifacts \cup {Absent}] BY <2>1 DEF PublicationTypeOK
    <3>2. wrote' \in [Callers -> SUBSET Names] BY <2>1 DEF PublicationTypeOK
    <3>. QED BY <2>1, <2>2, <3>1, <3>2 DEF PublicationTypeOK, Phases
  <2>5. SelectedIsWhole'
    <3>. SUFFICES ASSUME syncs, NEW a \in Artifacts, Selector(a) = Target(c)
                  PROVE  {Directory(a), Artifact(a), Receipt(a)} \subseteq durable
      BY <2>1, <2>2 DEF SelectedIsWhole, DurableInv, Directory, Artifact, Receipt, Selector
    <3>1. stage[c] = "selector" /\ what[c] = a BY DEF Target, Selector
    <3>. QED BY <2>3, <3>1 DEF Progress, AfterSync, AfterRootSync, AfterReceiptSync
  <2>6. CheckedIsDurable'
    <3>. SUFFICES ASSUME syncs, NEW a \in Artifacts, Receipt(a) = Target(c)
                  PROVE  {Directory(a), Artifact(a)} \subseteq durable
      BY <2>1, <2>2 DEF CheckedIsDurable, DurableInv, Directory, Artifact, Receipt
    <3>1. stage[c] = "receipt" /\ what[c] = a BY DEF Target, Receipt
    <3>. QED BY <2>3, <3>1 DEF Progress, AfterSync, AfterRootSync
  <2>7. Progress(c)'
    <3>1. stage[c] = "artifact" => Target(c) = Artifact(what[c]) BY DEF Target, Artifact
    <3>2. stage[c] = "receipt" => Target(c) = Receipt(what[c]) BY DEF Target, Receipt
    <3>. QED BY <2>1, <2>2, <2>3, <3>1, <3>2 DEF PublicationTypeOK, Progress, Directory, Artifact, Receipt
  <2>8. ASSUME NEW d \in Callers, d # c PROVE Progress(d)'
    BY <2>1, <2>2, <2>8, OthersKeep DEF PublicationTypeOK, DurableInv
  <2>. QED BY <2>4, <2>5, <2>6, <2>7, <2>8 DEF DurableInv
<1>. QED BY <1>1, <1>2

\* The calls of some callers end without an answer.
LEMMA StopTyped ==
    ASSUME DurableInv, NEW cs \in SUBSET Callers, Stop(cs), syncs' = syncs, epoch' \in BOOLEAN,
           disk' \in [Names -> Artifacts \cup {Absent}], durable' \subseteq Visible'
    PROVE  PublicationTypeOK'
<1>. PublicationTypeOK BY DEF DurableInv
<1>1. spoiled' \subseteq Artifacts
  BY SpoiledTyped DEF Stop
<1>2. /\ stage' \in [Callers -> Stages]
      /\ phase' \in [Callers -> Phases]
      /\ out' \in [Callers -> {"receipt", "exists", "failed", None}]
      /\ fault' \in [Callers -> BOOLEAN]
  BY DEF Stop, PublicationTypeOK, Stages, Phases
<1>3. /\ wrote' \in [Callers -> SUBSET Names]
      /\ job' \in [Callers -> Jobs \cup {None}]
      /\ what' \in [Callers -> Artifacts \cup {None}]
      /\ where' \in [Callers -> Selectors \cup {None}]
  BY DEF Stop, PublicationTypeOK
<1>. QED BY <1>1, <1>2, <1>3 DEF PublicationTypeOK

LEMMA KillStep ==
    ASSUME DurableInv, NEW p \in Processes, Kill(p)
    PROVE  DurableInv'
<1>. PublicationTypeOK BY DEF DurableInv
<1>. DEFINE cs == {c \in Callers : ProcessOf[c] = p}
<1>1. Stop(cs) /\ UNCHANGED <<syncs, epoch, disk, durable>> BY DEF Kill
<1>2. Visible' = Visible BY <1>1 DEF Visible
<1>3. PublicationTypeOK'
  <2>1. epoch' \in BOOLEAN /\ disk' \in [Names -> Artifacts \cup {Absent}] /\ durable' \subseteq Visible'
    BY <1>1, <1>2 DEF PublicationTypeOK
  <2>2. cs \in SUBSET Callers OBVIOUS
  <2>. HIDE DEF cs
  <2>. QED BY <1>1, <2>1, <2>2, StopTyped
<1>4. SelectedIsWhole' /\ CheckedIsDurable'
  BY <1>1, <1>2, DurabilityKept
<1>5. ASSUME NEW d \in Callers PROVE Progress(d)'
  <2>1. CASE d \in cs
    <3>1. stage'[d] = "idle" BY <1>1, <2>1 DEF Stop
    <3>. QED BY <3>1, OverKeeps
  <2>2. CASE d \notin cs
    <3>1. stage'[d] = stage[d] /\ phase'[d] = phase[d] /\ what'[d] = what[d] /\ where'[d] = where[d]
      BY <1>1, <2>2 DEF Stop
    <3>. QED BY <1>1, <1>2, <3>1, OthersKeep DEF DurableInv
  <2>. QED BY <2>1, <2>2
<1>. QED BY <1>3, <1>4, <1>5 DEF DurableInv

\* What a power loss leaves: durable names stay, provided their directory is durable,
\* and every name that stays is durable.
LEMMA PowerLossLeaves ==
    ASSUME PublicationTypeOK, PowerLoss
    PROVE  /\ Visible' = durable' /\ Visible' \subseteq Visible
           /\ disk' \in [Names -> Artifacts \cup {Absent}]
           /\ \A n \in Visible' : disk'[n] = disk[n]
           /\ \A n \in durable : n[1] \notin InGeneration => n \in durable'
           /\ \A a \in Artifacts : {Directory(a), Artifact(a)} \subseteq durable
                                    => {Directory(a), Artifact(a)} \subseteq durable'
           /\ \A a \in Artifacts : {Directory(a), Receipt(a)} \subseteq durable => Receipt(a) \in durable'
           /\ \A a \in Artifacts : Artifact(a) \in durable' => Directory(a) \in durable'
<1>1. PICK lucky \in SUBSET (Visible \ durable) :
          /\ durable' = Survivors(durable \cup lucky)
          /\ disk' = [n \in Names |-> IF n \in Survivors(durable \cup lucky) THEN disk[n] ELSE Absent]
  BY DEF PowerLoss
<1>2. durable' = {n \in durable \cup lucky : n[1] \in InGeneration => Directory(n[2]) \in durable \cup lucky}
  BY <1>1 DEF Survivors
<1>3. durable \cup lucky \subseteq Visible /\ Visible \subseteq Names
  BY <1>1 DEF PublicationTypeOK, Visible
<1>4. durable' \subseteq Visible BY <1>2, <1>3
<1>5. disk' = [n \in Names |-> IF n \in durable' THEN disk[n] ELSE Absent]
  BY <1>1
<1>6. Visible' = durable'
  BY <1>3, <1>4, <1>5 DEF Visible
<1>7. disk' \in [Names -> Artifacts \cup {Absent}]
  BY <1>5 DEF PublicationTypeOK
<1>8. \A n \in Visible' : disk'[n] = disk[n]
  BY <1>3, <1>4, <1>5, <1>6
<1>9. \A a : Directory(a) \in durable \cup lucky => Directory(a) \in durable'
  BY <1>2 DEF Directory, InGeneration
<1>10. \A a : Artifact(a)[2] = a /\ Receipt(a)[2] = a /\ Artifact(a)[1] \in InGeneration
  BY DEF Artifact, Receipt, InGeneration
<1>11. \A a \in Artifacts : Artifact(a) \in durable' => Directory(a) \in durable'
  BY <1>2, <1>9, <1>10
<1>. QED BY <1>2, <1>4, <1>6, <1>7, <1>8, <1>9, <1>10, <1>11

LEMMA PowerLossStep ==
    ASSUME DurableInv, PowerLoss
    PROVE  DurableInv'
<1>. PublicationTypeOK BY DEF DurableInv
<1>1. Stop(Callers) /\ syncs' = syncs /\ epoch' \in BOOLEAN
  BY DEF PowerLoss, PublicationTypeOK
<1>2. PublicationTypeOK'
  BY <1>1, PowerLossLeaves, StopTyped
<1>3. SelectedIsWhole'
  <2>. SUFFICES ASSUME syncs, NEW a \in Artifacts, Selector(a) \in Visible'
                PROVE  {Directory(a), Artifact(a), Receipt(a)} \subseteq durable'
    BY <1>1 DEF SelectedIsWhole, Selector, Directory, Artifact, Receipt
  <2>1. {Directory(a), Artifact(a), Receipt(a)} \subseteq durable
    BY PowerLossLeaves DEF DurableInv, SelectedIsWhole
  <2>. QED BY <2>1, PowerLossLeaves
<1>4. CheckedIsDurable'
  <2>. SUFFICES ASSUME syncs, NEW a \in Artifacts, Receipt(a) \in Visible'
                PROVE  {Directory(a), Artifact(a)} \subseteq durable'
    BY <1>1 DEF CheckedIsDurable, Directory, Artifact, Receipt
  <2>1. {Directory(a), Artifact(a)} \subseteq durable
    BY PowerLossLeaves DEF DurableInv, CheckedIsDurable
  <2>. QED BY <2>1, PowerLossLeaves
<1>5. ASSUME NEW d \in Callers PROVE Progress(d)'
  <2>1. stage'[d] = "idle" BY <1>1 DEF Stop
  <2>. QED BY <2>1, OverKeeps
<1>. QED BY <1>2, <1>3, <1>4, <1>5 DEF DurableInv

-----------------------------------------------------------------------------
(* Theorems *)

LEMMA DurableInit == PublicationInit => DurableInv
<1>. SUFFICES ASSUME PublicationInit PROVE DurableInv OBVIOUS
<1>1. Visible = {} BY DEF PublicationInit, Visible
<1>2. PublicationTypeOK BY <1>1 DEF PublicationInit, PublicationTypeOK, Stages, Phases
<1>3. SelectedIsWhole /\ CheckedIsDurable BY <1>1 DEF SelectedIsWhole, CheckedIsDurable
<1>4. \A c \in Callers : Progress(c)
  BY DEF PublicationInit, Progress, AfterArtifact, AfterSync, AfterRootSync, AfterReceipt, AfterReceiptSync
<1>. QED BY <1>2, <1>3, <1>4 DEF DurableInv

LEMMA DurableNext == DurableInv /\ [PublicationNext]_vars => DurableInv'
<1>. SUFFICES ASSUME DurableInv, [PublicationNext]_vars PROVE DurableInv' OBVIOUS
<1>1. ASSUME NEW c \in Callers, CallStep(c) PROVE DurableInv'
  BY <1>1, BeginStep, InstallStep, InspectStep, RereadStep, VerifyStep, SyncDirectoryStep, SystemCallFailsStep
     DEF CallStep
<1>2. ASSUME UNCHANGED vars PROVE DurableInv'
  BY <1>2 DEF vars, DurableInv, PublicationTypeOK, SelectedIsWhole, CheckedIsDurable, Progress, Visible
<1>. QED BY <1>1, <1>2, SubmitStep, KillStep, PowerLossStep DEF PublicationNext

\* Every variable keeps its type, and no name is durable that is not visible.
THEOREM PublicationTyped == PublicationSpec => []PublicationTypeOK
<1>1. DurableInv => PublicationTypeOK BY DEF DurableInv
<1>. QED BY <1>1, DurableInit, DurableNext, PTL DEF PublicationSpec

\* For any number of processes, callers and artifacts and after any crashes, a visible
\* selector leads to an artifact and a receipt that no power loss removes.
THEOREM SelectorsLeadToWholeGenerations == PublicationSpec => []SelectedIsWhole
<1>1. DurableInv => SelectedIsWhole BY DEF DurableInv
<1>. QED BY <1>1, DurableInit, DurableNext, PTL DEF PublicationSpec

\* A receipt that says CHECKED is never visible before its artifact is durable.
THEOREM ReceiptsClaimDurability == PublicationSpec => []CheckedIsDurable
<1>1. DurableInv => CheckedIsDurable BY DEF DurableInv
<1>. QED BY <1>1, DurableInit, DurableNext, PTL DEF PublicationSpec

-----------------------------------------------------------------------------
(* Refinement *)

Exposed == {a \in Artifacts : Complete(a)}
Whole(a) == {Directory(a), Artifact(a), Receipt(a), Selector(a)}
Settled == {a \in Artifacts : Complete(a) /\ Whole(a) \subseteq durable}

LEMMA CompleteAfter ==
    ASSUME NEW a \in Artifacts
    PROVE  /\ Complete(a)' <=> (disk'[Artifact(a)] = a /\ disk'[Receipt(a)] = a /\ disk'[Selector(a)] = a)
           /\ Whole(a)' = Whole(a)
BY DEF Complete, Whole, Directory, Artifact, Receipt, Selector

\* A step that keeps disk and epoch and only settles names is a Settle or a stutter.
LEMMA SettlingStep ==
    ASSUME disk' = disk, durable \subseteq durable'
    PROVE  Exposed' = Exposed /\ Settled' \subseteq Exposed /\ Settled \subseteq Settled'
<1>1. \A a \in Artifacts : (Complete(a)' <=> Complete(a)) /\ Whole(a)' = Whole(a)
  BY CompleteAfter DEF Complete
<1>. QED BY <1>1 DEF Exposed, Settled

LEMMA KeepsStore ==
    ASSUME disk' = disk, durable' = durable, epoch' = epoch
    PROVE  UNCHANGED <<Exposed, Settled, epoch>>
<1>1. \A a \in Artifacts : (Complete(a)' <=> Complete(a)) /\ Whole(a)' = Whole(a)
  BY CompleteAfter DEF Complete
<1>. QED BY <1>1 DEF Exposed, Settled

\* Linking one absent name completes at most the generation it belongs to, which is
\* not durable yet.
LEMMA InstallExposes ==
    ASSUME DurableInv, NEW c \in Callers, Install(c)
    PROVE  /\ epoch' = epoch /\ Settled' = Settled
           /\ Exposed' = Exposed \/ \E a \in Artifacts : a \notin Exposed /\ Exposed' = Exposed \cup {a}
<1>. PublicationTypeOK BY DEF DurableInv
<1>1. CASE disk[Target(c)] # Absent
  <2>1. disk' = disk /\ durable' = durable /\ epoch' = epoch BY <1>1 DEF Install
  <2>. QED BY <2>1, KeepsStore
<1>2. CASE disk[Target(c)] = Absent
  <2>1. Target(c) \in Names /\ what[c] \in Artifacts BY TargetNamed DEF Install
  <2>2. disk' = [disk EXCEPT ![Target(c)] = what[c]] /\ durable' = durable /\ epoch' = epoch
    BY <1>2 DEF Install
  <2>3. \A b \in Artifacts : b # what[c] => Target(c) \notin {Artifact(b), Receipt(b), Selector(b)}
    BY DEF Target, Artifact, Receipt, Selector
  <2>4. ASSUME NEW b \in Artifacts
        PROVE  /\ Complete(b) => Complete(b)'
               /\ Complete(b)' /\ ~ Complete(b) => b = what[c] /\ ~ (Whole(b) \subseteq durable)
    <3>1. {Artifact(b), Receipt(b), Selector(b)} \subseteq Names BY NamesTyped
    <3>2. CASE Target(c) \notin {Artifact(b), Receipt(b), Selector(b)}
      <4>1. /\ disk'[Artifact(b)] = disk[Artifact(b)] /\ disk'[Receipt(b)] = disk[Receipt(b)]
            /\ disk'[Selector(b)] = disk[Selector(b)]
        BY <2>1, <2>2, <3>1, <3>2 DEF PublicationTypeOK
      <4>. QED BY <4>1, CompleteAfter DEF Complete
    <3>3. CASE Target(c) \in {Artifact(b), Receipt(b), Selector(b)}
      <4>1. ~ Complete(b) BY <1>2, <3>3, PublicationConstants DEF Complete
      <4>2. Target(c) \notin durable BY <1>2 DEF PublicationTypeOK, Visible
      <4>3. ~ (Whole(b) \subseteq durable) BY <3>3, <4>2 DEF Whole
      <4>. QED BY <2>3, <3>3, <4>1, <4>3
    <3>. QED BY <3>2, <3>3
  <2>5. Settled' = Settled
    <3>1. \A b \in Artifacts : (Complete(b)' /\ Whole(b)' \subseteq durable') <=> (Complete(b) /\ Whole(b) \subseteq durable)
      BY <2>2, <2>4, CompleteAfter
    <3>. QED BY <3>1 DEF Settled
  <2>6. CASE Complete(what[c]) \/ \A b \in Artifacts : Complete(b)' => Complete(b)
    <3>1. \A b \in Artifacts : Complete(b)' <=> Complete(b) BY <2>4, <2>6
    <3>. QED BY <2>2, <2>5, <3>1 DEF Exposed
  <2>7. CASE ~ Complete(what[c]) /\ \E b \in Artifacts : Complete(b)' /\ ~ Complete(b)
    <3>1. PICK b \in Artifacts : Complete(b)' /\ ~ Complete(b) BY <2>7
    <3>2. \A d \in Artifacts : Complete(d)' <=> (Complete(d) \/ d = b) BY <2>4, <3>1
    <3>3. Exposed' = Exposed \cup {b} /\ b \notin Exposed BY <3>1, <3>2 DEF Exposed
    <3>. QED BY <2>2, <2>5, <3>3
  <2>. QED BY <2>6, <2>7
<1>. QED BY <1>1, <1>2

\* safeTarget makes a directory, which is no file of a generation.
LEMMA BeginKeepsStore ==
    ASSUME DurableInv, NEW c \in Callers, Begin(c)
    PROVE  UNCHANGED <<Exposed, Settled, epoch>>
<1>. PublicationTypeOK BY DEF DurableInv
<1>1. durable' = durable /\ epoch' = epoch BY DEF Begin
<1>2. \A b \in Artifacts : /\ disk'[Artifact(b)] = disk[Artifact(b)] /\ disk'[Receipt(b)] = disk[Receipt(b)]
                           /\ disk'[Selector(b)] = disk[Selector(b)]
  <2>. SUFFICES ASSUME NEW n \in Names, n[1] # "directory" PROVE disk'[n] = disk[n]
    BY NamesTyped DEF Artifact, Receipt, Selector
  <2>1. disk' = disk \/ disk' = [disk EXCEPT ![Directory(what[c])] = what[c]] BY DEF Begin
  <2>. QED BY <2>1 DEF PublicationTypeOK, Directory
<1>3. \A b \in Artifacts : (Complete(b)' <=> Complete(b)) /\ Whole(b)' = Whole(b)
  BY <1>2, CompleteAfter DEF Complete
<1>. QED BY <1>1, <1>3 DEF Exposed, Settled

\* A power loss takes no settled generation, and whatever it leaves has settled.
LEMMA PowerLossRefines ==
    ASSUME DurableInv, PowerLoss
    PROVE  Exposed' \subseteq Exposed /\ Settled \subseteq Exposed' /\ Settled' = Exposed'
<1>. PublicationTypeOK BY DEF DurableInv
<1>1. ASSUME NEW b \in Artifacts, Complete(b)'
      PROVE  Complete(b) /\ Whole(b)' \subseteq durable'
  <2>1. disk'[Artifact(b)] = b /\ disk'[Receipt(b)] = b /\ disk'[Selector(b)] = b
    BY <1>1, CompleteAfter
  <2>2. {Artifact(b), Receipt(b), Selector(b)} \subseteq Visible'
    <3>1. b # Absent BY PublicationConstants
    <3>2. {Artifact(b), Receipt(b), Selector(b)} \subseteq Names BY NamesTyped
    <3>. QED BY <2>1, <3>1, <3>2 DEF Visible
  <2>3. Directory(b) \in durable' BY <2>2, PowerLossLeaves
  <2>4. disk[Artifact(b)] = b /\ disk[Receipt(b)] = b /\ disk[Selector(b)] = b
    BY <2>1, <2>2, PowerLossLeaves
  <2>5. Whole(b) \subseteq durable' BY <2>2, <2>3, PowerLossLeaves DEF Whole
  <2>. QED BY <2>4, <2>5, CompleteAfter DEF Complete
<1>2. ASSUME NEW b \in Artifacts, Complete(b), Whole(b) \subseteq durable
      PROVE  Complete(b)'
  <2>1. Directory(b) \in durable /\ Artifact(b) \in durable /\ Receipt(b) \in durable /\ Selector(b) \in durable
    BY <1>2 DEF Whole
  <2>2. Artifact(b) \in durable' /\ Receipt(b) \in durable' BY <2>1, PowerLossLeaves
  <2>3. Selector(b) \in durable' BY <2>1, PowerLossLeaves DEF Selector, InGeneration
  <2>. QED BY <1>2, <2>2, <2>3, PowerLossLeaves, CompleteAfter DEF Complete
<1>. QED BY <1>1, <1>2 DEF Exposed, Settled

\* The publisher implements the generation store: every step exposes one generation,
\* settles some, is a power loss that takes no settled one, or changes nothing.
THEOREM PublicationRefines == PublicationSpec => ImplementsGenerationStore
<1>1. PublicationInit => Generations!StoreInit
  <2>. SUFFICES ASSUME PublicationInit PROVE Generations!StoreInit OBVIOUS
  <2>1. \A a \in Artifacts : ~ Complete(a)
    BY NamesTyped, PublicationConstants DEF PublicationInit, Complete
  <2>. QED BY <2>1 DEF Generations!StoreInit, PublicationInit
<1>2. DurableInv /\ [PublicationNext]_vars => [Generations!StoreNext]_(Generations!storeVars)
  <2>. SUFFICES ASSUME DurableInv, [PublicationNext]_vars
                PROVE  Generations!StoreNext \/ UNCHANGED <<Exposed, Settled, epoch>>
    BY DEF Generations!storeVars, Exposed, Settled, Whole
  <2>. PublicationTypeOK BY DEF DurableInv
  <2>1. ASSUME disk' = disk, durable' = durable, epoch' = epoch
        PROVE  UNCHANGED <<Exposed, Settled, epoch>>
    BY <2>1, KeepsStore
  <2>2. ASSUME disk' = disk, durable \subseteq durable', epoch' = epoch
        PROVE  Generations!StoreNext
    <3>1. Exposed' = Exposed /\ Settled' \subseteq Exposed /\ Settled \subseteq Settled'
      BY <2>2, SettlingStep
    <3>2. Generations!Settle
      BY <2>2, <3>1 DEF Generations!Settle, Exposed, Settled, Whole
    <3>. QED BY <3>2 DEF Generations!StoreNext
  <2>3. ASSUME NEW c \in Callers, Install(c)
        PROVE  Generations!StoreNext \/ UNCHANGED <<Exposed, Settled, epoch>>
    <3>1. CASE Exposed' = Exposed BY <2>3, <3>1, InstallExposes
    <3>2. CASE \E a \in Artifacts : a \notin Exposed /\ Exposed' = Exposed \cup {a}
      <4>1. PICK a \in Artifacts : a \notin Exposed /\ Exposed' = Exposed \cup {a} BY <3>2
      <4>2. Settled' = Settled /\ epoch' = epoch BY <2>3, InstallExposes
      <4>3. Generations!Expose(a)
        BY <4>1, <4>2 DEF Generations!Expose, Exposed, Settled, Whole
      <4>. QED BY <4>3 DEF Generations!StoreNext
    <3>. QED BY <2>3, <3>1, <3>2, InstallExposes
  <2>4. ASSUME PowerLoss PROVE Generations!StoreNext
    <3>1. epoch' = ~ epoch BY <2>4 DEF PowerLoss
    <3>2. Exposed' \subseteq Exposed /\ Settled \subseteq Exposed' /\ Settled' = Exposed'
      BY <2>4, PowerLossRefines
    <3>3. Generations!PowerLossTakes
      BY <3>1, <3>2 DEF Generations!PowerLossTakes, Exposed, Settled, Whole
    <3>. QED BY <3>3 DEF Generations!StoreNext
  <2>5. ASSUME NEW c \in Callers, CallStep(c)
        PROVE  Generations!StoreNext \/ UNCHANGED <<Exposed, Settled, epoch>>
    <3>1. CASE Begin(c) BY <3>1, BeginKeepsStore
    <3>2. CASE Install(c) BY <3>2, <2>3
    <3>3. CASE Inspect(c) \/ Reread(c) \/ SystemCallFails(c)
      <4>1. disk' = disk /\ durable' = durable /\ epoch' = epoch
        BY <3>3 DEF Inspect, Reread, SystemCallFails
      <4>. QED BY <4>1, <2>1
    <3>4. ASSUME NEW synced \in BOOLEAN, NEW verified \in BOOLEAN, Verify(c, synced, verified)
          PROVE  Generations!StoreNext
      <4>1. disk' = disk /\ durable \subseteq durable' /\ epoch' = epoch BY <3>4 DEF Verify
      <4>. QED BY <4>1, <2>2
    <3>5. CASE SyncDirectory(c)
      <4>1. disk' = disk /\ durable \subseteq durable' /\ epoch' = epoch BY <3>5 DEF SyncDirectory
      <4>. QED BY <4>1, <2>2
    <3>. QED BY <2>5, <3>1, <3>2, <3>3, <3>4, <3>5 DEF CallStep
  <2>6. ASSUME NEW c \in Callers, NEW j \in Jobs, NEW a \in Artifacts, NEW t \in Selectors, Submit(c, j, a, t)
        PROVE  UNCHANGED <<Exposed, Settled, epoch>>
    <3>1. disk' = disk /\ durable' = durable /\ epoch' = epoch BY <2>6 DEF Submit
    <3>. QED BY <3>1, <2>1
  <2>7. ASSUME NEW p \in Processes, Kill(p) PROVE UNCHANGED <<Exposed, Settled, epoch>>
    <3>1. disk' = disk /\ durable' = durable /\ epoch' = epoch BY <2>7 DEF Kill
    <3>. QED BY <3>1, <2>1
  <2>8. ASSUME UNCHANGED vars PROVE UNCHANGED <<Exposed, Settled, epoch>>
    <3>1. disk' = disk /\ durable' = durable /\ epoch' = epoch BY <2>8 DEF vars
    <3>. QED BY <3>1, <2>1
  <2>. QED BY <2>4, <2>5, <2>6, <2>7, <2>8 DEF PublicationNext
<1>. QED BY <1>1, <1>2, DurableInit, DurableNext, PTL
     DEF PublicationSpec, ImplementsGenerationStore, Generations!StoreSpec
-----------------------------------------------------------------------------
(***************************************************************************)
(* What callers were told.  A receipt stays true because names never       *)
(* change their bytes while a caller lives, and two receipts for one       *)
(* selector are impossible because the second link found the name taken.   *)
(* For torn generations the invariant must speak of selectors that are not *)
(* DURABLE: a power loss may take one that was installed and not synced,   *)
(* while the call that wrote the artifact is still running.                *)
(***************************************************************************)

\* Stages of a publication under a client's selector, and those after its first file.
OutputStages == {"flat", "artifact", "receipt", "selector"} \cup SyncStages
AfterFlat == {"artifact", "receipt", "selector"} \cup SyncStages

\* The call has linked the artifact of its generation.
LinkedArtifact(c) == stage[c] \in AfterArtifact \/ (stage[c] = "artifact" /\ phase[c] = "reread")

\* Where a call is says which job it does and which names it has made visible.
Place(c) ==
    /\ stage[c] \in OutputStages => job[c] = "output"
    /\ stage[c] \in {"object", "bundle"} => job[c] = stage[c]
    /\ stage[c] # "done" => out[c] = None
    /\ phase[c] = "inspect" => stage[c] = "artifact"
    /\ phase[c] # "begin" => stage[c] \in FileStages
    /\ stage[c] \in FileStages /\ phase[c] = "reread" => Target(c) \in Visible
    /\ stage[c] = "sync selector" => Selector(what[c]) \in Visible
    /\ stage[c] \in AfterFlat \/ (stage[c] = "flat" /\ phase[c] = "reread") => Flat(where[c]) \in wrote[c]
    /\ \A n \in wrote[c] : n[1] = "artifact" => n = Artifact(what[c]) /\ LinkedArtifact(c)

\* The call has its bytes under the name its client chose.
Holds(c) == job[c] = "output" /\ (out[c] = "receipt" \/ Flat(where[c]) \in wrote[c])
Held(c) == Holds(c) => where[c] \in Selectors /\ what[c] \in Artifacts /\ disk[Flat(where[c])] = what[c]
Apart == \A c, d \in Callers : c # d /\ Holds(c) /\ Holds(d) => where[c] # where[d]

\* What a receipt says of the disk.
Told(c) ==
    out[c] = "receipt" =>
        /\ what[c] \in Artifacts
        /\ job[c] = "output" => Complete(what[c])
        /\ job[c] \in {"object", "bundle"} => disk[<<job[c], what[c]>>] = what[c]

\* Every name but a client's own holds the bytes it is made of, or nothing.
Content == \A n \in Names : n[1] # "flat" => disk[n] \in {Absent, n[2]}

\* TornExplained with the selector not durable in place of not visible: a power
\* loss may take a selector that was installed and not synced.
Writing(a) == \E c \in Callers : Artifact(a) \in wrote[c]
Explained ==
    syncs => \A a \in Artifacts :
                 Artifact(a) \in Visible /\ Selector(a) \notin durable => a \in spoiled \/ Writing(a)

AnswersInv ==
    /\ Content
    /\ Apart
    /\ Explained
    /\ \A c \in Callers : Place(c) /\ Held(c) /\ Told(c)

\* No name changes its bytes.
Grows == \A n \in Names : disk[n] # Absent => disk'[n] = disk[n]

LEMMA GrowsVisible ==
    ASSUME Grows
    PROVE  Visible \subseteq Visible'
BY DEF Grows, Visible

\* A caller that does not move keeps what it knows while names only appear.
LEMMA StaysPut ==
    ASSUME PublicationTypeOK, Grows, NEW d \in Callers, Place(d), Held(d), Told(d),
           job'[d] = job[d], what'[d] = what[d], where'[d] = where[d], stage'[d] = stage[d],
           phase'[d] = phase[d], out'[d] = out[d], wrote'[d] = wrote[d]
    PROVE  Place(d)' /\ Held(d)' /\ Told(d)' /\ (Holds(d)' <=> Holds(d))
<1>1. Target(d)' = Target(d) /\ LinkedArtifact(d)' = LinkedArtifact(d)
  BY DEF Target, LinkedArtifact
<1>2. Place(d)'
  BY <1>1, GrowsVisible DEF Place, Selector, Flat, Artifact
<1>3. Holds(d)' <=> Holds(d)
  BY DEF Holds, Flat
<1>4. Held(d)'
  <2>. SUFFICES ASSUME Holds(d) PROVE Held(d)' BY <1>3 DEF Held
  <2>1. where[d] \in Selectors /\ what[d] \in Artifacts /\ disk[Flat(where[d])] = what[d]
    BY DEF Held
  <2>2. disk'[Flat(where[d])] = what[d]
    BY <2>1, NamesTyped, PublicationConstants DEF Grows
  <2>. QED BY <2>1, <2>2 DEF Held, Flat
<1>5. Told(d)'
  <2>. SUFFICES ASSUME out[d] = "receipt" PROVE Told(d)' BY DEF Told
  <2>1. what[d] \in Artifacts /\ what[d] # Absent BY PublicationConstants DEF Told
  <2>2. Complete(what[d]) => Complete(what[d])'
    BY <2>1, NamesTyped DEF Complete, Grows, Artifact, Receipt, Selector
  <2>3. job[d] \in {"object", "bundle"} => <<job[d], what[d]>> \in Names BY <2>1 DEF Names
  <2>4. job[d] \in {"object", "bundle"} => disk'[<<job[d], what[d]>>] = what[d]
    BY <2>1, <2>3 DEF Told, Grows
  <2>5. job[d] = "output" => Complete(what[d])'
    BY <2>2 DEF Told
  <2>. QED BY <2>1, <2>4, <2>5 DEF Told, Complete, Artifact, Receipt, Selector
<1>. QED BY <1>2, <1>3, <1>4, <1>5

\* Two calls stay apart when no caller but c holds a name it did not hold, and c's
\* is nobody else's.
LEMMA ApartKept ==
    ASSUME Apart, NEW c \in Callers,
           \A d \in Callers : d # c /\ Holds(d)' => Holds(d) /\ where'[d] = where[d],
           Holds(c)' => \/ Holds(c) /\ where'[c] = where[c]
                        \/ \A d \in Callers : d # c /\ Holds(d) => where[d] # where'[c]
    PROVE  Apart'
BY DEF Apart

\* A torn generation stays explained while its writer goes on, gives up or has
\* settled the selector.
LEMMA ExplainedKept ==
    ASSUME Explained, syncs' = syncs, durable \subseteq durable', spoiled \subseteq spoiled',
           \A a \in Artifacts : Artifact(a) \in Visible' => Artifact(a) \in Visible \/ Writing(a)',
           \A a \in Artifacts : Writing(a) =>
               Writing(a)' \/ a \in spoiled' \/ (syncs => Selector(a) \in durable')
    PROVE  Explained'
BY DEF Explained, Artifact, Selector

\* The writer of a generation is the call whose bytes it has.
LEMMA WriterKnown ==
    ASSUME NEW c \in Callers, Place(c), NEW a \in Artifacts, Artifact(a) \in wrote[c]
    PROVE  a = what[c] /\ LinkedArtifact(c) /\ Abandons(c)
<1>1. Artifact(a)[1] = "artifact" BY DEF Artifact
<1>2. Artifact(a) = Artifact(what[c]) /\ LinkedArtifact(c) BY <1>1 DEF Place
<1>3. a = what[c] BY <1>2 DEF Artifact
<1>. QED BY <1>2, <1>3 DEF Abandons

\* A call ends with an answer: what it says must be so, and a generation it leaves
\* must be spoiled or settled.
LEMMA AnswerTells ==
    ASSUME DurableInv, AnswersInv, NEW c \in Callers, NEW o \in {"receipt", "exists", "failed"}, NEW f,
           stage' = [stage EXCEPT ![c] = "done"], phase' = [phase EXCEPT ![c] = "begin"],
           out' = [out EXCEPT ![c] = o], wrote' = [wrote EXCEPT ![c] = {}],
           UNCHANGED <<syncs, disk, job, what, where>>,
           durable \subseteq durable', spoiled \subseteq spoiled',
           Abandons(c) => what[c] \in spoiled' \/ (syncs => Selector(what[c]) \in durable'),
           o = "receipt" => /\ what[c] \in Artifacts
                            /\ job[c] = "output" => Holds(c) /\ Complete(what[c])
                            /\ job[c] \in {"object", "bundle"} => disk[<<job[c], what[c]>>] = what[c]
    PROVE  AnswersInv'
<1>. PublicationTypeOK BY DEF DurableInv
<1>1. Grows /\ Visible' = Visible BY DEF Grows, Visible
<1>2. ASSUME NEW d \in Callers, d # c
      PROVE  Place(d)' /\ Held(d)' /\ Told(d)' /\ (Holds(d)' <=> Holds(d)) /\ where'[d] = where[d]
  BY <1>1, <1>2, StaysPut DEF AnswersInv, PublicationTypeOK
<1>3. stage'[c] = "done" /\ phase'[c] = "begin" /\ out'[c] = o /\ wrote'[c] = {}
  BY DEF PublicationTypeOK
<1>4. Place(c)'
  BY <1>3 DEF Place, OutputStages, AfterFlat, SyncStages, FileStages
<1>5. Holds(c)' => Holds(c) /\ o = "receipt"
  BY <1>3 DEF Holds
<1>6. Held(c)'
  BY <1>5 DEF Held, AnswersInv, Flat
<1>7. Told(c)'
  BY <1>3 DEF Told, Complete, Artifact, Receipt, Selector
<1>8. Content'
  BY DEF AnswersInv, Content, Names
<1>9. Apart'
  BY <1>2, <1>5, ApartKept DEF AnswersInv
<1>10. Explained'
  <2>1. ASSUME NEW a \in Artifacts, Writing(a)
        PROVE  Writing(a)' \/ a \in spoiled' \/ (syncs => Selector(a) \in durable')
    <3>1. PICK d \in Callers : Artifact(a) \in wrote[d] BY <2>1 DEF Writing
    <3>2. CASE d # c
      <4>1. wrote'[d] = wrote[d] BY <3>2 DEF PublicationTypeOK
      <4>. QED BY <3>1, <4>1 DEF Writing, Artifact
    <3>3. CASE d = c
      BY <3>1, <3>3, WriterKnown DEF AnswersInv
    <3>. QED BY <3>2, <3>3
  <2>. QED BY <1>1, <2>1, ExplainedKept DEF AnswersInv, Artifact
<1>. QED BY <1>2, <1>4, <1>6, <1>7, <1>8, <1>9, <1>10 DEF AnswersInv

\* A visible name that is not a client's own holds its own bytes.
LEMMA VisibleHolds ==
    ASSUME Content, NEW n \in Visible, n[1] # "flat"
    PROVE  disk[n] = n[2]
BY DEF Content, Visible

\* A call goes on to its next file or sync, or gets its receipt.
LEMMA AdvanceTells ==
    ASSUME DurableInv, AnswersInv, NEW c \in Callers, Advance(c), stage[c] \notin {"idle", "done"},
           stage[c] \in FileStages => phase[c] = "reread",
           UNCHANGED <<syncs, disk>>, durable \subseteq durable',
           syncs /\ stage[c] = "sync selector" => Selector(what[c]) \in durable'
    PROVE  AnswersInv'
<1>. PublicationTypeOK /\ Place(c) /\ Held(c) /\ Told(c) /\ Progress(c) BY DEF DurableInv, AnswersInv
<1>1. Grows /\ Visible' = Visible BY DEF Grows, Visible
<1>2. what[c] \in Artifacts BY DEF Progress
<1>3. stage[c] \in FileStages \cup SyncStages BY DEF PublicationTypeOK, Stages
<1>4. CASE stage[c] \in {"sync selector", "object", "bundle"}
  <2>1. NextStage(stage[c]) = "done" BY <1>4, NextStages
  <2>2. /\ stage' = [stage EXCEPT ![c] = "done"] /\ phase' = [phase EXCEPT ![c] = "begin"]
        /\ out' = [out EXCEPT ![c] = "receipt"] /\ wrote' = [wrote EXCEPT ![c] = {}]
        /\ UNCHANGED <<job, what, where, spoiled>>
    BY <2>1 DEF Advance
  <2>3. Abandons(c) => (syncs => Selector(what[c]) \in durable')
    <3>. SUFFICES ASSUME Abandons(c) PROVE stage[c] = "sync selector" OBVIOUS
    <3>1. LinkedArtifact(c) BY <1>2, WriterKnown DEF Abandons
    <3>. QED BY <1>4, <3>1 DEF LinkedArtifact, AfterArtifact
  <2>4. job[c] = "output" => Holds(c) /\ Complete(what[c])
    <3>. SUFFICES ASSUME job[c] = "output" PROVE Holds(c) /\ Complete(what[c]) OBVIOUS
    <3>1. stage[c] = "sync selector" BY <1>4 DEF Place
    <3>2. Flat(where[c]) \in wrote[c] /\ Selector(what[c]) \in Visible
      BY <3>1 DEF Place, AfterFlat, SyncStages
    <3>3. Artifact(what[c]) \in Visible /\ Receipt(what[c]) \in Visible
      BY <3>1 DEF Progress, AfterArtifact, AfterReceipt
    <3>4. /\ Artifact(what[c])[1] # "flat" /\ Receipt(what[c])[1] # "flat" /\ Selector(what[c])[1] # "flat"
          /\ Artifact(what[c])[2] = what[c] /\ Receipt(what[c])[2] = what[c] /\ Selector(what[c])[2] = what[c]
      BY DEF Artifact, Receipt, Selector
    <3>5. Complete(what[c]) BY <3>2, <3>3, <3>4, VisibleHolds DEF Complete, AnswersInv
    <3>. QED BY <3>2, <3>5 DEF Holds
  <2>5. job[c] \in {"object", "bundle"} => disk[<<job[c], what[c]>>] = what[c]
    <3>. SUFFICES ASSUME job[c] \in {"object", "bundle"} PROVE disk[<<job[c], what[c]>>] = what[c] OBVIOUS
    <3>1. stage[c] = job[c] /\ stage[c] \in FileStages
      BY <1>4 DEF Place, OutputStages, SyncStages, FileStages
    <3>2. Target(c) \in Visible /\ Target(c) = <<job[c], what[c]>>
      BY <3>1 DEF Place, Target
    <3>. QED BY <3>2, VisibleHolds DEF AnswersInv
  <2>. QED BY <1>2, <2>2, <2>3, <2>4, <2>5, AnswerTells
<1>5. CASE stage[c] \in {"flat", "artifact", "sync artifact", "sync directory", "receipt",
                         "sync receipt", "selector"}
  <2>. DEFINE next == NextStage(stage[c])
  <2>1. /\ next \in AfterFlat /\ next # "done"
        /\ (next = "sync selector" => stage[c] = "selector")
        /\ (stage[c] \in AfterArtifact \/ stage[c] = "artifact" => next \in AfterArtifact)
    BY <1>5, NextStages DEF AfterFlat, SyncStages, AfterArtifact
  <2>2. /\ stage' = [stage EXCEPT ![c] = next] /\ phase' = [phase EXCEPT ![c] = "begin"]
        /\ out' = out /\ wrote' = wrote /\ UNCHANGED <<job, what, where, spoiled>>
    BY <2>1 DEF Advance, PublicationTypeOK
  <2>. HIDE DEF next
  <2>3. ASSUME NEW d \in Callers, d # c
        PROVE  Place(d)' /\ Held(d)' /\ Told(d)' /\ (Holds(d)' <=> Holds(d)) /\ where'[d] = where[d]
    BY <1>1, <2>2, <2>3, StaysPut DEF AnswersInv, PublicationTypeOK
  <2>4. /\ stage'[c] = next /\ phase'[c] = "begin" /\ out'[c] = out[c] /\ wrote'[c] = wrote[c]
        /\ job'[c] = job[c] /\ what'[c] = what[c] /\ where'[c] = where[c]
    BY <2>2 DEF PublicationTypeOK
  <2>5. Place(c)'
    <3>1. job[c] = "output" /\ out[c] = None
      BY <1>5 DEF Place, OutputStages, SyncStages
    <3>2. Flat(where[c]) \in wrote[c]
      BY <1>5 DEF Place, AfterFlat, SyncStages, FileStages
    <3>3. next = "sync selector" => Selector(what[c]) \in Visible
      <4>. SUFFICES ASSUME next = "sync selector" PROVE Selector(what[c]) \in Visible OBVIOUS
      <4>1. stage[c] = "selector" /\ Target(c) \in Visible
        BY <2>1 DEF Place, FileStages
      <4>. QED BY <4>1 DEF Target, Selector
    <3>4. LinkedArtifact(c) => LinkedArtifact(c)'
      BY <2>1, <2>4 DEF LinkedArtifact
    <3>5. next \in OutputStages /\ next \notin {"object", "bundle", "flat"}
      BY <2>1 DEF OutputStages, AfterFlat, SyncStages
    <3>. QED BY <1>1, <2>1, <2>4, <3>1, <3>2, <3>3, <3>4, <3>5
         DEF Place, Flat, Selector, Artifact
  <2>6. Held(c)' /\ Told(c)' /\ (Holds(c)' <=> Holds(c))
    BY <1>1, <2>2 DEF Held, Told, Holds, Complete, Flat, Artifact, Receipt, Selector
  <2>7. Content' BY DEF AnswersInv, Content, Names
  <2>8. Apart' BY <2>2, <2>3, <2>6, ApartKept DEF AnswersInv
  <2>9. Explained'
    <3>1. \A a \in Artifacts : Writing(a)' <=> Writing(a) BY <2>2 DEF Writing, Artifact
    <3>. QED BY <1>1, <2>2, <3>1, ExplainedKept DEF AnswersInv, Artifact
  <2>. QED BY <2>3, <2>5, <2>6, <2>7, <2>8, <2>9 DEF AnswersInv
<1>. QED BY <1>3, <1>4, <1>5 DEF FileStages, SyncStages

\* A call that gives up half way spoils the generation it began.
LEMMA SpoilsItsOwn ==
    ASSUME NEW c \in Callers
    PROVE  spoiled \subseteq SpoiledBy({c}) /\ (Abandons(c) => what[c] \in SpoiledBy({c}))
BY DEF SpoiledBy

LEMMA FailTells ==
    ASSUME DurableInv, AnswersInv, NEW c \in Callers, Fail(c), UNCHANGED <<syncs, disk>>,
           durable \subseteq durable'
    PROVE  AnswersInv'
BY AnswerTells, SpoilsItsOwn DEF Fail, Answer

\* A generation another call began: this one linked no artifact.
LEMMA InspectTells ==
    ASSUME DurableInv, AnswersInv, NEW c \in Callers, Inspect(c)
    PROVE  AnswersInv'
<1>. Place(c) /\ Progress(c) BY DEF AnswersInv, DurableInv
<1>1. stage[c] = "artifact" /\ phase[c] = "inspect" BY DEF Inspect, Place
<1>2. what[c] \in Artifacts BY <1>1 DEF Progress
<1>3. job[c] = "output" /\ Holds(c)
  BY <1>1 DEF Place, Holds, OutputStages, AfterFlat
<1>4. ~ Abandons(c)
  BY <1>1, <1>2, WriterKnown DEF Abandons, LinkedArtifact, AfterArtifact
<1>. DEFINE o == IF Complete(what[c]) THEN "receipt" ELSE "exists"
<1>5. Answer(c, o, fault[c]) /\ UNCHANGED <<syncs, disk, durable, spoiled>> BY DEF Inspect
<1>6. o \in {"receipt", "exists", "failed"} /\ (o = "receipt" => Complete(what[c])) OBVIOUS
<1>. HIDE DEF o
<1>7. /\ stage' = [stage EXCEPT ![c] = "done"] /\ phase' = [phase EXCEPT ![c] = "begin"]
      /\ out' = [out EXCEPT ![c] = o] /\ wrote' = [wrote EXCEPT ![c] = {}]
      /\ UNCHANGED <<job, what, where>>
  BY <1>5 DEF Answer
<1>. QED BY <1>2, <1>3, <1>4, <1>5, <1>6, <1>7, AnswerTells

\* A step of c that changes only its phase, to one that says no more of the disk.
LEMMA PhaseTells ==
    ASSUME DurableInv, AnswersInv, NEW c \in Callers, NEW p \in {"install", "inspect"},
           phase' = [phase EXCEPT ![c] = p], phase[c] # "reread", stage[c] \in FileStages,
           p = "inspect" => stage[c] = "artifact",
           UNCHANGED <<syncs, durable, job, what, where, stage, out, wrote, spoiled>>,
           Grows, Content', \A a \in Artifacts : Artifact(a) \in Visible' => Artifact(a) \in Visible
    PROVE  AnswersInv'
<1>. PublicationTypeOK /\ Place(c) /\ Held(c) /\ Told(c) BY DEF DurableInv, AnswersInv
<1>1. ASSUME NEW d \in Callers, d # c
      PROVE  Place(d)' /\ Held(d)' /\ Told(d)' /\ (Holds(d)' <=> Holds(d))
  BY <1>1, StaysPut DEF AnswersInv, PublicationTypeOK
<1>2. phase'[c] = p BY DEF PublicationTypeOK
<1>3. Place(c)'
  <2>1. LinkedArtifact(c) => LinkedArtifact(c)' BY DEF LinkedArtifact
  <2>. QED BY <1>2, <2>1, GrowsVisible DEF Place, Selector, Flat, Artifact
<1>4. Holds(c)' <=> Holds(c) BY DEF Holds, Flat
<1>5. Held(c)'
  <2>. SUFFICES ASSUME Holds(c) PROVE Held(c)' BY <1>4 DEF Held
  <2>1. where[c] \in Selectors /\ what[c] \in Artifacts /\ disk[Flat(where[c])] = what[c]
    BY DEF Held
  <2>2. disk'[Flat(where[c])] = what[c]
    BY <2>1, NamesTyped, PublicationConstants DEF Grows
  <2>. QED BY <2>1, <2>2 DEF Held, Flat
<1>6. Told(c)'
  <2>1. out[c] # "receipt"
    BY PublicationConstants DEF Place, FileStages
  <2>. QED BY <2>1 DEF Told
<1>7. Apart' BY <1>1, <1>4, ApartKept DEF AnswersInv
<1>8. Explained'
  <2>1. \A a \in Artifacts : Writing(a)' <=> Writing(a) BY DEF Writing, Artifact
  <2>. QED BY <2>1, ExplainedKept DEF AnswersInv, Artifact
<1>. QED BY <1>1, <1>3, <1>5, <1>6, <1>7, <1>8 DEF AnswersInv

LEMMA ExistsTells ==
    ASSUME DurableInv, AnswersInv, NEW c \in Callers, Exists(c), stage[c] \in FileStages,
           phase[c] # "reread", disk[Target(c)] # Absent, UNCHANGED <<syncs, disk, durable>>
    PROVE  AnswersInv'
<1>. Place(c) /\ Progress(c) BY DEF AnswersInv, DurableInv
<1>1. CASE stage[c] = "artifact"
  <2>1. Grows /\ Visible' = Visible BY DEF Grows, Visible
  <2>2. Content' BY DEF AnswersInv, Content, Names
  <2>3. phase' = [phase EXCEPT ![c] = "inspect"]
        /\ UNCHANGED <<job, what, where, stage, out, wrote, spoiled>>
    BY <1>1 DEF Exists
  <2>. QED BY <1>1, <2>1, <2>2, <2>3, PhaseTells DEF Artifact
<1>2. CASE stage[c] # "artifact"
  <2>. DEFINE o == IF stage[c] = "object" THEN "receipt" ELSE "exists"
  <2>1. Answer(c, o, fault[c]) /\ spoiled' = SpoiledBy({c}) BY <1>2 DEF Exists
  <2>2. o = "receipt" => /\ what[c] \in Artifacts
                         /\ job[c] = "object"
                         /\ disk[<<job[c], what[c]>>] = what[c]
    <3>. SUFFICES ASSUME stage[c] = "object"
                  PROVE  /\ what[c] \in Artifacts /\ job[c] = "object"
                         /\ disk[<<job[c], what[c]>>] = what[c]
      OBVIOUS
    <3>1. what[c] \in Artifacts /\ job[c] = "object" BY DEF Progress, Place
    <3>2. Target(c) = <<"object", what[c]>> BY DEF Target
    <3>3. Target(c) \in Visible BY <3>1, <3>2 DEF Visible, Names
    <3>. QED BY <3>1, <3>2, <3>3, VisibleHolds DEF AnswersInv
  <2>3. o \in {"receipt", "exists", "failed"} OBVIOUS
  <2>. HIDE DEF o
  <2>4. /\ stage' = [stage EXCEPT ![c] = "done"] /\ phase' = [phase EXCEPT ![c] = "begin"]
        /\ out' = [out EXCEPT ![c] = o] /\ wrote' = [wrote EXCEPT ![c] = {}]
        /\ UNCHANGED <<job, what, where>>
    BY <2>1 DEF Answer
  <2>. QED BY <2>1, <2>2, <2>3, <2>4, SpoilsItsOwn, AnswerTells
<1>. QED BY <1>1, <1>2

\* safeTarget makes a directory, which holds its own name or was there before.
LEMMA BeginTells ==
    ASSUME DurableInv, AnswersInv, NEW c \in Callers, Begin(c)
    PROVE  AnswersInv'
<1>. PublicationTypeOK /\ Content BY DEF DurableInv, AnswersInv
<1>1. CASE disk[Target(c)] # Absent
  BY <1>1, ExistsTells DEF Begin
<1>2. CASE disk[Target(c)] = Absent
  <2>. what[c] \in Artifacts BY TargetNamed DEF Begin
  <2>1. /\ phase' = [phase EXCEPT ![c] = "install"] /\ phase[c] = "begin" /\ stage[c] \in FileStages
        /\ disk' = IF stage[c] \in InGeneration THEN [disk EXCEPT ![Directory(what[c])] = what[c]] ELSE disk
        /\ UNCHANGED <<syncs, durable, job, what, where, stage, out, wrote, spoiled>>
    BY <1>2 DEF Begin
  <2>2. /\ Directory(what[c]) \in Names /\ Directory(what[c])[1] = "directory"
        /\ Directory(what[c])[2] = what[c]
    BY NamesTyped DEF Directory
  <2>3. disk[Directory(what[c])] \in {Absent, what[c]} BY <2>2 DEF Content
  <2>4. \A n \in Names : disk'[n] = disk[n] \/ (n = Directory(what[c]) /\ disk'[n] = what[c])
    BY <2>1 DEF PublicationTypeOK
  <2>5. Grows BY <2>3, <2>4 DEF Grows
  <2>6. Content' BY <2>2, <2>4 DEF Content, Names
  <2>7. \A a \in Artifacts : Artifact(a) \in Visible' => Artifact(a) \in Visible
    BY <2>4 DEF Visible, Artifact, Directory
  <2>. QED BY <2>1, <2>5, <2>6, <2>7, PhaseTells
<1>. QED BY <1>1, <1>2

\* A link under a name that was free: nobody else holds the name.
LEMMA InstallTells ==
    ASSUME DurableInv, AnswersInv, NEW c \in Callers, Install(c)
    PROVE  AnswersInv'
<1>. PublicationTypeOK /\ Content /\ Place(c) /\ Progress(c) BY DEF DurableInv, AnswersInv
<1>1. CASE disk[Target(c)] # Absent
  BY <1>1, ExistsTells DEF Install
<1>2. CASE disk[Target(c)] = Absent
  <2>. what[c] \in Artifacts /\ Target(c) \in Names /\ what[c] # Absent
    BY TargetNamed, PublicationConstants DEF Install
  <2>1. /\ phase' = [phase EXCEPT ![c] = "reread"] /\ phase[c] = "install" /\ stage[c] \in FileStages
        /\ disk' = [disk EXCEPT ![Target(c)] = what[c]]
        /\ wrote' = [wrote EXCEPT ![c] = @ \cup {Target(c)}]
        /\ UNCHANGED <<syncs, durable, job, what, where, stage, out, spoiled>>
    BY <1>2 DEF Install
  <2>2. \A n \in Names : disk'[n] = IF n = Target(c) THEN what[c] ELSE disk[n]
    BY <2>1 DEF PublicationTypeOK
  <2>3. Grows BY <1>2, <2>2 DEF Grows
  <2>4. Visible' = Visible \cup {Target(c)} BY <2>2 DEF Visible
  <2>5. phase'[c] = "reread" /\ wrote'[c] = wrote[c] \cup {Target(c)} /\ Target(c)' = Target(c)
    BY <2>1 DEF PublicationTypeOK, Target
  <2>6. Target(c)[1] = stage[c] /\ Target(c)[2] = IF stage[c] = "flat" THEN where[c] ELSE what[c]
    BY DEF Target
  <2>7. Content'
    BY <2>2, <2>6 DEF Content, Names
  <2>8. ASSUME NEW d \in Callers, d # c
        PROVE  Place(d)' /\ Held(d)' /\ Told(d)' /\ (Holds(d)' <=> Holds(d))
    BY <2>1, <2>3, <2>8, StaysPut DEF AnswersInv, PublicationTypeOK
  <2>9. ~ LinkedArtifact(c) \/ stage[c] # "artifact"
    BY <2>1 DEF LinkedArtifact, AfterArtifact
  <2>10. Place(c)'
    <3>1. stage[c] = "flat" => Target(c) = Flat(where[c]) BY DEF Target, Flat
    <3>2. stage[c] = "artifact" => Target(c) = Artifact(what[c]) /\ LinkedArtifact(c)'
      BY <2>1, <2>5 DEF Target, Artifact, LinkedArtifact
    <3>3. LinkedArtifact(c) => LinkedArtifact(c)' BY <2>1, <2>5 DEF LinkedArtifact
    <3>4. \A n \in wrote'[c] : n[1] = "artifact" => n = Artifact(what[c]) /\ LinkedArtifact(c)'
      BY <2>5, <2>6, <3>2, <3>3 DEF Place
    <3>5. Target(c) \in Visible' BY <2>4
    <3>6. stage[c] \in AfterFlat \/ stage[c] = "flat" => Flat(where[c]) \in wrote'[c]
      BY <2>5, <3>1 DEF Place
    <3>. QED BY <2>1, <2>4, <2>5, <3>4, <3>5, <3>6 DEF Place, Selector, Flat, Artifact
  <2>11. out[c] # "receipt" BY <2>1, PublicationConstants DEF Place, FileStages
  <2>12. Told(c)' BY <2>1, <2>11 DEF Told
  <2>13. Holds(c)' => Holds(c) \/ Target(c) = Flat(where[c])
    BY <2>1, <2>5 DEF Holds, Flat
  <2>14. Target(c) = Flat(where[c]) => stage[c] = "flat" /\ where[c] \in Selectors
    BY DEF Target, Flat, Progress
  <2>15. Held(c)'
    <3>. SUFFICES ASSUME Holds(c)' PROVE Held(c)' BY DEF Held
    <3>1. CASE Target(c) = Flat(where[c])
      BY <2>1, <2>2, <2>14, <3>1 DEF Held, Flat
    <3>2. CASE Holds(c) /\ Target(c) # Flat(where[c])
      <4>1. where[c] \in Selectors /\ disk[Flat(where[c])] = what[c] BY <3>2 DEF Held, AnswersInv
      <4>2. disk'[Flat(where[c])] = what[c] BY <2>2, <3>2, <4>1, NamesTyped
      <4>. QED BY <2>1, <4>1, <4>2 DEF Held, Flat
    <3>. QED BY <2>13, <3>1, <3>2
  <2>16. Apart'
    <3>1. ASSUME Target(c) = Flat(where[c]), NEW d \in Callers, d # c, Holds(d)
          PROVE  where[d] # where[c]
      <4>1. disk[Flat(where[d])] = what[d] /\ what[d] # Absent
        BY <3>1, PublicationConstants DEF Held, AnswersInv
      <4>. QED BY <1>2, <3>1, <4>1
    <3>2. \A d \in Callers : d # c /\ Holds(d)' => Holds(d) /\ where'[d] = where[d]
      BY <2>1, <2>8
    <3>3. where'[c] = where[c] BY <2>1
    <3>. QED BY <2>13, <3>1, <3>2, <3>3, ApartKept DEF AnswersInv
  <2>17. Explained'
    <3>1. \A a \in Artifacts : Writing(a) => Writing(a)'
      <4>1. \A d \in Callers : wrote[d] \subseteq wrote'[d] BY <2>1 DEF PublicationTypeOK
      <4>. QED BY <4>1 DEF Writing, Artifact
    <3>2. ASSUME NEW a \in Artifacts, Artifact(a) = Target(c) PROVE Writing(a)'
      <4>1. Artifact(a) \in wrote'[c] BY <2>5, <3>2
      <4>. QED BY <4>1 DEF Writing, Artifact
    <3>3. \A a \in Artifacts : Artifact(a) \in Visible' => Artifact(a) \in Visible \/ Writing(a)'
      BY <2>4, <3>2
    <3>. QED BY <2>1, <3>1, <3>3, ExplainedKept DEF AnswersInv, Artifact
  <2>. QED BY <2>7, <2>8, <2>10, <2>12, <2>15, <2>16, <2>17 DEF AnswersInv
<1>. QED BY <1>1, <1>2

\* A caller with no call holds no name and writes no generation.
LEMMA SubmitTells ==
    ASSUME DurableInv, AnswersInv, NEW c \in Callers, NEW j \in Jobs, NEW a \in Artifacts,
           NEW t \in Selectors, Submit(c, j, a, t)
    PROVE  AnswersInv'
<1>. PublicationTypeOK /\ Place(c) BY DEF DurableInv, AnswersInv
<1>1. /\ stage[c] \in {"idle", "done"}
      /\ UNCHANGED <<syncs, disk, durable, spoiled>>
  BY DEF Submit, Running
<1>2. /\ job'[c] = j /\ stage'[c] = FirstStage(j) /\ phase'[c] = "begin" /\ out'[c] = None
      /\ wrote'[c] = {}
  BY DEF Submit, PublicationTypeOK
<1>3. Grows /\ Visible' = Visible BY <1>1 DEF Grows, Visible
<1>4. ASSUME NEW d \in Callers, d # c
      PROVE  /\ Place(d)' /\ Held(d)' /\ Told(d)' /\ (Holds(d)' <=> Holds(d)) /\ where'[d] = where[d]
             /\ wrote'[d] = wrote[d]
  BY <1>3, <1>4, StaysPut DEF Submit, AnswersInv, PublicationTypeOK
<1>5. \/ FirstStage(j) = "flat" /\ j = "output"
      \/ FirstStage(j) = "object" /\ j = "object"
      \/ FirstStage(j) = "bundle" /\ j = "bundle"
  <2>1. j \in {"output", "object", "bundle"} BY PublicationConstants DEF JobKinds
  <2>. QED BY <2>1 DEF FirstStage
<1>6. Place(c)'
  BY <1>2, <1>5 DEF Place, OutputStages, AfterFlat, SyncStages, FileStages
<1>7. ~ Holds(c)' /\ Held(c)' /\ Told(c)'
  BY <1>2, PublicationConstants DEF Holds, Held, Told
<1>8. Content' BY <1>1 DEF AnswersInv, Content, Names
<1>9. Apart' BY <1>4, <1>7, ApartKept DEF AnswersInv
<1>10. Explained'
  <2>1. ASSUME NEW b \in Artifacts, Writing(b) PROVE Writing(b)'
    <3>1. PICK d \in Callers : Artifact(b) \in wrote[d] BY <2>1 DEF Writing
    <3>2. d # c
      BY <1>1, <3>1, WriterKnown DEF LinkedArtifact, AfterArtifact
    <3>. QED BY <1>4, <3>1, <3>2 DEF Writing, Artifact
  <2>. QED BY <1>1, <1>3, <2>1, ExplainedKept DEF AnswersInv, Artifact
<1>. QED BY <1>4, <1>6, <1>7, <1>8, <1>9, <1>10 DEF AnswersInv

\* Calls that die without an answer spoil what they were writing.
LEMMA StopSpoils ==
    ASSUME AnswersInv, NEW cs \in SUBSET Callers, Stop(cs), NEW a \in Artifacts, Writing(a)
    PROVE  a \in spoiled' \/ Writing(a)'
<1>1. PICK d \in Callers : Artifact(a) \in wrote[d] BY DEF Writing
<1>2. a = what[d] /\ LinkedArtifact(d) /\ Abandons(d) BY <1>1, WriterKnown DEF AnswersInv
<1>3. Running(d) BY <1>2 DEF Running, LinkedArtifact, AfterArtifact
<1>4. CASE d \in cs
  BY <1>2, <1>3, <1>4 DEF Stop, SpoiledBy
<1>5. CASE d \notin cs
  <2>1. wrote'[d] = wrote[d] BY <1>5 DEF Stop
  <2>. QED BY <1>1, <2>1 DEF Writing, Artifact
<1>. QED BY <1>4, <1>5

LEMMA StoppedTells ==
    ASSUME NEW cs \in SUBSET Callers, Stop(cs), NEW d \in cs
    PROVE  Place(d)' /\ Held(d)' /\ Told(d)' /\ ~ Holds(d)'
<1>1. stage'[d] = "idle" /\ phase'[d] = "begin" /\ out'[d] = None /\ wrote'[d] = {}
  BY DEF Stop
<1>2. Place(d)'
  BY <1>1 DEF Place, OutputStages, AfterFlat, SyncStages, FileStages
<1>3. ~ Holds(d)' BY <1>1, PublicationConstants DEF Holds
<1>. QED BY <1>1, <1>2, <1>3, PublicationConstants DEF Held, Told

LEMMA KillTells ==
    ASSUME DurableInv, AnswersInv, NEW p \in Processes, Kill(p)
    PROVE  AnswersInv'
<1>. PublicationTypeOK BY DEF DurableInv
<1>. DEFINE cs == {c \in Callers : ProcessOf[c] = p}
<1>1. Stop(cs) /\ UNCHANGED <<syncs, disk, durable>> /\ cs \in SUBSET Callers BY DEF Kill
<1>. HIDE DEF cs
<1>2. Grows /\ Visible' = Visible BY <1>1 DEF Grows, Visible
<1>3. ASSUME NEW d \in Callers, d \notin cs
      PROVE  /\ Place(d)' /\ Held(d)' /\ Told(d)' /\ (Holds(d)' <=> Holds(d)) /\ where'[d] = where[d]
  BY <1>1, <1>2, <1>3, StaysPut DEF Stop, AnswersInv
<1>4. ASSUME NEW d \in cs PROVE Place(d)' /\ Held(d)' /\ Told(d)' /\ ~ Holds(d)'
  BY <1>1, <1>4, StoppedTells
<1>5. Content' BY <1>1 DEF AnswersInv, Content, Names
<1>6. Apart' BY <1>1, <1>3, <1>4 DEF AnswersInv, Apart
<1>7. Explained'
  <2>1. spoiled \subseteq spoiled' BY <1>1 DEF Stop, SpoiledBy
  <2>2. \A a \in Artifacts : Writing(a) => a \in spoiled' \/ Writing(a)' BY <1>1, StopSpoils
  <2>. QED BY <1>1, <1>2, <2>1, <2>2, ExplainedKept DEF AnswersInv, Artifact
<1>. QED BY <1>3, <1>4, <1>5, <1>6, <1>7 DEF AnswersInv

\* No caller survives a power loss; a generation it leaves without its selector had
\* an unsettled selector, and so a writer or a call that gave it up.
LEMMA PowerLossTells ==
    ASSUME DurableInv, AnswersInv, PowerLoss
    PROVE  AnswersInv'
<1>. PublicationTypeOK BY DEF DurableInv
<1>1. Stop(Callers) /\ syncs' = syncs BY DEF PowerLoss
<1>2. ASSUME NEW d \in Callers PROVE Place(d)' /\ Held(d)' /\ Told(d)' /\ ~ Holds(d)'
  BY <1>1, <1>2, StoppedTells
<1>3. Content'
  <2>1. ASSUME NEW n \in Names, n[1] # "flat", disk'[n] # Absent PROVE disk'[n] = n[2]
    <3>1. n \in Visible' BY <2>1 DEF Visible
    <3>2. n \in Visible /\ disk'[n] = disk[n] BY <3>1, PowerLossLeaves
    <3>. QED BY <2>1, <3>2, VisibleHolds DEF AnswersInv
  <2>. QED BY <2>1 DEF Content, Names
<1>4. Apart' BY <1>2 DEF Apart
<1>5. Explained'
  <2>. SUFFICES ASSUME syncs, NEW a \in Artifacts, Artifact(a) \in Visible', Selector(a) \notin durable'
                PROVE  a \in spoiled'
    BY <1>1 DEF Explained, Artifact, Selector
  <2>1. Artifact(a) \in Visible BY PowerLossLeaves
  <2>2. Selector(a) \notin durable
    BY PowerLossLeaves DEF Selector, InGeneration
  <2>3. a \in spoiled \/ Writing(a) BY <2>1, <2>2 DEF AnswersInv, Explained
  <2>4. ~ Writing(a)' BY <1>1 DEF Writing, Stop
  <2>5. spoiled \subseteq spoiled' BY <1>1 DEF Stop, SpoiledBy
  <2>. QED BY <1>1, <2>3, <2>4, <2>5, StopSpoils
<1>. QED BY <1>2, <1>3, <1>4, <1>5 DEF AnswersInv

LEMMA AnswersInit == PublicationInit => AnswersInv
<1>. SUFFICES ASSUME PublicationInit PROVE AnswersInv OBVIOUS
<1>1. Visible = {} BY DEF PublicationInit, Visible
<1>2. Content BY DEF PublicationInit, Content
<1>3. ASSUME NEW c \in Callers PROVE Place(c) /\ Held(c) /\ Told(c) /\ ~ Holds(c)
  <2>1. stage[c] = "idle" /\ phase[c] = "begin" /\ out[c] = None /\ wrote[c] = {}
    BY DEF PublicationInit
  <2>2. Place(c) BY <2>1 DEF Place, OutputStages, AfterFlat, SyncStages, FileStages
  <2>. QED BY <2>1, <2>2, PublicationConstants DEF Holds, Held, Told
<1>4. Apart /\ Explained BY <1>1, <1>3 DEF Apart, Explained
<1>. QED BY <1>2, <1>3, <1>4 DEF AnswersInv

LEMMA AnswersNext == DurableInv /\ AnswersInv /\ [PublicationNext]_vars => AnswersInv'
<1>. SUFFICES ASSUME DurableInv, AnswersInv, [PublicationNext]_vars PROVE AnswersInv' OBVIOUS
<1>1. ASSUME NEW c \in Callers, CallStep(c) PROVE AnswersInv'
  <2>1. CASE Reread(c)
    <3>1. stage[c] \notin {"idle", "done", "sync selector"} BY <2>1 DEF Reread, FileStages
    <3>. QED BY <2>1, <3>1, AdvanceTells DEF Reread
  <2>2. ASSUME NEW synced \in BOOLEAN, NEW verified \in BOOLEAN, Verify(c, synced, verified)
        PROVE  AnswersInv'
    <3>1. stage[c] \notin {"idle", "done", "sync selector"} /\ phase[c] = "reread"
      BY <2>2 DEF Verify, FileStages
    <3>2. UNCHANGED <<syncs, disk>> /\ durable \subseteq durable' /\ (Advance(c) \/ Fail(c))
      BY <2>2 DEF Verify
    <3>. QED BY <3>1, <3>2, AdvanceTells, FailTells
  <2>3. CASE SyncDirectory(c)
    <3>1. stage[c] \in SyncStages /\ stage[c] \notin FileStages \cup {"idle", "done"}
      BY <2>3 DEF SyncDirectory, SyncStages, FileStages
    <3>2. syncs /\ stage[c] = "sync selector" => Selector(what[c]) \in durable'
      <4>. SUFFICES ASSUME syncs, stage[c] = "sync selector" PROVE Selector(what[c]) \in durable' OBVIOUS
      <4>1. Selector(what[c]) \in Visible BY DEF AnswersInv, Place
      <4>2. what[c] \in Artifacts BY DEF DurableInv, Progress
      <4>3. Selector(what[c]) \in SyncedBy(stage[c], what[c]) BY <4>1, <4>2 DEF SyncedBy, Selector
      <4>. QED BY <2>3, <4>3 DEF SyncDirectory
    <3>3. Advance(c) /\ UNCHANGED <<syncs, disk>> /\ durable \subseteq durable'
      BY <2>3 DEF SyncDirectory
    <3>. QED BY <3>1, <3>2, <3>3, AdvanceTells
  <2>4. CASE SystemCallFails(c)
    BY <2>4, FailTells DEF SystemCallFails
  <2>. QED BY <1>1, <2>1, <2>2, <2>3, <2>4, BeginTells, InstallTells, InspectTells DEF CallStep
<1>2. ASSUME UNCHANGED vars PROVE AnswersInv'
  <2>1. Grows /\ Visible' = Visible BY <1>2 DEF vars, Grows, Visible
  <2>2. ASSUME NEW d \in Callers PROVE Place(d)' /\ Held(d)' /\ Told(d)' /\ (Holds(d)' <=> Holds(d))
    BY <1>2, <2>1, <2>2, StaysPut DEF vars, AnswersInv, DurableInv
  <2>3. Content' /\ Apart' BY <1>2, <2>2 DEF vars, AnswersInv, Content, Apart, Names
  <2>4. Explained' BY <1>2, <2>1 DEF vars, AnswersInv, Explained, Writing, Artifact, Selector
  <2>. QED BY <2>2, <2>3, <2>4 DEF AnswersInv
<1>. QED BY <1>1, <1>2, SubmitTells, KillTells, PowerLossTells DEF PublicationNext

LEMMA AnswersInvariant == PublicationSpec => [](DurableInv /\ AnswersInv)
BY AnswersInit, AnswersNext, DurableInit, DurableNext, PTL DEF PublicationSpec

\* For any number of processes, callers, artifacts and crashes: a receipt is true as
\* long as its caller lives, no two live callers hold one for the same selector, and
\* a torn generation is being written, or was given up by a call that failed or died.
THEOREM AnswersMatchTheDisk == PublicationSpec => []AnswersMatchDisk
<1>1. DurableInv /\ AnswersInv => AnswersMatchDisk
  <2>. SUFFICES ASSUME DurableInv, AnswersInv PROVE AnswersMatchDisk OBVIOUS
  <2>1. TornExplained
    <3>. SUFFICES ASSUME syncs, NEW a \in Artifacts, Artifact(a) \in Visible, Selector(a) \notin Visible,
                         a \notin spoiled
                  PROVE  \E c \in Callers : Running(c) /\ Artifact(a) \in wrote[c]
      BY DEF TornExplained
    <3>1. Selector(a) \notin durable BY DEF DurableInv, PublicationTypeOK
    <3>2. PICK c \in Callers : Artifact(a) \in wrote[c]
      BY <3>1 DEF AnswersInv, Explained, Writing
    <3>3. LinkedArtifact(c) BY <3>2, WriterKnown DEF AnswersInv
    <3>4. Running(c) BY <3>3 DEF LinkedArtifact, Running, AfterArtifact
    <3>. QED BY <3>2, <3>4
  <2>2. ReceiptsTrue
    BY DEF ReceiptsTrue, AnswersInv, Told, Held, Holds, Apart
  <2>. QED BY <2>1, <2>2 DEF AnswersMatchDisk
<1>. QED BY <1>1, AnswersInvariant, PTL

-----------------------------------------------------------------------------
(* Source objects *)

\* A call for a source object that ended has its receipt or met a failed system call.
Idempotent(c) == job[c] = "object" /\ stage[c] = "done" => out[c] = "receipt" \/ fault[c]

\* The one stage of a call for a source object is the object itself.
LEMMA ObjectStage ==
    ASSUME PublicationTypeOK, NEW c \in Callers, Place(c), Running(c), job[c] = "object"
    PROVE  stage[c] = "object" /\ phase[c] # "inspect"
<1>1. stage[c] \in Stages BY DEF PublicationTypeOK
<1>2. stage[c] \notin OutputStages /\ stage[c] # "bundle" BY DEF Place
<1>3. stage[c] = "object"
  BY <1>1, <1>2 DEF Stages, FileStages, SyncStages, OutputStages, AfterFlat, Running
<1>. QED BY <1>3 DEF Place

\* A failed system call is on the caller's record.
LEMMA FailIdempotent ==
    ASSUME PublicationTypeOK, NEW c \in Callers, Fail(c)
    PROVE  Idempotent(c)'
<1>1. fault \in [Callers -> BOOLEAN] BY DEF PublicationTypeOK
<1>2. fault' = [fault EXCEPT ![c] = TRUE] BY DEF Fail, Answer
<1>3. fault'[c] = TRUE BY <1>1, <1>2, Zenon
<1>. QED BY <1>3, Zenon DEF Idempotent

\* An object that is already there is success.
LEMMA ExistsIdempotent ==
    ASSUME PublicationTypeOK, NEW c \in Callers, Place(c), Running(c), Exists(c)
    PROVE  Idempotent(c)'
<1>. SUFFICES ASSUME job'[c] = "object", stage'[c] = "done" PROVE out'[c] = "receipt"
  BY DEF Idempotent
<1>1. job[c] = "object" BY DEF Exists, Answer
<1>2. stage[c] = "object" BY <1>1, ObjectStage
<1>3. Answer(c, "receipt", fault[c]) BY <1>2 DEF Exists
<1>. QED BY <1>3 DEF Answer, PublicationTypeOK

LEMMA AdvanceIdempotent ==
    ASSUME PublicationTypeOK, NEW c \in Callers, Place(c), Running(c), Advance(c)
    PROVE  Idempotent(c)'
<1>. SUFFICES ASSUME job'[c] = "object", stage'[c] = "done" PROVE out'[c] = "receipt"
  BY DEF Idempotent
<1>1. NextStage(stage[c]) = "done" BY DEF Advance, PublicationTypeOK
<1>. QED BY <1>1 DEF Advance, PublicationTypeOK

\* A step of c leaves every other call as it was.
LEMMA IdempotentKept ==
    ASSUME NEW d \in Callers, Idempotent(d), job'[d] = job[d], stage'[d] = stage[d],
           out'[d] = out[d], fault'[d] = fault[d]
    PROVE  Idempotent(d)'
BY Zenon DEF Idempotent

LEMMA StepIdempotent ==
    ASSUME PublicationTypeOK, NEW c \in Callers, Place(c), Idempotent(c), CallStep(c)
    PROVE  Idempotent(c)'
<1>1. ASSUME stage[c] \in FileStages PROVE Running(c) BY <1>1 DEF FileStages, Running
<1>2. CASE Begin(c)
  <2>1. CASE Exists(c) BY <1>1, <1>2, <2>1, ExistsIdempotent DEF Begin
  <2>2. CASE UNCHANGED <<job, stage, out, fault>> BY <2>2, IdempotentKept
  <2>. QED BY <1>2, <2>1, <2>2 DEF Begin
<1>3. CASE Install(c)
  <2>1. CASE Exists(c) BY <1>1, <1>3, <2>1, ExistsIdempotent DEF Install
  <2>2. CASE UNCHANGED <<job, stage, out, fault>> BY <2>2, IdempotentKept
  <2>. QED BY <1>3, <2>1, <2>2 DEF Install
<1>4. CASE Inspect(c)
  <2>1. stage[c] = "artifact" BY <1>4 DEF Inspect, Place
  <2>2. job[c] = "output" /\ job'[c] = job[c]
    BY <1>4, <2>1 DEF Place, OutputStages, AfterFlat, Inspect, Answer
  <2>. QED BY <2>2 DEF Idempotent
<1>5. CASE Reread(c) BY <1>1, <1>5, AdvanceIdempotent DEF Reread
<1>6. ASSUME NEW synced \in BOOLEAN, NEW verified \in BOOLEAN, Verify(c, synced, verified)
      PROVE  Idempotent(c)'
  <2>1. Running(c) /\ (Advance(c) \/ Fail(c)) BY <1>1, <1>6 DEF Verify
  <2>. QED BY <2>1, AdvanceIdempotent, FailIdempotent
<1>7. CASE SyncDirectory(c)
  <2>1. Running(c) /\ Advance(c) BY <1>7 DEF SyncDirectory, SyncStages, Running
  <2>. QED BY <2>1, AdvanceIdempotent
<1>8. CASE SystemCallFails(c) BY <1>8, FailIdempotent DEF SystemCallFails
<1>. QED BY <1>2, <1>3, <1>4, <1>5, <1>6, <1>7, <1>8 DEF CallStep

\* For any number of publishers of the same bytes: the call for a source object
\* ends without a receipt only if one of its own system calls failed.
THEOREM ObjectsAreIdempotent == PublicationSpec => []ObjectsIdempotent
<1>1. PublicationInit => ObjectsIdempotent
  BY PublicationConstants DEF PublicationInit, ObjectsIdempotent, JobKinds
<1>2. DurableInv /\ AnswersInv /\ ObjectsIdempotent /\ [PublicationNext]_vars => ObjectsIdempotent'
  <2>. SUFFICES ASSUME DurableInv, AnswersInv, ObjectsIdempotent, [PublicationNext]_vars,
                       NEW d \in Callers
                PROVE  Idempotent(d)'
    BY DEF ObjectsIdempotent, Idempotent
  <2>1. PublicationTypeOK /\ Place(d) BY DEF DurableInv, AnswersInv
  <2>2. Idempotent(d) BY Zenon DEF ObjectsIdempotent, Idempotent
  <2>3. ASSUME NEW c \in Callers, CallStep(c) PROVE Idempotent(d)'
    <3>1. CASE c = d BY <2>1, <2>2, <2>3, <3>1, StepIdempotent
    <3>2. CASE c # d
      <4>1. /\ job'[d] = job[d] /\ stage'[d] = stage[d]
            /\ out'[d] = out[d] /\ fault'[d] = fault[d]
        BY <2>1, <2>3, <3>2
        DEF CallStep, Begin, Install, Inspect, Reread, Verify, SyncDirectory, SystemCallFails,
            Exists, Answer, Advance, Fail, PublicationTypeOK
      <4>. QED BY <2>2, <4>1, IdempotentKept
    <3>. QED BY <3>1, <3>2
  <2>4. ASSUME NEW c \in Callers, NEW j \in Jobs, NEW a \in Artifacts, NEW s \in Selectors,
               Submit(c, j, a, s)
        PROVE  Idempotent(d)'
    <3>1. CASE c = d
      <4>1. j \in {"output", "object", "bundle"} BY PublicationConstants DEF JobKinds
      <4>2. stage'[d] = FirstStage(j) BY <2>1, <2>4, <3>1 DEF Submit, PublicationTypeOK
      <4>3. stage'[d] # "done" BY <4>1, <4>2 DEF FirstStage
      <4>. QED BY <4>3 DEF Idempotent
    <3>2. CASE c # d
      <4>1. /\ job'[d] = job[d] /\ stage'[d] = stage[d]
            /\ out'[d] = out[d] /\ fault'[d] = fault[d]
        BY <2>1, <2>4, <3>2 DEF Submit, PublicationTypeOK
      <4>. QED BY <2>2, <4>1, IdempotentKept
    <3>. QED BY <3>1, <3>2
  <2>5. ASSUME NEW cs \in SUBSET Callers, Stop(cs) PROVE Idempotent(d)'
    <3>1. CASE d \in cs
      <4>1. stage'[d] = "idle" BY <2>5, <3>1 DEF Stop
      <4>. QED BY <4>1 DEF Idempotent
    <3>2. CASE d \notin cs
      <4>1. /\ job'[d] = job[d] /\ stage'[d] = stage[d]
            /\ out'[d] = out[d] /\ fault'[d] = fault[d]
        BY <2>5, <3>2 DEF Stop
      <4>. QED BY <2>2, <4>1, IdempotentKept
    <3>. QED BY <3>1, <3>2
  <2>6. CASE UNCHANGED vars BY <2>2, <2>6, IdempotentKept DEF vars
  <2>. QED BY <2>3, <2>4, <2>5, <2>6 DEF PublicationNext, Kill, PowerLoss
<1>. QED BY <1>1, <1>2, AnswersInvariant, PTL DEF PublicationSpec
=============================================================================
