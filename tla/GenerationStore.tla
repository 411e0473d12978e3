--------------------------- MODULE GenerationStore ---------------------------
(***************************************************************************)
(* What the publisher promises of verified generations to a reader that    *)
(* starts from a generation selector: a generation appears at once and     *)
(* whole, is never withdrawn or changed while the machine runs, and one    *)
(* that has settled outlives a power loss.  Publication.tla is shown to    *)
(* implement this specification.                                           *)
(***************************************************************************)

CONSTANT Artifacts      \* byte strings; each names its own generation

VARIABLES exposed,      \* generations a reader can select and verify
          settled,      \* those of them that a power loss cannot take back
          epoch         \* changes with every power loss

storeVars == <<exposed, settled, epoch>>

StoreInit == exposed = {} /\ settled = {} /\ epoch = FALSE

\* One generation becomes selectable.
Expose(a) ==
    /\ a \notin exposed
    /\ exposed' = exposed \cup {a}
    /\ UNCHANGED <<settled, epoch>>

\* Directory entries reach the disk: exposed generations become permanent.
Settle ==
    /\ settled' \in SUBSET exposed
    /\ settled \subseteq settled'
    /\ UNCHANGED <<exposed, epoch>>

\* The machine stops: what had settled is still there, some of the rest may be.
PowerLossTakes ==
    /\ exposed' \in SUBSET exposed
    /\ settled \subseteq exposed'
    /\ settled' = exposed'
    /\ epoch' = ~ epoch

StoreNext == (\E a \in Artifacts : Expose(a)) \/ Settle \/ PowerLossTakes

StoreSpec == StoreInit /\ [][StoreNext]_storeVars
=============================================================================
