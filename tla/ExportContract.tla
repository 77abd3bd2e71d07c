--------------------------- MODULE ExportContract ---------------------------
(***************************************************************************)
(* What a batch export promises, without decoders, providers or threads    *)
(* (docs/architecture.md, "Streaming manifest" and "Android SAF            *)
(* transaction").  Artifacts are stored one by one in the order they are   *)
(* wanted, each is claimed in the manifest only once it is stored, the     *)
(* manifest ends as complete only when everything wanted is claimed, and   *)
(* success is told only of a complete export that was kept.                *)
(***************************************************************************)
EXTENDS Naturals, Sequences

VARIABLES
  wanted,    \* the frames to export, in order
  stored,    \* the frames whose artifact is in the workspace
  claimed,   \* the frame records of the manifest
  terminal,  \* "none", "complete", "cancelled" or "failed"
  kept,      \* "no": the workspace is not committed; "yes"; "gone": deleted
  told       \* what the caller heard: "none", "success" or "failure"

cvars == <<wanted, stored, claimed, terminal, kept, told>>

CInit ==
  /\ wanted \in Seq(Nat)
  /\ stored = {} /\ claimed = <<>> /\ terminal = "none"
  /\ kept = "no" /\ told = "none"

Awaited == wanted[Len(claimed) + 1]
Writing == terminal = "none" /\ told = "none" /\ Len(claimed) < Len(wanted)

\* the sink commits one artifact, and may reject it all the same
Store ==
  /\ Writing
  /\ stored' = stored \cup {Awaited} /\ terminal' \in {"none", "failed"}
  /\ UNCHANGED <<wanted, claimed, kept, told>>

Claim ==
  /\ Writing /\ Awaited \in stored
  /\ claimed' = Append(claimed, Awaited) /\ terminal' \in {"none", "failed"}
  /\ UNCHANGED <<wanted, stored, kept, told>>

End ==
  /\ terminal = "none" /\ told = "none"
  /\ terminal' \in {"complete", "cancelled", "failed"}
  /\ terminal' = "complete" => claimed = wanted
  /\ UNCHANGED <<wanted, stored, claimed, kept, told>>

\* the workspace is kept, or is to be withdrawn
Decide ==
  /\ told = "none" /\ told' \in {"success", "failure"}
  /\ kept = "no" /\ kept' \in {"no", "yes"}
  /\ told' = "success" => kept' = "yes" /\ terminal = "complete"
  /\ UNCHANGED <<wanted, stored, claimed, terminal>>

Withdraw ==
  /\ told' = "failure"
  /\ \/ UNCHANGED <<kept, stored>>
     \/ kept = "no" /\ kept' = "gone" /\ stored' = {}
  /\ UNCHANGED <<wanted, claimed, terminal>>

CNext == Store \/ Claim \/ End \/ Decide \/ Withdraw

CSpec == CInit /\ [][CNext]_cvars
=============================================================================
