---------------------------- MODULE UpdateLedger ----------------------------
(***************************************************************************)
(* What the update loop promises about the device, without how it does it. *)
(* A device has a bundle in its boot slot and a record of the manifest it  *)
(* was updated to.  The slot changes only to a bundle that a trusted       *)
(* manifest lists; the record changes only to a trusted manifest while its *)
(* bundle is in the slot, and is given up only for such a manifest.  The   *)
(* two are not updated together, and the record is not durable at once.    *)
(***************************************************************************)
EXTENDS Naturals

CONSTANTS
  Bundles,
  Trusted,      \* manifests with an acceptable signature
  Simulated,    \* manifests that are recorded without an installation
  Fits(_, _),   \* Fits(b, m): b is the bundle m lists for this device
  NoFile,       \* no record
  Torn,         \* a record that lost its contents
  Factory       \* the slot as shipped

VARIABLES
  slot,         \* bundle that will be booted
  active,       \* the record
  recoverable   \* records a power cut may bring back

Init == slot = Factory /\ active = NoFile /\ recoverable = {NoFile}

\* m may be recorded now.
Ready(m) == m \in Simulated \/ Fits(slot, m)

Install ==
  /\ UNCHANGED <<active, recoverable>>
  /\ slot' \in Bundles \ {slot}
  /\ \E m \in Trusted : Fits(slot', m)

Discard ==
  /\ active' = NoFile
  /\ recoverable' = recoverable \cup {NoFile}
  /\ UNCHANGED slot
  /\ \E m \in Trusted : Ready(m)

Record ==
  /\ recoverable' = recoverable \cup {active', Torn}
  /\ UNCHANGED slot
  /\ active' \in Trusted
  /\ Ready(active')

Flush == recoverable' = {active} /\ UNCHANGED <<slot, active>>

PowerCut ==
  /\ active' \in recoverable
  /\ recoverable' = {active'}
  /\ UNCHANGED slot

Next == Flush \/ PowerCut \/ Install \/ Discard \/ Record

Spec == Init /\ [][Next]_<<slot, active, recoverable>>
=============================================================================
