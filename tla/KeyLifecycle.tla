---------------------------- MODULE KeyLifecycle ----------------------------
(***************************************************************************)
(* What a key manager promises of the keys it publishes: the lifecycle of  *)
(* KeyState and the trait KeyManager (src/crates/pic-x-core/src/keys.rs),  *)
(* with no files, no clock and no passes.                                  *)
(*                                                                         *)
(*   unborn -> published -> active -> retired -> archived -> forgotten     *)
(*                                                                         *)
(* One step may move several keys: a handover retires one key as it        *)
(* activates another.                                                      *)
(***************************************************************************)
CONSTANT Kid

VARIABLE status

\* Where a key may be after one step.  A key in use is never withdrawn
\* without having been retired first, a key that waits always gets its turn,
\* and no key ever goes back.  The first key, and the key made when the
\* algorithm changes, need not wait; the latter may be superseded, by a key
\* that did, in the step that makes it.
After(s) ==
    CASE s = "unborn"    -> {"unborn", "published", "active", "retired"}
      [] s = "published" -> {"published", "active"}
      [] s = "active"    -> {"active", "retired"}
      [] s = "retired"   -> {"retired", "archived", "forgotten"}
      [] s = "archived"  -> {"archived", "forgotten"}
      [] s = "forgotten" -> {"forgotten"}

State == {"unborn", "published", "active", "retired", "archived", "forgotten"}

Init == status = [k \in Kid |-> "unborn"]

\* Every key moves along its life and exactly one signs afterwards.
Advance ==
    /\ status' \in [Kid -> State]
    /\ \A k \in Kid : status'[k] \in After(status[k])
    /\ \E k \in Kid : /\ status'[k] = "active"
                      /\ \A j \in Kid \ {k} : status'[j] # "active"

Next == Advance

Spec == Init /\ [][Next]_status
=============================================================================
