----------------------------- MODULE MCSupervisor -----------------------------
(***************************************************************************)
(* Entries for model-checking Supervisor.                                  *)
(***************************************************************************)
EXTENDS Supervisor

CONSTANTS p, q,             \* slots
          k1, k2,           \* configs
          sandboxed         \* a policy

EntryOf(enabled, restart, value, policy) ==
    [enabled |-> enabled, watch |-> TRUE, restart |-> restart,
     config |-> value, policy |-> policy]

\* One slot whose entry may be disabled, have its config pushed or restarted
\* with, and have its policy changed.
AllKinds ==
    {EntryOf(TRUE, FALSE, k1, Trusted), EntryOf(FALSE, FALSE, k1, Trusted),
     EntryOf(TRUE, FALSE, k2, Trusted), EntryOf(TRUE, TRUE, k2, Trusted),
     EntryOf(TRUE, FALSE, k1, sandboxed),
     [EntryOf(TRUE, FALSE, k2, Trusted) EXCEPT !.watch = FALSE]}

\* Two slots, whose entry may be disabled, have its config pushed or
\* restarted with, or its policy changed.
FewKinds ==
    {EntryOf(TRUE, FALSE, k1, Trusted), EntryOf(FALSE, FALSE, k2, Trusted),
     EntryOf(TRUE, TRUE, k2, Trusted), EntryOf(TRUE, FALSE, k2, sandboxed)}
==============================================================================
