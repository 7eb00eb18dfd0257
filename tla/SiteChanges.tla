----------------------------- MODULE SiteChanges -----------------------------
(***************************************************************************)
(* What WATO promises about the pending changes of one site: a change is   *)
(* pending until the site runs it or a discard has taken it back, and when *)
(* nothing is pending, the site runs what was configured for it and        *)
(* nothing else.  How changes are logged, transferred, activated and       *)
(* confirmed, by whom and in how many steps, is left to Activation.        *)
(***************************************************************************)
CONSTANT Change
VARIABLES config,   \* the changes that the configuration contains
          logged,   \* the changes that were ever logged for the site
          pending,  \* the changes that are listed as pending at the site
          running,  \* the changes that the site runs
          raced     \* whether the site has met a race, after which nothing is promised

vars == <<config, logged, pending, running, raced>>

Init == config = {} /\ logged = {} /\ pending = {} /\ running = {} /\ raced = FALSE

\* A change is saved: if it has been logged, it is still pending.
Save(c) ==
    /\ c \in logged => c \in pending
    /\ config' = config \cup {c}
    /\ UNCHANGED <<logged, pending, running, raced>>

Log(c) ==
    /\ pending' = pending \cup {c}
    /\ logged' = logged \cup {c}
    /\ UNCHANGED <<config, running, raced>>

\* A discard is pending like a change, before it takes others back.
Note(c) ==
    /\ c \notin config
    /\ pending' = pending \cup {c}
    /\ UNCHANGED <<config, logged, running, raced>>

Restore ==
    /\ pending # {}
    /\ config' \subseteq config
    /\ UNCHANGED <<logged, pending, running, raced>>

\* The site never loses a change again that the configuration still has.
Activate ==
    /\ config \cap logged \cap running \subseteq running'
    /\ running' \subseteq config
    /\ UNCHANGED <<config, logged, pending, raced>>

\* Changes are taken off the list only if the site runs them, or if they are
\* not in the configuration any more; and the last of them only if the site
\* runs nothing that was taken back.
Confirm ==
    /\ pending' \subseteq pending
    /\ (pending \ pending') \cap config \cap logged \subseteq running
    /\ pending' = {} => running \subseteq config
    /\ UNCHANGED <<config, logged, running, raced>>

Race == raced' = TRUE

Next == \/ \E c \in Change : Save(c) \/ Log(c) \/ Note(c)
        \/ Restore \/ Activate \/ Confirm \/ Race

Spec == Init /\ [][Next]_vars

\* What follows for those who read the list.
Kept == config \cap logged \subseteq running \cup pending
Clean == pending = {} => running \subseteq config
=============================================================================
