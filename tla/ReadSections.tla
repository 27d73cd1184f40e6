----------------------------- MODULE ReadSections -----------------------------
(***************************************************************************)
(* What the lock of lock-free readers promises, without counters.          *)
(*                                                                         *)
(* A reader is out, in a section, or in a section whose lock was taken     *)
(* away (it has lost it, and will find that out when it leaves).  A writer *)
(* that is about to free memory waits for the readers that are in when the *)
(* wait begins and for nobody else; a writer that reverts the whole set    *)
(* lets nobody in and goes on when nobody is in.  When its patience ends   *)
(* it takes the locks of those it waits for away.                          *)
(***************************************************************************)
CONSTANT Readers

VARIABLES
  section,  \* [Readers -> {"out", "in", "lost"}]
  mode,     \* the writer: "open", "wait", "closing" or "shut"
  waited    \* the readers it waits for

vars == <<section, mode, waited>>

Inside == {r \in Readers : section[r] = "in"}

Init ==
  /\ section = [r \in Readers |-> "out"]
  /\ mode = "open" /\ waited = {}

Enter(r) ==
  /\ section[r] = "out" /\ mode \in {"open", "wait"}
  /\ section' = [section EXCEPT ![r] = "in"]
  /\ UNCHANGED <<mode, waited>>

\* The reader learns from the result whether its lock was good to the end.
Leave(r) ==
  /\ section[r] # "out"
  /\ section' = [section EXCEPT ![r] = "out"]
  /\ waited' = waited \ {r}
  /\ UNCHANGED mode

\* A kept lock lets the waiting writer pass and covers a new section.
Renew(r) ==
  /\ section[r] = "in" /\ mode \in {"open", "wait"}
  /\ waited' = waited \ {r}
  /\ UNCHANGED <<section, mode>>

BeginWait ==
  /\ mode = "open" /\ mode' = "wait"
  /\ waited' = Inside
  /\ UNCHANGED section

EndWait ==
  /\ mode = "wait" /\ waited = {}
  /\ mode' = "open"
  /\ UNCHANGED <<section, waited>>

BeginClose ==
  /\ mode = "open" /\ mode' = "closing"
  /\ waited' = Inside
  /\ UNCHANGED section

EndClose ==
  /\ mode = "closing" /\ waited = {}
  /\ mode' = "shut"
  /\ UNCHANGED <<section, waited>>

Open ==
  /\ mode = "shut" /\ mode' = "open"
  /\ UNCHANGED <<section, waited>>

\* Timeout: exactly the readers waited for lose their locks.
Expire ==
  /\ \/ mode = "wait" /\ mode' = "wait"
     \/ mode = "closing" /\ mode' = "shut"
  /\ section' = [r \in Readers |-> IF r \in waited THEN "lost" ELSE section[r]]
  /\ waited' = {}

Next ==
  \/ \E r \in Readers : Enter(r) \/ Leave(r) \/ Renew(r)
  \/ BeginWait \/ EndWait \/ BeginClose \/ EndClose \/ Open \/ Expire

Spec == Init /\ [][Next]_vars
=============================================================================
