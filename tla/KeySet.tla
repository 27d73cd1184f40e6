-------------------------------- MODULE KeySet --------------------------------
(***************************************************************************)
(* A set of keys that is changed one key at a time and read by questions   *)
(* that take time: what a chain of the hash table promises to those who    *)
(* read it without locks.                                                  *)
(*                                                                         *)
(* A question is about some keys; its answer is the set of those it found. *)
(* A key that was there all the time must be in the answer, a key that was *)
(* never there must not, and for the others either will do.  If the set is *)
(* loose, a question about one key may miss it but never makes it up, and  *)
(* one about more may find too much but misses none.                       *)
(***************************************************************************)
CONSTANT Readers

VARIABLES
  keys,     \* those that can be in the set
  loose,    \* half of what is promised
  content,  \* the keys in the set
  asked,    \* the keys each reader asks for, {} if it does not
  always,   \* those that were in the set ever since it asked
  ever,     \* those that were in the set at some time since
  answer    \* what it found, until it asks again

vars == <<keys, loose, content, asked, always, ever, answer>>

Init ==
  /\ content = {}
  /\ asked  = [r \in Readers |-> {}]
  /\ always = [r \in Readers |-> {}]
  /\ ever   = [r \in Readers |-> {}]
  /\ answer = [r \in Readers |-> {}]

\* One key comes or goes.
Change ==
  /\ content' # content
  /\ \E k \in keys : content' \cup {k} = content \cup {k}
  /\ always' = [r \in Readers |-> always[r] \cap content']
  /\ ever'   = [r \in Readers |-> ever[r] \cup (content' \cap asked[r])]
  /\ UNCHANGED <<asked, answer>>

Ask(r, about) ==
  /\ asked[r] = {} /\ about # {}
  /\ asked'  = [asked EXCEPT ![r] = about]
  /\ always' = [always EXCEPT ![r] = about \cap content]
  /\ ever'   = [ever EXCEPT ![r] = about \cap content]
  /\ answer' = [answer EXCEPT ![r] = {}]
  /\ UNCHANGED content

OneKey(r) == \E k \in asked[r] : asked[r] = {k}

Answer(r) ==
  /\ asked[r] # {}
  /\ asked'  = [asked EXCEPT ![r] = {}]
  /\ always' = [always EXCEPT ![r] = {}]
  /\ ever'   = [ever EXCEPT ![r] = {}]
  /\ \E found \in SUBSET asked[r] :
       /\ always[r] \subseteq found \/ (loose /\ OneKey(r))
       /\ found \subseteq ever[r] \/ (loose /\ ~OneKey(r))
       /\ answer' = [answer EXCEPT ![r] = found]
  /\ UNCHANGED content

Next ==
  /\ \/ Change
     \/ \E r \in Readers : Answer(r) \/ \E about \in SUBSET keys : Ask(r, about)
  /\ UNCHANGED <<keys, loose>>

Spec == Init /\ [][Next]_vars
=============================================================================
