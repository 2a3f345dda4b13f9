--------------------------- MODULE VersionedStore ---------------------------
(***************************************************************************)
(* What a stash promises its clients, with nothing of how it is done: a    *)
(* history of values for each path, and requests that append to several    *)
(* histories at once.  A request takes effect at one instant and only if   *)
(* each path it writes is then as long as it expects; requests with one    *)
(* tag take effect at most once; a request told "void" never does.         *)
(***************************************************************************)
EXTENDS Naturals, Sequences

CONSTANTS Requests, Paths, Values, Tags

VARIABLES
  history,  \* the values each path has had
  wants,    \* what a request asks for: the length it expects of each path
  tag,      \* requests with one tag are repetitions of one another
  applied,  \* requests that have taken effect
  outcome   \* what each request has been told

store == <<history, wants, tag, applied, outcome>>

IsWish(w) == DOMAIN w \subseteq Paths /\ w \in [DOMAIN w -> Nat]

Init ==
  /\ history = [p \in Paths |-> <<>>]
  /\ wants = [r \in Requests |-> <<>>]
  /\ tag = [r \in Requests |-> <<r>>]
  /\ applied = {}
  /\ outcome = [r \in Requests |-> "open"]

(* A request may still change its mind before it has taken effect.         *)
Ask(r) ==
  /\ outcome[r] = "open" /\ r \notin applied
  /\ IsWish(wants'[r]) /\ tag'[r] \in Tags
  /\ wants' = [wants EXCEPT ![r] = wants'[r]]
  /\ tag' = [tag EXCEPT ![r] = tag'[r]]
  /\ UNCHANGED <<history, applied, outcome>>

Apply(r) ==
  /\ outcome[r] = "open" /\ r \notin applied
  /\ \A s \in applied : tag[s] # tag[r]
  /\ DOMAIN wants[r] # {}
  /\ \A p \in DOMAIN wants[r] : wants[r][p] = Len(history[p])
  /\ \E value \in [DOMAIN wants[r] -> Values] :
       history' = [p \in Paths |->
                     IF p \in DOMAIN wants[r]
                     THEN Append(history[p], value[p]) ELSE history[p]]
  /\ applied' = applied \cup {r}
  /\ UNCHANGED <<wants, tag, outcome>>

Confirm(r) ==
  /\ outcome[r] = "open"
  /\ \E s \in applied : s = r \/ tag[s] = tag[r]
  /\ outcome' = [outcome EXCEPT ![r] = "done"]
  /\ UNCHANGED <<history, wants, tag, applied>>

Refuse(r) ==
  /\ outcome[r] = "open" /\ r \notin applied
  /\ outcome' = [outcome EXCEPT ![r] = "void"]
  /\ UNCHANGED <<history, wants, tag, applied>>

Next ==
  \E r \in Requests : Ask(r) \/ Apply(r) \/ Confirm(r) \/ Refuse(r)

Spec == Init /\ [][Next]_store
=============================================================================
