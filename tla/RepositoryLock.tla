--------------------------- MODULE RepositoryLock ---------------------------
(***************************************************************************)
(* What the rest of the application may rely on when it schedules a write: *)
(* a repository has a lock that local reads, fetches and pushes share and  *)
(* a write holds alone, and writes obtain it in the order of their         *)
(* requests.  Nothing is said of priorities, limits or cancellation of     *)
(* anything but writes; GitScheduler is shown to implement this.           *)
(***************************************************************************)
CONSTANTS Clients, Nobody

VARIABLES
  line,     \* the clients that wait to write
  before,   \* for each of them, those in the line who asked earlier
  holder,   \* the client that writes, or Nobody
  sharers   \* the clients that read, fetch or push

vars == <<line, before, holder, sharers>>

Init ==
  /\ line = {}
  /\ before = [c \in Clients |-> {}]
  /\ holder = Nobody
  /\ sharers = {}

Behind(b, L) == [c \in Clients |-> IF c \in L THEN b[c] \cap L ELSE {}]

\* With the line L in the order b, the sharers S and the holder H, either the
\* first in line gets the free lock, or sharers join where nobody writes.
Grant(L, b, S, H) ==
  \/ /\ H = Nobody /\ S = {}
     /\ \E w \in L :
          /\ b[w] \cap L = {}
          /\ holder' = w
          /\ line' = L \ {w}
     /\ sharers' = {}
     /\ before' = Behind(b, line')
  \/ /\ holder' = H
     /\ line' = L
     /\ S \subseteq sharers' /\ sharers' \subseteq Clients
     /\ sharers' # S => H = Nobody
     /\ before' = Behind(b, L)

Request(w) ==
  /\ w \notin line /\ w # holder /\ w \notin sharers
  /\ Grant(line \cup {w}, [before EXCEPT ![w] = line], sharers, holder)

GiveUp(w) ==
  /\ w \in line
  /\ line' = line \ {w}
  /\ before' = Behind(before, line')
  /\ UNCHANGED <<holder, sharers>>

Release(c) ==
  /\ c = holder \/ c \in sharers
  /\ Grant(line, before, sharers \ {c}, IF holder = c THEN Nobody ELSE holder)

Share == Grant(line, before, sharers, holder)

Next ==
  \/ \E c \in Clients : Request(c) \/ GiveUp(c) \/ Release(c)
  \/ Share

Spec == Init /\ [][Next]_vars
=============================================================================
