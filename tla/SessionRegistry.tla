--------------------------- MODULE SessionRegistry ---------------------------
(* What a client of /s may rely on, whatever the handlers interleave: a       *)
(* session object is bound to at most one name from its creation until it is  *)
(* killed or displaced, a rename moves it to a name nobody holds, and a       *)
(* session that lost its name never gets one again.                           *)
CONSTANTS Ids, Objects, Nobody

VARIABLES bound,    \* name -> the session object reachable under it
          phase     \* object -> "fresh" (never bound), "bound" or "gone"

rvars == <<bound, phase>>

RInit == /\ bound = [i \in Ids |-> Nobody]
         /\ phase = [o \in Objects |-> "fresh"]

(* A new object takes a name; whoever held the name loses it for good. *)
Bind(i, o) ==
    /\ phase[o] = "fresh"
    /\ bound' = [bound EXCEPT ![i] = o]
    /\ phase' = [x \in Objects |-> IF x = o THEN "bound"
                                   ELSE IF x = bound[i] THEN "gone" ELSE phase[x]]

(* A bound object moves to a free name. *)
Move(i, j) ==
    /\ bound[i] # Nobody
    /\ bound[j] = Nobody
    /\ bound' = [bound EXCEPT ![j] = bound[i], ![i] = Nobody]
    /\ UNCHANGED phase

(* A name is released and the object behind it is gone. *)
Release(i) ==
    /\ bound[i] # Nobody
    /\ bound' = [bound EXCEPT ![i] = Nobody]
    /\ phase' = [phase EXCEPT ![bound[i]] = "gone"]

RNext == \/ \E i \in Ids, o \in Objects : Bind(i, o)
         \/ \E i, j \in Ids : Move(i, j)
         \/ \E i \in Ids : Release(i)

RSpec == RInit /\ [][RNext]_rvars
==============================================================================
