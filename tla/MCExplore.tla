----------------------------- MODULE MCExplore -----------------------------
(***************************************************************************)
(* Explore on an instance small enough for TLC.  The cache is one key and  *)
(* its interplay with a second persona or a second edit adds nothing: the  *)
(* listing is read while one persona has been touched only.                *)
(***************************************************************************)
EXTENDS Explore, TLC

Symmetry == Permutations(Personas) \cup Permutations(Requests) \cup Permutations(Readers)

Touched == {p \in Personas :
  \/ row[p].deleted \/ row[p].status = "published" \/ refinement[p] # "none"
  \/ \E f \in Files : row[p].files[f] # <<p, 0>>
  \/ \E q \in Requests : "persona" \in DOMAIN request[q] /\ request[q].persona = p}

Browsing == \E r \in Readers : reader[r].pc # "idle"

Uniform(files) == \A f, g \in Files : files[f] = files[g]

\* bound: with the cache in play, one persona of one name, one publication at a time and
\* nothing beside it, no remains of a failed one, and refinements that change every file
OneAtATime ==
  Browsing =>
    /\ Cardinality(Touched) <= 1
    /\ Cardinality({q \in Requests : Busy(q)}) <= 1
    /\ \A q \in Requests : Busy(q) =>
         ~request[q].private /\ \A p \in Personas : refinement[p] = "none" /\ ~row[p].deleted
    /\ \A p \in Personas :
         row[p].name = (CHOOSE n \in Names : TRUE) /\ Uniform(row[p].files)
    /\ \A r \in Repositories :
         \/ repo[r] = [f \in Files |-> Nothing]
         \/ \E p \in Personas : row[p].url = r
         \/ \E q \in Requests : Busy(q) /\ Repository(q) = r
=============================================================================
