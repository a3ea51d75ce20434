----------------------------- MODULE MCServices -----------------------------
(***************************************************************************)
(* The services around the personas on one instance.  They share no state  *)
(* that their properties are about (the account of Sessions and the row of *)
(* UserCounters are any row of Identities, in columns of their own): one   *)
(* of them is explored at a time, the others staying at one start of       *)
(* theirs.                                                                 *)
(***************************************************************************)
EXTENDS TLC, Identities, Sessions, Payments, UserCounters, Pagination, GeminiKeys, SkillStore

CONSTANTS sa, sb

VARIABLE explored

MCSuggested == {<<sa, sb>>, <<sb, sa>>}
MCFallbacks == <<sa>>

Services == {"identities", "sessions", "payments", "counters", "pagination", "keys", "skills"}

Init ==
  /\ explored \in Services
  /\ IdentitiesInit
  /\ SessionsInit
  /\ explored # "sessions" => user.password = CHOOSE p \in Passwords : TRUE
  /\ PaymentsInit
  /\ CountersInit
  /\ PaginationInit
  /\ explored # "pagination" => Listed = {} /\ walk.descending
  /\ KeysInit
  /\ SkillsInit
  /\ explored # "skills" => stored = {}

Next ==
  \/ /\ explored = "identities" /\ IdentitiesNext
     /\ UNCHANGED <<sessionVars, paymentVars, counterVars, paginationVars, keyVars, skillVars>>
  \/ /\ explored = "sessions" /\ SessionsNext
     /\ UNCHANGED <<identityVars, paymentVars, counterVars, paginationVars, keyVars, skillVars>>
  \/ /\ explored = "payments" /\ PaymentsNext
     /\ UNCHANGED <<identityVars, sessionVars, counterVars, paginationVars, keyVars, skillVars>>
  \/ /\ explored = "counters" /\ CountersNext
     /\ UNCHANGED <<identityVars, sessionVars, paymentVars, paginationVars, keyVars, skillVars>>
  \/ /\ explored = "pagination" /\ PaginationNext
     /\ UNCHANGED <<identityVars, sessionVars, paymentVars, counterVars, keyVars, skillVars>>
  \/ /\ explored = "keys" /\ KeysNext
     /\ UNCHANGED <<identityVars, sessionVars, paymentVars, counterVars, paginationVars, skillVars>>
  \/ /\ explored = "skills" /\ SkillsNext
     /\ UNCHANGED <<identityVars, sessionVars, paymentVars, counterVars, paginationVars, keyVars>>

vars == <<explored, identityVars, sessionVars, paymentVars, counterVars, paginationVars,
          keyVars, skillVars>>

Spec == Init /\ [][explored' = explored /\ Next]_vars

TypeOK ==
  /\ IdentitiesTypeOK
  /\ SessionsTypeOK
  /\ PaymentsTypeOK
  /\ CountersTypeOK
  /\ PaginationTypeOK
  /\ KeysTypeOK
  /\ SkillsTypeOK

Symmetry == Permutations(UserIds) \cup Permutations(Passwords)
=============================================================================
