----------------------------- MODULE MCMembers -----------------------------
(***************************************************************************)
(* Members and Knowledge: what a Room records of its identities and of     *)
(* what they know.  The two share no variable and no property relates      *)
(* them, so that an interleaving of their steps shows nothing that the     *)
(* steps of one do not show; intakes look at members and sessions, never   *)
(* at credentials, and a local join does to members what creating them     *)
(* does.  A behaviour chooses credentials, intakes or knowledge and stays  *)
(* with it: the sum of their states, not the product.                      *)
(***************************************************************************)
EXTENDS Members, Knowledge, TLC

VARIABLE part

\* Two identities that use the same name: at most one of them is created by
\* joining, the other by the management console.
Namesakes == {p \in Members \X Members : p[1] # p[2]}

MCInit == Init /\ KnowledgeInit /\ part \in {"credentials", "intakes", "knowledge"}

MCNext ==
  \/ part \in {"credentials", "intakes"} /\ MemberNext /\ UNCHANGED <<knowledgeVars, part>>
  \/ part = "credentials" /\ CredNext /\ UNCHANGED <<knowledgeVars, part>>
  \/ part = "intakes" /\ SessionNext /\ UNCHANGED <<knowledgeVars, part>>
  \/ part = "knowledge" /\ KnowledgeNext /\ UNCHANGED <<vars, part>>

MCSpec == MCInit /\ [][MCNext]_<<vars, knowledgeVars, part>>

Symmetry == Permutations(Members) \cup Permutations(Creds) \cup Permutations(Sessions)
            \cup Permutations(Calls)
=============================================================================
