------------------------ MODULE MCGrafanaIdentity ---------------------------
(* Two users of whom the name of one contains that of the other; the first can  *)
(* get a new name and leave its team, and the second one get the name that was    *)
(* the first one's.                                                                *)
EXTENDS GrafanaIdentity, TLC

CONSTANTS r1, r2
Symmetry == Permutations({r1, r2})

MCUsers == {"u1", "u2"}
MCLogins == {"ann", "anna", "eve"}
MCBeginning == [u \in MCUsers |-> IF u = "u1" THEN [login |-> "ann", teams |-> {"dev"}]
                                  ELSE [login |-> "anna", teams |-> {}]]
MCChanges ==
  {[user |-> "u1", becomes |-> [login |-> "eve", teams |-> {}]],
   [user |-> "u2", becomes |-> [login |-> "ann", teams |-> {}]]}
MCContaining == [l \in MCLogins \cup {"admin"} |-> IF l = "ann" THEN {"ann", "anna"} ELSE {l}]
Setting(user, groups, kubeconfig) ==
  [impersonateUser |-> user, impersonateGroups |-> groups, generateKubeconfig |-> kubeconfig]
MCSettings == {Setting(FALSE, FALSE, TRUE), Setting(FALSE, TRUE, FALSE), Setting(TRUE, FALSE, TRUE)}
=============================================================================
