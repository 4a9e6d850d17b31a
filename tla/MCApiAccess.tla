----------------------------- MODULE MCApiAccess -----------------------------
(***************************************************************************)
(* Instances of ApiAccess for TLC: each scenario starts from a database of    *)
(* the program and opens some of the operations.                             *)
(***************************************************************************)
EXTENDS ApiAccess, TLC

CONSTANTS root, boss, ann, bob, mail, t1, t2, c1, q1, q2, sys, own, g1, k1, x1, e1, e2

MCNameOf == [m \in {sys, own} |-> "gpt"]

Row(admin, change) ==
  [NoUser EXCEPT !.exists = TRUE, !.active = TRUE, !.admin = admin, !.change = change]

(* Two administrators and a user, each logged in; bob is not registered.      *)
BaseUsers == [u \in Users |-> IF u = bob THEN NoUser ELSE Row(u \in {root, boss}, FALSE)]
BaseSessions ==
  [s \in SessionIds |-> IF s > 3 THEN NoSession
                        ELSE [user |-> CASE s = 1 -> root [] s = 2 -> boss [] s = 3 -> ann,
                              live |-> TRUE]]

Empty(operations, n) ==
  [ops |-> operations, requests |-> n, user |-> BaseUsers, session |-> BaseSessions,
   code |-> [c \in Codes |-> NoCode], model |-> [m \in Models |-> NoModel],
   group |-> [g \in Groups |-> NoGroup], key |-> [k \in Keys |-> NoKey],
   config |-> [x \in Configs |-> NoConfig]]

Administering == Empty({"disable", "enable", "create", "reset", "profile"}, 3)

(* ann's hash has old parameters and nobody but she can log in.              *)
LoggingIn ==
  [Empty({"login", "password", "reset", "forced", "logout"}, 4) EXCEPT
     !.user = [u \in Users |-> IF u = ann THEN [Row(FALSE, FALSE) EXCEPT !.weak = TRUE]
                               ELSE IF u = root THEN Row(TRUE, FALSE) ELSE NoUser],
     !.session = [s \in SessionIds |-> IF s = 1 THEN [user |-> root, live |-> TRUE]
                                       ELSE NoSession]]

Inviting ==
  [Empty({"register", "reinvite", "revoke", "uninvite", "invite"}, 3) EXCEPT
     !.user = [u \in Users |-> IF u \in {boss, bob} THEN NoUser ELSE Row(u = root, FALSE)],
     !.session = LoggingIn.session,
     !.code = [c \in Codes |-> [NoCode EXCEPT !.exists = TRUE, !.max = 2]]]

(* A system model in a public group, a key of ann restricted to it.          *)
Catalogue ==
  [Empty({"addModel", "editModel", "dropModel", "fillGroup", "addKey", "editKey",
          "admit"}, 3) EXCEPT
     !.model = [m \in Models |-> IF m = sys THEN [exists |-> TRUE, owner |-> None,
                                                  enabled |-> TRUE] ELSE NoModel],
     !.group = [g \in Groups |-> [exists |-> TRUE, owner |-> root, public |-> TRUE,
                                  items |-> {sys}]],
     !.key = [k \in Keys |-> [NoKey EXCEPT !.exists = TRUE, !.owner = ann, !.enabled = TRUE,
                                           !.picks = {sys}]]]

Owning ==
  [Empty({"addGroup", "dropGroup", "addKey", "switchKey", "dropKey", "dropConfig",
          "cite", "disable", "enable"}, 3) EXCEPT
     !.model = Catalogue.model, !.group = Catalogue.group,
     !.config = [x \in Configs |-> [exists |-> TRUE, owner |-> ann, enabled |-> TRUE,
                                    endpoint |-> e1, cited |-> FALSE]]]

Configuring == Empty({"addConfig", "editConfig", "dropConfig", "profile"}, 4)

MCScenarios == {Administering, Inviting, LoggingIn, Catalogue, Owning, Configuring}

MCThreads == Permutations(Threads)

MCTwoAdmins == {Empty({"disable"}, 2)}

(* ann's key is used by a caller and then deleted.                           *)
MCUsedKey ==
  {[Empty({"admit", "dropKey", "switchKey"}, 2) EXCEPT
      !.model = Catalogue.model, !.key = Catalogue.key]}
============================================================================
