--------------------------- MODULE MigrationService ---------------------------
(****************************************************************************)
(* What the coordinator promises, without threads, locks or sockets: nodes  *)
(* join and are never forgotten; a decision is taken only because something *)
(* was reported since the previous one was begun; it moves work between two *)
(* different members; at most one decision is ever handed out.              *)
(****************************************************************************)
CONSTANT Node

VARIABLES
  members,   \* the nodes that joined
  fresh,     \* something was reported since the last round began
  round,     \* "idle", "deciding" or "decided"
  plan,      \* the migrations decided in this round, as <<source, target>>
  issued     \* how many decisions were handed out

svars == <<members, fresh, round, plan, issued>>

Plans(S) == {{}} \cup {{<<a, b>>} : a, b \in S} 

Init ==
  /\ members = {}
  /\ fresh = FALSE
  /\ round = "idle"
  /\ plan = {}
  /\ issued = 0

(* acceptingConn: addNode                                                    *)
Join(n) ==
  /\ members' = members \cup {n}
  /\ UNCHANGED <<fresh, round, plan, issued>>

(* handleClientReport                                                        *)
Notify ==
  /\ members # {}
  /\ fresh' = TRUE
  /\ UNCHANGED <<members, round, plan, issued>>

(* manageMigration: isUpdateReady is seen and cleared                        *)
Begin ==
  /\ round = "idle"
  /\ fresh
  /\ fresh' = FALSE
  /\ round' = "deciding"
  /\ UNCHANGED <<members, plan, issued>>

(* redistributeLoad                                                          *)
Decide ==
  /\ round = "deciding"
  /\ round' = "decided"
  /\ \E p \in Plans(members) :
        /\ \A m \in p : m[1] # m[2]
        /\ plan' = p
  /\ UNCHANGED <<members, fresh, issued>>

(* the loop over the decision: the first one ever is sent                    *)
Issue ==
  /\ round = "decided"
  /\ round' = "idle"
  /\ issued' = IF plan # {} THEN 1 ELSE issued
  /\ plan' = {}
  /\ UNCHANGED <<members, fresh>>

Next == (\E n \in Node : Join(n)) \/ Notify \/ Begin \/ Decide \/ Issue

Spec == Init /\ [][Next]_svars
=============================================================================
