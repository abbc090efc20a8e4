------------------------------ MODULE MCLimits ------------------------------
(* Three machines of the backend that share no state, side by side: the first *)
(* step says which of them moves, and the others stay where they started.    *)
EXTENDS RateLimit, LoginLimit, SanitizeMoments

VARIABLE machine

OneBuiltIn == << [year |-> 1, title |-> <<"title", 1>>, note |-> <<"note", 1>>] >>

AllInit ==
  /\ machine \in {"requests", "logins", "moments"}
  /\ Init /\ LoginInit /\ MomentsInit

AllNext ==
  /\ UNCHANGED machine
  /\ \/ machine = "requests" /\ Next /\ UNCHANGED <<loginVars, moments>>
     \/ machine = "logins" /\ LoginNext /\ UNCHANGED <<vars, moments>>
     \/ machine = "moments" /\ MomentsNext /\ UNCHANGED <<vars, loginVars>>

\* The fairness of each machine, asked only of the one that moves.
AllFairness ==
  /\ WF_vars(machine = "requests" /\ Elapse)
  /\ \A p \in Procs : WF_vars(machine = "requests" /\ Handle(p))
  /\ WF_loginVars(machine = "logins" /\ AttemptsElapse)
  /\ WF_loginVars(machine = "logins" /\ BlockElapse)
  /\ \A p \in Logins : WF_loginVars(machine = "logins" /\ HandleLogin(p))

AllSpec == AllInit /\ [][AllNext]_<<vars, loginVars, moments, machine>> /\ AllFairness
=============================================================================
