---------------------------- MODULE MCServices ----------------------------
(* An instance of Services for TLC. *)
EXTENDS Services

MCLevel == [i \in Irq |-> IF i = Msgbox THEN 3 ELSE 2]

MCPackages ==
    <<[count |-> 0, attr |-> "hard"], [count |-> 2, attr |-> "hard"],
      [count |-> 1, attr |-> "none"], [count |-> 1, attr |-> "hard"]>>

MCLengths == <<1, 4, 3, 2>>

MCBase == [idle |-> 0, a |-> 1, b |-> 2, c |-> 3]

ASSUME ManagerAssumption == Manager!ManagerParameters
ASSUME TransferAssumption == Transfer!TransferParameters
ASSUME MutexAssumption == Mutexes!MutexParameters
=============================================================================
