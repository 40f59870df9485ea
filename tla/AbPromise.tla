------------------------------ MODULE AbPromise ------------------------------
(***************************************************************************)
(* What an A/B update promises, without saying how: of two systems one     *)
(* always comes up; only a system that comes up ever runs; and while one   *)
(* runs, only the other one is changed.  AbUpdate implements it.           *)
(***************************************************************************)
CONSTANTS
    Slots,   \* the places for a system
    None     \* no system

VARIABLES
    good,    \* the slots whose system would come up
    running  \* the slot that runs, or None while the board is down or starting

vars == <<good, running>>

Init == good = Slots /\ running = None

\* The board comes up with a system that can.
Boot ==
    /\ running = None
    /\ running' \in good
    /\ UNCHANGED good

\* A reset, a power cut.
Stop ==
    /\ running # None
    /\ running' = None
    /\ UNCHANGED good

\* The running system changes another slot, for the better or for the worse.
Change(s) ==
    /\ running # None
    /\ s # running
    /\ good' \in {good \ {s}, good \cup {s}}
    /\ UNCHANGED running

Next == Boot \/ Stop \/ \E s \in Slots : Change(s)

Spec == Init /\ [][Next]_vars

\* A board that is down comes up.
FairSpec == Spec /\ WF_vars(Boot)
=============================================================================
