----------------------------- MODULE OrderBook -----------------------------
(***************************************************************************)
(* What executing paper plans promises of the positions: an account works  *)
(* on one plan at a time and fills its orders piece by piece, none beyond  *)
(* its size and an opening leg only after its close; a position moves by   *)
(* what is filled and by nothing else; a plan that was given up is never   *)
(* taken up again.  Cash, quotes, clocks and refusals have no place here.  *)
(***************************************************************************)
EXTENDS Integers, Sequences, Functions

CONSTANT Instruments

VARIABLES
    position,   \* lots of every instrument
    plan,       \* number of the plan at work, 0 before the first
    orders,     \* its orders: [instrument, delta, reduce_only, child]
    filled      \* lots filled of each of them

book == <<position, plan, orders, filled>>

Init ==
    /\ position = [i \in Instruments |-> 0]
    /\ plan = 0
    /\ orders = << >>
    /\ filled = << >>

Lots(n) == IF n < 0 THEN -n ELSE n

Signed(order, lots) == IF order.delta < 0 THEN -lots ELSE lots

\* How a step that starts from the progress "before" moves the position.
MovesBy(before) ==
    position' = [i \in Instruments |->
        position[i] + SumFunction(
            [k \in { k \in DOMAIN orders' : orders'[k].instrument = i } |->
                Signed(orders'[k], filled'[k] - before[k])])]

\* A position without an opening leg is only reduced by its reduction.
Reduces(k) ==
    LET i == orders'[k].instrument
    IN  orders'[k].reduce_only
          /\ (\A j \in DOMAIN orders' : orders'[j].instrument = i => ~ orders'[j].child)
        => Lots(position'[i]) <= Lots(position[i])

\* The close that an opening leg waits for is filled.
IsReleased(k) ==
    orders'[k].child /\ filled'[k] > 0 =>
        \E j \in DOMAIN orders' :
            /\ orders'[j].instrument = orders'[k].instrument
            /\ orders'[j].reduce_only
            /\ filled'[j] = Lots(orders'[j].delta)

Fills(before) ==
    /\ DOMAIN filled' = DOMAIN orders'
    /\ \A k \in DOMAIN orders' :
        /\ before[k] <= filled'[k]
        /\ filled'[k] <= Lots(orders'[k].delta)
        /\ Reduces(k)
        /\ IsReleased(k)
    /\ MovesBy(before)

\* The plan at work is filled some more.
Continue ==
    /\ UNCHANGED <<plan, orders>>
    /\ Fills(filled)

\* A newer plan is taken to work and filled.
Replace ==
    /\ plan' > plan
    /\ Fills([k \in DOMAIN orders' |-> 0])

\* The plan at work is given up for one that is still to come.
Retire ==
    /\ orders' = << >> /\ filled' = << >>
    /\ UNCHANGED <<position, plan>>

Next == Continue \/ Replace \/ Retire

Spec == Init /\ [][Next]_book
=============================================================================
