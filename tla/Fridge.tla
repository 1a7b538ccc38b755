-------------------------------- MODULE Fridge --------------------------------
(***************************************************************************)
(* What the relay driver of the brewing fridge promises, free of pins,     *)
(* registers and handlers.  A request names the state the fridge should    *)
(* take; the relays follow it, and a change between cooling and heating    *)
(* always opens both relays first.  A restart of the controller may come   *)
(* at any moment: it requests OFF and may open the relays by itself.       *)
(*                                                                         *)
(* BeerCtrl implements this specification (see BeerCtrlProofs and          *)
(* MCPwmWindow).                                                           *)
(***************************************************************************)

FridgeState == {"OFF", "COOL", "HEAT"}

VARIABLES
    relays,     \* what the two relays do: a FridgeState
    request     \* the state last asked for

fvars == <<relays, request>>

FInit == relays = "OFF" /\ request = "OFF"

(* A new request; the relays do not move yet. *)
Ask(s) == request' = s /\ UNCHANGED relays

(* Break before make: whatever is energised and is not asked for opens. *)
Open == /\ relays # "OFF"
        /\ relays # request
        /\ relays' = "OFF"
        /\ UNCHANGED request

(* Only from the open state may a relay close. *)
Close == /\ relays = "OFF"
         /\ relays' = request
         /\ UNCHANGED request

(* The controller restarts: a relay may drop, none may close. *)
Restart == request' = "OFF" /\ relays' \in {relays, "OFF"}

FNext == (\E s \in FridgeState : Ask(s)) \/ Open \/ Close \/ Restart

FSafety == FInit /\ [][FNext]_fvars

(* The relays do follow a request unless it is replaced. *)
FSpec == FSafety /\ WF_fvars(Open \/ Close)
===============================================================================
