----------------------------- MODULE MCGateway ------------------------------
(***************************************************************************)
(* Two requests at a time, an account and a session left from earlier, and *)
(* an email that is asked for with two wallets.                            *)
(***************************************************************************)
EXTENDS Gateway, TLC

CONSTANTS s1, s2

MCSlot == {s1, s2}

MCCall == Slot \X (1..Attempts)

\* One request at a time: its attempts still overlap.
MCOneSlot == {s1}

RegisterAs(email, wallet) ==
    [op |-> "register", email |-> email, wallet |-> wallet,
     password1 |-> "p", password2 |-> "p"]

LoginAs(email) == [op |-> "login", email |-> email, password |-> "p"]

MCAsk ==
    {RegisterAs("f", "0xA"), RegisterAs("f", "0xB"), LoginAs("e"), LoginAs("f")}

\* An account that is there already, one that is not, one that cannot be.
MCAccounts ==
    {RegisterAs("e", "0xB"), RegisterAs("f", "0xA"), LoginAs("f"),
     [RegisterAs("f", "0xA") EXCEPT !.password1 = "long", !.password2 = "long"]}

MCOldAccounts ==
    {[email |-> "e", wallet |-> "0xA", password |-> "p"]}

MCOldTokens ==
    <<[type |-> "refresh", email |-> "e", wallet |-> "0xA", exp |-> 1]>>

\* A session whose refresh token expires at the first tick.
MCLastTokens ==
    <<[type |-> "refresh", email |-> "e", wallet |-> "0xA", exp |-> 0]>>

MCText == {"", "e", "f", "0xA", "0xB", "p", "long"}

MCHex == {"0xA", "0xB"}

MCTransaction == {[id |-> 1, merchant |-> "0xA"]}

\* Slots are interchangeable.
SlotSymmetry == Permutations(MCSlot)
=============================================================================
