---------------------------- MODULE AccountLock ----------------------------
(***************************************************************************)
(* What the presence tables promise the worlds that share them: an account *)
(* belongs to one world or to none; a world gives up its own accounts and  *)
(* takes free ones as it likes; it takes an account from another world     *)
(* only while that world is suspected dead.                                *)
(***************************************************************************)
CONSTANTS Worlds, Accounts, NoWorld

VARIABLES
    owner,      \* the world each account belongs to
    suspected   \* worlds other worlds may take accounts from

Init == owner = [a \in Accounts |-> NoWorld] /\ suspected = Worlds

\* A free account, or one of a suspected world, goes to w.
Take(a, w) ==
    /\ owner[a] \in suspected \cup {NoWorld, w}
    /\ owner' = [owner EXCEPT ![a] = w]
    /\ UNCHANGED suspected

\* w gives up some of its accounts.
Yield(w, given) ==
    /\ \A a \in given : owner[a] = w
    /\ owner' = [a \in Accounts |-> IF a \in given THEN NoWorld ELSE owner[a]]
    /\ UNCHANGED suspected

\* Worlds fall silent, beat again, or leave.
Judge ==
    /\ suspected' \in SUBSET Worlds
    /\ UNCHANGED owner

Next ==
    \/ \E a \in Accounts, w \in Worlds : Take(a, w)
    \/ \E w \in Worlds, given \in SUBSET Accounts : Yield(w, given)
    \/ Judge

Spec == Init /\ [][Next]_<<owner, suspected>>
=============================================================================
