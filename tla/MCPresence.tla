----------------------------- MODULE MCPresence -----------------------------
(***************************************************************************)
(* The instances of Presence that TLC checks.                              *)
(***************************************************************************)
EXTENDS PresenceInv, TLC

\* Worlds that are never late: one world stalls as it likes, and these beat
\* when a beat is due and settle it before the clock moves on.
CONSTANT Prompt

PromptWorlds ==
    \A w \in Prompt : Running(w) /\ pc[w] \notin {"retireBeat", "closing"} =>
        /\ beat[w] <= BeatInterval
        /\ flight[w] # "none" => beat[w] = BeatInterval \/ pc[w] = "beating"
=============================================================================
