------------------------------ MODULE MCReview ------------------------------
(***************************************************************************)
(* One required and three optional reviewers.  The programs that read the    *)
(* reviews and the rehearsal share only the clock and the keys, so the     *)
(* worlds to start with vary what the one reads or what the other reads.   *)
(***************************************************************************)
EXTENDS Review, TLC

CONSTANTS p1, p2, gemini, claude, xai, deepseek

Provider(s) == CASE s = xai -> "xai" [] s = deepseek -> "deepseek"

Allowed == [approval |-> TRUE, switch |-> TRUE, remote |-> "token", keys |-> TRUE]
InOrder == [f \in FixtureNames \cup PremortemNames |-> "good"]
SomeWaivers ==
    {[eligible |-> TRUE, expiry |-> e, expires |-> 0] : e \in Expiries}
    \cup {[eligible |-> FALSE, expiry |-> "none", expires |-> 0], Text}

\* Nobody, one reviewer or everybody has a waiver.
Waiving ==
    {[s \in Reviewers |-> IF s \in slots THEN w ELSE NoFile] :
        w \in SomeWaivers, slots \in {{}, Reviewers} \cup {{s} : s \in Reviewers}}

\* To the quorum a failed review is a missing one: one reviewer suffices.
SomeResults == {r \in [Reviewers -> Statuses \cup {NoFile}] : \A s \in Optional : r[s] # "failed"}

ReviewWorlds ==
    {[results |-> r, waivers |-> w, fixtures |-> InOrder, expires |-> 0, env |-> Allowed] :
        r \in SomeResults, w \in Waiving}

\* At most one fixture is not in order; the environment then allows the smoke.
SomeFixtures ==
    UNION {{[InOrder EXCEPT ![f] = state] : state \in States(f)} : f \in FixtureNames \cup PremortemNames}

SomeSurroundings ==
    (SomeFixtures \X {[Allowed EXCEPT !.remote = r] : r \in {"token", "tokens"}})
    \cup ({InOrder} \X Environments)

RehearsalWorlds ==
    {[results |-> [s \in Reviewers |-> NoFile], waivers |-> [s \in Reviewers |-> NoFile],
      fixtures |-> se[1], expires |-> t, env |-> se[2]] : se \in SomeSurroundings, t \in Times}

SomeWorlds == ReviewWorlds \cup RehearsalWorlds
Symmetry == Permutations(Procs)
=============================================================================
