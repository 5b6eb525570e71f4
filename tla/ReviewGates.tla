---------------------------- MODULE ReviewGates ----------------------------
(***************************************************************************)
(* The decisions of the review stage, as operators:                        *)
(*   enforce-review-quorum.py - whether the reviews that came in, and the  *)
(*     waivers for those that did not, allow the synthesis;                *)
(*   xai-deepseek-adapters.py - what result a provider's adapter makes up  *)
(*     for a scenario, what it says of a live answer, and the contract;    *)
(*   live-cutover-dress-rehearsal.py and premortem-check.py - what must be *)
(*     right before the live smoke, as each of them sees it.               *)
(***************************************************************************)
EXTENDS Integers, FiniteSets

CONSTANTS Required, Optional,  \* the slots of independent review
          MinOptional, MinTotal,
          Eligible,            \* eligible_statuses
          Missing              \* the status of a slot without a result

ASSUME SlotsAreFinite == IsFiniteSet(Required) /\ IsFiniteSet(Optional)
ASSUME SlotsDiffer == Required \cap Optional = {}
ASSUME MinimaAreNumbers == MinOptional \in Nat /\ MinTotal \in Nat
ASSUME MissingIsNotEligible == Missing \notin Eligible

Reviewers == Required \cup Optional

-----------------------------------------------------------------------------
(* Review quorum.                                                          *)

\* A waiver has no expiry, a time in UTC, a time without a zone, or garbage.
Expiries == {"none", "utc", "naive", "garbled"}

\* A waiver counts until it expires, if its owner made the slot eligible.  One
\* whose expiry is garbage has expired, one without expiry never does.
WaiverValid(w, now) ==
    w.eligible /\ (w.expiry = "none" \/ (w.expiry = "utc" /\ now <= w.expires))

Successes(slots, status) == {s \in slots : status[s] \in Eligible}
Waived(slots, status, waivers) == {s \in slots : status[s] \notin Eligible /\ s \in waivers}

\* The optional reviewers and the total are met by successes, or else by
\* successes and waivers.
ShortBy(slots, min, status) == Cardinality(Successes(slots, status)) < min
Covered(slots, min, status, waivers) ==
    Cardinality(Successes(slots, status)) + Cardinality(Waived(slots, status, waivers)) >= min

RequiredErrors(status, waivers) == {s \in Required : status[s] \notin Eligible /\ s \notin waivers}

SynthesisEligible(status, waivers) ==
    /\ RequiredErrors(status, waivers) = {}
    /\ Covered(Optional, MinOptional, status, waivers)
    /\ Covered(Reviewers, MinTotal, status, waivers)

\* degraded_labels is not empty.
Labelled(status, waivers) ==
    \/ Waived(Required, status, waivers) # {}
    \/ ShortBy(Optional, MinOptional, status) /\ Covered(Optional, MinOptional, status, waivers)
    \/ ShortBy(Reviewers, MinTotal, status) /\ Covered(Reviewers, MinTotal, status, waivers)

-----------------------------------------------------------------------------
(* Provider adapters.                                                      *)

Scenarios == {"success", "auth_failure", "rate_limit", "model_unavailable", "search_disabled",
              "missing_citations", "raw_reasoning_leak"}

\* base_result: a success, whatever the scenario; for DeepSeek with a search
\* and a citation.
BaseResult(provider, scenario) ==
    [provider |-> provider, scenario |-> scenario, status |-> "success",
     search |-> provider = "deepseek", cited |-> provider = "deepseek"]

ClassifyFailureKeeping(provider, scenario) == BaseResult(provider, scenario)
ClassifyFailure(provider, scenario) ==
    [BaseResult(provider, scenario) EXCEPT !.status = "failed",
        !.search = @ /\ scenario # "search_disabled",
        !.cited = @ /\ scenario # "missing_citations"]

\* Two scenarios are about DeepSeek's search only and give no result elsewhere.
NoSuchScenario(provider, scenario) ==
    scenario \in {"search_disabled", "missing_citations"} /\ provider # "deepseek"
Build(provider, scenario) ==
    IF scenario = "success" THEN BaseResult(provider, scenario) ELSE ClassifyFailure(provider, scenario)

ContractErrors(r) ==
    IF r.provider # "deepseek" THEN {}
    ELSE (IF r.search THEN {} ELSE {"search"}) \cup (IF r.cited THEN {} ELSE {"citations"})

\* The end of main for a scenario: --check-env without a key is auth_failure.
ScenarioOf(scenario, checkEnv, key) == IF checkEnv /\ ~key THEN "auth_failure" ELSE scenario
ScenarioOk(provider, scenario) ==
    scenario = "success" /\ ContractErrors(Build(provider, scenario)) = {}

-----------------------------------------------------------------------------
(* Live cutover: what the rehearsal looks at before it calls anybody.      *)

\* The fixtures that the rehearsal reads, and those that the premortem reads,
\* each in this order.
FixtureNames == {"checklist", "docs", "capabilities", "browser", "index", "waiver"}
PremortemNames == {"modes", "checklist", "waiver", "progress"}
Position(f) == CASE f = "modes" -> 0 [] f = "checklist" -> 1 [] f = "docs" -> 2
                 [] f = "capabilities" -> 3 [] f = "browser" -> 4 [] f = "index" -> 5
                 [] f = "waiver" -> 6 [] f = "progress" -> 7

\* parse_utc reads a UTC time with mktime, as local time: skew is how far the
\* machine's zone is behind UTC.
ParseUtc(expires, skew) == expires + skew

\* A fixture is "good", "bad" (it says something else than it must, to whoever
\* reads it), "absent" or "torn" (no JSON).  A checklist may also have too few
\* phases, which only the premortem counts, or lack one that only the rehearsal
\* looks for.
States(f) == {"good", "bad", "absent", "torn"}
             \cup IF f = "checklist" THEN {"few_phases", "phase_missing"} ELSE {}

ChecklistError(state) == state \in {"absent", "bad", "phase_missing"}
DocsError(state, expires, skew, now) ==
    state = "absent" \/ (state = "bad" \/ ParseUtc(expires, skew) <= now)
CapabilityError(state, live, key) == state \in {"absent", "bad"} \/ (live /\ ~key)
BrowserError(state) == state \in {"absent", "bad"}
IndexError(state) == state \in {"absent", "bad"}
WaiverPolicyError(state) == state \in {"absent", "bad"}

Problem(f, fixtures, world) ==
    CASE f = "checklist" -> ChecklistError(fixtures[f])
      [] f = "docs" -> DocsError(fixtures[f], world.expires, world.skew, world.now)
      [] f = "capabilities" -> CapabilityError(fixtures[f], world.live, world.key)
      [] f = "browser" -> BrowserError(fixtures[f])
      [] f = "index" -> IndexError(fixtures[f])
      [] f = "waiver" -> WaiverPolicyError(fixtures[f])

\* A fixture that does not parse is an error and ends the checks.
Reached(f, names, fixtures) ==
    \A g \in names : Position(g) < Position(f) => fixtures[g] # "torn"
FixtureErrors(fixtures, world) ==
    {f \in FixtureNames :
        Reached(f, FixtureNames, fixtures) /\ (fixtures[f] = "torn" \/ Problem(f, fixtures, world))}

\* How the remote browser is configured: not at all, a host without a token, a
\* host with ORACLE_REMOTE_TOKEN or with ORACLE_REMOTE_TOKENS, or a pool with
\* either.
Remotes == {"none", "bare", "token", "tokens", "pool"}

\* live_env_errors: an approval always, the switch and the remote for live.
EnvErrorsApprovalOnly(env, live) == ~env.approval
EnvErrors(env, live) == ~env.approval \/ (live /\ (~env.switch \/ env.remote \in {"none", "bare"}))

-----------------------------------------------------------------------------
(* Premortem.                                                              *)

\* If a fixture is missing, no other is looked at.
PremortemFixtureErrors(fixtures) ==
    LET absent == {f \in PremortemNames : fixtures[f] = "absent"}
        wrong == {f \in PremortemNames : /\ Reached(f, PremortemNames, fixtures)
                                         /\ fixtures[f] \in {"torn", "bad", "few_phases"}}
    IN IF absent # {} THEN absent ELSE wrong

\* environment_diagnostics: the tools that must be there and, if there is a host,
\* its name, its port and its token; a host that is not valid is not tried.
\* Neither oracle, npx nor the pool matter.
Diagnosed(env, tools, valid, reachable) ==
    LET host == env.remote \in {"bare", "token", "tokens"}
    IN (IF tools THEN {} ELSE {"tools"})
       \cup (IF host /\ ~valid THEN {"host"} ELSE {})
       \cup (IF host /\ valid /\ ~reachable THEN {"unreachable"} ELSE {})
       \cup (IF host /\ env.remote # "token" THEN {"token"} ELSE {})
=============================================================================
