----------------------------- MODULE MCTooling ------------------------------
(* A TLC instance of the tools that produce evidence about the ports: mutation *)
(* measurements and their shards, what a cohort's run is taken for, the        *)
(* validation lanes, exploration, the model-property campaign, the symbolic    *)
(* checker and the generated fixtures.  A behaviour exercises one of them, the *)
(* others rest in an initial state.                                            *)
EXTENDS MutationShards, EvidenceLanes, Exploration, TLC

CONSTANTS Pending, p1, p2, c1, c2, s1, s2

VARIABLES component,
          port, cohorts, shown, baseline, boundary, crossed, gate,
          only, lists, entry, at, partitionCache, complete, given, truth,
          symbolicInputs, symbolicReport, step, evidence, server, listener, job, checks,
          sources, file, lock, mode, stage, book, export, output, invocations,
          sourceEdits, quiet, verified

evidenceVars == <<port, cohorts, shown, baseline, boundary, crossed, gate>>
campaignVars == <<only, lists, entry, at, partitionCache, complete, given, truth>>
symbolicVars == <<symbolicInputs, symbolicReport, step, evidence, server, listener, job,
                  checks>>
fixtureVars == <<sources, file, lock, mode, stage, book, export, output, invocations,
                 sourceEdits, quiet, verified>>

\* Two mutants, so two shards hold one each; a partial run names the second.
TwoMutants == <<"M01", "M02">>
Selections == {{"M02"}}
Measurements == ("ts" :> 2) @@ ("go" :> 3) @@ ("rust" :> 2)

Evidence == INSTANCE CohortEvidence WITH
    Tests <- 2, Fields <- {"loaders", "value"}, Counters <- {"loaders"}, LastStep <- 1

\* Two invocations of make, of one port's lane or of everything, and an
\* exploration of two ports under the first of two seeds.
OneLane == <<"ts">>
BothPorts == <<"typescript", "go">>

\* Two challenges whose faults are different texts; one reaches both profiles, one
\* of them already proven by its reproducer.
Campaign == INSTANCE ModelProperties WITH
    Challenges <- {"a", "b"}, Reproduced <- {"a", "b"}, FaultOf <- [c \in {"a", "b"} |-> c],
    Reaches <- ("a" :> {"p", "q"}) @@ ("b" :> {"p"}),
    Proven <- ("a" :> {"q"}) @@ ("b" :> {}), Profiles <- <<"p", "q">>,
    Lists <- {[listed |-> {"p"}, excluded |-> {}], [listed |-> {"q"}, excluded |-> {"p"}],
              [listed |-> {}, excluded |-> {"p"}]},
    Runs <- {"r"}, Null <- None, shown <- given

\* Two models; a reflection request may be answered in full, without descriptors,
\* too late, or not at all.
Exchange(events, status, framed, descriptors) ==
    [events |-> events,
     answer |-> [status |-> status, framed |-> framed, descriptors |-> descriptors]]
Symbolic == INSTANCE SymbolicCheck WITH
    Plan <- <<"a", "b">>, Nothing <- None, MaxChecks <- 2, MaxChanges <- 1,
    Exchanges <- {Exchange(<<"headers", "data", "end", "close">>, "ok", TRUE, 1),
                  Exchange(<<"headers", "data", "end", "close">>, "ok", TRUE, 0),
                  Exchange(<<"headers", "timeout", "end">>, "ok", TRUE, 1),
                  Exchange(<<"close">>, "none", FALSE, 0)},
    inputs <- symbolicInputs, report <- symbolicReport, port <- listener

\* Two artifacts that share a model with an import; the other runs a named run.
Generated == INSTANCE Fixtures WITH
    Artifacts <- <<"f", "g">>, Uses <- ("f" :> {"m"}) @@ ("g" :> {"m", "n"}),
    Imports <- ("m" :> {"lib"}) @@ ("n" :> {}), Named <- {"n"}, Nothing <- None,
    MaxRuns <- 3, MaxEdits <- 2, tree <- sources, runs <- invocations,
    edits <- sourceEdits

-----------------------------------------------------------------------------

\* A component that rests does so in one of its own initial states.
MCInit ==
    /\ component \in {"shards", "evidence", "lanes", "exploration", "campaign", "symbolic",
                      "fixtures"}
    /\ Init /\ (component # "shards" => language = "go")
    /\ Evidence!Init /\ (component # "evidence" => port = "go")
    /\ LanesInit /\ ExplorationInit /\ Campaign!Init
    /\ Symbolic!Init /\ Generated!Init
    /\ component # "campaign" =>
          only = None /\ \A c \in {"a", "b"} : lists[c] = [listed |-> {"p"}, excluded |-> {}]

\* Only the component of the behaviour moves.
Rests(c) ==
    /\ component = c /\ UNCHANGED component
    /\ c # "shards" => UNCHANGED shardVars
    /\ c # "evidence" => UNCHANGED evidenceVars
    /\ c # "lanes" => UNCHANGED lanesVars
    /\ c # "exploration" => UNCHANGED explorationVars
    /\ c # "campaign" => UNCHANGED campaignVars
    /\ c # "symbolic" => UNCHANGED symbolicVars
    /\ c # "fixtures" => UNCHANGED fixtureVars

MCNext ==
    \/ Rests("shards") /\ Next
    \/ Rests("evidence") /\ Evidence!Next
    \/ Rests("lanes") /\ LanesNext
    \/ Rests("exploration") /\ ExplorationNext
    \/ Rests("campaign") /\ Campaign!Next
    \/ Rests("symbolic") /\ Symbolic!Next
    \/ Rests("fixtures") /\ Generated!Next

MCSpec ==
    MCInit /\ [][MCNext]_<<component, shardVars, evidenceVars, lanesVars,
                           explorationVars, campaignVars, symbolicVars,
                           fixtureVars>>

-----------------------------------------------------------------------------
(* The properties of the instances *)

\* A mutant is credited to a cohort or a boundary only on evidence, never on a
\* crash or a settlement failure (CohortEvidence, classifyCohort).
CreditNeedsEvidence == component = "evidence" => Evidence!CreditNeedsEvidence

\* A complete campaign credits each profile with what that challenge's own fault
\* did to it (ModelProperties, profileMeasurement).
CampaignIsEvidence == component = "campaign" => Campaign!CampaignIsEvidence

\* A complete symbolic report is the owned solver's word on the inputs it names
\* (SymbolicCheck, validateSymbolicResult), and fixtures that verify are what the
\* tree's models give (Fixtures, verifyFixtures).
PassesAreOfTheTree ==
    /\ component = "symbolic" => Symbolic!SymbolicPassIsOwned
    /\ component = "fixtures" => Generated!VerifiedFixturesAreGenerated
=============================================================================
